------------------------------ MODULE Shutdown ------------------------------
(***************************************************************************)
(* Shutting down and logging off: src/apilibs/kexbases/User32/exit.c, with *)
(* what main.c does in a process that starts meanwhile.                    *)
(*                                                                         *)
(* ExitWindowsEx posts a request to the shutdown thread of the kernel      *)
(* process.  It goes through the processes again and again, asks each      *)
(* one's windows and terminates it, until no ordinary process is left but  *)
(* the shell, or until it takes too long; it ends the shell, and, but for  *)
(* a log off, the services the same way.  The user may abort it.  A        *)
(* program that uses kexbases may not start meanwhile, others may.         *)
(*                                                                         *)
(* There is one session.  The order by shutdown levels is left out: the    *)
(* thread takes the processes of a pass in any order.                      *)
(***************************************************************************)
EXTENDS Integers, FiniteSets, Sequences

CONSTANTS
  Users,      \* ordinary processes
  Services,
  Kernel,     \* the kernel process
  Hooked,     \* processes that load kexbases
  Callers,    \* of ExitWindowsEx, once each
  Null

Procs == Users \cup Services \cup {Kernel}

ASSUME ShutdownAssumption ==
  /\ Kernel \notin Users \cup Services /\ Users \cap Services = {}
  /\ Hooked \subseteq Users /\ Null \notin Procs
  /\ IsFiniteSet(Users) /\ IsFiniteSet(Services)

Requests == [kind : {"logoff", "off", "restart"}, force : BOOLEAN]

VARIABLES
  status,     \* of each process
  unopenable, \* processes that OpenProcess fails for
  shell,      \* GetShellWindow's process
  calls,      \* where each call of ExitWindowsEx is
  queue,      \* of the shutdown thread's messages
  fShutdown, fAborted, fForceShutdown,
  late,       \* LogoffTimeout has passed since the request was taken
  dialogs,    \* there are message boxes of the kernel process
  pc,         \* where the shutdown thread is
  sa,         \* its SHUTDOWNDATA
  pProcess,   \* the processes of this pass that it has still to look at
  asked       \* the one whose windows it asks

processVars == <<status, unopenable, shell>>
requestVars == <<calls, queue>>
flagVars    == <<fShutdown, fAborted, fForceShutdown>>
passVars    == <<pProcess, asked>>
vars == <<processVars, requestVars, flagVars, late, dialogs, pc, sa, passVars>>

Alive == {p \in Procs : status[p] \in {"starting", "refused", "running"}}

ShutdownTypeOK ==
  /\ status \in [Procs -> {"none", "starting", "refused", "running", "ended"}]
  /\ status[Kernel] = "running"
  /\ unopenable \subseteq Users \cup Services /\ shell \in Alive \cup {Null}
  /\ calls \in [Callers -> {"out", "checked", "done"}]
  /\ queue \in Seq(Requests)
  /\ fShutdown \in BOOLEAN /\ fAborted \in BOOLEAN /\ fForceShutdown \in BOOLEAN
  /\ late \in BOOLEAN /\ dialogs \in BOOLEAN
  /\ pc \in {"get", "list", "next", "ask", "close", "count", "closeall", "shell", "off", "safe",
             "flush"}
  /\ sa \in [request : Requests, fEndServices : BOOLEAN, shell : Procs \cup {Null}]
  /\ pProcess \subseteq Procs /\ asked \in Procs \cup {Null}

-----------------------------------------------------------------------------
(* Processes *)

\* A process is in the system's list before it has loaded its libraries.
Create(p) ==
  /\ status[p] = "none"
  /\ status' = [status EXCEPT ![p] = IF p \in Hooked THEN "starting" ELSE "running"]
  /\ UNCHANGED <<unopenable, shell, requestVars, flagVars, late, dialogs, pc, sa, passVars>>

\* Mutation: the libraries are initialised during a log off.
DllMainLogoff(p) ==
  /\ status[p] = "starting"
  /\ status' = [status EXCEPT ![p] =
                  IF fShutdown /\ sa.request.kind # "logoff" THEN "refused" ELSE "running"]
  /\ UNCHANGED <<unopenable, shell, requestVars, flagVars, late, dialogs, pc, sa, passVars>>

\* Mutation: or while the services are ended.
DllMainServices(p) ==
  /\ status[p] = "starting"
  /\ status' = [status EXCEPT ![p] =
                  IF fShutdown /\ ~sa.fEndServices THEN "refused" ELSE "running"]
  /\ UNCHANGED <<unopenable, shell, requestVars, flagVars, late, dialogs, pc, sa, passVars>>

\* DllMain, DLL_PROCESS_ATTACH: a refused process waits for the user to read why.
DllMain(p) ==
  /\ status[p] = "starting"
  /\ status' = [status EXCEPT ![p] = IF fShutdown THEN "refused" ELSE "running"]
  /\ UNCHANGED <<unopenable, shell, requestVars, flagVars, late, dialogs, pc, sa, passVars>>

\* It exits, by itself or because it was told or refused.
Exit(p) ==
  /\ p \in Alive \ (unopenable \cup {Kernel})
  /\ status' = [status EXCEPT ![p] = "ended"]
  /\ shell' = IF shell = p THEN Null ELSE shell
  /\ UNCHANGED <<unopenable, requestVars, flagVars, late, dialogs, pc, sa, passVars>>

SetShellWindow(p) ==
  /\ shell = Null /\ p \in Users /\ status[p] = "running"
  /\ shell' = p
  /\ UNCHANGED <<status, unopenable, requestVars, flagVars, late, dialogs, pc, sa, passVars>>

\* Mutation: the kernel process is terminated like the others.
TerminateKernel(p) ==
  IF p \in Alive \ unopenable
  THEN /\ status' = [status EXCEPT ![p] = "ended"]
       /\ shell' = IF shell = p THEN Null ELSE shell
  ELSE UNCHANGED <<status, shell>>

\* TerminateProcess, if the process can be opened and is not the kernel's.
Terminate(p) ==
  IF p \in Alive \ (unopenable \cup {Kernel})
  THEN /\ status' = [status EXCEPT ![p] = "ended"]
       /\ shell' = IF shell = p THEN Null ELSE shell
  ELSE UNCHANGED <<status, shell>>

-----------------------------------------------------------------------------
(* ExitWindowsEx: it looks at fShutdown, and posts the request later. *)

ExitWindowsEx(c) ==
  /\ calls[c] = "out"
  /\ calls' = [calls EXCEPT ![c] = IF fShutdown THEN "done" ELSE "checked"]
  /\ UNCHANGED <<processVars, queue, flagVars, late, dialogs, pc, sa, passVars>>

Post(c) ==
  /\ calls[c] = "checked"
  /\ \E r \in Requests : queue' = Append(queue, r)
  /\ calls' = [calls EXCEPT ![c] = "done"]
  /\ UNCHANGED <<processVars, flagVars, late, dialogs, pc, sa, passVars>>

-----------------------------------------------------------------------------
(* The shutdown thread *)

TakeRequest ==
  /\ pc = "get" /\ queue # <<>>
  /\ fShutdown' = TRUE /\ late' = FALSE
  /\ sa' = [sa EXCEPT !.request = Head(queue), !.fEndServices = FALSE]
  /\ queue' = Tail(queue) /\ pc' = "list"
  /\ UNCHANGED <<processVars, calls, fAborted, fForceShutdown, dialogs, passVars>>

\* Mutation: what forced this request forces the next.
FinishedForced ==
  /\ fAborted' = FALSE /\ fShutdown' = FALSE
  /\ pc' = "get"
  /\ UNCHANGED fForceShutdown

\* The label "finished".
Finished ==
  /\ fAborted' = FALSE /\ fShutdown' = FALSE /\ fForceShutdown' = FALSE
  /\ pc' = "get"

\* LogoffCurrentUser takes a list of the processes.
EnumProcesses ==
  /\ pc = "list"
  /\ pProcess' = Alive /\ pc' = "next"
  /\ UNCHANGED <<processVars, requestVars, flagVars, late, dialogs, sa, asked>>

\* The passes are over.
Leave == IF sa.fEndServices THEN "flush" ELSE "closeall"

\* Time-out: "Force processes to terminate".  The rest of the pass is left.
TimeOut ==
  /\ pc = "next" /\ late /\ ~fForceShutdown
  /\ fForceShutdown' = TRUE /\ pc' = Leave
  /\ UNCHANGED <<processVars, requestVars, fShutdown, fAborted, late, dialogs, sa, passVars>>

\* What EnumProcessesProc skips before it looks for the shell.
OfThisPass(p) == (p \in Services) = sa.fEndServices

\* EnumProcessesProc, before it asks.
LookAt(p) ==
  /\ pc = "next" /\ (late => fForceShutdown) /\ p \in pProcess
  /\ pProcess' = pProcess \ {p}
  /\ IF p \in Alive /\ OfThisPass(p)
       THEN /\ sa' = [sa EXCEPT !.shell = shell]
            /\ IF p = shell THEN pc' = "close" /\ UNCHANGED asked
                            ELSE pc' = "ask" /\ asked' = p
       ELSE pc' = "close" /\ UNCHANGED <<sa, asked>>
  /\ UNCHANGED <<processVars, requestVars, flagVars, late, dialogs>>

\* Its windows agree, or are not to be waited for: it is terminated.  (While the
\* user says to wait, they are asked again.)
Continue ==
  /\ pc = "ask"
  /\ Terminate(asked)
  /\ pc' = "close" /\ asked' = Null
  /\ UNCHANGED <<unopenable, requestVars, flagVars, late, dialogs, sa, pProcess>>

\* A window refuses, and the user aborts.
Abort ==
  /\ pc = "ask" /\ ~sa.request.force /\ ~sa.fEndServices
  /\ fAborted' = TRUE
  /\ pc' = "count" /\ asked' = Null /\ pProcess' = {}
  /\ UNCHANGED <<processVars, requestVars, fShutdown, fForceShutdown, late, dialogs, sa>>

\* DestroyKernelWnd: it may find that it takes too long.
DestroyKernelWnd ==
  /\ pc \in {"close", "closeall"}
  /\ fForceShutdown' = (fForceShutdown \/ (dialogs /\ late /\ sa.request.kind # "logoff"))
  /\ pc' = IF pc = "closeall" THEN "shell" ELSE "next"
  /\ UNCHANGED <<processVars, requestVars, fShutdown, fAborted, late, dialogs, sa, passVars>>

Size(S) == Cardinality(S)

\* Mutation: every service counts.
UserProcessesCountAll ==
  Size({p \in Alive \ {Kernel, sa.shell} : OfThisPass(p)})

\* GetUserProcessesCount: one of the services is not counted, as it may be one that
\* nothing ends.
UserProcessesCount ==
  LET n == Size({p \in Alive \ {Kernel, sa.shell} : OfThisPass(p)}) IN
  IF sa.fEndServices /\ n > 0 THEN n - 1 ELSE n

Again ==
  /\ \/ pc = "count"
     \/ pc = "next" /\ pProcess = {} /\ (late => fForceShutdown)
  /\ IF UserProcessesCount > 0 /\ ~fAborted THEN pc' = "list" /\ UNCHANGED flagVars
     ELSE IF fAborted /\ ~sa.fEndServices THEN Finished
     ELSE pc' = Leave /\ UNCHANGED flagVars
  /\ UNCHANGED <<processVars, requestVars, late, dialogs, sa, passVars>>

\* "Now terminate the shell process"; then the services, unless it is a log off.
\* Without msgsrv32 it is shut down at once.
TerminateShell ==
  /\ pc = "shell"
  /\ IF sa.shell # Null /\ ~fForceShutdown THEN Terminate(sa.shell)
                                           ELSE UNCHANGED <<status, shell>>
  /\ IF sa.request.kind = "logoff" THEN pc' = "flush" /\ UNCHANGED sa
     ELSE \/ pc' = "off" /\ UNCHANGED sa
          \/ pc' = "list" /\ sa' = [sa EXCEPT !.fEndServices = TRUE]
  /\ UNCHANGED <<unopenable, requestVars, flagVars, late, dialogs, passVars>>

\* The system is off, or shows that it may be switched off; or Windows logs off, or
\* starts again, in this thread.
Flush ==
  /\ pc = "flush"
  /\ IF sa.request.kind = "off" THEN pc' \in {"off", "safe"} /\ UNCHANGED flagVars
                                ELSE Finished
  /\ UNCHANGED <<processVars, requestVars, late, dialogs, sa, passVars>>

LogoffTimeout ==
  /\ ~late /\ pc # "get"
  /\ late' = TRUE
  /\ UNCHANGED <<processVars, requestVars, flagVars, dialogs, pc, sa, passVars>>

-----------------------------------------------------------------------------
Init ==
  /\ \E some \in SUBSET Users :
       status = [p \in Procs |-> IF p \in some \/ p \notin Users THEN "running" ELSE "none"]
  /\ unopenable \in SUBSET (Users \cup Services)
  /\ shell \in {Null} \cup {p \in Users : status[p] = "running"}
  /\ calls = [c \in Callers |-> "out"] /\ queue = <<>>
  /\ fShutdown = FALSE /\ fAborted = FALSE /\ fForceShutdown = FALSE /\ late = FALSE
  /\ dialogs \in BOOLEAN
  /\ pc = "get"
  /\ sa = [request |-> [kind |-> "logoff", force |-> FALSE], fEndServices |-> FALSE,
           shell |-> Null]
  /\ pProcess = {} /\ asked = Null

ShutdownThread ==
  \/ TakeRequest \/ EnumProcesses \/ TimeOut \/ (\E p \in Procs : LookAt(p))
  \/ Continue \/ Abort \/ DestroyKernelWnd \/ Again \/ TerminateShell \/ Flush

Next ==
  \/ ShutdownThread
  \/ LogoffTimeout
  \/ \E c \in Callers : ExitWindowsEx(c) \/ Post(c)
  \/ \E p \in Procs : Create(p) \/ DllMain(p) \/ Exit(p) \/ SetShellWindow(p)

ShutdownSpec == Init /\ [][Next]_vars /\ WF_vars(ShutdownThread) /\ WF_vars(LogoffTimeout)

-----------------------------------------------------------------------------
(* Properties *)

(* "Skip the shell process because it must be the last process running in    *)
(* the session" (exit.c, 388): when it is ended no other program with        *)
(* kexbases runs, whatever started while the others were asked, unless the   *)
(* shut down is forced, and none after the user aborted it.                  *)
ShellLast ==
  (pc = "shell" /\ sa.shell # Null /\ ~fForceShutdown) =>
    /\ \A p \in Hooked : status[p] = "running" => p = sa.shell
    /\ ~fAborted

(* Services are ended after the programs with kexbases, "the system is       *)
(* terminating services processes" (823): no such program loses one it uses, *)
(* but when the log off took too long or OpenProcess fails for the program.  *)
ServicesLast ==
  (pc # "get" /\ sa.fEndServices /\ ~fForceShutdown) =>
    \A p \in Hooked : status[p] = "running" => p \in unopenable

(* A request ends, "shut down doesn't take more than 2 minutes" (42): the    *)
(* system is off or may be switched off, or the thread takes requests again. *)
(* That is so if one service at most cannot be ended, and no other process   *)
(* when the kernel process has message boxes: their own look at the time     *)
(* turns off the one that leaves the passes.  It also needs an answer from   *)
(* windows that the user says to wait for.                                   *)
CanEnd ==
  /\ Size(unopenable \cap Services) <= 1
  /\ dialogs => unopenable \cap Users = {}

RequestEnds == CanEnd => (pc = "list" ~> pc \in {"get", "off", "safe"})

(* An aborted or timed out request does not change the next: it has no       *)
(* flags of its own, and it is not forced before its time.                   *)
ForcedWhenLate == fForceShutdown => late /\ fShutdown

=============================================================================
