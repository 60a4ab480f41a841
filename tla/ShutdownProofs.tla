---------------------------- MODULE ShutdownProofs ----------------------------
(***************************************************************************)
(* For any processes, services and callers: how the shutdown thread's      *)
(* flags belong to its requests, and in which order it ends programs.      *)
(***************************************************************************)
EXTENDS Shutdown, FiniteSetTheorems, TLAPS

\* A request is in progress exactly while fShutdown is set.
Requesting == fShutdown <=> pc # "get"

\* The user's abort is looked at by the next step of the thread.
AbortIsNext == fAborted => pc = "count" /\ ~sa.fEndServices

\* The shell is ended before the services.
ShellFirst == pc \in {"closeall", "shell"} => ~sa.fEndServices

\* What has been ended of the programs when the shell is: ShellLast, a step before.
ProgramsEnded ==
  (pc \in {"closeall", "shell"} /\ ~fForceShutdown) =>
    \A p \in Hooked : status[p] = "running" => p = sa.shell

\* The induction hypothesis.
FlagsInv == Requesting /\ ForcedWhenLate /\ AbortIsNext /\ ShellFirst
IndInv   == ShutdownTypeOK /\ FlagsInv /\ ProgramsEnded /\ ServicesLast

-----------------------------------------------------------------------------
LEMMA InitInv == Init => IndInv
<1> SUFFICES ASSUME Init PROVE IndInv
  OBVIOUS
<1> USE ShutdownAssumption
<1>1. ShutdownTypeOK
  <2>1. PICK some \in SUBSET Users :
          status = [p \in Procs |-> IF p \in some \/ p \notin Users THEN "running" ELSE "none"]
    BY DEF Init
  <2>2. /\ status \in [Procs -> {"none", "starting", "refused", "running", "ended"}]
        /\ status[Kernel] = "running"
    BY <2>1 DEF Procs
  <2>3. shell \in Alive \cup {Null}
    BY DEF Init, Alive, Procs
  <2>4. queue \in Seq(Requests)
    BY DEF Init
  <2>5. sa \in [request : Requests, fEndServices : BOOLEAN, shell : Procs \cup {Null}]
    BY DEF Init, Requests
  <2> QED
    BY <2>2, <2>3, <2>4, <2>5 DEF Init, ShutdownTypeOK
<1>2. FlagsInv /\ ProgramsEnded /\ ServicesLast
  BY DEF Init, FlagsInv, Requesting, ForcedWhenLate, AbortIsNext, ShellFirst, ProgramsEnded,
         ServicesLast
<1> QED
  BY <1>1, <1>2 DEF IndInv

(* What terminating a process may change, and that it does end it.          *)
LEMMA TerminateFacts ==
  ASSUME ShutdownTypeOK, NEW p \in Procs, Terminate(p)
  PROVE  /\ status' \in [Procs -> {"none", "starting", "refused", "running", "ended"}]
         /\ status'[Kernel] = "running"
         /\ shell' \in Alive' \cup {Null}
         /\ \A q \in Procs : status'[q] # status[q] => status'[q] = "ended"
         /\ p \in Users /\ status'[p] = "running" => p \in unopenable
<1> USE ShutdownAssumption DEF ShutdownTypeOK, Alive, Procs
<1>1. CASE p \in Alive \ (unopenable \cup {Kernel})
  BY <1>1 DEF Terminate
<1>2. CASE p \notin Alive \ (unopenable \cup {Kernel})
  BY <1>2 DEF Terminate
<1> QED
  BY <1>1, <1>2

LEMMA TypeNext == ShutdownTypeOK /\ [Next]_vars => ShutdownTypeOK'
<1> SUFFICES ASSUME ShutdownTypeOK, [Next]_vars PROVE ShutdownTypeOK'
  OBVIOUS
<1> USE ShutdownAssumption DEF ShutdownTypeOK
<1>1. CASE TakeRequest
  <2>1. Head(queue) \in Requests /\ Tail(queue) \in Seq(Requests)
    BY <1>1 DEF TakeRequest
  <2>2. sa' \in [request : Requests, fEndServices : BOOLEAN, shell : Procs \cup {Null}]
    BY <1>1, <2>1 DEF TakeRequest
  <2> QED
    BY <1>1, <2>1, <2>2 DEF TakeRequest, processVars, passVars, Alive
<1>2. CASE EnumProcesses
  BY <1>2 DEF EnumProcesses, processVars, requestVars, flagVars, Alive
<1>3. CASE TimeOut
  BY <1>3 DEF TimeOut, Leave, processVars, requestVars, passVars, Alive
<1>4. ASSUME NEW p \in Procs, LookAt(p) PROVE ShutdownTypeOK'
  <2>1. shell \in Procs \cup {Null}
    BY DEF Alive
  <2> QED
    BY <1>4, <2>1 DEF LookAt, processVars, requestVars, flagVars, Alive
<1>5. CASE Continue
  <2>1. CASE asked \in Procs
    BY <1>5, <2>1, TerminateFacts DEF Continue, requestVars, flagVars
  <2>2. CASE asked = Null
    BY <1>5, <2>2 DEF Continue, Terminate, requestVars, flagVars, Alive
  <2> QED
    BY <2>1, <2>2
<1>6. CASE Abort
  BY <1>6 DEF Abort, processVars, requestVars, Alive
<1>7. CASE DestroyKernelWnd
  BY <1>7 DEF DestroyKernelWnd, processVars, requestVars, passVars, Alive
<1>8. CASE Again
  BY <1>8 DEF Again, Finished, Leave, processVars, requestVars, passVars, flagVars, Alive
<1>9. CASE TerminateShell
  <2> DEFINE Data == [request : Requests, fEndServices : BOOLEAN, shell : Procs \cup {Null}]
  <2>0. sa \in Data /\ [sa EXCEPT !.fEndServices = TRUE] \in Data
    OBVIOUS
  <2>1. sa' \in Data
    <3>1. sa' = sa \/ sa' = [sa EXCEPT !.fEndServices = TRUE]
      BY <1>9, Zenon DEF TerminateShell
    <3> QED
      BY <3>1, <2>0, Zenon
  <2>2. pc' \in {"flush", "off", "list"}
    BY <1>9 DEF TerminateShell
  <2>3. CASE sa.shell # Null /\ ~fForceShutdown
    BY <1>9, <2>1, <2>2, <2>3, TerminateFacts
       DEF TerminateShell, requestVars, flagVars, passVars
  <2>4. CASE ~(sa.shell # Null /\ ~fForceShutdown)
    BY <1>9, <2>1, <2>2, <2>4 DEF TerminateShell, requestVars, flagVars, passVars, Alive
  <2> QED
    BY <2>3, <2>4
<1>10. CASE Flush
  BY <1>10 DEF Flush, Finished, processVars, requestVars, passVars, flagVars, Alive
<1>11. CASE LogoffTimeout
  BY <1>11 DEF LogoffTimeout, processVars, requestVars, passVars, flagVars, Alive
<1>12. ASSUME NEW c \in Callers, ExitWindowsEx(c) PROVE ShutdownTypeOK'
  BY <1>12 DEF ExitWindowsEx, processVars, passVars, flagVars, Alive
<1>13. ASSUME NEW c \in Callers, Post(c) PROVE ShutdownTypeOK'
  BY <1>13 DEF Post, processVars, passVars, flagVars, Alive
<1>14. ASSUME NEW p \in Procs, Create(p) \/ DllMain(p) \/ Exit(p) \/ SetShellWindow(p)
       PROVE  ShutdownTypeOK'
  <2> USE DEF requestVars, passVars, flagVars, Alive
  <2>1. CASE Create(p)
    BY <2>1 DEF Create
  <2>2. CASE DllMain(p)
    BY <2>2 DEF DllMain
  <2>3. CASE Exit(p)
    BY <2>3 DEF Exit
  <2>4. CASE SetShellWindow(p)
    BY <2>4 DEF SetShellWindow, Procs
  <2> QED
    BY <1>14, <2>1, <2>2, <2>3, <2>4
<1>15. CASE UNCHANGED vars
  BY <1>15 DEF vars, processVars, requestVars, passVars, flagVars, Alive
<1> QED
  BY <1>1, <1>2, <1>3, <1>4, <1>5, <1>6, <1>7, <1>8, <1>9, <1>10, <1>11, <1>12, <1>13,
     <1>14, <1>15 DEF Next, ShutdownThread

-----------------------------------------------------------------------------
(* No flag outlives its request, and the passes keep their order.           *)
LEMMA FlagsNext == ShutdownTypeOK /\ FlagsInv /\ [Next]_vars => FlagsInv'
<1> SUFFICES ASSUME ShutdownTypeOK, FlagsInv, [Next]_vars PROVE FlagsInv'
  OBVIOUS
<1> USE DEF FlagsInv, Requesting, ForcedWhenLate, AbortIsNext, ShellFirst
<1>0. /\ fShutdown \in BOOLEAN /\ fForceShutdown \in BOOLEAN /\ fAborted \in BOOLEAN
      /\ late \in BOOLEAN
      /\ sa \in [request : Requests, fEndServices : BOOLEAN, shell : Procs \cup {Null}]
  BY DEF ShutdownTypeOK
<1>1. CASE TakeRequest
  BY <1>0, <1>1 DEF TakeRequest
<1>2. CASE EnumProcesses
  BY <1>0, <1>2 DEF EnumProcesses, flagVars
<1>3. CASE TimeOut
  BY <1>0, <1>3 DEF TimeOut, Leave
<1>4. ASSUME NEW p \in Procs, LookAt(p) PROVE FlagsInv'
  BY <1>0, <1>4 DEF LookAt, flagVars
<1>5. CASE Continue
  BY <1>0, <1>5 DEF Continue, flagVars
<1>6. CASE Abort
  BY <1>0, <1>6 DEF Abort
<1>7. CASE DestroyKernelWnd
  BY <1>0, <1>7 DEF DestroyKernelWnd
<1>8. CASE Again
  BY <1>0, <1>8 DEF Again, Finished, Leave, flagVars
<1>9. CASE TerminateShell
  BY <1>0, <1>9 DEF TerminateShell, flagVars
<1>10. CASE Flush
  BY <1>0, <1>10 DEF Flush, Finished, flagVars
<1>11. CASE LogoffTimeout
  BY <1>0, <1>11 DEF LogoffTimeout, flagVars
<1>12. ASSUME NEW c \in Callers, ExitWindowsEx(c) \/ Post(c) PROVE FlagsInv'
  BY <1>0, <1>12 DEF ExitWindowsEx, Post, flagVars
<1>13. ASSUME NEW p \in Procs, Create(p) \/ DllMain(p) \/ Exit(p) \/ SetShellWindow(p)
       PROVE  FlagsInv'
  BY <1>0, <1>13 DEF Create, DllMain, Exit, SetShellWindow, flagVars
<1>14. CASE UNCHANGED vars
  BY <1>0, <1>14 DEF vars, flagVars
<1> QED
  BY <1>1, <1>2, <1>3, <1>4, <1>5, <1>6, <1>7, <1>8, <1>9, <1>10, <1>11, <1>12, <1>13,
     <1>14 DEF Next, ShutdownThread

-----------------------------------------------------------------------------
(* When a pass leaves nobody to count, programs but the shell have ended:   *)
(* the kernel process and the services are not programs with kexbases.      *)
LEMMA NobodyLeft ==
  ASSUME ShutdownTypeOK, ~sa.fEndServices, ~(UserProcessesCount > 0)
  PROVE  \A p \in Hooked : status[p] = "running" => p = sa.shell
<1> USE ShutdownAssumption
<1> DEFINE left == {p \in Alive \ {Kernel, sa.shell} : OfThisPass(p)}
<1>1. IsFiniteSet(left)
  <2>1. IsFiniteSet(Users \cup Services \cup {Kernel})
    BY FS_Union, FS_Singleton
  <2> QED
    BY <2>1, FS_Subset DEF Alive, Procs
<1>2. left = {}
  <2>1. Cardinality(left) \in Nat /\ ~(Cardinality(left) > 0)
    BY <1>1, FS_CardinalityType DEF UserProcessesCount, Size
  <2> QED
    BY <1>1, <2>1, FS_EmptySet
<1>3. ASSUME NEW p \in Hooked, status[p] = "running" PROVE p = sa.shell
  <2>1. p \in Alive /\ p # Kernel /\ p \notin Services
    BY <1>3 DEF Alive, Procs
  <2>2. OfThisPass(p)
    BY <2>1, sa.fEndServices \in BOOLEAN DEF OfThisPass, ShutdownTypeOK
  <2> QED
    BY <1>2, <2>1, <2>2
<1> QED
  BY <1>3

(* While a request is carried out no program with kexbases begins to run.   *)
LEMMA NoneBegins ==
  ASSUME IndInv, fShutdown, [Next]_vars, NEW q \in Hooked, status'[q] = "running"
  PROVE  status[q] = "running"
<1> USE ShutdownAssumption DEF IndInv, ShutdownTypeOK
<1>1. q \in Procs
  BY DEF Procs
<1>2. CASE UNCHANGED status
  BY <1>2
<1>3. ASSUME NEW p \in Procs \cup {Null}, Terminate(p) PROVE status[q] = "running"
  BY <1>1, <1>3 DEF Terminate
<1>4. CASE Continue
  BY <1>3, <1>4 DEF Continue
<1>5. CASE TerminateShell
  BY <1>2, <1>3, <1>5 DEF TerminateShell
<1>6. ASSUME NEW p \in Procs, Create(p) \/ DllMain(p) \/ Exit(p) \/ SetShellWindow(p)
      PROVE  status[q] = "running"
  <2>1. CASE Create(p)
    BY <1>1, <2>1 DEF Create
  <2>2. CASE DllMain(p)
    BY <1>1, <2>2 DEF DllMain
  <2>3. CASE Exit(p)
    BY <1>1, <2>3 DEF Exit
  <2>4. CASE SetShellWindow(p)
    BY <2>4 DEF SetShellWindow
  <2> QED
    BY <1>6, <2>1, <2>2, <2>3, <2>4
<1>7. UNCHANGED status \/ Continue \/ TerminateShell
        \/ \E p \in Procs : Create(p) \/ DllMain(p) \/ Exit(p) \/ SetShellWindow(p)
  BY DEF Next, ShutdownThread, vars, processVars, TakeRequest, EnumProcesses, TimeOut, LookAt,
         Abort, DestroyKernelWnd, Again, Flush, LogoffTimeout, ExitWindowsEx, Post
<1> QED
  BY <1>2, <1>4, <1>5, <1>6, <1>7

(* Where the thread goes on to end the shell without having been forced, it *)
(* has counted nobody; then the shell stays the same and none begins.       *)
LEMMA ProgramsNext == IndInv /\ [Next]_vars => ProgramsEnded'
<1> SUFFICES ASSUME IndInv, [Next]_vars, pc' \in {"closeall", "shell"}, ~fForceShutdown',
                    NEW q \in Hooked, status'[q] = "running"
             PROVE  q = sa'.shell
  BY DEF ProgramsEnded
<1> USE DEF IndInv, FlagsInv
<1>1. CASE Again
  <2>1. pc' = "closeall" /\ UNCHANGED flagVars /\ ~sa.fEndServices
    BY <1>1 DEF Again, Finished, Leave
  <2>2. ~fAborted
    BY <1>1, <2>1 DEF Again, Finished
  <2>3. ~(UserProcessesCount > 0)
    BY <1>1, <2>1, <2>2 DEF Again
  <2> QED
    BY <1>1, <2>1, <2>3, NobodyLeft DEF Again, processVars
<1>2. CASE DestroyKernelWnd
  <2>1. ~fForceShutdown /\ pc = "closeall" /\ UNCHANGED <<status, sa>>
    BY <1>2 DEF DestroyKernelWnd, processVars, ShutdownTypeOK
  <2> QED
    BY <2>1 DEF ProgramsEnded
<1>3. CASE UNCHANGED <<pc, sa, fForceShutdown>>
  <2>1. status[q] = "running"
    <3>1. fShutdown
      BY <1>3 DEF Requesting
    <3> QED
      BY <3>1, NoneBegins
  <2> QED
    BY <1>3, <2>1 DEF ProgramsEnded
<1>4. Again \/ DestroyKernelWnd \/ UNCHANGED <<pc, sa, fForceShutdown>>
  <2>1. CASE TimeOut
    BY <2>1 DEF TimeOut
  <2>2. CASE Flush
    BY <2>2 DEF Flush, Finished
  <2> QED
    BY <2>1, <2>2 DEF Next, ShutdownThread, vars, flagVars, TakeRequest, EnumProcesses, LookAt,
       Continue, Abort, TerminateShell, LogoffTimeout, ExitWindowsEx, Post, Create, DllMain, Exit,
       SetShellWindow
<1> QED
  BY <1>1, <1>2, <1>3, <1>4

(* The services are begun with when the shell was ended, if it could be.    *)
LEMMA ServicesNext == IndInv /\ [Next]_vars => ServicesLast'
<1> SUFFICES ASSUME IndInv, [Next]_vars, pc' # "get", sa'.fEndServices, ~fForceShutdown',
                    NEW q \in Hooked, status'[q] = "running"
             PROVE  q \in unopenable'
  BY DEF ServicesLast
<1> USE DEF IndInv, FlagsInv
<1>0. sa \in [request : Requests, fEndServices : BOOLEAN, shell : Procs \cup {Null}]
  BY DEF ShutdownTypeOK
<1>1. UNCHANGED unopenable
  BY DEF Next, ShutdownThread, vars, processVars, TakeRequest, EnumProcesses, TimeOut, LookAt,
         Continue, Abort, DestroyKernelWnd, Again, TerminateShell, Flush, LogoffTimeout,
         ExitWindowsEx, Post, Create, DllMain, Exit, SetShellWindow
<1>2. ~fForceShutdown
  BY <1>0 DEF Next, ShutdownThread, vars, flagVars, TakeRequest, EnumProcesses, TimeOut, LookAt,
         Continue, Abort, DestroyKernelWnd, Again, TerminateShell, Flush, LogoffTimeout, Finished,
         ExitWindowsEx, Post, Create, DllMain, Exit, SetShellWindow, ShutdownTypeOK
<1>3. CASE sa.fEndServices /\ pc # "get"
  <2>1. status[q] = "running"
    BY <1>3, NoneBegins DEF Requesting
  <2> QED
    BY <1>1, <1>2, <1>3, <2>1 DEF ServicesLast
<1>4. CASE ~(sa.fEndServices /\ pc # "get")
  <2>1. TerminateShell
    BY <1>0, <1>4 DEF Next, ShutdownThread, vars, TakeRequest, EnumProcesses, TimeOut, LookAt,
           Continue, Abort, DestroyKernelWnd, Again, Flush, LogoffTimeout, Finished,
           ExitWindowsEx, Post, Create, DllMain, Exit, SetShellWindow
  <2>2. status[q] = "running"
    BY <2>1, NoneBegins DEF Requesting, TerminateShell
  <2>3. q = sa.shell
    BY <1>2, <2>1, <2>2 DEF ProgramsEnded, TerminateShell
  <2>4. q \in Users /\ q # Null /\ q \in Procs
    BY ShutdownAssumption DEF Procs
  <2>5. Terminate(q)
    BY <1>2, <2>1, <2>3, <2>4 DEF TerminateShell
  <2> QED
    BY <1>1, <2>4, <2>5, TerminateFacts
<1> QED
  BY <1>3, <1>4

LEMMA NextInv == IndInv /\ [Next]_vars => IndInv'
  BY TypeNext, FlagsNext, ProgramsNext, ServicesNext DEF IndInv

-----------------------------------------------------------------------------
LEMMA Invariant == ShutdownSpec => []IndInv
  BY InitInv, NextInv, PTL DEF ShutdownSpec

(* The variables of the shutdown thread and of processes have their types:   *)
(* the kernel process, which does it all, is never ended.                    *)
THEOREM ShutdownTypeCorrect == ShutdownSpec => []ShutdownTypeOK
<1>1. IndInv => ShutdownTypeOK
  BY DEF IndInv
<1> QED
  BY <1>1, Invariant, PTL

(* A request is forced only when its own time is over, and leaves nothing    *)
(* behind: ShutdownThread resets fForceShutdown and fAborted at "finished".  *)
THEOREM ForcedOnlyWhenLate == ShutdownSpec => []ForcedWhenLate
<1>1. IndInv => ForcedWhenLate
  BY DEF IndInv, FlagsInv
<1> QED
  BY <1>1, Invariant, PTL

(* For any number of programs that start and end while they are asked, the   *)
(* shell is the last program with kexbases that ShutdownThread ends.         *)
THEOREM ShellIsLast == ShutdownSpec => []ShellLast
<1>1. IndInv => ShellLast
  <2> SUFFICES ASSUME IndInv, pc = "shell", ~fForceShutdown
               PROVE  (\A p \in Hooked : status[p] = "running" => p = sa.shell) /\ ~fAborted
    BY DEF ShellLast
  <2>1. ~fAborted
    BY DEF IndInv, FlagsInv, AbortIsNext
  <2> QED
    BY <2>1 DEF IndInv, ProgramsEnded
<1> QED
  BY <1>1, Invariant, PTL

(* And the services are ended only after the programs with kexbases, as far  *)
(* as OpenProcess lets it.                                                   *)
THEOREM ServicesAreLast == ShutdownSpec => []ServicesLast
<1>1. IndInv => ServicesLast
  BY DEF IndInv
<1> QED
  BY <1>1, Invariant, PTL

===============================================================================
