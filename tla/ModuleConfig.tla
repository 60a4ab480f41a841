---------------------------- MODULE ModuleConfig ----------------------------
(***************************************************************************)
(* What the resolver promises about the configuration of modules, without  *)
(* saying where settings come from: each module of a process is decided    *)
(* once and stays so until it is unloaded, no module is decided before the *)
(* executable of its process, and an executable whose setting overrides    *)
(* per-module settings decides for all its modules.                        *)
(***************************************************************************)
CONSTANTS
  Procs, Paths,     \* processes, and the modules they may load
  Decided,          \* settings a module may be decided to have
  Overrides(_),     \* the setting is for all modules in the process
  Absent, Undecided,\* not loaded; loaded and never resolved for
  NoPath            \* the process has not started

VARIABLES exe, decision

vars == <<exe, decision>>

Init == /\ exe = [p \in Procs |-> NoPath]
        /\ decision = [p \in Procs |-> [m \in Paths |-> Absent]]

Start(p, x) ==
  /\ exe[p] = NoPath
  /\ exe' = [exe EXCEPT ![p] = x]
  /\ decision' = [decision EXCEPT ![p][x] = Undecided]

Load(p, m) ==
  /\ exe[p] # NoPath /\ decision[p][m] = Absent /\ m # exe[p]
  /\ decision' = [decision EXCEPT ![p][m] = Undecided]
  /\ UNCHANGED exe

Unload(p, m) ==
  /\ exe[p] # NoPath /\ m # exe[p]
  /\ decision' = [decision EXCEPT ![p][m] = Absent]
  /\ UNCHANGED exe

\* A process that ends leaves all its modules at once.
End(p) ==
  /\ exe[p] # NoPath
  /\ decision' = [decision EXCEPT ![p] = [m \in Paths |-> Absent]]
  /\ UNCHANGED exe

\* Modules not yet decided become so: none before the executable, and all
\* with its setting when that overrides theirs.
Decide(p) ==
  /\ exe[p] # NoPath
  /\ decision' \in [Procs -> [Paths -> Decided \cup {Undecided, Absent}]]
  /\ \A q \in Procs \ {p} : decision'[q] = decision[q]
  /\ \A m \in Paths : decision'[p][m] # decision[p][m] =>
       /\ decision[p][m] = Undecided
       /\ decision'[p][m] \in Decided
       /\ decision'[p][exe[p]] \in Decided
       /\ Overrides(decision'[p][exe[p]]) =>
            decision'[p][m] = decision'[p][exe[p]]
  /\ UNCHANGED exe

Next ==
  \E p \in Procs :
    \/ End(p)
    \/ Decide(p)
    \/ \E m \in Paths : Start(p, m) \/ Load(p, m) \/ Unload(p, m)

Spec == Init /\ [][Next]_vars

=============================================================================
