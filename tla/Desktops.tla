------------------------------ MODULE Desktops ------------------------------
(***************************************************************************)
(* Desktops: src/apilibs/kexbases/User32/desktop.c and winsta.c, with the  *)
(* handles and references of src/core/kexcoresdk.cpp.                      *)
(*                                                                         *)
(* A thread is on a desktop and one desktop, the input desktop, is shown.  *)
(* Programs create, open and close desktops, put their threads on them and *)
(* switch to another one, all under the Win16 lock.  A thread of the       *)
(* kernel process, the desktop thread, hides the windows of threads that   *)
(* are not on the input desktop and shows those of the others, under no    *)
(* lock that the programs take; a switch waits until it has done so once.  *)
(*                                                                         *)
(* An action stands for what a function does under the Win16 lock, once    *)
(* between taking and releasing it.  Programs use no handle that they have *)
(* closed.  Threads and processes do not end.                              *)
(***************************************************************************)
EXTENDS Integers, FiniteSets

CONSTANTS
  Desks,      \* desktop objects, each created at most once
  Name,       \* of each desktop, in its window station
  Stations,   \* window stations
  Procs,
  Mpr,        \* the logon process, which creates the first desktops
  Plain,      \* processes that have not loaded kexbases
  Threads,
  ProcOf,     \* each thread's process
  Windows,    \* top-level windows
  Owner,      \* each window's thread
  Default,    \* the first input desktop,
  Winlogon,   \* the secured desktop,
  WinSta0,    \* and their window station
  MaxHandles, \* to a desktop that a process has with the same rights
  Null

ASSUME DesktopsAssumption ==
  /\ Null \notin Desks \cup Stations \cup Procs
  /\ Mpr \in Procs /\ WinSta0 \in Stations
  /\ {Default, Winlogon} \subseteq Desks /\ Default # Winlogon
  /\ Plain \subseteq Procs \ {Mpr}
  /\ ProcOf \in [Threads -> Procs] /\ Owner \in [Windows -> Threads]
  /\ MaxHandles \in Nat \ {0}
  /\ IsFiniteSet(Procs) /\ IsFiniteSet(Threads)

VARIABLES
  live,       \* desktops that are allocated, that is in a station's list
  gone,       \* desktops that were freed
  parent,     \* rpwinstaParent
  cReferences,
  handles,    \* a process's open handles by desktop
  secured,    \* processes with Winlogon in their handle table, also a closed one
  ppi,        \* who made Win32Process: "none", "attach" or "enum"
  rpwinsta, rpdeskStartup,
  rpdesk,     \* each thread's
  gpdeskInputDesktop, InputWindowStation,
  ActiveDesktop, \* each station's
  locked,     \* WSS_LOCKED of each station
  fNewDesktop,
  gpdeskSwitchEvent, \* is signalled; it resets itself
  switch,     \* where each thread is in SwitchDesktop, and to which desktop
  desktopThread,
  windows,    \* those that are created
  visible,    \* WS_VISIBLE
  wasvisible  \* WS_INTERNAL_WASVISIBLE

objectVars  == <<live, gone, parent, cReferences, handles, secured>>
processVars == <<ppi, rpwinsta, rpdeskStartup, rpdesk>>
inputVars   == <<gpdeskInputDesktop, InputWindowStation, ActiveDesktop, locked>>
switchVars  == <<fNewDesktop, gpdeskSwitchEvent, switch>>
windowVars  == <<desktopThread, windows, visible, wasvisible>>
vars == <<objectVars, processVars, inputVars, switchVars, windowVars>>

TypeOK ==
  /\ live \subseteq Desks /\ gone \subseteq Desks \ live
  /\ parent \in [Desks -> Stations \cup {Null}]
  /\ cReferences \in [Desks -> Nat]
  /\ handles \in [Procs -> [Desks -> 0..MaxHandles]]
  /\ secured \subseteq Procs
  /\ ppi \in [Procs -> {"none", "attach", "enum"}]
  /\ rpwinsta \in [Procs -> Stations \cup {Null}]
  /\ rpdeskStartup \in [Procs -> Desks \cup {Null}]
  /\ rpdesk \in [Threads -> Desks \cup {Null}]
  /\ gpdeskInputDesktop \in Desks \cup {Null}
  /\ InputWindowStation \in Stations
  /\ ActiveDesktop \in [Stations -> Desks \cup {Null}]
  /\ locked \in [Stations -> BOOLEAN]
  /\ fNewDesktop \in BOOLEAN /\ gpdeskSwitchEvent \in BOOLEAN
  /\ switch \in [Threads -> [at : {"out", "display", "tell", "wait"}, first : BOOLEAN,
                             desk : Desks \cup {Null}]]
  /\ desktopThread \in [at : {"top", "enum", "changed"}, todo : SUBSET Windows,
                        window : Windows \cup {Null}, hide : BOOLEAN]
  /\ windows \subseteq Windows /\ visible \in [Windows -> BOOLEAN] /\ wasvisible \in [Windows -> BOOLEAN]

-----------------------------------------------------------------------------
(* Handles *)

Has(p, d) == handles[p][d] > 0

\* kexAllocHandle counts a reference; others may be kept with it.
AllocHandle(p, d, kept) ==
  /\ handles[p][d] < MaxHandles
  /\ handles' = [handles EXCEPT ![p][d] = @ + 1]
  /\ cReferences' = [cReferences EXCEPT ![d] = @ + 1 + kept]
  /\ secured' = secured \cup {q \in {p} : d = Winlogon}

\* A thread of a process that has kexbases, attached and not in SwitchDesktop.
Calls(t) == ppi[ProcOf[t]] = "attach" /\ rpdesk[t] # Null /\ switch[t].at = "out"

-----------------------------------------------------------------------------
(* Creating, opening and closing *)

\* OpenDesktopA: by its name in the process's station.
OpenDesktop(t, d) ==
  /\ Calls(t) /\ d \in live /\ parent[d] = rpwinsta[ProcOf[t]]
  /\ AllocHandle(ProcOf[t], d, 0)
  /\ UNCHANGED <<live, gone, parent, processVars, inputVars, switchVars, windowVars>>

\* CreateDesktopA, if the station has none with its name.
CreateDesktop(t, d) ==
  LET p == ProcOf[t] IN
  /\ Calls(t) /\ d \notin live \cup gone /\ rpwinsta[p] # Null
  /\ \A e \in live : parent[e] = rpwinsta[p] => Name[e] # Name[d]
  /\ live' = live \cup {d}
  /\ parent' = [parent EXCEPT ![d] = rpwinsta[p]]
  /\ AllocHandle(p, d, 0)
  /\ ActiveDesktop' = [ActiveDesktop EXCEPT ![rpwinsta[p]] = IF @ = Null THEN d ELSE @]
  /\ UNCHANGED <<gone, processVars, gpdeskInputDesktop, InputWindowStation, locked,
                 switchVars, windowVars>>

\* OpenInputDesktop.
OpenInputDesktop(t) ==
  /\ Calls(t) /\ gpdeskInputDesktop \in live
  /\ AllocHandle(ProcOf[t], gpdeskInputDesktop, 0)
  /\ UNCHANGED <<live, gone, parent, processVars, inputVars, switchVars, windowVars>>

\* Mutation: it matters only on which desktop the process started.
StartupInUse(p, d) == rpdeskStartup[p] = d

\* A desktop that the process started on or that one of its threads is on.
InUse(p, d) == rpdeskStartup[p] = d \/ \E u \in Threads : ProcOf[u] = p /\ rpdesk[u] = d

\* With the last reference a desktop is freed, and is no longer its station's.
Release(d) ==
  IF cReferences'[d] < 1
  THEN /\ live' = live \ {d} /\ gone' = gone \cup {d}
       /\ ActiveDesktop' = [ActiveDesktop EXCEPT ![parent[d]] = IF @ = d THEN Null ELSE @]
  ELSE UNCHANGED <<live, gone, ActiveDesktop>>

\* Mutation: it is dereferenced once too often.
DereferenceTwice(d) ==
  /\ cReferences' = [cReferences EXCEPT ![d] = @ - 2]
  /\ Release(d)

\* The reference of the handle; that of its validation is given back as well.
Dereference(d) ==
  /\ cReferences' = [cReferences EXCEPT ![d] = @ - 1]
  /\ Release(d)

\* Mutation: the reference of the validation is not given back if it is in use.
CloseDesktopRefused(t, d) ==
  /\ Calls(t) /\ Has(ProcOf[t], d) /\ InUse(ProcOf[t], d)
  /\ cReferences[d] < 4
  /\ cReferences' = [cReferences EXCEPT ![d] = @ + 1]
  /\ UNCHANGED <<live, gone, parent, handles, secured, processVars, inputVars, switchVars,
                 windowVars>>

\* CloseDesktop.  The handle stays in the table.  A desktop in use is not closed.
CloseDesktop(t, d) ==
  LET p == ProcOf[t] IN
  /\ Calls(t) /\ Has(p, d) /\ ~InUse(p, d)
  /\ handles' = [handles EXCEPT ![p][d] = @ - 1]
  /\ Dereference(d)
  /\ UNCHANGED <<parent, secured, processVars, gpdeskInputDesktop, InputWindowStation,
                 locked, switchVars, windowVars>>

-----------------------------------------------------------------------------
(* Processes, threads and stations *)

\* SetProcessWindowStation, with a handle from OpenWindowStation.
SetProcessWindowStation(t, s) ==
  /\ Calls(t)
  /\ rpwinsta' = [rpwinsta EXCEPT ![ProcOf[t]] = s]
  /\ UNCHANGED <<objectVars, ppi, rpdeskStartup, rpdesk, inputVars, switchVars, windowVars>>

\* SetThreadDesktop.  One with a window may be refused, by what is active.
SetThreadDesktop(t, d) ==
  LET p == ProcOf[t] IN
  /\ Calls(t) /\ Has(p, d) /\ rpdesk[t] # d
  /\ rpdesk' = [rpdesk EXCEPT ![t] = d]
  /\ rpdeskStartup' = [rpdeskStartup EXCEPT ![p] = IF @ = Null THEN d ELSE @]
  /\ UNCHANGED <<objectVars, ppi, rpwinsta, inputVars, switchVars, windowVars>>

\* InitDesktops in a new process's first thread: the process is on the station
\* and the desktop that it was started with.  The reference from the handle's
\* validation is kept.
AttachProcess(t, s, d) ==
  LET p == ProcOf[t] IN
  /\ p \notin Plain /\ ppi[p] = "none" /\ gpdeskInputDesktop # Null
  /\ d \in live /\ parent[d] = s
  /\ ppi' = [ppi EXCEPT ![p] = "attach"]
  /\ rpwinsta' = [rpwinsta EXCEPT ![p] = s]
  /\ rpdeskStartup' = [rpdeskStartup EXCEPT ![p] = d]
  /\ rpdesk' = [rpdesk EXCEPT ![t] = d]
  /\ AllocHandle(p, d, 1)
  /\ UNCHANGED <<live, gone, parent, inputVars, switchVars, windowVars>>

\* InitDesktops in its other threads.
AttachThread(t) ==
  LET p == ProcOf[t] IN
  /\ ppi[p] = "attach" /\ rpdesk[t] = Null
  /\ rpdesk' = [rpdesk EXCEPT ![t] = rpdeskStartup[p]]
  /\ UNCHANGED <<objectVars, ppi, rpwinsta, rpdeskStartup, inputVars, switchVars, windowVars>>

\* LockWindowStation and UnlockWindowStation.
LockWindowStation(s, on) ==
  /\ locked[s] # on
  /\ locked' = [locked EXCEPT ![s] = on]
  /\ UNCHANGED <<objectVars, processVars, gpdeskInputDesktop, InputWindowStation,
                 ActiveDesktop, switchVars, windowVars>>

-----------------------------------------------------------------------------
(* SwitchDesktop *)

\* Only the logon process may leave a locked station, or switch if its handle
\* table has the secured desktop.
MaySwitch(p) ==
  \/ p = Mpr
  \/ p \notin secured /\ ~locked[InputWindowStation]

\* Mutation: the station of the new desktop is not made the input's.
SetInputDesktop(d) ==
  /\ gpdeskInputDesktop' = d
  /\ ActiveDesktop' = [ActiveDesktop EXCEPT ![InputWindowStation] = d]
  /\ UNCHANGED InputWindowStation

SetInput(d) ==
  /\ gpdeskInputDesktop' = d
  /\ InputWindowStation' = parent[d]
  /\ ActiveDesktop' = [[ActiveDesktop EXCEPT ![InputWindowStation] = Null] EXCEPT ![parent[d]] = d]

\* With a handle that has DESKTOP_SWITCHDESKTOP; up to where the display settings
\* are changed, without the lock, if the new desktop has others.
SwitchDesktop(t, d) ==
  /\ Calls(t) /\ Has(ProcOf[t], d)
  /\ d # gpdeskInputDesktop /\ MaySwitch(ProcOf[t])
  /\ SetInput(d)
  /\ \E at \in IF gpdeskInputDesktop = Null THEN {"tell"} ELSE {"display", "tell"} :
       switch' = [switch EXCEPT ![t] =
                    [at |-> at, first |-> gpdeskInputDesktop = Null, desk |-> d]]
  /\ cReferences' = [cReferences EXCEPT ![d] = IF switch'[t].at = "display" THEN @ + 1 ELSE @]
  /\ UNCHANGED <<live, gone, parent, handles, secured, processVars, locked, fNewDesktop,
                 gpdeskSwitchEvent, windowVars>>

\* The lock is taken again, and the reference given back.
ChangedDisplay(t) ==
  /\ switch[t].at = "display"
  /\ switch' = [switch EXCEPT ![t].at = "tell"]
  /\ cReferences' = [cReferences EXCEPT ![switch[t].desk] = @ - 1]
  /\ UNCHANGED <<live, gone, parent, handles, secured, processVars, inputVars, fNewDesktop,
                 gpdeskSwitchEvent, windowVars>>

Returned == [at |-> "out", first |-> FALSE, desk |-> Null]

\* Mutation: the desktop thread is told only of another input desktop.
TellIfOther(t) ==
  /\ switch[t].at = "tell"
  /\ switch' = [switch EXCEPT ![t] = IF switch[t].first THEN Returned ELSE [@ EXCEPT !.at = "wait"]]
  /\ fNewDesktop' = (fNewDesktop \/ (~switch[t].first /\ rpdesk[t] # switch[t].desk))
  /\ UNCHANGED <<objectVars, processVars, inputVars, gpdeskSwitchEvent, windowVars>>

\* fNewDesktop = TRUE, but for the first switch; without the lock.
Tell(t) ==
  /\ switch[t].at = "tell"
  /\ switch' = [switch EXCEPT ![t] = IF switch[t].first THEN Returned ELSE [@ EXCEPT !.at = "wait"]]
  /\ fNewDesktop' = (fNewDesktop \/ ~switch[t].first)
  /\ UNCHANGED <<objectVars, processVars, inputVars, gpdeskSwitchEvent, windowVars>>

WaitSwitchEvent(t) ==
  /\ switch[t].at = "wait" /\ gpdeskSwitchEvent
  /\ gpdeskSwitchEvent' = FALSE
  /\ switch' = [switch EXCEPT ![t] = Returned]
  /\ UNCHANGED <<objectVars, processVars, inputVars, fNewDesktop, windowVars>>

-----------------------------------------------------------------------------
(* The desktop thread *)

Go(at, todo) ==
  desktopThread' = [at |-> at, todo |-> todo, window |-> Null, hide |-> FALSE]

Between == desktopThread.todo = {} /\ desktopThread.window = Null

\* It has found the Win16 lock taken, and fNewDesktop FALSE.
EnumWindows ==
  /\ desktopThread.at = "top" /\ gpdeskInputDesktop # Null /\ ~fNewDesktop
  /\ Go("enum", windows)
  /\ UNCHANGED <<objectVars, processVars, inputVars, switchVars, windows, visible, wasvisible>>

\* InterlockedExchange(&fNewDesktop, FALSE): all windows again if it was TRUE.
NewDesktop ==
  /\ \/ desktopThread.at = "top" /\ gpdeskInputDesktop # Null /\ fNewDesktop
     \/ desktopThread.at = "enum" /\ Between
  /\ fNewDesktop' = FALSE
  /\ IF fNewDesktop THEN Go("changed", windows) ELSE Go("top", {})
  /\ UNCHANGED <<objectVars, processVars, inputVars, gpdeskSwitchEvent, switch, windows,
                 visible, wasvisible>>

\* The screen is redrawn: SetEvent(gpdeskSwitchEvent).
Redraw ==
  /\ desktopThread.at = "changed" /\ Between
  /\ gpdeskSwitchEvent' = TRUE
  /\ Go("top", {})
  /\ UNCHANGED <<objectVars, processVars, inputVars, fNewDesktop, switch, windows,
                 visible, wasvisible>>

\* What a process without kexbases starts on: where its parent did, or the input
\* desktop if it has none that did.
StartsOn ==
  {<<rpwinsta[q], rpdeskStartup[q]>> : q \in {q \in Procs : rpdeskStartup[q] # Null}}
    \cup {<<InputWindowStation, gpdeskInputDesktop>>}

\* EnumWindowsProc, up to its comparison of the window's desktop with the input.
LookAt(w) ==
  LET t == Owner[w]
      p == ProcOf[t]
  IN
  /\ desktopThread.window = Null /\ w \in desktopThread.todo
  /\ IF ppi[p] = "none"
       THEN \E on \in StartsOn :
              /\ ppi' = [ppi EXCEPT ![p] = "enum"]
              /\ rpwinsta' = [rpwinsta EXCEPT ![p] = on[1]]
              /\ rpdeskStartup' = [rpdeskStartup EXCEPT ![p] = on[2]]
              /\ AllocHandle(p, on[2], 0)
       ELSE UNCHANGED <<ppi, rpwinsta, rpdeskStartup, handles, cReferences, secured>>
  /\ rpdesk' = [rpdesk EXCEPT ![t] = IF @ = Null THEN rpdeskStartup'[p] ELSE @]
  /\ desktopThread' = [desktopThread EXCEPT !.todo = @ \ {w}, !.window = w,
                                            !.hide = rpdesk'[t] # gpdeskInputDesktop]
  /\ UNCHANGED <<live, gone, parent, inputVars, switchVars, windows, visible, wasvisible>>

\* Mutation: the window keeps its mark.
HideOrShowMarked ==
  LET w == desktopThread.window IN
  /\ w # Null
  /\ desktopThread' = [desktopThread EXCEPT !.window = Null, !.hide = FALSE]
  /\ IF desktopThread.hide
       THEN /\ wasvisible' = [wasvisible EXCEPT ![w] = @ \/ visible[w]]
            /\ visible' = [visible EXCEPT ![w] = FALSE]
       ELSE /\ visible' = [visible EXCEPT ![w] = @ \/ wasvisible[w]]
            /\ UNCHANGED wasvisible
  /\ UNCHANGED <<objectVars, processVars, inputVars, switchVars, windows>>

\* And what it does then: a visible window is marked and hidden, a marked one is
\* shown.
HideOrShow ==
  LET w == desktopThread.window IN
  /\ w # Null
  /\ desktopThread' = [desktopThread EXCEPT !.window = Null, !.hide = FALSE]
  /\ IF desktopThread.hide
       THEN /\ wasvisible' = [wasvisible EXCEPT ![w] = @ \/ visible[w]]
            /\ visible' = [visible EXCEPT ![w] = FALSE]
       ELSE /\ visible' = [visible EXCEPT ![w] = @ \/ wasvisible[w]]
            /\ wasvisible' = [wasvisible EXCEPT ![w] = FALSE]
  /\ UNCHANGED <<objectVars, processVars, inputVars, switchVars, windows>>

\* A program creates its window, with kexbases when it is attached, and shows or
\* hides it.
CreateWindow(w) ==
  LET p == ProcOf[Owner[w]] IN
  /\ w \notin windows /\ (p \in Plain \/ ppi[p] = "attach")
  /\ windows' = windows \cup {w}
  /\ UNCHANGED <<objectVars, processVars, inputVars, switchVars, desktopThread, visible,
                 wasvisible>>

ShowWindow(w) ==
  /\ w \in windows
  /\ visible' = [visible EXCEPT ![w] = ~@]
  /\ UNCHANGED <<objectVars, processVars, inputVars, switchVars, desktopThread, windows,
                 wasvisible>>

-----------------------------------------------------------------------------
\* CreateWindowStationAndDesktops, up to its switch to the default desktop.
Init ==
  /\ live = {Default, Winlogon} /\ gone = {}
  /\ parent = [d \in Desks |-> IF d \in live THEN WinSta0 ELSE Null]
  /\ cReferences = [d \in Desks |-> IF d \in live THEN 1 ELSE 0]
  /\ handles = [p \in Procs |-> [d \in Desks |-> IF p = Mpr /\ d \in live THEN 1 ELSE 0]]
  /\ secured = {Mpr}
  /\ ppi = [p \in Procs |-> IF p = Mpr THEN "attach" ELSE "none"]
  /\ rpwinsta = [p \in Procs |-> IF p = Mpr THEN WinSta0 ELSE Null]
  /\ rpdeskStartup = [p \in Procs |-> IF p = Mpr THEN Default ELSE Null]
  /\ rpdesk = [t \in Threads |-> IF ProcOf[t] = Mpr THEN Default ELSE Null]
  /\ gpdeskInputDesktop = Null
  /\ InputWindowStation = WinSta0
  /\ ActiveDesktop = [s \in Stations |-> IF s = WinSta0 THEN Default ELSE Null]
  /\ locked = [s \in Stations |-> FALSE]
  /\ fNewDesktop = FALSE /\ gpdeskSwitchEvent = FALSE
  /\ switch = [t \in Threads |-> Returned]
  /\ desktopThread = [at |-> "top", todo |-> {}, window |-> Null, hide |-> FALSE]
  /\ windows = {} /\ visible = [w \in Windows |-> FALSE]
  /\ wasvisible = [w \in Windows |-> FALSE]

DesktopThread == NewDesktop \/ Redraw \/ (\E w \in Windows : LookAt(w)) \/ HideOrShow

Call(t) ==
  \/ \E d \in Desks :
       \/ OpenDesktop(t, d) \/ CreateDesktop(t, d) \/ CloseDesktop(t, d)
       \/ SetThreadDesktop(t, d)
  \/ OpenInputDesktop(t)
  \/ \E s \in Stations : SetProcessWindowStation(t, s)
  \/ \E s \in Stations, d \in Desks : AttachProcess(t, s, d)
  \/ AttachThread(t)
  \/ \E d \in Desks : SwitchDesktop(t, d)

Switching(t) == ChangedDisplay(t) \/ Tell(t) \/ WaitSwitchEvent(t)

Next ==
  \/ \E t \in Threads : Call(t) \/ Switching(t)
  \/ \E s \in Stations, on \in BOOLEAN : LockWindowStation(s, on)
  \/ EnumWindows \/ DesktopThread
  \/ \E w \in Windows : CreateWindow(w) \/ ShowWindow(w)

Spec == Init /\ [][Next]_vars

\* The desktop thread and the threads that switch run; the desktop thread may or
\* may not find the Win16 lock taken.
Fairness ==
  /\ WF_vars(DesktopThread)
  /\ \A t \in Threads : WF_vars(Switching(t))

FairSpec == Spec /\ Fairness

-----------------------------------------------------------------------------
(* Properties *)

Count(S) == Cardinality(S)

HandlesTo(d) == {h \in Procs \X (1..MaxHandles) : h[2] <= handles[h[1]][d]}
StartedOn(d) == {p \in Procs \ {Mpr} : ppi[p] = "attach" /\ rpdeskStartup[p] = d}
SwitchesTo(d) == {t \in Threads : switch[t].at = "display" /\ switch[t].desk = d}

(* A desktop's count is of the handles that are open, the processes that     *)
(* started on it and the switches that work with it without the lock,        *)
(* whatever calls were refused: it is not freed under them, and it is freed  *)
(* when it is closed last (desktop.c, 724: "Dereference the desktop 2        *)
(* times").                                                                  *)
ReferencesAreHeld ==
  \A d \in live : cReferences[d] = Count(HandlesTo(d)) + Count(StartedOn(d)) + Count(SwitchesTo(d))

(* No thread or process is left on a desktop that was freed, nor has a       *)
(* station it as its active desktop: the closing process does not use it     *)
(* ("Now check if any threads from the current process is using the          *)
(* specified desktop handle", 703), others have handles of their own.  A      *)
(* process without kexbases may be given a desktop that was freed.           *)
FreedIsUnused ==
  /\ \A t \in Threads : ppi[ProcOf[t]] = "attach" => rpdesk[t] \notin gone
  /\ \A p \in Procs : ppi[p] = "attach" => rpdeskStartup[p] \notin gone
  /\ \A s \in Stations : ActiveDesktop[s] \notin gone

(* "Set the current window station to the desktop's parent" (1328): the      *)
(* input station is that of the input desktop and has it active, whatever    *)
(* stations desktops are created in - unless the input desktop was closed.   *)
InputIsActive ==
  gpdeskInputDesktop \in live =>
    /\ InputWindowStation = parent[gpdeskInputDesktop]
    /\ ActiveDesktop[InputWindowStation] = gpdeskInputDesktop

InSwitch == {t \in Threads : switch[t].at # "out"}

(* A switch returns, if there is one at a time: the event wakes one thread,  *)
(* and two that wait may be answered once.                                   *)
SwitchReturns ==
  [](Count(InSwitch) <= 1) => \A t \in Threads : switch[t].at # "out" ~> switch[t].at = "out"

DesktopsStay ==
  UNCHANGED <<processVars, gpdeskInputDesktop, windows>> /\ \A w \in Windows : ~ShowWindow(w)

Followed ==
  \A w \in windows :
    IF rpdesk[Owner[w]] = gpdeskInputDesktop THEN ~wasvisible[w] ELSE ~visible[w]

(* When switches, moves and programs showing windows end, and the desktop    *)
(* thread goes on finding the lock taken, the windows of the input desktop   *)
(* are shown as they were and no others are visible: whatever windows it had *)
(* looked at before, and whatever it had read, when the desktop changed.     *)
WindowsFollow ==
  ([]<><<EnumWindows>>_vars /\ <>[][DesktopsStay]_vars) => <>[]Followed

=============================================================================
