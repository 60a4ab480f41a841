---------------------------- MODULE DesktopsProofs ----------------------------
(***************************************************************************)
(* For any processes, threads, desktops and stations: references to        *)
(* desktops are exact, and so no thread of a process with kexbases is left *)
(* on a desktop that was freed.                                            *)
(***************************************************************************)
EXTENDS Desktops, FiniteSetTheorems, TLAPS

\* Open handles are to desktops that were created, and those of a process with
\* kexbases to desktops that are there.
HandlesAreGood ==
  \A p \in Procs, d \in Desks : Has(p, d) =>
    /\ d \in live \cup gone /\ ppi[p] # "none"
    /\ ppi[p] = "attach" => d \in live

\* A process and its threads have handles to the desktops they are on.
UsersHaveHandles ==
  /\ ppi[Mpr] = "attach"
  /\ \A p \in Procs :
       IF ppi[p] = "none"
       THEN rpdeskStartup[p] = Null
       ELSE rpdeskStartup[p] # Null /\ Has(p, rpdeskStartup[p])
  /\ \A t \in Threads : rpdesk[t] # Null => Has(ProcOf[t], rpdesk[t])

\* A switch that left the Win16 lock has a reference of its own.
SwitchesAreLive == \A t \in Threads : switch[t].at = "display" => switch[t].desk \in live

\* A desktop that is yet to be created has no references.
OthersAreNew == \A d \in Desks \ (live \cup gone) : cReferences[d] = 0

\* A station's active desktop is one of its desktops.
StationsAreGood ==
  /\ \A d \in live : parent[d] \in Stations
  /\ \A s \in Stations : ActiveDesktop[s] # Null =>
       ActiveDesktop[s] \in live /\ parent[ActiveDesktop[s]] = s

\* The desktop thread begins to work with the first input desktop.
InputIsKnown ==
  /\ gpdeskInputDesktop \in live \cup gone \cup {Null}
  /\ desktopThread.at # "top" \/ desktopThread.todo # {} => gpdeskInputDesktop # Null

\* The induction hypothesis.
UseInv   == HandlesAreGood /\ UsersHaveHandles /\ SwitchesAreLive
CountInv == ReferencesAreHeld /\ OthersAreNew
InputInv == StationsAreGood /\ InputIsKnown /\ InputIsActive
IndInv   == TypeOK /\ UseInv /\ CountInv /\ InputInv

-----------------------------------------------------------------------------
(* What is counted is finite.                                               *)
LEMMA CountsAreFinite ==
  ASSUME TypeOK, NEW d \in Desks
  PROVE  /\ IsFiniteSet(HandlesTo(d)) /\ IsFiniteSet(StartedOn(d)) /\ IsFiniteSet(SwitchesTo(d))
         /\ Count(HandlesTo(d)) \in Nat /\ Count(StartedOn(d)) \in Nat
         /\ Count(SwitchesTo(d)) \in Nat
<1> USE DesktopsAssumption
<1>1. IsFiniteSet(Procs \X (1..MaxHandles))
  <2>1. IsFiniteSet(1..MaxHandles)
    <3>1. 1 \in Int /\ MaxHandles \in Int
      OBVIOUS
    <3> QED
      BY <3>1, FS_Interval
  <2>2. IsFiniteSet(Procs)
    BY DesktopsAssumption
  <2> DEFINE I == 1..MaxHandles
  <2> HIDE DEF I
  <2>3. \A S, T : IsFiniteSet(S) /\ IsFiniteSet(T) => IsFiniteSet(S \X T)
    BY FS_Product, Zenon
  <2> QED
    BY <2>1, <2>2, <2>3, Zenon DEF I
<1>2. /\ HandlesTo(d) \subseteq Procs \X (1..MaxHandles)
      /\ StartedOn(d) \subseteq Procs /\ SwitchesTo(d) \subseteq Threads
  BY DEF HandlesTo, StartedOn, SwitchesTo
<1>3. IsFiniteSet(HandlesTo(d)) /\ IsFiniteSet(StartedOn(d)) /\ IsFiniteSet(SwitchesTo(d))
  BY <1>1, <1>2, FS_Subset
<1> QED
  BY <1>3, FS_CardinalityType DEF Count

(* One more handle to a desktop counts as one.                              *)
LEMMA OneMoreHandle ==
  ASSUME TypeOK, NEW p \in Procs, NEW d \in Desks, handles[p][d] < MaxHandles,
         handles' = [handles EXCEPT ![p][d] = @ + 1]
  PROVE  /\ handles' \in [Procs -> [Desks -> 0..MaxHandles]]
         /\ Count(HandlesTo(d)') = Count(HandlesTo(d)) + 1
         /\ \A e \in Desks : e # d => HandlesTo(e)' = HandlesTo(e)
<1> USE DesktopsAssumption
<1>1. handles \in [Procs -> [Desks -> 0..MaxHandles]]
  BY DEF TypeOK
<1> DEFINE new == <<p, handles[p][d] + 1>>
<1>2. new \in Procs \X (1..MaxHandles) /\ new \notin HandlesTo(d)
  BY <1>1 DEF HandlesTo
<1>3. HandlesTo(d)' = HandlesTo(d) \cup {new}
  <2>1. ASSUME NEW h \in Procs \X (1..MaxHandles)
        PROVE  h[2] <= handles'[h[1]][d] <=> h[2] <= handles[h[1]][d] \/ h = new
    <3>1. h = <<h[1], h[2]>> /\ h[1] \in Procs /\ h[2] \in 1..MaxHandles
      OBVIOUS
    <3>2. CASE h[1] = p
      <4>1. handles'[h[1]][d] = handles[p][d] + 1
        BY <1>1, <3>2
      <4>2. h = new <=> h[2] = handles[p][d] + 1
        BY <3>1, <3>2
      <4>3. h[2] \in Int /\ handles[p][d] \in Int
        BY <1>1, <3>1
      <4> HIDE DEF new
      <4> QED
        BY <3>2, <4>1, <4>2, <4>3
    <3>3. CASE h[1] # p
      <4>1. handles'[h[1]][d] = handles[h[1]][d]
        BY <1>1, <3>1, <3>3
      <4> QED
        BY <3>1, <3>3, <4>1
    <3> QED
      BY <3>2, <3>3
  <2> QED
    BY <1>2, <2>1 DEF HandlesTo
<1>4. Count(HandlesTo(d)') = Count(HandlesTo(d)) + 1
  BY <1>2, <1>3, CountsAreFinite, FS_AddElement DEF Count
<1>5. ASSUME NEW e \in Desks, e # d PROVE HandlesTo(e)' = HandlesTo(e)
  <2>1. \A q \in Procs : handles'[q][e] = handles[q][e]
    BY <1>1, <1>5
  <2> QED
    BY <2>1 DEF HandlesTo
<1>6. handles' \in [Procs -> [Desks -> 0..MaxHandles]]
  BY <1>1
<1> QED
  BY <1>4, <1>5, <1>6

(* And one less.                                                            *)
LEMMA OneHandleLess ==
  ASSUME TypeOK, NEW p \in Procs, NEW d \in Desks, handles[p][d] > 0,
         handles' = [handles EXCEPT ![p][d] = @ - 1]
  PROVE  /\ handles' \in [Procs -> [Desks -> 0..MaxHandles]]
         /\ Count(HandlesTo(d)') = Count(HandlesTo(d)) - 1
         /\ \A e \in Desks : e # d => HandlesTo(e)' = HandlesTo(e)
<1> USE DesktopsAssumption
<1>1. handles \in [Procs -> [Desks -> 0..MaxHandles]]
  BY DEF TypeOK
<1> DEFINE old == <<p, handles[p][d]>>
<1>2. old \in HandlesTo(d)
  BY <1>1 DEF HandlesTo
<1>3. HandlesTo(d)' = HandlesTo(d) \ {old}
  <2>1. ASSUME NEW h \in Procs \X (1..MaxHandles)
        PROVE  h[2] <= handles'[h[1]][d] <=> h[2] <= handles[h[1]][d] /\ h # old
    <3>1. h = <<h[1], h[2]>> /\ h[1] \in Procs /\ h[2] \in 1..MaxHandles
      OBVIOUS
    <3>2. CASE h[1] = p
      <4>1. handles'[h[1]][d] = handles[p][d] - 1
        BY <1>1, <3>2
      <4>2. h = old <=> h[2] = handles[p][d]
        BY <3>1, <3>2
      <4>3. h[2] \in Int /\ handles[p][d] \in Int
        BY <1>1, <3>1
      <4> HIDE DEF old
      <4> QED
        BY <3>2, <4>1, <4>2, <4>3
    <3>3. CASE h[1] # p
      <4>1. handles'[h[1]][d] = handles[h[1]][d]
        BY <1>1, <3>1, <3>3
      <4> QED
        BY <3>1, <3>3, <4>1
    <3> QED
      BY <3>2, <3>3
  <2> QED
    BY <2>1 DEF HandlesTo
<1>4. Count(HandlesTo(d)') = Count(HandlesTo(d)) - 1
  <2>1. IsFiniteSet(HandlesTo(d))
    BY CountsAreFinite
  <2> HIDE DEF old
  <2> QED
    BY <1>2, <1>3, <2>1, FS_RemoveElement DEF Count
<1>5. ASSUME NEW e \in Desks, e # d PROVE HandlesTo(e)' = HandlesTo(e)
  <2>1. \A q \in Procs : handles'[q][e] = handles[q][e]
    BY <1>1, <1>5
  <2> QED
    BY <2>1 DEF HandlesTo
<1>6. handles' \in [Procs -> [Desks -> 0..MaxHandles]]
  BY <1>1
<1> QED
  BY <1>4, <1>5, <1>6

-----------------------------------------------------------------------------
LEMMA InitInv == Init => IndInv
<1> SUFFICES ASSUME Init PROVE IndInv
  OBVIOUS
<1> USE DesktopsAssumption DEF Init
<1>1. TypeOK
  <2>1. /\ parent \in [Desks -> Stations \cup {Null}]
        /\ cReferences \in [Desks -> Nat]
        /\ live \subseteq Desks /\ gone \subseteq Desks \ live /\ secured \subseteq Procs
    OBVIOUS
  <2>2. handles \in [Procs -> [Desks -> 0..MaxHandles]]
    OBVIOUS
  <2>3. /\ ppi \in [Procs -> {"none", "attach", "enum"}]
        /\ rpwinsta \in [Procs -> Stations \cup {Null}]
        /\ rpdeskStartup \in [Procs -> Desks \cup {Null}]
        /\ rpdesk \in [Threads -> Desks \cup {Null}]
    OBVIOUS
  <2>4. /\ ActiveDesktop \in [Stations -> Desks \cup {Null}]
        /\ locked \in [Stations -> BOOLEAN]
        /\ visible \in [Windows -> BOOLEAN] /\ wasvisible \in [Windows -> BOOLEAN]
    OBVIOUS
  <2>5. switch \in [Threads -> [at : {"out", "display", "tell", "wait"}, first : BOOLEAN,
                               desk : Desks \cup {Null}]]
    BY DEF Returned
  <2>6. desktopThread \in [at : {"top", "enum", "changed"}, todo : SUBSET Windows,
                          window : Windows \cup {Null}, hide : BOOLEAN]
    OBVIOUS
  <2>7. /\ gpdeskInputDesktop \in Desks \cup {Null} /\ InputWindowStation \in Stations
        /\ fNewDesktop \in BOOLEAN /\ gpdeskSwitchEvent \in BOOLEAN /\ windows \subseteq Windows
    OBVIOUS
  <2> QED
    BY <2>1, <2>2, <2>3, <2>4, <2>5, <2>6, <2>7 DEF TypeOK
<1>2. UseInv
  <2>1. HandlesAreGood
    BY DEF HandlesAreGood, Has
  <2>2. UsersHaveHandles
    BY DEF UsersHaveHandles, Has
  <2>3. SwitchesAreLive
    BY DEF SwitchesAreLive, Returned
  <2> QED
    BY <2>1, <2>2, <2>3 DEF UseInv
<1>3. CountInv
  <2>1. ASSUME NEW d \in live
        PROVE  cReferences[d] = Count(HandlesTo(d)) + Count(StartedOn(d)) + Count(SwitchesTo(d))
    <3>1. d \in Desks /\ cReferences[d] = 1
      OBVIOUS
    <3>2. HandlesTo(d) = {<<Mpr, 1>>}
      <4>1. ASSUME NEW h \in Procs \X (1..MaxHandles)
            PROVE  h[2] <= handles[h[1]][d] <=> h = <<Mpr, 1>>
        <5>1. h = <<h[1], h[2]>> /\ h[1] \in Procs /\ h[2] \in 1..MaxHandles
          OBVIOUS
        <5>2. handles[h[1]][d] = IF h[1] = Mpr THEN 1 ELSE 0
          BY <3>1, <5>1
        <5> QED
          BY <5>1, <5>2
      <4>2. <<Mpr, 1>> \in Procs \X (1..MaxHandles)
        OBVIOUS
      <4> QED
        BY <4>1, <4>2 DEF HandlesTo
    <3>3. StartedOn(d) = {} /\ SwitchesTo(d) = {}
      BY DEF StartedOn, SwitchesTo, Returned
    <3>4. Cardinality({<<Mpr, 1>>}) = 1
      <4> DEFINE x == <<Mpr, 1>>
      <4> HIDE DEF x
      <4>1. Cardinality({x}) = 1
        BY FS_Singleton
      <4> QED
        BY <4>1 DEF x
    <3>5. Cardinality({}) = 0
      BY FS_EmptySet
    <3> QED
      BY <3>1, <3>2, <3>3, <3>4, <3>5 DEF Count
  <2>2. OthersAreNew
    BY DEF OthersAreNew
  <2> QED
    BY <2>1, <2>2 DEF CountInv, ReferencesAreHeld
<1>4. InputInv
  BY DEF InputInv, StationsAreGood, InputIsKnown, InputIsActive
<1> QED
  BY <1>1, <1>2, <1>3, <1>4 DEF IndInv

-----------------------------------------------------------------------------
(* What a process gets with a handle: references stay exact if what else is *)
(* kept, is for a process that starts on the desktop.                       *)
LEMMA AllocCounts ==
  ASSUME IndInv, NEW p \in Procs, NEW d \in Desks, NEW kept \in {0, 1},
         AllocHandle(p, d, kept), switch' = switch,
         live' \subseteq live \cup {d}, live' \cup gone' = live \cup gone \cup {d},
         d \in live' =>
           cReferences[d] = Count(HandlesTo(d)) + Count(StartedOn(d)) + Count(SwitchesTo(d)),
         \A e \in Desks : e # d => StartedOn(e)' = StartedOn(e),
         Count(StartedOn(d)') = Count(StartedOn(d)) + kept
  PROVE  CountInv'
<1> USE DesktopsAssumption DEF IndInv, CountInv, AllocHandle
<1>1. \A e \in Desks : SwitchesTo(e)' = SwitchesTo(e)
  BY DEF SwitchesTo
<1>2. /\ cReferences \in [Desks -> Nat]
      /\ live \subseteq Desks
  BY DEF TypeOK
<1>3. /\ Count(HandlesTo(d)') = Count(HandlesTo(d)) + 1
      /\ \A e \in Desks : e # d => HandlesTo(e)' = HandlesTo(e)
  BY OneMoreHandle
<1>4. /\ cReferences'[d] = cReferences[d] + 1 + kept
      /\ \A e \in Desks : e # d => cReferences'[e] = cReferences[e]
  BY <1>2
<1>5. ASSUME NEW e \in live'
      PROVE  cReferences'[e]
               = Count(HandlesTo(e)') + Count(StartedOn(e)') + Count(SwitchesTo(e)')
  <2>1. CASE e = d
    <3>1. cReferences[d] = Count(HandlesTo(d)) + Count(StartedOn(d)) + Count(SwitchesTo(d))
      BY <1>5, <2>1
    <3>2. /\ Count(HandlesTo(d)) \in Nat /\ Count(StartedOn(d)) \in Nat
          /\ Count(SwitchesTo(d)) \in Nat /\ kept \in Nat
      BY CountsAreFinite
    <3>3. SwitchesTo(d)' = SwitchesTo(d)
      BY <1>1
    <3> HIDE DEF Count
    <3> QED
      BY <1>3, <1>4, <2>1, <3>1, <3>2, <3>3
  <2>2. CASE e # d
    <3>1. /\ HandlesTo(e)' = HandlesTo(e) /\ StartedOn(e)' = StartedOn(e)
          /\ SwitchesTo(e)' = SwitchesTo(e)
      BY <1>1, <1>2, <1>3, <2>2
    <3>2. e \in live /\ cReferences'[e] = cReferences[e]
      BY <1>2, <1>4, <2>2
    <3> QED
      BY <3>1, <3>2 DEF ReferencesAreHeld, Count
  <2> QED
    BY <2>1, <2>2
<1>6. ReferencesAreHeld'
  BY <1>5 DEF ReferencesAreHeld, Count
<1>7. OthersAreNew'
  BY <1>2, <1>4 DEF OthersAreNew
<1> QED
  BY <1>6, <1>7

(* What is used has references.                                             *)
LEMMA UsedIsCounted ==
  ASSUME TypeOK, ReferencesAreHeld, NEW d \in live
  PROVE  /\ \A p \in Procs : Has(p, d) => cReferences[d] >= 1
         /\ \A t \in Threads : switch[t].at = "display" /\ switch[t].desk = d => cReferences[d] >= 1
<1> USE DesktopsAssumption
<1>1. d \in Desks
  BY DEF TypeOK
<1> DEFINE H == HandlesTo(d)
           S == StartedOn(d)
           W == SwitchesTo(d)
<1>2. /\ IsFiniteSet(H) /\ IsFiniteSet(W)
      /\ Count(H) \in Nat /\ Count(S) \in Nat /\ Count(W) \in Nat
  BY <1>1, CountsAreFinite
<1>3. cReferences[d] = Count(H) + Count(S) + Count(W)
  BY DEF ReferencesAreHeld
<1>4. ASSUME NEW p \in Procs, Has(p, d) PROVE <<p, 1>> \in H
  BY <1>1, <1>4 DEF TypeOK, Has, HandlesTo
<1>5. ASSUME NEW t \in Threads, switch[t].at = "display" /\ switch[t].desk = d PROVE t \in W
  BY <1>5 DEF SwitchesTo
<1> HIDE DEF H, S, W
<1>6. (Count(H) = 0 => H = {}) /\ (Count(W) = 0 => W = {})
  BY <1>2, FS_EmptySet DEF Count
<1>7. (H # {} => cReferences[d] >= 1) /\ (W # {} => cReferences[d] >= 1)
  BY <1>2, <1>3, <1>6
<1> QED
  BY <1>4, <1>5, <1>7

LEMMA TypeNext == IndInv /\ [Next]_vars => TypeOK'
<1> SUFFICES ASSUME IndInv, [Next]_vars PROVE TypeOK'
  OBVIOUS
<1> USE DesktopsAssumption DEF vars, objectVars, processVars, inputVars, switchVars, windowVars
<1>0. TypeOK
  BY DEF IndInv
<1> USE DEF TypeOK
<1>1. ASSUME NEW p \in Procs, NEW d \in Desks, NEW kept \in {0, 1}, AllocHandle(p, d, kept)
      PROVE  /\ handles' \in [Procs -> [Desks -> 0..MaxHandles]]
             /\ cReferences' \in [Desks -> Nat] /\ secured' \subseteq Procs
  <2>1. handles' \in [Procs -> [Desks -> 0..MaxHandles]]
    BY <1>0, <1>1, OneMoreHandle DEF AllocHandle
  <2>2. cReferences' \in [Desks -> Nat] /\ secured' \subseteq Procs
    BY <1>0, <1>1 DEF AllocHandle
  <2> QED
    BY <2>1, <2>2
<1>2. \A t \in Threads : ProcOf[t] \in Procs
  OBVIOUS
<1>3. ASSUME NEW t \in Threads, NEW d \in Desks, OpenDesktop(t, d) PROVE TypeOK'
  BY <1>0, <1>1, <1>2, <1>3 DEF OpenDesktop
<1>4. ASSUME NEW t \in Threads, NEW d \in Desks, CreateDesktop(t, d) PROVE TypeOK'
  BY <1>0, <1>1, <1>2, <1>4 DEF CreateDesktop
<1>5. ASSUME NEW t \in Threads, NEW d \in Desks, CloseDesktop(t, d) PROVE TypeOK'
  <2>1. d \in live /\ cReferences[d] >= 1
    BY <1>2, <1>5, UsedIsCounted
       DEF CloseDesktop, Calls, IndInv, UseInv, CountInv, HandlesAreGood
  <2>2. handles' \in [Procs -> [Desks -> 0..MaxHandles]]
    BY <1>0, <1>2, <1>5, OneHandleLess DEF CloseDesktop, Has
  <2>3. cReferences' \in [Desks -> Nat]
    BY <1>0, <1>5, <2>1 DEF CloseDesktop, Dereference
  <2>4. /\ live' \subseteq Desks /\ gone' \subseteq Desks \ live'
        /\ ActiveDesktop' \in [Stations -> Desks \cup {Null}]
    <3>1. CASE cReferences'[d] < 1
      <4>1. /\ live' = live \ {d} /\ gone' = gone \cup {d}
            /\ ActiveDesktop' = [ActiveDesktop EXCEPT ![parent[d]] = IF @ = d THEN Null ELSE @]
        BY <1>5, <3>1 DEF CloseDesktop, Dereference, Release
      <4>2. parent[d] \in Stations
        BY <2>1 DEF IndInv, InputInv, StationsAreGood
      <4>3. live' \subseteq Desks /\ gone' \subseteq Desks \ live'
        BY <1>0, <4>1
      <4>4. ActiveDesktop' \in [Stations -> Desks \cup {Null}]
        BY <1>0, <4>1, <4>2
      <4> QED
        BY <4>3, <4>4
    <3>2. CASE ~(cReferences'[d] < 1)
      BY <1>0, <1>5, <3>2 DEF CloseDesktop, Dereference, Release
    <3> QED
      BY <3>1, <3>2
  <2> QED
    BY <1>0, <1>5, <2>2, <2>3, <2>4 DEF CloseDesktop
<1>6. ASSUME NEW t \in Threads, NEW d \in Desks, SetThreadDesktop(t, d) PROVE TypeOK'
  BY <1>0, <1>2, <1>6 DEF SetThreadDesktop
<1>7. ASSUME NEW t \in Threads, OpenInputDesktop(t) PROVE TypeOK'
  BY <1>0, <1>1, <1>2, <1>7 DEF OpenInputDesktop
<1>8. ASSUME NEW t \in Threads, NEW s \in Stations, SetProcessWindowStation(t, s) PROVE TypeOK'
  BY <1>0, <1>8 DEF SetProcessWindowStation
<1>9. ASSUME NEW t \in Threads, NEW s \in Stations, NEW d \in Desks, AttachProcess(t, s, d)
      PROVE  TypeOK'
  BY <1>0, <1>1, <1>2, <1>9 DEF AttachProcess
<1>10. ASSUME NEW t \in Threads, AttachThread(t) PROVE TypeOK'
  BY <1>0, <1>2, <1>10 DEF AttachThread
<1>11. ASSUME NEW t \in Threads, NEW d \in Desks, SwitchDesktop(t, d) PROVE TypeOK'
  <2>1. parent[d] \in Stations
    BY <1>2, <1>11
       DEF SwitchDesktop, Calls, IndInv, UseInv, InputInv, HandlesAreGood, StationsAreGood
  <2>2. /\ gpdeskInputDesktop' \in Desks /\ InputWindowStation' \in Stations
        /\ ActiveDesktop' \in [Stations -> Desks \cup {Null}]
    BY <1>0, <1>11, <2>1 DEF SwitchDesktop, SetInput
  <2>3. switch' \in [Threads -> [at : {"out", "display", "tell", "wait"}, first : BOOLEAN,
                                desk : Desks \cup {Null}]]
    BY <1>0, <1>11 DEF SwitchDesktop
  <2>4. cReferences' \in [Desks -> Nat]
    BY <1>0, <1>11 DEF SwitchDesktop
  <2> QED
    BY <1>0, <1>11, <2>2, <2>3, <2>4 DEF SwitchDesktop
<1>12. ASSUME NEW t \in Threads, ChangedDisplay(t) PROVE TypeOK'
  <2>1. switch[t].desk \in live /\ cReferences[switch[t].desk] >= 1
    BY <1>0, <1>12, UsedIsCounted DEF ChangedDisplay, IndInv, UseInv, CountInv, SwitchesAreLive
  <2>2. cReferences' \in [Desks -> Nat]
    BY <1>0, <1>12, <2>1 DEF ChangedDisplay
  <2>3. switch' \in [Threads -> [at : {"out", "display", "tell", "wait"}, first : BOOLEAN,
                                desk : Desks \cup {Null}]]
    <3> DEFINE Where == [at : {"out", "display", "tell", "wait"}, first : BOOLEAN,
                         desk : Desks \cup {Null}]
    <3>1. switch \in [Threads -> Where]
      BY <1>0
    <3>2. [switch[t] EXCEPT !.at = "tell"] \in Where
      BY <3>1
    <3>3. switch' = [switch EXCEPT ![t] = [switch[t] EXCEPT !.at = "tell"]]
      BY <1>12, <3>1 DEF ChangedDisplay
    <3> HIDE DEF Where
    <3>4. switch' \in [Threads -> Where]
      BY <3>1, <3>2, <3>3
    <3> QED
      BY <3>4 DEF Where
  <2> QED
    BY <1>0, <1>12, <2>2, <2>3 DEF ChangedDisplay
<1>13. ASSUME NEW t \in Threads, Tell(t) \/ WaitSwitchEvent(t) PROVE TypeOK'
  <2> DEFINE Where == [at : {"out", "display", "tell", "wait"}, first : BOOLEAN,
                       desk : Desks \cup {Null}]
  <2>0. switch \in [Threads -> Where]
    BY <1>0
  <2>1. /\ Returned \in Where
        /\ [switch[t] EXCEPT !.at = "wait"] \in Where
    BY <2>0 DEF Returned
  <2> HIDE DEF Where
  <2>2. switch' \in [Threads -> Where]
    <3>1. CASE Tell(t)
      BY <2>0, <2>1, <3>1 DEF Tell
    <3>2. CASE WaitSwitchEvent(t)
      BY <2>0, <2>1, <3>2 DEF WaitSwitchEvent
    <3> QED
      BY <1>13, <3>1, <3>2
  <2>3. /\ fNewDesktop' \in BOOLEAN /\ gpdeskSwitchEvent' \in BOOLEAN
        /\ UNCHANGED <<objectVars, processVars, inputVars, windowVars>>
    BY <1>0, <1>13 DEF Tell, WaitSwitchEvent
  <2> QED
    BY <1>0, <2>2, <2>3 DEF Where
<1>14. ASSUME NEW s \in Stations, NEW on \in BOOLEAN, LockWindowStation(s, on) PROVE TypeOK'
  BY <1>0, <1>14 DEF LockWindowStation
<1>15. CASE EnumWindows \/ NewDesktop \/ Redraw
  <2>1. desktopThread' \in [at : {"top", "enum", "changed"}, todo : SUBSET Windows,
                           window : Windows \cup {Null}, hide : BOOLEAN]
    <3>1. PICK at \in {"top", "enum", "changed"}, todo \in SUBSET Windows : Go(at, todo)
      BY <1>0, <1>15 DEF EnumWindows, NewDesktop, Redraw
    <3> QED
      BY <3>1 DEF Go
  <2>3. fNewDesktop' \in BOOLEAN /\ gpdeskSwitchEvent' \in BOOLEAN
    BY <1>0, <1>15 DEF EnumWindows, NewDesktop, Redraw
  <2>2. UNCHANGED <<objectVars, processVars, inputVars, switch, windows, visible, wasvisible>>
    BY <1>15 DEF EnumWindows, NewDesktop, Redraw
  <2> QED
    BY <1>0, <2>1, <2>2, <2>3
<1>16. ASSUME NEW w \in Windows, LookAt(w) PROVE TypeOK'
  <2> DEFINE t == Owner[w]
             p == ProcOf[t]
  <2>1. t \in Threads /\ p \in Procs
    OBVIOUS
  <2>2. /\ ppi' \in [Procs -> {"none", "attach", "enum"}]
        /\ rpwinsta' \in [Procs -> Stations \cup {Null}]
        /\ rpdeskStartup' \in [Procs -> Desks \cup {Null}]
        /\ handles' \in [Procs -> [Desks -> 0..MaxHandles]]
        /\ cReferences' \in [Desks -> Nat] /\ secured' \subseteq Procs
    <3>1. CASE ppi[p] = "none"
      <4>1. PICK on \in StartsOn :
              /\ ppi' = [ppi EXCEPT ![p] = "enum"]
              /\ rpwinsta' = [rpwinsta EXCEPT ![p] = on[1]]
              /\ rpdeskStartup' = [rpdeskStartup EXCEPT ![p] = on[2]]
              /\ AllocHandle(p, on[2], 0)
        BY <1>16, <3>1 DEF LookAt
      <4>2. gpdeskInputDesktop \in Desks
        BY <1>0, <1>16 DEF LookAt, IndInv, InputInv, InputIsKnown
      <4>3. on[1] \in Stations \cup {Null} /\ on[2] \in Desks
        BY <1>0, <4>2 DEF StartsOn
      <4> QED
        BY <1>0, <1>1, <2>1, <4>1, <4>3
    <3>2. CASE ppi[p] # "none"
      BY <1>0, <1>16, <3>2 DEF LookAt
    <3> QED
      BY <3>1, <3>2
  <2>3. rpdesk' \in [Threads -> Desks \cup {Null}]
    BY <1>0, <1>16, <2>1, <2>2 DEF LookAt
  <2>4. desktopThread' \in [at : {"top", "enum", "changed"}, todo : SUBSET Windows,
                           window : Windows \cup {Null}, hide : BOOLEAN]
    BY <1>0, <1>16 DEF LookAt
  <2> QED
    BY <1>0, <1>16, <2>2, <2>3, <2>4 DEF LookAt
<1>17. CASE HideOrShow
  BY <1>0, <1>17 DEF HideOrShow
<1>18. ASSUME NEW w \in Windows, CreateWindow(w) \/ ShowWindow(w) PROVE TypeOK'
  BY <1>0, <1>18 DEF CreateWindow, ShowWindow
<1>19. CASE UNCHANGED vars
  BY <1>0, <1>19
<1> QED
  BY <1>3, <1>4, <1>5, <1>6, <1>7, <1>8, <1>9, <1>10, <1>11, <1>12, <1>13, <1>14, <1>15,
     <1>16, <1>17, <1>18, <1>19 DEF Next, Call, Switching, DesktopThread

(* A step that starts no process and keeps handles and switches keeps the   *)
(* references, if they are not touched.                                     *)
LEMMA SameCounts ==
  ASSUME IndInv, UNCHANGED <<cReferences, handles, live, gone>>,
         \A p \in Procs : ppi'[p] = "attach" <=> ppi[p] = "attach",
         \A p \in Procs : ppi[p] = "attach" => rpdeskStartup'[p] = rpdeskStartup[p],
         \A t \in Threads : (switch'[t].at = "display" \/ switch[t].at = "display") =>
           switch'[t].at = switch[t].at /\ switch'[t].desk = switch[t].desk
  PROVE  CountInv'
<1>1. ASSUME NEW d \in live
      PROVE  /\ HandlesTo(d)' = HandlesTo(d) /\ StartedOn(d)' = StartedOn(d)
             /\ SwitchesTo(d)' = SwitchesTo(d)
  <2>1. HandlesTo(d)' = HandlesTo(d)
    BY DEF HandlesTo
  <2>2. StartedOn(d)' = StartedOn(d)
    BY DEF StartedOn
  <2>3. SwitchesTo(d)' = SwitchesTo(d)
    BY DEF SwitchesTo
  <2> QED
    BY <2>1, <2>2, <2>3
<1>2. ReferencesAreHeld'
  BY <1>1 DEF IndInv, CountInv, ReferencesAreHeld, Count
<1>3. OthersAreNew'
  BY DEF IndInv, CountInv, OthersAreNew
<1> QED
  BY <1>2, <1>3 DEF CountInv

(* One reference more or less with one switch more or less.                 *)
LEMMA SwitchCounts ==
  ASSUME IndInv, NEW t \in Threads, NEW d \in live, NEW leaves \in BOOLEAN,
         UNCHANGED <<live, gone, handles, ppi, rpdeskStartup>>,
         cReferences' = [cReferences EXCEPT ![d] = IF leaves THEN @ + 1 ELSE @ - 1],
         \A u \in Threads : u # t => switch'[u] = switch[u],
         IF leaves
         THEN switch[t].at # "display" /\ switch'[t].at = "display" /\ switch'[t].desk = d
         ELSE switch'[t].at # "display" /\ switch[t].at = "display" /\ switch[t].desk = d
  PROVE  CountInv'
<1>1. cReferences \in [Desks -> Nat] /\ live \subseteq Desks
  BY DEF IndInv, TypeOK
<1>2. \A e \in live : HandlesTo(e)' = HandlesTo(e) /\ StartedOn(e)' = StartedOn(e)
  BY DEF HandlesTo, StartedOn
<1>3. SwitchesTo(d)' = IF leaves THEN SwitchesTo(d) \cup {t} ELSE SwitchesTo(d) \ {t}
  BY DEF SwitchesTo
<1>4. IF leaves THEN t \notin SwitchesTo(d) ELSE t \in SwitchesTo(d)
  BY DEF SwitchesTo
<1>5. \A e \in live : e # d => SwitchesTo(e)' = SwitchesTo(e)
  BY DEF SwitchesTo
<1>6. /\ Count(HandlesTo(d)) \in Nat /\ Count(StartedOn(d)) \in Nat
      /\ Count(SwitchesTo(d)) \in Nat /\ IsFiniteSet(SwitchesTo(d))
  BY <1>1, CountsAreFinite DEF IndInv
<1>7. Count(SwitchesTo(d)') = IF leaves THEN Count(SwitchesTo(d)) + 1
                                        ELSE Count(SwitchesTo(d)) - 1
  <2>1. CASE leaves
    BY <1>3, <1>4, <1>6, <2>1, FS_AddElement DEF Count
  <2>2. CASE ~leaves
    BY <1>3, <1>4, <1>6, <2>2, FS_RemoveElement DEF Count
  <2> QED
    BY <2>1, <2>2
<1>8. \A e \in live :
        cReferences[e] = Count(HandlesTo(e)) + Count(StartedOn(e)) + Count(SwitchesTo(e))
  BY DEF IndInv, CountInv, ReferencesAreHeld
<1>9. ASSUME NEW e \in live
      PROVE  cReferences'[e]
               = Count(HandlesTo(e)') + Count(StartedOn(e)') + Count(SwitchesTo(e)')
  <2>1. CASE e = d
    <3>1. /\ cReferences'[d] = IF leaves THEN cReferences[d] + 1 ELSE cReferences[d] - 1
          /\ HandlesTo(d)' = HandlesTo(d) /\ StartedOn(d)' = StartedOn(d)
      BY <1>1, <1>2
    <3> HIDE DEF Count
    <3> QED
      BY <1>6, <1>7, <1>8, <2>1, <3>1
  <2>2. CASE e # d
    BY <1>1, <1>2, <1>5, <1>8, <2>2 DEF Count
  <2> QED
    BY <2>1, <2>2
<1>10. ReferencesAreHeld'
  BY <1>9 DEF ReferencesAreHeld, Count
<1>11. OthersAreNew'
  BY <1>1 DEF IndInv, CountInv, OthersAreNew
<1> QED
  BY <1>10, <1>11 DEF CountInv

LEMMA CloseCounts ==
  ASSUME IndInv, NEW t \in Threads, NEW d \in Desks, CloseDesktop(t, d)
  PROVE  CountInv'
<1> USE DesktopsAssumption DEF processVars, switchVars
<1> DEFINE p == ProcOf[t]
<1>1. p \in Procs /\ Has(p, d) /\ ppi[p] = "attach" /\ d \in live
  BY DEF CloseDesktop, Calls, IndInv, UseInv, HandlesAreGood
<1>2. /\ Count(HandlesTo(d)') = Count(HandlesTo(d)) - 1
      /\ \A e \in Desks : e # d => HandlesTo(e)' = HandlesTo(e)
  BY <1>1, OneHandleLess DEF CloseDesktop, IndInv, Has
<1>3. \A e \in Desks : StartedOn(e)' = StartedOn(e) /\ SwitchesTo(e)' = SwitchesTo(e)
  BY DEF CloseDesktop, StartedOn, SwitchesTo
<1>4. /\ cReferences \in [Desks -> Nat] /\ live \subseteq Desks
      /\ cReferences' = [cReferences EXCEPT ![d] = @ - 1]
  BY DEF CloseDesktop, Dereference, IndInv, TypeOK
<1>5. live' \subseteq live /\ live' \cup gone' = live \cup gone
  BY <1>1 DEF CloseDesktop, Dereference, Release
<1>6. \A e \in live :
        cReferences[e] = Count(HandlesTo(e)) + Count(StartedOn(e)) + Count(SwitchesTo(e))
  BY DEF IndInv, CountInv, ReferencesAreHeld
<1>7. /\ Count(HandlesTo(d)) \in Nat /\ Count(StartedOn(d)) \in Nat
      /\ Count(SwitchesTo(d)) \in Nat
  BY CountsAreFinite DEF IndInv
<1>8. ASSUME NEW e \in live'
      PROVE  cReferences'[e]
               = Count(HandlesTo(e)') + Count(StartedOn(e)') + Count(SwitchesTo(e)')
  <2>1. CASE e = d
    <3>1. /\ cReferences'[d] = cReferences[d] - 1
          /\ StartedOn(d)' = StartedOn(d) /\ SwitchesTo(d)' = SwitchesTo(d)
      BY <1>3, <1>4
    <3> HIDE DEF Count
    <3> QED
      BY <1>1, <1>2, <1>6, <1>7, <2>1, <3>1
  <2>2. CASE e # d
    <3>1. e \in live /\ e \in Desks /\ cReferences'[e] = cReferences[e]
      BY <1>4, <1>5, <2>2
    <3>2. /\ HandlesTo(e)' = HandlesTo(e) /\ StartedOn(e)' = StartedOn(e)
          /\ SwitchesTo(e)' = SwitchesTo(e)
      BY <1>2, <1>3, <2>2, <3>1
    <3> QED
      BY <1>6, <3>1, <3>2 DEF Count
  <2> QED
    BY <2>1, <2>2
<1>9. ReferencesAreHeld'
  BY <1>8 DEF ReferencesAreHeld, Count
<1>10. OthersAreNew'
  BY <1>1, <1>4, <1>5 DEF IndInv, CountInv, OthersAreNew
<1> QED
  BY <1>9, <1>10 DEF CountInv

(* A desktop that is yet to be created is not counted anywhere.             *)
LEMMA NewCounts ==
  ASSUME IndInv, NEW d \in Desks \ (live \cup gone)
  PROVE  /\ cReferences[d] = 0 /\ Count(HandlesTo(d)) = 0 /\ Count(StartedOn(d)) = 0
         /\ Count(SwitchesTo(d)) = 0
<1> USE DesktopsAssumption DEF IndInv
<1>1. cReferences[d] = 0
  BY DEF CountInv, OthersAreNew
<1>2. \A q \in Procs : handles[q][d] = 0
  BY DEF TypeOK, UseInv, HandlesAreGood, Has
<1>3. HandlesTo(d) = {}
  BY <1>2 DEF HandlesTo
<1>4. StartedOn(d) = {}
  BY DEF StartedOn, UseInv, UsersHaveHandles, HandlesAreGood
<1>5. SwitchesTo(d) = {}
  BY DEF SwitchesTo, UseInv, SwitchesAreLive
<1> QED
  BY <1>1, <1>3, <1>4, <1>5, FS_EmptySet DEF Count

(* The references stay exact, whatever is opened, closed, attached or       *)
(* switched.                                                                *)
LEMMA CountNext == IndInv /\ [Next]_vars => CountInv'
<1> SUFFICES ASSUME IndInv, [Next]_vars PROVE CountInv'
  OBVIOUS
<1> USE DesktopsAssumption DEF vars, objectVars, processVars, inputVars, switchVars, windowVars
<1>0. /\ TypeOK /\ HandlesAreGood /\ UsersHaveHandles /\ SwitchesAreLive
      /\ ReferencesAreHeld /\ OthersAreNew /\ StationsAreGood /\ InputIsKnown
  BY DEF IndInv, UseInv, CountInv, InputInv
<1>1. \A t \in Threads : ProcOf[t] \in Procs
  OBVIOUS
<1>2. ASSUME NEW p \in Procs, NEW d \in live \cup gone, AllocHandle(p, d, 0),
             UNCHANGED <<live, gone, switch>>,
             \A e \in Desks : StartedOn(e)' = StartedOn(e)
      PROVE  CountInv'
  <2>1. d \in Desks
    BY <1>0 DEF TypeOK
  <2>2. /\ StartedOn(d)' = StartedOn(d)
        /\ Count(StartedOn(d)) \in Nat
    BY <1>0, <1>2, <2>1, CountsAreFinite
  <2>3. Count(StartedOn(d)') = Count(StartedOn(d)) + 0
    BY <2>2 DEF Count
  <2>4. d \in live' =>
          cReferences[d] = Count(HandlesTo(d)) + Count(StartedOn(d)) + Count(SwitchesTo(d))
    BY <1>0, <1>2 DEF ReferencesAreHeld
  <2> QED
    BY <1>2, <2>1, <2>3, <2>4, AllocCounts
<1>3. ASSUME NEW t \in Threads, NEW d \in Desks, OpenDesktop(t, d) PROVE CountInv'
  BY <1>1, <1>2, <1>3 DEF OpenDesktop, StartedOn
<1>4. ASSUME NEW t \in Threads, NEW d \in Desks, CreateDesktop(t, d) PROVE CountInv'
  <2>1. d \notin live \cup gone /\ AllocHandle(ProcOf[t], d, 0) /\ switch' = switch
    BY <1>4 DEF CreateDesktop
  <2>2. live' \subseteq live \cup {d} /\ live' \cup gone' = live \cup gone \cup {d}
    BY <1>4 DEF CreateDesktop
  <2>3. \A e \in Desks : StartedOn(e)' = StartedOn(e)
    BY <1>4 DEF CreateDesktop, StartedOn
  <2>4. /\ cReferences[d] = 0 /\ Count(HandlesTo(d)) = 0 /\ Count(StartedOn(d)) = 0
        /\ Count(SwitchesTo(d)) = 0
    BY <2>1, NewCounts
  <2>5. Count(StartedOn(d)') = Count(StartedOn(d)) + 0
    BY <2>3, <2>4 DEF Count
  <2>6. cReferences[d] = Count(HandlesTo(d)) + Count(StartedOn(d)) + Count(SwitchesTo(d))
    BY <2>4
  <2> QED
    BY <1>1, <2>1, <2>2, <2>3, <2>5, <2>6, AllocCounts
<1>5. ASSUME NEW t \in Threads, NEW d \in Desks, CloseDesktop(t, d) PROVE CountInv'
  BY <1>5, CloseCounts
<1>6. ASSUME NEW t \in Threads, NEW d \in Desks, SetThreadDesktop(t, d) PROVE CountInv'
  <2>1. rpdeskStartup[ProcOf[t]] # Null
    BY <1>0, <1>1, <1>6 DEF SetThreadDesktop, Calls, UsersHaveHandles
  <2>2. rpdeskStartup' = rpdeskStartup
    BY <1>0, <1>1, <1>6, <2>1 DEF SetThreadDesktop, TypeOK
  <2> QED
    BY <1>6, <2>2, SameCounts DEF SetThreadDesktop
<1>7. ASSUME NEW t \in Threads, OpenInputDesktop(t) PROVE CountInv'
  BY <1>1, <1>2, <1>7 DEF OpenInputDesktop, StartedOn
<1>8. ASSUME NEW t \in Threads, NEW s \in Stations, SetProcessWindowStation(t, s) PROVE CountInv'
  BY <1>8, SameCounts DEF SetProcessWindowStation
<1>9. ASSUME NEW t \in Threads, NEW s \in Stations, NEW d \in Desks, AttachProcess(t, s, d)
      PROVE  CountInv'
  <2> DEFINE p == ProcOf[t]
  <2>1. /\ p \in Procs /\ p # Mpr /\ d \in live
        /\ AllocHandle(p, d, 1) /\ UNCHANGED <<live, gone, switch>>
    BY <1>0, <1>1, <1>9 DEF AttachProcess, UsersHaveHandles
  <2>2. /\ ppi'[p] = "attach" /\ rpdeskStartup'[p] = d /\ ppi[p] # "attach"
        /\ \A q \in Procs : q # p => ppi'[q] = ppi[q] /\ rpdeskStartup'[q] = rpdeskStartup[q]
    BY <1>0, <1>9, <2>1 DEF AttachProcess, TypeOK
  <2>3. /\ StartedOn(d)' = StartedOn(d) \cup {p} /\ p \notin StartedOn(d)
        /\ \A e \in Desks : e # d => StartedOn(e)' = StartedOn(e)
    BY <2>1, <2>2 DEF StartedOn
  <2>4. Count(StartedOn(d)') = Count(StartedOn(d)) + 1
    BY <1>0, <2>3, CountsAreFinite, FS_AddElement DEF Count
  <2>5. d \in live' =>
          cReferences[d] = Count(HandlesTo(d)) + Count(StartedOn(d)) + Count(SwitchesTo(d))
    BY <1>0, <2>1 DEF ReferencesAreHeld
  <2>6. live' \subseteq live \cup {d} /\ live' \cup gone' = live \cup gone \cup {d}
    BY <2>1
  <2> QED
    BY <2>1, <2>3, <2>4, <2>5, <2>6, AllocCounts
<1>10. ASSUME NEW t \in Threads, AttachThread(t) PROVE CountInv'
  BY <1>10, SameCounts DEF AttachThread
<1>11. ASSUME NEW t \in Threads, NEW d \in Desks, SwitchDesktop(t, d) PROVE CountInv'
  <2>1. d \in live /\ switch[t].at = "out"
    BY <1>0, <1>1, <1>11 DEF SwitchDesktop, Calls, HandlesAreGood
  <2>2. PICK at \in {"display", "tell"} :
          switch' = [switch EXCEPT ![t] =
                      [at |-> at, first |-> gpdeskInputDesktop = Null, desk |-> d]]
    BY <1>11 DEF SwitchDesktop
  <2>3. switch'[t].at = at /\ switch'[t].desk = d /\ \A u \in Threads : u # t => switch'[u] = switch[u]
    BY <1>0, <2>2 DEF TypeOK
  <2>4. UNCHANGED <<live, gone, handles, ppi, rpdeskStartup>>
    BY <1>11 DEF SwitchDesktop
  <2>5. CASE at = "display"
    <3>1. cReferences' = [cReferences EXCEPT ![d] = IF TRUE THEN @ + 1 ELSE @ - 1]
      BY <1>11, <2>3, <2>5 DEF SwitchDesktop
    <3> QED
      BY <2>1, <2>3, <2>4, <2>5, <3>1, SwitchCounts
  <2>6. CASE at = "tell"
    <3>1. cReferences' = cReferences
      BY <1>0, <1>11, <2>3, <2>6 DEF SwitchDesktop, TypeOK
    <3> QED
      BY <2>1, <2>3, <2>4, <2>6, <3>1, SameCounts
  <2> QED
    BY <2>5, <2>6
<1>12. ASSUME NEW t \in Threads, ChangedDisplay(t) PROVE CountInv'
  <2> DEFINE d == switch[t].desk
  <2>1. d \in live /\ switch[t].at = "display"
    BY <1>0, <1>12 DEF ChangedDisplay, SwitchesAreLive
  <2>2. switch'[t].at = "tell" /\ \A u \in Threads : u # t => switch'[u] = switch[u]
    BY <1>0, <1>12 DEF ChangedDisplay, TypeOK
  <2>3. UNCHANGED <<live, gone, handles, ppi, rpdeskStartup>>
    BY <1>12 DEF ChangedDisplay
  <2>4. cReferences' = [cReferences EXCEPT ![d] = IF FALSE THEN @ + 1 ELSE @ - 1]
    BY <1>12 DEF ChangedDisplay
  <2> QED
    BY <2>1, <2>2, <2>3, <2>4, SwitchCounts
<1>13. ASSUME NEW t \in Threads, Tell(t) \/ WaitSwitchEvent(t) PROVE CountInv'
  <2>1. /\ switch[t].at # "display" /\ switch'[t].at # "display"
        /\ \A u \in Threads : u # t => switch'[u] = switch[u]
    BY <1>0, <1>13 DEF Tell, WaitSwitchEvent, Returned, TypeOK
  <2>2. UNCHANGED <<cReferences, live, gone, handles, ppi, rpdeskStartup>>
    BY <1>13 DEF Tell, WaitSwitchEvent
  <2> QED
    BY <2>1, <2>2, SameCounts
<1>14. ASSUME NEW s \in Stations, NEW on \in BOOLEAN, LockWindowStation(s, on) PROVE CountInv'
  BY <1>14, SameCounts DEF LockWindowStation
<1>15. CASE EnumWindows \/ NewDesktop \/ Redraw
  BY <1>15, SameCounts DEF EnumWindows, NewDesktop, Redraw
<1>16. ASSUME NEW w \in Windows, LookAt(w) PROVE CountInv'
  <2> DEFINE p == ProcOf[Owner[w]]
  <2>0. p \in Procs /\ UNCHANGED <<live, gone, switch>>
    BY <1>16 DEF LookAt
  <2>1. CASE ppi[p] = "none"
    <3>1. PICK on \in StartsOn :
            /\ ppi' = [ppi EXCEPT ![p] = "enum"]
            /\ rpdeskStartup' = [rpdeskStartup EXCEPT ![p] = on[2]]
            /\ AllocHandle(p, on[2], 0)
      BY <1>16, <2>1 DEF LookAt
    <3>2. gpdeskInputDesktop \in live \cup gone
      BY <1>0, <1>16 DEF LookAt, InputIsKnown
    <3>3. \A q \in Procs : rpdeskStartup[q] # Null => rpdeskStartup[q] \in live \cup gone
      BY <1>0 DEF UsersHaveHandles, HandlesAreGood, TypeOK
    <3>4. on[2] \in live \cup gone
      BY <3>2, <3>3 DEF StartsOn
    <3>5. \A e \in Desks : StartedOn(e)' = StartedOn(e)
      BY <1>0, <2>0, <2>1, <3>1 DEF StartedOn, TypeOK
    <3> QED
      BY <1>2, <2>0, <3>1, <3>4, <3>5
  <2>2. CASE ppi[p] # "none"
    BY <1>16, <2>0, <2>2, SameCounts DEF LookAt
  <2> QED
    BY <2>1, <2>2
<1>17. CASE HideOrShow
  BY <1>17, SameCounts DEF HideOrShow
<1>18. ASSUME NEW w \in Windows, CreateWindow(w) \/ ShowWindow(w) PROVE CountInv'
  BY <1>18, SameCounts DEF CreateWindow, ShowWindow
<1>19. CASE UNCHANGED vars
  BY <1>19, SameCounts
<1> QED
  BY <1>3, <1>4, <1>5, <1>6, <1>7, <1>8, <1>9, <1>10, <1>11, <1>12, <1>13, <1>14, <1>15,
     <1>16, <1>17, <1>18, <1>19 DEF Next, Call, Switching, DesktopThread

-----------------------------------------------------------------------------
LEMMA AllocHas ==
  ASSUME TypeOK, NEW p \in Procs, NEW d \in Desks, NEW kept, AllocHandle(p, d, kept)
  PROVE  \A q \in Procs, e \in Desks : Has(q, e)' <=> Has(q, e) \/ (q = p /\ e = d)
<1>1. /\ handles \in [Procs -> [Desks -> 0..MaxHandles]]
      /\ handles' = [handles EXCEPT ![p][d] = @ + 1]
  BY DEF TypeOK, AllocHandle
<1>2. ASSUME NEW q \in Procs, NEW e \in Desks
      PROVE  handles'[q][e] = IF q = p /\ e = d THEN handles[q][e] + 1 ELSE handles[q][e]
  BY <1>1
<1>3. \A q \in Procs, e \in Desks : handles[q][e] \in 0..MaxHandles
  BY <1>1
<1> QED
  BY <1>2, <1>3, DesktopsAssumption DEF Has

(* Steps that open no handle and move nobody.                               *)
LEMMA SameUse ==
  ASSUME UseInv, UNCHANGED <<handles, live, gone, ppi, rpdeskStartup, rpdesk>>, SwitchesAreLive'
  PROVE  UseInv'
BY DEF UseInv, HandlesAreGood, UsersHaveHandles, Has

(* No step takes a desktop from those that are on it.                       *)
LEMMA UseNext == IndInv /\ TypeOK' /\ CountInv' /\ [Next]_vars => UseInv'
<1> SUFFICES ASSUME IndInv, TypeOK', CountInv', [Next]_vars PROVE UseInv'
  OBVIOUS
<1> USE DesktopsAssumption DEF vars, objectVars, processVars, inputVars, switchVars, windowVars
<1>0. /\ TypeOK /\ UseInv /\ HandlesAreGood /\ UsersHaveHandles /\ SwitchesAreLive
      /\ ReferencesAreHeld' /\ StationsAreGood /\ InputIsKnown
  BY DEF IndInv, UseInv, CountInv, InputInv
<1>1. \A t \in Threads : ProcOf[t] \in Procs
  OBVIOUS
<1>2. ASSUME UNCHANGED <<switch>>, live \subseteq live' PROVE SwitchesAreLive'
  BY <1>0, <1>2 DEF SwitchesAreLive
<1>3. ASSUME NEW p \in Procs, NEW d \in live', AllocHandle(p, d, 0), ppi[p] = "attach",
             live \subseteq live',
             UNCHANGED <<gone, switch, ppi, rpdeskStartup, rpdesk>>
      PROVE  UseInv'
  <2>1. d \in Desks
    BY <1>0 DEF TypeOK
  <2>2. \A q \in Procs, e \in Desks : Has(q, e)' <=> Has(q, e) \/ (q = p /\ e = d)
    BY <1>0, <1>3, <2>1, AllocHas
  <2>3. HandlesAreGood'
    BY <1>0, <1>3, <2>2 DEF HandlesAreGood
  <2>4. UsersHaveHandles'
    BY <1>0, <1>1, <1>3, <2>2 DEF UsersHaveHandles, TypeOK
  <2> QED
    BY <1>2, <1>3, <2>3, <2>4 DEF UseInv
<1>4. ASSUME NEW t \in Threads, NEW d \in Desks, OpenDesktop(t, d) \/ CreateDesktop(t, d)
      PROVE  UseInv'
  <2>1. CASE OpenDesktop(t, d)
    BY <1>1, <1>3, <2>1 DEF OpenDesktop, Calls
  <2>2. CASE CreateDesktop(t, d)
    BY <1>1, <1>3, <2>2 DEF CreateDesktop, Calls
  <2> QED
    BY <1>4, <2>1, <2>2
<1>5. ASSUME NEW t \in Threads, NEW d \in Desks, CloseDesktop(t, d) PROVE UseInv'
  <2> DEFINE p == ProcOf[t]
  <2>1. /\ p \in Procs /\ Has(p, d) /\ ~InUse(p, d) /\ ppi[p] = "attach" /\ d \in live
        /\ UNCHANGED <<ppi, rpdeskStartup, rpdesk, switch>>
    BY <1>0, <1>1, <1>5 DEF CloseDesktop, Calls, HandlesAreGood
  <2>2. ASSUME NEW q \in Procs, NEW e \in Desks
        PROVE  (Has(q, e)' => Has(q, e)) /\ (Has(q, e) /\ ~(q = p /\ e = d) => Has(q, e)')
    <3>1. handles'[q][e] = IF q = p /\ e = d THEN handles[q][e] - 1 ELSE handles[q][e]
      BY <1>0, <1>5, <2>1 DEF CloseDesktop, TypeOK
    <3>2. handles[q][e] \in Nat
      BY <1>0 DEF TypeOK
    <3> QED
      BY <3>1, <3>2 DEF Has
  <2>3. /\ live' = IF cReferences'[d] < 1 THEN live \ {d} ELSE live
        /\ live' \cup gone' = live \cup gone
    BY <2>1, <1>5 DEF CloseDesktop, Dereference, Release
  <2>4. cReferences'[d] = cReferences[d] - 1
    BY <1>0, <1>5 DEF CloseDesktop, Dereference, TypeOK
  <2>5. cReferences'[d] < 1 =>
          /\ \A q \in Procs : ~Has(q, d)'
          /\ \A u \in Threads : ~(switch[u].at = "display" /\ switch[u].desk = d)
    <3> SUFFICES ASSUME cReferences'[d] < 1
                 PROVE  /\ \A q \in Procs : ~Has(q, d)'
                        /\ \A u \in Threads : ~(switch[u].at = "display" /\ switch[u].desk = d)
      OBVIOUS
    <3>1. /\ Count(HandlesTo(d)) \in Nat /\ Count(StartedOn(d)) \in Nat
          /\ Count(SwitchesTo(d)) \in Nat /\ IsFiniteSet(SwitchesTo(d))
          /\ Count(HandlesTo(d)') = Count(HandlesTo(d)) - 1
      BY <1>0, <1>5, <2>1, CountsAreFinite, OneHandleLess DEF CloseDesktop, Has
    <3>2. cReferences[d] = Count(HandlesTo(d)) + Count(StartedOn(d)) + Count(SwitchesTo(d))
      BY <2>1 DEF IndInv, CountInv, ReferencesAreHeld
    <3>3. \A h \in HandlesTo(d)' : h \in HandlesTo(d)
      <4>1. \A q \in Procs : handles'[q][d] <= handles[q][d]
        BY <1>0, <1>5, <2>1 DEF CloseDesktop, TypeOK
      <4>2. \A q \in Procs : handles'[q][d] \in Int /\ handles[q][d] \in Int
        BY <1>0 DEF TypeOK
      <4> QED
        BY <4>1, <4>2 DEF HandlesTo
    <3>4. IsFiniteSet(HandlesTo(d)')
      BY <1>0, <3>3, CountsAreFinite, FS_Subset
    <3>5. Count(HandlesTo(d)') \in Nat
      BY <3>4, FS_CardinalityType DEF Count
    <3>6. Count(HandlesTo(d)') = 0 /\ Count(SwitchesTo(d)) = 0
      <4> HIDE DEF Count
      <4> QED
        BY <2>4, <3>1, <3>2, <3>5
    <3>7. HandlesTo(d)' = {} /\ SwitchesTo(d) = {}
      BY <3>1, <3>4, <3>6, FS_EmptySet DEF Count
    <3>8. \A q \in Procs : ~Has(q, d)'
      <4> SUFFICES ASSUME NEW q \in Procs, Has(q, d)' PROVE <<q, 1>> \in HandlesTo(d)'
        BY <3>7
      <4>1. handles'[q][d] \in 1..MaxHandles
        BY <1>0 DEF TypeOK, Has
      <4> QED
        BY <4>1 DEF HandlesTo
    <3> QED
      BY <3>7, <3>8 DEF SwitchesTo
  <2>6. HandlesAreGood'
    BY <1>0, <2>1, <2>2, <2>3, <2>5 DEF HandlesAreGood
  <2>7. UsersHaveHandles'
    <3>1. \A q \in Procs : rpdeskStartup[q] # Null => ~(q = p /\ rpdeskStartup[q] = d)
      BY <2>1 DEF InUse
    <3>2. \A u \in Threads : rpdesk[u] # Null => ~(ProcOf[u] = p /\ rpdesk[u] = d)
      BY <2>1 DEF InUse
    <3> QED
      BY <1>0, <1>1, <2>1, <2>2, <3>1, <3>2 DEF UsersHaveHandles, TypeOK
  <2>8. SwitchesAreLive'
    BY <1>0, <2>1, <2>3, <2>5 DEF SwitchesAreLive
  <2> QED
    BY <2>6, <2>7, <2>8 DEF UseInv
<1>6. ASSUME NEW t \in Threads, NEW d \in Desks, SetThreadDesktop(t, d) PROVE UseInv'
  <2>1. rpdeskStartup' = rpdeskStartup
    BY <1>0, <1>1, <1>6 DEF SetThreadDesktop, TypeOK, Calls, UsersHaveHandles
  <2>2. HandlesAreGood' /\ SwitchesAreLive'
    BY <1>0, <1>2, <1>6 DEF SetThreadDesktop, HandlesAreGood, Has
  <2>3. UsersHaveHandles'
    BY <1>0, <1>6, <2>1 DEF SetThreadDesktop, UsersHaveHandles, Has, TypeOK
  <2> QED
    BY <2>2, <2>3 DEF UseInv
<1>7. ASSUME NEW t \in Threads, OpenInputDesktop(t) PROVE UseInv'
  BY <1>1, <1>3, <1>7 DEF OpenInputDesktop, Calls
<1>8. ASSUME NEW t \in Threads, NEW s \in Stations, SetProcessWindowStation(t, s) PROVE UseInv'
  BY <1>0, <1>2, <1>8, SameUse DEF SetProcessWindowStation
<1>9. ASSUME NEW t \in Threads, NEW s \in Stations, NEW d \in Desks, AttachProcess(t, s, d)
      PROVE  UseInv'
  <2> DEFINE p == ProcOf[t]
  <2>1. /\ p \in Procs /\ p # Mpr /\ d \in live /\ ppi[p] = "none"
        /\ UNCHANGED <<live, gone, switch>>
    BY <1>0, <1>1, <1>9 DEF AttachProcess, UsersHaveHandles
  <2>2. \A q \in Procs, e \in Desks : Has(q, e)' <=> Has(q, e) \/ (q = p /\ e = d)
    BY <1>0, <1>9, <2>1, AllocHas DEF AttachProcess
  <2>3. /\ ppi'[p] = "attach" /\ rpdeskStartup'[p] = d
        /\ \A q \in Procs : q # p => ppi'[q] = ppi[q] /\ rpdeskStartup'[q] = rpdeskStartup[q]
        /\ rpdesk'[t] = d /\ \A u \in Threads : u # t => rpdesk'[u] = rpdesk[u]
    BY <1>0, <1>9, <2>1 DEF AttachProcess, TypeOK
  <2>4. HandlesAreGood'
    BY <1>0, <2>1, <2>2, <2>3 DEF HandlesAreGood
  <2>5. UsersHaveHandles'
    <3>1. \A q \in Procs :
            IF ppi'[q] = "none"
            THEN rpdeskStartup'[q] = Null
            ELSE rpdeskStartup'[q] # Null /\ handles'[q][rpdeskStartup'[q]] > 0
      <4>1. ASSUME NEW q \in Procs, q # p
            PROVE  IF ppi'[q] = "none"
                   THEN rpdeskStartup'[q] = Null
                   ELSE rpdeskStartup'[q] # Null /\ handles'[q][rpdeskStartup'[q]] > 0
        <5>1. CASE ppi[q] = "none"
          BY <1>0, <2>1, <2>2, <2>3, <4>1, <5>1 DEF UsersHaveHandles, Has
        <5>2. CASE ppi[q] # "none"
          <6>1. rpdeskStartup[q] \in Desks /\ Has(q, rpdeskStartup[q])
            BY <1>0, <5>2 DEF UsersHaveHandles, TypeOK, Has
          <6> QED
            BY <2>1, <2>2, <2>3, <4>1, <5>2, <6>1 DEF Has
        <5> QED
          BY <5>1, <5>2 DEF Has
      <4>2. rpdeskStartup'[p] # Null /\ handles'[p][rpdeskStartup'[p]] > 0 /\ ppi'[p] # "none"
        BY <2>1, <2>2, <2>3 DEF Has
      <4> QED
        BY <4>1, <4>2 DEF Has
    <3>2. ASSUME NEW u \in Threads, rpdesk'[u] # Null PROVE handles'[ProcOf[u]][rpdesk'[u]] > 0
      <4>1. CASE rpdesk'[u] = rpdesk[u]
        <5>1. Has(ProcOf[u], rpdesk[u]) /\ rpdesk[u] \in Desks /\ ProcOf[u] \in Procs
          BY <1>0, <1>1, <3>2, <4>1 DEF UsersHaveHandles, TypeOK, Has
        <5> QED
          BY <2>1, <2>2, <2>3, <4>1, <5>1 DEF Has
      <4>2. CASE rpdesk'[u] # rpdesk[u]
        BY <2>1, <2>2, <2>3, <1>1, <4>2 DEF Has
      <4> QED
        BY <4>1, <4>2 DEF Has
    <3>3. ppi'[Mpr] = "attach"
      BY <1>0, <2>1, <2>2, <2>3 DEF UsersHaveHandles, Has
    <3> QED
      BY <3>1, <3>2, <3>3 DEF UsersHaveHandles, Has
  <2> QED
    BY <1>2, <2>1, <2>4, <2>5 DEF UseInv
<1>10. ASSUME NEW t \in Threads, AttachThread(t) PROVE UseInv'
  <2>1. HandlesAreGood' /\ SwitchesAreLive'
    BY <1>0, <1>2, <1>10 DEF AttachThread, HandlesAreGood, Has
  <2>2. UsersHaveHandles'
    BY <1>0, <1>1, <1>10 DEF AttachThread, UsersHaveHandles, Has, TypeOK
  <2> QED
    BY <2>1, <2>2 DEF UseInv
<1>11. ASSUME NEW t \in Threads, NEW d \in Desks, SwitchDesktop(t, d) PROVE UseInv'
  <2>1. d \in live
    BY <1>0, <1>1, <1>11 DEF SwitchDesktop, Calls, HandlesAreGood
  <2>2. switch'[t].desk = d /\ \A u \in Threads : u # t => switch'[u] = switch[u]
    BY <1>0, <1>11 DEF SwitchDesktop, TypeOK
  <2>3. SwitchesAreLive'
    BY <1>0, <1>11, <2>1, <2>2 DEF SwitchDesktop, SwitchesAreLive
  <2> QED
    BY <1>0, <1>11, <2>3, SameUse DEF SwitchDesktop
<1>12. ASSUME NEW t \in Threads, ChangedDisplay(t) \/ Tell(t) \/ WaitSwitchEvent(t) PROVE UseInv'
  <2>1. switch'[t].at # "display" /\ \A u \in Threads : u # t => switch'[u] = switch[u]
    BY <1>0, <1>12 DEF ChangedDisplay, Tell, WaitSwitchEvent, Returned, TypeOK
  <2>2. UNCHANGED <<handles, live, gone, ppi, rpdeskStartup, rpdesk>>
    BY <1>12 DEF ChangedDisplay, Tell, WaitSwitchEvent
  <2>3. SwitchesAreLive'
    BY <1>0, <2>1, <2>2 DEF SwitchesAreLive
  <2> QED
    BY <1>0, <2>2, <2>3, SameUse
<1>13. ASSUME NEW s \in Stations, NEW on \in BOOLEAN, LockWindowStation(s, on) PROVE UseInv'
  BY <1>0, <1>2, <1>13, SameUse DEF LockWindowStation
<1>14. CASE EnumWindows \/ NewDesktop \/ Redraw \/ HideOrShow
  BY <1>0, <1>2, <1>14, SameUse DEF EnumWindows, NewDesktop, Redraw, HideOrShow
<1>15. ASSUME NEW w \in Windows, LookAt(w) PROVE UseInv'
  <2> DEFINE t == Owner[w]
             p == ProcOf[t]
  <2>0. p \in Procs /\ t \in Threads /\ UNCHANGED <<live, gone, switch>>
    BY <1>15 DEF LookAt
  <2>1. CASE ppi[p] = "none"
    <3>1. PICK on \in StartsOn :
            /\ ppi' = [ppi EXCEPT ![p] = "enum"]
            /\ rpdeskStartup' = [rpdeskStartup EXCEPT ![p] = on[2]]
            /\ AllocHandle(p, on[2], 0)
      BY <1>15, <2>1 DEF LookAt
    <3> DEFINE d == on[2]
    <3>2. gpdeskInputDesktop \in live \cup gone
      BY <1>0, <1>15 DEF LookAt, InputIsKnown
    <3>3. \A q \in Procs : rpdeskStartup[q] # Null => rpdeskStartup[q] \in live \cup gone
      BY <1>0 DEF UsersHaveHandles, HandlesAreGood, TypeOK
    <3>4. d \in live \cup gone /\ d \in Desks
      BY <1>0, <3>2, <3>3 DEF StartsOn, TypeOK
    <3>5. \A q \in Procs, e \in Desks : Has(q, e)' <=> Has(q, e) \/ (q = p /\ e = d)
      BY <1>0, <2>0, <3>1, <3>4, AllocHas
    <3> HIDE DEF d
    <3>6. /\ ppi'[p] = "enum" /\ rpdeskStartup'[p] = d /\ p # Mpr
          /\ \A q \in Procs : q # p => ppi'[q] = ppi[q] /\ rpdeskStartup'[q] = rpdeskStartup[q]
      BY <1>0, <2>0, <2>1, <3>1 DEF d, TypeOK, UsersHaveHandles
    <3>7. \A u \in Threads : rpdesk'[u] = rpdesk[u] \/ (u = t /\ rpdesk'[u] = d)
      BY <1>0, <1>15, <2>0, <3>6 DEF LookAt, TypeOK
    <3>8. HandlesAreGood'
      BY <1>0, <2>0, <2>1, <3>4, <3>5, <3>6 DEF HandlesAreGood
    <3>9. UsersHaveHandles'
      <4>1. \A q \in Procs :
              IF ppi'[q] = "none"
              THEN rpdeskStartup'[q] = Null
              ELSE rpdeskStartup'[q] # Null /\ handles'[q][rpdeskStartup'[q]] > 0
        <5>1. ASSUME NEW q \in Procs, q # p
              PROVE  IF ppi'[q] = "none"
                     THEN rpdeskStartup'[q] = Null
                     ELSE rpdeskStartup'[q] # Null /\ handles'[q][rpdeskStartup'[q]] > 0
          <6>1. CASE ppi[q] = "none"
            BY <1>0, <2>0, <3>4, <3>5, <3>6, <3>7, <5>1, <6>1 DEF UsersHaveHandles, Has
          <6>2. CASE ppi[q] # "none"
            <7>1. rpdeskStartup[q] \in Desks /\ Has(q, rpdeskStartup[q])
              BY <1>0, <6>2 DEF UsersHaveHandles, TypeOK, Has
            <7> QED
              BY <2>0, <3>4, <3>5, <3>6, <3>7, <5>1, <6>2, <7>1 DEF Has
          <6> QED
            BY <6>1, <6>2 DEF Has
        <5>2. rpdeskStartup'[p] # Null /\ handles'[p][rpdeskStartup'[p]] > 0 /\ ppi'[p] # "none"
          BY <2>0, <3>4, <3>5, <3>6, <3>7 DEF Has
        <5> QED
          BY <5>1, <5>2 DEF Has
      <4>2. ASSUME NEW u \in Threads, rpdesk'[u] # Null PROVE handles'[ProcOf[u]][rpdesk'[u]] > 0
        <5>1. CASE rpdesk'[u] = rpdesk[u]
          <6>1. Has(ProcOf[u], rpdesk[u]) /\ rpdesk[u] \in Desks /\ ProcOf[u] \in Procs
            BY <1>0, <1>1, <4>2, <5>1 DEF UsersHaveHandles, TypeOK, Has
          <6> QED
            BY <2>0, <3>4, <3>5, <3>6, <3>7, <5>1, <6>1 DEF Has
        <5>2. CASE rpdesk'[u] # rpdesk[u]
          BY <2>0, <3>4, <3>5, <3>6, <3>7, <1>1, <5>2 DEF Has
        <5> QED
          BY <5>1, <5>2 DEF Has
      <4>3. ppi'[Mpr] = "attach"
        BY <1>0, <2>0, <3>4, <3>5, <3>6, <3>7 DEF UsersHaveHandles, Has
      <4> QED
        BY <4>1, <4>2, <4>3 DEF UsersHaveHandles, Has
    <3> QED
      BY <1>2, <2>0, <3>8, <3>9 DEF UseInv
  <2>2. CASE ppi[p] # "none"
    <3>1. /\ UNCHANGED <<handles, ppi, rpdeskStartup>>
          /\ \A u \in Threads : rpdesk'[u] = rpdesk[u] \/ (u = t /\ rpdesk'[u] = rpdeskStartup[p])
      BY <1>0, <1>15, <2>0, <2>2 DEF LookAt, TypeOK
    <3>2. HandlesAreGood'
      BY <1>0, <2>0, <3>1 DEF HandlesAreGood, Has
    <3>3. UsersHaveHandles'
      BY <1>0, <1>1, <2>0, <2>2, <3>1 DEF UsersHaveHandles, Has
    <3> QED
      BY <1>2, <2>0, <3>2, <3>3 DEF UseInv
  <2> QED
    BY <2>1, <2>2
<1>16. ASSUME NEW w \in Windows, CreateWindow(w) \/ ShowWindow(w) PROVE UseInv'
  BY <1>0, <1>2, <1>16, SameUse DEF CreateWindow, ShowWindow
<1>17. CASE UNCHANGED vars
  BY <1>0, <1>2, <1>17, SameUse
<1> QED
  BY <1>4, <1>5, <1>6, <1>7, <1>8, <1>9, <1>10, <1>11, <1>12, <1>13, <1>14, <1>15,
     <1>16, <1>17 DEF Next, Call, Switching, DesktopThread

-----------------------------------------------------------------------------
(* Steps that change neither desktops nor stations nor the input.           *)
LEMMA SameInput ==
  ASSUME InputInv, InputIsKnown',
         UNCHANGED <<live, parent, gpdeskInputDesktop, InputWindowStation, ActiveDesktop>>
  PROVE  InputInv'
BY DEF InputInv, StationsAreGood, InputIsActive

(* The input desktop stays its station's active one.                        *)
LEMMA InputNext == IndInv /\ [Next]_vars => InputInv'
<1> SUFFICES ASSUME IndInv, [Next]_vars PROVE InputInv'
  OBVIOUS
<1> USE DesktopsAssumption DEF vars, objectVars, processVars, inputVars, switchVars, windowVars
<1>0. /\ TypeOK /\ HandlesAreGood
      /\ InputInv /\ StationsAreGood /\ InputIsKnown /\ InputIsActive
  BY DEF IndInv, UseInv, InputInv
<1>1. ASSUME UNCHANGED <<live, gone, parent, inputVars, desktopThread>> PROVE InputInv'
  BY <1>0, <1>1, SameInput DEF InputIsKnown
<1>2. ASSUME NEW t \in Threads, NEW d \in Desks, CreateDesktop(t, d) PROVE InputInv'
  <2> DEFINE s == rpwinsta[ProcOf[t]]
  <2>1. /\ s \in Stations /\ d \notin live \cup gone
        /\ live' = live \cup {d} /\ gone' = gone
        /\ UNCHANGED <<gpdeskInputDesktop, InputWindowStation, desktopThread>>
    BY <1>0, <1>2 DEF CreateDesktop, TypeOK
  <2>2. /\ parent'[d] = s /\ \A e \in Desks : e # d => parent'[e] = parent[e]
        /\ \A q \in Stations : ActiveDesktop'[q] =
             IF q = s /\ ActiveDesktop[q] = Null THEN d ELSE ActiveDesktop[q]
    BY <1>0, <1>2, <2>1 DEF CreateDesktop, TypeOK
  <2> HIDE DEF s
  <2>3. StationsAreGood'
    BY <1>0, <2>1, <2>2 DEF StationsAreGood, TypeOK
  <2>4. InputIsKnown'
    BY <1>0, <2>1 DEF InputIsKnown
  <2>5. InputIsActive'
    <3>1. gpdeskInputDesktop # d
      BY <1>0, <2>1 DEF InputIsKnown
    <3>2. InputWindowStation \in Stations /\ Null \notin live /\ live \subseteq Desks
      BY <1>0 DEF TypeOK
    <3> QED
      BY <1>0, <2>1, <2>2, <3>1, <3>2 DEF InputIsActive
  <2> QED
    BY <2>3, <2>4, <2>5 DEF InputInv
<1>3. ASSUME NEW t \in Threads, NEW d \in Desks, CloseDesktop(t, d) PROVE InputInv'
  <2>1. /\ d \in live
        /\ UNCHANGED <<parent, gpdeskInputDesktop, InputWindowStation, desktopThread>>
    BY <1>0, <1>3 DEF CloseDesktop, Calls, HandlesAreGood
  <2>2. CASE ~(cReferences'[d] < 1)
    <3>1. UNCHANGED <<live, gone, ActiveDesktop>>
      BY <1>3, <2>2 DEF CloseDesktop, Dereference, Release
    <3> QED
      BY <1>0, <2>1, <3>1, SameInput DEF InputIsKnown
  <2>3. CASE cReferences'[d] < 1
    <3>1. /\ live' = live \ {d} /\ gone' = gone \cup {d}
          /\ \A q \in Stations : ActiveDesktop'[q] =
               IF q = parent[d] /\ ActiveDesktop[q] = d THEN Null ELSE ActiveDesktop[q]
      BY <1>0, <1>3, <2>3 DEF CloseDesktop, Dereference, Release, TypeOK
    <3>2. StationsAreGood'
      BY <1>0, <2>1, <3>1 DEF StationsAreGood, TypeOK
    <3>3. InputIsKnown'
      BY <1>0, <2>1, <3>1 DEF InputIsKnown
    <3>4. InputIsActive'
      BY <1>0, <2>1, <3>1 DEF InputIsActive, TypeOK
    <3> QED
      BY <3>2, <3>3, <3>4 DEF InputInv
  <2> QED
    BY <2>2, <2>3
<1>4. ASSUME NEW t \in Threads, NEW d \in Desks, SwitchDesktop(t, d) PROVE InputInv'
  <2>1. d \in live /\ d # Null /\ parent[d] \in Stations /\ InputWindowStation \in Stations
    BY <1>0, <1>4 DEF SwitchDesktop, Calls, HandlesAreGood, StationsAreGood, TypeOK
  <2>2. /\ UNCHANGED <<live, gone, parent, desktopThread>>
        /\ gpdeskInputDesktop' = d /\ InputWindowStation' = parent[d]
    BY <1>4 DEF SwitchDesktop, SetInput
  <2>3. \A q \in Stations : ActiveDesktop'[q] =
          IF q = parent[d] THEN d ELSE IF q = InputWindowStation THEN Null ELSE ActiveDesktop[q]
    BY <1>0, <1>4, <2>1 DEF SwitchDesktop, SetInput, TypeOK
  <2>4. StationsAreGood' /\ InputIsActive'
    BY <1>0, <2>1, <2>2, <2>3 DEF StationsAreGood, InputIsActive
  <2>5. InputIsKnown'
    BY <2>1, <2>2 DEF InputIsKnown
  <2> QED
    BY <2>4, <2>5 DEF InputInv
<1>5. CASE EnumWindows \/ NewDesktop \/ Redraw
  <2>1. UNCHANGED <<live, gone, parent, inputVars>>
    BY <1>5 DEF EnumWindows, NewDesktop, Redraw
  <2>2. desktopThread' = [at |-> "top", todo |-> {}, window |-> Null, hide |-> FALSE]
        \/ gpdeskInputDesktop # Null
    BY <1>0, <1>5 DEF EnumWindows, NewDesktop, Redraw, Go, InputIsKnown
  <2>3. InputIsKnown'
    BY <1>0, <2>1, <2>2 DEF InputIsKnown
  <2> QED
    BY <1>0, <2>1, <2>3, SameInput
<1>6. ASSUME NEW w \in Windows, LookAt(w) PROVE InputInv'
  <2>1. UNCHANGED <<live, gone, parent, inputVars>> /\ gpdeskInputDesktop # Null
    BY <1>0, <1>6 DEF LookAt, InputIsKnown
  <2>2. InputIsKnown'
    BY <1>0, <2>1 DEF InputIsKnown
  <2> QED
    BY <1>0, <2>1, <2>2, SameInput
<1>7. CASE HideOrShow
  <2>1. UNCHANGED <<live, gone, parent, inputVars>>
    BY <1>7 DEF HideOrShow
  <2>2. desktopThread'.at = desktopThread.at /\ desktopThread'.todo = desktopThread.todo
    BY <1>0, <1>7 DEF HideOrShow, TypeOK
  <2>3. InputIsKnown'
    BY <1>0, <2>1, <2>2 DEF InputIsKnown
  <2> QED
    BY <1>0, <2>1, <2>3, SameInput
<1>8. ASSUME NEW t \in Threads, NEW d \in Desks, OpenDesktop(t, d) \/ SetThreadDesktop(t, d)
      PROVE  InputInv'
  BY <1>1, <1>8 DEF OpenDesktop, SetThreadDesktop
<1>9. ASSUME NEW t \in Threads, OpenInputDesktop(t) \/ AttachThread(t) PROVE InputInv'
  BY <1>1, <1>9 DEF OpenInputDesktop, AttachThread
<1>10. ASSUME NEW t \in Threads, NEW s \in Stations, SetProcessWindowStation(t, s) PROVE InputInv'
  BY <1>1, <1>10 DEF SetProcessWindowStation
<1>11. ASSUME NEW t \in Threads, NEW s \in Stations, NEW d \in Desks, AttachProcess(t, s, d)
       PROVE  InputInv'
  BY <1>1, <1>11 DEF AttachProcess
<1>12. ASSUME NEW t \in Threads, Switching(t) PROVE InputInv'
  BY <1>1, <1>12 DEF Switching, ChangedDisplay, Tell, WaitSwitchEvent
<1>13. ASSUME NEW s \in Stations, NEW on \in BOOLEAN, LockWindowStation(s, on) PROVE InputInv'
  <2>1. UNCHANGED <<live, gone, parent, gpdeskInputDesktop, InputWindowStation, ActiveDesktop,
                    desktopThread>>
    BY <1>13 DEF LockWindowStation
  <2> QED
    BY <1>0, <2>1, SameInput DEF InputIsKnown
<1>14. ASSUME NEW w \in Windows, CreateWindow(w) \/ ShowWindow(w) PROVE InputInv'
  BY <1>1, <1>14 DEF CreateWindow, ShowWindow
<1>15. CASE UNCHANGED vars
  BY <1>1, <1>15
<1> QED
  BY <1>2, <1>3, <1>4, <1>5, <1>6, <1>7, <1>8, <1>9, <1>10, <1>11, <1>12, <1>13, <1>14,
     <1>15 DEF Next, Call, DesktopThread

-----------------------------------------------------------------------------
LEMMA Inductive == Spec => []IndInv
<1>1. IndInv /\ [Next]_vars => IndInv'
  BY TypeNext, CountNext, UseNext, InputNext DEF IndInv
<1> QED
  BY InitInv, <1>1, PTL DEF Spec

LEMMA FairIsSpec == FairSpec => Spec
BY DEF FairSpec

(* Every variable of the desktops stays within its type.                    *)
THEOREM DesktopsTypeCorrect == FairSpec => []TypeOK
<1>1. IndInv => TypeOK
  BY DEF IndInv
<1> QED
  BY <1>1, Inductive, FairIsSpec, PTL

(* cReferences of a desktop is the number of its handles, of the processes  *)
(* that started on it and of the switches that work with it without the     *)
(* Win16 lock, for any number of each: what CloseDesktop, SwitchDesktop and *)
(* InitDesktops count in different functions of desktop.c adds up.          *)
THEOREM ReferencesAreExact == FairSpec => []ReferencesAreHeld
<1>1. IndInv => ReferencesAreHeld
  BY DEF IndInv, CountInv
<1> QED
  BY <1>1, Inductive, FairIsSpec, PTL

(* The desktop that is freed by CloseDesktop is no thread's, no process's   *)
(* and no station's.                                                        *)
THEOREM FreedDesktopsAreUnused == FairSpec => []FreedIsUnused
<1> USE DesktopsAssumption
<1>1. ASSUME IndInv PROVE FreedIsUnused
  <2>1. TypeOK /\ HandlesAreGood /\ UsersHaveHandles /\ StationsAreGood
    BY <1>1 DEF IndInv, UseInv, InputInv
  <2>2. gone \subseteq Desks /\ gone \cap live = {} /\ Null \notin gone
    BY <2>1 DEF TypeOK
  <2>3. ASSUME NEW t \in Threads, ppi[ProcOf[t]] = "attach" PROVE rpdesk[t] \notin gone
    BY <2>1, <2>2, <2>3 DEF HandlesAreGood, UsersHaveHandles
  <2>4. ASSUME NEW p \in Procs, ppi[p] = "attach" PROVE rpdeskStartup[p] \notin gone
    BY <2>1, <2>2, <2>4 DEF HandlesAreGood, UsersHaveHandles
  <2>5. ASSUME NEW s \in Stations PROVE ActiveDesktop[s] \notin gone
    BY <2>1, <2>2 DEF StationsAreGood
  <2> QED
    BY <2>3, <2>4, <2>5 DEF FreedIsUnused
<1> QED
  BY <1>1, Inductive, FairIsSpec, PTL

(* SwitchDesktop keeps the input station, the input desktop and the         *)
(* station's active desktop in agreement while desktops come and go.        *)
THEOREM InputStaysActive == FairSpec => []InputIsActive
<1>1. IndInv => InputIsActive
  BY DEF IndInv, InputInv
<1> QED
  BY <1>1, Inductive, FairIsSpec, PTL

===============================================================================
