----------------------------- MODULE MCDesktops -----------------------------
(* The logon process, a program with kexbases and one without. *)
EXTENDS Desktops, TLC

CONSTANTS mpr, app, old, m1, a1, a2, o1, dflt, winlogon, own, sta0, sta1

MCProcOf == m1 :> mpr @@ a1 :> app @@ a2 :> app @@ o1 :> old
MCName   == dflt :> "Default" @@ winlogon :> "Winlogon" @@ own :> "Own"
MCOwner  == "wa" :> a1 @@ "wo" :> o1

Open(p) == Count({d \in Desks : handles[p][d] > 0})

\* Either there are no windows, and the station is locked while there are the
\* first two desktops, or there are windows, but only those desktops, of which
\* the programs keep their handles, and one station, which is not locked.
Alone ==
  \/ windows = {} /\ (locked[sta0] => live = {dflt, winlogon})
  \/ /\ live = {dflt, winlogon} /\ Open(mpr) = 2 /\ ~locked[sta0]
     /\ rpwinsta[app] # sta1 /\ Count(windows) = 1

\* The program's second thread is there only while its first one is, on a desktop of
\* the first station that they may close or not; there is nothing else then.
Second ==
  rpdesk[a2] # Null =>
    /\ rpdesk[a1] # Null /\ windows = {} /\ gpdeskInputDesktop = dflt
    /\ ~locked[sta0] /\ rpwinsta[app] = sta0 /\ parent[own] \in {sta0, Null}
    /\ Open(mpr) = 2 /\ handles[mpr][own] = 0 /\ rpdesk[m1] = dflt
    /\ \A t \in Threads : switch[t].at = "out"

\* Two switches at a time are between the first two desktops.
Switches == Count(InSwitch) <= 1 \/ live = {dflt, winlogon}

Few == Second /\ Switches /\ Alone /\ ~locked[sta1] /\ rpwinsta[mpr] = sta0
=============================================================================
