------------------------------ MODULE MCTimers ------------------------------
(* One timer of any kind with two calls at a time; or one with one call that *)
(* is changed or cancelled, or the call fails to be queued; or two with one  *)
(* call, one called back once by the pool and one again and again by the     *)
(* queue's thread.  A third is created only when there is no place for it,   *)
(* and then nobody is called back.                                           *)
EXTENDS TimerQueue

CONSTANTS t1, t2, t3

FirstCall == CHOOSE c \in Calls : TRUE
OneCall == \A c \in Calls : call[c].at # "none" => c = FirstCall
Quiet == uncounted = {} /\ changes = 0

\* t2 was not created.
Alone == handle[t2] = "none" /\ \A k \in 1..Len(apcs) : apcs[k].timer # t2

Nobody ==
  /\ \A c \in Calls : call[c].at = "none"
  /\ thread.at # "callback"

\* Options do not change: what constrains them constrains the instance.
Instances ==
  /\ options[t3] = {} /\ options[t2] = {"sync"} /\ handle[t3] # "held"
  /\ OneCall \/ Quiet
  /\ Alone \/ (OneCall /\ Quiet /\ options[t1] = {"once"})
  /\ handle[t3] = "refused" => Nobody

=============================================================================
