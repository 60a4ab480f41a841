------------------------------ MODULE MCWaits ------------------------------
(* One item of any kind with two calls at a time, or two items: one called   *)
(* back once by the pool, one again and again by the wait thread.            *)
EXTENDS WaitItems

CONSTANTS i1, i2

FirstCall   == CHOOSE c \in Calls : TRUE
FirstHandle == CHOOSE h \in Handles : TRUE

Alone == user[i2].at = "out" /\ object[i2] = FirstHandle

OneCallOf(first, second) ==
  /\ options[i1] = first /\ options[i2] = second
  /\ \A c \in Calls : call[c].at # "none" => c = FirstCall

\* Objects and options do not change: what constrains them constrains the
\* instance.  Handles are alike: the first item's may be the first.
Instances ==
  /\ object[i1] = FirstHandle
  /\ options[i2] = {"sync"}
  /\ Alone \/ OneCallOf({"once"}, {"sync"})

=============================================================================
