----------------------------- MODULE MCShutdown -----------------------------
(* Two programs with kexbases and a service. *)
EXTENDS Shutdown

CONSTANTS a1, a2, svc

Logoff == [kind |-> "logoff", force |-> FALSE]

\* The first program is there from the start.  OpenProcess may fail for the service,
\* and then for that program if the kernel process has no message boxes.
\* There is one request, or a second one to log off, posted after the first.
Few ==
  /\ status[a1] # "none" /\ a2 \notin unopenable /\ (a1 \in unopenable => svc \in unopenable)
  /\ CanEnd
  /\ calls["c1"] # "done" => calls["c2"] = "out"
  /\ calls["c2"] = "done" /\ queue # <<>> => queue[Len(queue)] = Logoff
  /\ sa.request.kind = "restart" => ~sa.request.force
=============================================================================
