----------------------------- MODULE MCResolver -----------------------------
(* A launcher and an application that may start one another, a module of    *)
(* theirs and an API library.                                               *)
EXTENDS Resolver, TLC

CONSTANTS app, tool, dll, own, xp, nt

MCPaths    == {app, tool, dll, own}
MCExpand   == [n \in MCPaths |-> n]
MCFirstPattern == [S \in {{}} |-> NoEntry]
MCMatches  == [w \in {} |-> {}]
MCEnumOrders ==
  {[S \in SUBSET MCPaths |-> CHOOSE n \in MCPaths : S # {} => n \in S]}
MCConfs    == {xp, nt}

MCUpdateEntries ==
  { [conf |-> nt, flags |-> {"OVERRIDE_PROC_MOD", "NO_INHERIT"}], NoEntry }
MCInitConfs == [n \in MCPaths |->
                  CASE n = app -> xp [] n = dll -> nt
                    [] n = tool -> UnknownConf [] OTHER -> NoConf]
MCInitFlags == [k \in MCPaths |->
                  IF k = app THEN {"HOOK_APIS"} ELSE NoFlags]

MCFreedReads == { [conf |-> NoConf, flags |-> {}],
                  [conf |-> xp, flags |-> {"OVERRIDE_PROC_MOD", "NO_INHERIT"}] }

\* A third process only without an update of the database and without dll.
Few == \/ Cardinality({p \in Procs : exe[p] # NoPath}) < 3
       \/ updates = 0 /\ \A p \in Procs : ~Loaded(p, dll)

ProcSymmetry == Permutations(Procs)

=============================================================================
