------------------------------- MODULE MCApis -------------------------------
(* Two system DLLs, one of them shared, and three API libraries, one shared. *)
EXTENDS Imports

CONSTANTS kernel, user, near, far, wide, dcfg, old, heir, fwd

MCStub == [a \in Dword |-> SHARED * SEGMENT]

\* Addresses: segments of 8, the shared arena from 16 on, encoded ones from 32 on.
MCHandle == near :> 2 @@ far :> 4 @@ wide :> 20

E(key, addr) == [key |-> key, addr |-> addr]
Rva(rva) == [rva |-> rva, forward |-> None]

\* kernel: 1 is an export without a name, 2 is not used, 4 is forwarded.
MCSystem ==
  kernel :> [handle |-> 0, after |-> Rva(7),
             functions |-> << Rva(1), Rva(0), Rva(3), [rva |-> 5, forward |-> fwd] >>,
             names |-> << [key |-> 1, function |-> 3], [key |-> 3, function |-> 4] >>]
  @@ user :> [handle |-> 17, after |-> Rva(7),
              functions |-> << Rva(1), Rva(0), Rva(2) >>,
              names |-> << [key |-> 2, function |-> 3] >>]

MCLibTables ==
  near :> << [target |-> kernel, named |-> << E(1, 2), E(1, 3), E(2, 9) >>,
              ordinals |-> << E(1, 4), E(1, 5), E(6, 6) >>] >>
  @@ wide :> << [target |-> user, named |-> << E(1, 21), E(2, 22) >>, ordinals |-> <<>>],
                [target |-> kernel, named |-> << E(3, 23) >>, ordinals |-> <<>>] >>
  @@ far :> << [target |-> kernel, named |-> << E(3, 5) >>, ordinals |-> << E(3, 11) >>] >>

Line(kind, t, key, lib, id) == [kind |-> kind, target |-> t, key |-> key, lib |-> lib, id |-> id]

From == { <<None, 0>>, <<STD, 0>>, <<near, 0>>, <<near, 1>> }
Lines ==
  { Line("name", kernel, k, f[1], f[2]) : k \in Names, f \in From }
  \cup { Line("ordinal", kernel, k, f[1], f[2]) : k \in {1, 2, 6}, f \in From }

Conf(name, inherit, contents, overrides) ==
  [name |-> name, inherit |-> inherit, contents |-> contents, overrides |-> overrides]

\* The default joins all libraries; one inherits it, may join more and overrides
\* two functions; the last inherits that.
Sections(contents, l, m) ==
  << Conf(dcfg, None, <<STD, near, wide>>, <<l>>),
     Conf(old, dcfg, contents, <<l, m>>),
     Conf(heir, old, <<>>, <<m>>) >>

\* One configuration, with a function of each library that is not shared.
Only ==
  [default |-> 1, sections |->
     << Conf(dcfg, None, <<STD, near, far>>, <<Line("name", kernel, 1, STD, 0)>>) >>]

\* Where the second is the default it has no overrides but one.
MCInis ==
  { [default |-> 1, sections |-> Sections(contents, l, m)] :
      contents \in {<<far>>, <<STD, far>>}, l \in Lines, m \in Lines }
  \cup
  { [default |-> 2, sections |-> Sections(<<far>>, l, l)] : l \in Lines }
  \cup {Only}

\* Processes run with the one configuration of Only, loaded without a failure.  One of
\* them may load modules; while two are there both only look functions up, and all
\* libraries start.
MaxBound  == 2  \* imports that are bound and libraries that do not start, in all
MaxListed == 2  \* libraries that are listed, in all

There(p) == modinit[p] # 0 \/ \E k \in Kinds : At(p, k) # "idle"

Few ==
  (\E p \in Procs : There(p)) =>
    /\ ini = Only /\ default_apiconf = dcfg
    /\ (\A p \in Procs : There(p)) =>
         \A p \in Procs : At(p, "static") = "idle" /\ refused[p] = {}
    /\ MapThenSumSet(LAMBDA p : Cardinality(bound[p]) + Cardinality(refused[p]), Procs) <= MaxBound
    /\ MapThenSumSet(LAMBDA p : Len(FlattenSeq([mi \in DOMAIN modinits[p] |-> Data(p, mi)])),
                     Procs) <= MaxListed

Symmetry == Permutations(Procs)

=============================================================================
