--------------------------- MODULE ResolverProofs ---------------------------
(***************************************************************************)
(* Proofs about module Settings, for every set of paths, clients and       *)
(* registry contents, and then about module Resolver, which extends it,    *)
(* for every set of processes and modules, whatever a read of a freed node *)
(* yields.                                                                 *)
(***************************************************************************)
EXTENDS Resolver, TLAPS

-----------------------------------------------------------------------------
(* Lemmas about loading the database *)

\* "no value" is not a set of flags, and an idle client is in no update.
LEMMA NoFlagsDistinct == NoFlags \notin SUBSET FlagBits
  BY DEF NoFlags, FlagBits

LEMMA DisabledType == Disabled \in Setting
  BY DEF Disabled, Setting, FlagBits

LEMMA FirstSpelled ==
  ASSUME NEW first \in EnumOrders, NEW k \in Keys, Spelled(k) # {}
  PROVE  first[Spelled(k)] \in Spelled(k)
  BY KeysAssumption DEF Spelled

LEMMA ParseConfigsType ==
  ASSUME NEW first \in EnumOrders
  PROVE  ParseConfigs(first) \in [Keys -> Setting \cup {NoEntry}]
<1> SUFFICES ASSUME NEW k \in Keys
             PROVE  ParseConfigs(first)[k] \in Setting \cup {NoEntry}
    BY DEF ParseConfigs
<1>1. CASE Spelled(k) = {}
    BY <1>1, DisabledType DEF ParseConfigs
<1>2. CASE Spelled(k) # {}
  <2>1. regConf[first[Spelled(k)]] \in Confs
      BY <1>2, FirstSpelled DEF Spelled
  <2>2. [conf |-> regConf[first[Spelled(k)]], flags |-> {}] \in Setting
      BY <2>1 DEF Setting
  <2>. QED BY <1>2, <2>2, DisabledType DEF ParseConfigs
<1>. QED BY <1>1, <1>2

LEMMA ParseFlagsType ==
  ASSUME NEW table \in [Keys -> Setting \cup {NoEntry}],
         regFlags \in [Keys -> (SUBSET FlagBits) \cup {NoFlags}]
  PROVE  AddApilibExcludes(ParseFlags(table)) \in [Keys -> Setting \cup {NoEntry}]
<1>1. ASSUME NEW k \in Keys
      PROVE  ParseFlags(table)[k] \in Setting \cup {NoEntry}
  <2>1. CASE regFlags[k] = NoFlags
      BY <2>1 DEF ParseFlags
  <2>2. CASE regFlags[k] # NoFlags
    <3>1. regFlags[k] \in SUBSET FlagBits
        BY <2>2
    <3>2. (IF table[k] = NoEntry THEN NoConf ELSE table[k].conf)
             \in Confs \cup {NoConf}
        BY DEF Setting
    <3>. QED BY <2>2, <3>1, <3>2 DEF ParseFlags, Setting
  <2>. QED BY <2>1, <2>2
<1>. QED BY <1>1, DisabledType DEF AddApilibExcludes, ParseFlags

-----------------------------------------------------------------------------
(* The state functions keep their types. *)

LEMMA InitType == Init => TypeOK
<1> SUFFICES ASSUME Init PROVE TypeOK
    OBVIOUS
<1>1. PICK first \in EnumOrders : db = Reloaded(first)
    BY DEF Init
<1>2. regFlags \in [Keys -> (SUBSET FlagBits) \cup {NoFlags}]
    BY ValuesAssumption DEF Init
<1>3. db \in [Keys -> Setting \cup {NoEntry}]
    BY <1>1, <1>2, ParseConfigsType, ParseFlagsType DEF Reloaded
<1>. QED BY <1>2, <1>3, ValuesAssumption DEF Init, TypeOK

\* The operation a client is in, by where it is.
LEMMA OpCases ==
  ASSUME TypeOK, NEW c \in Clients
  PROVE  /\ op[c] \in {Idle} \cup Updating \cup Flushing
         /\ op[c].at \in {"flags", "db"} => op[c] \in Updating
         /\ op[c] = Idle => op[c].at = "idle"
  BY DEF TypeOK, Idle, Updating, Flushing

LEMMA NextType == TypeOK /\ [Next]_settingsVars => TypeOK'
<1> SUFFICES ASSUME TypeOK, [Next]_settingsVars PROVE TypeOK'
    OBVIOUS
<1> USE ValuesAssumption, KeysAssumption
<1>1. ASSUME NEW c \in Clients, NEW p \in Paths, NEW entry \in UpdateEntries,
             BeginUpdate(c, p, entry)
      PROVE  TypeOK'
  <2>1. PICK ok \in RegOpens :
          /\ regConf' = IF ~ok THEN regConf
                        ELSE [regConf EXCEPT ![p] = ConfValue(entry)]
          /\ op' = [d \in Clients |->
                      IF d = c
                      THEN [at |-> "flags", path |-> p, entry |-> entry,
                            ok |-> ok, alone |-> Quiet(p)]
                      ELSE IF InUpdate(d) /\ op[d].path = p
                      THEN [op[d] EXCEPT !.alone = FALSE]
                      ELSE op[d]]
      BY <1>1 DEF BeginUpdate
  <2>2. ConfValue(entry) \in Confs \cup {NoConf}
      BY DEF ConfValue, Setting
  <2>3. regConf' \in [Names -> Confs \cup {UnknownConf, NoConf}]
      BY <2>1, <2>2 DEF TypeOK
  <2>4. ASSUME NEW d \in Clients
        PROVE  op'[d] \in {Idle} \cup Updating \cup Flushing
    <3>1. CASE d = c
      <4>1. Quiet(p) \in BOOLEAN
          BY DEF Quiet
      <4>. QED BY <3>1, <2>1, <4>1 DEF Updating
    <3>2. CASE d # c /\ InUpdate(d) /\ op[d].path = p
      <4>1. op[d] \in Updating
          BY <3>2, OpCases DEF InUpdate
      <4>2. [op[d] EXCEPT !.alone = FALSE] \in Updating
          BY <4>1 DEF Updating
      <4>3. op'[d] = [op[d] EXCEPT !.alone = FALSE]
          BY <3>2, <2>1, Zenon
      <4>. QED BY <4>2, <4>3, Zenon
    <3>3. CASE d # c /\ ~(InUpdate(d) /\ op[d].path = p)
        BY <3>3, <2>1, OpCases
    <3>. QED BY <3>1, <3>2, <3>3
  <2>5. op' \in [Clients -> {Idle} \cup Updating \cup Flushing]
    <3>1. op' = [d \in Clients |-> op'[d]]
        BY <2>1, Zenon
    <3>. QED BY <3>1, <2>4, Zenon
  <2>6. UNCHANGED <<regFlags, db, cs, dirty>> /\ updates < MaxUpdates /\ updates' = updates + 1
      BY <1>1 DEF BeginUpdate
  <2>. QED BY <2>3, <2>5, <2>6 DEF TypeOK
<1>2. ASSUME NEW c \in Clients, WriteFlags(c) PROVE TypeOK'
  <2>1. op[c] \in Updating
      BY <1>2, OpCases DEF WriteFlags
  <2>2. PICK ok \in RegOpens :
          /\ regFlags' = IF ~ok THEN regFlags
                         ELSE [regFlags EXCEPT ![op[c].path] =
                                 FlagsValue(op[c].entry)]
          /\ op' = [op EXCEPT ![c].at = "db", ![c].ok = @ /\ ok]
      BY <1>2 DEF WriteFlags
  <2>3. FlagsValue(op[c].entry) \in (SUBSET FlagBits) \cup {NoFlags}
      BY <2>1 DEF FlagsValue, Setting, Updating
  <2>4. regFlags' \in [Keys -> (SUBSET FlagBits) \cup {NoFlags}]
      BY <2>1, <2>2, <2>3 DEF TypeOK, Updating, Keys
  <2>5. [op[c] EXCEPT !.at = "db", !.ok = @ /\ ok] \in Updating
      BY <2>1 DEF Updating
  <2>6. op' \in [Clients -> {Idle} \cup Updating \cup Flushing]
      BY <2>2, <2>5 DEF TypeOK
  <2>. QED BY <1>2, <2>4, <2>6 DEF WriteFlags, TypeOK
<1>3. ASSUME NEW c \in Clients, UpdateDb(c) PROVE TypeOK'
  <2>1. op[c] \in Updating
      BY <1>3, OpCases DEF UpdateDb
  <2>2. op[c].path \in Paths /\ op[c].entry \in Setting \cup {NoEntry}
      BY <2>1 DEF Updating
  <2>. QED BY <1>3, <2>2 DEF UpdateDb, TypeOK, Keys
<1>4. ASSUME NEW c \in Clients, FlushConfigs(c) PROVE TypeOK'
  <2>1. db' \in [Keys -> Setting \cup {NoEntry}]
      BY <1>4, ParseConfigsType DEF FlushConfigs
  <2>2. [at |-> "flush"] \in Flushing
      BY DEF Flushing
  <2>. QED BY <1>4, <2>1, <2>2 DEF FlushConfigs, TypeOK
<1>5. ASSUME NEW c \in Clients, FlushFlags(c) PROVE TypeOK'
  <2>1. db' \in [Keys -> Setting \cup {NoEntry}]
      BY <1>5, ParseFlagsType DEF FlushFlags, TypeOK
  <2>. QED BY <1>5, <2>1 DEF FlushFlags, TypeOK
<1>6. CASE UNCHANGED settingsVars
    BY <1>6 DEF settingsVars, TypeOK
<1>. QED BY <1>1, <1>2, <1>3, <1>4, <1>5, <1>6 DEF Next, ClientStep

(* The registry, the database and the operations in progress always have    *)
(* values of their types.                                                   *)
THEOREM TypeCorrect == Spec => []TypeOK
<1>1. Init => TypeOK
    BY InitType
<1>2. TypeOK /\ [Next]_settingsVars => TypeOK'
    BY NextType
<1>. QED BY <1>1, <1>2, PTL DEF Spec

-----------------------------------------------------------------------------
(* What a reload gives for a key depends on the registry values of that key *)
(* alone.                                                                   *)

LEMMA ParseConfigsLocal ==
  ASSUME NEW k \in Keys, NEW first \in EnumOrders,
         \A n \in Names : Expand[n] = k => regConf'[n] = regConf[n]
  PROVE  ParseConfigs(first)'[k] = ParseConfigs(first)[k]
<1>1. Spelled(k)' = Spelled(k)
    BY DEF Spelled
<1>2. CASE Spelled(k) = {}
    BY <1>1, <1>2 DEF ParseConfigs
<1>3. CASE Spelled(k) # {}
  <2>1. first[Spelled(k)] \in Spelled(k)
      BY <1>3, FirstSpelled
  <2>2. regConf'[first[Spelled(k)]] = regConf[first[Spelled(k)]]
      BY <2>1 DEF Spelled
  <2>. QED BY <1>1, <1>3, <2>2 DEF ParseConfigs
<1>. QED BY <1>2, <1>3

LEMMA ReloadedAt ==
  ASSUME NEW k \in Keys, NEW first \in EnumOrders
  PROVE  Reloaded(first)[k] =
           IF k \in LibPaths THEN Disabled
           ELSE IF regFlags[k] = NoFlags THEN ParseConfigs(first)[k]
           ELSE [conf  |-> IF ParseConfigs(first)[k] = NoEntry THEN NoConf
                           ELSE ParseConfigs(first)[k].conf,
                 flags |-> regFlags[k]]
  BY DEF Reloaded, AddApilibExcludes, ParseFlags

LEMMA ReloadedLocal ==
  ASSUME NEW k \in Keys, NEW first \in EnumOrders,
         \A n \in Names : Expand[n] = k => regConf'[n] = regConf[n],
         regFlags'[k] = regFlags[k]
  PROVE  Reloaded(first)'[k] = Reloaded(first)[k]
<1>1. ParseConfigs(first)'[k] = ParseConfigs(first)[k]
    BY ParseConfigsLocal
<1>2. Reloaded(first)'[k] =
        IF k \in LibPaths THEN Disabled
        ELSE IF regFlags'[k] = NoFlags THEN ParseConfigs(first)'[k]
        ELSE [conf  |-> IF ParseConfigs(first)'[k] = NoEntry THEN NoConf
                        ELSE ParseConfigs(first)'[k].conf,
              flags |-> regFlags'[k]]
    BY DEF Reloaded, AddApilibExcludes, ParseFlags
<1>. QED BY <1>1, <1>2, ReloadedAt

(* A plain path whose registry values are those of an entry reloads to it.  *)
LEMMA ReloadedPlain ==
  ASSUME TypeOK, NEW p \in Paths, Plain(p), NEW first \in EnumOrders,
         NEW entry \in Setting \cup {NoEntry},
         regConf[p] = ConfValue(entry), regFlags[p] = FlagsValue(entry)
  PROVE  Reloaded(first)[p] = entry
<1> USE ValuesAssumption, KeysAssumption
<1>1. p \in Keys /\ p \in Names /\ p \notin LibPaths /\ p # OwnPath
    BY DEF Plain, Keys, Names
<1>2. Spelled(p) = IF regConf[p] \in Confs THEN {p} ELSE {}
    BY <1>1 DEF Plain, Spelled
<1>3. CASE entry = NoEntry
  <2>1. ParseConfigs(first)[p] = NoEntry
      BY <1>1, <1>2, <1>3 DEF ParseConfigs, ConfValue
  <2>. QED BY <1>1, <1>3, <2>1, ReloadedAt DEF FlagsValue
<1>4. CASE entry \in Setting /\ entry # NoEntry
  <2>1. regFlags[p] = entry.flags /\ regFlags[p] # NoFlags
      BY <1>4, NoFlagsDistinct DEF FlagsValue, Setting
  <2>2. CASE entry.conf = NoConf
    <3>1. ParseConfigs(first)[p] = NoEntry
        BY <1>1, <1>2, <1>4, <2>2 DEF ParseConfigs, ConfValue
    <3>. QED BY <1>1, <1>4, <2>1, <2>2, <3>1, ReloadedAt DEF Setting
  <2>3. CASE entry.conf \in Confs
    <3>1. Spelled(p) = {p} /\ regConf[p] = entry.conf
        BY <1>2, <1>4, <2>3 DEF ConfValue
    <3>2. first[Spelled(p)] = p
        BY <1>1, <3>1, FirstSpelled
    <3>3. ParseConfigs(first)[p] = [conf |-> entry.conf, flags |-> {}]
        BY <1>1, <3>1, <3>2 DEF ParseConfigs
    <3>4. [conf |-> entry.conf, flags |-> {}] \in Setting
        BY <2>3 DEF Setting
    <3>. QED BY <1>1, <1>4, <2>1, <3>3, <3>4, ReloadedAt DEF Setting
  <2>. QED BY <1>4, <2>2, <2>3 DEF Setting
<1>. QED BY <1>3, <1>4

-----------------------------------------------------------------------------
(* The inductive invariant *)

IndInv == /\ TypeOK
          /\ LiveMatchesRegistry
          /\ UpdateOwnsItsValues
          /\ FlushReadsItsFirstPass

LEMMA InitInv == Init => IndInv
<1> SUFFICES ASSUME Init PROVE IndInv
    OBVIOUS
<1>1. PICK first \in EnumOrders : db = Reloaded(first)
    BY DEF Init
<1>2. LiveMatchesRegistry
    BY <1>1 DEF LiveMatchesRegistry
<1>3. UpdateOwnsItsValues
    BY DEF Init, UpdateOwnsItsValues, InUpdate, Idle
<1>4. FlushReadsItsFirstPass
    BY ValuesAssumption DEF Init, FlushReadsItsFirstPass, Idle
<1>. QED BY <1>2, <1>3, <1>4, InitType DEF IndInv

\* A step that changes neither copy of a quiet key's values, and leaves it no
\* quieter than it was, keeps what is known of the key.
LEMMA KeyUntouched ==
  ASSUME NEW k \in Keys,
         \A n \in Names : Expand[n] = k => regConf'[n] = regConf[n],
         regFlags'[k] = regFlags[k], db'[k] = db[k]
  PROVE  /\ (\E first \in EnumOrders : db[k] = Reloaded(first)[k])
               => \E first \in EnumOrders : db'[k] = Reloaded(first)'[k]
         /\ (\E first \in EnumOrders : db[k] = ParseConfigs(first)[k])
               => \E first \in EnumOrders : db'[k] = ParseConfigs(first)'[k]
  BY ReloadedLocal, ParseConfigsLocal

LEMMA BeginUpdateInv ==
  ASSUME IndInv, NEW c \in Clients, NEW p \in Paths, NEW entry \in UpdateEntries,
         BeginUpdate(c, p, entry)
  PROVE  /\ LiveMatchesRegistry' /\ UpdateOwnsItsValues'
         /\ FlushReadsItsFirstPass'
<1> USE ValuesAssumption, KeysAssumption
<1>1. PICK ok \in RegOpens :
        /\ regConf' = IF ~ok THEN regConf
                      ELSE [regConf EXCEPT ![p] = ConfValue(entry)]
        /\ op' = [d \in Clients |->
                    IF d = c
                    THEN [at |-> "flags", path |-> p, entry |-> entry,
                          ok |-> ok, alone |-> Quiet(p)]
                    ELSE IF InUpdate(d) /\ op[d].path = p
                    THEN [op[d] EXCEPT !.alone = FALSE]
                    ELSE op[d]]
    BY DEF BeginUpdate
<1>2. /\ TypeOK /\ UNCHANGED <<regFlags, db, cs, dirty>> /\ op[c] = Idle
    BY DEF IndInv, BeginUpdate
<1>3. op'[c] = [at |-> "flags", path |-> p, entry |-> entry,
                ok |-> ok, alone |-> Quiet(p)]
    BY <1>1
\* Other clients are where they were, on the path they were.
<1>4. ASSUME NEW d \in Clients, d # c
      PROVE  /\ op'[d].at = op[d].at
             /\ InUpdate(d) => /\ op'[d].path = op[d].path
                               /\ op'[d].entry = op[d].entry
                               /\ op'[d].ok = op[d].ok
                               /\ op'[d].alone => op[d].alone /\ op[d].path # p
  <2>1. CASE InUpdate(d) /\ op[d].path = p
    <3>1. op[d] \in Updating
        BY <1>2, <2>1, OpCases DEF InUpdate
    <3>2. op'[d] = [op[d] EXCEPT !.alone = FALSE]
        BY <1>1, <1>4, <2>1
    <3>. QED BY <3>1, <3>2 DEF Updating
  <2>2. CASE ~(InUpdate(d) /\ op[d].path = p)
    <3>1. op'[d] = op[d]
        BY <1>1, <1>4, <2>2
    <3>. QED BY <2>2, <3>1
  <2>. QED BY <2>1, <2>2
<1>5. ASSUME NEW k \in Keys, k \in Paths => Quiet(k)'
      PROVE  /\ k # p
             /\ k \in Paths => Quiet(k)
             /\ \A n \in Names : Expand[n] = k => regConf'[n] = regConf[n]
  <2>1. k # p
    <3>1. InUpdate(c)' /\ op'[c].path = p
        BY <1>3 DEF InUpdate
    <3>. QED BY <3>1, <1>5 DEF Quiet
  <2>2. k \in Paths => Quiet(k)
    <3> SUFFICES ASSUME k \in Paths, NEW d \in Clients, InUpdate(d)
                 PROVE  op[d].path # k
        BY DEF Quiet
    <3>1. d # c
        BY <1>2 DEF InUpdate, Idle
    <3>2. InUpdate(d)' /\ op'[d].path = op[d].path
        BY <3>1, <1>4 DEF InUpdate
    <3>. QED BY <3>2, <1>5 DEF Quiet
  <2>3. Expand[p] = p
      BY DEF Keys
  <2>4. ASSUME NEW n \in Names, Expand[n] = k PROVE regConf'[n] = regConf[n]
      BY <1>1, <1>2, <2>1, <2>3, <2>4 DEF TypeOK
  <2>. QED BY <2>1, <2>2, <2>4
<1>6. LiveMatchesRegistry'
  <2> SUFFICES ASSUME cs' = NoClient, NEW k \in Keys,
                      k \in Paths => Quiet(k)' /\ k \notin dirty'
               PROVE  \E first \in EnumOrders : db'[k] = Reloaded(first)'[k]
      BY DEF LiveMatchesRegistry
  <2>1. \E first \in EnumOrders : db[k] = Reloaded(first)[k]
      BY <1>2, <1>5 DEF IndInv, LiveMatchesRegistry
  <2>. QED BY <1>2, <1>5, <2>1, KeyUntouched
<1>7. UpdateOwnsItsValues'
  <2> SUFFICES ASSUME NEW d \in Clients, InUpdate(d)', op'[d].alone
               PROVE  /\ \A e \in Clients \ {d} :
                             InUpdate(e)' => op'[e].path # op'[d].path
                      /\ op'[d].ok =>
                            regConf'[op'[d].path] = ConfValue(op'[d].entry)
                      /\ op'[d].ok /\ op'[d].at = "db" =>
                            regFlags'[op'[d].path] = FlagsValue(op'[d].entry)
      BY DEF UpdateOwnsItsValues
  <2>1. CASE d = c
    <3>1. Quiet(p)
        BY <1>3, <2>1
    <3>2. \A e \in Clients \ {d} : InUpdate(e)' => op'[e].path # p
        BY <3>1, <2>1, <1>4 DEF Quiet, InUpdate
    <3>3. p \in Names
        BY DEF Names, Keys
    <3>4. ok => regConf'[p] = ConfValue(entry)
        BY <1>1, <1>2, <3>3 DEF TypeOK
    <3>. QED BY <2>1, <1>3, <3>2, <3>4
  <2>2. CASE d # c
    <3>1. /\ InUpdate(d) /\ op[d].alone /\ op[d].path # p
          /\ op'[d].path = op[d].path /\ op'[d].at = op[d].at
          /\ op'[d].entry = op[d].entry /\ op'[d].ok = op[d].ok
        BY <2>2, <1>4 DEF InUpdate
    <3>2. op[d].path \in Paths
        BY <3>1, <1>2, OpCases DEF InUpdate, Updating
    <3>3. regConf'[op[d].path] = regConf[op[d].path]
        BY <1>1, <1>2, <3>1, <3>2 DEF TypeOK, Names, Keys
    <3>4. \A e \in Clients \ {d} : InUpdate(e)' => op'[e].path # op'[d].path
      <4> SUFFICES ASSUME NEW e \in Clients \ {d}, InUpdate(e)'
                   PROVE  op'[e].path # op'[d].path
          OBVIOUS
      <4>1. CASE e = c
          BY <4>1, <1>3, <3>1
      <4>2. CASE e # c
        <5>1. InUpdate(e) /\ op'[e].path = op[e].path
            BY <4>2, <1>4 DEF InUpdate
        <5>. QED BY <5>1, <3>1 DEF IndInv, UpdateOwnsItsValues
      <4>. QED BY <4>1, <4>2
    <3>. QED BY <3>1, <3>3, <3>4, <1>2 DEF IndInv, UpdateOwnsItsValues
  <2>. QED BY <2>1, <2>2
<1>8. FlushReadsItsFirstPass'
  <2>1. ASSUME NEW d \in Clients
        PROVE  (op'[d].at = "flush") <=> (cs' = d)
    <3>1. (op[d].at = "flush") <=> (cs = d)
        BY DEF IndInv, FlushReadsItsFirstPass
    <3>2. CASE d = c
        BY <3>1, <3>2, <1>2, <1>3 DEF Idle
    <3>3. CASE d # c
        BY <3>1, <3>3, <1>2, <1>4
    <3>. QED BY <3>2, <3>3
  <2>2. ASSUME cs' # NoClient, NEW k \in Keys, k \in Paths => Quiet(k)'
        PROVE  \E first \in EnumOrders : db'[k] = ParseConfigs(first)'[k]
    <3>1. \E first \in EnumOrders : db[k] = ParseConfigs(first)[k]
        BY <2>2, <1>2, <1>5 DEF IndInv, FlushReadsItsFirstPass
    <3>. QED BY <3>1, <2>2, <1>2, <1>5, KeyUntouched
  <2>. QED BY <2>1, <2>2 DEF FlushReadsItsFirstPass
<1>. QED BY <1>6, <1>7, <1>8

LEMMA WriteFlagsInv ==
  ASSUME IndInv, NEW c \in Clients, WriteFlags(c)
  PROVE  /\ LiveMatchesRegistry' /\ UpdateOwnsItsValues'
         /\ FlushReadsItsFirstPass'
<1> USE ValuesAssumption, KeysAssumption
<1>1. PICK ok \in RegOpens :
        /\ regFlags' = IF ~ok THEN regFlags
                       ELSE [regFlags EXCEPT ![op[c].path] =
                               FlagsValue(op[c].entry)]
        /\ op' = [op EXCEPT ![c].at = "db", ![c].ok = @ /\ ok]
    BY DEF WriteFlags
<1>2. /\ TypeOK /\ UNCHANGED <<regConf, db, cs, dirty>> /\ op[c].at = "flags"
    BY DEF IndInv, WriteFlags
<1>3. op[c] \in Updating /\ op[c].path \in Keys
    BY <1>2, OpCases DEF Updating, Keys
<1>4. /\ op'[c].at = "db" /\ op'[c].path = op[c].path
      /\ op'[c].entry = op[c].entry /\ op'[c].alone = op[c].alone
      /\ op'[c].ok = (op[c].ok /\ ok)
    BY <1>1, <1>2, <1>3 DEF TypeOK, Updating
<1>5. \A d \in Clients \ {c} : op'[d] = op[d]
    BY <1>1, <1>2 DEF TypeOK
<1>6. \A d \in Clients : /\ InUpdate(d)' <=> InUpdate(d)
                         /\ InUpdate(d) => op'[d].path = op[d].path
    BY <1>2, <1>4, <1>5 DEF InUpdate
<1>7. ASSUME NEW k \in Keys, k \in Paths => Quiet(k)'
      PROVE  (k \in Paths => Quiet(k)) /\ regFlags'[k] = regFlags[k]
  <2>1. k \in Paths => Quiet(k)
      BY <1>6, <1>7 DEF Quiet
  <2>2. InUpdate(c) /\ op[c].path \in Paths
      BY <1>2, <1>3 DEF InUpdate, Updating
  <2>3. k # op[c].path
      BY <2>1, <2>2 DEF Quiet
  <2>. QED BY <2>1, <2>3, <1>1, <1>2 DEF TypeOK
<1>8. LiveMatchesRegistry'
  <2> SUFFICES ASSUME cs' = NoClient, NEW k \in Keys,
                      k \in Paths => Quiet(k)' /\ k \notin dirty'
               PROVE  \E first \in EnumOrders : db'[k] = Reloaded(first)'[k]
      BY DEF LiveMatchesRegistry
  <2>1. \E first \in EnumOrders : db[k] = Reloaded(first)[k]
      BY <1>2, <1>7 DEF IndInv, LiveMatchesRegistry
  <2>. QED BY <1>2, <1>7, <2>1, KeyUntouched
<1>9. UpdateOwnsItsValues'
  <2> SUFFICES ASSUME NEW d \in Clients, InUpdate(d)', op'[d].alone
               PROVE  /\ \A e \in Clients \ {d} :
                             InUpdate(e)' => op'[e].path # op'[d].path
                      /\ op'[d].ok =>
                            regConf'[op'[d].path] = ConfValue(op'[d].entry)
                      /\ op'[d].ok /\ op'[d].at = "db" =>
                            regFlags'[op'[d].path] = FlagsValue(op'[d].entry)
      BY DEF UpdateOwnsItsValues
  <2>1. InUpdate(d) /\ op[d].alone
      BY <1>4, <1>5, <1>6
  <2>2. /\ \A e \in Clients \ {d} : InUpdate(e) => op[e].path # op[d].path
        /\ op[d].ok => regConf[op[d].path] = ConfValue(op[d].entry)
        /\ op[d].ok /\ op[d].at = "db" =>
              regFlags[op[d].path] = FlagsValue(op[d].entry)
      BY <2>1 DEF IndInv, UpdateOwnsItsValues
  <2>3. CASE d = c
    <3>1. op[c].ok /\ ok => regFlags'[op[c].path] = FlagsValue(op[c].entry)
        BY <1>1, <1>2, <1>3 DEF TypeOK
    <3>2. op'[c].ok => op[c].ok /\ ok
        BY <1>3, <1>4 DEF Updating
    <3>. QED BY <2>2, <2>3, <3>1, <3>2, <1>2, <1>4, <1>6
  <2>4. CASE d # c
    <3>1. op'[d] = op[d] /\ op[d].path # op[c].path
        BY <2>1, <2>2, <2>4, <1>2, <1>5 DEF InUpdate
    <3>2. op[d] \in Updating
        BY <2>1, <1>2, OpCases DEF InUpdate
    <3>3. regFlags'[op[d].path] = regFlags[op[d].path]
        BY <3>1, <3>2, <1>1, <1>2 DEF TypeOK, Updating, Keys
    <3>. QED BY <2>2, <3>1, <3>3, <1>2, <1>6
  <2>. QED BY <2>3, <2>4
<1>10. FlushReadsItsFirstPass'
  <2>1. ASSUME NEW d \in Clients
        PROVE  (op'[d].at = "flush") <=> (cs' = d)
      BY <1>2, <1>4, <1>5 DEF IndInv, FlushReadsItsFirstPass
  <2>2. ASSUME cs' # NoClient, NEW k \in Keys, k \in Paths => Quiet(k)'
        PROVE  \E first \in EnumOrders : db'[k] = ParseConfigs(first)'[k]
    <3>1. \E first \in EnumOrders : db[k] = ParseConfigs(first)[k]
        BY <2>2, <1>2, <1>7 DEF IndInv, FlushReadsItsFirstPass
    <3>. QED BY <3>1, <2>2, <1>2, <1>7, KeyUntouched
  <2>. QED BY <2>1, <2>2 DEF FlushReadsItsFirstPass
<1>. QED BY <1>8, <1>9, <1>10

LEMMA UpdateDbInv ==
  ASSUME IndInv, NEW c \in Clients, UpdateDb(c)
  PROVE  /\ LiveMatchesRegistry' /\ UpdateOwnsItsValues'
         /\ FlushReadsItsFirstPass'
<1> USE ValuesAssumption, KeysAssumption
<1> DEFINE p == op[c].path
<1>1. /\ TypeOK /\ UNCHANGED <<regConf, regFlags, cs>> /\ op[c].at = "db"
      /\ cs = NoClient
      /\ db' = [db EXCEPT ![p] = op[c].entry]
      /\ op' = [op EXCEPT ![c] = Idle]
      /\ dirty' = IF op[c].ok /\ op[c].alone /\ Plain(p)
                  THEN dirty \ {p} ELSE dirty \cup {p}
    BY DEF IndInv, UpdateDb
<1>2. op[c] \in Updating /\ p \in Paths /\ p \in Keys
    BY <1>1, OpCases DEF Updating, Keys
<1>3. op'[c] = Idle /\ \A d \in Clients \ {c} : op'[d] = op[d]
    BY <1>1 DEF TypeOK
<1>4. ~InUpdate(c)' /\ \A d \in Clients \ {c} : InUpdate(d)' <=> InUpdate(d)
    BY <1>3 DEF InUpdate, Idle
<1>5. LiveMatchesRegistry'
  <2> SUFFICES ASSUME NEW k \in Keys, k \in Paths => Quiet(k)' /\ k \notin dirty'
               PROVE  \E first \in EnumOrders : db'[k] = Reloaded(first)'[k]
      BY DEF LiveMatchesRegistry
  <2>1. CASE k = p
    <3>1. op[c].ok /\ op[c].alone /\ Plain(p)
        BY <1>1, <1>2, <2>1
    <3>2. regConf[p] = ConfValue(op[c].entry) /\ regFlags[p] = FlagsValue(op[c].entry)
        BY <1>1, <3>1 DEF IndInv, UpdateOwnsItsValues, InUpdate
    <3>3. PICK first \in EnumOrders : TRUE
        OBVIOUS
    <3>4. op[c].entry \in Setting \cup {NoEntry}
        BY <1>2 DEF Updating
    <3>5. Reloaded(first)[p] = op[c].entry
        BY <1>1, <1>2, <3>1, <3>2, <3>4, ReloadedPlain
    <3>6. Reloaded(first)'[p] = Reloaded(first)[p]
        BY <1>1, <1>2, ReloadedLocal
    <3>7. db'[p] = op[c].entry
        BY <1>1, <1>2 DEF TypeOK
    <3>. QED BY <2>1, <3>5, <3>6, <3>7
  <2>2. CASE k # p
    <3>1. k \in Paths => Quiet(k) /\ k \notin dirty
        BY <1>1, <1>3, <1>4, <2>2 DEF Quiet
    <3>2. \E first \in EnumOrders : db[k] = Reloaded(first)[k]
        BY <1>1, <3>1 DEF IndInv, LiveMatchesRegistry
    <3>3. db'[k] = db[k]
        BY <1>1, <2>2 DEF TypeOK
    <3>. QED BY <1>1, <3>2, <3>3, KeyUntouched
  <2>. QED BY <2>1, <2>2
<1>6. UpdateOwnsItsValues'
    BY <1>1, <1>3, <1>4 DEF IndInv, UpdateOwnsItsValues
<1>7. FlushReadsItsFirstPass'
    BY <1>1, <1>3 DEF IndInv, FlushReadsItsFirstPass, Idle
<1>. QED BY <1>5, <1>6, <1>7

LEMMA FlushConfigsInv ==
  ASSUME IndInv, NEW c \in Clients, FlushConfigs(c)
  PROVE  /\ LiveMatchesRegistry' /\ UpdateOwnsItsValues'
         /\ FlushReadsItsFirstPass'
<1> USE ValuesAssumption, KeysAssumption
<1>1. PICK first \in EnumOrders : db' = ParseConfigs(first)
    BY DEF FlushConfigs
<1>2. /\ TypeOK /\ UNCHANGED <<regConf, regFlags, dirty>> /\ op[c] = Idle
      /\ cs = NoClient /\ cs' = c
      /\ op' = [op EXCEPT ![c] = [at |-> "flush"]]
    BY DEF IndInv, FlushConfigs
<1>3. /\ op'[c] = [at |-> "flush"] /\ ~InUpdate(c) /\ ~InUpdate(c)'
      /\ \A d \in Clients \ {c} : op'[d] = op[d]
    BY <1>2 DEF TypeOK, InUpdate, Idle
<1>4. LiveMatchesRegistry'
    BY <1>2 DEF LiveMatchesRegistry
<1>5. UpdateOwnsItsValues'
    BY <1>2, <1>3 DEF IndInv, UpdateOwnsItsValues, InUpdate
<1>6. FlushReadsItsFirstPass'
  <2>1. ASSUME NEW d \in Clients PROVE (op'[d].at = "flush") <=> (cs' = d)
      BY <1>2, <1>3 DEF IndInv, FlushReadsItsFirstPass
  <2>2. ASSUME NEW k \in Keys
        PROVE  db'[k] = ParseConfigs(first)'[k]
    <3>1. ParseConfigs(first)'[k] = ParseConfigs(first)[k]
        BY <1>2, ParseConfigsLocal
    <3>. QED BY <1>1, <3>1
  <2>. QED BY <2>1, <2>2 DEF FlushReadsItsFirstPass
<1>. QED BY <1>4, <1>5, <1>6

LEMMA FlushFlagsInv ==
  ASSUME IndInv, NEW c \in Clients, FlushFlags(c)
  PROVE  /\ LiveMatchesRegistry' /\ UpdateOwnsItsValues'
         /\ FlushReadsItsFirstPass'
<1> USE ValuesAssumption, KeysAssumption
<1>1. /\ TypeOK /\ UNCHANGED <<regConf, regFlags>> /\ op[c].at = "flush"
      /\ cs' = NoClient
      /\ db' = AddApilibExcludes(ParseFlags(db))
      /\ op' = [op EXCEPT ![c] = Idle]
    BY DEF IndInv, FlushFlags
<1>2. cs = c
    BY <1>1 DEF IndInv, FlushReadsItsFirstPass
<1>3. /\ op'[c] = Idle /\ ~InUpdate(c) /\ ~InUpdate(c)'
      /\ \A d \in Clients \ {c} : op'[d] = op[d]
    BY <1>1 DEF TypeOK, InUpdate, Idle
<1>4. \A d \in Clients : InUpdate(d)' <=> InUpdate(d)
    BY <1>3 DEF InUpdate
<1>5. LiveMatchesRegistry'
  <2> SUFFICES ASSUME NEW k \in Keys, k \in Paths => Quiet(k)'
               PROVE  \E first \in EnumOrders : db'[k] = Reloaded(first)'[k]
      BY DEF LiveMatchesRegistry
  <2>1. k \in Paths => Quiet(k)
      BY <1>3, <1>4 DEF Quiet
  <2>2. PICK first \in EnumOrders : db[k] = ParseConfigs(first)[k]
      BY <1>2, <2>1 DEF IndInv, FlushReadsItsFirstPass
  <2>3. db'[k] = IF k \in LibPaths THEN Disabled
                 ELSE IF regFlags[k] = NoFlags THEN db[k]
                 ELSE [conf  |-> IF db[k] = NoEntry THEN NoConf ELSE db[k].conf,
                       flags |-> regFlags[k]]
      BY <1>1 DEF AddApilibExcludes, ParseFlags
  <2>4. db'[k] = Reloaded(first)[k]
      BY <2>2, <2>3, ReloadedAt
  <2>5. Reloaded(first)'[k] = Reloaded(first)[k]
      BY <1>1, ReloadedLocal
  <2>. QED BY <2>4, <2>5
<1>6. UpdateOwnsItsValues'
    BY <1>1, <1>3, <1>4 DEF IndInv, UpdateOwnsItsValues
<1>7. FlushReadsItsFirstPass'
    BY <1>1, <1>2, <1>3 DEF IndInv, FlushReadsItsFirstPass, Idle
<1>. QED BY <1>5, <1>6, <1>7

LEMMA StutterInv ==
  ASSUME IndInv, UNCHANGED settingsVars
  PROVE  /\ LiveMatchesRegistry' /\ UpdateOwnsItsValues'
         /\ FlushReadsItsFirstPass'
<1>1. \A p : Quiet(p)' <=> Quiet(p)
    BY DEF settingsVars, Quiet, InUpdate
<1>2. \A first \in EnumOrders, k \in Keys :
        /\ ParseConfigs(first)'[k] = ParseConfigs(first)[k]
        /\ Reloaded(first)'[k] = Reloaded(first)[k]
    BY ParseConfigsLocal, ReloadedLocal DEF settingsVars
<1>3. LiveMatchesRegistry'
    BY <1>1, <1>2 DEF IndInv, LiveMatchesRegistry, settingsVars
<1>4. UpdateOwnsItsValues'
    BY DEF IndInv, UpdateOwnsItsValues, InUpdate, settingsVars
<1>5. FlushReadsItsFirstPass'
    BY <1>1, <1>2 DEF IndInv, FlushReadsItsFirstPass, settingsVars
<1>. QED BY <1>3, <1>4, <1>5

LEMMA NextInv == IndInv /\ [Next]_settingsVars => IndInv'
<1> SUFFICES ASSUME IndInv, [Next]_settingsVars PROVE IndInv'
    OBVIOUS
<1>1. TypeOK'
    BY NextType DEF IndInv
<1>2. /\ LiveMatchesRegistry' /\ UpdateOwnsItsValues'
      /\ FlushReadsItsFirstPass'
    BY BeginUpdateInv, WriteFlagsInv, UpdateDbInv, FlushConfigsInv,
       FlushFlagsInv, StutterInv DEF Next, ClientStep
<1>. QED BY <1>1, <1>2 DEF IndInv

(* A reload changes nothing it should not: outside updates in progress and  *)
(* the paths known to be dirty, the database is what the registry would     *)
(* make of it, for any interleaving of updates, flushes and failures.       *)
THEOREM LiveCopyAgrees == Spec => []LiveMatchesRegistry
<1>1. Init => IndInv
    BY InitInv
<1>2. IndInv /\ [Next]_settingsVars => IndInv'
    BY NextInv
<1>3. IndInv => LiveMatchesRegistry
    BY DEF IndInv
<1>. QED BY <1>1, <1>2, <1>3, PTL DEF Spec

(* An update that nothing disturbed finds in the registry what it wrote,    *)
(* when it changes the database (write_single, reset_single).               *)
THEOREM UpdatesAreTracked == Spec => []UpdateOwnsItsValues
<1>1. Init => IndInv
    BY InitInv
<1>2. IndInv /\ [Next]_settingsVars => IndInv'
    BY NextInv
<1>3. IndInv => UpdateOwnsItsValues
    BY DEF IndInv
<1>. QED BY <1>1, <1>2, <1>3, PTL DEF Spec

(* And between its two enumerations, a flush holds of every path that no    *)
(* client wrote meanwhile what its first one would read again.              *)
THEOREM FlushesAreTracked == Spec => []FlushReadsItsFirstPass
<1>1. Init => IndInv
    BY InitInv
<1>2. IndInv /\ [Next]_settingsVars => IndInv'
    BY NextInv
<1>3. IndInv => FlushReadsItsFirstPass
    BY DEF IndInv
<1>. QED BY <1>1, <1>2, <1>3, PTL DEF Spec

-----------------------------------------------------------------------------
(* The resolver: its invariant, for each process *)

\* Settings in use, as settings answered by a lookup, have a configuration.
Proper(s) == Valid(s) /\ (Extended(s) => s.conf # NoConf)

\* A process has its executable, and leaves nothing when it ends.
HasExe(p) ==
  /\ p \in running => exe[p] \in Exes /\ Loaded(p, exe[p])
  /\ p \notin running => /\ call[p].at = "none"
                         /\ \A m \in Paths : as[p][m] = NotLoaded

\* A resolve is of a module without a setting; it looks the executable up if
\* that has none either, and the module only if the executable leaves it to it.
CallIsNeeded(p) ==
  /\ call[p].at # "none" => /\ p \in running
                            /\ Loaded(p, call[p].mod)
                            /\ ~Valid(as[p][call[p].mod])
  /\ call[p].at = "readExe" => ~Valid(ExeAs(p))
  /\ call[p].at \in {"findModule", "readModule"} =>
       Valid(ExeAs(p)) /\ "OVERRIDE_PROC_MOD" \notin ExeAs(p).flags

\* A node that was not freed is there.
NodeIsThere(p) ==
  call[p].at \in {"readExe", "readModule"} /\ ~call[p].freed =>
    call[p].key = NoEntry \/ db[call[p].key] # NoEntry

\* Modules are decided after their executable and as it demands.
ModulesAgree(p) ==
  p \in running =>
    \A m \in Paths : Settled(p, m) =>
      /\ Proper(as[p][m])
      /\ Settled(p, exe[p])
      /\ "OVERRIDE_PROC_MOD" \in ExeAs(p).flags => as[p][m] = ExeAs(p)
      /\ "HOOK_APIS" \in ExeAs(p).flags => "HOOK_APIS" \in as[p][m].flags

SourceAgrees(p) ==
  p \in running /\ Settled(p, exe[p]) =>
    /\ ExeAs(p) = IF source[p].root = p THEN source[p].given
                  ELSE WithoutHook(source[p].given)
    /\ source[p].root \notin {p, NoProc} =>
         "NO_INHERIT" \notin source[p].given.flags
    /\ source[p].root = NoProc => source[p].given = DefaultSetting

\* A process without a setting is nobody's source; who is one is its own.
RootIsRoot(p) ==
  /\ source[p].root # NoProc => source[source[p].root].root = source[p].root
  /\ exe[p] = NoPath \/ (p \in running /\ ~Valid(ExeAs(p))) =>
       source[p].root = NoProc

ProcInv(p) == /\ HasExe(p)
              /\ CallIsNeeded(p)
              /\ NodeIsThere(p)
              /\ ModulesAgree(p)
              /\ SourceAgrees(p)
              /\ RootIsRoot(p)

ResolverInv == /\ TypeOK
               /\ ResolverTypeOK
               /\ \A p \in Procs : ProcInv(p)

-----------------------------------------------------------------------------
(* Settings *)

LEMMA UnsetFacts == Unset \in AppSetting /\ ~Valid(Unset) /\ Unset # NotLoaded
  BY ResolverAssumption DEF Unset, AppSetting, Valid

LEMMA AnswerProper ==
  ASSUME NEW e \in Setting
  PROVE  Answer(e) \in AppSetting /\ Proper(Answer(e))
  BY ValuesAssumption
     DEF Answer, Setting, AppSetting, AppFlags, Proper, Valid, Extended

LEMMA DefaultProper == DefaultSetting \in AppSetting /\ Proper(DefaultSetting)
  BY ValuesAssumption
     DEF DefaultSetting, AppSetting, AppFlags, FlagBits, Proper, Valid, Extended

LEMMA WithoutHookFacts ==
  ASSUME NEW s \in AppSetting
  PROVE  /\ WithoutHook(s) \in AppSetting
         /\ WithoutHook(s).conf = s.conf
         /\ WithoutHook(s).flags = s.flags \ {"HOOK_APIS"}
         /\ WithoutHook(WithoutHook(s)) = WithoutHook(s)
         /\ Proper(s) => Proper(WithoutHook(s))
<1>1. /\ WithoutHook(s) = [conf |-> s.conf, flags |-> s.flags \ {"HOOK_APIS"}]
      /\ s.flags \in SUBSET AppFlags /\ s.conf \in Confs \cup {NoConf}
    BY DEF WithoutHook, AppSetting
<1>2. WithoutHook(s) \in AppSetting
    BY <1>1 DEF AppSetting
<1>3. WithoutHook(WithoutHook(s)) =
        [conf |-> s.conf, flags |-> (s.flags \ {"HOOK_APIS"}) \ {"HOOK_APIS"}]
    BY <1>1, <1>2 DEF WithoutHook, AppSetting
<1>4. (s.flags \ {"HOOK_APIS"}) \ {"HOOK_APIS"} = s.flags \ {"HOOK_APIS"}
    OBVIOUS
<1>. QED BY <1>1, <1>2, <1>3, <1>4 DEF Proper, Valid, Extended

\* The default setting is not hooked.
LEMMA DefaultUnhooked == WithoutHook(DefaultSetting) = DefaultSetting
<1>1. DefaultSetting.flags \ {"HOOK_APIS"} = DefaultSetting.flags
    BY DEF DefaultSetting
<1>. QED BY <1>1 DEF WithoutHook, DefaultSetting

-----------------------------------------------------------------------------
(* Where a process is in get_config *)

LEMMA CallCases ==
  ASSUME ResolverTypeOK, NEW p \in Procs
  PROVE  /\ call[p] \in {NoCall} \cup Reading \cup Finding
         /\ call[p].at \in {"none", "readExe", "readModule", "findModule"}
         /\ call[p].at = "none" <=> call[p] = NoCall
         /\ call[p].at \in {"readExe", "readModule"} <=> call[p] \in Reading
         /\ call[p].at = "findModule" <=> call[p] \in Finding
         /\ call[p].at # "none" => call[p].mod \in Paths
  BY DEF ResolverTypeOK, NoCall, Reading, Finding

LEMMA ProcTypes ==
  ASSUME ResolverTypeOK, NEW p \in Procs, HasExe(p)
  PROVE  /\ as[p] \in [Paths -> AppSetting \cup {NotLoaded}]
         /\ source[p] \in [root : Procs \cup {NoProc}, given : AppSetting]
         /\ \A m \in Paths : Loaded(p, m) => as[p][m] \in AppSetting
         /\ p \in running => /\ exe[p] \in Paths /\ exe[p] # NoPath
                             /\ Loaded(p, exe[p]) /\ ExeAs(p) \in AppSetting
<1>1. as[p] \in [Paths -> AppSetting \cup {NotLoaded}]
    BY DEF ResolverTypeOK
<1>2. \A m \in Paths : Loaded(p, m) => as[p][m] \in AppSetting
    BY <1>1 DEF Loaded
<1>3. source[p] \in [root : Procs \cup {NoProc}, given : AppSetting]
    BY DEF ResolverTypeOK
<1>4. p \in running => exe[p] \in Paths /\ exe[p] # NoPath /\ Loaded(p, exe[p])
    BY ResolverAssumption DEF HasExe
<1>. QED BY <1>1, <1>2, <1>3, <1>4 DEF ExeAs

\* A lookup answers with no setting or a proper one, whatever it reads.
LEMMA FoundProper ==
  ASSUME TypeOK, ResolverTypeOK, NEW p \in Procs, NodeIsThere(p),
         call[p].at \in {"readExe", "readModule"},
         NEW found \in LookupResults(call[p])
  PROVE  found \in AppSetting /\ (found = Unset \/ Proper(found))
<1>1. call[p] \in Reading
    BY CallCases
<1>2. CASE call[p].key = NoEntry
    BY <1>2, UnsetFacts DEF LookupResults
<1>3. CASE call[p].key # NoEntry /\ call[p].freed
  <2>1. PICK e \in FreedReads : found = Answer(e)
      BY <1>3 DEF LookupResults
  <2>. QED BY <2>1, AnswerProper, ResolverAssumption
<1>4. CASE call[p].key # NoEntry /\ ~call[p].freed
  <2>1. call[p].key \in Keys /\ db[call[p].key] # NoEntry
      BY <1>1, <1>4 DEF Reading, NodeIsThere
  <2>2. db[call[p].key] \in Setting
      BY <2>1 DEF TypeOK
  <2>3. found = Answer(db[call[p].key])
      BY <1>4 DEF LookupResults
  <2>. QED BY <2>2, <2>3, AnswerProper
<1>. QED BY <1>2, <1>3, <1>4

\* A key that is found is one of an entry.
LEMMA FindKeyFinds ==
  ASSUME TypeOK, NEW path \in Paths
  PROVE  /\ FindKey(path) \in Keys \cup {NoEntry}
         /\ FindKey(path) = NoEntry \/ db[FindKey(path)] # NoEntry
<1> DEFINE matching == {w \in Patterns : db[w] # NoEntry /\ path \in Matches[w]}
<1>1. CASE db[path] # NoEntry
    BY <1>1 DEF FindKey, Keys
<1>2. CASE db[path] = NoEntry /\ matching = {}
    BY <1>2 DEF FindKey
<1>3. CASE db[path] = NoEntry /\ matching # {}
  <2>1. FirstPattern[matching] \in matching
      BY <1>3, KeysAssumption
  <2>2. FindKey(path) = FirstPattern[matching]
      BY <1>3 DEF FindKey
  <2>. QED BY <2>1, <2>2 DEF Keys
<1>. QED BY <1>1, <1>2, <1>3

\* What a process inherits is the setting of a running process that has one.
LEMMA Inherited ==
  ASSUME ResolverInv, NEW p \in Procs, Inherits(p)
  PROVE  /\ parent[p] \in Procs /\ parent[p] \in running
         /\ Settled(parent[p], exe[parent[p]])
         /\ ExeAs(parent[p]) \in AppSetting /\ Proper(ExeAs(parent[p]))
         /\ "NO_INHERIT" \notin ExeAs(parent[p]).flags
<1> DEFINE q == parent[p]
<1>1. q \in running /\ q \in Procs /\ Valid(ExeAs(q)) /\ "NO_INHERIT" \notin ExeAs(q).flags
    BY DEF Inherits, ResolverInv, ResolverTypeOK
<1>2. ProcInv(q) /\ HasExe(q) /\ ModulesAgree(q)
    BY <1>1 DEF ResolverInv, ProcInv
<1>3. exe[q] \in Paths /\ Settled(q, exe[q]) /\ ExeAs(q) \in AppSetting
    BY <1>1, <1>2, ProcTypes DEF Settled, ResolverInv, ExeAs
<1>4. Proper(ExeAs(q))
    BY <1>1, <1>2, <1>3 DEF ModulesAgree, ExeAs
<1>. QED BY <1>1, <1>3, <1>4

-----------------------------------------------------------------------------
(* Steps of a process *)

\* A step of a process changes nothing of others, nor of the database.
LEMMA OthersAlone ==
  ASSUME ResolverTypeOK, NEW p \in Procs, ProcStep(p)
  PROVE  /\ UNCHANGED settingsVars
         /\ \A q \in Procs \ {p} :
              /\ exe'[q] = exe[q] /\ as'[q] = as[q] /\ call'[q] = call[q]
              /\ source'[q] = source[q] /\ (q \in running' <=> q \in running)
<1>1. ASSUME NEW q \in Procs \cup {NoProc}, NEW x \in Exes, Start(p, q, x)
      PROVE  /\ UNCHANGED settingsVars
             /\ \A r \in Procs \ {p} :
                  /\ exe'[r] = exe[r] /\ as'[r] = as[r] /\ call'[r] = call[r]
                  /\ source'[r] = source[r] /\ (r \in running' <=> r \in running)
    BY <1>1 DEF Start, ResolverTypeOK
<1>2. ASSUME NEW m \in Paths,
             \/ LoadModule(p, m) \/ UnloadModule(p, m)
             \/ BeginWithExe(p, m) \/ BeginWithModule(p, m)
      PROVE  /\ UNCHANGED settingsVars
             /\ \A r \in Procs \ {p} :
                  /\ exe'[r] = exe[r] /\ as'[r] = as[r] /\ call'[r] = call[r]
                  /\ source'[r] = source[r] /\ (r \in running' <=> r \in running)
    BY <1>2 DEF LoadModule, UnloadModule, BeginWithExe, BeginWithModule,
                ResolverTypeOK
<1>3. ASSUME DecideExe(p) \/ FindModule(p) \/ DecideModule(p) \/ End(p)
      PROVE  /\ UNCHANGED settingsVars
             /\ \A r \in Procs \ {p} :
                  /\ exe'[r] = exe[r] /\ as'[r] = as[r] /\ call'[r] = call[r]
                  /\ source'[r] = source[r] /\ (r \in running' <=> r \in running)
    BY <1>3 DEF DecideExe, FindModule, DecideModule, End, ResolverTypeOK
<1>. QED BY <1>1, <1>2, <1>3, Zenon DEF ProcStep

\* What each step has to show of the process that takes it.
StepKeeps(p) ==
  ResolverTypeOK' /\ ProcInv(p)' /\ (source[p].root = p => source'[p].root = p)

LEMMA StartKeeps ==
  ASSUME ResolverInv, NEW p \in Procs, NEW q \in Procs \cup {NoProc},
         NEW x \in Exes, Start(p, q, x)
  PROVE  StepKeeps(p)
<1>1. ResolverTypeOK /\ HasExe(p) /\ CallIsNeeded(p) /\ RootIsRoot(p)
    BY DEF ResolverInv, ProcInv
<1>2. /\ x \in Paths /\ running' = running \cup {p} /\ exe'[p] = x
      /\ as'[p] = [as[p] EXCEPT ![x] = Unset]
      /\ call' = call /\ source' = source /\ call[p].at = "none"
      /\ source[p].root = NoProc
    BY <1>1, ResolverAssumption DEF Start, ResolverTypeOK, HasExe, RootIsRoot
<1>3. /\ as'[p][x] = Unset
      /\ \A m \in Paths : m # x => as'[p][m] = NotLoaded
  <2>1. as[p] \in [Paths -> AppSetting \cup {NotLoaded}]
      BY <1>1, ProcTypes
  <2>2. \A m \in Paths : as[p][m] = NotLoaded
      BY <1>1 DEF Start, HasExe
  <2>. QED BY <1>2, <2>1, <2>2
<1>4. ResolverTypeOK'
  <2>1. as' = [as EXCEPT ![p] = [as[p] EXCEPT ![x] = Unset]]
      BY <1>1 DEF Start
  <2>2. [as[p] EXCEPT ![x] = Unset] \in [Paths -> AppSetting \cup {NotLoaded}]
      BY <1>1, <1>2, ProcTypes, UnsetFacts
  <2>3. as' \in [Procs -> [Paths -> AppSetting \cup {NotLoaded}]]
      BY <1>1, <2>1, <2>2 DEF ResolverTypeOK
  <2>. QED BY <1>1, <1>2, <2>3 DEF Start, ResolverTypeOK
<1>5. HasExe(p)' /\ ModulesAgree(p)' /\ SourceAgrees(p)'
    BY <1>2, <1>3, UnsetFacts
       DEF HasExe, ModulesAgree, SourceAgrees, Settled, Loaded, ExeAs
<1>6. CallIsNeeded(p)' /\ NodeIsThere(p)'
    BY <1>2 DEF CallIsNeeded, NodeIsThere
<1>7. RootIsRoot(p)'
    BY <1>1, <1>2 DEF RootIsRoot
<1>. QED BY <1>2, <1>4, <1>5, <1>6, <1>7 DEF StepKeeps, ProcInv

LEMMA LoadModuleKeeps ==
  ASSUME ResolverInv, NEW p \in Procs, NEW m \in Paths, LoadModule(p, m)
  PROVE  StepKeeps(p)
<1>1. ResolverTypeOK /\ ProcInv(p)
    BY DEF ResolverInv
<1>2. /\ p \in running /\ exe[p] \in Paths /\ m # exe[p] /\ call[p].at = "none"
      /\ as'[p] = [as[p] EXCEPT ![m] = Unset]
      /\ UNCHANGED <<exe, running, call, source>>
    BY <1>1, ResolverAssumption
       DEF LoadModule, ResolverTypeOK, ProcInv, HasExe, NoCall
<1>3. as'[p][m] = Unset /\ \A n \in Paths : n # m => as'[p][n] = as[p][n]
    BY <1>1, <1>2, ProcTypes DEF ProcInv
<1>4. ResolverTypeOK'
    BY <1>1, UnsetFacts DEF LoadModule, ResolverTypeOK
<1>5. HasExe(p)'
    BY <1>1, <1>2, <1>3 DEF ProcInv, HasExe, Loaded
<1>6. ModulesAgree(p)'
    BY <1>1, <1>2, <1>3, UnsetFacts
       DEF ProcInv, ModulesAgree, Settled, Loaded, ExeAs
<1>7. SourceAgrees(p)' /\ RootIsRoot(p)'
    BY <1>1, <1>2, <1>3 DEF ProcInv, SourceAgrees, RootIsRoot, Settled, Loaded, ExeAs
<1>8. CallIsNeeded(p)' /\ NodeIsThere(p)'
    BY <1>2 DEF CallIsNeeded, NodeIsThere
<1>. QED BY <1>2, <1>4, <1>5, <1>6, <1>7, <1>8 DEF StepKeeps, ProcInv

LEMMA UnloadModuleKeeps ==
  ASSUME ResolverInv, NEW p \in Procs, NEW m \in Paths, UnloadModule(p, m)
  PROVE  StepKeeps(p)
<1>1. ResolverTypeOK /\ ProcInv(p)
    BY DEF ResolverInv
<1>2. /\ p \in running /\ exe[p] \in Paths /\ m # exe[p] /\ call[p].at = "none"
      /\ as'[p] = [as[p] EXCEPT ![m] = NotLoaded]
      /\ UNCHANGED <<exe, running, call, source>>
    BY <1>1, ResolverAssumption
       DEF UnloadModule, ResolverTypeOK, ProcInv, HasExe, NoCall
<1>3. as'[p][m] = NotLoaded /\ \A n \in Paths : n # m => as'[p][n] = as[p][n]
    BY <1>1, <1>2, ProcTypes DEF ProcInv
<1>4. ResolverTypeOK'
    BY <1>1 DEF UnloadModule, ResolverTypeOK
<1>5. HasExe(p)'
    BY <1>1, <1>2, <1>3 DEF ProcInv, HasExe, Loaded
<1>6. ModulesAgree(p)'
    BY <1>1, <1>2, <1>3 DEF ProcInv, ModulesAgree, Settled, Loaded, ExeAs
<1>7. SourceAgrees(p)' /\ RootIsRoot(p)'
    BY <1>1, <1>2, <1>3 DEF ProcInv, SourceAgrees, RootIsRoot, Settled, Loaded, ExeAs
<1>8. CallIsNeeded(p)' /\ NodeIsThere(p)'
    BY <1>2 DEF CallIsNeeded, NodeIsThere
<1>. QED BY <1>2, <1>4, <1>5, <1>6, <1>7, <1>8 DEF StepKeeps, ProcInv

LEMMA EndKeeps ==
  ASSUME ResolverInv, NEW p \in Procs, End(p)
  PROVE  StepKeeps(p)
<1>1. ResolverTypeOK /\ ProcInv(p)
    BY DEF ResolverInv
<1>2. /\ p \in running /\ p \notin running' /\ exe[p] # NoPath
      /\ as'[p] = [m \in Paths |-> NotLoaded] /\ call'[p].at = "none"
      /\ UNCHANGED <<exe, source>>
    BY <1>1, ProcTypes DEF End, ResolverTypeOK, ProcInv, NoCall
<1>3. ResolverTypeOK'
    BY <1>1 DEF End, ResolverTypeOK
<1>4. HasExe(p)' /\ CallIsNeeded(p)' /\ NodeIsThere(p)'
    BY <1>2 DEF HasExe, CallIsNeeded, NodeIsThere
<1>5. ModulesAgree(p)' /\ SourceAgrees(p)'
    BY <1>2 DEF ModulesAgree, SourceAgrees
<1>6. RootIsRoot(p)'
    BY <1>1, <1>2 DEF ProcInv, RootIsRoot
<1>. QED BY <1>2, <1>3, <1>4, <1>5, <1>6 DEF StepKeeps, ProcInv

LEMMA BeginWithExeKeeps ==
  ASSUME ResolverInv, NEW p \in Procs, NEW m \in Paths, BeginWithExe(p, m)
  PROVE  StepKeeps(p)
<1>1. TypeOK /\ ResolverTypeOK /\ ProcInv(p)
    BY DEF ResolverInv
<1>2. /\ p \in running /\ exe[p] \in Paths /\ Loaded(p, m) /\ ~Valid(as[p][m])
      /\ ~Valid(ExeAs(p))
      /\ call' = [call EXCEPT ![p] = [at |-> "readExe", mod |-> m,
                                      key |-> FindKey(exe[p]), freed |-> FALSE]]
      /\ UNCHANGED <<exe, parent, running, as, source, db>>
    BY <1>1, ProcTypes DEF BeginWithExe, NeedsSetting, ProcInv, settingsVars
<1>3. /\ FindKey(exe[p]) \in Keys \cup {NoEntry}
      /\ FindKey(exe[p]) = NoEntry \/ db[FindKey(exe[p])] # NoEntry
    BY <1>1, <1>2, FindKeyFinds
<1>4. /\ call'[p].at = "readExe" /\ call'[p].mod = m
      /\ call'[p].key = FindKey(exe[p])
    BY <1>1, <1>2 DEF ResolverTypeOK
<1>5. ResolverTypeOK'
  <2>1. [at |-> "readExe", mod |-> m, key |-> FindKey(exe[p]), freed |-> FALSE]
          \in Reading
      BY <1>3 DEF Reading
  <2>. QED BY <1>1, <1>2, <2>1 DEF ResolverTypeOK
<1>6. HasExe(p)' /\ ModulesAgree(p)' /\ SourceAgrees(p)' /\ RootIsRoot(p)'
    BY <1>1, <1>2
       DEF ProcInv, HasExe, ModulesAgree, SourceAgrees, RootIsRoot, Settled, Loaded,
           ExeAs
<1>7. CallIsNeeded(p)' /\ NodeIsThere(p)'
    BY <1>2, <1>3, <1>4 DEF CallIsNeeded, NodeIsThere, Loaded, ExeAs
<1>. QED BY <1>2, <1>5, <1>6, <1>7 DEF StepKeeps, ProcInv

LEMMA FindModuleKeeps ==
  ASSUME ResolverInv, NEW p \in Procs, FindModule(p)
  PROVE  StepKeeps(p)
<1> DEFINE m == call[p].mod
<1>1. TypeOK /\ ResolverTypeOK /\ ProcInv(p)
    BY DEF ResolverInv
<1>2. /\ call[p].at = "findModule" /\ m \in Paths
      /\ call' = [call EXCEPT ![p] = [at |-> "readModule", mod |-> m,
                                      key |-> FindKey(m), freed |-> FALSE]]
      /\ UNCHANGED <<exe, parent, running, as, source, db>>
    BY <1>1, CallCases DEF FindModule, settingsVars
<1>3. /\ FindKey(m) \in Keys \cup {NoEntry}
      /\ FindKey(m) = NoEntry \/ db[FindKey(m)] # NoEntry
    BY <1>1, <1>2, FindKeyFinds
<1>4. call'[p].at = "readModule" /\ call'[p].mod = m /\ call'[p].key = FindKey(m)
    BY <1>1, <1>2 DEF ResolverTypeOK
<1>5. ResolverTypeOK'
  <2>1. [at |-> "readModule", mod |-> m, key |-> FindKey(m), freed |-> FALSE]
          \in Reading
      BY <1>2, <1>3 DEF Reading
  <2>. QED BY <1>1, <1>2, <2>1 DEF ResolverTypeOK
<1>6. HasExe(p)' /\ ModulesAgree(p)' /\ SourceAgrees(p)' /\ RootIsRoot(p)'
    BY <1>1, <1>2
       DEF ProcInv, HasExe, ModulesAgree, SourceAgrees, RootIsRoot, Settled, Loaded,
           ExeAs
<1>7. CallIsNeeded(p)' /\ NodeIsThere(p)'
    BY <1>1, <1>2, <1>3, <1>4
       DEF ProcInv, CallIsNeeded, NodeIsThere, Loaded, ExeAs
<1>. QED BY <1>2, <1>5, <1>6, <1>7 DEF StepKeeps, ProcInv

LEMMA BeginWithModuleKeeps ==
  ASSUME ResolverInv, NEW p \in Procs, NEW m \in Paths, BeginWithModule(p, m)
  PROVE  StepKeeps(p)
<1>1. ResolverTypeOK /\ ProcInv(p) /\ HasExe(p)
    BY DEF ResolverInv, ProcInv
<1>2. /\ p \in running /\ exe[p] \in Paths /\ ExeAs(p) \in AppSetting
      /\ Loaded(p, exe[p]) /\ call[p].at = "none" /\ Loaded(p, m)
      /\ ~Valid(as[p][m]) /\ Valid(ExeAs(p)) /\ m # exe[p]
      /\ UNCHANGED <<exe, parent, running, source, db>>
  <2>1. /\ p \in running /\ call[p] = NoCall /\ Loaded(p, m)
        /\ ~Valid(as[p][m]) /\ Valid(ExeAs(p))
        /\ UNCHANGED <<exe, parent, running, source, db>>
      BY DEF BeginWithModule, NeedsSetting, settingsVars
  <2>2. exe[p] \in Paths /\ ExeAs(p) \in AppSetting /\ Loaded(p, exe[p])
      BY <1>1, <2>1, ProcTypes
  <2>3. call[p].at = "none"
      BY <2>1 DEF NoCall
  <2>4. m # exe[p]
      BY <2>1 DEF ExeAs
  <2>. QED BY <2>1, <2>2, <2>3, <2>4, Zenon
<1>3. CASE "OVERRIDE_PROC_MOD" \in ExeAs(p).flags
  <2>1. as' = [as EXCEPT ![p][m] = ExeAs(p)] /\ call' = call
      BY <1>3 DEF BeginWithModule
  <2>2. as'[p][m] = ExeAs(p) /\ \A n \in Paths : n # m => as'[p][n] = as[p][n]
      BY <1>1, <2>1 DEF ResolverTypeOK
  <2>3. ResolverTypeOK'
      BY <1>1, <1>2, <2>1 DEF ResolverTypeOK
  <2>4. ExeAs(p)' = ExeAs(p) /\ ExeAs(p) # NotLoaded
      BY <1>2, <2>2, ResolverAssumption DEF ExeAs
  <2>5. HasExe(p)' /\ SourceAgrees(p)' /\ RootIsRoot(p)'
      BY <1>1, <1>2, <2>4
         DEF ProcInv, HasExe, SourceAgrees, RootIsRoot, Settled, Loaded, ExeAs
  <2>6. ModulesAgree(p)'
    <3>1. Proper(ExeAs(p))
        BY <1>1, <1>2 DEF ProcInv, ModulesAgree, Settled, ExeAs
    <3>2. \A n \in Paths : n # m => (Settled(p, n)' <=> Settled(p, n))
        BY <2>2 DEF Settled, Loaded
    <3>3. Settled(p, exe[p])'
        BY <1>2, <2>4 DEF Settled, Loaded, ExeAs
    <3>. QED BY <1>1, <1>2, <2>2, <2>4, <3>1, <3>2, <3>3 DEF ProcInv, ModulesAgree
  <2>7. CallIsNeeded(p)' /\ NodeIsThere(p)'
      BY <1>2, <2>1 DEF CallIsNeeded, NodeIsThere
  <2>. QED BY <1>2, <2>3, <2>5, <2>6, <2>7 DEF StepKeeps, ProcInv
<1>4. CASE "OVERRIDE_PROC_MOD" \notin ExeAs(p).flags
  <2>1. /\ call' = [call EXCEPT ![p] = [at |-> "findModule", mod |-> m]]
        /\ as' = as
      BY <1>4 DEF BeginWithModule
  <2>2. call'[p] = [at |-> "findModule", mod |-> m]
      BY <1>1, <2>1 DEF ResolverTypeOK
  <2>3. ResolverTypeOK'
      BY <1>1, <1>2, <2>1 DEF ResolverTypeOK, Finding
  <2>4. HasExe(p)' /\ ModulesAgree(p)' /\ SourceAgrees(p)' /\ RootIsRoot(p)'
      BY <1>1, <1>2, <2>1
         DEF ProcInv, HasExe, ModulesAgree, SourceAgrees, RootIsRoot, Settled,
             Loaded, ExeAs
  <2>5. CallIsNeeded(p)' /\ NodeIsThere(p)'
    <3>1. call'[p].at = "findModule" /\ call'[p].mod = m
        BY <2>2
    <3>2. ExeAs(p)' = ExeAs(p) /\ Loaded(p, m)' /\ ~Valid(as'[p][m])
        BY <1>2, <2>1 DEF ExeAs, Loaded
    <3>. QED BY <1>2, <1>4, <2>1, <3>1, <3>2 DEF CallIsNeeded, NodeIsThere, Valid
  <2>. QED BY <1>2, <2>3, <2>4, <2>5 DEF StepKeeps, ProcInv
<1>. QED BY <1>3, <1>4

\* What a module is decided to have.
LEMMA ModuleSettingFacts ==
  ASSUME NEW p \in Procs, ExeAs(p) \in AppSetting, Proper(ExeAs(p)),
         NEW found \in AppSetting, found = Unset \/ Proper(found)
  PROVE  /\ ModuleSetting(p, found) \in AppSetting
         /\ Proper(ModuleSetting(p, found))
         /\ "HOOK_APIS" \in ExeAs(p).flags =>
              "HOOK_APIS" \in ModuleSetting(p, found).flags
<1>1. CASE Valid(found)
  <2>1. /\ ModuleSetting(p, found) =
             [conf |-> found.conf,
              flags |-> found.flags \cup (ExeAs(p).flags \cap {"HOOK_APIS"})]
        /\ found.flags \in SUBSET AppFlags /\ ExeAs(p).flags \in SUBSET AppFlags
        /\ found.conf \in Confs \cup {NoConf}
      BY <1>1 DEF ModuleSetting, AppSetting
  <2>. QED BY <1>1, <2>1, UnsetFacts DEF AppSetting, Proper, Valid, Extended
<1>2. CASE ~Valid(found)
    BY <1>2 DEF ModuleSetting
<1>. QED BY <1>1, <1>2

LEMMA DecideModuleKeeps ==
  ASSUME ResolverInv, NEW p \in Procs, DecideModule(p)
  PROVE  StepKeeps(p)
<1> DEFINE m == call[p].mod
<1>1. TypeOK /\ ResolverTypeOK /\ ProcInv(p) /\ NodeIsThere(p)
    BY DEF ResolverInv, ProcInv
<1>2. /\ call[p].at = "readModule" /\ m \in Paths /\ p \in running
      /\ ~Valid(as[p][m]) /\ Loaded(p, m)
      /\ Valid(ExeAs(p)) /\ "OVERRIDE_PROC_MOD" \notin ExeAs(p).flags
    BY <1>1, CallCases DEF DecideModule, ProcInv, CallIsNeeded
<1>3. /\ exe[p] \in Paths /\ ExeAs(p) \in AppSetting /\ Loaded(p, exe[p])
      /\ m # exe[p] /\ Proper(ExeAs(p))
    BY <1>1, <1>2, ProcTypes DEF ProcInv, ModulesAgree, Settled, ExeAs
<1>4. PICK found \in LookupResults(call[p]) :
        as' = [as EXCEPT ![p][m] = ModuleSetting(p, found)]
    BY DEF DecideModule
<1>5. found \in AppSetting /\ (found = Unset \/ Proper(found))
    BY <1>1, <1>2, FoundProper
<1> DEFINE s == ModuleSetting(p, found)
<1>6. /\ s \in AppSetting /\ Proper(s) /\ s # NotLoaded
      /\ "HOOK_APIS" \in ExeAs(p).flags => "HOOK_APIS" \in s.flags
    BY <1>3, <1>5, ModuleSettingFacts, ResolverAssumption
<1> HIDE DEF s
<1>7. as'[p][m] = s /\ \A n \in Paths : n # m => as'[p][n] = as[p][n]
    BY <1>1, <1>2, <1>4 DEF ResolverTypeOK, s
<1>8. /\ call' = [call EXCEPT ![p] = NoCall] /\ call'[p].at = "none"
      /\ UNCHANGED <<exe, parent, running, source, db>>
    BY <1>1 DEF DecideModule, ResolverTypeOK, NoCall, settingsVars
<1>9. ResolverTypeOK'
  <2>1. as' \in [Procs -> [Paths -> AppSetting \cup {NotLoaded}]]
      BY <1>1, <1>2, <1>4, <1>6 DEF ResolverTypeOK, s
  <2>. QED BY <1>1, <1>8, <2>1 DEF ResolverTypeOK
<1>10. ExeAs(p)' = ExeAs(p) /\ Loaded(p, exe[p])'
    BY <1>3, <1>7, <1>8 DEF ExeAs, Loaded
<1>11. HasExe(p)' /\ SourceAgrees(p)' /\ RootIsRoot(p)'
    BY <1>1, <1>2, <1>3, <1>8, <1>10
       DEF ProcInv, HasExe, SourceAgrees, RootIsRoot, Settled, ExeAs
<1>12. ModulesAgree(p)'
  <2>1. \A n \in Paths : n # m => (Settled(p, n)' <=> Settled(p, n))
      BY <1>7 DEF Settled, Loaded
  <2>2. Settled(p, exe[p])'
      BY <1>2, <1>8, <1>10 DEF Settled, ExeAs
  <2>. QED BY <1>1, <1>2, <1>6, <1>7, <1>8, <1>10, <2>1, <2>2
           DEF ProcInv, ModulesAgree
<1>13. CallIsNeeded(p)' /\ NodeIsThere(p)'
    BY <1>8 DEF CallIsNeeded, NodeIsThere
<1>. QED BY <1>8, <1>9, <1>11, <1>12, <1>13 DEF StepKeeps, ProcInv

\* The setting of a process, and where it comes from.
LEMMA ProcessSettingFacts ==
  ASSUME ResolverInv, NEW p \in Procs, source[p].root = NoProc,
         NEW found \in AppSetting, found = Unset \/ Proper(found)
  PROVE  LET s    == ProcessSetting(p, found)
             from == SettingSource(p, found)
         IN  /\ s \in AppSetting /\ Proper(s)
             /\ from \in [root : Procs \cup {NoProc}, given : AppSetting]
             /\ s = IF from.root = p THEN from.given ELSE WithoutHook(from.given)
             /\ from.root \notin {p, NoProc} =>
                  /\ "NO_INHERIT" \notin from.given.flags
                  /\ source[from.root].root = from.root
             /\ from.root = NoProc => from.given = DefaultSetting
<1> DEFINE s == ProcessSetting(p, found)
           from == SettingSource(p, found)
<1>1. p # NoProc
    BY ResolverAssumption
<1>2. CASE Valid(found)
  <2>1. s = found /\ from = [root |-> p, given |-> found]
      BY <1>2 DEF ProcessSetting, SettingSource
  <2>. QED BY <1>1, <1>2, <2>1, UnsetFacts
<1>3. CASE ~Valid(found) /\ Inherits(p)
  <2> DEFINE q == parent[p]
  <2>1. /\ q \in Procs /\ q \in running /\ Settled(q, exe[q])
        /\ ExeAs(q) \in AppSetting /\ Proper(ExeAs(q))
        /\ "NO_INHERIT" \notin ExeAs(q).flags
      BY <1>3, Inherited
  <2>2. s = WithoutHook(ExeAs(q)) /\ from = source[q]
      BY <1>3 DEF ProcessSetting, SettingSource
  <2>3. SourceAgrees(q) /\ RootIsRoot(q)
      BY <2>1 DEF ResolverInv, ProcInv
  <2>4. source[q] \in [root : Procs \cup {NoProc}, given : AppSetting]
      BY <2>1 DEF ResolverInv, ResolverTypeOK
  <2>5. source[q].given \in AppSetting /\ source[q].root \in Procs \cup {NoProc}
      BY <2>4
  <2>6. /\ ExeAs(q) = IF source[q].root = q THEN source[q].given
                      ELSE WithoutHook(source[q].given)
        /\ source[q].root \notin {q, NoProc} =>
             "NO_INHERIT" \notin source[q].given.flags
        /\ source[q].root = NoProc => source[q].given = DefaultSetting
      BY <2>1, <2>3 DEF SourceAgrees
  <2>7. source[q].root # NoProc => source[source[q].root].root = source[q].root
      BY <2>3 DEF RootIsRoot
  <2>8. source[q].root # p
      BY <1>1, <2>7
  <2>9. WithoutHook(ExeAs(q)) = WithoutHook(source[q].given)
      BY <2>5, <2>6, WithoutHookFacts
  <2>10. s \in AppSetting /\ Proper(s)
      BY <2>1, <2>2, WithoutHookFacts
  <2>11. from.root \notin {p, NoProc} => "NO_INHERIT" \notin from.given.flags
      BY <2>1, <2>2, <2>6
  <2>. HIDE DEF q
  <2>. QED BY <2>2, <2>4, <2>6, <2>7, <2>8, <2>9, <2>10, <2>11
<1>4. CASE ~Valid(found) /\ ~Inherits(p)
  <2>1. s = DefaultSetting /\ from = [root |-> NoProc, given |-> DefaultSetting]
      BY <1>4 DEF ProcessSetting, SettingSource
  <2>. QED BY <1>1, <2>1, DefaultProper, DefaultUnhooked
<1>. QED BY <1>2, <1>3, <1>4

LEMMA DecideExeKeeps ==
  ASSUME ResolverInv, NEW p \in Procs, DecideExe(p)
  PROVE  StepKeeps(p)
<1> DEFINE m == call[p].mod
           x == exe[p]
<1>1. TypeOK /\ ResolverTypeOK /\ ProcInv(p) /\ HasExe(p) /\ NodeIsThere(p)
    BY DEF ResolverInv, ProcInv
<1>2. /\ call[p].at = "readExe" /\ m \in Paths /\ p \in running
      /\ ~Valid(as[p][m]) /\ Loaded(p, m) /\ ~Valid(ExeAs(p))
    BY <1>1, CallCases DEF DecideExe, ProcInv, CallIsNeeded
<1>3. x \in Paths /\ x # NoPath /\ as[p] \in [Paths -> AppSetting \cup {NotLoaded}]
    BY <1>1, <1>2, ProcTypes
<1>4. source[p].root = NoProc
    BY <1>1, <1>2 DEF ProcInv, RootIsRoot
<1>5. PICK found \in LookupResults(call[p]) :
        LET s == ProcessSetting(p, found)
            forAll == "OVERRIDE_PROC_MOD" \in s.flags
            decided == IF forAll THEN {x, m} ELSE {x}
        IN  /\ as' = [as EXCEPT ![p] = [n \in Paths |->
                        IF n \in decided THEN s ELSE as[p][n]]]
            /\ call' = [call EXCEPT ![p] =
                          IF forAll \/ m = x THEN NoCall
                          ELSE [at |-> "findModule", mod |-> m]]
            /\ source' = [source EXCEPT ![p] = SettingSource(p, found)]
    BY DEF DecideExe
<1>6. found \in AppSetting /\ (found = Unset \/ Proper(found))
    BY <1>1, <1>2, FoundProper
<1> DEFINE s == ProcessSetting(p, found)
           from == SettingSource(p, found)
           forAll == "OVERRIDE_PROC_MOD" \in s.flags
           decided == IF forAll THEN {x, m} ELSE {x}
<1>7. /\ s \in AppSetting /\ Proper(s)
      /\ from \in [root : Procs \cup {NoProc}, given : AppSetting]
      /\ s = IF from.root = p THEN from.given ELSE WithoutHook(from.given)
      /\ from.root \notin {p, NoProc} =>
           /\ "NO_INHERIT" \notin from.given.flags
           /\ source[from.root].root = from.root
      /\ from.root = NoProc => from.given = DefaultSetting
    BY <1>4, <1>6, ProcessSettingFacts
<1>8. /\ as' = [as EXCEPT ![p] = [n \in Paths |->
                  IF n \in decided THEN s ELSE as[p][n]]]
      /\ call' = [call EXCEPT ![p] = IF forAll \/ m = x THEN NoCall
                                     ELSE [at |-> "findModule", mod |-> m]]
      /\ source' = [source EXCEPT ![p] = from]
      /\ UNCHANGED <<exe, parent, running, db>>
    BY <1>5 DEF DecideExe, settingsVars
<1> HIDE DEF s, from
<1>9. /\ as'[p] = [n \in Paths |-> IF n \in decided THEN s ELSE as[p][n]]
      /\ source'[p] = from
      /\ call'[p] = IF forAll \/ m = x THEN NoCall ELSE [at |-> "findModule", mod |-> m]
  <2>. HIDE DEF forAll, m, x, decided
  <2>. QED BY <1>1, <1>8 DEF ResolverTypeOK
<1>10. /\ as'[p][x] = s
       /\ forAll => as'[p][m] = s
       /\ \A n \in Paths \ {x} : n # m \/ ~forAll => as'[p][n] = as[p][n]
    BY <1>2, <1>3, <1>9
<1>11. ResolverTypeOK'
  <2>1. as'[p] \in [Paths -> AppSetting \cup {NotLoaded}]
      BY <1>2, <1>3, <1>7, <1>9
  <2>2. call'[p] \in {NoCall} \cup Reading \cup Finding
      BY <1>2, <1>9 DEF Finding
  <2>3. as' = [as EXCEPT ![p] = as'[p]] /\ call' = [call EXCEPT ![p] = call'[p]]
      BY <1>8, <1>9
  <2>4. /\ as' \in [Procs -> [Paths -> AppSetting \cup {NotLoaded}]]
        /\ call' \in [Procs -> {NoCall} \cup Reading \cup Finding]
        /\ source' \in [Procs -> [root : Procs \cup {NoProc}, given : AppSetting]]
      BY <1>1, <1>7, <1>8, <2>1, <2>2, <2>3 DEF ResolverTypeOK
  <2>. QED BY <1>1, <1>8, <2>4 DEF ResolverTypeOK
<1>12. ExeAs(p)' = s /\ s # NotLoaded /\ Valid(s)
    BY <1>7, <1>8, <1>10, ResolverAssumption DEF ExeAs, Proper
<1>13. HasExe(p)'
    BY <1>1, <1>2, <1>8, <1>10, <1>12 DEF HasExe, Loaded
\* Nothing was settled before.
<1>14. \A n \in Paths : Settled(p, n)' => as'[p][n] = s
  <2>1. \A n \in Paths : ~Settled(p, n)
      BY <1>1, <1>2, <1>3 DEF ProcInv, ModulesAgree, Settled, ExeAs
  <2>. QED BY <1>10, <2>1 DEF Settled, Loaded
<1>15. ModulesAgree(p)'
  <2>1. Settled(p, exe[p])'
      BY <1>8, <1>12 DEF Settled, Loaded, ExeAs
  <2>. QED BY <1>7, <1>8, <1>12, <1>14, <2>1 DEF ModulesAgree
<1>16. SourceAgrees(p)'
    BY <1>7, <1>9, <1>12 DEF SourceAgrees
<1>17. RootIsRoot(p)'
  <2>1. ~(exe'[p] = NoPath \/ (p \in running' /\ ~Valid(ExeAs(p)')))
      BY <1>3, <1>8, <1>12
  <2>2. from.root # NoProc => source'[from.root].root = from.root
      BY <1>1, <1>7, <1>8, <1>9 DEF ResolverTypeOK
  <2>. QED BY <1>9, <2>1, <2>2 DEF RootIsRoot
<1>18. CallIsNeeded(p)' /\ NodeIsThere(p)'
  <2>1. CASE forAll \/ m = x
    <3>1. call'[p].at = "none"
        BY <1>9, <2>1 DEF NoCall
    <3>. QED BY <3>1 DEF CallIsNeeded, NodeIsThere
  <2>2. CASE ~(forAll \/ m = x)
    <3>1. call'[p].at = "findModule" /\ call'[p].mod = m
        BY <1>9, <2>2
    <3>2. as'[p][m] = as[p][m]
        BY <1>2, <1>10, <2>2
    <3>. QED BY <1>2, <1>8, <1>12, <2>2, <3>1, <3>2
             DEF CallIsNeeded, NodeIsThere, Loaded
  <2>. QED BY <2>1, <2>2
<1>19. source[p].root # p
    BY <1>4, ResolverAssumption
<1>. QED BY <1>11, <1>13, <1>15, <1>16, <1>17, <1>18, <1>19 DEF StepKeeps, ProcInv

LEMMA OtherKeeps ==
  ASSUME ResolverInv, NEW p \in Procs, ProcStep(p), StepKeeps(p),
         NEW q \in Procs \ {p}
  PROVE  ProcInv(q)'
<1>1. ResolverTypeOK /\ ProcInv(q)
    BY DEF ResolverInv
<1>2. /\ exe'[q] = exe[q] /\ as'[q] = as[q] /\ call'[q] = call[q]
      /\ source'[q] = source[q] /\ (q \in running' <=> q \in running)
      /\ db' = db
    BY <1>1, OthersAlone DEF settingsVars
<1>3. HasExe(q)' /\ CallIsNeeded(q)' /\ NodeIsThere(q)'
    BY <1>1, <1>2 DEF ProcInv, HasExe, CallIsNeeded, NodeIsThere, Loaded, ExeAs
<1>4. ModulesAgree(q)' /\ SourceAgrees(q)'
    BY <1>1, <1>2 DEF ProcInv, ModulesAgree, SourceAgrees, Settled, Loaded, ExeAs
<1>5. RootIsRoot(q)'
  <2>1. source[q].root # NoProc => source'[source[q].root].root = source[q].root
    <3>1. source[q].root \in Procs \cup {NoProc}
        BY <1>1 DEF ResolverTypeOK
    <3>2. \A r \in Procs \ {p} : source'[r] = source[r]
        BY <1>1, OthersAlone
    <3>3. source[q].root # NoProc => source[source[q].root].root = source[q].root
        BY <1>1 DEF ProcInv, RootIsRoot
    <3>. QED BY <3>1, <3>2, <3>3 DEF StepKeeps
  <2>. QED BY <1>1, <1>2, <2>1 DEF ProcInv, RootIsRoot, ExeAs
<1>. QED BY <1>3, <1>4, <1>5 DEF ProcInv

LEMMA ProcStepKeeps ==
  ASSUME ResolverInv, NEW p \in Procs, ProcStep(p)
  PROVE  ResolverTypeOK' /\ \A q \in Procs : ProcInv(q)'
<1>1. StepKeeps(p)
    BY StartKeeps, LoadModuleKeeps, UnloadModuleKeeps, BeginWithExeKeeps,
       BeginWithModuleKeeps, DecideExeKeeps, FindModuleKeeps, DecideModuleKeeps,
       EndKeeps, Zenon DEF ProcStep
<1>2. \A q \in Procs \ {p} : ProcInv(q)'
    BY <1>1, OtherKeeps
<1>. QED BY <1>1, <1>2 DEF StepKeeps

-----------------------------------------------------------------------------
(* Steps of the database *)

LEMMA DbStepIsClientStep ==
  ASSUME NEW c \in Clients, DbStep(c)
  PROVE  ClientStep(c)
  BY Zenon DEF DbStep, DbUpdate, DbFlush, DbOther, ClientStep

LEMMA NextSettings == ResolverTypeOK /\ [ResolverNext]_vars => [Next]_settingsVars
<1> SUFFICES ASSUME ResolverTypeOK, [ResolverNext]_vars PROVE [Next]_settingsVars
    OBVIOUS
<1>1. ASSUME NEW p \in Procs, ProcStep(p) PROVE UNCHANGED settingsVars
    BY <1>1, OthersAlone
<1>2. ASSUME NEW c \in Clients, DbStep(c) PROVE Next
    BY <1>2, DbStepIsClientStep DEF Next
<1>3. CASE UNCHANGED vars
    BY <1>3 DEF vars
<1>. QED BY <1>1, <1>2, <1>3 DEF ResolverNext

\* The second pass of a flush removes no entry.
LEMMA FlagsKeepEntries ==
  ASSUME NEW k \in Keys, TypeOK, db[k] # NoEntry
  PROVE  AddApilibExcludes(ParseFlags(db))[k] # NoEntry
<1>1. ParseFlags(db)[k] \in Setting
  <2>1. db[k] \in Setting
      BY DEF TypeOK
  <2>2. CASE regFlags[k] = NoFlags
      BY <2>1, <2>2 DEF ParseFlags
  <2>3. CASE regFlags[k] # NoFlags
    <3>1. regFlags[k] \in SUBSET FlagBits
        BY <2>3 DEF TypeOK
    <3>. QED BY <2>1, <2>3, <3>1 DEF ParseFlags, Setting
  <2>. QED BY <2>2, <2>3
<1>. QED BY <1>1, DisabledType, ValuesAssumption DEF AddApilibExcludes

\* Lookups in progress learn nothing of a change but that their node is gone.
LEMMA DbStepCalls ==
  ASSUME ResolverTypeOK, TypeOK, NEW c \in Clients, DbStep(c), NEW p \in Procs
  PROVE  /\ call'[p] \in {NoCall} \cup Reading \cup Finding
         /\ call'[p].at = call[p].at
         /\ call[p].at # "none" => call'[p].mod = call[p].mod
         /\ NodeIsThere(p) => NodeIsThere(p)'
<1> DEFINE reading == call[p].at \in {"readExe", "readModule"}
<1>1. ASSUME NEW keys, Erased(keys),
             \A k \in Keys \ keys : db'[k] = db[k]
      PROVE  /\ call'[p] \in {NoCall} \cup Reading \cup Finding
             /\ call'[p].at = call[p].at
             /\ call[p].at # "none" => call'[p].mod = call[p].mod
             /\ NodeIsThere(p) => NodeIsThere(p)'
  <2>1. CASE reading /\ call[p].key \in keys
    <3>1. call[p] \in Reading
        BY <2>1, CallCases
    <3>2. call'[p] = [call[p] EXCEPT !.freed = TRUE]
        BY <1>1, <2>1 DEF Erased
    <3>3. /\ call'[p] \in Reading /\ call'[p].at = call[p].at
          /\ call'[p].mod = call[p].mod /\ call'[p].freed
        BY <3>1, <3>2 DEF Reading
    <3>. QED BY <3>3 DEF NodeIsThere
  <2>2. CASE ~(reading /\ call[p].key \in keys)
    <3>1. call'[p] = call[p]
        BY <1>1, <2>2 DEF Erased
    <3>2. NodeIsThere(p) => NodeIsThere(p)'
      <4>1. CASE reading
        <5>1. call[p].key \in Keys \cup {NoEntry}
            BY <4>1, CallCases DEF Reading
        <5>. QED BY <1>1, <2>2, <3>1, <4>1, <5>1 DEF NodeIsThere
      <4>2. CASE ~reading
          BY <3>1, <4>2 DEF NodeIsThere
      <4>. QED BY <4>1, <4>2
    <3>. QED BY <3>1, <3>2, CallCases
  <2>. QED BY <2>1, <2>2
<1>2. CASE DbUpdate(c)
  <2>1. Erased({op[c].path}) /\ db' = [db EXCEPT ![op[c].path] = op[c].entry]
      BY <1>2 DEF DbUpdate, UpdateDb
  <2>2. \A k \in Keys \ {op[c].path} : db'[k] = db[k]
      BY <2>1 DEF TypeOK
  <2>. QED BY <1>1, <2>1, <2>2
<1>3. CASE DbFlush(c)
    BY <1>1, <1>3 DEF DbFlush
<1>4. CASE DbOther(c)
  <2>1. call' = call
      BY <1>4 DEF DbOther
  <2>2. \A k \in Keys : db[k] # NoEntry => db'[k] # NoEntry
    <3>1. db' = db \/ db' = AddApilibExcludes(ParseFlags(db))
        BY <1>4 DEF DbOther, BeginUpdate, WriteFlags, FlushFlags
    <3>. QED BY <3>1, FlagsKeepEntries
  <2>3. NodeIsThere(p) => NodeIsThere(p)'
    <3>1. CASE reading
      <4>1. call[p].key \in Keys \cup {NoEntry}
          BY <3>1, CallCases DEF Reading
      <4>. QED BY <2>1, <2>2, <3>1, <4>1 DEF NodeIsThere
    <3>2. CASE ~reading
        BY <2>1, <3>2 DEF NodeIsThere
    <3>. QED BY <3>1, <3>2
  <2>. QED BY <2>1, <2>3, CallCases
<1>. QED BY <1>2, <1>3, <1>4 DEF DbStep

LEMMA DbStepKeeps ==
  ASSUME ResolverInv, NEW c \in Clients, DbStep(c)
  PROVE  ResolverTypeOK' /\ \A p \in Procs : ProcInv(p)'
<1>1. TypeOK /\ ResolverTypeOK /\ UNCHANGED <<exe, parent, running, as, source>>
    BY DEF ResolverInv, DbStep
<1>2. ResolverTypeOK'
  <2>1. call' = [p \in Procs |-> call'[p]]
      BY <1>1 DEF DbStep, DbUpdate, DbFlush, DbOther, Erased, ResolverTypeOK
  <2>2. \A p \in Procs : call'[p] \in {NoCall} \cup Reading \cup Finding
      BY <1>1, DbStepCalls
  <2>3. call' \in [Procs -> {NoCall} \cup Reading \cup Finding]
      BY <2>1, <2>2, Zenon
  <2>. QED BY <1>1, <2>3 DEF ResolverTypeOK
<1>3. ASSUME NEW p \in Procs PROVE ProcInv(p)'
  <2>1. ProcInv(p)
      BY DEF ResolverInv
  <2>2. /\ call'[p].at = call[p].at
        /\ call[p].at # "none" => call'[p].mod = call[p].mod
        /\ NodeIsThere(p) => NodeIsThere(p)'
      BY <1>1, DbStepCalls
  <2>3. HasExe(p)' /\ CallIsNeeded(p)'
      BY <1>1, <2>1, <2>2 DEF ProcInv, HasExe, CallIsNeeded, Loaded, ExeAs
  <2>4. ModulesAgree(p)' /\ SourceAgrees(p)' /\ RootIsRoot(p)'
      BY <1>1, <2>1
         DEF ProcInv, ModulesAgree, SourceAgrees, RootIsRoot, Settled, Loaded, ExeAs
  <2>. QED BY <2>1, <2>2, <2>3, <2>4 DEF ProcInv
<1>. QED BY <1>2, <1>3

-----------------------------------------------------------------------------
(* The invariant, and what it implies *)

LEMMA ResolverInitInv == ResolverInit => ResolverInv
<1> SUFFICES ASSUME ResolverInit PROVE ResolverInv
    OBVIOUS
<1>1. TypeOK
    BY InitType DEF ResolverInit
<1>2. ResolverTypeOK
    BY UnsetFacts DEF ResolverInit, ResolverTypeOK
<1>3. ASSUME NEW p \in Procs PROVE ProcInv(p)
  <2>1. /\ p \notin running /\ call[p].at = "none" /\ source[p].root = NoProc
        /\ \A m \in Paths : as[p][m] = NotLoaded
      BY DEF ResolverInit, NoCall
  <2>. QED BY <2>1 DEF ProcInv, HasExe, CallIsNeeded, NodeIsThere, ModulesAgree,
                       SourceAgrees, RootIsRoot
<1>. QED BY <1>1, <1>2, <1>3 DEF ResolverInv

LEMMA ResolverNextInv == ResolverInv /\ [ResolverNext]_vars => ResolverInv'
<1> SUFFICES ASSUME ResolverInv, [ResolverNext]_vars PROVE ResolverInv'
    OBVIOUS
<1>1. TypeOK'
    BY NextSettings, NextType DEF ResolverInv
<1>2. ASSUME NEW p \in Procs, ProcStep(p) PROVE ResolverInv'
    BY <1>1, <1>2, ProcStepKeeps DEF ResolverInv
<1>3. ASSUME NEW c \in Clients, DbStep(c) PROVE ResolverInv'
    BY <1>1, <1>3, DbStepKeeps DEF ResolverInv
<1>4. CASE UNCHANGED vars
  <2>1. ResolverTypeOK'
      BY <1>4 DEF ResolverInv, ResolverTypeOK, vars, resolverVars
  <2>2. ASSUME NEW p \in Procs PROVE ProcInv(p)'
    <3>1. ProcInv(p)
        BY DEF ResolverInv
    <3>. QED BY <1>4, <3>1
             DEF ProcInv, HasExe, CallIsNeeded, NodeIsThere, ModulesAgree,
                 SourceAgrees, RootIsRoot, Settled, Loaded, ExeAs, vars,
                 settingsVars, resolverVars
  <2>. QED BY <1>1, <2>1, <2>2 DEF ResolverInv
<1>. QED BY <1>2, <1>3, <1>4 DEF ResolverNext

LEMMA InvariantHolds == ResolverSpec => []ResolverInv
  BY ResolverInitInv, ResolverNextInv, PTL DEF ResolverSpec

LEMMA InvImplies ==
  ASSUME ResolverInv
  PROVE  /\ ExtendedHasConf /\ OverrideIsForAll
         /\ HookReachesModules /\ SettingHasItsSource
<1>1. ASSUME NEW p \in running
      PROVE  p \in Procs /\ ModulesAgree(p) /\ SourceAgrees(p) /\ exe[p] \in Paths
    BY ResolverAssumption DEF ResolverInv, ResolverTypeOK, ProcInv, HasExe
<1>2. ExtendedHasConf
    BY <1>1 DEF ExtendedHasConf, ModulesAgree, Proper
<1>3. OverrideIsForAll
    BY <1>1 DEF OverrideIsForAll, ModulesAgree
<1>4. HookReachesModules
    BY <1>1 DEF HookReachesModules, ModulesAgree
<1>5. SettingHasItsSource
    BY <1>1 DEF SettingHasItsSource, SourceAgrees
<1>. QED BY <1>2, <1>3, <1>4, <1>5

(* Processes, cached settings, lookups in progress and sources keep their   *)
(* types, whatever a lookup reads of a node that was freed.                 *)
THEOREM ResolverTypeCorrect == ResolverSpec => []ResolverTypeOK
<1>1. ResolverInv => ResolverTypeOK
    BY DEF ResolverInv
<1>. QED BY <1>1, InvariantHolds, PTL

(* DBGASSERT(module.as.conf != NULL): a module with the extended API has a  *)
(* configuration, for any number of processes and clients.                  *)
THEOREM ExtendedModulesHaveConf == ResolverSpec => []ExtendedHasConf
  BY InvariantHolds, InvImplies, PTL

(* LDR_OVERRIDE_PROC_MOD: the setting of an executable that overrides is    *)
(* that of all its modules, whenever they were loaded and resolved.         *)
THEOREM OverridesAreForAll == ResolverSpec => []OverrideIsForAll
  BY InvariantHolds, InvImplies, PTL

(* Modules are decided after their executable and hooked with it.           *)
THEOREM HooksReachModules == ResolverSpec => []HookReachesModules
  BY InvariantHolds, InvImplies, PTL

(* Through any number of generations a process has the database's answer,   *)
(* that of an ancestor which lets go of it, or the default.                 *)
THEOREM SettingsHaveSources == ResolverSpec => []SettingHasItsSource
  BY InvariantHolds, InvImplies, PTL

(* Beside the resolver the settings database behaves as it does alone, so   *)
(* that all that is proved of it holds here.                                *)
THEOREM ResolverKeepsSettings == ResolverSpec => Spec
<1>1. ResolverInit => Init
    BY DEF ResolverInit
<1>2. ResolverInv /\ [ResolverNext]_vars => [Next]_settingsVars
    BY NextSettings DEF ResolverInv
<1>. QED BY <1>1, <1>2, InvariantHolds, PTL DEF ResolverSpec, Spec

-----------------------------------------------------------------------------
(* The refinement of ModuleConfig *)

\* What ModuleConfig sees of a module.
DecisionOf(s) ==
  IF s = NotLoaded THEN NotLoaded ELSE IF Valid(s) THEN s ELSE Unset

LEMMA DecisionAt ==
  ASSUME NEW p \in Procs, NEW m \in Paths
  PROVE  /\ as[p][m] = NotLoaded => Decisions[p][m] = NotLoaded
         /\ Settled(p, m) => Decisions[p][m] = as[p][m]
         /\ Loaded(p, m) /\ ~Valid(as[p][m]) => Decisions[p][m] = Unset
         /\ Decisions[p][m] = DecisionOf(as[p][m])
         /\ Decisions'[p][m] = DecisionOf(as'[p][m])
         /\ as'[p][m] = as[p][m] => Decisions'[p][m] = Decisions[p][m]
<1>1. /\ Decisions[p][m] = DecisionOf(as[p][m])
      /\ Decisions'[p][m] = DecisionOf(as'[p][m])
    BY DEF Decisions, DecisionOf, Loaded
<1>2. as'[p][m] = as[p][m] => Decisions'[p][m] = Decisions[p][m]
    BY DEF Decisions, DecisionOf, Loaded, Valid
<1>. QED BY <1>1, <1>2 DEF DecisionOf, Settled, Loaded, Valid

LEMMA DecisionsAt ==
  ASSUME NEW p \in Procs
  PROVE  /\ Decisions[p] = [m \in Paths |-> Decisions[p][m]]
         /\ Decisions'[p] = [m \in Paths |-> Decisions'[p][m]]
  BY DEF Decisions

\* Modules that keep their setting look the same.
LEMMA DecisionsStay ==
  ASSUME NEW p \in Procs, as'[p] = as[p]
  PROVE  Decisions'[p] = Decisions[p]
  BY DEF Decisions, Loaded

LEMMA InitRefines == ResolverInit => Config!Init
  BY DEF ResolverInit, Config!Init, Decisions, Loaded

\* A module that is loaded or leaves is one change of what ModuleConfig sees.
LEMMA OneDecision ==
  ASSUME ResolverTypeOK, NEW p \in Procs, NEW m \in Paths, NEW s,
         as' = [as EXCEPT ![p][m] = s]
  PROVE  Decisions' = [Decisions EXCEPT ![p][m] = DecisionOf(s)]
<1>1. ASSUME NEW q \in Procs
      PROVE  Decisions'[q] = [Decisions EXCEPT ![p][m] = DecisionOf(s)][q]
  <2>1. CASE q = p
    <3>1. as'[p] = [as[p] EXCEPT ![m] = s]
        BY DEF ResolverTypeOK
    <3>2. as[p] \in [Paths -> AppSetting \cup {NotLoaded}]
        BY DEF ResolverTypeOK
    <3>3. \A n \in Paths : as'[p][n] = IF n = m THEN s ELSE as[p][n]
        BY <3>1, <3>2
    <3>4. \A n \in Paths : n # m => Decisions'[p][n] = Decisions[p][n]
      <4>1. ASSUME NEW n \in Paths, n # m
            PROVE  Decisions'[p][n] = Decisions[p][n]
        <5>1. as'[p][n] = as[p][n]
            BY <3>3, <4>1
        <5>. QED BY <5>1, DecisionAt
      <4>. QED BY <4>1
    <3>5. Decisions'[p][m] = DecisionOf(s)
      <4>1. Decisions'[p][m] = DecisionOf(as'[p][m])
          BY DecisionAt
      <4>2. DecisionOf(as'[p][m]) = DecisionOf(s)
          BY <3>3
      <4>. QED BY <4>1, <4>2
    <3>6. Decisions'[p] = [Decisions[p] EXCEPT ![m] = DecisionOf(s)]
        BY <3>4, <3>5, DecisionsAt
    <3>. QED BY <2>1, <3>6 DEF Decisions
  <2>2. CASE q # p
    <3>1. as'[q] = as[q]
        BY <2>2 DEF ResolverTypeOK
    <3>. QED BY <2>2, <3>1, DecisionsStay DEF Decisions
  <2>. QED BY <2>1, <2>2
<1>. QED BY <1>1 DEF Decisions

\* Modules that get a setting at last are decided.
LEMMA DecideRefines ==
  ASSUME ResolverInv, ResolverInv', NEW p \in Procs, p \in running,
         UNCHANGED <<exe, running>>,
         \A q \in Procs \ {p} : as'[q] = as[q],
         \A m \in Paths : as'[p][m] # as[p][m] =>
           Loaded(p, m) /\ ~Valid(as[p][m]) /\ Valid(as'[p][m]) /\ Loaded(p, m)'
  PROVE  Config!Decide(p)
<1> DEFINE Decided == {s \in AppSetting : Valid(s)}
<1>1. /\ ResolverTypeOK /\ ResolverTypeOK' /\ HasExe(p) /\ HasExe(p)'
      /\ ModulesAgree(p)'
    BY DEF ResolverInv, ProcInv
<1>2. exe[p] \in Paths /\ exe[p] # NoPath
    BY <1>1, ProcTypes
<1>3. ASSUME NEW q \in Procs
      PROVE  Decisions'[q] \in [Paths -> Decided \cup {Unset, NotLoaded}]
  <2>1. as'[q] \in [Paths -> AppSetting \cup {NotLoaded}]
      BY <1>1 DEF ResolverTypeOK
  <2>2. ASSUME NEW n \in Paths
        PROVE  Decisions'[q][n] \in Decided \cup {Unset, NotLoaded}
    <3>1. Decisions'[q][n] = DecisionOf(as'[q][n])
        BY DecisionAt
    <3>2. DecisionOf(as'[q][n]) \in Decided \cup {Unset, NotLoaded}
        BY <2>1 DEF DecisionOf, Valid
    <3>. QED BY <3>1, <3>2
  <2>. HIDE DEF Decided
  <2>. QED BY <2>2, DecisionsAt
<1>4. Decisions' \in [Procs -> [Paths -> Decided \cup {Unset, NotLoaded}]]
    BY <1>3 DEF Decisions
<1>5. \A q \in Procs \ {p} : Decisions'[q] = Decisions[q]
    BY DecisionsStay
<1>6. ASSUME NEW m \in Paths, Decisions'[p][m] # Decisions[p][m]
      PROVE  /\ Decisions[p][m] = Unset
             /\ Decisions'[p][m] \in Decided
             /\ Decisions'[p][exe[p]] \in Decided
             /\ "OVERRIDE_PROC_MOD" \in Decisions'[p][exe[p]].flags =>
                  Decisions'[p][m] = Decisions'[p][exe[p]]
  <2>1. as'[p][m] # as[p][m]
      BY <1>6, DecisionAt
  <2>2. Loaded(p, m) /\ ~Valid(as[p][m]) /\ Settled(p, m)'
      BY <2>1 DEF Settled
  <2>3. Decisions[p][m] = Unset
      BY <2>2, DecisionAt
  <2>4. \A n \in Paths : Settled(p, n)' =>
          Decisions'[p][n] = as'[p][n] /\ as'[p][n] \in Decided
    <3>1. as'[p] \in [Paths -> AppSetting \cup {NotLoaded}]
        BY <1>1 DEF ResolverTypeOK
    <3>2. ASSUME NEW n \in Paths, Settled(p, n)'
          PROVE  Decisions'[p][n] = as'[p][n] /\ as'[p][n] \in Decided
      <4>1. Decisions'[p][n] = DecisionOf(as'[p][n])
          BY DecisionAt
      <4>2. DecisionOf(as'[p][n]) = as'[p][n]
          BY <3>2 DEF DecisionOf, Settled, Loaded, Valid
      <4>3. as'[p][n] \in Decided
          BY <3>1, <3>2 DEF Settled, Loaded, Valid
      <4>. QED BY <4>1, <4>2, <4>3
    <3>. QED BY <3>2
  <2>5. /\ Settled(p, exe[p])'
        /\ "OVERRIDE_PROC_MOD" \in as'[p][exe[p]].flags =>
             as'[p][m] = as'[p][exe[p]]
      BY <1>1, <2>2 DEF ModulesAgree, ExeAs
  <2>. QED BY <1>2, <2>2, <2>3, <2>4, <2>5
<1>. QED BY <1>2, <1>4, <1>5, <1>6 DEF Config!Decide

LEMMA DecideExeRefines ==
  ASSUME ResolverInv, ResolverInv', NEW p \in Procs, DecideExe(p)
  PROVE  Config!Decide(p)
<1> DEFINE m == call[p].mod
           x == exe[p]
<1>1. ResolverTypeOK /\ TypeOK /\ ProcInv(p) /\ HasExe(p) /\ NodeIsThere(p)
    BY DEF ResolverInv, ProcInv
<1>2. /\ call[p].at = "readExe" /\ m \in Paths /\ p \in running
      /\ ~Valid(as[p][m]) /\ Loaded(p, m) /\ ~Valid(ExeAs(p)) /\ Loaded(p, x)
      /\ UNCHANGED <<exe, running>>
    BY <1>1, CallCases DEF DecideExe, ProcInv, CallIsNeeded, HasExe
<1>3. source[p].root = NoProc
    BY <1>1, <1>2 DEF ProcInv, RootIsRoot
<1>4. PICK found \in LookupResults(call[p]) :
        LET s == ProcessSetting(p, found)
            forAll == "OVERRIDE_PROC_MOD" \in s.flags
            decided == IF forAll THEN {x, m} ELSE {x}
        IN  as' = [as EXCEPT ![p] = [n \in Paths |->
                     IF n \in decided THEN s ELSE as[p][n]]]
    BY DEF DecideExe
<1> DEFINE s == ProcessSetting(p, found)
<1>5. s \in AppSetting /\ Valid(s)
  <2>1. found \in AppSetting /\ (found = Unset \/ Proper(found))
      BY <1>1, <1>2, FoundProper
  <2>. QED BY <1>3, <2>1, ProcessSettingFacts DEF Proper
<1>6. s # NotLoaded
    BY <1>5, ResolverAssumption
<1>7. \A n \in Paths : as'[p][n] = s \/ as'[p][n] = as[p][n]
    BY <1>1, <1>4 DEF ResolverTypeOK
<1>8. \A n \in Paths \ {x, m} : as'[p][n] = as[p][n]
    BY <1>1, <1>4 DEF ResolverTypeOK
<1>9. \A q \in Procs \ {p} : as'[q] = as[q]
    BY <1>1, <1>4 DEF ResolverTypeOK
<1> HIDE DEF s
<1>10. \A n \in Paths : as'[p][n] # as[p][n] =>
         Loaded(p, n) /\ ~Valid(as[p][n]) /\ Valid(as'[p][n]) /\ Loaded(p, n)'
    BY <1>2, <1>5, <1>6, <1>7, <1>8 DEF Loaded, ExeAs
<1>. QED BY <1>2, <1>9, <1>10, DecideRefines

LEMMA DecideModuleRefines ==
  ASSUME ResolverInv, ResolverInv', NEW p \in Procs, DecideModule(p)
  PROVE  Config!Decide(p)
<1> DEFINE m == call[p].mod
<1>1. ResolverTypeOK /\ TypeOK /\ ProcInv(p) /\ HasExe(p) /\ NodeIsThere(p)
    BY DEF ResolverInv, ProcInv
<1>2. /\ call[p].at = "readModule" /\ m \in Paths /\ p \in running
      /\ ~Valid(as[p][m]) /\ Loaded(p, m) /\ Valid(ExeAs(p))
      /\ UNCHANGED <<exe, running>>
    BY <1>1, CallCases DEF DecideModule, ProcInv, CallIsNeeded
<1>3. ExeAs(p) \in AppSetting /\ Proper(ExeAs(p))
    BY <1>1, <1>2, ProcTypes DEF ProcInv, ModulesAgree, Settled, ExeAs
<1>4. PICK found \in LookupResults(call[p]) :
        as' = [as EXCEPT ![p][m] = ModuleSetting(p, found)]
    BY DEF DecideModule
<1> DEFINE s == ModuleSetting(p, found)
<1>5. s \in AppSetting /\ Valid(s) /\ s # NotLoaded
  <2>1. found \in AppSetting /\ (found = Unset \/ Proper(found))
      BY <1>1, <1>2, FoundProper
  <2>. QED BY <1>3, <2>1, ModuleSettingFacts, ResolverAssumption DEF Proper
<1> HIDE DEF s
<1>6. as'[p][m] = s /\ \A n \in Paths : n # m => as'[p][n] = as[p][n]
    BY <1>1, <1>2, <1>4 DEF ResolverTypeOK, s
<1>7. \A q \in Procs \ {p} : as'[q] = as[q]
    BY <1>1, <1>4 DEF ResolverTypeOK
<1>8. \A n \in Paths : as'[p][n] # as[p][n] =>
         Loaded(p, n) /\ ~Valid(as[p][n]) /\ Valid(as'[p][n]) /\ Loaded(p, n)'
    BY <1>2, <1>5, <1>6 DEF Loaded
<1>. QED BY <1>2, <1>7, <1>8, DecideRefines

LEMMA BeginWithModuleRefines ==
  ASSUME ResolverInv, ResolverInv', NEW p \in Procs, NEW m \in Paths,
         BeginWithModule(p, m)
  PROVE  Config!Decide(p) \/ UNCHANGED <<exe, Decisions>>
<1>1. ResolverTypeOK /\ HasExe(p)
    BY DEF ResolverInv, ProcInv
<1>2. /\ p \in running /\ Loaded(p, m) /\ ~Valid(as[p][m]) /\ Valid(ExeAs(p))
      /\ UNCHANGED <<exe, running>>
    BY DEF BeginWithModule, NeedsSetting
<1>3. ExeAs(p) # NotLoaded
    BY <1>1, <1>2 DEF HasExe, Loaded, ExeAs
<1>4. CASE as' = [as EXCEPT ![p][m] = ExeAs(p)]
  <2>1. as'[p][m] = ExeAs(p) /\ \A n \in Paths : n # m => as'[p][n] = as[p][n]
      BY <1>1, <1>4 DEF ResolverTypeOK
  <2>2. \A q \in Procs \ {p} : as'[q] = as[q]
      BY <1>1, <1>4 DEF ResolverTypeOK
  <2>3. \A n \in Paths : as'[p][n] # as[p][n] =>
          Loaded(p, n) /\ ~Valid(as[p][n]) /\ Valid(as'[p][n]) /\ Loaded(p, n)'
      BY <1>2, <1>3, <2>1 DEF Loaded
  <2>. QED BY <1>2, <2>2, <2>3, DecideRefines
<1>5. CASE as' = as
    BY <1>2, <1>5 DEF Decisions, Loaded
<1>. QED BY <1>4, <1>5 DEF BeginWithModule

LEMMA NextRefines ==
  ResolverInv /\ ResolverInv' /\ [ResolverNext]_vars => [Config!Next]_(Config!vars)
<1> SUFFICES ASSUME ResolverInv, ResolverInv', [ResolverNext]_vars
             PROVE  Config!Next \/ UNCHANGED <<exe, Decisions>>
    BY DEF Config!vars
<1>1. ResolverTypeOK /\ \A p \in Procs : HasExe(p)
    BY DEF ResolverInv, ProcInv
<1>2. \A p \in Procs : p \in running => exe[p] \in Paths /\ exe[p] # NoPath
    BY <1>1, ProcTypes
<1>3. ASSUME NEW p \in Procs, NEW q \in Procs \cup {NoProc}, NEW x \in Exes,
             Start(p, q, x)
      PROVE  Config!Next
  <2>1. x \in Paths /\ DecisionOf(Unset) = Unset
      BY ResolverAssumption, UnsetFacts DEF DecisionOf
  <2>2. Decisions' = [Decisions EXCEPT ![p][x] = DecisionOf(Unset)]
      BY <1>1, <1>3, <2>1, OneDecision DEF Start
  <2>3. Config!Start(p, x)
      BY <1>3, <2>1, <2>2 DEF Start, Config!Start
  <2>. QED BY <2>1, <2>3 DEF Config!Next
<1>4. ASSUME NEW p \in Procs, NEW m \in Paths, LoadModule(p, m) PROVE Config!Next
  <2>1. DecisionOf(Unset) = Unset
      BY UnsetFacts DEF DecisionOf
  <2>2. Decisions' = [Decisions EXCEPT ![p][m] = DecisionOf(Unset)]
      BY <1>1, <1>4, OneDecision DEF LoadModule
  <2>3. Decisions[p][m] = NotLoaded
      BY <1>4, DecisionAt DEF LoadModule, Loaded
  <2>4. m # exe[p]
      BY <1>1, <1>4 DEF LoadModule, HasExe
  <2>5. Config!Load(p, m)
      BY <1>2, <1>4, <2>1, <2>2, <2>3, <2>4 DEF LoadModule, Config!Load
  <2>. QED BY <2>5 DEF Config!Next
<1>5. ASSUME NEW p \in Procs, NEW m \in Paths, UnloadModule(p, m) PROVE Config!Next
  <2>1. Decisions' = [Decisions EXCEPT ![p][m] = NotLoaded]
      BY <1>1, <1>5, OneDecision DEF UnloadModule, DecisionOf
  <2>2. Config!Unload(p, m)
      BY <1>2, <1>5, <2>1 DEF UnloadModule, Config!Unload
  <2>. QED BY <2>2 DEF Config!Next
<1>6. ASSUME NEW p \in Procs, End(p) PROVE Config!Next
  <2>1. Decisions' = [Decisions EXCEPT ![p] = [m \in Paths |-> NotLoaded]]
    <3>1. as' = [as EXCEPT ![p] = [m \in Paths |-> NotLoaded]]
        BY <1>6 DEF End
    <3>2. \A q \in Procs \ {p} : Decisions'[q] = Decisions[q]
        BY <1>1, <3>1, DecisionsStay DEF ResolverTypeOK
    <3>3. Decisions'[p] = [m \in Paths |-> NotLoaded]
      <4>1. as'[p] = [m \in Paths |-> NotLoaded]
          BY <1>1, <3>1 DEF ResolverTypeOK
      <4>. QED BY <4>1 DEF Decisions, Loaded
    <3>. QED BY <3>2, <3>3 DEF Decisions
  <2>2. Config!End(p)
      BY <1>2, <1>6, <2>1 DEF End, Config!End
  <2>. QED BY <2>2 DEF Config!Next
<1>7. ASSUME NEW p \in Procs, DecideExe(p) \/ DecideModule(p) PROVE Config!Next
    BY <1>7, DecideExeRefines, DecideModuleRefines DEF Config!Next
<1>8. ASSUME NEW p \in Procs, NEW m \in Paths, BeginWithModule(p, m)
      PROVE  Config!Next \/ UNCHANGED <<exe, Decisions>>
    BY <1>8, BeginWithModuleRefines DEF Config!Next
<1>9. ASSUME NEW p \in Procs, FindModule(p) \/ \E m \in Paths : BeginWithExe(p, m)
      PROVE  UNCHANGED <<exe, as>>
    BY <1>9 DEF FindModule, BeginWithExe
<1>10. ASSUME NEW c \in Clients, DbStep(c) PROVE UNCHANGED <<exe, as>>
    BY <1>10 DEF DbStep
<1>11. CASE UNCHANGED vars
    BY <1>11 DEF vars, resolverVars, Decisions, Loaded
<1>12. UNCHANGED <<exe, as>> => UNCHANGED <<exe, Decisions>>
    BY DEF Decisions, Loaded
<1>. QED BY <1>3, <1>4, <1>5, <1>6, <1>7, <1>8, <1>9, <1>10, <1>11, <1>12, Zenon
         DEF ResolverNext, ProcStep

(* The resolver implements ModuleConfig: in every process modules are       *)
(* decided once, after their executable, and alike where it overrides.      *)
THEOREM ResolverRefinesConfig == ResolverSpec => ImplementsModuleConfig
<1>1. ResolverInit => Config!Init
    BY InitRefines
<1>2. ResolverInv /\ ResolverInv' /\ [ResolverNext]_vars => [Config!Next]_(Config!vars)
    BY NextRefines
<1>. QED BY <1>1, <1>2, InvariantHolds, PTL
         DEF ResolverSpec, ImplementsModuleConfig, Config!Spec

=============================================================================
