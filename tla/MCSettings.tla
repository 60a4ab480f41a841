----------------------------- MODULE MCSettings -----------------------------
(* A small installation: an application set only by its own values, an      *)
(* application whose shipped value is spelled with an environment variable, *)
(* an API library, KernelEx.dll itself and one shipped wildcard.            *)
EXTENDS Settings

CONSTANTS app, msi, lib, own, anyexe, envmsi, xp, nt

MCPaths    == {app, msi, lib, own}
MCPatterns == {anyexe}
MCEnvNames == {envmsi}
MCExpand   == [n \in MCPaths \cup MCPatterns \cup MCEnvNames |->
                 IF n = envmsi THEN msi ELSE n]
MCMatches  == [w \in MCPatterns |-> {app}]
MCFirstPattern == [S \in SUBSET MCPatterns |-> anyexe]

\* The shipped value is older than the user's, or the reverse.  Only msi has
\* two spellings.
MCEnumOrders ==
  { [S \in SUBSET DOMAIN MCExpand |->
       IF S = {msi, envmsi} THEN n ELSE CHOOSE m \in DOMAIN MCExpand : S # {} => m \in S]
      : n \in {msi, envmsi} }

MCConfs == {xp, nt}
MCUpdateEntries == { [conf |-> xp, flags |-> {"NO_INHERIT"}],
                     [conf |-> NoConf, flags |-> {"KEX_DISABLE"}],
                     NoEntry }
MCInitConfs == [n \in DOMAIN MCExpand |->
                  IF n = envmsi THEN nt
                  ELSE IF n = anyexe THEN UnknownConf ELSE NoConf]
MCInitFlags == [k \in MCPaths \cup MCPatterns |->
                  IF k = anyexe THEN {"KEX_DISABLE"} ELSE NoFlags]

=============================================================================
