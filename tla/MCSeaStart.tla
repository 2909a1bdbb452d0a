----------------------------- MODULE MCSeaStart -----------------------------
(* Configurations with a token, with any primary provider, and with a      *)
(* fallback that has both a key and a URL of its own or neither; an entry  *)
(* that has both has a model of its own.                                   *)
EXTENDS SeaStart

Anything == {entry \in ConfigEntries : entry.model = (entry.key /\ entry.url)}

Whole == {entry \in Anything : entry.key = entry.url}

MCConfigFiles ==
  [token : {TRUE}, primary : {NoEntry}, fallbacks : {<<>>}]
    \union [token : {FALSE}, primary : Anything, fallbacks : {<<>>}]
    \union [token : {FALSE}, primary : {NoEntry}, fallbacks : {<<entry>> : entry \in Whole}]
=============================================================================
