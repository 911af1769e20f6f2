--------------------------- MODULE MCLineageGraph ---------------------------
(* LineageGraph with two queens, for TLC: one of a known birth place, one  *)
(* with a tag twice.                                                       *)
EXTENDS LineageGraph

MCBirthPlace == [q \in Queens |-> IF q = 1 THEN "dallas" ELSE ""]

MCTags == [q \in Queens |-> IF q = 1 THEN <<"camp", "camp">> ELSE <<"camp", "comedy">>]
=============================================================================
