----------------------------- MODULE MCContracts -----------------------------
(* Contracts for TLC: a contract of two users, and one of the first alone,  *)
(* with the same title.  The first request adds the contract of both, and   *)
(* contracts are added with one text.                                       *)
EXTENDS Contracts

CONSTANTS ann, bob

MCUsers == {ann, bob}
MCPartiesOf == [c \in 1..2 |-> IF c = 1 THEN {ann, bob} ELSE {ann}]
MCTitleOf == [c \in 1..2 |-> "title"]
MCPartyLists == {{bob}}

MCAdd ==
    /\ requests = 0 => added' = {1}
    /\ \A e \in DOMAIN stored' \ DOMAIN stored : stored'[e].clauses = "text1"

MCSpec == ServerInit /\ [][ServerNext /\ MCAdd]_serverVars /\ ServerFairness
==============================================================================
