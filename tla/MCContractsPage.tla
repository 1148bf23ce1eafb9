--------------------------- MODULE MCContractsPage ---------------------------
(* ContractsPage for TLC: one contract of two users.                        *)
EXTENDS ContractsPage

CONSTANTS ann, bob

MCUsers == {ann, bob}
MCPartiesOf == [c \in {1} |-> {ann, bob}]
MCTitleOf == [c \in {1} |-> "title"]
MCPartyLists == {{bob}, {ann, bob}}
==============================================================================
