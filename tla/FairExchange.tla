---------------------------- MODULE FairExchange ----------------------------
(***************************************************************************)
(* What the Sigma protocol promises the signers of one contract            *)
(* (SecureContractSigningProtocol.md, "Fairness"): the exchange is decided *)
(* once, and whatever a signer learns is that decision, so that nobody     *)
(* holds a signed contract while another has seen it cancelled.            *)
(***************************************************************************)
CONSTANT Parties

VARIABLES
  verdict,  \* the decision, "open" until it is made
  outcome   \* what each signer has learnt of it

vars == <<verdict, outcome>>

Init ==
  /\ verdict = "open"
  /\ outcome = [p \in Parties |-> "pending"]

\* The exchange is decided; some signers may learn it at that very moment.
Decide(v) ==
  /\ verdict = "open"
  /\ verdict' = v
  /\ \E learners \in SUBSET Parties :
       outcome' = [p \in Parties |-> IF p \in learners THEN v ELSE outcome[p]]

\* A signer learns the decision, which no signer ever unlearns.
Learn(p) ==
  /\ verdict # "open"
  /\ outcome' = [outcome EXCEPT ![p] = verdict]
  /\ UNCHANGED verdict

Next ==
  \/ \E v \in {"signed", "cancelled"} : Decide(v)
  \/ \E p \in Parties : Learn(p)

Spec == Init /\ [][Next]_vars
=============================================================================
