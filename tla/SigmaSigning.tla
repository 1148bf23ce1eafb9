---------------------------- MODULE SigmaSigning ----------------------------
(***************************************************************************)
(* The signing of one contract by the Sigma protocol, from the moment the  *)
(* signers agree on Trent: SigmaEstablisher, the steps ProtocolSign and    *)
(* ProtocolResolve, SigmaContract's signatures, and Trent (TrentSolver).   *)
(*                                                                         *)
(* A signer broadcasts its promise of round 1, and that of round k + 1     *)
(* once it holds everybody's promise of round k; at round N + 2 it sends   *)
(* its clear signature.  A signer whose owner refuses, or whose timer      *)
(* expires, asks Trent instead of sending, and listens to Trent only.      *)
(*                                                                         *)
(* Messages are advertisements: published for good, found in any order,    *)
(* any number of times, or never.  A message of ProtocolSign is known by   *)
(* its author and its round.  A handler is one step: its nested local      *)
(* notifications are other steps, before or after it.                      *)
(***************************************************************************)
EXTENDS TrentSolver

CONSTANTS
  Refusers,     \* signers whose owner may change its wish
  TimerParties  \* signers with the timer that SigmaEstablisher.sign announces

ASSUME RefusersAssumption == Refusers \subseteq Parties
ASSUME TimerAssumption == TimerParties \subseteq Parties

VARIABLES
  status,      \* Status of each signer's contract
  wish,        \* Wish of each signer's contract
  round,       \* the round of ProtocolSign, 0 before that step
  received,    \* roundReceived: whose promises of round k, besides its own
  signatures,  \* signatures of its contract: at which round each was made
  listening,   \* the listener of ProtocolSign is registered
  deaf,        \* the signer of ProtocolResolve is left on a party's key
  sent         \* the rounds of the messages published by ProtocolSign

signerVars == <<status, wish, round, received, signatures, listening, deaf, sent>>
vars == <<trentVars, signerVars>>

LastRound == N + 2
PromiseRounds == 1..(N + 1)
NoSignature == 0
Clear == LastRound      \* other signatures are promises opened by Trent

Others(p) == Parties \ {p}

TypeOK ==
  /\ TrentTypeOK
  /\ status \in [Parties -> {"NOWHERE", "SIGNING", "RESOLVING", "CANCELLED", "FINALIZED"}]
  /\ wish \in [Parties -> {"ACCEPT", "REFUSE"}]
  /\ round \in [Parties -> 0..LastRound]
  /\ received \in [Parties -> [PromiseRounds -> SUBSET Parties]]
  /\ signatures \in [Parties -> [Parties -> 0..LastRound]]
  /\ listening \in [Parties -> BOOLEAN]
  /\ deaf \in [Parties -> BOOLEAN]
  /\ sent \in [Parties -> SUBSET (1..LastRound)]

\* SigmaContract.isFinalized goes through the parties in the order of their
\* keys: a missing signature ends it with false, a clear one with true.
IsFinalized(sigs) ==
  \A q \in Parties : sigs[q] = NoSignature => \E e \in 1..(q - 1) : sigs[e] = Clear

\* Bugs: the round before the last is not waited for; the last round is never
\* reached.
FirstGap_Hasty(k, p, rows, r) ==
  /\ k \in r..LastRound
  /\ k <= N => rows[k] # Others(p)
  /\ \A j \in r..(k - 1) : j <= N => rows[j] = Others(p)
FirstGap_Short(k, p, rows, r) ==
  /\ k \in r..(N + 1)
  /\ k <= N => rows[k] # Others(p)
  /\ \A j \in r..(k - 1) : rows[j] = Others(p)
\* k is the first round from r on whose promises are not all there, given the
\* rows received from the others; the round of signatures ends the search.
FirstGap(k, p, rows, r) ==
  /\ k \in r..LastRound
  /\ k < LastRound => rows[k] # Others(p)
  /\ \A j \in r..(k - 1) : rows[j] = Others(p)

----------------------------------------------------------------------------
\* ProtocolResolve.sendMessage, at round r of the signing step: stop listening
\* to the other signers, and show Trent a claim.
AskTrentFor(p, r, claimed) ==
  /\ status' = [status EXCEPT ![p] = "RESOLVING"]
  /\ listening' = [listening EXCEPT ![p] = FALSE]
  /\ deaf' = [deaf EXCEPT ![p] = FALSE]
  /\ requests' = requests \cup {[by |-> p, round |-> claimed]}
  /\ round' = [round EXCEPT ![p] = r]
  /\ UNCHANGED <<signatures, sent>>

\* Bugs: the claim is of the round r - 2, or r; it is always an ABORT.
AskTrent_TwoBefore(p, r) == AskTrentFor(p, r, r - 2)
AskTrent_SameRound(p, r) == AskTrentFor(p, r, r)
AskTrent_NoClaim(p, r) == AskTrentFor(p, r, 0)

\* The claim is that of the round before: ABORT, which is round 0, at round 1.
AskTrent(p, r) == AskTrentFor(p, r, r - 1)

\* Bug: the own clear signature is published, and not kept.
Send_NotKept(p, from, to, st) ==
  /\ sent' = [sent EXCEPT ![p] = @ \cup from..to]
  /\ round' = [round EXCEPT ![p] = to]
  /\ status' = [status EXCEPT ![p] =
                  IF to = LastRound /\ IsFinalized(signatures[p]) THEN "FINALIZED" ELSE st]
  /\ UNCHANGED <<requests, signatures>>

\* ProtocolSign.sendMessage for the rounds from..to, one after the other, by a
\* signer in state st.  With the last one its own clear signature is added.
Send(p, from, to, st) ==
  LET sigs == IF to = LastRound THEN [signatures[p] EXCEPT ![p] = Clear]
                                ELSE signatures[p]
  IN /\ sent' = [sent EXCEPT ![p] = @ \cup from..to]
     /\ round' = [round EXCEPT ![p] = to]
     /\ signatures' = [signatures EXCEPT ![p] = sigs]
     /\ status' = [status EXCEPT ![p] =
                     IF to = LastRound /\ IsFinalized(sigs) THEN "FINALIZED" ELSE st]
     /\ UNCHANGED requests

\* setListenerOnTrent: listen to Trent, whose earlier answers are found at
\* once or later, then start the signing step with the message of round 1.  A
\* signer alone in its contract holds every claim as soon as it has sent.
Start(p) ==
  /\ round[p] = 0
  /\ \/ wish[p] = "REFUSE" /\ AskTrent(p, 1)
     \/ /\ wish[p] = "ACCEPT"
        /\ \/ \E gap \in 1..LastRound :
                FirstGap(gap, p, received[p], 1) /\ Send(p, 1, gap, "SIGNING")
           \/ HasAborted /\ Send(p, 1, 1, "CANCELLED")
        /\ listening' = [listening EXCEPT ![p] = TRUE]
        /\ UNCHANGED deaf
  /\ UNCHANGED <<wish, received, solverVars>>

\* Bug: the listener sends one round, not all that are due.
GoOn_Once(p, gap) ==
  \/ /\ status[p] = "SIGNING" /\ gap > round[p] /\ wish[p] = "REFUSE"
     /\ AskTrent(p, round[p] + 1)
  \/ /\ status[p] = "SIGNING" /\ gap > round[p] /\ wish[p] = "ACCEPT"
     /\ Send(p, round[p] + 1, round[p] + 1, "SIGNING")
     /\ UNCHANGED <<listening, deaf>>
  \/ /\ status[p] # "SIGNING" \/ gap = round[p]
     /\ UNCHANGED <<status, listening, deaf, requests, round, signatures, sent>>

\* The loop of ProtocolSign's listener, when gap is the first round with a
\* promise missing: send all rounds up to it, unless the owner refuses.
GoOn(p, gap) ==
  \/ /\ status[p] = "SIGNING" /\ gap > round[p] /\ wish[p] = "REFUSE"
     /\ AskTrent(p, round[p] + 1)
  \/ /\ status[p] = "SIGNING" /\ gap > round[p] /\ wish[p] = "ACCEPT"
     /\ Send(p, round[p] + 1, gap, "SIGNING")
     /\ UNCHANGED <<listening, deaf>>
  \/ /\ status[p] # "SIGNING" \/ gap = round[p]
     /\ UNCHANGED <<status, listening, deaf, requests, round, signatures, sent>>

\* The listener of ProtocolSign is notified of a promise: it stores it and, as
\* long as the claim of its round is complete, goes on to the next round.
NotifyPromise(p, q, k) ==
  /\ listening[p] /\ q # p /\ k \in sent[q] /\ k # LastRound
  /\ LET rows == [received[p] EXCEPT ![k] = @ \cup {q}]
     IN /\ received' = [received EXCEPT ![p] = rows]
        /\ \E gap \in 0..LastRound :
             /\ FirstGap(gap, p, rows, round[p])
             /\ GoOn(p, gap)
  /\ UNCHANGED <<wish, solverVars>>

\* Or of a clear signature, which completes no claim.
NotifySignature(p, q) ==
  /\ listening[p] /\ q # p /\ LastRound \in sent[q]
  /\ LET sigs == [signatures[p] EXCEPT ![q] = Clear]
     IN /\ signatures' = [signatures EXCEPT ![p] = sigs]
        /\ IF IsFinalized(sigs)
           THEN /\ status' = [status EXCEPT ![p] = "FINALIZED"]
                /\ listening' = [listening EXCEPT ![p] = FALSE]
           ELSE UNCHANGED <<status, listening>>
  /\ UNCHANGED <<requests, solverVars, wish, round, received, deaf, sent>>

\* Bug: whatever Trent answers is taken for a cancellation.
NotifyCancelled_Any(p) ==
  /\ round[p] > 0 /\ ~deaf[p] /\ answers # {}
  /\ status' = [status EXCEPT ![p] = "CANCELLED"]
  /\ listening' = [listening EXCEPT ![p] = FALSE]
  /\ UNCHANGED <<requests, solverVars, wish, round, received, signatures, deaf, sent>>

\* The listener of ProtocolResolve is notified that Trent cancels.  (A
\* "dishonest" answer changes nothing.)
NotifyCancelled(p) ==
  /\ round[p] > 0 /\ ~deaf[p] /\ HasAborted
  /\ status' = [status EXCEPT ![p] = "CANCELLED"]
  /\ listening' = [listening EXCEPT ![p] = FALSE]
  /\ UNCHANGED <<requests, solverVars, wish, round, received, signatures, deaf, sent>>

\* Or that Trent has opened the promises of round k.  Verifying them leaves
\* the signer on the last party's key: no later answer of Trent verifies.
NotifyResolved(p, k) ==
  /\ round[p] > 0 /\ ~deaf[p] /\ Resolved(k) \in answers
  /\ LET sigs == IF k \in {round[p], round[p] - 1, round[p] - 2}
                 THEN [q \in Parties |-> k] ELSE signatures[p]
     IN /\ signatures' = [signatures EXCEPT ![p] = sigs]
        /\ IF IsFinalized(sigs)
           THEN /\ status' = [status EXCEPT ![p] = "FINALIZED"]
                /\ listening' = [listening EXCEPT ![p] = FALSE]
           ELSE UNCHANGED <<status, listening>>
  /\ deaf' = [deaf EXCEPT ![p] = TRUE]
  /\ UNCHANGED <<requests, solverVars, wish, round, received, sent>>

\* The owner changes its mind; ProtocolSign.sendMessage alone looks at it.
SetWish(p) ==
  /\ p \in Refusers
  /\ wish' = [wish EXCEPT ![p] = IF @ = "ACCEPT" THEN "REFUSE" ELSE "ACCEPT"]
  /\ UNCHANGED <<requests, solverVars, status, round, received, signatures,
                 listening, deaf, sent>>

\* SigmaEstablisher.resolve, called when a signer has waited long enough.
Resolve(p) ==
  /\ p \in TimerParties /\ status[p] = "SIGNING"
  /\ AskTrent(p, round[p])
  /\ UNCHANGED <<wish, received, solverVars>>

TrentStep == TrentReceives /\ UNCHANGED signerVars

----------------------------------------------------------------------------
Init ==
  /\ TrentInit
  /\ status = [p \in Parties |-> "NOWHERE"]
  /\ wish = [p \in Parties |-> "ACCEPT"]
  /\ round = [p \in Parties |-> 0]
  /\ received = [p \in Parties |-> [k \in PromiseRounds |-> {}]]
  /\ signatures = [p \in Parties |-> [q \in Parties |-> NoSignature]]
  /\ listening = [p \in Parties |-> FALSE]
  /\ deaf = [p \in Parties |-> FALSE]
  /\ sent = [p \in Parties |-> {}]

Next ==
  \/ TrentStep
  \/ \E p \in Parties :
       \/ Start(p)
       \/ \E q \in Parties, k \in PromiseRounds : NotifyPromise(p, q, k)
       \/ \E q \in Parties : NotifySignature(p, q)
       \/ NotifyCancelled(p)
       \/ \E k \in ClaimRounds : NotifyResolved(p, k)
       \/ SetWish(p)
       \/ Resolve(p)

Spec == Init /\ [][Next]_vars

\* Every signer gets to the signing step, and an advertisement stays published
\* until every listener has found it.  Nothing obliges an owner to change its
\* wish, nor a timer to expire.
Fairness ==
  /\ \A p \in Parties :
       /\ WF_vars(Start(p))
       /\ \A q \in Parties, k \in PromiseRounds : WF_vars(NotifyPromise(p, q, k))
       /\ \A q \in Parties : WF_vars(NotifySignature(p, q))
       /\ WF_vars(NotifyCancelled(p))
       /\ \A k \in ClaimRounds : WF_vars(NotifyResolved(p, k))
  /\ \A req \in Request :
       WF_vars(req \in requests /\ ResolveT(req) /\ UNCHANGED <<requests, signerVars>>)

FairSpec == Spec /\ Fairness

----------------------------------------------------------------------------
(* Properties.                                                             *)

\* Nobody holds the contract as signed while another has it as cancelled,
\* whoever refuses or runs out of patience, and whenever.
Agreement ==
  \A p, q \in Parties : ~(status[p] = "FINALIZED" /\ status[q] = "CANCELLED")

\* A signer that is given the signed contract keeps it: no late answer of
\* Trent, still listened to, takes it back.
FinalizedForever ==
  [][\A p \in Parties : status[p] = "FINALIZED" => status'[p] = "FINALIZED"]_vars

\* Nobody commits more than one round ahead of what everybody has committed
\* to: the promise of a round is sent only against all those before it.
LockStep ==
  \A p, q \in Parties : \A k \in sent[p] : 1..(k - 1) \subseteq sent[q]

\* A claim that is complete is never left waiting: the notification that
\* completed it, or the one before, has sent the next round.
NoClaimLeftWaiting ==
  \A p \in Parties :
    status[p] = "SIGNING" /\ round[p] < LastRound
      => received[p][round[p]] # Others(p)

\* When Trent opens a round, every signer is at that round or at most two
\* after it, so that each of them accepts the signatures it is given
\* (ProtocolResolve.java:200).
ResolvedIsAccepted ==
  \A k \in ClaimRounds : Resolved(k) \in answers =>
    \A p \in Parties : k <= round[p] /\ round[p] <= k + 2

\* A signer that has the contract as signed can prove that everybody was
\* committed: it holds all the promises of round N, or what Trent opened.
FinalizedHoldsClaim ==
  \A p \in Parties : status[p] = "FINALIZED" =>
    \/ received[p][N] = Others(p)
    \/ \A q \in Parties : signatures[p][q] \in PromiseRounds

\* What the others have published has all reached p.
HasFoundAll(p) ==
  \A q \in Others(p) : \A k \in sent[q] :
    IF k = LastRound THEN signatures[p][q] = Clear ELSE q \in received[p][k]

\* The signers never wait for each other: when all have started, nobody has
\* turned to Trent, and whoever still signs has found all that is published,
\* then nobody does, and everybody has the signed contract.
AllFoundAllSigned ==
  /\ requests = {}
  /\ \A p \in Parties : round[p] > 0 /\ (status[p] = "SIGNING" => HasFoundAll(p))
  => \A p \in Parties : status[p] = "FINALIZED"

----------------------------------------------------------------------------
(* The exchange is fair: FairExchange is implemented.                      *)

Verdict ==
  IF HasAborted THEN "cancelled"
  ELSE IF HasResolved \/ \E p \in Parties : LastRound \in sent[p] THEN "signed"
  ELSE "open"

Outcome ==
  [p \in Parties |-> CASE status[p] = "FINALIZED" -> "signed"
                       [] status[p] = "CANCELLED" -> "cancelled"
                       [] OTHER -> "pending"]

Exchange == INSTANCE FairExchange WITH verdict <- Verdict, outcome <- Outcome

\* The signers and Trent together implement the fair exchange: the first clear
\* signature, or Trent's first answer, decides for all.
FairExchangeSpec == Exchange!Spec

----------------------------------------------------------------------------
(* Progress.                                                               *)

\* If nobody ever turns to Trent, everybody gets the signed contract: the
\* promises found in any order, again or early, complete every round.
EverybodySigns == [](requests = {}) => \A p \in Parties : <>(status[p] = "FINALIZED")

\* If nobody shows Trent a claim, a refusal before the first promise cancels
\* the exchange for everybody, those that start signing later included.
RefusalCancels ==
  [](\A req \in requests : req.round = 0) =>
    \A p \in Parties : requests # {} ~> status[p] = "CANCELLED"

\* If nobody refuses before its first promise, a signer that shows Trent the
\* promises of round 1 gets the contract signed for everybody.
FirstClaimSigns ==
  [](\A req \in requests : req.round # 0) =>
    \A p \in Parties :
      (\E q \in Parties : [by |-> q, round |-> 1] \in requests) ~> status[p] = "FINALIZED"

\* A refusal, or the promises of round 1, shown to Trent settle the exchange
\* for everybody, whatever else is shown to Trent before or after.
EarlyRequestDecides ==
  \A p \in Parties :
    (\E req \in requests : req.round <= 1) ~> status[p] \in {"CANCELLED", "FINALIZED"}

----------------------------------------------------------------------------
(* What the docs say, and the code does not do.                            *)

\* EstablisherContract.java:62, isFinalized: "Check if all parties have signed
\* the contract".
FinalizedMeansAllSigned ==
  \A p \in Parties : status[p] = "FINALIZED" =>
    \A q \in Parties : signatures[p][q] # NoSignature

\* SecureContractSigningProtocol.md:21, "At every point any party can decide
\* to leave. If that happens either the entire exchange either gets aborted, or
\* can be completed without this party."
Timeliness ==
  \A p \in Parties :
    (status[p] = "RESOLVING") ~> (status[p] \in {"CANCELLED", "FINALIZED"})
=============================================================================
