------------------------ MODULE SigmaSigning_proofs ------------------------
(***************************************************************************)
(* Fairness of the Sigma protocol for any number of signers, whoever       *)
(* refuses or asks Trent, and whenever.                                    *)
(*                                                                         *)
(* The argument.  A signer at round r holds everybody's promises of all    *)
(* rounds below r (HoldsAllBelow), so one that asked Trent to cancel, and  *)
(* is for ever at round 1 (AskedAtRound), keeps everybody from round 3 on, *)
(* hence from the clear signatures.  Trent cancels only if somebody asked  *)
(* it to (ListByAbort) and then opens nothing (TrentInv).  So nobody can   *)
(* come to hold signatures, clear or opened, once Trent has cancelled.     *)
(***************************************************************************)
EXTENDS SigmaSigning, TrentSolver_proofs

\* A signer that has not reached the signing step has done nothing in it.
NotStarted ==
  \A p \in Parties : (round[p] = 0 <=> status[p] = "NOWHERE") /\ sent[p] \subseteq 1..round[p]
SigningHasSent == \A p \in Parties : status[p] = "SIGNING" => round[p] \in sent[p]
HoldsAllBelow ==
  \A p, q \in Parties : \A k \in 1..(round[p] - 1) : k \in sent[q]
ReceivedWasSent ==
  \A p \in Parties : \A k \in PromiseRounds : \A q \in received[p][k] : k \in sent[q]
AskedAtRound ==
  \A req \in requests : /\ round[req.by] = req.round + 1
                        /\ status[req.by] \notin {"NOWHERE", "SIGNING"}
SignaturesAreReal ==
  \A p, q \in Parties :
    \/ signatures[p][q] = NoSignature
    \/ signatures[p][q] = Clear /\ LastRound \in sent[q]
    \/ signatures[p][q] \in ClaimRounds /\ Resolved(signatures[p][q]) \in answers
FinalizedHasFirst == \A p \in Parties : status[p] = "FINALIZED" => signatures[p][1] # NoSignature
CancelledByTrent == \A p \in Parties : status[p] = "CANCELLED" => HasAborted
ListByAbort == possiblyHonestClaims # <<>> => \E p \in Parties : Abort(p) \in requests
OpenedWasAsked ==
  \A k \in ClaimRounds : Resolved(k) \in answers => \E req \in requests : req.round = k

\* The parts about the signers alone.
SignersInv ==
  /\ NotStarted
  /\ SigningHasSent
  /\ HoldsAllBelow
  /\ ReceivedWasSent
  /\ AskedAtRound

\* The parts that tie the signers to Trent's answers.
OutcomeInv ==
  /\ SignaturesAreReal
  /\ FinalizedHasFirst
  /\ CancelledByTrent
  /\ ListByAbort
  /\ OpenedWasAsked

SigningInv == TypeOK /\ TrentInv /\ SignersInv /\ OutcomeInv

LEMMA Constants ==
  /\ N \in Nat /\ N >= 1 /\ 1 \in Parties
  /\ LastRound \in Nat /\ LastRound >= 3 /\ Clear = LastRound
  /\ \A p \in Parties : p \in Nat
BY NAssumption DEF Parties, LastRound, Clear

LEMMA Trichotomy == \A i, j \in Int : i < j \/ i = j \/ i > j
OBVIOUS

\* A finalized set of signatures holds the first party's.
LEMMA FinalizedFirst ==
  ASSUME NEW sigs, IsFinalized(sigs)
  PROVE  sigs[1] # NoSignature
<1>1. ~ \E e \in 1..(1 - 1) : sigs[e] = Clear
  OBVIOUS
<1> QED BY <1>1, Constants DEF IsFinalized

----------------------------------------------------------------------------
(* Consequences of the invariant.                                          *)

\* Once Trent has cancelled, somebody will never send a promise of round 2.
LEMMA CancelledKeepsBack ==
  ASSUME SigningInv, HasAborted
  PROVE  \E p \in Parties : 2 \notin sent[p]
<1>1. PICK p \in Parties : Abort(p) \in requests
  BY DEF SigningInv, OutcomeInv, ListByAbort, TrentInv, CancelledByList
<1>2. round[p] = 1
  BY <1>1 DEF SigningInv, SignersInv, AskedAtRound, Abort
<1>3. sent[p] \subseteq 1..1
  BY <1>2 DEF SigningInv, SignersInv, NotStarted
<1> QED BY <1>3

\* A clear signature shows that everybody has sent a promise of round 2.
LEMMA ClearNeedsSecondRound ==
  ASSUME SigningInv, NEW q \in Parties, LastRound \in sent[q]
  PROVE  \A p \in Parties : 2 \in sent[p]
<1>1. round[q] \in Nat /\ LastRound \in 1..round[q]
  BY DEF SigningInv, SignersInv, NotStarted, TypeOK
<1>2. 2 \in 1..(round[q] - 1)
  BY <1>1, Constants
<1> QED BY <1>2 DEF SigningInv, SignersInv, HoldsAllBelow

LEMMA HoldingExcludesCancelled ==
  ASSUME SigningInv, NEW p \in Parties, NEW q \in Parties,
         signatures[p][q] # NoSignature
  PROVE  ~HasAborted
<1>1. CASE signatures[p][q] = Clear /\ LastRound \in sent[q]
  BY <1>1, ClearNeedsSecondRound, CancelledKeepsBack
<1>2. CASE signatures[p][q] \in ClaimRounds /\ Resolved(signatures[p][q]) \in answers
  BY <1>2, InvImpliesExclusive DEF SigningInv, Exclusive, HasResolved
<1> QED BY <1>1, <1>2 DEF SigningInv, OutcomeInv, SignaturesAreReal

LEMMA InvImpliesAgreement == SigningInv => Agreement
<1> SUFFICES ASSUME SigningInv, NEW p \in Parties, NEW q \in Parties,
                    status[p] = "FINALIZED", status[q] = "CANCELLED"
             PROVE  FALSE
  BY DEF Agreement
<1>1. HasAborted
  BY DEF SigningInv, OutcomeInv, CancelledByTrent
<1>2. signatures[p][1] # NoSignature
  BY DEF SigningInv, OutcomeInv, FinalizedHasFirst
<1> QED BY <1>1, <1>2, HoldingExcludesCancelled, Constants

LEMMA InvImpliesLockStep == SigningInv => LockStep
<1> SUFFICES ASSUME SigningInv, NEW p \in Parties, NEW q \in Parties,
                    NEW k \in sent[p], NEW j \in 1..(k - 1)
             PROVE  j \in sent[q]
  BY DEF LockStep
<1>1. round[p] \in Nat /\ k \in 1..round[p]
  BY DEF SigningInv, SignersInv, NotStarted, TypeOK
<1>2. j \in 1..(round[p] - 1)
  BY <1>1
<1> QED BY <1>2 DEF SigningInv, SignersInv, HoldsAllBelow

LEMMA InvImpliesAccepted == SigningInv => ResolvedIsAccepted
<1> SUFFICES ASSUME SigningInv, NEW k \in ClaimRounds, Resolved(k) \in answers,
                    NEW p \in Parties
             PROVE  k <= round[p] /\ round[p] <= k + 2
  BY DEF ResolvedIsAccepted
<1>1. k = 1
  BY DEF SigningInv, TrentInv, OpenedByClaim
<1>2. PICK req \in requests : req.round = 1
  BY <1>1 DEF SigningInv, OutcomeInv, OpenedWasAsked
<1>3. req.by \in Parties /\ round[req.by] = 2
  BY <1>2 DEF SigningInv, SignersInv, AskedAtRound, TypeOK, TrentTypeOK, Request
<1>4. 1 \in sent[p] /\ sent[p] \subseteq 1..round[p] /\ round[p] \in Nat
  BY <1>3 DEF SigningInv, SignersInv, HoldsAllBelow, NotStarted, TypeOK
<1>5. 3 \notin sent[req.by]
  BY <1>3 DEF SigningInv, SignersInv, NotStarted
<1>6. round[p] <= 3
  BY <1>3, <1>4, <1>5 DEF SigningInv, SignersInv, HoldsAllBelow
<1> QED BY <1>1, <1>4, <1>6

----------------------------------------------------------------------------
(* The invariant holds at first and every action preserves it.             *)

LEMMA InitInv == Init => SigningInv
<1> SUFFICES ASSUME Init PROVE SigningInv
  OBVIOUS
<1>1. TrentInv
  BY TrentInitInv DEF Init
<1>2. TypeOK
  BY <1>1, Constants DEF Init, TypeOK, TrentInv, NoSignature
<1>3. SignersInv
  BY Constants DEF Init, TrentInit, SignersInv, NotStarted, SigningHasSent, HoldsAllBelow,
     ReceivedWasSent, AskedAtRound
<1>4. OutcomeInv
  BY DEF Init, TrentInit, SolverInit, OutcomeInv, SignaturesAreReal, FinalizedHasFirst,
     CancelledByTrent, ListByAbort, OpenedWasAsked
<1> QED BY <1>1, <1>2, <1>3, <1>4 DEF SigningInv

\* A signer asks Trent at round r, holding everything below r.
LEMMA AskTrentInv ==
  ASSUME SigningInv, NEW p \in Parties, NEW r \in 1..LastRound, AskTrent(p, r),
         UNCHANGED solverVars, wish' = wish,
         status[p] \in {"NOWHERE", "SIGNING"}, round[p] <= r,
         \A q \in Parties : \A k \in 1..(r - 1) : k \in sent[q],
         received' \in [Parties -> [PromiseRounds -> SUBSET Parties]],
         \A x \in Parties : \A k \in PromiseRounds : \A q \in received'[x][k] : k \in sent[q]
  PROVE  SigningInv'
<1> USE DEF SigningInv, AskTrent, AskTrentFor
<1>1. [by |-> p, round |-> r - 1] \in Request
  BY Constants DEF Request, ClaimRounds, LastRound
<1>2. requests' \subseteq Request /\ requests \subseteq requests'
  BY <1>1 DEF TypeOK, TrentTypeOK
<1>3. TrentInv'
  BY <1>2, MoreRequestsInv
<1>4. TypeOK'
  <2>1. r \in 0..LastRound
    BY Constants
  <2>2. /\ status' \in [Parties -> {"NOWHERE", "SIGNING", "RESOLVING", "CANCELLED", "FINALIZED"}]
        /\ round' \in [Parties -> 0..LastRound]
        /\ listening' \in [Parties -> BOOLEAN] /\ deaf' \in [Parties -> BOOLEAN]
    BY <2>1 DEF TypeOK
  <2> QED BY <1>3, <2>2 DEF TypeOK, TrentInv
<1>5. \A req \in requests : req.by # p
  BY DEF SignersInv, AskedAtRound
<1>6. NotStarted'
  BY Constants DEF TypeOK, SignersInv, NotStarted
<1>7. SigningHasSent' /\ HoldsAllBelow' /\ ReceivedWasSent'
  BY Constants DEF TypeOK, SignersInv, SigningHasSent, HoldsAllBelow, ReceivedWasSent
<1>8. AskedAtRound'
  <2> SUFFICES ASSUME NEW req \in requests'
               PROVE  round'[req.by] = req.round + 1 /\ status'[req.by] \notin {"NOWHERE", "SIGNING"}
    BY DEF AskedAtRound
  <2>1. CASE req = [by |-> p, round |-> r - 1]
    BY <2>1, Constants DEF TypeOK
  <2>2. CASE req \in requests
    BY <2>2, <1>5 DEF TypeOK, SignersInv, AskedAtRound
  <2> QED BY <2>1, <2>2
<1>9. OutcomeInv'
  <2>1. UNCHANGED <<signatures, sent, answers, possiblyHonestClaims>>
    BY DEF solverVars
  <2>2. SignaturesAreReal'
    BY <2>1 DEF OutcomeInv, SignaturesAreReal
  <2>3. FinalizedHasFirst'
    BY <2>1 DEF TypeOK, OutcomeInv, FinalizedHasFirst
  <2>4. CancelledByTrent'
    BY <2>1 DEF TypeOK, OutcomeInv, CancelledByTrent, HasAborted
  <2>5. ListByAbort' /\ OpenedWasAsked'
    BY <2>1 DEF OutcomeInv, ListByAbort, OpenedWasAsked
  <2> QED BY <2>2, <2>3, <2>4, <2>5 DEF OutcomeInv
<1> QED BY <1>3, <1>4, <1>6, <1>7, <1>8, <1>9 DEF SignersInv

\* A signer sends from one round up to another, holding everything the others
\* sent below the last.
LEMMA SendInv ==
  ASSUME SigningInv, NEW p \in Parties, NEW from \in 1..LastRound,
         NEW to \in from..LastRound, NEW st \in {"SIGNING", "CANCELLED"},
         Send(p, from, to, st), UNCHANGED solverVars, wish' = wish,
         listening' \in [Parties -> BOOLEAN], deaf' = deaf,
         st = "CANCELLED" => HasAborted,
         status[p] \in {"NOWHERE", "SIGNING"}, from = round[p] + 1,
         \A q \in Others(p) : \A k \in 1..(to - 1) : k \in sent[q],
         received' \in [Parties -> [PromiseRounds -> SUBSET Parties]],
         \A x \in Parties : \A k \in PromiseRounds : \A q \in received'[x][k] : k \in sent[q]
  PROVE  SigningInv'
<1> USE DEF SigningInv
<1> DEFINE sigs == IF to = LastRound THEN [signatures[p] EXCEPT ![p] = Clear]
                                     ELSE signatures[p]
           new == IF to = LastRound /\ IsFinalized(sigs) THEN "FINALIZED" ELSE st
<1>1. /\ sent' = [sent EXCEPT ![p] = @ \cup from..to]
      /\ round' = [round EXCEPT ![p] = to]
      /\ signatures' = [signatures EXCEPT ![p] = sigs]
      /\ status' = [status EXCEPT ![p] = new]
      /\ UNCHANGED requests
  BY DEF Send
<1>2. /\ new \in {"SIGNING", "CANCELLED", "FINALIZED"}
      /\ new = "FINALIZED" => IsFinalized(sigs)
      /\ new = "CANCELLED" => HasAborted
  OBVIOUS
<1>3. /\ sigs \in [Parties -> 0..LastRound]
      /\ \A q \in Others(p) : sigs[q] = signatures[p][q]
      /\ (sigs[p] = Clear /\ to = LastRound) \/ sigs[p] = signatures[p][p]
  BY Constants DEF TypeOK, Others
<1> HIDE DEF sigs, new
<1>4. /\ from..to \subseteq 1..LastRound /\ to \in from..to /\ to \in 0..LastRound
      /\ to \in Nat /\ to >= 1 /\ from - 1 = round[p]
  <2>1. LastRound \in Int /\ from \in Int /\ to \in Int /\ round[p] \in Int
    BY Constants DEF TypeOK
  <2> QED BY <2>1
<1>5. TrentInv'
  BY <1>1, MoreRequestsInv DEF TypeOK, TrentTypeOK
<1>6. TypeOK'
  <2>1. status' \in [Parties -> {"NOWHERE", "SIGNING", "RESOLVING", "CANCELLED", "FINALIZED"}]
    BY <1>1, <1>2 DEF TypeOK
  <2>2. /\ round' \in [Parties -> 0..LastRound]
        /\ signatures' \in [Parties -> [Parties -> 0..LastRound]]
    BY <1>1, <1>3, <1>4 DEF TypeOK
  <2>3. sent' \in [Parties -> SUBSET (1..LastRound)]
    BY <1>1, <1>4 DEF TypeOK
  <2> QED BY <2>1, <2>2, <2>3, <1>5 DEF TypeOK, TrentInv
<1>7. /\ \A q \in Parties : sent[q] \subseteq sent'[q]
      /\ sent'[p] = sent[p] \cup from..to
      /\ round'[p] = to /\ status'[p] = new
      /\ \A q \in Others(p) : /\ sent'[q] = sent[q] /\ round'[q] = round[q]
                              /\ status'[q] = status[q]
  BY <1>1 DEF TypeOK, Others
<1>8. NotStarted'
  <2> SUFFICES ASSUME NEW x \in Parties
               PROVE  (round'[x] = 0 <=> status'[x] = "NOWHERE") /\ sent'[x] \subseteq 1..round'[x]
    BY DEF NotStarted
  <2>1. CASE x = p
    <3>1. sent[p] \subseteq 1..to
      BY <1>4 DEF SignersInv, NotStarted, TypeOK
    <3> QED BY <2>1, <3>1, <1>2, <1>4, <1>7
  <2>2. CASE x \in Others(p)
    BY <2>2, <1>7 DEF SignersInv, NotStarted
  <2> QED BY <2>1, <2>2 DEF Others
<1>9. SigningHasSent'
  BY <1>4, <1>7 DEF SignersInv, SigningHasSent, Others
<1>10. HoldsAllBelow'
  <2> SUFFICES ASSUME NEW x \in Parties, NEW q \in Parties, NEW k \in 1..(round'[x] - 1)
               PROVE  k \in sent'[q]
    BY DEF HoldsAllBelow
  <2>1. CASE x \in Others(p)
    BY <2>1, <1>7 DEF SignersInv, HoldsAllBelow
  <2>2. CASE x = p /\ q \in Others(p)
    BY <2>2, <1>7
  <2>3. CASE x = p /\ q = p
    <3>1. k \in 1..(to - 1)
      BY <2>3, <1>7
    <3>2. CASE k < round[p]
      BY <3>1, <3>2, <2>3, <1>7 DEF SignersInv, HoldsAllBelow, TypeOK
    <3>3. CASE k = round[p]
      <4>1. status[p] = "SIGNING"
        BY <3>1, <3>3 DEF SignersInv, NotStarted
      <4> QED BY <4>1, <3>3, <2>3, <1>7 DEF SignersInv, SigningHasSent
    <3>4. CASE k > round[p]
      BY <3>1, <3>4, <2>3, <1>4, <1>7 DEF TypeOK
    <3>5. k < round[p] \/ k = round[p] \/ k > round[p]
      <4>1. k \in Int /\ round[p] \in Int
        BY <3>1, <1>4 DEF TypeOK
      <4> QED BY <4>1, Trichotomy, Zenon
    <3> QED BY <3>2, <3>3, <3>4, <3>5
  <2> QED BY <2>1, <2>2, <2>3 DEF Others
<1>11. ReceivedWasSent'
  BY <1>6, <1>7 DEF ReceivedWasSent, TypeOK
<1>12. AskedAtRound'
  BY <1>1, <1>7 DEF SignersInv, AskedAtRound, TypeOK, TrentTypeOK, Request, Others
<1>13. UNCHANGED <<answers, possiblyHonestClaims>>
  BY DEF solverVars
<1>14. SignaturesAreReal'
  <2> SUFFICES ASSUME NEW x \in Parties, NEW q \in Parties
               PROVE  \/ signatures'[x][q] = NoSignature
                      \/ signatures'[x][q] = Clear /\ LastRound \in sent'[q]
                      \/ /\ signatures'[x][q] \in ClaimRounds
                         /\ Resolved(signatures'[x][q]) \in answers'
    BY DEF SignaturesAreReal
  <2>1. \/ signatures'[x][q] = signatures[x][q]
        \/ signatures'[x][q] = Clear /\ q = p /\ to = LastRound
    BY <1>1, <1>3 DEF TypeOK, Others
  <2>2. to \in sent'[p]
    BY <1>4, <1>7
  <2> QED BY <2>1, <2>2, <1>7, <1>13 DEF OutcomeInv, SignaturesAreReal
<1>15. FinalizedHasFirst'
  <2>1. status'[p] = "FINALIZED" => signatures'[p][1] # NoSignature
    BY <1>1, <1>2, <1>7, FinalizedFirst DEF TypeOK
  <2>2. \A q \in Others(p) : signatures'[q] = signatures[q]
    BY <1>1 DEF TypeOK, Others
  <2> QED BY <2>1, <2>2, <1>7 DEF OutcomeInv, FinalizedHasFirst, Others
<1>16. CancelledByTrent'
  BY <1>2, <1>7, <1>13 DEF OutcomeInv, CancelledByTrent, HasAborted, Others
<1>17. ListByAbort' /\ OpenedWasAsked'
  BY <1>1, <1>13 DEF OutcomeInv, ListByAbort, OpenedWasAsked
<1> QED
  BY <1>5, <1>6, <1>8, <1>9, <1>10, <1>11, <1>12, <1>14, <1>15, <1>16, <1>17
     DEF SignersInv, OutcomeInv

\* A signer is given signatures, or told that Trent cancels.
LEMMA LearnInv ==
  ASSUME SigningInv, NEW p \in Parties, NEW sigs \in [Parties -> 0..LastRound],
         NEW new \in {"FINALIZED", "CANCELLED", status[p]},
         signatures' = [signatures EXCEPT ![p] = sigs],
         status' = [status EXCEPT ![p] = new],
         listening' \in [Parties -> BOOLEAN], deaf' \in [Parties -> BOOLEAN],
         UNCHANGED <<trentVars, wish, round, received, sent>>,
         round[p] > 0,
         new = "FINALIZED" /\ new # status[p] => IsFinalized(sigs),
         new = "CANCELLED" => HasAborted,
         signatures[p][1] # NoSignature => sigs[1] # NoSignature,
         \A q \in Parties :
           \/ sigs[q] = signatures[p][q]
           \/ sigs[q] = Clear /\ LastRound \in sent[q]
           \/ sigs[q] \in ClaimRounds /\ Resolved(sigs[q]) \in answers
  PROVE  SigningInv'
<1> USE DEF SigningInv
<1>1. UNCHANGED <<requests, possiblyHonestClaims, dishonestClaims, optimistic, answers, failed>>
  BY DEF trentVars, solverVars
<1>2. TrentInv'
  BY <1>1, MoreRequestsInv DEF solverVars, TypeOK, TrentTypeOK
<1>3. status[p] # "NOWHERE"
  BY DEF SignersInv, NotStarted
<1>4. TypeOK'
  <2>1. new \in {"NOWHERE", "SIGNING", "RESOLVING", "CANCELLED", "FINALIZED"}
    BY DEF TypeOK
  <2>2. /\ status' \in [Parties -> {"NOWHERE", "SIGNING", "RESOLVING", "CANCELLED", "FINALIZED"}]
        /\ signatures' \in [Parties -> [Parties -> 0..LastRound]]
    BY <2>1 DEF TypeOK
  <2> QED BY <1>2, <2>2 DEF TypeOK, TrentInv
<1>5. \A x \in Parties :
        /\ status'[x] \in {"FINALIZED", "CANCELLED", status[x]}
        /\ x # p => status'[x] = status[x] /\ signatures'[x] = signatures[x]
        /\ x = p => status'[x] = new /\ signatures'[x] = sigs
  BY DEF TypeOK
<1>6. NotStarted'
  BY <1>3, <1>5 DEF SignersInv, NotStarted
<1>7. SigningHasSent' /\ HoldsAllBelow' /\ ReceivedWasSent'
  BY <1>5 DEF SignersInv, SigningHasSent, HoldsAllBelow, ReceivedWasSent
<1>8. AskedAtRound'
  BY <1>1, <1>5 DEF SignersInv, AskedAtRound, TypeOK, TrentTypeOK, Request
<1>9. SignaturesAreReal'
  BY <1>1, <1>5 DEF OutcomeInv, SignaturesAreReal
<1>10. FinalizedHasFirst'
  <2>1. status'[p] = "FINALIZED" => sigs[1] # NoSignature
    BY <1>5, FinalizedFirst DEF OutcomeInv, FinalizedHasFirst
  <2> QED BY <2>1, <1>5 DEF OutcomeInv, FinalizedHasFirst
<1>11. CancelledByTrent'
  BY <1>1, <1>5 DEF OutcomeInv, CancelledByTrent, HasAborted
<1>12. ListByAbort' /\ OpenedWasAsked'
  BY <1>1 DEF OutcomeInv, ListByAbort, OpenedWasAsked
<1> QED
  BY <1>2, <1>4, <1>6, <1>7, <1>8, <1>9, <1>10, <1>11, <1>12 DEF SignersInv, OutcomeInv

LEMMA StartInv == ASSUME SigningInv, NEW p \in Parties, Start(p) PROVE SigningInv'
<1> USE DEF SigningInv
<1>1. /\ round[p] = 0 /\ status[p] = "NOWHERE"
      /\ UNCHANGED <<wish, received, solverVars>>
  BY DEF Start, SignersInv, NotStarted
<1>2. /\ received' \in [Parties -> [PromiseRounds -> SUBSET Parties]]
      /\ \A x \in Parties : \A k \in PromiseRounds : \A q \in received'[x][k] : k \in sent[q]
  BY <1>1 DEF TypeOK, SignersInv, ReceivedWasSent
<1>3. CASE AskTrent(p, 1)
  BY <1>1, <1>2, <1>3, AskTrentInv, Constants
<1>4. ASSUME NEW gap \in 1..LastRound, FirstGap(gap, p, received[p], 1),
             Send(p, 1, gap, "SIGNING"),
             listening' = [listening EXCEPT ![p] = TRUE], UNCHANGED deaf
      PROVE  SigningInv'
  <2>1. \A q \in Others(p) : \A k \in 1..(gap - 1) : k \in sent[q]
    <3>1. \A k \in 1..(gap - 1) : k \in PromiseRounds /\ received[p][k] = Others(p)
      BY <1>4, Constants DEF FirstGap, PromiseRounds, LastRound
    <3> QED BY <3>1 DEF SignersInv, ReceivedWasSent
  <2>2. listening' \in [Parties -> BOOLEAN]
    BY <1>4 DEF TypeOK
  <2>3. 1 \in 1..LastRound /\ gap \in 1..LastRound
    BY Constants
  <2> QED BY <1>1, <1>2, <1>4, <2>1, <2>2, <2>3, SendInv
<1>5. ASSUME HasAborted, Send(p, 1, 1, "CANCELLED"),
             listening' = [listening EXCEPT ![p] = TRUE], UNCHANGED deaf
      PROVE  SigningInv'
  <2>1. listening' \in [Parties -> BOOLEAN]
    BY <1>5 DEF TypeOK
  <2>2. 1 \in 1..LastRound /\ 1 \in 1..1
    BY Constants
  <2> QED BY <1>1, <1>2, <1>5, <2>1, <2>2, SendInv
<1> QED BY <1>3, <1>4, <1>5 DEF Start

LEMMA NotifyPromiseInv ==
  ASSUME SigningInv, NEW p \in Parties, NEW q \in Parties, NEW k \in PromiseRounds,
         NotifyPromise(p, q, k)
  PROVE  SigningInv'
<1> USE DEF SigningInv
<1> DEFINE rows == [received[p] EXCEPT ![k] = @ \cup {q}]
<1>1. /\ k \in sent[q] /\ received' = [received EXCEPT ![p] = rows]
      /\ UNCHANGED <<wish, solverVars>>
  BY DEF NotifyPromise
<1>2. rows \in [PromiseRounds -> SUBSET Parties]
  BY DEF TypeOK
<1>3. \A j \in PromiseRounds : \A x \in rows[j] : j \in sent[x]
  BY <1>1 DEF TypeOK, SignersInv, ReceivedWasSent
<1>4. PICK gap \in 0..LastRound : FirstGap(gap, p, rows, round[p]) /\ GoOn(p, gap)
  BY DEF NotifyPromise
<1> HIDE DEF rows
<1>5. /\ received' \in [Parties -> [PromiseRounds -> SUBSET Parties]]
      /\ \A x \in Parties : \A j \in PromiseRounds : \A y \in received'[x][j] : j \in sent[y]
  BY <1>1, <1>2, <1>3 DEF TypeOK, SignersInv, ReceivedWasSent
<1>6. round[p] \in Nat /\ gap \in round[p]..LastRound
  BY <1>4 DEF FirstGap, TypeOK
<1>7. ASSUME status[p] = "SIGNING", NEW to \in (round[p] + 1)..gap
      PROVE  \A x \in Others(p) : \A j \in 1..(to - 1) : j \in sent[x]
  <2> SUFFICES ASSUME NEW x \in Others(p), NEW j \in 1..(to - 1) PROVE j \in sent[x]
    OBVIOUS
  <2>1. CASE j < round[p]
    BY <2>1, <1>6 DEF SignersInv, HoldsAllBelow, Others
  <2>2. CASE j >= round[p]
    <3>1. j \in round[p]..(gap - 1) /\ j \in PromiseRounds
      BY <2>2, <1>6, Constants DEF PromiseRounds, LastRound
    <3> QED BY <3>1, <1>3, <1>4 DEF FirstGap
  <2> QED BY <2>1, <2>2, <1>6
<1>8. CASE status[p] = "SIGNING" /\ gap > round[p] /\ AskTrent(p, round[p] + 1)
  <2> DEFINE r == round[p] + 1
  <2>1. r \in 1..LastRound /\ r \in r..gap /\ round[p] <= r
    BY <1>6, <1>8, Constants
  <2>2. \A x \in Others(p) : \A j \in 1..(r - 1) : j \in sent[x]
    BY <1>7, <1>8, <2>1
  <2>3. \A j \in 1..(r - 1) : j \in sent[p]
    BY <1>6, <1>8 DEF SignersInv, HoldsAllBelow, SigningHasSent
  <2>4. \A x \in Parties : \A j \in 1..(r - 1) : j \in sent[x]
    BY <2>2, <2>3 DEF Others
  <2> HIDE DEF r
  <2>5. AskTrent(p, r)
    BY <1>8 DEF r
  <2> QED BY <1>1, <1>5, <1>8, <2>1, <2>4, <2>5, AskTrentInv
<1>9. CASE /\ status[p] = "SIGNING" /\ gap > round[p]
           /\ Send(p, round[p] + 1, gap, "SIGNING") /\ UNCHANGED <<listening, deaf>>
  <2> DEFINE from == round[p] + 1
  <2>1. from \in 1..LastRound /\ gap \in from..LastRound /\ gap \in from..gap
    BY <1>6, <1>9, Constants
  <2>2. \A x \in Others(p) : \A j \in 1..(gap - 1) : j \in sent[x]
    BY <1>7, <1>9, <2>1
  <2>3. listening' \in [Parties -> BOOLEAN]
    BY <1>9 DEF TypeOK
  <2>4. from = round[p] + 1
    OBVIOUS
  <2> HIDE DEF from
  <2>5. Send(p, from, gap, "SIGNING")
    BY <1>9 DEF from
  <2> QED BY <1>1, <1>5, <1>9, <2>1, <2>2, <2>3, <2>4, <2>5, SendInv
<1>10. CASE UNCHANGED <<status, listening, deaf, requests, round, signatures, sent>>
  <2>1. TrentInv'
    BY <1>1, <1>10, MoreRequestsInv DEF TypeOK, TrentTypeOK
  <2>2. TypeOK'
    BY <1>1, <1>5, <1>10, <2>1 DEF TypeOK, TrentInv
  <2>3. SignersInv'
    BY <1>5, <1>10 DEF SignersInv, NotStarted, SigningHasSent, HoldsAllBelow,
       ReceivedWasSent, AskedAtRound
  <2>4. OutcomeInv'
    BY <1>1, <1>10 DEF solverVars, OutcomeInv, SignaturesAreReal, FinalizedHasFirst,
       CancelledByTrent, HasAborted, ListByAbort, OpenedWasAsked
  <2> QED BY <2>1, <2>2, <2>3, <2>4
<1> QED BY <1>4, <1>8, <1>9, <1>10 DEF GoOn

LEMMA NotifySignatureInv ==
  ASSUME SigningInv, NEW p \in Parties, NEW q \in Parties, NotifySignature(p, q)
  PROVE  SigningInv'
<1> USE DEF SigningInv
<1> DEFINE sigs == [signatures[p] EXCEPT ![q] = Clear]
           new == IF IsFinalized(sigs) THEN "FINALIZED" ELSE status[p]
<1>1. /\ LastRound \in sent[q]
      /\ signatures' = [signatures EXCEPT ![p] = sigs]
      /\ UNCHANGED <<requests, solverVars, wish, round, received, deaf, sent>>
  BY DEF NotifySignature
<1>2. status' = [status EXCEPT ![p] = new] /\ listening' \in [Parties -> BOOLEAN]
  BY DEF NotifySignature, TypeOK
<1>3. /\ sigs \in [Parties -> 0..LastRound]
      /\ \A x \in Parties : sigs[x] = signatures[p][x] \/ (x = q /\ sigs[x] = Clear)
  BY Constants DEF TypeOK
<1>4. Clear # NoSignature
  BY Constants DEF NoSignature
<1>5. round[p] > 0
  BY <1>1, ClearNeedsSecondRound DEF SignersInv, NotStarted, TypeOK
<1>6. /\ new \in {"FINALIZED", "CANCELLED", status[p]}
      /\ new = "FINALIZED" /\ new # status[p] => IsFinalized(sigs)
      /\ new = "CANCELLED" => HasAborted
  BY DEF OutcomeInv, CancelledByTrent
<1> HIDE DEF sigs, new
<1>7. /\ signatures[p][1] # NoSignature => sigs[1] # NoSignature
      /\ \A x \in Parties : sigs[x] = signatures[p][x] \/ (sigs[x] = Clear /\ LastRound \in sent[x])
  BY <1>1, <1>3, <1>4, Constants
<1>8. deaf' \in [Parties -> BOOLEAN] /\ UNCHANGED <<trentVars, wish, round, received, sent>>
  BY <1>1 DEF trentVars, TypeOK
<1> QED BY <1>1, <1>2, <1>3, <1>5, <1>6, <1>7, <1>8, LearnInv

LEMMA NotifyCancelledInv ==
  ASSUME SigningInv, NEW p \in Parties, NotifyCancelled(p) PROVE SigningInv'
<1> USE DEF SigningInv
<1> DEFINE sigs == signatures[p]
<1>1. /\ round[p] > 0 /\ HasAborted
      /\ status' = [status EXCEPT ![p] = "CANCELLED"]
      /\ listening' \in [Parties -> BOOLEAN] /\ deaf' \in [Parties -> BOOLEAN]
      /\ UNCHANGED <<trentVars, wish, round, received, sent>>
  BY DEF NotifyCancelled, TypeOK, trentVars
<1>2. sigs \in [Parties -> 0..LastRound] /\ signatures' = [signatures EXCEPT ![p] = sigs]
  BY DEF NotifyCancelled, TypeOK
<1>3. \A q \in Parties : sigs[q] = signatures[p][q]
  OBVIOUS
<1> HIDE DEF sigs
<1> QED BY <1>1, <1>2, <1>3, Constants, LearnInv

LEMMA NotifyResolvedInv ==
  ASSUME SigningInv, NEW p \in Parties, NEW k \in ClaimRounds, NotifyResolved(p, k)
  PROVE  SigningInv'
<1> USE DEF SigningInv
<1> DEFINE sigs == IF k \in {round[p], round[p] - 1, round[p] - 2}
                   THEN [q \in Parties |-> k] ELSE signatures[p]
           new == IF IsFinalized(sigs) THEN "FINALIZED" ELSE status[p]
<1>1. /\ round[p] > 0 /\ Resolved(k) \in answers
      /\ signatures' = [signatures EXCEPT ![p] = sigs]
      /\ UNCHANGED <<requests, solverVars, wish, round, received, sent>>
  BY DEF NotifyResolved
<1>2. /\ status' = [status EXCEPT ![p] = new]
      /\ listening' \in [Parties -> BOOLEAN] /\ deaf' \in [Parties -> BOOLEAN]
  BY DEF NotifyResolved, TypeOK
<1>3. k = 1
  BY <1>1 DEF TrentInv, OpenedByClaim
<1>4. k \in 0..LastRound /\ k # NoSignature
  BY <1>3, Constants DEF NoSignature
<1>5. /\ sigs \in [Parties -> 0..LastRound]
      /\ \A q \in Parties : sigs[q] = signatures[p][q] \/ sigs[q] = k
  BY <1>4 DEF TypeOK
<1>6. /\ new \in {"FINALIZED", "CANCELLED", status[p]}
      /\ new = "FINALIZED" /\ new # status[p] => IsFinalized(sigs)
      /\ new = "CANCELLED" => HasAborted
  BY DEF OutcomeInv, CancelledByTrent
<1> HIDE DEF sigs, new
<1> QED BY <1>1, <1>2, <1>4, <1>5, <1>6, Constants, LearnInv DEF trentVars

LEMMA SetWishInv == ASSUME SigningInv, NEW p \in Parties, SetWish(p) PROVE SigningInv'
<1> USE DEF SigningInv, SetWish
<1>1. TrentInv'
  BY MoreRequestsInv DEF TypeOK, TrentTypeOK
<1>2. TypeOK'
  BY <1>1 DEF TypeOK, TrentInv
<1>3. SignersInv'
  BY DEF SignersInv, NotStarted, SigningHasSent, HoldsAllBelow, ReceivedWasSent, AskedAtRound
<1>4. OutcomeInv'
  BY DEF solverVars, OutcomeInv, SignaturesAreReal, FinalizedHasFirst, CancelledByTrent,
     HasAborted, ListByAbort, OpenedWasAsked
<1> QED BY <1>1, <1>2, <1>3, <1>4

LEMMA ResolveInv == ASSUME SigningInv, NEW p \in Parties, Resolve(p) PROVE SigningInv'
<1> USE DEF SigningInv
<1> DEFINE r == round[p]
<1>1. /\ status[p] = "SIGNING" /\ AskTrent(p, r)
      /\ UNCHANGED <<wish, received, solverVars>>
  BY DEF Resolve
<1>2. r \in 1..LastRound /\ round[p] <= r
  BY <1>1, Constants DEF SignersInv, NotStarted, TypeOK
<1>3. /\ received' \in [Parties -> [PromiseRounds -> SUBSET Parties]]
      /\ \A x \in Parties : \A k \in PromiseRounds : \A q \in received'[x][k] : k \in sent[q]
  BY <1>1 DEF TypeOK, SignersInv, ReceivedWasSent
<1>4. \A q \in Parties : \A k \in 1..(r - 1) : k \in sent[q]
  BY DEF SignersInv, HoldsAllBelow
<1> HIDE DEF r
<1> QED BY <1>1, <1>2, <1>3, <1>4, AskTrentInv

\* Trent decides on a request.
LEMMA TrentReceivesInv == ASSUME SigningInv, TrentStep PROVE SigningInv'
<1> USE DEF SigningInv
<1>1. PICK req \in requests : ResolveT(req) /\ UNCHANGED <<requests, signerVars>>
  BY DEF TrentStep, TrentReceives
<1>2. TrentInv'
  BY <1>1, ResolveTInv
<1>3. TypeOK'
  BY <1>1, <1>2 DEF TypeOK, TrentInv, signerVars
<1>4. SignersInv'
  BY <1>1 DEF signerVars, SignersInv, NotStarted, SigningHasSent, HoldsAllBelow,
     ReceivedWasSent, AskedAtRound
<1>5. req \in Request /\ possiblyHonestClaims \in Seq(SUBSET Request)
  BY DEF TypeOK, TrentTypeOK
<1>6. answers \subseteq answers'
  BY <1>1 DEF ResolveT, OtherShownDishonest, SenderContradictsItself, SenderShownDishonest,
     OpenPromises, PileUp, Throw, Publish
<1>7. SignaturesAreReal' /\ FinalizedHasFirst' /\ CancelledByTrent'
  BY <1>1, <1>6 DEF signerVars, OutcomeInv, SignaturesAreReal, FinalizedHasFirst,
     CancelledByTrent, HasAborted
<1>8. ListByAbort'
  <2>1. CASE possiblyHonestClaims # <<>>
    BY <1>1, <2>1 DEF OutcomeInv, ListByAbort
  <2>2. CASE possiblyHonestClaims = <<>> /\ PileUp(req)
    <3>1. Size = 0 /\ req.round \in Nat /\ req.round <= Size
      BY <2>2, <1>5, NAssumption DEF Size, PileUp, Request, ClaimRounds
    <3>2. req.by \in Parties /\ req = Abort(req.by)
      BY <3>1, <1>5 DEF Request, Abort
    <3> QED BY <1>1, <3>2 DEF ListByAbort
  <2>3. CASE possiblyHonestClaims = <<>> /\ ~PileUp(req)
    <3>1. OpenPromises(req) \/ Throw(req)
      BY <1>1, <1>5, <2>3, EvidenceNeedsClaims
         DEF ResolveT, OtherShownDishonest, SenderContradictsItself, SenderShownDishonest
    <3>2. UNCHANGED possiblyHonestClaims
      BY <3>1 DEF OpenPromises, Throw
    <3> QED BY <2>3, <3>2 DEF ListByAbort
  <2> QED BY <2>1, <2>2, <2>3
<1>9. OpenedWasAsked'
  <2> SUFFICES ASSUME NEW k \in ClaimRounds, Resolved(k) \in answers'
               PROVE  \E r \in requests : r.round = k
    BY <1>1 DEF OpenedWasAsked
  <2>1. CASE Resolved(k) \in answers
    BY <2>1 DEF OutcomeInv, OpenedWasAsked
  <2>2. CASE Resolved(k) \notin answers
    <3>1. req.round \in ClaimRounds /\ req.by \in Parties
      BY <1>5 DEF Request
    <3>2. OpenPromises(req) /\ Resolved(k) = Resolved(req.round)
      BY <1>1, <2>2, <3>1, AnswersDiffer
         DEF ResolveT, OtherShownDishonest, SenderContradictsItself, SenderShownDishonest,
             OpenPromises, PileUp, Throw, Publish
    <3> QED BY <3>1, <3>2, <1>1, AnswersDiffer
  <2> QED BY <2>1, <2>2
<1> QED BY <1>2, <1>3, <1>4, <1>7, <1>8, <1>9 DEF OutcomeInv

LEMMA StepInv == SigningInv /\ [Next]_vars => SigningInv'
<1> SUFFICES ASSUME SigningInv, [Next]_vars PROVE SigningInv'
  OBVIOUS
<1>1. CASE TrentStep
  BY <1>1, TrentReceivesInv
<1>2. ASSUME NEW p \in Parties, Start(p) PROVE SigningInv'
  BY <1>2, StartInv
<1>3. ASSUME NEW p \in Parties, NEW q \in Parties, NEW k \in PromiseRounds,
             NotifyPromise(p, q, k)
      PROVE  SigningInv'
  BY <1>3, NotifyPromiseInv
<1>4. ASSUME NEW p \in Parties, NEW q \in Parties, NotifySignature(p, q) PROVE SigningInv'
  BY <1>4, NotifySignatureInv
<1>5. ASSUME NEW p \in Parties, NotifyCancelled(p) PROVE SigningInv'
  BY <1>5, NotifyCancelledInv
<1>6. ASSUME NEW p \in Parties, NEW k \in ClaimRounds, NotifyResolved(p, k)
      PROVE  SigningInv'
  BY <1>6, NotifyResolvedInv
<1>7. ASSUME NEW p \in Parties, SetWish(p) PROVE SigningInv'
  BY <1>7, SetWishInv
<1>8. ASSUME NEW p \in Parties, Resolve(p) PROVE SigningInv'
  BY <1>8, ResolveInv
<1>9. CASE UNCHANGED vars
  <2> USE <1>9 DEF vars, trentVars, signerVars, SigningInv
  <2>1. TrentInv'
    BY MoreRequestsInv DEF TypeOK, TrentTypeOK
  <2>2. TypeOK'
    BY <2>1 DEF TypeOK, TrentInv
  <2>3. SignersInv'
    BY DEF SignersInv, NotStarted, SigningHasSent, HoldsAllBelow, ReceivedWasSent, AskedAtRound
  <2>4. OutcomeInv'
    BY DEF solverVars, OutcomeInv, SignaturesAreReal, FinalizedHasFirst, CancelledByTrent,
       HasAborted, ListByAbort, OpenedWasAsked
  <2> QED BY <2>1, <2>2, <2>3, <2>4
<1> QED BY <1>1, <1>2, <1>3, <1>4, <1>5, <1>6, <1>7, <1>8, <1>9 DEF Next

----------------------------------------------------------------------------
\* The invariant holds in every behaviour of the signers and Trent.
THEOREM SigningInvariant == Spec => []SigningInv
BY InitInv, StepInv, PTL DEF Spec

\* The signers' and Trent's state keeps its type: the rows of roundReceived
\* are never indexed outside the rounds of promises.
THEOREM SigningTypeCorrect == Spec => []TypeOK
<1>1. SigningInv => TypeOK
  BY DEF SigningInv
<1> QED BY <1>1, SigningInvariant, PTL

\* Nobody ever holds the contract as signed while another has it as
\* cancelled, for any number of signers.
THEOREM SigningAgreement == Spec => []Agreement
BY InvImpliesAgreement, SigningInvariant, PTL

\* No signer is ever committed more than one round ahead of another.
THEOREM SigningLockStep == Spec => []LockStep
BY InvImpliesLockStep, SigningInvariant, PTL

\* Every signer accepts the signatures that Trent opens.
THEOREM SigningAccepted == Spec => []ResolvedIsAccepted
BY InvImpliesAccepted, SigningInvariant, PTL

\* Nothing takes a signed contract back from a signer: the only handler that
\* could, that of a cancellation, has nothing to be notified of.
THEOREM SigningFinalizedForever == Spec => FinalizedForever
<1> DEFINE Kept == \A p \in Parties : status[p] = "FINALIZED" => status'[p] = "FINALIZED"
<1>1. SigningInv /\ [Next]_vars => [Kept]_vars
  <2> SUFFICES ASSUME SigningInv, Next, NEW p \in Parties, status[p] = "FINALIZED"
               PROVE  status'[p] = "FINALIZED"
    OBVIOUS
  <2>1. signatures[p][1] # NoSignature
    BY DEF SigningInv, OutcomeInv, FinalizedHasFirst
  <2>2. ~HasAborted /\ round[p] # 0
    BY <2>1, HoldingExcludesCancelled, Constants DEF SigningInv, SignersInv, NotStarted
  <2>3. status \in [Parties -> {"NOWHERE", "SIGNING", "RESOLVING", "CANCELLED", "FINALIZED"}]
    BY DEF SigningInv, TypeOK
  <2>4. CASE TrentStep
    BY <2>4 DEF TrentStep, signerVars
  <2>5. ASSUME NEW q \in Parties, Start(q) PROVE status'[p] = "FINALIZED"
    BY <2>2, <2>3, <2>5 DEF Start, AskTrent, AskTrentFor, Send
  <2>6. ASSUME NEW q \in Parties, NEW x \in Parties, NEW k \in PromiseRounds,
               NotifyPromise(q, x, k)
        PROVE  status'[p] = "FINALIZED"
    BY <2>3, <2>6 DEF NotifyPromise, GoOn, AskTrent, AskTrentFor, Send
  <2>7. ASSUME NEW q \in Parties, NEW x \in Parties, NotifySignature(q, x)
        PROVE  status'[p] = "FINALIZED"
    BY <2>3, <2>7 DEF NotifySignature
  <2>8. ASSUME NEW q \in Parties, NotifyCancelled(q) PROVE status'[p] = "FINALIZED"
    BY <2>2, <2>8 DEF NotifyCancelled
  <2>9. ASSUME NEW q \in Parties, NEW k \in ClaimRounds, NotifyResolved(q, k)
        PROVE  status'[p] = "FINALIZED"
    BY <2>3, <2>9 DEF NotifyResolved
  <2>10. ASSUME NEW q \in Parties, SetWish(q) \/ Resolve(q)
         PROVE  status'[p] = "FINALIZED"
    BY <2>3, <2>10 DEF SetWish, Resolve, AskTrent, AskTrentFor
  <2> QED BY <2>4, <2>5, <2>6, <2>7, <2>8, <2>9, <2>10 DEF Next
<1> QED BY <1>1, SigningInvariant, PTL DEF Spec, FinalizedForever

----------------------------------------------------------------------------
(* What a signer has received: no complete claim waits for another         *)
(* message, and a signer that holds the contract as signed holds the proof *)
(* that everybody was bound.                                               *)
(*                                                                         *)
(* A signer at round r has received everybody's promises of all rounds     *)
(* below r, for it goes on, to a next round or to Trent, only with them    *)
(* (Claims).  A clear signature shows that everybody has come to the round *)
(* before the last, so with the promises of round N; and what Trent opens  *)
(* is accepted by everybody (InvImpliesAccepted).                          *)

Claims(p) ==
  /\ status[p] = "SIGNING" /\ round[p] < LastRound => received[p][round[p]] # Others(p)
  /\ \A k \in 1..(round[p] - 1) : received[p][k] = Others(p)
  /\ status[p] = "FINALIZED" =>
       \/ received[p][N] = Others(p)
       \/ \A q \in Parties : signatures[p][q] \in PromiseRounds

ClaimsInv == \A p \in Parties : Claims(p)

\* Nothing but p has changed.
Only(p) ==
  \A x \in Parties \ {p} :
    /\ status'[x] = status[x] /\ round'[x] = round[x]
    /\ received'[x] = received[x] /\ signatures'[x] = signatures[x]

LEMMA OnlyClaims ==
  ASSUME ClaimsInv, NEW p \in Parties, Only(p), Claims(p)'
  PROVE  ClaimsInv'
BY DEF ClaimsInv, Claims, Only

----------------------------------------------------------------------------
\* A signer turns to Trent at a round below which it holds all promises.
LEMMA AskTrentClaims ==
  ASSUME TypeOK, ClaimsInv, NEW p \in Parties, NEW r, AskTrent(p, r), Only(p),
         \A k \in 1..(r - 1) : received'[p][k] = Others(p)
  PROVE  ClaimsInv'
<1>1. status'[p] = "RESOLVING" /\ round'[p] = r
  BY DEF AskTrent, AskTrentFor, TypeOK
<1>2. Claims(p)'
  BY <1>1 DEF Claims
<1> QED BY <1>2, OnlyClaims

\* A signer sends the rounds up to the first gap in what it has received.
LEMMA SendClaims ==
  ASSUME TypeOK, ClaimsInv, NEW p \in Parties, Only(p),
         NEW from, NEW gap \in 1..LastRound, NEW st \in {"SIGNING", "CANCELLED"},
         Send(p, from, gap, st),
         gap < LastRound => received'[p][gap] # Others(p),
         \A k \in 1..(gap - 1) : received'[p][k] = Others(p)
  PROVE  ClaimsInv'
<1>1. /\ round'[p] = gap
      /\ status'[p] \in {"FINALIZED", st} /\ (status'[p] = "FINALIZED" => gap = LastRound)
  BY DEF Send, TypeOK
<1>2. status'[p] = "FINALIZED" => received'[p][N] = Others(p)
  <2> SUFFICES ASSUME gap = LastRound PROVE received'[p][N] = Others(p)
    BY <1>1
  <2>1. N \in 1..(gap - 1)
    BY Constants DEF LastRound
  <2> QED BY <2>1
<1>3. Claims(p)'
  BY <1>1, <1>2 DEF Claims
<1> QED BY <1>3, OnlyClaims

\* A signer learns something, but neither a promise nor a new round.
LEMMA LearnClaims ==
  ASSUME TypeOK, ClaimsInv, NEW p \in Parties, Only(p), UNCHANGED <<received, round>>,
         status'[p] = "SIGNING" => status[p] = "SIGNING",
         status'[p] = "FINALIZED" =>
           \/ received[p][N] = Others(p)
           \/ \A q \in Parties : signatures'[p][q] \in PromiseRounds
  PROVE  ClaimsInv'
<1>1. Claims(p)'
  BY DEF ClaimsInv, Claims, TypeOK
<1> QED BY <1>1, OnlyClaims

----------------------------------------------------------------------------
LEMMA StartClaims ==
  ASSUME SigningInv, ClaimsInv, NEW p \in Parties, Start(p) PROVE ClaimsInv'
<1> USE DEF SigningInv
<1>1. received' = received
  BY DEF Start
<1>2. CASE AskTrent(p, 1)
  <2>1. Only(p)
    BY <1>1, <1>2 DEF AskTrent, AskTrentFor, Only, TypeOK
  <2> QED BY <1>2, <2>1, AskTrentClaims
<1>3. ASSUME NEW gap \in 1..LastRound, FirstGap(gap, p, received[p], 1),
             Send(p, 1, gap, "SIGNING")
      PROVE  ClaimsInv'
  <2>1. Only(p)
    BY <1>1, <1>3 DEF Send, Only, TypeOK
  <2>2. /\ gap < LastRound => received'[p][gap] # Others(p)
        /\ \A k \in 1..(gap - 1) : received'[p][k] = Others(p)
    BY <1>1, <1>3 DEF FirstGap
  <2> QED BY <1>3, <2>1, <2>2, SendClaims
<1>4. CASE Send(p, 1, 1, "CANCELLED")
  <2>1. status'[p] = "CANCELLED" /\ round'[p] = 1
    BY <1>4, Constants DEF Send, TypeOK
  <2>2. Claims(p)'
    BY <2>1 DEF Claims
  <2>3. Only(p)
    BY <1>1, <1>4 DEF Send, Only, TypeOK
  <2> QED BY <2>2, <2>3, OnlyClaims
<1> QED BY <1>2, <1>3, <1>4 DEF Start

LEMMA NotifyPromiseClaims ==
  ASSUME SigningInv, ClaimsInv, NEW p \in Parties, NEW q \in Parties, NEW k \in PromiseRounds,
         NotifyPromise(p, q, k)
  PROVE  ClaimsInv'
<1> USE DEF SigningInv
<1> DEFINE rows == [received[p] EXCEPT ![k] = @ \cup {q}]
<1>1. received' = [received EXCEPT ![p] = rows] /\ q # p
  BY DEF NotifyPromise
<1>2. PICK gap \in 0..LastRound : FirstGap(gap, p, rows, round[p]) /\ GoOn(p, gap)
  BY DEF NotifyPromise
<1>3. received[p] \in [PromiseRounds -> SUBSET Parties] /\ round[p] \in 0..LastRound
  BY DEF TypeOK
<1>4. \A j \in PromiseRounds : received[p][j] = Others(p) => rows[j] = Others(p)
  BY <1>1, <1>3 DEF Others
<1>5. \A j \in 1..(round[p] - 1) : j \in PromiseRounds /\ received[p][j] = Others(p)
  BY <1>3, Constants DEF ClaimsInv, Claims, PromiseRounds, LastRound
<1>6. received'[p] = rows /\ \A x \in Parties \ {p} : received'[x] = received[x]
  BY <1>1 DEF TypeOK
<1> HIDE DEF rows
<1>7. gap \in round[p]..LastRound /\ (gap < LastRound => rows[gap] # Others(p))
  BY <1>2 DEF FirstGap
<1>8. \A j \in 1..(gap - 1) : rows[j] = Others(p)
  <2> SUFFICES ASSUME NEW j \in 1..(gap - 1) PROVE rows[j] = Others(p)
    OBVIOUS
  <2>1. CASE j < round[p]
    BY <2>1, <1>3, <1>4, <1>5
  <2>2. CASE j >= round[p]
    <3>1. j \in round[p]..(gap - 1)
      BY <2>2, <1>3
    <3> QED BY <3>1, <1>2 DEF FirstGap
  <2> QED BY <2>1, <2>2, <1>3
<1>9. CASE status[p] = "SIGNING" /\ gap > round[p] /\ AskTrent(p, round[p] + 1)
  <2>1. Only(p)
    BY <1>6, <1>9 DEF AskTrent, AskTrentFor, Only, TypeOK
  <2> DEFINE r == round[p] + 1
  <2>2. \A j \in 1..(r - 1) : received'[p][j] = Others(p)
    BY <1>3, <1>6, <1>8, <1>9
  <2>3. AskTrent(p, r)
    BY <1>9
  <2> HIDE DEF r
  <2> QED BY <2>1, <2>2, <2>3, AskTrentClaims
<1>10. CASE gap > round[p] /\ Send(p, round[p] + 1, gap, "SIGNING")
  <2>1. Only(p)
    BY <1>6, <1>10 DEF Send, Only, TypeOK
  <2>2. gap \in 1..LastRound
    BY <1>3, <1>10
  <2> QED BY <1>6, <1>7, <1>8, <1>10, <2>1, <2>2, SendClaims
<1>11. CASE /\ status[p] # "SIGNING" \/ gap = round[p]
            /\ UNCHANGED <<status, listening, deaf, requests, round, signatures, sent>>
  <2>1. Only(p)
    BY <1>6, <1>11 DEF Only
  <2>2. N \in PromiseRounds
    BY Constants DEF PromiseRounds
  <2>3. Claims(p)
    BY DEF ClaimsInv
  <2>4. Claims(p)'
    BY <1>4, <1>5, <1>6, <1>7, <1>11, <2>2, <2>3 DEF Claims
  <2> QED BY <2>1, <2>4, OnlyClaims
<1> QED BY <1>2, <1>9, <1>10, <1>11 DEF GoOn

LEMMA NotifySignatureClaims ==
  ASSUME SigningInv, ClaimsInv, NEW p \in Parties, NEW q \in Parties, NotifySignature(p, q)
  PROVE  ClaimsInv'
<1> USE DEF SigningInv
<1>1. Only(p) /\ UNCHANGED <<received, round>> /\ status'[p] \in {"FINALIZED", status[p]}
  BY DEF NotifySignature, Only, TypeOK
<1>2. N + 1 \in sent[p]
  <2>1. LastRound \in sent[q] /\ round[q] \in Nat /\ LastRound \in 1..round[q]
    BY DEF NotifySignature, SignersInv, NotStarted, TypeOK
  <2>2. N + 1 \in 1..(round[q] - 1)
    BY <2>1, Constants DEF LastRound
  <2> QED BY <2>2 DEF SignersInv, HoldsAllBelow
<1>3. N \in 1..(round[p] - 1)
  <2>1. round[p] \in Nat /\ N + 1 \in 1..round[p]
    BY <1>2 DEF SignersInv, NotStarted, TypeOK
  <2> QED BY <2>1, Constants
<1>4. received[p][N] = Others(p)
  BY <1>3 DEF ClaimsInv, Claims
<1> QED BY <1>1, <1>4, LearnClaims

LEMMA NotifyCancelledClaims ==
  ASSUME SigningInv, ClaimsInv, NEW p \in Parties, NotifyCancelled(p) PROVE ClaimsInv'
<1>1. Only(p) /\ UNCHANGED <<received, round>> /\ status'[p] = "CANCELLED"
  BY DEF NotifyCancelled, Only, SigningInv, TypeOK
<1> QED BY <1>1, LearnClaims DEF SigningInv

LEMMA NotifyResolvedClaims ==
  ASSUME SigningInv, ClaimsInv, NEW p \in Parties, NEW k \in ClaimRounds, NotifyResolved(p, k)
  PROVE  ClaimsInv'
<1> USE DEF SigningInv
<1>1. Only(p) /\ UNCHANGED <<received, round>> /\ status'[p] \in {"FINALIZED", status[p]}
  BY DEF NotifyResolved, Only, TypeOK
<1>2. Resolved(k) \in answers
  BY DEF NotifyResolved
<1>3. k = 1 /\ k \in PromiseRounds
  BY <1>2, Constants DEF TrentInv, OpenedByClaim, PromiseRounds
<1>4. round[p] \in Nat /\ k <= round[p] /\ round[p] <= k + 2
  BY <1>2, InvImpliesAccepted DEF ResolvedIsAccepted, TypeOK
<1>5. k \in {round[p], round[p] - 1, round[p] - 2}
  BY <1>3, <1>4
<1>6. signatures' = [signatures EXCEPT ![p] = [q \in Parties |-> k]]
  BY <1>5 DEF NotifyResolved
<1>7. \A q \in Parties : signatures'[p][q] \in PromiseRounds
  BY <1>3, <1>6 DEF TypeOK
<1> QED BY <1>1, <1>7, LearnClaims

LEMMA ResolveClaims ==
  ASSUME SigningInv, ClaimsInv, NEW p \in Parties, Resolve(p) PROVE ClaimsInv'
<1> USE DEF SigningInv
<1>1. AskTrent(p, round[p]) /\ received' = received
  BY DEF Resolve
<1>2. Only(p)
  BY <1>1 DEF AskTrent, AskTrentFor, Only, TypeOK
<1>3. \A k \in 1..(round[p] - 1) : received'[p][k] = Others(p)
  BY <1>1 DEF ClaimsInv, Claims
<1> QED BY <1>1, <1>2, <1>3, AskTrentClaims

LEMMA ClaimsStep == SigningInv /\ ClaimsInv /\ [Next]_vars => ClaimsInv'
<1> SUFFICES ASSUME SigningInv, ClaimsInv, [Next]_vars PROVE ClaimsInv'
  OBVIOUS
<1>1. CASE UNCHANGED <<status, round, received, signatures>>
  BY <1>1 DEF ClaimsInv, Claims
<1>2. CASE TrentStep \/ UNCHANGED vars
  BY <1>1, <1>2 DEF TrentStep, vars, signerVars
<1>3. ASSUME NEW p \in Parties, Start(p) PROVE ClaimsInv'
  BY <1>3, StartClaims
<1>4. ASSUME NEW p \in Parties, NEW q \in Parties, NEW k \in PromiseRounds, NotifyPromise(p, q, k)
      PROVE  ClaimsInv'
  BY <1>4, NotifyPromiseClaims
<1>5. ASSUME NEW p \in Parties, NEW q \in Parties, NotifySignature(p, q) PROVE ClaimsInv'
  BY <1>5, NotifySignatureClaims
<1>6. ASSUME NEW p \in Parties, NotifyCancelled(p) PROVE ClaimsInv'
  BY <1>6, NotifyCancelledClaims
<1>7. ASSUME NEW p \in Parties, NEW k \in ClaimRounds, NotifyResolved(p, k) PROVE ClaimsInv'
  BY <1>7, NotifyResolvedClaims
<1>8. ASSUME NEW p \in Parties, SetWish(p) PROVE ClaimsInv'
  BY <1>1, <1>8 DEF SetWish
<1>9. ASSUME NEW p \in Parties, Resolve(p) PROVE ClaimsInv'
  BY <1>9, ResolveClaims
<1> QED BY <1>2, <1>3, <1>4, <1>5, <1>6, <1>7, <1>8, <1>9 DEF Next

----------------------------------------------------------------------------
\* What the signers have received fits the rounds they have come to, in every
\* behaviour of the signers and Trent.
THEOREM SigningClaims == Spec => []ClaimsInv
<1>1. Init => ClaimsInv
  <2> SUFFICES ASSUME Init, NEW p \in Parties PROVE Claims(p)
    BY DEF ClaimsInv
  <2>1. status[p] = "NOWHERE" /\ round[p] = 0
    BY DEF Init
  <2> QED BY <2>1 DEF Claims
<1> QED BY <1>1, SigningInvariant, ClaimsStep, PTL DEF Spec

\* A signer that signs never holds all the promises of its round: the handler
\* that stored the last of them has sent the next round (ProtocolSign.java:183).
THEOREM SigningGoesOn == Spec => []NoClaimLeftWaiting
<1>1. ClaimsInv => NoClaimLeftWaiting
  BY DEF ClaimsInv, Claims, NoClaimLeftWaiting
<1> QED BY <1>1, SigningClaims, PTL

\* A signer with a finalized contract holds all promises of round N, or the
\* signatures of Trent, whichever message finalized it.
THEOREM SigningHoldsClaim == Spec => []FinalizedHoldsClaim
<1>1. ClaimsInv => FinalizedHoldsClaim
  BY DEF ClaimsInv, Claims, FinalizedHoldsClaim
<1> QED BY <1>1, SigningClaims, PTL

----------------------------------------------------------------------------
(* The signers never wait for each other.                                  *)
(*                                                                         *)
(* Of two signers a round apart the one behind has all it needs, and so    *)
(* have all when none is behind (Claims): it can only wait for the last    *)
(* round.  There it waits for the signature of the first party alone, which *)
(* is published when that party is at its last round, or has the signed    *)
(* contract, for this too needs the first party's signature.               *)

Waits(p) ==
  /\ status[p] \in {"NOWHERE", "SIGNING"} => ~IsFinalized(signatures[p])
  /\ status[p] = "SIGNING" /\ LastRound \in sent[p] => signatures[p][p] = Clear
  /\ status[p] = "NOWHERE" => ~listening[p]
  /\ \A k \in PromiseRounds : p \notin received[p][k]
  /\ status[p] = "RESOLVING" => requests # {}

WaitsInv == \A p \in Parties : Waits(p)

\* Nothing of p, or of another signer, has changed.
LEMMA OthersWait ==
  ASSUME WaitsInv, NEW p \in Parties, Waits(p)', requests \subseteq requests',
         \A x \in Parties \ {p} :
            /\ status'[x] = status[x] /\ signatures'[x] = signatures[x]
            /\ sent'[x] = sent[x] /\ listening'[x] = listening[x]
            /\ received'[x] = received[x]
  PROVE  WaitsInv'
BY DEF WaitsInv, Waits

LEMMA WaitsStep == SigningInv /\ SigningInv' /\ WaitsInv /\ [Next]_vars => WaitsInv'
<1> SUFFICES ASSUME SigningInv, SigningInv', WaitsInv, [Next]_vars PROVE WaitsInv'
  OBVIOUS
<1>0. /\ TypeOK /\ TypeOK' /\ NotStarted
      /\ \A p \in Parties : sent'[p] \subseteq 1..round'[p] /\ round'[p] \in Nat
  BY DEF SigningInv, SignersInv, NotStarted, TypeOK
<1>1. ASSUME NEW p \in Parties, NEW r, AskTrent(p, r),
             \A k \in PromiseRounds : p \notin received'[p][k],
             \A x \in Parties \ {p} : received'[x] = received[x]
      PROVE  WaitsInv'
  <2>1. status'[p] = "RESOLVING" /\ requests' # {} /\ requests \subseteq requests'
    BY <1>0, <1>1 DEF AskTrent, AskTrentFor, TypeOK
  <2>2. Waits(p)'
    BY <1>1, <2>1 DEF Waits
  <2> QED BY <1>0, <1>1, <2>1, <2>2, OthersWait DEF AskTrent, AskTrentFor, TypeOK
<1>2. ASSUME NEW p \in Parties, NEW from, NEW to \in 1..LastRound, NEW st \in {"SIGNING", "CANCELLED"},
             Send(p, from, to, st), status[p] \in {"NOWHERE", "SIGNING"},
             \A x \in Parties \ {p} : listening'[x] = listening[x],
             \A k \in PromiseRounds : p \notin received'[p][k],
             \A x \in Parties \ {p} : received'[x] = received[x]
      PROVE  WaitsInv'
  <2> DEFINE sigs == IF to = LastRound THEN [signatures[p] EXCEPT ![p] = Clear] ELSE signatures[p]
             done == to = LastRound /\ IsFinalized(sigs)
  <2>1. /\ requests' = requests
        /\ signatures' = [signatures EXCEPT ![p] = sigs]
        /\ status' = [status EXCEPT ![p] = IF done THEN "FINALIZED" ELSE st]
        /\ round' = [round EXCEPT ![p] = to]
        /\ \A x \in Parties \ {p} : sent'[x] = sent[x]
    BY <1>2 DEF Send
  <2>2. signatures'[p] = sigs /\ round'[p] = to
    BY <1>0, <2>1 DEF TypeOK
  <2>3. status'[p] = IF done THEN "FINALIZED" ELSE st
    BY <1>0, <2>1 DEF TypeOK
  <2>4. ~IsFinalized(signatures[p])
    BY <1>2 DEF WaitsInv, Waits
  <2>5. LastRound \in sent'[p] => to = LastRound
    BY <1>0, <2>2, Constants
  <2>6. to = LastRound => sigs[p] = Clear
    BY <1>0 DEF TypeOK
  <2>7. ASSUME ~done PROVE ~IsFinalized(signatures'[p])
    <3>1. CASE to = LastRound
      BY <2>2, <2>7, <3>1
    <3>2. CASE to # LastRound
      BY <2>2, <2>4, <3>2
    <3> QED BY <3>1, <3>2
  <2> HIDE DEF sigs, done
  <2>8. Waits(p)'
    BY <1>2, <2>2, <2>3, <2>5, <2>6, <2>7 DEF Waits
  <2> QED BY <1>0, <1>2, <2>1, <2>8, OthersWait DEF TypeOK
<1>3. ASSUME NEW p \in Parties, Start(p) PROVE WaitsInv'
  <2>1. /\ status[p] = "NOWHERE" /\ received' = received
        /\ \A k \in PromiseRounds : p \notin received'[p][k]
    BY <1>0, <1>3 DEF Start, NotStarted, WaitsInv, Waits
  <2>2. CASE AskTrent(p, 1)
    BY <1>1, <2>1, <2>2
  <2>3. ASSUME NEW gap \in 1..LastRound, NEW st \in {"SIGNING", "CANCELLED"},
               Send(p, 1, gap, st), listening' = [listening EXCEPT ![p] = TRUE]
        PROVE  WaitsInv'
    <3>1. \A x \in Parties \ {p} : listening'[x] = listening[x] /\ received'[x] = received[x]
      BY <1>0, <2>1, <2>3 DEF TypeOK
    <3> QED BY <1>2, <2>1, <2>3, <3>1
  <2> QED BY <1>3, <2>2, <2>3, Constants DEF Start
<1>4. ASSUME NEW p \in Parties, NEW q \in Parties, NEW k \in PromiseRounds, NotifyPromise(p, q, k)
      PROVE  WaitsInv'
  <2> DEFINE rows == [received[p] EXCEPT ![k] = @ \cup {q}]
  <2>1. q # p /\ received' = [received EXCEPT ![p] = rows]
    BY <1>4 DEF NotifyPromise
  <2>2. PICK gap \in 0..LastRound : FirstGap(gap, p, rows, round[p]) /\ GoOn(p, gap)
    BY <1>4 DEF NotifyPromise
  <2>3. received'[p] = rows /\ \A x \in Parties \ {p} : received'[x] = received[x]
    BY <1>0, <2>1 DEF TypeOK
  <2>4. \A j \in PromiseRounds : p \notin rows[j]
    BY <1>0, <2>1 DEF TypeOK, WaitsInv, Waits
  <2>5. gap \in round[p]..LastRound /\ round[p] \in Nat
    BY <1>0, <2>2 DEF FirstGap, TypeOK
  <2> HIDE DEF rows
  <2>6. CASE AskTrent(p, round[p] + 1)
    BY <1>1, <2>3, <2>4, <2>6
  <2>7. CASE /\ status[p] = "SIGNING" /\ gap > round[p]
             /\ Send(p, round[p] + 1, gap, "SIGNING") /\ UNCHANGED <<listening, deaf>>
    <3>1. gap \in 1..LastRound
      BY <2>5, <2>7, Constants
    <3> QED BY <1>2, <2>3, <2>4, <2>7, <3>1
  <2>8. CASE UNCHANGED <<status, listening, deaf, requests, round, signatures, sent>>
    <3>1. Waits(p)'
      BY <2>3, <2>4, <2>8 DEF WaitsInv, Waits
    <3> QED BY <2>3, <2>8, <3>1, OthersWait
  <2> QED BY <2>2, <2>6, <2>7, <2>8 DEF GoOn
<1>5. ASSUME NEW p \in Parties, NEW q \in Parties, NotifySignature(p, q) PROVE WaitsInv'
  <2> DEFINE sigs == [signatures[p] EXCEPT ![q] = Clear]
  <2>1. /\ listening[p] /\ q # p /\ signatures' = [signatures EXCEPT ![p] = sigs]
        /\ IF IsFinalized(sigs)
           THEN /\ status' = [status EXCEPT ![p] = "FINALIZED"]
                /\ listening' = [listening EXCEPT ![p] = FALSE]
           ELSE UNCHANGED <<status, listening>>
        /\ UNCHANGED <<requests, received, sent>>
    BY <1>5 DEF NotifySignature
  <2>2. signatures'[p] = sigs /\ sigs[p] = signatures[p][p]
    BY <1>0, <2>1 DEF TypeOK
  <2> HIDE DEF sigs
  <2>3. Waits(p)'
    <3>1. CASE IsFinalized(sigs)
      <4>1. status'[p] = "FINALIZED"
        BY <1>0, <2>1, <3>1 DEF TypeOK
      <4> QED BY <2>1, <4>1 DEF WaitsInv, Waits
    <3>2. CASE ~IsFinalized(sigs)
      BY <2>1, <2>2, <3>2 DEF WaitsInv, Waits
    <3> QED BY <3>1, <3>2
  <2>4. \A x \in Parties \ {p} : /\ status'[x] = status[x] /\ signatures'[x] = signatures[x]
                                 /\ listening'[x] = listening[x]
    BY <1>0, <2>1 DEF TypeOK
  <2> QED BY <2>1, <2>3, <2>4, OthersWait
<1>6. ASSUME NEW p \in Parties, NotifyCancelled(p) PROVE WaitsInv'
  <2>1. /\ status' = [status EXCEPT ![p] = "CANCELLED"]
        /\ listening' = [listening EXCEPT ![p] = FALSE]
        /\ UNCHANGED <<requests, received, sent, signatures>>
    BY <1>6 DEF NotifyCancelled
  <2>2. status'[p] = "CANCELLED"
    BY <1>0, <2>1 DEF TypeOK
  <2>3. Waits(p)'
    BY <2>1, <2>2 DEF WaitsInv, Waits
  <2>4. \A x \in Parties \ {p} : status'[x] = status[x] /\ listening'[x] = listening[x]
    BY <1>0, <2>1 DEF TypeOK
  <2> QED BY <2>1, <2>3, <2>4, OthersWait
<1>7. ASSUME NEW p \in Parties, NEW k \in ClaimRounds, NotifyResolved(p, k) PROVE WaitsInv'
  <2> DEFINE sigs == IF k \in {round[p], round[p] - 1, round[p] - 2}
                     THEN [q \in Parties |-> k] ELSE signatures[p]
  <2>1. /\ round[p] > 0 /\ Resolved(k) \in answers
        /\ signatures' = [signatures EXCEPT ![p] = sigs]
        /\ IF IsFinalized(sigs)
           THEN /\ status' = [status EXCEPT ![p] = "FINALIZED"]
                /\ listening' = [listening EXCEPT ![p] = FALSE]
           ELSE UNCHANGED <<status, listening>>
        /\ UNCHANGED <<requests, received, sent>>
    BY <1>7 DEF NotifyResolved
  <2>2. k = 1
    BY <2>1 DEF SigningInv, TrentInv, OpenedByClaim
  <2>3. signatures'[p] = sigs
    BY <1>0, <2>1 DEF TypeOK
  <2>4. ~IsFinalized(sigs) => sigs = signatures[p]
    BY <2>2 DEF IsFinalized, NoSignature
  <2> HIDE DEF sigs
  <2>5. Waits(p)'
    <3>1. CASE IsFinalized(sigs)
      <4>1. status'[p] = "FINALIZED"
        BY <1>0, <2>1, <3>1 DEF TypeOK
      <4> QED BY <2>1, <4>1 DEF WaitsInv, Waits
    <3>2. CASE ~IsFinalized(sigs)
      BY <2>1, <2>3, <2>4, <3>2 DEF WaitsInv, Waits
    <3> QED BY <3>1, <3>2
  <2>6. \A x \in Parties \ {p} : /\ status'[x] = status[x] /\ signatures'[x] = signatures[x]
                                 /\ listening'[x] = listening[x]
    BY <1>0, <2>1 DEF TypeOK
  <2> QED BY <2>1, <2>5, <2>6, OthersWait
<1>8. ASSUME NEW p \in Parties, SetWish(p) PROVE WaitsInv'
  BY <1>8 DEF SetWish, WaitsInv, Waits
<1>9. ASSUME NEW p \in Parties, Resolve(p) PROVE WaitsInv'
  <2>1. AskTrent(p, round[p]) /\ received' = received
    BY <1>9 DEF Resolve
  <2> QED BY <1>1, <2>1 DEF WaitsInv, Waits
<1>10. CASE TrentStep \/ UNCHANGED vars
  BY <1>10 DEF TrentStep, TrentReceives, vars, trentVars, signerVars, WaitsInv, Waits
<1> QED BY <1>3, <1>4, <1>5, <1>6, <1>7, <1>8, <1>9, <1>10 DEF Next

\* The first party of a signed contract has published its clear signature, if
\* Trent was never asked.
LEMMA FirstHasSigned ==
  ASSUME SigningInv, requests = {}, NEW p \in Parties, status[p] = "FINALIZED"
  PROVE  LastRound \in sent[1]
<1>1. 1 \in Parties /\ signatures[p][1] # NoSignature
  BY Constants DEF SigningInv, OutcomeInv, FinalizedHasFirst
<1>2. \A k \in ClaimRounds : Resolved(k) \notin answers
  BY DEF SigningInv, OutcomeInv, OpenedWasAsked
<1> QED BY <1>1, <1>2 DEF SigningInv, OutcomeInv, SignaturesAreReal

\* A signer is not kept by promises that have all been published.
LEMMA GoesPast ==
  ASSUME SigningInv, ClaimsInv, WaitsInv, NEW p \in Parties, status[p] = "SIGNING",
         HasFoundAll(p), round[p] < LastRound
  PROVE  \E q \in Others(p) : round[p] \notin sent[q]
<1> SUFFICES ASSUME \A q \in Others(p) : round[p] \in sent[q] PROVE FALSE
  OBVIOUS
<1>1. round[p] \in PromiseRounds
  BY Constants DEF SigningInv, TypeOK, SignersInv, NotStarted, PromiseRounds, LastRound
<1>2. Others(p) \subseteq received[p][round[p]]
  BY <1>1, Constants DEF HasFoundAll
<1>3. received[p][round[p]] \subseteq Others(p)
  BY <1>1 DEF SigningInv, TypeOK, WaitsInv, Waits, Others
<1>4. received[p][round[p]] = Others(p)
  BY <1>2, <1>3
<1> QED BY <1>4 DEF ClaimsInv, Claims

LEMMA NobodyWaits == SigningInv /\ ClaimsInv /\ WaitsInv => AllFoundAllSigned
<1> SUFFICES ASSUME SigningInv, ClaimsInv, WaitsInv, requests = {},
                    \A p \in Parties : round[p] > 0 /\ (status[p] = "SIGNING" => HasFoundAll(p)),
                    NEW late \in Parties, status[late] # "FINALIZED"
             PROVE  FALSE
  BY DEF AllFoundAllSigned
<1>1. \A p \in Parties : status[p] \in {"SIGNING", "FINALIZED"}
  <2>1. ~HasAborted
    BY DEF SigningInv, OutcomeInv, ListByAbort, TrentInv, CancelledByList
  <2>2. \A p \in Parties : status[p] # "NOWHERE"
    BY DEF SigningInv, SignersInv, NotStarted
  <2>3. \A p \in Parties : status[p] \notin {"CANCELLED", "RESOLVING"}
    BY <2>1 DEF SigningInv, OutcomeInv, CancelledByTrent, WaitsInv, Waits
  <2> QED BY <2>2, <2>3 DEF SigningInv, TypeOK
<1>2. /\ \A p \in Parties : round[p] \in 1..LastRound /\ sent[p] \subseteq 1..round[p]
      /\ \A p, q \in Parties : \A k \in 1..(round[p] - 1) : k \in sent[q]
      /\ \A p \in Parties : status[p] = "SIGNING" => round[p] \in sent[p]
  BY Constants DEF SigningInv, TypeOK, SignersInv, NotStarted, HoldsAllBelow, SigningHasSent
<1>3. CASE \E q \in Parties : LastRound \in sent[q]
  <2>1. PICK q \in Parties : LastRound \in sent[q]
    BY <1>3
  <2>2. round[q] = LastRound
    BY <1>2, <2>1, Constants
  <2>3. \A p \in Parties : status[p] = "SIGNING" => LastRound \in sent[p]
    <3> SUFFICES ASSUME NEW p \in Parties, status[p] = "SIGNING", round[p] # LastRound PROVE FALSE
      BY <1>2
    <3>1. round[p] < LastRound /\ round[p] \in 1..(round[q] - 1)
      BY <1>2, <2>2, Constants
    <3>2. \A x \in Others(p) : round[p] \in sent[x]
      BY <1>2, <3>1 DEF Others
    <3> QED BY <3>1, <3>2, GoesPast
  <2>4. 1 \in Parties /\ LastRound \in sent[1]
    BY <1>1, <2>3, FirstHasSigned, Constants
  <2>5. status[late] = "SIGNING" /\ signatures[late][1] = Clear
    BY <1>1, <2>3, <2>4 DEF HasFoundAll, Others, WaitsInv, Waits
  <2>6. IsFinalized(signatures[late])
    <3>1. \A x \in Parties : x = 1 \/ 1 \in 1..(x - 1)
      BY DEF Parties
    <3> QED BY <2>5, <3>1, Constants DEF IsFinalized, NoSignature
  <2> QED BY <2>5, <2>6 DEF WaitsInv, Waits
<1>4. CASE \A q \in Parties : LastRound \notin sent[q]
  <2>1. \A p \in Parties : status[p] = "SIGNING" /\ round[p] < LastRound
    BY <1>1, <1>2, <1>4, FirstHasSigned, Constants
  <2>2. PICK q \in Others(late) : round[late] \notin sent[q]
    BY <2>1, GoesPast
  <2>3. q \in Parties /\ round[q] < round[late]
    <3>1. q \in Parties /\ round[q] # round[late]
      BY <1>2, <2>1, <2>2 DEF Others
    <3>2. ~(round[q] > round[late])
      BY <1>2, <2>2, <3>1
    <3> QED BY <1>2, <3>1, <3>2
  <2>4. PICK x \in Others(q) : round[q] \notin sent[x]
    BY <2>1, <2>3, GoesPast
  <2>5. x \in Parties /\ round[q] \in 1..(round[late] - 1)
    BY <1>2, <2>3, <2>4 DEF Others
  <2> QED BY <1>2, <2>4, <2>5
<1> QED BY <1>3, <1>4

\* ProtocolSign.java:183: when Trent is not asked nobody waits for ever for a
\* message that is not published: once all that is published has been found,
\* in whatever order, everybody has the signed contract.  It is what keeps
\* EverybodySigns from being stopped, for any number of signers.
THEOREM SigningNeverStuck == Spec => []AllFoundAllSigned
<1>1. Init => WaitsInv
  <2> SUFFICES ASSUME Init, NEW p \in Parties PROVE Waits(p)
    BY DEF WaitsInv
  <2>1. /\ status[p] = "NOWHERE" /\ ~listening[p]
        /\ signatures[p] = [q \in Parties |-> NoSignature]
        /\ \A k \in PromiseRounds : received[p][k] = {}
    BY DEF Init
  <2>2. ~IsFinalized(signatures[p])
    <3>1. 1 \in Parties /\ 1..(1 - 1) = {}
      BY Constants
    <3> QED BY <2>1, <3>1 DEF IsFinalized
  <2> QED BY <2>1, <2>2 DEF Waits
<1> QED BY <1>1, WaitsStep, NobodyWaits, SigningInvariant, SigningClaims, PTL DEF Spec

----------------------------------------------------------------------------
(* The signers are among those that Trent must be ready for.               *)

LEMMA StepDrivesTrent == SigningInv /\ [Next]_vars => [TrentNext]_trentVars
<1> SUFFICES ASSUME SigningInv, Next PROVE TrentNext \/ UNCHANGED trentVars
  BY DEF vars
<1>0. /\ \A p \in Parties : round[p] \in 0..LastRound
      /\ \A r \in 1..LastRound : r - 1 \in ClaimRounds
  BY Constants DEF SigningInv, TypeOK, ClaimRounds, LastRound
<1>1. ASSUME NEW p \in Parties, NEW r \in 1..LastRound, AskTrent(p, r), UNCHANGED solverVars
      PROVE  TrentNext
  BY <1>0, <1>1 DEF AskTrent, AskTrentFor, TrentNext, Ask
<1>2. CASE TrentStep
  BY <1>2 DEF TrentStep, TrentNext
<1>3. ASSUME NEW p \in Parties, Start(p) PROVE TrentNext \/ UNCHANGED trentVars
  BY <1>1, <1>3, Constants DEF Start, Send, trentVars
<1>4. ASSUME NEW p \in Parties, NEW q \in Parties, NEW k \in PromiseRounds,
             NotifyPromise(p, q, k)
      PROVE  TrentNext \/ UNCHANGED trentVars
  <2>1. PICK gap \in 0..LastRound : /\ FirstGap(gap, p, received'[p], round[p])
                                    /\ GoOn(p, gap) /\ UNCHANGED solverVars
    BY <1>4 DEF NotifyPromise, SigningInv, TypeOK
  <2>2. gap \in round[p]..LastRound
    BY <2>1 DEF FirstGap
  <2>3. gap > round[p] => round[p] + 1 \in 1..LastRound
    BY <1>0, <2>2, Constants
  <2> QED BY <1>1, <2>1, <2>3 DEF GoOn, Send, trentVars
<1>5. ASSUME NEW p \in Parties, Resolve(p) PROVE TrentNext \/ UNCHANGED trentVars
  <2>1. round[p] # 0
    BY <1>5 DEF Resolve, SigningInv, SignersInv, NotStarted
  <2> QED BY <1>0, <1>1, <1>5, <2>1, Constants DEF Resolve
<1>6. ASSUME NEW p \in Parties,
             \/ \E q \in Parties : NotifySignature(p, q)
             \/ NotifyCancelled(p) \/ SetWish(p)
             \/ \E k \in ClaimRounds : NotifyResolved(p, k)
      PROVE  UNCHANGED trentVars
  BY <1>6 DEF NotifySignature, NotifyCancelled, NotifyResolved, SetWish, trentVars
<1> QED BY <1>2, <1>3, <1>4, <1>5, <1>6 DEF Next

\* Trent and its signers implement Trent among signers that may ask anything:
\* what Trent guarantees whatever it is asked, it guarantees to them.
THEOREM SigningDrivesTrent == Spec => TrentSpec
<1>1. Init => TrentInit
  BY DEF Init
<1> QED BY <1>1, StepDrivesTrent, SigningInvariant, PTL DEF Spec, TrentSpec

\* In the protocol too, Trent accuses nobody once it has opened the promises.
THEOREM SigningNoAccusationOnceOpened == Spec => NoAccusationOnceOpened
BY SigningDrivesTrent, TrentNeverAccusesOnceOpened, PTL

----------------------------------------------------------------------------
(* The signers and Trent implement the fair exchange.  A step keeps what   *)
(* has been answered and sent, changes the status of one signer at most    *)
(* and takes no outcome back (NextShape); what a signer has learnt is the  *)
(* verdict (SettledByVerdict).                                             *)

Settled(p) == status[p] \in {"FINALIZED", "CANCELLED"}
SomeoneSigned == HasResolved \/ \E p \in Parties : LastRound \in sent[p]

SettledByVerdict ==
  /\ ~(HasAborted /\ SomeoneSigned)
  /\ \A p \in Parties : /\ status[p] = "FINALIZED" => SomeoneSigned
                        /\ status[p] = "CANCELLED" => HasAborted

LEMMA InvImpliesSettled == SigningInv => SettledByVerdict
<1> SUFFICES ASSUME SigningInv PROVE SettledByVerdict
  OBVIOUS
<1>1. ~(HasAborted /\ SomeoneSigned)
  BY CancelledKeepsBack, ClearNeedsSecondRound, InvImpliesExclusive
     DEF SomeoneSigned, SigningInv, Exclusive
<1>2. ASSUME NEW p \in Parties, status[p] = "FINALIZED" PROVE SomeoneSigned
  BY <1>2, Constants DEF SigningInv, OutcomeInv, FinalizedHasFirst, SignaturesAreReal,
     SomeoneSigned, HasResolved
<1>3. ASSUME NEW p \in Parties, status[p] = "CANCELLED" PROVE HasAborted
  BY <1>3 DEF SigningInv, OutcomeInv, CancelledByTrent
<1> QED BY <1>1, <1>2, <1>3 DEF SettledByVerdict

LEMMA NextShape ==
  ASSUME SigningInv, Next
  PROVE  /\ answers \subseteq answers'
         /\ \A p \in Parties : sent[p] \subseteq sent'[p]
         /\ \E p \in Parties : /\ \A q \in Others(p) : status'[q] = status[q]
                               /\ Settled(p) => Settled(p)'
<1> DEFINE Shape == /\ answers \subseteq answers'
                    /\ \A p \in Parties : sent[p] \subseteq sent'[p]
                    /\ \E p \in Parties : /\ \A q \in Others(p) : status'[q] = status[q]
                                          /\ Settled(p) => Settled(p)'
<1>0. /\ status \in [Parties -> {"NOWHERE", "SIGNING", "RESOLVING", "CANCELLED", "FINALIZED"}]
      /\ sent \in [Parties -> SUBSET (1..LastRound)]
      /\ \A p \in Parties : round[p] = 0 <=> status[p] = "NOWHERE"
  BY DEF SigningInv, TypeOK, SignersInv, NotStarted
<1>1. CASE TrentStep
  BY <1>1, Constants
     DEF TrentStep, TrentReceives, signerVars, Settled, ResolveT, OtherShownDishonest,
         SenderContradictsItself, SenderShownDishonest, OpenPromises, PileUp, Throw, Publish
<1>2. ASSUME NEW p \in Parties, Start(p) PROVE Shape
  BY <1>0, <1>2 DEF Start, AskTrent, AskTrentFor, Send, solverVars, Settled, Others
<1>3. ASSUME NEW p \in Parties, NEW q \in Parties, NEW k \in PromiseRounds,
             NotifyPromise(p, q, k)
      PROVE  Shape
  BY <1>0, <1>3 DEF NotifyPromise, GoOn, AskTrent, AskTrentFor, Send, solverVars, Settled, Others
<1>4. ASSUME NEW p \in Parties, NEW q \in Parties, NotifySignature(p, q) PROVE Shape
  BY <1>0, <1>4 DEF NotifySignature, solverVars, Settled, Others
<1>5. ASSUME NEW p \in Parties, NotifyCancelled(p) PROVE Shape
  BY <1>0, <1>5 DEF NotifyCancelled, solverVars, Settled, Others
<1>6. ASSUME NEW p \in Parties, NEW k \in ClaimRounds, NotifyResolved(p, k) PROVE Shape
  BY <1>0, <1>6 DEF NotifyResolved, solverVars, Settled, Others
<1>7. ASSUME NEW p \in Parties, SetWish(p) PROVE Shape
  BY <1>0, <1>7 DEF SetWish, solverVars, Settled, Others
<1>8. ASSUME NEW p \in Parties, Resolve(p) PROVE Shape
  BY <1>0, <1>8 DEF Resolve, AskTrent, AskTrentFor, solverVars, Settled, Others
<1> QED BY <1>1, <1>2, <1>3, <1>4, <1>5, <1>6, <1>7, <1>8 DEF Next

LEMMA StepImplementsExchange ==
  ASSUME SigningInv, SigningInv', Next
  PROVE  Exchange!Next \/ UNCHANGED Exchange!vars
<1>1. SettledByVerdict /\ SettledByVerdict'
  <2>1. SigningInv' => SettledByVerdict'
    BY InvImpliesSettled, PTL
  <2> QED BY <2>1, InvImpliesSettled
<1>2. PICK p \in Parties : /\ \A q \in Others(p) : status'[q] = status[q]
                           /\ Settled(p) => Settled(p)'
  BY NextShape
<1>3. (HasAborted => HasAborted') /\ (SomeoneSigned => SomeoneSigned')
  BY NextShape DEF HasAborted, SomeoneSigned, HasResolved
<1>4. /\ HasAborted => Verdict = "cancelled"
      /\ SomeoneSigned => Verdict = "signed"
      /\ ~HasAborted /\ ~SomeoneSigned => Verdict = "open"
      /\ HasAborted' => Verdict' = "cancelled"
      /\ SomeoneSigned' => Verdict' = "signed"
      /\ ~HasAborted' /\ ~SomeoneSigned' => Verdict' = "open"
  BY <1>1 DEF SettledByVerdict, Verdict, SomeoneSigned
<1>5. /\ Verdict # "open" => Verdict' = Verdict
      /\ Verdict' \in {"open", "signed", "cancelled"}
  BY <1>3, <1>4
<1>6. /\ Outcome \in [Parties -> {"pending", "signed", "cancelled"}]
      /\ Outcome' = [q \in Parties |-> Outcome'[q]]
      /\ \A q \in Parties : /\ Outcome[q] = "pending" \/ Outcome[q] = Verdict
                            /\ Outcome'[q] = "pending" \/ Outcome'[q] = Verdict'
                            /\ Outcome[q] # "pending" <=> Settled(q)
                            /\ Outcome'[q] # "pending" <=> Settled(q)'
  BY <1>1, <1>4 DEF Outcome, SettledByVerdict, Settled
<1>7. \A q \in Others(p) : Outcome'[q] = Outcome[q]
  BY <1>2 DEF Outcome, Others
<1>8. CASE Verdict' = Verdict
  <2>1. CASE Outcome'[p] = Outcome[p]
    <3>1. Outcome' = Outcome
      BY <2>1, <1>6, <1>7 DEF Others
    <3> QED BY <3>1, <1>8 DEF Exchange!vars
  <2>2. CASE Outcome'[p] # Outcome[p]
    <3>1. Outcome'[p] = Verdict /\ Verdict # "open"
      BY <2>2, <1>1, <1>2, <1>4, <1>6, <1>8 DEF SettledByVerdict, Settled
    <3>2. Outcome' = [Outcome EXCEPT ![p] = Verdict]
      BY <3>1, <1>6, <1>7 DEF Others
    <3> QED BY <3>1, <3>2, <1>8 DEF Exchange!Next, Exchange!Learn
  <2> QED BY <2>1, <2>2
<1>9. CASE Verdict' # Verdict
  <2> DEFINE learners == {q \in Parties : Outcome'[q] = Verdict'}
  <2>1. Verdict = "open" /\ Verdict' \in {"signed", "cancelled"}
    BY <1>5, <1>9
  <2>2. \A q \in Parties : Outcome[q] = "pending"
    BY <2>1, <1>1, <1>4, <1>6 DEF SettledByVerdict, Settled
  <2>3. Outcome' = [q \in Parties |-> IF q \in learners THEN Verdict' ELSE Outcome[q]]
    BY <2>2, <1>6
  <2>4. Exchange!Decide(Verdict')
    BY <2>1, <2>3 DEF Exchange!Decide
  <2> QED BY <2>1, <2>4 DEF Exchange!Next
<1> QED BY <1>8, <1>9

\* The signers and Trent implement the fair exchange: one decision is made,
\* and nobody ever learns, or comes to believe, anything else.
THEOREM SigningIsFair == Spec => FairExchangeSpec
<1>1. Init => Exchange!Init
  BY DEF Init, TrentInit, SolverInit, Exchange!Init, Verdict, Outcome, HasAborted, HasResolved
<1>2. SigningInv /\ SigningInv' /\ [Next]_vars => [Exchange!Next]_Exchange!vars
  <2>1. CASE Next
    BY <2>1, StepImplementsExchange
  <2>2. CASE UNCHANGED vars
    BY <2>2 DEF vars, trentVars, solverVars, signerVars, Exchange!vars, Verdict, Outcome,
       HasAborted, HasResolved
  <2> QED BY <2>1, <2>2
<1> QED BY <1>1, <1>2, SigningInvariant, PTL DEF Spec, FairExchangeSpec, Exchange!Spec
=============================================================================
