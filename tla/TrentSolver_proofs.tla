------------------------- MODULE TrentSolver_proofs -------------------------
(***************************************************************************)
(* What Trent guarantees whatever it is asked, for any number of signers.  *)
(*                                                                         *)
(* The invariant ties the three pieces of state on which resolveT decides: *)
(* the list of piled-up claims is never empty again once something has     *)
(* been cancelled (maps are emptied, never removed, so that no abort is    *)
(* ever overturned), and is empty for ever once something has been opened. *)
(***************************************************************************)
EXTENDS TrentSolver, SequenceTheorems, TLAPS

\* Every map of the list holds requests that were really made.
ListedWereAsked ==
  \A i \in DOMAIN possiblyHonestClaims : possiblyHonestClaims[i] \subseteq requests
OpenedOnEmptyList == ~optimistic => possiblyHonestClaims = <<>>
CancelledByList == HasAborted => possiblyHonestClaims # <<>>
OpenedByClaim == \A k \in ClaimRounds : Resolved(k) \in answers => ~optimistic /\ k = 1

TrentInv ==
  /\ TrentTypeOK
  /\ ListedWereAsked
  /\ AccusedHaveAsked
  /\ OpenedOnEmptyList
  /\ CancelledByList
  /\ OpenedByClaim

\* No two answers of different kinds are the same answer.
LEMMA AnswersDiffer ==
  /\ Aborted # HonestyToken
  /\ \A k \in ClaimRounds : Resolved(k) \notin {Aborted, HonestyToken}
  /\ \A p \in Parties : Dishonest(p) \notin {Aborted, HonestyToken}
  /\ \A p \in Parties, k \in ClaimRounds : Dishonest(p) # Resolved(k)
  /\ \A j, k \in ClaimRounds : Resolved(j) = Resolved(k) => j = k
BY DEF Aborted, HonestyToken, Resolved, Dishonest

LEMMA AnswersTyped ==
  /\ Aborted \in Answer /\ HonestyToken \in Answer
  /\ \A k \in ClaimRounds : Resolved(k) \in Answer
  /\ \A p \in Parties : Dishonest(p) \in Answer
BY DEF Aborted, HonestyToken, Resolved, Dishonest, Answer

\* Withdrawing a claim changes neither the length of the list nor adds to it.
LEMMA WithdrawShrinks ==
  ASSUME possiblyHonestClaims \in Seq(SUBSET Request),
         NEW k, NEW S, Withdraw(k, S)
  PROVE  /\ possiblyHonestClaims' \in Seq(SUBSET Request)
         /\ DOMAIN possiblyHonestClaims' = DOMAIN possiblyHonestClaims
         /\ \A i \in DOMAIN possiblyHonestClaims :
              possiblyHonestClaims'[i] \subseteq possiblyHonestClaims[i]
         /\ possiblyHonestClaims' = <<>> <=> possiblyHonestClaims = <<>>
<1> DEFINE s == possiblyHonestClaims
           t == [s EXCEPT ![k + 1] = @ \ S]
<1>1. /\ Len(s) \in Nat
      /\ s \in [1..Len(s) -> SUBSET Request]
      /\ DOMAIN s = 1..Len(s)
  BY LenProperties
<1>2. /\ t \in [1..Len(s) -> SUBSET Request]
      /\ \A i \in 1..Len(s) : t[i] \subseteq s[i]
  BY <1>1
<1>3. t \in Seq(SUBSET Request)
  BY <1>1, <1>2, SeqDef
<1>4. t = <<>> <=> s = <<>>
  <2>1. DOMAIN t = 1..Len(s) /\ (t = <<>> <=> Len(t) = 0) /\ (s = <<>> <=> Len(s) = 0)
    BY <1>1, <1>2, <1>3, EmptySeq
  <2>2. Len(t) = Len(s)
    BY <2>1, <1>1, <1>3, LenProperties
  <2> QED BY <2>1, <2>2
<1>5. possiblyHonestClaims' = t
  BY DEF Withdraw
<1> QED BY <1>1, <1>2, <1>3, <1>4, <1>5

\* Inserting a claim's map: the others are still there, possibly moved.
LEMMA InsertedList ==
  ASSUME NEW T, NEW s \in Seq(T), NEW k \in 1..(Len(s) + 1), NEW m \in T
  PROVE  /\ InsertAt(s, k, m) \in Seq(T)
         /\ InsertAt(s, k, m) # <<>>
         /\ \A i \in DOMAIN InsertAt(s, k, m) :
              InsertAt(s, k, m)[i] = m \/ \E j \in DOMAIN s : InsertAt(s, k, m)[i] = s[j]
<1> DEFINE a == SubSeq(s, 1, k - 1)
           b == SubSeq(s, k, Len(s))
<1>1. /\ a \in Seq(T) /\ Len(a) = k - 1
      /\ \A i \in 1..Len(a) : a[i] = s[i]
  OBVIOUS
<1>2. /\ b \in Seq(T) /\ Len(b) = Len(s) - k + 1
      /\ \A i \in 1..Len(b) : b[i] = s[k + i - 1]
  OBVIOUS
<1> HIDE DEF a, b
<1>3. InsertAt(s, k, m) = (a \o <<m>>) \o b
  BY DEF InsertAt, a, b
<1>4. /\ a \o <<m>> \in Seq(T) /\ Len(a \o <<m>>) = k
      /\ \A i \in 1..k : (a \o <<m>>)[i] = IF i < k THEN a[i] ELSE m
  BY <1>1
<1> DEFINE c == a \o <<m>>
<1>5. /\ c \in Seq(T) /\ Len(c) = k
      /\ \A i \in 1..k : c[i] = IF i < k THEN a[i] ELSE m
  BY <1>4
<1> HIDE DEF c
<1>6. /\ c \o b \in Seq(T) /\ Len(c \o b) = Len(s) + 1
      /\ \A i \in 1..(Len(s) + 1) : (c \o b)[i] = IF i <= k THEN c[i] ELSE b[i - k]
  <2>1. Len(c) + Len(b) = Len(s) + 1
    BY <1>5, <1>2
  <2>2. c \in Seq(T) /\ b \in Seq(T)
    BY <1>5, <1>2
  <2>3. /\ c \o b \in Seq(T)
        /\ Len(c \o b) = Len(c) + Len(b)
        /\ \A i \in 1..(Len(c) + Len(b)) :
             (c \o b)[i] = IF i <= Len(c) THEN c[i] ELSE b[i - Len(c)]
    BY <2>2, ConcatProperties
  <2>4. Len(c) = k
    BY <1>5
  <2> QED BY <2>1, <2>3, <2>4
<1>7. c \o b # <<>>
  BY <1>6
<1>8. ASSUME NEW i \in 1..(Len(s) + 1)
      PROVE  (c \o b)[i] = m \/ \E j \in DOMAIN s : (c \o b)[i] = s[j]
  <2>1. CASE i < k
    BY <2>1, <1>6, <1>5, <1>1
  <2>2. CASE i = k
    BY <2>2, <1>6, <1>5
  <2>3. CASE i > k
    <3>1. (c \o b)[i] = b[i - k] /\ i - k \in 1..Len(b)
      BY <2>3, <1>6, <1>2
    <3>2. b[i - k] = s[i - 1] /\ i - 1 \in DOMAIN s
      BY <3>1, <1>2, <2>3
    <3> QED BY <3>1, <3>2
  <2>4. i < k \/ i = k \/ i > k
    OBVIOUS
  <2> QED BY <2>1, <2>2, <2>3, <2>4
<1> QED BY <1>3, <1>6, <1>7, <1>8 DEF c

LEMMA TrentInitInv == TrentInit => TrentInv
BY DEF TrentInit, SolverInit, TrentInv, TrentTypeOK, ListedWereAsked,
       AccusedHaveAsked, OpenedOnEmptyList, CancelledByList, OpenedByClaim,
       HasAborted, ClaimRounds

\* More requests never hurt: whoever publishes one keeps the invariant.
LEMMA MoreRequestsInv ==
  ASSUME TrentInv, requests' \subseteq Request, requests \subseteq requests',
         UNCHANGED solverVars
  PROVE  TrentInv'
BY DEF TrentInv, TrentTypeOK, solverVars, ListedWereAsked, AccusedHaveAsked,
       OpenedOnEmptyList, CancelledByList, OpenedByClaim, HasAborted

\* Evidence is only ever found in a list that is not empty.
LEMMA EvidenceNeedsClaims ==
  ASSUME NEW req \in Request,
         Overtaken(req) # {} \/ OwnOther(req) # {} \/ Overtaking(req) # {},
         possiblyHonestClaims \in Seq(SUBSET Request)
  PROVE  possiblyHonestClaims # <<>>
<1>1. SUFFICES ASSUME possiblyHonestClaims = <<>> PROVE FALSE
  OBVIOUS
<1>2. Size = 0
  BY <1>1 DEF Size
<1>3. req.round \in Int
  BY NAssumption DEF Request, ClaimRounds
<1>4. \A k \in Nat : ~Occupied(k)
  BY <1>2 DEF Occupied
<1>5. Overtaken(req) = {}
  BY <1>3, <1>4 DEF Overtaken
<1>6. Overtaking(req) = {}
  <2>1. req.round \in Nat
    BY NAssumption DEF Request, ClaimRounds
  <2>2. (req.round + 1)..(N - 1) \subseteq Nat
    BY <2>1, NAssumption
  <2> QED BY <1>4, <2>2 DEF Overtaking
<1>7. OwnOther(req) = {}
  BY <1>2 DEF OwnOther
<1> QED BY <1>5, <1>6, <1>7

\* The three outcomes that withdraw a claim and accuse somebody that asked.
LEMMA AccusationInv ==
  ASSUME TrentInv, NEW k, NEW S, Withdraw(k, S), possiblyHonestClaims # <<>>,
         NEW p \in Parties, \E r \in requests : r.by = p,
         dishonestClaims' = dishonestClaims \cup {p},
         NEW a \in {HonestyToken} \cup {Dishonest(q) : q \in Parties}, Publish(a),
         UNCHANGED <<requests, optimistic, failed>>
  PROVE  TrentInv'
<1>1. /\ possiblyHonestClaims' \in Seq(SUBSET Request)
      /\ DOMAIN possiblyHonestClaims' = DOMAIN possiblyHonestClaims
      /\ \A i \in DOMAIN possiblyHonestClaims :
           possiblyHonestClaims'[i] \subseteq possiblyHonestClaims[i]
      /\ possiblyHonestClaims' # <<>>
  BY WithdrawShrinks DEF TrentInv, TrentTypeOK
<1>2. a \in Answer /\ \A j \in ClaimRounds : a # Resolved(j)
  BY AnswersTyped, AnswersDiffer
<1>3. TrentTypeOK'
  BY <1>1, <1>2 DEF TrentInv, TrentTypeOK, Publish
<1>4. ListedWereAsked'
  BY <1>1 DEF TrentInv, ListedWereAsked
<1>5. AccusedHaveAsked'
  BY DEF TrentInv, AccusedHaveAsked
<1>6. OpenedOnEmptyList' /\ CancelledByList'
  BY <1>1 DEF TrentInv, OpenedOnEmptyList, CancelledByList
<1>7. OpenedByClaim'
  BY <1>2 DEF TrentInv, OpenedByClaim, Publish
<1> QED BY <1>3, <1>4, <1>5, <1>6, <1>7 DEF TrentInv

LEMMA ResolveTInv ==
  ASSUME TrentInv, NEW req \in requests, ResolveT(req), UNCHANGED requests
  PROVE  TrentInv'
<1> USE DEF TrentInv
<1>0. /\ req \in Request /\ req.by \in Parties
      /\ req.round \in ClaimRounds /\ req.round \in Nat
      /\ possiblyHonestClaims \in Seq(SUBSET Request)
  BY NAssumption DEF TrentTypeOK, Request, ClaimRounds
<1>1. CASE OtherShownDishonest(req)
  <2>1. PICK k \in Overtaken(req) :
          \E c \in At(k) : /\ dishonestClaims' = dishonestClaims \cup {c.by}
                           /\ Withdraw(k, {c})
    BY <1>1 DEF OtherShownDishonest
  <2>2. PICK c \in At(k) : /\ dishonestClaims' = dishonestClaims \cup {c.by}
                           /\ Withdraw(k, {c})
    BY <2>1
  <2>3. k + 1 \in DOMAIN possiblyHonestClaims
    <3>1. k \in Nat /\ k < Len(possiblyHonestClaims)
      BY <1>0 DEF Overtaken, Occupied, Size
    <3> QED BY <3>1, <1>0, LenProperties
  <2>4. c \in requests /\ c.by \in Parties
    BY <2>3 DEF At, ListedWereAsked, TrentTypeOK, Request
  <2>5. possiblyHonestClaims # <<>>
    BY <1>0, <1>1, EvidenceNeedsClaims DEF OtherShownDishonest
  <2> QED BY <1>1, <2>2, <2>4, <2>5, AccusationInv DEF OtherShownDishonest
<1>2. CASE SenderContradictsItself(req)
  <2>1. PICK k \in OwnOther(req) : Withdraw(IndexOf(At(k)), ClaimsOf(req.by))
    BY <1>2 DEF SenderContradictsItself
  <2>2. possiblyHonestClaims # <<>>
    BY <1>0, <1>2, EvidenceNeedsClaims DEF SenderContradictsItself
  <2> QED BY <1>0, <1>2, <2>1, <2>2, AccusationInv DEF SenderContradictsItself
<1>3. CASE SenderShownDishonest(req)
  <2>1. PICK k \in Overtaking(req) : Withdraw(k, ClaimsOf(req.by))
    BY <1>3 DEF SenderShownDishonest
  <2>2. possiblyHonestClaims # <<>>
    BY <1>0, <1>3, EvidenceNeedsClaims DEF SenderShownDishonest
  <2> QED BY <1>0, <1>3, <2>1, <2>2, AccusationInv DEF SenderShownDishonest
<1>4. CASE OpenPromises(req)
  <2>1. possiblyHonestClaims = <<>>
    BY <1>4 DEF OpenPromises, Opens, OpenedOnEmptyList
  <2>2. req.round = 1
    <3>1. Overtaken(req) = {} /\ ~RunsOff(req)
      BY <1>4 DEF OpenPromises, MayBeHonest
    <3>2. Size = 0
      BY <2>1 DEF Size
    <3> QED BY <3>1, <3>2, <1>0, <1>4 DEF RunsOff, OpenPromises
  <2>3. /\ Resolved(req.round) \in Answer
        /\ Resolved(req.round) \notin {Aborted, HonestyToken}
        /\ \A k \in ClaimRounds : Resolved(k) = Resolved(req.round) => k = 1
    BY <1>0, <2>2, AnswersTyped, AnswersDiffer
  <2>4. /\ UNCHANGED <<requests, possiblyHonestClaims, dishonestClaims, failed>>
        /\ optimistic' = FALSE
        /\ answers' = answers \cup {Resolved(req.round)}
    BY <1>4 DEF OpenPromises, Publish
  <2>5. TrentTypeOK'
    BY <2>3, <2>4 DEF TrentTypeOK
  <2>6. ListedWereAsked' /\ AccusedHaveAsked'
    BY <2>4 DEF ListedWereAsked, AccusedHaveAsked
  <2>7. OpenedOnEmptyList' /\ CancelledByList' /\ OpenedByClaim'
    BY <2>1, <2>3, <2>4 DEF OpenedOnEmptyList, CancelledByList, OpenedByClaim, HasAborted
  <2> QED BY <2>5, <2>6, <2>7
<1>5. CASE PileUp(req)
  <2> DEFINE s == possiblyHonestClaims
             t == InsertAt(s, req.round + 1, {req})
  <2>1. possiblyHonestClaims' = t
    BY <1>5 DEF PileUp
  <2>2. req.round + 1 \in 1..(Len(s) + 1)
    BY <1>0, <1>5, LenProperties DEF PileUp, Size
  <2>3. /\ t \in Seq(SUBSET Request) /\ t # <<>>
        /\ \A i \in DOMAIN t : t[i] = {req} \/ \E j \in DOMAIN s : t[i] = s[j]
    <3> DEFINE k == req.round + 1
               m == {req}
    <3>1. s \in Seq(SUBSET Request) /\ m \in SUBSET Request
      BY <1>0
    <3> HIDE DEF s, k, m
    <3>2. k \in 1..(Len(s) + 1)
      BY <2>2 DEF k
    <3>3. /\ InsertAt(s, k, m) \in Seq(SUBSET Request)
          /\ InsertAt(s, k, m) # <<>>
          /\ \A i \in DOMAIN InsertAt(s, k, m) :
               InsertAt(s, k, m)[i] = m \/ \E j \in DOMAIN s : InsertAt(s, k, m)[i] = s[j]
      BY <3>1, <3>2, InsertedList
    <3> QED BY <3>3 DEF k, m
  <2>4. /\ UNCHANGED <<requests, dishonestClaims, optimistic, failed>>
        /\ answers' = answers \cup {Aborted}
    BY <1>5 DEF PileUp, Publish
  <2>5. optimistic
    BY <1>5 DEF PileUp, Opens
  <2>6. TrentTypeOK'
    BY <2>1, <2>3, <2>4, AnswersTyped DEF TrentTypeOK
  <2>7. ListedWereAsked'
    BY <2>1, <2>3, <2>4 DEF ListedWereAsked
  <2>8. AccusedHaveAsked'
    BY <2>4 DEF AccusedHaveAsked
  <2>9. OpenedOnEmptyList' /\ CancelledByList' /\ OpenedByClaim'
    BY <2>1, <2>3, <2>4, <2>5, AnswersDiffer
       DEF OpenedOnEmptyList, CancelledByList, OpenedByClaim
  <2> QED BY <2>6, <2>7, <2>8, <2>9
<1>6. CASE Throw(req)
  BY <1>0, <1>6 DEF Throw, TrentTypeOK, ListedWereAsked, AccusedHaveAsked,
     OpenedOnEmptyList, CancelledByList, OpenedByClaim, HasAborted
<1> QED
  BY <1>1, <1>2, <1>3, <1>4, <1>5, <1>6 DEF ResolveT

LEMMA TrentStepInv == TrentInv /\ [TrentNext]_trentVars => TrentInv'
<1> SUFFICES ASSUME TrentInv, [TrentNext]_trentVars PROVE TrentInv'
  OBVIOUS
<1>1. CASE TrentReceives
  BY <1>1, ResolveTInv DEF TrentReceives
<1>2. CASE \E p \in Parties, r \in ClaimRounds : Ask(p, r)
  <2>1. PICK p \in Parties, r \in ClaimRounds : Ask(p, r)
    BY <1>2
  <2>2. requests' \subseteq Request /\ requests \subseteq requests'
    BY <2>1 DEF Ask, Request, TrentInv, TrentTypeOK
  <2> QED BY <2>1, <2>2, MoreRequestsInv DEF Ask
<1>3. CASE UNCHANGED trentVars
  BY <1>3, MoreRequestsInv DEF trentVars, TrentInv, TrentTypeOK
<1> QED BY <1>1, <1>2, <1>3 DEF TrentNext

\* The invariant holds in every behaviour of Trent.
THEOREM TrentInvariant == TrentSpec => []TrentInv
BY TrentInitInv, TrentStepInv, PTL DEF TrentSpec

LEMMA InvImpliesExclusive == TrentInv => Exclusive
BY DEF TrentInv, Exclusive, HasResolved, OpenedByClaim, OpenedOnEmptyList, CancelledByList

\* Trent's state keeps its type: in particular resolveT, which indexes the
\* list by rounds, only ever leaves a list of maps of well-formed claims.
THEOREM TrentTypeCorrect == TrentSpec => []TrentTypeOK
<1>1. TrentInv => TrentTypeOK
  BY DEF TrentInv
<1> QED BY <1>1, TrentInvariant, PTL

\* Trent never answers both that the contract is cancelled and that it is
\* signed, for any number of signers and any requests.  An abort is final in
\* the code, also where SecureContractSigningProtocol.md:159-163 would have it
\* overturned (see OverturnOpens).
THEOREM TrentExclusive == TrentSpec => []Exclusive
BY InvImpliesExclusive, TrentInvariant, PTL

\* Trent opens promises of round 1 only.
THEOREM TrentOpensFirstRound == TrentSpec => []OnlyFirstRoundOpened
<1>1. TrentInv => OnlyFirstRoundOpened
  BY DEF TrentInv, OpenedByClaim, OnlyFirstRoundOpened
<1> QED BY <1>1, TrentInvariant, PTL

\* Trent accuses only signers that have asked it something.
THEOREM TrentAccusesAskers == TrentSpec => []AccusedHaveAsked
<1>1. TrentInv => AccusedHaveAsked
  BY DEF TrentInv
<1> QED BY <1>1, TrentInvariant, PTL

\* Once Trent has opened the promises it accuses nobody any more: every
\* accusation is made on a claim of the list, which is empty from then on.
THEOREM TrentNeverAccusesOnceOpened == TrentSpec => NoAccusationOnceOpened
<1> DEFINE NoAccusation == ~optimistic => dishonestClaims' = dishonestClaims
<1>1. TrentInv /\ [TrentNext]_trentVars => [NoAccusation]_trentVars
  <2> SUFFICES ASSUME TrentInv, TrentNext, ~optimistic
               PROVE  dishonestClaims' = dishonestClaims
    BY DEF trentVars
  <2>1. possiblyHonestClaims = <<>> /\ possiblyHonestClaims \in Seq(SUBSET Request)
    BY DEF TrentInv, TrentTypeOK, OpenedOnEmptyList
  <2>2. ASSUME NEW req \in requests, ResolveT(req)
        PROVE  dishonestClaims' = dishonestClaims
    <3>1. req \in Request
      BY DEF TrentInv, TrentTypeOK
    <3>2. Overtaken(req) = {} /\ OwnOther(req) = {} /\ Overtaking(req) = {}
      BY <2>1, <3>1, EvidenceNeedsClaims
    <3>3. ~OtherShownDishonest(req) /\ ~SenderContradictsItself(req) /\ ~SenderShownDishonest(req)
      BY <3>2 DEF OtherShownDishonest, SenderContradictsItself, SenderShownDishonest
    <3> QED BY <2>2, <3>3 DEF ResolveT, OpenPromises, PileUp, Throw
  <2>3. ASSUME NEW p \in Parties, NEW r \in ClaimRounds, Ask(p, r)
        PROVE  dishonestClaims' = dishonestClaims
    BY <2>3 DEF Ask, solverVars
  <2> QED BY <2>2, <2>3 DEF TrentNext, TrentReceives
<1> QED BY <1>1, TrentInvariant, PTL DEF TrentSpec, NoAccusationOnceOpened
=============================================================================
