---------------------------- MODULE TrentSolver ----------------------------
(***************************************************************************)
(* The decisions of the trusted third party of a Sigma contract:           *)
(* protocol/impl/sigma/TrentSolver.java, called by Trent.resolve.          *)
(*                                                                         *)
(* A signer that gives up asks Trent to resolve, showing the last complete *)
(* round of promises it holds (round 0, "ABORT", when it holds none).      *)
(* Trent answers every signer at once: "aborted", "honestyToken",          *)
(* "resolved", or "dishonest <key>".  Requests and answers travel as       *)
(* advertisements, so a request may reach Trent late and more than once.   *)
(*                                                                         *)
(* The cryptography is abstracted: Trent.resolve lets through only claims  *)
(* that verify, so a claim is known by its author and its round.           *)
(*                                                                         *)
(* A definition named X_Bug is a plausible bug in X, which a property must *)
(* be able to tell from X; the specification does not use it.              *)
(***************************************************************************)
EXTENDS Integers, FiniteSets, SequencesExt

CONSTANTS
  N,          \* number of signers of the contract
  MaxClaims   \* bound of the model: longest list of claims Trent piles up

ASSUME NAssumption == N \in Nat \ {0}
ASSUME MaxClaimsAssumption == MaxClaims \in Nat

VARIABLES
  requests,             \* every request ever published to Trent
  possiblyHonestClaims, \* the list of maps: a map is the set of its claims
  dishonestClaims,      \* the signers Trent holds evidence against
  optimistic,
  answers,              \* every answer ever published by Trent
  failed                \* history: the requests on which resolveT threw

solverVars == <<possiblyHonestClaims, dishonestClaims, optimistic, answers, failed>>
trentVars == <<requests, solverVars>>

Parties == 1..N
\* The rounds a claim can be for: the rounds of promises, and 0 for ABORT.
ClaimRounds == 0..(N + 1)

Request == [by : Parties, round : ClaimRounds]
Abort(p) == [by |-> p, round |-> 0]

Answer == [type : {"aborted", "honestyToken"}]
            \cup [type : {"resolved"}, round : ClaimRounds]
            \cup [type : {"dishonest"}, party : Parties]
Aborted == [type |-> "aborted"]
HonestyToken == [type |-> "honestyToken"]
Resolved(k) == [type |-> "resolved", round |-> k]
Dishonest(p) == [type |-> "dishonest", party |-> p]

TrentTypeOK ==
  /\ requests \subseteq Request
  /\ possiblyHonestClaims \in Seq(SUBSET Request)
  /\ dishonestClaims \subseteq Parties
  /\ optimistic \in BOOLEAN
  /\ answers \subseteq Answer
  /\ failed \subseteq Request

----------------------------------------------------------------------------
(* What resolveT looks up.  Java indexes the list from 0, TLA+ from 1.     *)

Least(k, S) == k \in S /\ \A j \in S : k <= j

Size == Len(possiblyHonestClaims)
At(k) == possiblyHonestClaims[k + 1]
Occupied(k) == k < Size /\ At(k) # {}

\* Loop 1: claims far enough below the request's round to be contradicted by
\* it.  `s != senderId' compares two distinct String objects, hence always
\* holds: the sender's own claims count too.
Overtaken(req) == {k \in 0..(req.round - 2) : Occupied(k)}
\* Bugs: loop 1 guarded as loop 3 is; loop 1 one index too far.
RunsOff_Guarded(req) == FALSE
RunsOff_TooFar(req) == Overtaken(req) = {} /\ Size <= req.round - 1
\* Loop 1 finds none, and runs past the end of the list: get(k) throws.
RunsOff(req) == Overtaken(req) = {} /\ Size <= req.round - 2

\* List.indexOf: the first map that is equal, not the map at hand.
IndexOf(claims) == Min({i \in DOMAIN possiblyHonestClaims :
                          possiblyHonestClaims[i] = claims}) - 1
\* Loop 2: indices of the maps in which the sender already has another claim.
OwnOther(req) ==
  {k \in 0..(Size - 1) : /\ \E c \in At(k) : c.by = req.by
                         /\ IndexOf(At(k)) # req.round}

\* Loop 3: claims above the request's round (here get(k) is guarded).
Overtaking(req) == {k \in (req.round + 1)..(N - 1) : Occupied(k)}

\* None of the three loops decided.
MayBeHonest(req) ==
  Overtaken(req) = {} /\ ~RunsOff(req) /\ OwnOther(req) = {} /\ Overtaking(req) = {}

\* Bugs: any claim with promises wins; any first claim wins.
Opens_NotFirst(req) == req.round > 0 \/ ~optimistic
Opens_Abort(req) == possiblyHonestClaims = <<>> \/ ~optimistic
Opens(req) == (possiblyHonestClaims = <<>> /\ req.round > 0) \/ ~optimistic

Withdraw(k, claims) ==
  possiblyHonestClaims' = [possiblyHonestClaims EXCEPT ![k + 1] = @ \ claims]
Publish(answer) == answers' = answers \cup {answer}
ClaimsOf(p) == {c \in Request : c.by = p}

----------------------------------------------------------------------------
(* The outcomes of resolveT, in the order of its code.                     *)

\* Bug: the index of the map, a round, is taken for a signer.
OtherShownDishonest_Index(req) ==
  /\ \E k \in Overtaken(req) : \E c \in At(k) :
       /\ Least(k, Overtaken(req))
       /\ dishonestClaims' = dishonestClaims \cup {k + 1}
       /\ Withdraw(k, {c})
  /\ Publish(HonestyToken)
  /\ UNCHANGED <<optimistic, failed>>

\* j was dishonest and i shows it.
OtherShownDishonest(req) ==
  /\ \E k \in Overtaken(req) : \E c \in At(k) :
       /\ Least(k, Overtaken(req))
       /\ dishonestClaims' = dishonestClaims \cup {c.by}
       /\ Withdraw(k, {c})
  /\ Publish(HonestyToken)
  /\ UNCHANGED <<optimistic, failed>>

\* i was dishonest and i shows it.
SenderContradictsItself(req) ==
  /\ Overtaken(req) = {} /\ ~RunsOff(req)
  /\ \E k \in OwnOther(req) :
       /\ Least(k, OwnOther(req))
       /\ Withdraw(IndexOf(At(k)), ClaimsOf(req.by))
  /\ dishonestClaims' = dishonestClaims \cup {req.by}
  /\ Publish(Dishonest(req.by))
  /\ UNCHANGED <<optimistic, failed>>

\* i was dishonest and j shows it.
SenderShownDishonest(req) ==
  /\ Overtaken(req) = {} /\ ~RunsOff(req) /\ OwnOther(req) = {}
  /\ \E k \in Overtaking(req) :
       /\ Least(k, Overtaking(req))
       /\ Withdraw(k, ClaimsOf(req.by))
  /\ dishonestClaims' = dishonestClaims \cup {req.by}
  /\ Publish(Dishonest(req.by))
  /\ UNCHANGED <<optimistic, failed>>

\* Bug: optimistic is not reset.
OpenPromises_Optimistic(req) ==
  /\ MayBeHonest(req) /\ Opens(req) /\ req.round > 0
  /\ Publish(Resolved(req.round))
  /\ UNCHANGED <<possiblyHonestClaims, dishonestClaims, optimistic, failed>>

\* A claim with promises wins: Trent opens them, now and for ever after.
OpenPromises(req) ==
  /\ MayBeHonest(req) /\ Opens(req) /\ req.round > 0
  /\ optimistic' = FALSE
  /\ Publish(Resolved(req.round))
  /\ UNCHANGED <<possiblyHonestClaims, dishonestClaims, failed>>

\* Otherwise the claim is piled up, at the index of its round, which moves
\* the maps after it one index up.
PileUp(req) ==
  /\ MayBeHonest(req) /\ ~Opens(req)
  /\ req.round <= Size
  /\ Size < MaxClaims
  /\ possiblyHonestClaims' = InsertAt(possiblyHonestClaims, req.round + 1, {req})
  /\ Publish(Aborted)
  /\ UNCHANGED <<dishonestClaims, optimistic, failed>>

\* resolveT throws: loop 1 runs off the list, the list is too short for the
\* insertion, or an ABORT has no promises to open.  Nobody is answered.
Throw(req) ==
  /\ \/ RunsOff(req)
     \/ MayBeHonest(req) /\ ~Opens(req) /\ req.round > Size
     \/ MayBeHonest(req) /\ Opens(req) /\ req.round = 0
  /\ failed' = failed \cup {req}
  /\ UNCHANGED <<possiblyHonestClaims, dishonestClaims, optimistic, answers>>

ResolveT(req) ==
  \/ OtherShownDishonest(req)
  \/ SenderContradictsItself(req)
  \/ SenderShownDishonest(req)
  \/ OpenPromises(req)
  \/ PileUp(req)
  \/ Throw(req)

----------------------------------------------------------------------------
SolverInit ==
  /\ possiblyHonestClaims = <<>>
  /\ dishonestClaims = {}
  /\ optimistic = TRUE
  /\ answers = {}
  /\ failed = {}

\* Trent's listener is notified of a request, for the first time or again.
TrentReceives == \E req \in requests : ResolveT(req) /\ UNCHANGED requests

\* Bug: the round of the request is computed twice.
Ask_RoundBefore(p, r) ==
  /\ requests' = requests \cup {[by |-> p, round |-> r - 1]}
  /\ UNCHANGED solverVars

\* On its own, Trent faces signers that may ask anything at any time.
Ask(p, r) ==
  /\ requests' = requests \cup {[by |-> p, round |-> r]}
  /\ UNCHANGED solverVars

TrentInit == requests = {} /\ SolverInit
TrentNext == TrentReceives \/ \E p \in Parties, r \in ClaimRounds : Ask(p, r)
TrentSpec == TrentInit /\ [][TrentNext]_trentVars

----------------------------------------------------------------------------
(* Properties.                                                             *)

HasAborted == {Aborted, HonestyToken} \cap answers # {}
HasResolved == \E k \in ClaimRounds : Resolved(k) \in answers

\* Trent never tells the signers both that the contract is cancelled and that
\* it is signed, whatever they ask and in whatever order and however often
\* their requests arrive: "either everyone, or no one, gets the contract
\* signed".  The two answers come from different branches of resolveT, taken
\* for different requests, and the signers act on whichever they see first.
\* For signers that lie this is more than the protocol wants, which lets Trent
\* overturn an abort: resolveT never does, because a map of claims that has
\* been emptied stays in the list (see OverturnOpens).
Exclusive == ~(HasAborted /\ HasResolved)

\* Trent opens promises of round 1 only: loop 1 throws on any higher claim
\* while the list is empty, and once the list is not empty nothing is opened.
\* ProtocolResolve, which accepts the signatures of its own round and of the
\* two rounds before it, depends on which rounds can be opened.
OnlyFirstRoundOpened == \A k \in ClaimRounds : Resolved(k) \in answers => k = 1

\* Trent accuses nobody that never asked: what it removes and blames, by
\* index, after insertions have moved the maps around, is always a claim that
\* its author really sent.
AccusedHaveAsked ==
  \A p \in dishonestClaims : \E req \in requests : req.by = p

\* Once Trent has opened the promises it accuses nobody any more.
NoAccusationOnceOpened ==
  [][~optimistic => dishonestClaims' = dishonestClaims]_trentVars

\* SecureContractSigningProtocol.md:159-163: "If the TTP gets contacted by
\* Player_i with a resolve request showing (k-1>0)-level promises, and it
\* follows from there that the PossiblyHonestsClaims list is emptied, then it
\* is fair and timely for him to accept to open everything from now on [...]
\* This is an overturn."  That is, when the claim of a signer that is not
\* itself shown dishonest takes the last claim out of the list.
NoClaimLeft == \A i \in DOMAIN possiblyHonestClaims : possiblyHonestClaims[i] = {}
OverturnOpens ==
  [][\A req \in requests :
       (/\ req.round > 0 /\ ResolveT(req) /\ req.by \notin dishonestClaims'
        /\ ~NoClaimLeft /\ NoClaimLeft')
         => ~optimistic']_trentVars
=============================================================================
