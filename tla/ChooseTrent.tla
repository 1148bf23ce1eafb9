----------------------------- MODULE ChooseTrent -----------------------------
(***************************************************************************)
(* How the signers of a contract agree on Trent before they sign it:       *)
(* protocol/impl/sigma/steps/ProtocolChooseTrent.java.                     *)
(*                                                                         *)
(* Round 0, everybody shows its list of potential Trents, and filters its  *)
(* own by those of the others; round 1, everybody shows a random number,   *)
(* and the sum picks Trent from the list; round 2, everybody shows the     *)
(* Trent it has picked.  A signer that sees another Trent starts again.    *)
(*                                                                         *)
(* Messages are advertisements, found in any order and any number of       *)
(* times.  A signer is at once notified of its own (JxtaEstablisherService *)
(* .sendContract), within the handler that sends them: the nested handler  *)
(* is part of the step.                                                    *)
(*                                                                         *)
(* A definition named X_Bug is a plausible bug in X, which a property must *)
(* be able to tell from X; the specification does not use it.              *)
(***************************************************************************)
EXTENDS Integers, Sequences, FiniteSets, Functions

CONSTANTS
  N,            \* number of signers
  InitialLists, \* the lists of users, without the signers, that signers have
  Numbers       \* bound of the model: the random numbers that can be drawn

ASSUME NAssumption == N \in Nat \ {0}
\* A user is known by its key, a number; a list does not repeat a user.
ASSUME ListsAssumption ==
  \A l \in InitialLists :
    l \in Seq(Nat \ {0}) /\ \A i, j \in DOMAIN l : l[i] = l[j] => i = j
ASSUME NumbersAssumption == Numbers \subseteq Nat

VARIABLES
  number,  \* randomNumber of each signer
  peer     \* the step of each signer, and what it has sent

vars == <<number, peer>>

Parties == 1..N
Rounds == 0..2

\* hasSent: `got' are the signers whose entry is set and `done' the entry N,
\* which marks a complete round.  After a restart the arrays are one entry
\* shorter: `short'.  `trent' holds the Trent it knows, if any.  `lists', `drawn'
\* and `picked' are what the signer has published in the three rounds.
TypeOK ==
  /\ number \in [Parties -> Numbers]
  /\ \A p \in Parties :
       /\ peer[p].list \in Seq(Nat)
       /\ peer[p].finalNumber \in Nat
       /\ peer[p].got \in [Rounds -> SUBSET Parties]
       /\ peer[p].done \in [Rounds -> BOOLEAN]
       /\ {peer[p].short, peer[p].ready, peer[p].drawn} \subseteq BOOLEAN
       /\ peer[p].trent \cup peer[p].picked \subseteq Nat
       /\ Cardinality(peer[p].trent) <= 1
       /\ \A l \in peer[p].lists : l \in Seq(Nat)

Elements(l) == {l[i] : i \in DOMAIN l}

----------------------------------------------------------------------------
(* The filter of round 0.  The iterator over the own list is advanced once *)
(* for every user of the other list, so that the own list is compared with *)
(* the other one chunk by chunk, position by position.                     *)

\* The last user of a chunk in which no user is the other's at its position.
Dropped(own, other) ==
  LET m == Len(other)
  IN  {own[i] : i \in {k \in DOMAIN own :
         m > 0 /\ k % m = 0 /\ \A j \in 1..m : own[k - m + j] # other[j]}}
Filtered(own, other) ==
  LET dropped == Dropped(own, other)
      Kept[i \in 0..Len(own)] ==
        IF i = 0 THEN <<>>
        ELSE IF own[i] \in dropped THEN Kept[i - 1] ELSE Append(Kept[i - 1], own[i])
  IN  Kept[Len(own)]
\* The last chunk is not a whole one: next() throws; or there is no user to
\* compare with: remove() throws.
FilterThrows(own, other) ==
  own # <<>> /\ (other = <<>> \/ Len(own) % Len(other) # 0)

Sorted(l) ==
  CHOOSE s \in [DOMAIN l -> Elements(l)] : \A i, j \in DOMAIN l : i < j => s[i] < s[j]

----------------------------------------------------------------------------
(* The handler, as functions of the state s of the step of signer p.       *)

\* indexOf(null) # -1: an entry of the round is not set.
Incomplete(s, r) == s.got[r] # Parties \/ (~s.short /\ ~s.done[r])
\* Bugs: the marking entry is not looked for; it is never there.
Complete_AnySize(s, r) == s.got[r] = Parties /\ ~s.done[r]
Complete_Never(s, r) == FALSE
\* indexOf(null) = N: all entries are set, but that which marks it.
Complete(s, r) == s.got[r] = Parties /\ ~s.short /\ ~s.done[r]

\* Bug: the entry after that of the signer is set.
Got_Next(s, r, j) == [s EXCEPT !.got[r] = @ \cup {j + 1}]
Got(s, r, j) == [s EXCEPT !.got[r] = @ \cup {j}]

\* Start again, with arrays of N entries.  The own list, found again by the
\* own listener, filters nothing out of itself.
Restart(s, p) ==
  [s EXCEPT !.got = [r \in Rounds |-> IF r = 0 THEN {p} ELSE {}],
            !.done = [r \in Rounds |-> FALSE],
            !.short = TRUE,
            !.trent = {},
            !.lists = @ \cup {s.list}]

\* Bug: another Trent is not noticed.
NotifyTrent_Trusting(s, p, j, u) ==
  LET t == Got(s, 2, j)
  IN CASE ~Incomplete(s, 2) -> s
       [] Incomplete(s, 2) /\ s.trent = {} -> [t EXCEPT !.trent = {u}]
       [] OTHER ->
            IF Complete(t, 2) THEN [t EXCEPT !.done[2] = TRUE, !.ready = TRUE] ELSE t

\* Round 2: j shows that it has picked u.
NotifyTrent(s, p, j, u) ==
  LET t == Got(s, 2, j)
  IN CASE ~Incomplete(s, 2) -> s
       [] Incomplete(s, 2) /\ s.trent = {} -> [t EXCEPT !.trent = {u}]
       [] Incomplete(s, 2) /\ s.trent = {u} ->
            IF Complete(t, 2) THEN [t EXCEPT !.done[2] = TRUE, !.ready = TRUE] ELSE t
       [] OTHER -> Restart(s, p)

\* All numbers are there: pick Trent and show it.
Pick(s, p) ==
  LET u == s.list[(s.finalNumber % Len(s.list)) + 1]
      shown == [s EXCEPT !.trent = IF @ = {} THEN {u} ELSE @, !.picked = @ \cup {u}]
      t == Got(NotifyTrent(shown, p, p, u), 2, p)
  IN IF t.trent \subseteq {u} THEN t ELSE Restart(t, p)

\* Bug: a number found again is added again.
NotifyNumber_Again(s, p, j) ==
  LET t == [Got(s, 1, j) EXCEPT !.finalNumber = IF s.short THEN @ ELSE @ + number[j]]
      c == [t EXCEPT !.done[1] = TRUE]
  IN CASE ~Incomplete(s, 1) -> s
       [] Incomplete(s, 1) /\ ~Complete(t, 1) -> t
       [] OTHER -> IF c.list = <<>> THEN c ELSE Pick(c, p)

\* Round 1: j shows its number.  (After a restart finalNumber is not read.)
NotifyNumber(s, p, j) ==
  LET t == IF j \in s.got[1] THEN s
           ELSE [Got(s, 1, j) EXCEPT !.finalNumber = IF s.short THEN @ ELSE @ + number[j]]
      c == [t EXCEPT !.done[1] = TRUE]
  IN CASE ~Incomplete(s, 1) -> s
       [] Incomplete(s, 1) /\ ~Complete(t, 1) -> t
       [] OTHER -> IF c.list = <<>> THEN c ELSE Pick(c, p)

\* Round 0: j shows its list l.
NotifyList(s, p, j, l) ==
  LET f == [s EXCEPT !.list = Filtered(s.list, l)]
      t == Got(f, 0, j)
      c == [Got(t, 1, p) EXCEPT !.done[0] = TRUE, !.list = Sorted(@), !.drawn = TRUE]
  IN CASE ~Incomplete(s, 0) -> s
       [] Incomplete(s, 0) /\ FilterThrows(s.list, l) -> f
       [] Incomplete(s, 0) /\ ~FilterThrows(s.list, l) /\ ~Complete(t, 0) -> t
       [] OTHER -> NotifyNumber(c, p, p)

----------------------------------------------------------------------------
\* SigmaEstablisher.start: show the own list, for the first time or again.
Start(p) ==
  /\ ~peer[p].ready
  /\ LET s == [peer[p] EXCEPT !.lists = @ \cup {peer[p].list}]
     IN peer' = [peer EXCEPT ![p] = Got(NotifyList(s, p, p, s.list), 0, p)]
  /\ UNCHANGED number

ReceiveList(p, j) ==
  /\ \E l \in peer[j].lists : peer' = [peer EXCEPT ![p] = NotifyList(@, p, j, l)]
  /\ UNCHANGED number

ReceiveNumber(p, j) ==
  /\ peer[j].drawn
  /\ peer' = [peer EXCEPT ![p] = NotifyNumber(@, p, j)]
  /\ UNCHANGED number

ReceiveTrent(p, j) ==
  /\ \E u \in peer[j].picked : peer' = [peer EXCEPT ![p] = NotifyTrent(@, p, j, u)]
  /\ UNCHANGED number

\* The constructor: draw a number, and take the list of the known users.
Init ==
  /\ number \in [Parties -> Numbers]
  /\ \E l \in [Parties -> InitialLists] :
       peer = [p \in Parties |->
                 [list |-> l[p], finalNumber |-> number[p],
                  got |-> [r \in Rounds |-> {}], done |-> [r \in Rounds |-> FALSE],
                  short |-> FALSE, trent |-> {}, ready |-> FALSE,
                  lists |-> {}, drawn |-> FALSE, picked |-> {}]]

Next ==
  \E p \in Parties :
    \/ Start(p)
    \/ \E j \in Parties : ReceiveList(p, j) \/ ReceiveNumber(p, j) \/ ReceiveTrent(p, j)

Spec == Init /\ [][Next]_vars

\* Every owner presses the signing button, and an advertisement stays
\* published until every listener has found it.
Fairness ==
  \A p \in Parties :
    /\ WF_vars(Start(p))
    /\ \A j \in Parties : /\ WF_vars(ReceiveList(p, j))
                          /\ WF_vars(ReceiveNumber(p, j))
                          /\ WF_vars(ReceiveTrent(p, j))
FairSpec == Spec /\ Fairness

----------------------------------------------------------------------------
(* Properties.                                                             *)

\* A signer goes on to sign only with the Trent that everybody has picked,
\* whatever lists they started from and whoever has started again meanwhile.
UnanimousTrent ==
  \A p, q \in Parties : peer[p].ready =>
    /\ peer[p].trent # {} /\ peer[q].picked = peer[p].trent
    /\ peer[q].trent \subseteq peer[p].trent

\* The number that picks Trent counts everybody's number once, the own one
\* too, in whatever order and however often the numbers come.
NumbersCountOnce ==
  \A p \in Parties :
    peer[p].done[1] => peer[p].finalNumber = SumFunction(number)

\* A signer that has seen another Trent, and started again, never signs: its
\* shorter arrays have no entry N, without which no round completes.
RestartNeverSigns == \A p \in Parties : peer[p].short => ~peer[p].ready

\* Signers that know the same users, in the order of their keys, all go on to
\* sign, in whatever order and however often the messages are found.
EverybodyGoesOn ==
  (\A p, q \in Parties : peer[p].list = Sorted(peer[q].list))
    => \A p \in Parties : <>peer[p].ready
==============================================================================
