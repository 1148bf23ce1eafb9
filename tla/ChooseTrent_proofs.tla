------------------------- MODULE ChooseTrent_proofs -------------------------
(***************************************************************************)
(* The choice of Trent, for any number of signers, any lists of users, any *)
(* numbers drawn and any order of the messages: nobody signs with a Trent  *)
(* that another signer has not picked, and each number is added up once.   *)
(*                                                                         *)
(* The argument.  A signer picks a Trent once at most: picking completes   *)
(* its round 1, and after a restart no round completes (Once).  It has     *)
(* entered another signer in round 2 only with the Trent that this signer  *)
(* has picked, and which is its own (Heard).  It goes on to sign when all  *)
(* signers are entered (Going).  A list stays a list of users without      *)
(* repetition when it is filtered and sorted (Listed), and a number is the *)
(* sum of those of the signers entered (Tallied).                          *)
(***************************************************************************)
EXTENDS ChooseTrent, InductionFacts

Shape(s) ==
  s \in [list : {s.list}, finalNumber : {s.finalNumber},
         got : [Rounds -> SUBSET Parties], done : [Rounds -> BOOLEAN],
         short : BOOLEAN, trent : {s.trent}, ready : BOOLEAN,
         lists : {s.lists}, drawn : BOOLEAN, picked : {s.picked}]

Once(s) ==
  /\ s.picked = {} \/ \E u : s.picked = {u}
  /\ ~s.short /\ s.picked # {} => s.got[1] = Parties /\ s.done[1]

\* A complete round of the other signers' Trents.
Settled(s) == ~s.short /\ s.done[2] /\ s.got[2] = Parties
Going(s) == s.ready => Settled(s)

Heard(s) ==
  /\ s.trent # {} => \E j \in Parties : s.trent = peer[j].picked
  /\ ~s.short => \A j \in s.got[2] : s.trent # {} /\ s.trent = peer[j].picked

ChooseInv ==
  /\ peer = [p \in Parties |-> peer[p]]
  /\ \A p \in Parties :
       Shape(peer[p]) /\ Once(peer[p]) /\ Going(peer[p]) /\ Heard(peer[p])

----------------------------------------------------------------------------
(* What a handler does to the state s of a step, which becomes t.          *)

\* Nothing about Trent.
Quiet(s, t) ==
  /\ t.short = s.short /\ t.ready = s.ready /\ t.trent = s.trent /\ t.picked = s.picked
  /\ t.got[2] = s.got[2] /\ t.done[2] = s.done[2]
  /\ s.got[1] = Parties /\ s.done[1] => t.got[1] = Parties /\ t.done[1]

\* It starts again, having picked a first Trent or not.
Again(s, t) ==
  /\ t.short /\ ~t.ready /\ t.trent = {}
  /\ t.picked = s.picked \/ (s.picked = {} /\ \E u : t.picked = {u})

\* It enters j, which has picked u.
Hears(s, t, j, u) ==
  /\ t.short = s.short /\ t.picked = s.picked
  /\ t.got[2] = s.got[2] \cup {j}
  /\ t.got[1] = s.got[1] /\ t.done[1] = s.done[1]
  /\ t.trent = {u} /\ s.trent \in {{}, {u}}
  /\ t.ready => Settled(t)

\* It picks u, and enters itself.
Picks(s, t, p, u) ==
  /\ s.picked = {} /\ t.picked = {u}
  /\ ~t.short /\ ~s.short
  /\ t.got[1] = Parties /\ t.done[1]
  /\ t.got[2] = s.got[2] \cup {p}
  /\ t.trent = {u} /\ s.trent \in {{}, {u}}
  /\ t.ready => Settled(t)

LEMMA GotDoes ==
  ASSUME NEW s, Shape(s), NEW r \in Rounds, NEW j \in Parties
  PROVE  LET t == Got(s, r, j)
         IN  /\ Shape(t)
             /\ t.got[r] = s.got[r] \cup {j}
             /\ \A x \in Rounds \ {r} : t.got[x] = s.got[x]
             /\ t.done = s.done /\ t.short = s.short /\ t.trent = s.trent /\ t.ready = s.ready
             /\ t.picked = s.picked /\ t.list = s.list /\ t.lists = s.lists
             /\ t.finalNumber = s.finalNumber /\ t.drawn = s.drawn
BY DEF Got, Shape

\* The entry that marks a complete round is set.
LEMMA MarkDoes ==
  ASSUME NEW s, Shape(s), NEW r \in Rounds
  PROVE  LET t == [s EXCEPT !.done[r] = TRUE]
         IN  /\ Shape(t) /\ t.got = s.got /\ t.done[r]
             /\ \A x \in Rounds \ {r} : t.done[x] = s.done[x]
             /\ t.short = s.short /\ t.trent = s.trent /\ t.ready = s.ready
             /\ t.picked = s.picked /\ t.list = s.list /\ t.lists = s.lists
             /\ t.finalNumber = s.finalNumber /\ t.drawn = s.drawn
<1> DEFINE new == [s.done EXCEPT ![r] = TRUE]
           t == [s EXCEPT !.done = new]
<1>1. s.done \in [Rounds -> BOOLEAN]
  BY DEF Shape
<1>2. new \in [Rounds -> BOOLEAN]
  BY <1>1
<1>3. new[r] = TRUE
  BY <1>1
<1>4. \A x \in Rounds \ {r} : new[x] = s.done[x]
  BY <1>1
<1> HIDE DEF new
<1>5. Shape(t) /\ t.done = new
  BY <1>2 DEF Shape
<1>6. /\ t.got = s.got /\ t.short = s.short /\ t.trent = s.trent /\ t.ready = s.ready
      /\ t.picked = s.picked /\ t.list = s.list /\ t.lists = s.lists
      /\ t.finalNumber = s.finalNumber /\ t.drawn = s.drawn
  BY DEF Shape
<1>7. [s EXCEPT !.done[r] = TRUE] = t
  BY DEF new
<1> HIDE DEF t
<1> QED BY <1>3, <1>4, <1>5, <1>6, <1>7

LEMMA RestartDoes ==
  ASSUME NEW s, Shape(s), NEW p \in Parties
  PROVE  LET t == Restart(s, p)
         IN  /\ Shape(t) /\ t.short /\ t.trent = {} /\ t.ready = s.ready
             /\ t.picked = s.picked /\ t.list = s.list /\ t.lists = s.lists \cup {s.list}
             /\ t.finalNumber = s.finalNumber /\ t.drawn = s.drawn
             /\ \A r \in Rounds : ~t.done[r]
BY DEF Restart, Shape, Rounds

LEMMA NotifyTrentDoes ==
  ASSUME NEW s, Shape(s), NEW p \in Parties, NEW j \in Parties, NEW u, Going(s)
  PROVE  LET t == NotifyTrent(s, p, j, u)
         IN  /\ Shape(t)
             /\ \/ t = s /\ ~Incomplete(s, 2)
                \/ Hears(s, t, j, u)
                \/ Again(s, t) /\ t.picked = s.picked /\ s.trent # {} /\ s.trent # {u}
<1> DEFINE g == Got(s, 2, j)
           m == [g EXCEPT !.done[2] = TRUE]
           d == [m EXCEPT !.ready = TRUE]
<1>1. 2 \in Rounds /\ 1 \in Rounds
  BY DEF Rounds
<1>2. /\ Shape(g) /\ g.got[2] = s.got[2] \cup {j} /\ g.got[1] = s.got[1]
      /\ g.done = s.done /\ g.short = s.short /\ g.trent = s.trent /\ g.ready = s.ready
      /\ g.picked = s.picked
  BY <1>1, GotDoes
<1> HIDE DEF g
<1>3. CASE ~Incomplete(s, 2)
  BY <1>3 DEF NotifyTrent
<1>4. ASSUME Incomplete(s, 2) PROVE ~s.ready
  BY <1>4 DEF Incomplete, Going, Settled
<1>5. CASE Incomplete(s, 2) /\ s.trent = {}
  <2>1. NotifyTrent(s, p, j, u) = [g EXCEPT !.trent = {u}]
    BY <1>5 DEF NotifyTrent, g
  <2> QED BY <1>2, <1>4, <1>5, <2>1 DEF Shape, Hears
<1>6. CASE Incomplete(s, 2) /\ s.trent = {u} /\ Complete(g, 2)
  <2>1. NotifyTrent(s, p, j, u) = d
    BY <1>6 DEF NotifyTrent, g
  <2>2. /\ Shape(m) /\ m.got = g.got /\ m.done[1] = g.done[1] /\ m.done[2]
        /\ m.short = g.short /\ m.trent = g.trent /\ m.picked = g.picked
    BY <1>1, <1>2, MarkDoes
  <2> HIDE DEF m
  <2>3. /\ Shape(d) /\ d.got = m.got /\ d.done = m.done
        /\ d.short = m.short /\ d.trent = m.trent /\ d.picked = m.picked
    BY <2>2 DEF Shape
  <2> HIDE DEF d
  <2> QED BY <1>2, <1>6, <2>1, <2>2, <2>3 DEF Hears, Settled, Complete
<1>7. CASE Incomplete(s, 2) /\ s.trent = {u} /\ ~Complete(g, 2)
  <2>1. NotifyTrent(s, p, j, u) = g
    BY <1>7 DEF NotifyTrent, g
  <2> QED BY <1>2, <1>4, <1>7, <2>1 DEF Hears
<1>8. CASE Incomplete(s, 2) /\ s.trent # {} /\ s.trent # {u}
  <2>1. NotifyTrent(s, p, j, u) = Restart(s, p)
    BY <1>8 DEF NotifyTrent
  <2> QED BY <1>4, <1>8, <2>1, RestartDoes DEF Again
<1> QED BY <1>3, <1>5, <1>6, <1>7, <1>8

\* All numbers are there for the first time.
LEMMA PickDoes ==
  ASSUME NEW s, NEW p \in Parties, Shape(s), ~s.short, s.picked = {}, ~s.ready,
         s.got[1] = Parties, s.done[1], p \notin s.got[2]
  PROVE  LET t == Pick(s, p)
         IN  Shape(t) /\ (Again(s, t) \/ \E u : Picks(s, t, p, u))
<1> DEFINE u == s.list[(s.finalNumber % Len(s.list)) + 1]
           shown == [s EXCEPT !.trent = IF @ = {} THEN {u} ELSE @, !.picked = @ \cup {u}]
           n == NotifyTrent(shown, p, p, u)
           t == Got(n, 2, p)
<1>1. Pick(s, p) = IF t.trent \subseteq {u} THEN t ELSE Restart(t, p)
  BY DEF Pick
<1> HIDE DEF u
<1>2. /\ Shape(shown) /\ ~shown.short /\ shown.picked = {u} /\ ~shown.ready
      /\ shown.got = s.got /\ shown.done = s.done
      /\ shown.trent = IF s.trent = {} THEN {u} ELSE s.trent
  BY DEF Shape
<1> HIDE DEF shown
<1>3. Incomplete(shown, 2) /\ Going(shown)
  BY <1>2 DEF Incomplete, Going
<1>4. /\ Shape(n)
      /\ \/ Hears(shown, n, p, u)
         \/ Again(shown, n) /\ n.picked = {u}
  <2>1. \/ n = shown /\ ~Incomplete(shown, 2)
        \/ Hears(shown, n, p, u)
        \/ Again(shown, n) /\ n.picked = shown.picked
    BY <1>2, <1>3, NotifyTrentDoes
  <2>2. Shape(n)
    BY <1>2, <1>3, NotifyTrentDoes
  <2> QED BY <1>2, <1>3, <2>1, <2>2
<1> HIDE DEF n
<1>5. 1 \in Rounds /\ 2 \in Rounds
  BY DEF Rounds
<1>6. /\ Shape(t) /\ t.got[1] = n.got[1] /\ t.got[2] = n.got[2] \cup {p}
      /\ t.done = n.done /\ t.short = n.short /\ t.trent = n.trent /\ t.ready = n.ready
      /\ t.picked = n.picked
  BY <1>4, <1>5, GotDoes
<1> HIDE DEF t
<1>7. CASE Hears(shown, n, p, u)
  <2>1. t.trent = {u} /\ Pick(s, p) = t
    BY <1>1, <1>6, <1>7 DEF Hears
  <2>2. s.trent \in {{}, {u}}
    BY <1>2, <1>7 DEF Hears
  <2>3. t.got[2] = s.got[2] \cup {p} /\ n.got[2] = t.got[2]
    BY <1>2, <1>6, <1>7 DEF Hears
  <2>4. t.ready => Settled(t)
    BY <1>6, <1>7, <2>3 DEF Hears, Settled
  <2>5. Picks(s, t, p, u)
    BY <1>2, <1>6, <1>7, <2>1, <2>2, <2>3, <2>4 DEF Hears, Picks
  <2> QED BY <1>6, <2>1, <2>5
<1>8. CASE Again(shown, n) /\ n.picked = {u}
  <2>1. Pick(s, p) = t
    BY <1>1, <1>6, <1>8 DEF Again
  <2> QED BY <1>6, <1>8, <2>1 DEF Again
<1> QED BY <1>4, <1>7, <1>8

\* The rounds before the last one: quiet, until the numbers are complete.
Moves(s, t, p) ==
  Shape(t) /\ (Quiet(s, t) \/ Again(s, t) \/ \E u : Picks(s, t, p, u))

LEMMA NotifyNumberDoes ==
  ASSUME NEW s, NEW p \in Parties, NEW j \in Parties, Shape(s), Once(s), Going(s),
         s.picked = {} => p \notin s.got[2] \/ s.short
  PROVE  Moves(s, NotifyNumber(s, p, j), p)
<1> DEFINE g == Got(s, 1, j)
           t == IF j \in s.got[1] THEN s
                ELSE [g EXCEPT !.finalNumber = IF s.short THEN @ ELSE @ + number[j]]
           c == [t EXCEPT !.done[1] = TRUE]
<1>1. 2 \in Rounds /\ 1 \in Rounds
  BY DEF Rounds
<1>2. /\ Shape(g) /\ g.got[1] = s.got[1] \cup {j} /\ g.got[2] = s.got[2]
      /\ g.done = s.done /\ g.short = s.short /\ g.trent = s.trent /\ g.ready = s.ready
      /\ g.picked = s.picked
  BY <1>1, GotDoes
<1>3. NotifyNumber(s, p, j) =
        CASE ~Incomplete(s, 1) -> s
          [] Incomplete(s, 1) /\ ~Complete(t, 1) -> t
          [] OTHER -> IF c.list = <<>> THEN c ELSE Pick(c, p)
  BY DEF NotifyNumber
<1> HIDE DEF g
<1>4. /\ Shape(t) /\ t.got[1] = s.got[1] \cup {j} /\ t.got[2] = s.got[2]
      /\ t.done = s.done /\ t.short = s.short /\ t.trent = s.trent /\ t.ready = s.ready
      /\ t.picked = s.picked
  BY <1>2 DEF Shape
<1> HIDE DEF t
<1>5. /\ Shape(c) /\ c.got = t.got /\ c.done[1] /\ c.done[2] = t.done[2]
      /\ c.short = t.short /\ c.trent = t.trent /\ c.ready = t.ready /\ c.picked = t.picked
  BY <1>1, <1>4, MarkDoes
<1> HIDE DEF c
<1>6. s.got[1] \subseteq Parties
  BY <1>1 DEF Shape
<1>7. Quiet(s, s) /\ Quiet(s, t) /\ Quiet(s, c)
  BY <1>4, <1>5, <1>6 DEF Quiet
<1>8. CASE ~Incomplete(s, 1)
  BY <1>3, <1>7, <1>8 DEF Moves
<1>9. CASE Incomplete(s, 1) /\ ~Complete(t, 1)
  BY <1>3, <1>4, <1>7, <1>9 DEF Moves
<1>10. CASE Incomplete(s, 1) /\ Complete(t, 1) /\ c.list = <<>>
  BY <1>3, <1>5, <1>7, <1>10 DEF Moves
<1>11. CASE Incomplete(s, 1) /\ Complete(t, 1) /\ c.list # <<>>
  <2>1. ~s.short /\ s.picked = {} /\ c.got[1] = Parties
    BY <1>4, <1>5, <1>11 DEF Incomplete, Complete, Once
  <2>2. p \notin s.got[2]
    BY <2>1
  <2>3. ~s.ready
    BY <2>2 DEF Going, Settled
  <2>4. LET r == Pick(c, p) IN Shape(r) /\ (Again(c, r) \/ \E u : Picks(c, r, p, u))
    BY <1>4, <1>5, <2>1, <2>2, <2>3, PickDoes
  <2>5. NotifyNumber(s, p, j) = Pick(c, p)
    BY <1>3, <1>11
  <2> DEFINE r == Pick(c, p)
  <2>6. Shape(r)
    BY <2>4
  <2>7. CASE Again(c, r)
    BY <1>4, <1>5, <2>5, <2>6, <2>7 DEF Moves, Again
  <2>8. ASSUME NEW u, Picks(c, r, p, u) PROVE Moves(s, NotifyNumber(s, p, j), p)
    BY <1>4, <1>5, <2>5, <2>6, <2>8 DEF Moves, Picks
  <2> QED BY <2>4, <2>7, <2>8
<1> QED BY <1>8, <1>9, <1>10, <1>11

\* What may precede a move.
LEMMA QuietMoves ==
  ASSUME NEW p \in Parties, NEW s, NEW c, NEW t, Quiet(s, c), Moves(c, t, p)
  PROVE  Moves(s, t, p)
<1>1. CASE Quiet(c, t)
  BY <1>1 DEF Quiet, Moves
<1>2. CASE Again(c, t)
  BY <1>2 DEF Quiet, Again, Moves
<1>3. ASSUME NEW u, Picks(c, t, p, u) PROVE Moves(s, t, p)
  BY <1>3 DEF Quiet, Picks, Moves
<1> QED BY <1>1, <1>2, <1>3 DEF Moves

LEMMA NotifyListDoes ==
  ASSUME NEW s, NEW p \in Parties, NEW j \in Parties, NEW l, Shape(s), Once(s), Going(s),
         s.picked = {} => p \notin s.got[2] \/ s.short
  PROVE  Moves(s, NotifyList(s, p, j, l), p)
<1> DEFINE f == [s EXCEPT !.list = Filtered(s.list, l)]
           t == Got(f, 0, j)
           o == Got(t, 1, p)
           m == [o EXCEPT !.done[0] = TRUE]
           c == [m EXCEPT !.list = Sorted(@), !.drawn = TRUE]
<1>1. NotifyList(s, p, j, l) =
        CASE ~Incomplete(s, 0) -> s
          [] Incomplete(s, 0) /\ FilterThrows(s.list, l) -> f
          [] Incomplete(s, 0) /\ ~FilterThrows(s.list, l) /\ ~Complete(t, 0) -> t
          [] OTHER -> NotifyNumber(c, p, p)
  BY DEF NotifyList
<1>2. /\ 0 \in Rounds /\ 1 \in Rounds /\ 2 \in Rounds
      /\ 1 \in Rounds \ {0} /\ 2 \in Rounds \ {0} /\ 2 \in Rounds \ {1}
  BY DEF Rounds
<1>3. /\ Shape(f) /\ f.got = s.got /\ f.done = s.done /\ f.short = s.short
      /\ f.trent = s.trent /\ f.ready = s.ready /\ f.picked = s.picked
  BY DEF Shape
<1> HIDE DEF f
<1>4. /\ Shape(t) /\ t.got[1] = s.got[1] /\ t.got[2] = s.got[2] /\ t.done = s.done
      /\ t.short = s.short /\ t.trent = s.trent /\ t.ready = s.ready /\ t.picked = s.picked
  <2> DEFINE Does(x, r) ==
        /\ Shape(x) /\ x.got[r] = f.got[r] \cup {j}
        /\ \A y \in Rounds \ {r} : x.got[y] = f.got[y]
        /\ x.done = f.done /\ x.short = f.short /\ x.trent = f.trent
        /\ x.ready = f.ready /\ x.picked = f.picked
  <2>1. Shape(f)
    BY <1>3
  <2>2. \A r \in Rounds : Does(Got(f, r, j), r)
    BY <2>1, GotDoes
  <2>3. Does(t, 0)
    BY <1>2, <2>2
  <2> QED BY <1>2, <1>3, <2>3
<1> HIDE DEF t
<1>5. /\ Shape(o) /\ o.got[1] = s.got[1] \cup {p} /\ o.got[2] = s.got[2] /\ o.done = s.done
      /\ o.short = s.short /\ o.trent = s.trent /\ o.ready = s.ready /\ o.picked = s.picked
  <2> DEFINE Does(x, r) ==
        /\ Shape(x) /\ x.got[r] = t.got[r] \cup {p}
        /\ \A y \in Rounds \ {r} : x.got[y] = t.got[y]
        /\ x.done = t.done /\ x.short = t.short /\ x.trent = t.trent
        /\ x.ready = t.ready /\ x.picked = t.picked
  <2>1. Shape(t)
    BY <1>4
  <2>2. \A r \in Rounds : Does(Got(t, r, p), r)
    BY <2>1, GotDoes
  <2>3. Does(o, 1)
    BY <1>2, <2>2
  <2> QED BY <1>2, <1>4, <2>3
<1> HIDE DEF o
<1>6. /\ Shape(c) /\ c.got = o.got /\ c.done[1] = o.done[1] /\ c.done[2] = o.done[2]
      /\ c.short = o.short /\ c.trent = o.trent /\ c.ready = o.ready /\ c.picked = o.picked
  <2>1. /\ Shape(m) /\ m.got = o.got /\ m.done[1] = o.done[1] /\ m.done[2] = o.done[2]
        /\ m.short = o.short /\ m.trent = o.trent /\ m.ready = o.ready /\ m.picked = o.picked
    BY <1>2, <1>5, MarkDoes
  <2> HIDE DEF m
  <2>2. /\ Shape(c) /\ c.got = m.got /\ c.done = m.done
        /\ c.short = m.short /\ c.trent = m.trent /\ c.ready = m.ready /\ c.picked = m.picked
    BY <2>1 DEF Shape
  <2> QED BY <2>1, <2>2
<1> HIDE DEF c
<1>7. s.got[1] \subseteq Parties
  BY <1>2 DEF Shape
<1>8. Quiet(s, s) /\ Quiet(s, f) /\ Quiet(s, t) /\ Quiet(s, c)
  BY <1>3, <1>4, <1>5, <1>6, <1>7 DEF Quiet
<1>9. CASE ~Incomplete(s, 0)
  BY <1>1, <1>8, <1>9 DEF Moves
<1>10. CASE Incomplete(s, 0) /\ FilterThrows(s.list, l)
  BY <1>1, <1>3, <1>8, <1>10 DEF Moves
<1>11. CASE Incomplete(s, 0) /\ ~FilterThrows(s.list, l) /\ ~Complete(t, 0)
  BY <1>1, <1>4, <1>8, <1>11 DEF Moves
<1>12. CASE Incomplete(s, 0) /\ ~FilterThrows(s.list, l) /\ Complete(t, 0)
  <2>1. Once(c) /\ Going(c) /\ (c.picked = {} => p \notin c.got[2] \/ c.short)
    BY <1>5, <1>6, <1>7 DEF Once, Going, Settled
  <2>2. Moves(c, NotifyNumber(c, p, p), p)
    BY <1>6, <2>1, NotifyNumberDoes
  <2>3. NotifyList(s, p, j, l) = NotifyNumber(c, p, p)
    BY <1>1, <1>12
  <2> QED BY <1>8, <2>2, <2>3, QuietMoves
<1> QED BY <1>9, <1>10, <1>11, <1>12

----------------------------------------------------------------------------
(* Every such move keeps the invariant.                                    *)

\* Only p's step changes, and a Trent once picked stays the only one.
Changed(p, t) ==
  /\ peer' = [q \in Parties |-> peer'[q]]
  /\ peer'[p] = t
  /\ \A q \in Parties \ {p} : peer'[q] = peer[q]

LEMMA OneChanges ==
  ASSUME ChooseInv, NEW p \in Parties, NEW t, peer' = [peer EXCEPT ![p] = t]
  PROVE  Changed(p, t)
BY DEF ChooseInv, Changed

LEMMA ChangeKeeps ==
  ASSUME ChooseInv, NEW p \in Parties, NEW t, Changed(p, t), Shape(t), Once(t), Going(t),
         t.picked = peer[p].picked \/ peer[p].picked = {},
         t.trent # {} => t.trent = peer[p].trent \/ \E j \in Parties : t.trent = peer'[j].picked,
         ~t.short => \A j \in t.got[2] : t.trent # {} /\ t.trent = peer'[j].picked
  PROVE  ChooseInv'
<1>1. \A q, j \in Parties : peer[q].trent # {} /\ peer[q].trent = peer[j].picked
                              => peer[q].trent = peer'[j].picked
  BY DEF Changed
<1>2. ASSUME NEW q \in Parties, peer[q].trent # {}
      PROVE  \E j \in Parties : peer[q].trent = peer'[j].picked
  BY <1>1, <1>2 DEF ChooseInv, Heard
<1>3. Heard(t)'
  BY <1>2 DEF Heard
<1>4. ASSUME NEW q \in Parties \ {p} PROVE Heard(peer[q])'
  <2>1. peer'[q] = peer[q] /\ q \in Parties /\ Shape(peer[q]) /\ Heard(peer[q])
    BY DEF Changed, ChooseInv
  <2>2. peer[q].got[2] \subseteq Parties
    BY <2>1 DEF Shape, Rounds
  <2> QED BY <1>1, <1>2, <2>1, <2>2 DEF Heard
<1>5. ASSUME NEW q \in Parties
      PROVE  (Shape(peer[q]) /\ Once(peer[q]) /\ Going(peer[q]) /\ Heard(peer[q]))'
  <2>1. CASE q = p
    <3>1. peer'[q] = t
      BY <2>1 DEF Changed
    <3>2. Heard(peer[q])'
      BY <1>3, <3>1 DEF Heard
    <3> QED BY <3>1, <3>2
  <2>2. CASE q # p
    <3>1. peer'[q] = peer[q] /\ Shape(peer[q]) /\ Once(peer[q]) /\ Going(peer[q])
      BY <2>2 DEF Changed, ChooseInv
    <3> QED BY <1>4, <2>2, <3>1
  <2> QED BY <2>1, <2>2
<1> QED BY <1>5 DEF ChooseInv, Changed

LEMMA MovesKeep ==
  ASSUME ChooseInv, NEW p \in Parties, NEW t, Changed(p, t), Moves(peer[p], t, p)
  PROVE  ChooseInv'
<1>1. Shape(peer[p]) /\ Once(peer[p]) /\ Going(peer[p]) /\ Heard(peer[p])
  BY DEF ChooseInv
<1>2. Shape(t)
  BY DEF Moves
<1>3. peer[p].got[2] \subseteq Parties
  BY <1>1 DEF Shape, Rounds
<1>4. CASE Quiet(peer[p], t)
  <2>1. Once(t) /\ Going(t)
    BY <1>1, <1>4 DEF Quiet, Once, Going, Settled
  <2>2. \A j \in Parties : peer'[j].picked = peer[j].picked
    BY <1>4 DEF Changed, Quiet
  <2>3. ~t.short => \A j \in t.got[2] : t.trent # {} /\ t.trent = peer'[j].picked
    BY <1>1, <1>3, <1>4, <2>2 DEF Quiet, Heard
  <2> QED BY <1>2, <1>4, <2>1, <2>3, ChangeKeeps DEF Quiet
<1>5. CASE Again(peer[p], t)
  <2>1. Once(t) /\ Going(t)
    BY <1>1, <1>5 DEF Again, Once, Going
  <2> QED BY <1>2, <1>5, <2>1, ChangeKeeps DEF Again
<1>6. ASSUME NEW u, Picks(peer[p], t, p, u) PROVE ChooseInv'
  <2>1. Once(t) /\ Going(t)
    BY <1>6 DEF Picks, Once, Going
  <2>2. peer'[p].picked = {u}
    BY <1>6 DEF Changed, Picks
  <2>3. ASSUME NEW j \in t.got[2] PROVE t.trent # {} /\ t.trent = peer'[j].picked
    <3>1. CASE j = p
      BY <1>6, <2>2, <3>1 DEF Picks
    <3>2. CASE j # p
      <4>1. j \in peer[p].got[2] /\ ~peer[p].short
        BY <1>6, <2>3, <3>2 DEF Picks
      <4>2. peer[p].trent # {} /\ peer[p].trent = peer[j].picked /\ peer'[j] = peer[j]
        BY <1>1, <1>3, <3>2, <4>1 DEF Heard, Changed
      <4> QED BY <1>6, <4>2 DEF Picks
    <3> QED BY <3>1, <3>2
  <2> QED BY <1>2, <1>6, <2>1, <2>2, <2>3, ChangeKeeps DEF Picks
<1> QED BY <1>4, <1>5, <1>6 DEF Moves

\* What the lemmas on the handlers ask of the state of a step.
LEMMA NotYetEntered ==
  ASSUME ChooseInv, NEW p \in Parties, peer[p].picked = {}
  PROVE  p \notin peer[p].got[2] \/ peer[p].short
BY DEF ChooseInv, Heard

LEMMA StartKeeps == ASSUME ChooseInv, NEW p \in Parties, Start(p) PROVE ChooseInv'
<1> DEFINE s == [peer[p] EXCEPT !.lists = @ \cup {peer[p].list}]
           n == NotifyList(s, p, p, s.list)
           t == Got(n, 0, p)
<1>1. peer' = [peer EXCEPT ![p] = t]
  BY DEF Start
<1>2. Shape(peer[p]) /\ Once(peer[p]) /\ Going(peer[p])
  BY DEF ChooseInv
<1>3. /\ Shape(s) /\ s.got = peer[p].got /\ s.done = peer[p].done /\ s.short = peer[p].short
      /\ s.trent = peer[p].trent /\ s.ready = peer[p].ready /\ s.picked = peer[p].picked
  BY <1>2 DEF Shape
<1> HIDE DEF s
<1>4. Once(s) /\ Going(s) /\ (s.picked = {} => p \notin s.got[2] \/ s.short) /\ Quiet(peer[p], s)
  BY <1>2, <1>3, NotYetEntered DEF Once, Going, Settled, Quiet
<1>5. Moves(s, n, p)
  BY <1>3, <1>4, NotifyListDoes
<1> HIDE DEF n
<1>6. /\ Shape(t) /\ t.got[1] = n.got[1] /\ t.got[2] = n.got[2] /\ t.done = n.done
      /\ t.short = n.short /\ t.trent = n.trent /\ t.ready = n.ready /\ t.picked = n.picked
  BY <1>5, GotDoes DEF Moves, Rounds
<1> HIDE DEF t
<1>7. Moves(s, t, p)
  <2>1. CASE Quiet(s, n)
    BY <1>6, <2>1 DEF Quiet, Moves
  <2>2. CASE Again(s, n)
    BY <1>6, <2>2 DEF Again, Moves
  <2>3. ASSUME NEW u, Picks(s, n, p, u) PROVE Picks(s, t, p, u)
    BY <1>6, <2>3 DEF Picks, Settled
  <2> QED BY <1>5, <1>6, <2>1, <2>2, <2>3 DEF Moves
<1>8. Moves(peer[p], t, p)
  BY <1>4, <1>7, QuietMoves
<1> QED BY <1>1, <1>8, OneChanges, MovesKeep

LEMMA ReceiveKeeps ==
  ASSUME ChooseInv, NEW p \in Parties, NEW j \in Parties, ReceiveList(p, j) \/ ReceiveNumber(p, j)
  PROVE  ChooseInv'
<1>1. Shape(peer[p]) /\ Once(peer[p]) /\ Going(peer[p])
  BY DEF ChooseInv
<1>2. ASSUME NEW l, peer' = [peer EXCEPT ![p] = NotifyList(@, p, j, l)] PROVE ChooseInv'
  <2> DEFINE t == NotifyList(peer[p], p, j, l)
  <2>1. Moves(peer[p], t, p)
    BY <1>1, NotYetEntered, NotifyListDoes
  <2>2. peer' = [peer EXCEPT ![p] = t]
    BY <1>2
  <2> HIDE DEF t
  <2>3. Changed(p, t)
    BY <2>2, OneChanges
  <2> QED BY <2>1, <2>3, MovesKeep
<1>3. CASE peer' = [peer EXCEPT ![p] = NotifyNumber(@, p, j)]
  <2> DEFINE t == NotifyNumber(peer[p], p, j)
  <2>1. Moves(peer[p], t, p)
    BY <1>1, NotYetEntered, NotifyNumberDoes
  <2>2. peer' = [peer EXCEPT ![p] = t]
    BY <1>3
  <2> HIDE DEF t
  <2>3. Changed(p, t)
    BY <2>2, OneChanges
  <2> QED BY <2>1, <2>3, MovesKeep
<1> QED BY <1>2, <1>3 DEF ReceiveList, ReceiveNumber

LEMMA ReceiveTrentKeeps ==
  ASSUME ChooseInv, NEW p \in Parties, NEW j \in Parties, ReceiveTrent(p, j)
  PROVE  ChooseInv'
<1>1. Shape(peer[p]) /\ Once(peer[p]) /\ Going(peer[p]) /\ Heard(peer[p])
  BY DEF ChooseInv
<1>2. PICK u \in peer[j].picked : peer' = [peer EXCEPT ![p] = NotifyTrent(@, p, j, u)]
  BY DEF ReceiveTrent
<1>3. peer[j].picked = {u}
  BY <1>2 DEF ChooseInv, Once
<1> DEFINE t == NotifyTrent(peer[p], p, j, u)
<1>4. /\ Shape(t)
      /\ t = peer[p] \/ Hears(peer[p], t, j, u) \/ (Again(peer[p], t) /\ t.picked = peer[p].picked)
  BY <1>1, NotifyTrentDoes
<1>5. peer' = [peer EXCEPT ![p] = t]
  BY <1>2
<1> HIDE DEF t
<1>6. Changed(p, t)
  BY <1>5, OneChanges
<1>7. CASE t = peer[p]
  BY <1>4, <1>6, <1>7, MovesKeep DEF Moves, Quiet
<1>8. CASE Again(peer[p], t)
  BY <1>4, <1>6, <1>8, MovesKeep DEF Moves
<1>9. CASE Hears(peer[p], t, j, u)
  <2>1. Once(t) /\ Going(t)
    BY <1>1, <1>9 DEF Hears, Once, Going
  <2>2. \A q \in Parties : peer'[q].picked = peer[q].picked
    BY <1>6, <1>9 DEF Changed, Hears
  <2>3. ASSUME ~t.short, NEW i \in t.got[2] PROVE t.trent # {} /\ t.trent = peer'[i].picked
    <3>1. CASE i = j
      BY <1>3, <1>9, <2>2, <3>1 DEF Hears
    <3>2. CASE i # j
      <4>1. i \in peer[p].got[2] /\ i \in Parties /\ ~peer[p].short
        BY <1>1, <1>9, <2>3, <3>2 DEF Hears, Shape, Rounds
      <4> QED BY <1>1, <1>9, <2>2, <4>1 DEF Heard, Hears
    <3> QED BY <3>1, <3>2
  <2>4. t.trent = peer'[j].picked
    BY <1>3, <1>9, <2>2 DEF Hears
  <2> QED BY <1>4, <1>6, <1>9, <2>1, <2>3, <2>4, ChangeKeeps DEF Hears
<1> QED BY <1>4, <1>7, <1>8, <1>9

----------------------------------------------------------------------------
\* Each signer picks once at most, and only enters signers that have picked
\* what it has, in every behaviour of the choice.
THEOREM ChooseInvariant == Spec => []ChooseInv
<1>1. Init => ChooseInv
  <2>0. Init => peer = [p \in Parties |-> peer[p]]
    BY DEF Init
  <2> SUFFICES ASSUME Init, NEW p \in Parties
               PROVE  Shape(peer[p]) /\ Once(peer[p]) /\ Going(peer[p]) /\ Heard(peer[p])
    BY <2>0 DEF ChooseInv
  <2>1. PICK l \in [Parties -> InitialLists] :
          peer[p] = [list |-> l[p], finalNumber |-> number[p],
                     got |-> [r \in Rounds |-> {}], done |-> [r \in Rounds |-> FALSE],
                     short |-> FALSE, trent |-> {}, ready |-> FALSE,
                     lists |-> {}, drawn |-> FALSE, picked |-> {}]
    BY DEF Init
  <2> QED BY <2>1 DEF Shape, Once, Going, Heard, Rounds
<1>2. ChooseInv /\ [Next]_vars => ChooseInv'
  <2> SUFFICES ASSUME ChooseInv, [Next]_vars PROVE ChooseInv'
    OBVIOUS
  <2>1. ASSUME NEW p \in Parties, Start(p) PROVE ChooseInv'
    BY <2>1, StartKeeps
  <2>2. ASSUME NEW p \in Parties, NEW j \in Parties, ReceiveList(p, j) \/ ReceiveNumber(p, j)
        PROVE  ChooseInv'
    BY <2>2, ReceiveKeeps
  <2>3. ASSUME NEW p \in Parties, NEW j \in Parties, ReceiveTrent(p, j) PROVE ChooseInv'
    BY <2>3, ReceiveTrentKeeps
  <2>4. CASE UNCHANGED vars
    BY <2>4 DEF vars, ChooseInv, Shape, Once, Going, Settled, Heard
  <2> QED BY <2>1, <2>2, <2>3, <2>4 DEF Next
<1> QED BY <1>1, <1>2, PTL DEF Spec

\* A signer that goes on to sign does so with the Trent that every signer has
\* picked, and nobody has heard of another.
THEOREM ChooseUnanimous == Spec => []UnanimousTrent
<1>1. ChooseInv => UnanimousTrent
  <2> SUFFICES ASSUME ChooseInv, NEW p \in Parties, NEW q \in Parties, peer[p].ready
               PROVE  /\ peer[p].trent # {} /\ peer[q].picked = peer[p].trent
                      /\ peer[q].trent \subseteq peer[p].trent
    BY DEF UnanimousTrent
  <2>1. \A j \in Parties : peer[p].trent # {} /\ peer[j].picked = peer[p].trent
    <3>1. Going(peer[p]) /\ Heard(peer[p])
      BY DEF ChooseInv
    <3>2. ~peer[p].short /\ peer[p].got[2] = Parties
      BY <3>1 DEF Going, Settled
    <3> QED BY <3>1, <3>2 DEF Heard
  <2>2. peer[q].trent \subseteq peer[p].trent
    BY <2>1 DEF ChooseInv, Heard
  <2> QED BY <2>1, <2>2
<1> QED BY <1>1, ChooseInvariant, PTL

\* A signer that has seen another Trent than its own never signs.
THEOREM ChooseRestartNeverSigns == Spec => []RestartNeverSigns
<1>1. ChooseInv => RestartNeverSigns
  BY DEF ChooseInv, Going, Settled, RestartNeverSigns
<1> QED BY <1>1, ChooseInvariant, PTL

----------------------------------------------------------------------------
(* The lists of users: what is left of one after it is filtered, and the   *)
(* order it is put in, are again lists of users that repeat none.          *)

Distinct(l) == \A i, j \in DOMAIN l : l[i] = l[j] => i = j

\* k holds some of the first i users of own, each once.
SomeOf(k, own, i) ==
  /\ k \in Seq(Nat) /\ Distinct(k)
  /\ \A x \in DOMAIN k : \E y \in 1..i : k[x] = own[y]

LEMMA SomeOfMore ==
  ASSUME NEW own \in Seq(Nat), Distinct(own), NEW i \in Nat, i + 1 \in DOMAIN own,
         NEW k, SomeOf(k, own, i)
  PROVE  SomeOf(k, own, i + 1) /\ SomeOf(Append(k, own[i + 1]), own, i + 1)
<1> DEFINE new == Append(k, own[i + 1])
           n == Len(k)
<1>1. /\ k \in Seq(Nat) /\ Distinct(k) /\ DOMAIN own = 1..Len(own) /\ Len(own) \in Nat
      /\ \A x \in DOMAIN k : \E y \in 1..i : k[x] = own[y]
  BY DEF SomeOf
<1>2. own[i + 1] \in Nat
  BY <1>1
<1>3. /\ n \in Nat /\ DOMAIN k = 1..n
      /\ new \in Seq(Nat) /\ DOMAIN new = 1..(n + 1)
      /\ new[n + 1] = own[i + 1] /\ \A x \in 1..n : new[x] = k[x]
  BY <1>1, <1>2
<1> HIDE DEF new, n
<1>4. \A y \in 1..i : y \in DOMAIN own /\ y # i + 1 /\ y \in 1..(i + 1)
  BY <1>1
<1>5. \A x \in 1..n : k[x] # own[i + 1]
  BY <1>1, <1>3, <1>4 DEF Distinct
<1>6. Distinct(new)
  <2> SUFFICES ASSUME NEW x \in 1..(n + 1), NEW y \in 1..(n + 1), new[x] = new[y] PROVE x = y
    BY <1>3 DEF Distinct
  <2>1. CASE x = n + 1 /\ y = n + 1
    BY <2>1
  <2>2. CASE x = n + 1 /\ y # n + 1
    BY <1>3, <1>5, <2>2
  <2>3. CASE x # n + 1 /\ y = n + 1
    BY <1>3, <1>5, <2>3
  <2>4. CASE x # n + 1 /\ y # n + 1
    <3>1. x \in DOMAIN k /\ y \in DOMAIN k /\ k[x] = k[y]
      BY <1>3, <2>4
    <3> QED BY <1>1, <3>1 DEF Distinct
  <2> QED BY <2>1, <2>2, <2>3, <2>4
<1>7. ASSUME NEW x \in DOMAIN k PROVE \E y \in 1..(i + 1) : k[x] = own[y]
  BY <1>1, <1>4
<1>8. ASSUME NEW x \in DOMAIN new PROVE \E y \in 1..(i + 1) : new[x] = own[y]
  <2>1. CASE x = n + 1
    <3>1. i + 1 \in 1..(i + 1)
      OBVIOUS
    <3> QED BY <1>3, <2>1, <3>1
  <2>2. CASE x # n + 1
    <3>1. x \in DOMAIN k /\ new[x] = k[x]
      BY <1>3, <2>2
    <3> QED BY <1>7, <3>1
  <2> QED BY <2>1, <2>2
<1>9. SomeOf(new, own, i + 1)
  BY <1>3, <1>6, <1>8 DEF SomeOf
<1>10. SomeOf(k, own, i + 1)
  BY <1>1, <1>7 DEF SomeOf
<1> QED BY <1>9, <1>10 DEF new

\* Filtering keeps some users of the list, each once.
LEMMA FilteredList ==
  ASSUME NEW own \in Seq(Nat), Distinct(own), NEW other
  PROVE  Filtered(own, other) \in Seq(Nat) /\ Distinct(Filtered(own, other))
<1> DEFINE n == Len(own)
           D == Dropped(own, other)
           V == Seq(Nat)
           One(k, i) == IF own[i] \in D THEN k ELSE Append(k, own[i])
           Eq(g) == [i \in 0..n |->
                       IF i = 0 THEN <<>>
                       ELSE IF own[i] \in D THEN g[i - 1] ELSE Append(g[i - 1], own[i])]
           kept == CHOOSE g : g = Eq(g)
           T == {i \in Nat : i <= n => SomeOf(kept[i], own, i)}
<1>1. Filtered(own, other) = kept[n]
  BY DEF Filtered
<1>2. n \in Nat /\ DOMAIN own = 1..n /\ \A i \in 1..n : own[i] \in Nat
  OBVIOUS
<1>3. <<>> \in V /\ \A k \in V, i \in 1..n : One(k, i) \in V
  OBVIOUS
<1>4. \A i \in 1..n : i \in 0..n /\ i # 0 /\ i - 1 \in 0..n
  BY <1>2
<1> HIDE DEF n, D, V
<1>5. \E g : g = Eq(g)
  <2> DEFINE F == [x \in (1..n) \X V |-> One(x[2], x[1])]
  <2>1. F \in [(1..n) \X V -> V]
    BY <1>3
  <2>2. \A i \in 1..n, k \in V : F[<<i, k>>] = One(k, i)
    OBVIOUS
  <2> HIDE DEF F
  <2>3. PICK g \in [0..n -> V] :
               g[0] = <<>> /\ \A i \in 1..n : g[i] = F[<<i, g[i - 1]>>]
    <3> DEFINE a == <<>>
    <3>1. a \in V /\ n \in Nat
      BY <1>2, <1>3
    <3> HIDE DEF a
    <3>2. Runs(V, a, n, F) # {}
      BY <2>1, <3>1, StepsExist
    <3> QED BY <3>2 DEF Runs, a
  <2>4. ASSUME NEW i \in 1..n PROVE g[i] = One(g[i - 1], i)
    <3>1. g[i - 1] \in V
      BY <1>4, <2>3
    <3> QED BY <2>2, <2>3, <3>1
  <2>5. \A i \in 0..n : g[i] = Eq(g)[i]
    <3> SUFFICES ASSUME NEW i \in 0..n PROVE g[i] = Eq(g)[i]
      OBVIOUS
    <3>1. CASE i = 0
      BY <2>3, <3>1
    <3>2. CASE i # 0
      <4>1. i \in 1..n
        BY <1>2, <3>2
      <4> QED BY <2>4, <3>2, <4>1
    <3> QED BY <3>1, <3>2
  <2>6. g = [i \in 0..n |-> g[i]] /\ Eq(g) = [i \in 0..n |-> Eq(g)[i]]
    BY <2>3
  <2> HIDE DEF Eq
  <2> QED BY <2>5, <2>6
<1>6. kept = Eq(kept)
  <2> HIDE DEF Eq
  <2> QED BY <1>5
<1> HIDE DEF kept
<1>7. 0 \in 0..n /\ kept[0] = <<>>
  <2>1. 0 \in 0..n
    BY <1>2
  <2>2. Eq(kept)[0] = <<>>
    BY <2>1
  <2> HIDE DEF Eq
  <2> QED BY <1>6, <2>1, <2>2
<1>8. \A i \in 1..n : kept[i] = One(kept[i - 1], i)
  <2>1. \A i \in 1..n : Eq(kept)[i] = One(kept[i - 1], i)
    BY <1>4
  <2> HIDE DEF Eq, One
  <2> QED BY <1>6, <2>1
<1>9. 0 \in T
  <2>1. SomeOf(<<>>, own, 0)
    BY DEF SomeOf, Distinct
  <2> QED BY <1>7, <2>1
<1>10. ASSUME NEW i \in Nat, i \in T PROVE i + 1 \in T
  <2> SUFFICES ASSUME i + 1 <= n PROVE SomeOf(kept[i + 1], own, i + 1)
    OBVIOUS
  <2>1. SomeOf(kept[i], own, i) /\ i + 1 \in 1..n
    BY <1>2, <1>10
  <2>2. kept[i + 1] = One(kept[i], i + 1)
    BY <1>8, <2>1
  <2>3. SomeOf(kept[i], own, i + 1) /\ SomeOf(Append(kept[i], own[i + 1]), own, i + 1)
    BY <1>2, <2>1, SomeOfMore
  <2> QED BY <2>2, <2>3
<1>11. SomeOf(kept[n], own, n)
  <2>1. Nat \subseteq T
    <3> HIDE DEF T
    <3> QED BY <1>9, <1>10, EveryNumber
  <2> QED BY <1>2, <2>1
<1> QED BY <1>1, <1>11 DEF SomeOf

Increasing(s) == \A i, j \in DOMAIN s : i < j => s[i] < s[j]

\* A finite set of numbers can be put in order.
LEMMA OrderExists ==
  \A n \in Nat : \A E \in SUBSET Nat :
    IsFiniteSet(E) /\ Cardinality(E) = n => \E s \in [1..n -> E] : Increasing(s)
<1> DEFINE T == {n \in Nat : \A E \in SUBSET Nat :
                   IsFiniteSet(E) /\ Cardinality(E) = n => \E s \in [1..n -> E] : Increasing(s)}
<1>1. 0 \in T
  <2> SUFFICES ASSUME NEW E \in SUBSET Nat PROVE \E s \in [1..0 -> E] : Increasing(s)
    OBVIOUS
  <2> DEFINE s == [i \in 1..0 |-> i]
  <2>1. 1..0 = {}
    OBVIOUS
  <2>2. s \in [1..0 -> E] /\ Increasing(s)
    BY <2>1 DEF Increasing
  <2> QED BY <2>2
<1>2. ASSUME NEW n \in Nat, n \in T PROVE n + 1 \in T
  <2> SUFFICES ASSUME NEW E \in SUBSET Nat, IsFiniteSet(E), Cardinality(E) = n + 1
               PROVE  \E s \in [1..(n + 1) -> E] : Increasing(s)
    OBVIOUS
  <2>1. E # {}
    BY FS_EmptySet
  <2>2. PICK m \in E : \A x \in E : m <= x
    BY <2>1, LeastNumber
  <2>3. IsFiniteSet(E \ {m}) /\ Cardinality(E \ {m}) = n
    BY FS_RemoveElement
  <2>4. PICK r \in [1..n -> E \ {m}] : Increasing(r)
    BY <1>2, <2>3
  <2> DEFINE s == [i \in 1..(n + 1) |-> IF i = 1 THEN m ELSE r[i - 1]]
  <2>5. s \in [1..(n + 1) -> E]
    BY <2>4
  <2>6. ASSUME NEW i \in 1..(n + 1), NEW j \in 1..(n + 1), i < j PROVE s[i] < s[j]
    <3>1. j - 1 \in 1..n /\ s[j] = r[j - 1]
      BY <2>6
    <3>2. CASE i = 1
      <4>1. s[i] = m /\ r[j - 1] \in E \ {m}
        BY <2>4, <3>1, <3>2
      <4>2. m <= r[j - 1] /\ m # r[j - 1] /\ m \in Nat /\ r[j - 1] \in Nat
        BY <2>2, <4>1
      <4> QED BY <3>1, <4>1, <4>2
    <3>3. CASE i # 1
      <4>1. i - 1 \in 1..n /\ s[i] = r[i - 1] /\ i - 1 < j - 1
        BY <2>6, <3>3
      <4> QED BY <2>4, <3>1, <4>1 DEF Increasing
    <3> QED BY <3>2, <3>3
  <2>7. Increasing(s)
    BY <2>6 DEF Increasing
  <2> HIDE DEF s
  <2> QED BY <2>5, <2>7
<1>3. Nat \subseteq T
  <2> HIDE DEF T
  <2> QED BY <1>1, <1>2, EveryNumber
<1> QED BY <1>3

\* There is a sorted list, which repeats no user.
LEMMA SortedList ==
  ASSUME NEW l \in Seq(Nat), Distinct(l)
  PROVE  Sorted(l) \in Seq(Nat) /\ Distinct(Sorted(l))
<1> DEFINE n == Len(l)
           E == Elements(l)
<1>1. n \in Nat /\ DOMAIN l = 1..n /\ E \in SUBSET Nat
  BY DEF Elements
<1>2. ExistsBijection(1..n, E)
  <2>1. l \in [1..n -> E] /\ \A e \in E : \E i \in 1..n : l[i] = e
    BY <1>1 DEF Elements
  <2> HIDE DEF E, n
  <2>2. l \in Injection(1..n, E)
    BY <1>1, <2>1 DEF Injection, IsInjective, Distinct
  <2>3. l \in Surjection(1..n, E)
    BY <2>1 DEF Surjection
  <2> QED BY <2>2, <2>3 DEF ExistsBijection, Bijection
<1>3. IsFiniteSet(E) /\ Cardinality(E) = n
  <2> HIDE DEF E, n
  <2> QED BY <1>1, <1>2, FS_NatBijection, FS_CountingElements
<1>4. \E s \in [DOMAIN l -> E] : Increasing(s)
  <2> HIDE DEF E, n
  <2> QED BY <1>1, <1>3, OrderExists
<1> DEFINE s == Sorted(l)
<1>5. s \in [DOMAIN l -> E] /\ Increasing(s)
  <2>1. \A r \in [DOMAIN l -> E] : DOMAIN r = DOMAIN l
    OBVIOUS
  <2>2. \E r \in [DOMAIN l -> E] : \A i, j \in DOMAIN l : i < j => r[i] < r[j]
    BY <1>4, <2>1 DEF Increasing
  <2>3. s \in [DOMAIN l -> E] /\ \A i, j \in DOMAIN l : i < j => s[i] < s[j]
    BY <2>2 DEF Sorted
  <2> QED BY <2>1, <2>3 DEF Increasing
<1> HIDE DEF s, E
<1>6. s \in [1..n -> Nat]
  BY <1>1, <1>5
<1>7. Distinct(s)
  <2> SUFFICES ASSUME NEW i \in 1..n, NEW j \in 1..n, s[i] = s[j], i # j PROVE FALSE
    BY <1>6 DEF Distinct
  <2>1. i < j \/ j < i
    BY <1>1
  <2>2. s[i] < s[j] \/ s[j] < s[i]
    BY <1>6, <1>5, <2>1 DEF Increasing
  <2> QED BY <1>6, <2>2
<1>8. s \in Seq(Nat)
  BY <1>1, <1>6
<1> QED BY <1>7, <1>8 DEF s

----------------------------------------------------------------------------
(* The lists and the numbers.  A signer that has not started again has     *)
(* added up its own number and those of the signers entered in round 1:    *)
(* the own one is counted from the start, and entered with the first list  *)
(* that is complete, so that it is not added when it is found.  Once it    *)
(* has started again, it marks no complete round, and picks no more.       *)

Listed(s) ==
  /\ s.list \in Seq(Nat) /\ Distinct(s.list)
  /\ s.lists \subseteq Seq(Nat) /\ s.picked \subseteq Nat

Tally == Sums(number, Parties)

Tallied(p, s) ==
  /\ s.finalNumber \in Nat
  /\ ~s.short => /\ s.finalNumber = Tally[s.got[1] \cup {p}]
                 /\ s.drawn => p \in s.got[1]
  /\ s.done[1] => ~s.short /\ s.got[1] = Parties

Sound(p, s) == Shape(s) /\ Listed(s) /\ Tallied(p, s)

NumberInv ==
  /\ number \in [Parties -> Numbers]
  /\ \A p \in Parties : Listed(peer[p]) /\ Tallied(p, peer[p])

LEMMA PartiesFinite == IsFiniteSet(Parties)
BY NAssumption, FS_Interval DEF Parties

LEMMA TallyAdds ==
  ASSUME number \in [Parties -> Numbers]
  PROVE  /\ \A S \in SUBSET Parties : Tally[S] \in Nat
         /\ \A j \in Parties : number[j] \in Nat /\ Tally[{j}] = number[j]
         /\ \A S \in SUBSET Parties : \A j \in Parties \ S : Tally[S \cup {j}] = Tally[S] + number[j]
         /\ SumFunction(number) = Tally[Parties]
<1>1. number \in [Parties -> Nat] /\ DOMAIN number = Parties
  BY NumbersAssumption
<1>2. /\ Tally[{}] = 0
      /\ \A S \in SUBSET Parties : Tally[S] \in Nat
  BY <1>1, PartiesFinite, SumsNat DEF Tally
<1>3. \A Q \in SUBSET Parties : \A x \in Q : Tally[Q] = number[x] + Tally[Q \ {x}]
  <2> SUFFICES ASSUME NEW Q \in SUBSET Parties, NEW x \in Q
               PROVE  Tally[Q] = number[x] + Tally[Q \ {x}]
    OBVIOUS
  <2> QED BY <1>1, PartiesFinite, SumsTake DEF Tally
<1>4. ASSUME NEW S \in SUBSET Parties, NEW j \in Parties \ S
      PROVE  Tally[S \cup {j}] = Tally[S] + number[j]
  <2>1. (S \cup {j}) \ {j} = S
    OBVIOUS
  <2>2. Tally[S \cup {j}] = number[j] + Tally[S]
    BY <1>3, <2>1
  <2> QED BY <1>1, <1>2, <2>2
<1>5. ASSUME NEW j \in Parties PROVE Tally[{j}] = number[j]
  <2>1. {} \cup {j} = {j} /\ {} \in SUBSET Parties /\ j \in Parties \ {}
    OBVIOUS
  <2>2. Tally[{} \cup {j}] = Tally[{}] + number[j]
    BY <1>4, <2>1
  <2> QED BY <1>1, <1>2, <2>1, <2>2
<1>6. SumFunction(number) = Tally[Parties]
  BY <1>1, SumIsFold DEF Tally
<1> QED BY <1>1, <1>2, <1>4, <1>5, <1>6

\* Nothing about the numbers is changed, or they are forgotten.
Steady(s, t) ==
  /\ t.list = s.list /\ t.lists \subseteq s.lists \cup {s.list}
  /\ t.finalNumber = s.finalNumber /\ t.drawn = s.drawn
  /\ \/ t.short = s.short /\ t.got[1] = s.got[1] /\ t.done[1] = s.done[1]
     \/ t.short /\ ~t.done[1]

LEMMA SteadySound ==
  ASSUME NEW p \in Parties, NEW s, NEW t, Sound(p, s), Shape(t), Steady(s, t),
         t.picked \subseteq Nat
  PROVE  Sound(p, t)
BY DEF Sound, Steady, Listed, Tallied

LEMMA NotifyTrentSteady ==
  ASSUME NEW s, Shape(s), NEW p \in Parties, NEW j \in Parties, NEW u
  PROVE  LET t == NotifyTrent(s, p, j, u)
         IN  Shape(t) /\ Steady(s, t) /\ t.picked = s.picked
<1> DEFINE g == Got(s, 2, j)
           m == [g EXCEPT !.done[2] = TRUE]
           d == [m EXCEPT !.ready = TRUE]
           e == [g EXCEPT !.trent = {u}]
           r == Restart(s, p)
           Fine(t) == Shape(t) /\ Steady(s, t) /\ t.picked = s.picked
<1>1. 1 \in Rounds /\ 2 \in Rounds /\ 1 \in Rounds \ {2}
  BY DEF Rounds
<1>2. NotifyTrent(s, p, j, u) \in {s, e, d, g, r}
  BY DEF NotifyTrent
<1>3. Fine(s)
  BY DEF Steady
<1>4. Shape(g) /\ Fine(g)
  BY <1>1, GotDoes DEF Steady
<1> HIDE DEF g
<1>5. Fine(e)
  BY <1>4 DEF Shape, Steady
<1>6. Shape(m) /\ Fine(m)
  BY <1>1, <1>4, MarkDoes DEF Steady
<1> HIDE DEF m
<1>7. Fine(d)
  BY <1>6 DEF Shape, Steady
<1>8. Fine(r)
  BY <1>1, RestartDoes DEF Steady
<1> HIDE DEF e, d, r
<1> QED BY <1>2, <1>3, <1>4, <1>5, <1>7, <1>8

LEMMA PickSound ==
  ASSUME NEW s, NEW p \in Parties, Sound(p, s), s.list # <<>>
  PROVE  Sound(p, Pick(s, p))
<1> DEFINE u == s.list[(s.finalNumber % Len(s.list)) + 1]
           shown == [s EXCEPT !.trent = IF @ = {} THEN {u} ELSE @, !.picked = @ \cup {u}]
           n == NotifyTrent(shown, p, p, u)
           t == Got(n, 2, p)
<1>1. Pick(s, p) = IF t.trent \subseteq {u} THEN t ELSE Restart(t, p)
  BY DEF Pick
<1>2. u \in Nat
  <2>1. s.list \in Seq(Nat) /\ s.finalNumber \in Nat
    BY DEF Sound, Listed, Tallied
  <2>2. Len(s.list) \in Nat \ {0}
    BY <2>1
  <2>3. (s.finalNumber % Len(s.list)) + 1 \in 1..Len(s.list)
    BY <2>1, <2>2
  <2> QED BY <2>1, <2>3
<1> HIDE DEF u
<1>3. Shape(shown) /\ Steady(s, shown) /\ shown.picked = s.picked \cup {u}
  BY DEF Sound, Shape, Steady
<1> HIDE DEF shown
<1>4. Sound(p, shown)
  <2>1. shown.picked \subseteq Nat
    BY <1>2, <1>3 DEF Sound, Listed
  <2> QED BY <1>3, <2>1, SteadySound
<1>5. Sound(p, n)
  BY <1>3, <1>4, NotifyTrentSteady, SteadySound DEF Sound, Listed
<1> HIDE DEF n
<1>6. 1 \in Rounds /\ 2 \in Rounds /\ 1 \in Rounds \ {2}
  BY DEF Rounds
<1>7. Sound(p, t)
  <2>1. Shape(t) /\ Steady(n, t) /\ t.picked = n.picked
    BY <1>5, <1>6, GotDoes DEF Sound, Steady
  <2> QED BY <1>5, <2>1, SteadySound DEF Sound, Listed
<1> HIDE DEF t
<1>8. Sound(p, Restart(t, p))
  <2> DEFINE r == Restart(t, p)
  <2>1. Shape(r) /\ Steady(t, r) /\ r.picked = t.picked
    BY <1>6, <1>7, RestartDoes DEF Sound, Steady
  <2> HIDE DEF r
  <2>2. Sound(p, r)
    BY <1>7, <2>1, SteadySound DEF Sound, Listed
  <2> QED BY <2>2 DEF r
<1> QED BY <1>1, <1>7, <1>8

\* A number found is added once, and not to the sum it is already part of.
LEMMA NotifyNumberSound ==
  ASSUME number \in [Parties -> Numbers], NEW p \in Parties, NEW j \in Parties,
         NEW s, Sound(p, s), j = p => s.short \/ p \in s.got[1]
  PROVE  Sound(p, NotifyNumber(s, p, j))
<1> DEFINE g == Got(s, 1, j)
           a == [g EXCEPT !.finalNumber = IF s.short THEN @ ELSE @ + number[j]]
           t == IF j \in s.got[1] THEN s ELSE a
           c == [t EXCEPT !.done[1] = TRUE]
<1>1. NotifyNumber(s, p, j) =
        CASE ~Incomplete(s, 1) -> s
          [] Incomplete(s, 1) /\ ~Complete(t, 1) -> t
          [] OTHER -> IF c.list = <<>> THEN c ELSE Pick(c, p)
  BY DEF NotifyNumber
<1>2. 1 \in Rounds
  BY DEF Rounds
<1>3. Shape(s) /\ Listed(s) /\ Tallied(p, s) /\ s.got[1] \subseteq Parties
  BY <1>2 DEF Sound, Shape
<1>4. /\ Shape(g) /\ g.got[1] = s.got[1] \cup {j} /\ g.done = s.done /\ g.short = s.short
      /\ g.picked = s.picked /\ g.list = s.list /\ g.lists = s.lists
      /\ g.finalNumber = s.finalNumber /\ g.drawn = s.drawn
  BY <1>2, <1>3, GotDoes
<1> HIDE DEF g
<1>5. /\ Shape(a) /\ a.got = g.got /\ a.done = g.done /\ a.short = g.short
      /\ a.picked = g.picked /\ a.list = g.list /\ a.lists = g.lists /\ a.drawn = g.drawn
      /\ a.finalNumber = IF s.short THEN g.finalNumber ELSE g.finalNumber + number[j]
  BY <1>4 DEF Shape
<1> HIDE DEF a
<1>6. ASSUME j \notin s.got[1] PROVE Sound(p, a)
  <2>1. Shape(a) /\ Listed(a)
    BY <1>3, <1>4, <1>5 DEF Listed
  <2>2. a.finalNumber \in Nat
    <3>1. s.finalNumber \in Nat /\ number[j] \in Nat
      BY <1>3, TallyAdds DEF Tallied
    <3> QED BY <1>4, <1>5, <3>1
  <2>3. ASSUME ~a.short PROVE a.finalNumber = Tally[a.got[1] \cup {p}]
    <3>1. ~s.short /\ s.finalNumber = Tally[s.got[1] \cup {p}] /\ j # p
      BY <1>3, <1>4, <1>5, <1>6, <2>3 DEF Tallied
    <3> DEFINE S == s.got[1] \cup {p}
    <3>2. S \in SUBSET Parties /\ j \in Parties \ S
      BY <1>3, <1>6, <3>1
    <3>3. Tally[S \cup {j}] = Tally[S] + number[j]
      BY <3>2, TallyAdds
    <3>4. S \cup {j} = a.got[1] \cup {p}
      BY <1>4, <1>5
    <3> HIDE DEF S
    <3>5. s.finalNumber = Tally[S]
      BY <3>1 DEF S
    <3> QED BY <1>4, <1>5, <3>1, <3>3, <3>4, <3>5
  <2>4. ~a.short /\ a.drawn => p \in a.got[1]
    BY <1>3, <1>4, <1>5 DEF Tallied
  <2>5. a.done[1] => ~a.short /\ a.got[1] = Parties
    BY <1>3, <1>4, <1>5 DEF Tallied
  <2> QED BY <2>1, <2>2, <2>3, <2>4, <2>5 DEF Sound, Tallied
<1>7. Sound(p, t)
  BY <1>6
<1> HIDE DEF t
<1>8. ASSUME Complete(t, 1) PROVE Sound(p, c)
  <2>1. /\ Shape(c) /\ c.got = t.got /\ c.done[1] /\ c.short = t.short /\ c.picked = t.picked
        /\ c.list = t.list /\ c.lists = t.lists
        /\ c.finalNumber = t.finalNumber /\ c.drawn = t.drawn
    BY <1>2, <1>7, MarkDoes DEF Sound
  <2> HIDE DEF c
  <2> QED BY <1>7, <1>8, <2>1 DEF Sound, Listed, Tallied, Complete
<1> HIDE DEF c
<1>9. CASE ~Incomplete(s, 1)
  BY <1>1, <1>9
<1>10. CASE Incomplete(s, 1) /\ ~Complete(t, 1)
  BY <1>1, <1>7, <1>10
<1>11. CASE Incomplete(s, 1) /\ Complete(t, 1) /\ c.list = <<>>
  BY <1>1, <1>8, <1>11
<1>12. CASE Incomplete(s, 1) /\ Complete(t, 1) /\ c.list # <<>>
  <2>1. Sound(p, Pick(c, p))
    BY <1>8, <1>12, PickSound
  <2>2. NotifyNumber(s, p, j) = Pick(c, p)
    BY <1>1, <1>12
  <2> QED BY <2>1, <2>2
<1> QED BY <1>9, <1>10, <1>11, <1>12

\* A list, whichever it is, leaves the own one a list of users; the last one
\* enters the own number, which is already counted.
LEMMA NotifyListSound ==
  ASSUME number \in [Parties -> Numbers], NEW p \in Parties, NEW j \in Parties, NEW l,
         NEW s, Sound(p, s)
  PROVE  Sound(p, NotifyList(s, p, j, l))
<1> DEFINE f == [s EXCEPT !.list = Filtered(s.list, l)]
           t == Got(f, 0, j)
           o == Got(t, 1, p)
           m == [o EXCEPT !.done[0] = TRUE]
           c == [m EXCEPT !.list = Sorted(@), !.drawn = TRUE]
<1>1. NotifyList(s, p, j, l) =
        CASE ~Incomplete(s, 0) -> s
          [] Incomplete(s, 0) /\ FilterThrows(s.list, l) -> f
          [] Incomplete(s, 0) /\ ~FilterThrows(s.list, l) /\ ~Complete(t, 0) -> t
          [] OTHER -> NotifyNumber(c, p, p)
  BY DEF NotifyList
<1>2. 0 \in Rounds /\ 1 \in Rounds /\ 1 \in Rounds \ {0}
  BY DEF Rounds
<1>3. Sound(p, f)
  <2>1. Filtered(s.list, l) \in Seq(Nat) /\ Distinct(Filtered(s.list, l))
    BY FilteredList DEF Sound, Listed
  <2>2. /\ Shape(f) /\ f.list = Filtered(s.list, l)
        /\ f.got = s.got /\ f.done = s.done /\ f.short = s.short /\ f.picked = s.picked
        /\ f.lists = s.lists /\ f.finalNumber = s.finalNumber /\ f.drawn = s.drawn
    BY DEF Sound, Shape
  <2> HIDE DEF f
  <2> QED BY <2>1, <2>2 DEF Sound, Listed, Tallied
<1> HIDE DEF f
<1>4. Sound(p, t)
  <2>1. Shape(t) /\ Steady(f, t) /\ t.picked = f.picked
    BY <1>2, <1>3, GotDoes DEF Sound, Steady
  <2> HIDE DEF t
  <2> QED BY <1>3, <2>1, SteadySound DEF Sound, Listed
<1>5. ASSUME Complete(t, 0) PROVE Sound(p, c) /\ p \in c.got[1]
  <2>1. ~t.short
    BY <1>5 DEF Complete
  <2> HIDE DEF t
  <2>2. /\ Shape(o) /\ o.got[1] = t.got[1] \cup {p} /\ o.done = t.done /\ o.short = t.short
        /\ o.picked = t.picked /\ o.list = t.list /\ o.lists = t.lists
        /\ o.finalNumber = t.finalNumber /\ o.drawn = t.drawn
    BY <1>2, <1>4, GotDoes DEF Sound
  <2> HIDE DEF o
  <2>3. /\ Shape(m) /\ m.got = o.got /\ m.done[1] = o.done[1] /\ m.short = o.short
        /\ m.picked = o.picked /\ m.list = o.list /\ m.lists = o.lists
        /\ m.finalNumber = o.finalNumber /\ m.drawn = o.drawn
    BY <1>2, <2>2, MarkDoes
  <2> HIDE DEF m
  <2>4. /\ Shape(c) /\ c.got = m.got /\ c.done = m.done /\ c.short = m.short
        /\ c.picked = m.picked /\ c.list = Sorted(m.list) /\ c.lists = m.lists
        /\ c.finalNumber = m.finalNumber /\ c.drawn
    BY <2>3 DEF Shape
  <2> HIDE DEF c
  <2>5. Listed(c)
    BY <1>4, <2>2, <2>3, <2>4, SortedList DEF Sound, Listed
  <2>6. t.got[1] \subseteq Parties /\ Tallied(p, t)
    BY <1>2, <1>4 DEF Sound, Shape
  <2>7. (t.got[1] \cup {p}) \cup {p} = t.got[1] \cup {p} /\ c.got[1] = t.got[1] \cup {p}
    BY <2>2, <2>3, <2>4
  <2>8. Tallied(p, c)
    BY <2>1, <2>2, <2>3, <2>4, <2>6, <2>7 DEF Tallied
  <2> QED BY <2>4, <2>5, <2>7, <2>8 DEF Sound
<1> HIDE DEF t, c
<1>6. CASE ~Incomplete(s, 0)
  BY <1>1, <1>6
<1>7. CASE Incomplete(s, 0) /\ FilterThrows(s.list, l)
  BY <1>1, <1>3, <1>7
<1>8. CASE Incomplete(s, 0) /\ ~FilterThrows(s.list, l) /\ ~Complete(t, 0)
  BY <1>1, <1>4, <1>8
<1>9. CASE Incomplete(s, 0) /\ ~FilterThrows(s.list, l) /\ Complete(t, 0)
  <2>1. Sound(p, NotifyNumber(c, p, p))
    BY <1>5, <1>9, NotifyNumberSound
  <2>2. NotifyList(s, p, j, l) = NotifyNumber(c, p, p)
    BY <1>1, <1>9
  <2> QED BY <2>1, <2>2
<1> QED BY <1>6, <1>7, <1>8, <1>9

----------------------------------------------------------------------------
\* A signer whose new state is sound keeps the invariant.
LEMMA SoundKeeps ==
  ASSUME ChooseInv, NumberInv, UNCHANGED number, NEW p \in Parties,
         NEW t, Sound(p, t), peer' = [peer EXCEPT ![p] = t]
  PROVE  NumberInv'
<1>1. peer'[p] = t /\ \A q \in Parties \ {p} : peer'[q] = peer[q]
  BY OneChanges DEF Changed
<1>2. ASSUME NEW q \in Parties PROVE (Listed(peer[q]) /\ Tallied(q, peer[q]))'
  <2>1. Tally' = Tally
    BY DEF Tally
  <2>2. CASE q = p
    BY <1>1, <2>1, <2>2 DEF Sound, Listed, Tallied
  <2>3. CASE q # p
    <3>1. peer'[q] = peer[q] /\ Listed(peer[q]) /\ Tallied(q, peer[q])
      BY <1>1, <2>3 DEF NumberInv
    <3> QED BY <2>1, <3>1 DEF Listed, Tallied
  <2> QED BY <2>2, <2>3
<1> QED BY <1>2 DEF NumberInv

LEMMA NumberStep ==
  ASSUME ChooseInv, NumberInv, Next
  PROVE  NumberInv'
<1>1. number \in [Parties -> Numbers] /\ \A p \in Parties : Sound(p, peer[p])
  BY DEF ChooseInv, NumberInv, Sound
<1>2. ASSUME NEW p \in Parties, Start(p) PROVE NumberInv'
  <2> DEFINE s == [peer[p] EXCEPT !.lists = @ \cup {peer[p].list}]
             n == NotifyList(s, p, p, s.list)
             t == Got(n, 0, p)
  <2>1. peer' = [peer EXCEPT ![p] = t] /\ UNCHANGED number
    BY <1>2 DEF Start
  <2>2. Shape(s) /\ Steady(peer[p], s) /\ s.picked = peer[p].picked
    BY <1>1 DEF Sound, Shape, Steady
  <2> HIDE DEF s
  <2>3. Sound(p, s)
    BY <1>1, <2>2, SteadySound DEF Sound, Listed
  <2>4. Sound(p, n)
    BY <1>1, <2>3, NotifyListSound
  <2> HIDE DEF n
  <2>5. Sound(p, t)
    <3>1. 0 \in Rounds /\ 1 \in Rounds \ {0}
      BY DEF Rounds
    <3>2. Shape(t) /\ Steady(n, t) /\ t.picked = n.picked
      BY <2>4, <3>1, GotDoes DEF Sound, Steady
    <3> HIDE DEF t
    <3> QED BY <2>4, <3>2, SteadySound DEF Sound, Listed
  <2> HIDE DEF t
  <2> QED BY <2>1, <2>5, SoundKeeps
<1>3. ASSUME NEW p \in Parties, NEW j \in Parties, ReceiveList(p, j) PROVE NumberInv'
  <2>1. PICK l \in peer[j].lists : peer' = [peer EXCEPT ![p] = NotifyList(@, p, j, l)]
    BY <1>3 DEF ReceiveList
  <2> DEFINE t == NotifyList(peer[p], p, j, l)
  <2>2. Sound(p, t) /\ peer' = [peer EXCEPT ![p] = t] /\ UNCHANGED number
    BY <1>1, <1>3, <2>1, NotifyListSound DEF ReceiveList
  <2> HIDE DEF t
  <2> QED BY <2>2, SoundKeeps
<1>4. ASSUME NEW p \in Parties, NEW j \in Parties, ReceiveNumber(p, j) PROVE NumberInv'
  <2> DEFINE t == NotifyNumber(peer[p], p, j)
  <2>1. peer' = [peer EXCEPT ![p] = t] /\ UNCHANGED number
    BY <1>4 DEF ReceiveNumber
  <2>2. j = p => peer[p].short \/ p \in peer[p].got[1]
    BY <1>1, <1>4 DEF ReceiveNumber, Sound, Tallied
  <2>3. Sound(p, t)
    BY <1>1, <2>2, NotifyNumberSound
  <2> HIDE DEF t
  <2> QED BY <2>1, <2>3, SoundKeeps
<1>5. ASSUME NEW p \in Parties, NEW j \in Parties, ReceiveTrent(p, j) PROVE NumberInv'
  <2>1. PICK u \in peer[j].picked : peer' = [peer EXCEPT ![p] = NotifyTrent(@, p, j, u)]
    BY <1>5 DEF ReceiveTrent
  <2> DEFINE t == NotifyTrent(peer[p], p, j, u)
  <2>2. Shape(t) /\ Steady(peer[p], t) /\ t.picked = peer[p].picked
    BY <1>1, NotifyTrentSteady DEF Sound
  <2>3. peer' = [peer EXCEPT ![p] = t] /\ UNCHANGED number
    BY <1>5, <2>1 DEF ReceiveTrent
  <2> HIDE DEF t
  <2>4. Sound(p, t)
    BY <1>1, <2>2, SteadySound DEF Sound, Listed
  <2> QED BY <2>3, <2>4, SoundKeeps
<1> QED BY <1>2, <1>3, <1>4, <1>5 DEF Next

\* Lists of users stay such lists, whatever they are filtered by, and every
\* sum counts the numbers of the signers entered so far and the own one.
THEOREM ChooseNumbers == Spec => []NumberInv
<1>1. Init => NumberInv
  <2> SUFFICES ASSUME Init PROVE NumberInv
    OBVIOUS
  <2>1. number \in [Parties -> Numbers]
    BY DEF Init
  <2>2. ASSUME NEW p \in Parties PROVE Listed(peer[p]) /\ Tallied(p, peer[p])
    <3>1. PICK l \in [Parties -> InitialLists] :
            peer[p] = [list |-> l[p], finalNumber |-> number[p],
                       got |-> [r \in Rounds |-> {}], done |-> [r \in Rounds |-> FALSE],
                       short |-> FALSE, trent |-> {}, ready |-> FALSE,
                       lists |-> {}, drawn |-> FALSE, picked |-> {}]
      BY DEF Init
    <3>2. l[p] \in Seq(Nat) /\ Distinct(l[p])
      <4>1. l[p] \in Seq(Nat \ {0}) /\ \A i, j \in DOMAIN l[p] : l[p][i] = l[p][j] => i = j
        BY ListsAssumption
      <4> QED BY <4>1 DEF Distinct
    <3>3. number[p] \in Nat /\ Tally[{p}] = number[p]
      BY <2>1, TallyAdds
    <3>4. 1 \in Rounds /\ {} \cup {p} = {p}
      BY DEF Rounds
    <3>5. Listed(peer[p])
      BY <3>1, <3>2 DEF Listed
    <3>6. /\ peer[p].got[1] \cup {p} = {p} /\ ~peer[p].done[1] /\ ~peer[p].drawn
          /\ peer[p].finalNumber = number[p]
      BY <3>1, <3>4
    <3>7. Tallied(p, peer[p])
      BY <3>3, <3>6 DEF Tallied
    <3> QED BY <3>5, <3>7
  <2> QED BY <2>1, <2>2 DEF NumberInv
<1>2. ChooseInv /\ NumberInv /\ [Next]_vars => NumberInv'
  <2>1. ASSUME NumberInv, UNCHANGED vars PROVE NumberInv'
    BY <2>1 DEF vars, NumberInv, Listed, Tallied, Tally
  <2> QED BY <2>1, NumberStep
<1> QED BY <1>1, <1>2, ChooseInvariant, PTL DEF Spec

\* The state keeps its type: filtering and sorting leave a list of users, the
\* sum stays a number, and nobody ever holds two Trents.
THEOREM ChooseTypeCorrect == Spec => []TypeOK
<1>1. ChooseInv /\ NumberInv => TypeOK
  <2> SUFFICES ASSUME ChooseInv, NumberInv, NEW p \in Parties
               PROVE  /\ peer[p].list \in Seq(Nat)
                      /\ peer[p].finalNumber \in Nat
                      /\ peer[p].got \in [Rounds -> SUBSET Parties]
                      /\ peer[p].done \in [Rounds -> BOOLEAN]
                      /\ {peer[p].short, peer[p].ready, peer[p].drawn} \subseteq BOOLEAN
                      /\ peer[p].trent \cup peer[p].picked \subseteq Nat
                      /\ Cardinality(peer[p].trent) <= 1
                      /\ \A l \in peer[p].lists : l \in Seq(Nat)
    BY DEF TypeOK, NumberInv
  <2>1. Shape(peer[p]) /\ Listed(peer[p]) /\ Tallied(p, peer[p])
    BY DEF ChooseInv, NumberInv
  <2>2. /\ peer[p].got \in [Rounds -> SUBSET Parties]
        /\ peer[p].done \in [Rounds -> BOOLEAN]
        /\ {peer[p].short, peer[p].ready, peer[p].drawn} \subseteq BOOLEAN
    BY <2>1 DEF Shape
  <2>3. peer[p].trent = {} \/ \E u \in Nat : peer[p].trent = {u}
    <3> SUFFICES ASSUME peer[p].trent # {} PROVE \E u \in Nat : peer[p].trent = {u}
      OBVIOUS
    <3>1. PICK j \in Parties : peer[p].trent = peer[j].picked
      BY DEF ChooseInv, Heard
    <3>2. Once(peer[j]) /\ peer[j].picked \subseteq Nat
      BY DEF ChooseInv, NumberInv, Listed
    <3> QED BY <3>1, <3>2 DEF Once
  <2>4. Cardinality(peer[p].trent) <= 1 /\ peer[p].trent \subseteq Nat
    <3>1. CASE peer[p].trent = {}
      BY <3>1, FS_EmptySet
    <3>2. ASSUME NEW u \in Nat, peer[p].trent = {u}
          PROVE  Cardinality(peer[p].trent) <= 1 /\ peer[p].trent \subseteq Nat
      BY <3>2, FS_Singleton
    <3> QED BY <2>3, <3>1, <3>2
  <2> QED BY <2>1, <2>2, <2>4 DEF Listed, Tallied
<1> QED BY <1>1, ChooseInvariant, ChooseNumbers, PTL

\* The number that picks Trent counts everybody's number once.
THEOREM ChooseCountsOnce == Spec => []NumbersCountOnce
<1>1. NumberInv => NumbersCountOnce
  <2> SUFFICES ASSUME NumberInv, NEW p \in Parties, peer[p].done[1]
               PROVE  peer[p].finalNumber = SumFunction(number)
    BY DEF NumbersCountOnce
  <2>1. /\ ~peer[p].short /\ peer[p].got[1] = Parties
        /\ peer[p].finalNumber = Tally[peer[p].got[1] \cup {p}]
    BY DEF NumberInv, Tallied
  <2>2. Parties \cup {p} = Parties
    OBVIOUS
  <2> QED BY <2>1, <2>2, TallyAdds DEF NumberInv
<1> QED BY <1>1, ChooseNumbers, PTL
=============================================================================
