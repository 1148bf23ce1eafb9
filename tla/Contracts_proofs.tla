---------------------------- MODULE Contracts_proofs ----------------------------
(***************************************************************************)
(* Proofs about the contracts of a server, for any users, contracts and    *)
(* threads: about the server, about the texts, and about the pages over it.*)
(*                                                                         *)
(* The server's invariant says what the copies of the requests may hold,   *)
(* for that is what they write and start later: none is accepted that      *)
(* nobody has asked to sign, and none has changed the status it has read   *)
(* unless that was NOWHERE.                                                *)
(***************************************************************************)
EXTENDS ContractsPage, TLAPS

ThreadRecord ==
    [op : {"idle", "list", "sign", "signing", "edit", "cancel"}, by : SUBSET Users,
     todo : SUBSET Entities, read : Copies, new : Copies]
Protocols == [entity : Entities, signer : Users, text : Texts]

(* Somebody has asked to sign an entity, as A says, and the key of user u  *)
(* is theirs or that of its owner.                                         *)
AskedBy(e, A) == \E v \in Users : <<v, e>> \in A
MaySign(u, e, A) == \E v \in Users : <<v, e>> \in A /\ u \in {v, e[2]}

(* What is stored, when A has been asked and the contracts of C have been  *)
(* added.                                                                  *)
SoundStored(s, A, C) ==
    \A e \in DOMAIN s : e[1] \in C /\ (s[e].wish = "ACCEPT" => AskedBy(e, A))

(* The request of a thread may still decide an entity. *)
MayDecide(r, e) ==
    /\ r.op \in {"sign", "signing", "cancel"}
    /\ e \in DOMAIN r.read /\ r.read[e].status = "NOWHERE"

(* What a thread holds. *)
SoundThread(r, A) ==
    /\ DOMAIN r.new = DOMAIN r.read
    /\ \A e \in r.todo, u \in r.by : MaySign(u, e, A)
    /\ r.op \in {"sign", "signing"} =>
          \A e \in DOMAIN r.read :
              MayDecide(r, e) /\ \A u \in r.by : MaySign(u, e, A)
    /\ \A e \in DOMAIN r.new :
          /\ r.new[e].wish = "ACCEPT" => AskedBy(e, A)
          /\ r.new[e].status = r.read[e].status \/ MayDecide(r, e)

ServerInv ==
    /\ ServerTypeOK
    /\ StartedOnlyIfAsked
    /\ SoundStored(stored, asked, added)
    /\ \A t \in Threads : SoundThread(thread[t], asked)

(* What a step may do to the contracts that are decided. *)
DecidedStep ==
    \A e \in DOMAIN stored \cap DOMAIN stored' :
        /\ stored[e].status # "NOWHERE" => stored'[e].status # "NOWHERE"
        /\ Settled(e) =>
              /\ Settled(e)' /\ stored'[e].status = stored[e].status
              /\ \A r \in running' : r.entity = e => r \in running

------------------------------------------------------------------------------
(* Copies *)

LEMMA CopiesIntro ==
    ASSUME NEW S, S \subseteq Entities, NEW f, f \in [S -> EntityRecord]
    PROVE  f \in Copies
BY DEF Copies

LEMMA CopiesElim ==
    ASSUME NEW f, f \in Copies
    PROVE  /\ DOMAIN f \subseteq Entities
           /\ f \in [DOMAIN f -> EntityRecord]
           /\ \A e \in DOMAIN f : f[e] \in EntityRecord
<1>1. PICK S \in SUBSET Entities : f \in [S -> EntityRecord]
  BY DEF Copies
<1>. QED  BY <1>1

LEMMA CancelledCopy ==
    ASSUME NEW r, r \in EntityRecord
    PROVE  /\ Cancelled(r) \in EntityRecord
           /\ Cancelled(r).wish = "REFUSE"
           /\ Cancelled(r).status # "NOWHERE"
           /\ r.status # "NOWHERE" => Cancelled(r).status = r.status
BY DEF Cancelled, EntityRecord

(* A commit stores no acceptance that is neither new nor stored, and       *)
(* changes a status only as the request has.                               *)
LEMMA WrittenCopy ==
    ASSUME NEW now, now \in EntityRecord,
           NEW read, read \in EntityRecord,
           NEW new, new \in EntityRecord
    PROVE  /\ Written(now, read, new) \in EntityRecord
           /\ Written(now, read, new).wish = "ACCEPT" => now.wish = "ACCEPT" \/ new.wish = "ACCEPT"
           /\ Written(now, read, new).status =
                 IF new.status # read.status THEN new.status ELSE now.status
BY DEF Written, Attribute, EntityRecord

LEMMA NothingRead ==
    /\ Nothing \in Copies
    /\ DOMAIN Nothing = {}
<1>1. Nothing \in [{} -> EntityRecord] /\ DOMAIN Nothing = {}
  BY DEF Nothing
<1>. QED  BY <1>1, CopiesIntro

LEMMA IdleThread ==
    ASSUME NEW A
    PROVE  /\ Idle \in ThreadRecord /\ SoundThread(Idle, A)
           /\ \A e : ~MayDecide(Idle, e)
BY NothingRead DEF Idle, Serving, ThreadRecord, SoundThread, MayDecide

LEMMA ListThread ==
    ASSUME NEW A, NEW by, by \subseteq Users, NEW todo, todo \subseteq Entities,
           \A e \in todo, u \in by : MaySign(u, e, A)
    PROVE  /\ Serving("list", by, todo, Nothing, Nothing) \in ThreadRecord
           /\ SoundThread(Serving("list", by, todo, Nothing, Nothing), A)
           /\ \A e : ~MayDecide(Serving("list", by, todo, Nothing, Nothing), e)
BY NothingRead DEF Serving, ThreadRecord, SoundThread, MayDecide

(* What has been asked stays so. *)
LEMMA AskedGrows ==
    ASSUME asked \subseteq asked'
    PROVE  /\ \A e : AskedBy(e, asked) => AskedBy(e, asked')
           /\ \A e, u : MaySign(u, e, asked) => MaySign(u, e, asked')
BY DEF AskedBy, MaySign

(* One thread changes. *)
LEMMA OneThread ==
    ASSUME ServerInv, asked \subseteq asked',
           NEW t \in Threads, NEW r, r \in ThreadRecord, SoundThread(r, asked'),
           thread' = [thread EXCEPT ![t] = r]
    PROVE  /\ thread' \in [Threads -> ThreadRecord]
           /\ \A s \in Threads : SoundThread(thread'[s], asked')
           /\ \A s \in Threads : thread'[s] = IF s = t THEN r ELSE thread[s]
<1>1. thread \in [Threads -> ThreadRecord]
  BY DEF ServerInv, ServerTypeOK, ThreadRecord
<1>2. \A s \in Threads : SoundThread(thread[s], asked')
  BY AskedGrows DEF ServerInv, SoundThread
<1>. QED  BY <1>1, <1>2

LEMMA SoundGrows ==
    ASSUME ServerInv, asked \subseteq asked', added \subseteq added'
    PROVE  SoundStored(stored, asked', added')
BY AskedGrows DEF ServerInv, SoundStored

LEMMA StartedStill ==
    ASSUME ServerInv, asked \subseteq asked', running' \subseteq running
    PROVE  running' \subseteq Protocols /\ StartedOnlyIfAsked'
BY DEF ServerInv, ServerTypeOK, StartedOnlyIfAsked, Protocols

(* A step decides nothing again when no request that reads now reads a     *)
(* decided copy as undecided, and when only the requests that may decide   *)
(* an entity change its status or start its protocol.                      *)
LEMMA DecidesNoMore ==
    ASSUME \A s \in Threads, e \in DOMAIN stored :
               MayDecide(thread'[s], e) => stored[e].status = "NOWHERE" \/ DecidedBehind(e),
           \A e \in DOMAIN stored \cap DOMAIN stored' :
               stored[e].status # "NOWHERE" =>
                  /\ stored'[e].status # "NOWHERE"
                  /\ stored'[e].status = stored[e].status \/ DecidedBehind(e),
           \A r \in running' : r \in running \/ DecidedBehind(r.entity)
    PROVE  DecidedStep
BY DEF DecidedStep, Settled, DecidedBehind, MayDecide

LEMMA BehindIfMayDecide ==
    ASSUME NEW t \in Threads, NEW e, MayDecide(thread[t], e)
    PROVE  DecidedBehind(e)
BY DEF MayDecide, DecidedBehind

------------------------------------------------------------------------------
(* The steps *)

(* What an action has to leave for the invariant. *)
LEMMA InvariantAgain ==
    ASSUME ServerInv,
           added' \subseteq ContractIds, asked' \subseteq Users \X Entities,
           stored' \in Copies, SoundStored(stored', asked', added'),
           thread' \in [Threads -> ThreadRecord],
           \A s \in Threads : SoundThread(thread'[s], asked'),
           running' \subseteq Protocols, raced' \subseteq Entities,
           StartedOnlyIfAsked',
           requests' \in 0..MaxRequests, crashes' \in 0..MaxCrashes
    PROVE  ServerInv'
BY DEF ServerInv, ServerTypeOK, ThreadRecord, Protocols, SoundThread

LEMMA CountedRequest ==
    ASSUME ServerInv, NEW t \in Threads, Request(t)
    PROVE  requests' \in 0..MaxRequests /\ crashes' \in 0..MaxCrashes
BY ContractsAssumption DEF Request, ServerInv, ServerTypeOK

(* Steps that change one thread, and not the database.  Only a request     *)
(* that may decide an entity starts its protocol.                          *)
LEMMA ThreadStep ==
    ASSUME ServerInv, NEW t \in Threads, NEW r, r \in ThreadRecord, SoundThread(r, asked'),
           thread' = [thread EXCEPT ![t] = r],
           \A e \in DOMAIN stored :
               MayDecide(r, e) => stored[e].status = "NOWHERE" \/ MayDecide(thread[t], e),
           asked \subseteq asked', asked' \subseteq Users \X Entities,
           UNCHANGED <<added, stored>>, raced' \subseteq Entities,
           running' \subseteq Protocols, StartedOnlyIfAsked',
           \A p \in running' : p \in running \/ MayDecide(thread[t], p.entity),
           requests' \in 0..MaxRequests, crashes' \in 0..MaxCrashes
    PROVE  ServerInv' /\ DecidedStep
<1>1. /\ thread' \in [Threads -> ThreadRecord]
      /\ \A s \in Threads : SoundThread(thread'[s], asked')
      /\ \A s \in Threads : thread'[s] = IF s = t THEN r ELSE thread[s]
  BY OneThread
<1>2. added' \subseteq ContractIds /\ stored' \in Copies /\ SoundStored(stored', asked', added')
  BY SoundGrows DEF ServerInv, ServerTypeOK
<1>3. ServerInv'
  BY <1>1, <1>2, InvariantAgain
<1>4. \A s \in Threads, e \in DOMAIN stored :
         MayDecide(thread'[s], e) => stored[e].status = "NOWHERE" \/ DecidedBehind(e)
  BY <1>1, BehindIfMayDecide
<1>5. \A p \in running' : p \in running \/ DecidedBehind(p.entity)
  BY BehindIfMayDecide
<1>6. DecidedStep
  BY <1>4, <1>5, DecidesNoMore
<1>. QED  BY <1>3, <1>6

(* Steps that change the database, but no thread: what is left of it keeps *)
(* its status.                                                             *)
LEMMA StoreStep ==
    ASSUME ServerInv, stored' \in Copies, SoundStored(stored', asked, added'),
           added' \subseteq ContractIds,
           UNCHANGED <<thread, running, asked, raced>>,
           \A e \in DOMAIN stored \cap DOMAIN stored' : stored'[e].status = stored[e].status,
           requests' \in 0..MaxRequests, crashes' \in 0..MaxCrashes
    PROVE  ServerInv' /\ DecidedStep
<1>1. /\ thread' \in [Threads -> ThreadRecord] /\ asked' \subseteq Users \X Entities
      /\ \A s \in Threads : SoundThread(thread'[s], asked')
      /\ raced' \subseteq Entities
  BY DEF ServerInv, ServerTypeOK, ThreadRecord
<1>2. running' \subseteq Protocols /\ StartedOnlyIfAsked'
  BY StartedStill
<1>3. ServerInv'
  BY <1>1, <1>2, InvariantAgain
<1>4. DecidedStep
  <2>1. \A s \in Threads, e \in DOMAIN stored : MayDecide(thread'[s], e) => DecidedBehind(e)
    BY BehindIfMayDecide
  <2>. QED  BY <2>1, DecidesNoMore
<1>. QED  BY <1>3, <1>4

LEMMA AddStep ==
    ASSUME ServerInv, NEW t \in Threads, NEW c \in ContractIds, NEW text \in Texts,
           Add(t, c, text)
    PROVE  ServerInv' /\ DecidedStep
<1>. DEFINE persisted == {c} \X PartiesOf[c]
            fresh == [clauses |-> text, parties |-> PartiesOf[c],
                      wish |-> "NEUTRAL", status |-> "NOWHERE"]
<1>1. persisted \subseteq Entities /\ fresh \in EntityRecord
  BY ContractsAssumption DEF Entities, EntityRecord
<1>2. /\ stored' = [e \in DOMAIN stored \cup persisted |->
                       IF e \in persisted THEN fresh ELSE stored[e]]
      /\ added' = added \cup {c} /\ c \notin added
      /\ UNCHANGED <<thread, running, asked, raced>>
  BY DEF Add
<1>3. stored \in [DOMAIN stored -> EntityRecord] /\ DOMAIN stored \subseteq Entities
  BY CopiesElim DEF ServerInv, ServerTypeOK
<1>4. stored' \in Copies
  <2>1. stored' \in [DOMAIN stored \cup persisted -> EntityRecord]
    <3>. HIDE DEF persisted, fresh
    <3>. QED  BY <1>1, <1>2, <1>3
  <2>. QED  BY <1>1, <1>3, <2>1, CopiesIntro
<1>5. \A e \in DOMAIN stored : e \notin persisted
  BY <1>2 DEF ServerInv, SoundStored
<1>6. SoundStored(stored', asked, added')
  BY <1>2, <1>5 DEF ServerInv, SoundStored
<1>7. added' \subseteq ContractIds
  BY <1>2 DEF ServerInv, ServerTypeOK
<1>8. \A e \in DOMAIN stored \cap DOMAIN stored' : stored'[e].status = stored[e].status
  BY <1>2, <1>5
<1>9. requests' \in 0..MaxRequests /\ crashes' \in 0..MaxCrashes
  BY CountedRequest DEF Add
<1>. QED  BY <1>2, <1>4, <1>6, <1>7, <1>8, <1>9, StoreStep

LEMMA DeleteStep ==
    ASSUME ServerInv, NEW t \in Threads, NEW u, NEW e \in Entities, Delete(t, u, e)
    PROVE  ServerInv' /\ DecidedStep
<1>. DEFINE left == DOMAIN stored \ {e}
<1>1. /\ stored \in [DOMAIN stored -> EntityRecord] /\ DOMAIN stored \subseteq Entities
  BY CopiesElim DEF ServerInv, ServerTypeOK
<1>2. stored' = [f \in left |-> stored[f]] /\ UNCHANGED <<added, thread, running, asked, raced>>
  BY DEF Delete, Restrict
<1>3. stored' \in [left -> EntityRecord]
  BY <1>1, <1>2
<1>4. stored' \in Copies
  BY <1>1, <1>3, CopiesIntro
<1>5. SoundStored(stored', asked, added')
  BY <1>2 DEF SoundStored, ServerInv
<1>6. requests' \in 0..MaxRequests /\ crashes' \in 0..MaxCrashes /\ added' \subseteq ContractIds
  BY <1>2, CountedRequest DEF Delete, ServerInv, ServerTypeOK
<1>. QED  BY <1>2, <1>4, <1>5, <1>6, StoreStep

(* Requests and steps that begin to sign, with the entities of rest to be  *)
(* signed next.                                                            *)
LEMMA BeginSignStep ==
    ASSUME ServerInv, NEW t \in Threads, NEW u \in Users, NEW e \in Entities, NEW rest,
           rest \subseteq Entities, \A f \in rest : MaySign(u, f, asked'),
           asked \subseteq asked', asked' \subseteq Users \X Entities, MaySign(u, e, asked'),
           BeginSign(t, u, e, rest), UNCHANGED <<added, stored, running>>,
           requests' \in 0..MaxRequests, crashes' \in 0..MaxCrashes
    PROVE  ServerInv' /\ DecidedStep
<1>1. running' \subseteq Protocols /\ StartedOnlyIfAsked'
  BY StartedStill
<1>2. CASE ReadToSign(t, u, e, rest)
  <2>1. e \in DOMAIN stored /\ stored[e].status = "NOWHERE" /\ stored[e] \in EntityRecord
    BY <1>2, CopiesElim DEF ReadToSign, ServerInv, ServerTypeOK
  <2>. DEFINE read == [f \in {e} |-> stored[e]]
              new == [f \in {e} |-> [stored[e] EXCEPT !.wish = "ACCEPT"]]
              r == Serving("sign", {u}, rest, read, new)
  <2>2. [stored[e] EXCEPT !.wish = "ACCEPT"] \in EntityRecord
        /\ [stored[e] EXCEPT !.wish = "ACCEPT"].status = stored[e].status
    BY <2>1 DEF EntityRecord
  <2>3. read \in [{e} -> EntityRecord] /\ new \in [{e} -> EntityRecord]
    BY <2>1, <2>2
  <2>4. read \in Copies /\ new \in Copies
    BY <2>3, CopiesIntro
  <2>5. r \in ThreadRecord
    BY <2>4 DEF Serving, ThreadRecord
  <2>6. AskedBy(e, asked')
    BY DEF AskedBy, MaySign
  <2>7. SoundThread(r, asked')
    BY <2>1, <2>2, <2>6 DEF Serving, SoundThread, MayDecide
  <2>8. \A f : MayDecide(r, f) => f = e
    BY DEF MayDecide, Serving
  <2>9. thread' = [thread EXCEPT ![t] = r] /\ raced' \subseteq Entities
    BY <1>2 DEF ReadToSign, ServerInv, ServerTypeOK
  <2>. HIDE DEF r
  <2>. QED  BY <1>1, <2>1, <2>5, <2>7, <2>8, <2>9, ThreadStep
<1>3. ASSUME NEW todo \in {rest, {}}, Continue(t, u, todo), UNCHANGED raced
      PROVE  ServerInv' /\ DecidedStep
  <2>. DEFINE r == IF todo = {} THEN Idle ELSE Serving("list", {u}, todo, Nothing, Nothing)
  <2>1. r \in ThreadRecord /\ SoundThread(r, asked') /\ \A f : ~MayDecide(r, f)
    BY IdleThread, ListThread
  <2>2. thread' = [thread EXCEPT ![t] = r] /\ raced' \subseteq Entities
    BY <1>3 DEF Continue, ServerInv, ServerTypeOK
  <2>. HIDE DEF r
  <2>. QED  BY <1>1, <2>1, <2>2, ThreadStep
<1>. QED  BY <1>2, <1>3 DEF BeginSign

LEMMA SignStep ==
    ASSUME ServerInv, NEW t \in Threads, NEW u \in Users, NEW e \in Entities, Sign(t, u, e)
    PROVE  ServerInv' /\ DecidedStep
<1>1. asked' = asked \cup {<<u, e>>} /\ asked' \subseteq Users \X Entities
  BY DEF Sign, ServerInv, ServerTypeOK
<1>2. requests' \in 0..MaxRequests /\ crashes' \in 0..MaxCrashes
  BY CountedRequest DEF Sign
<1>3. MaySign(u, e, asked')
  BY <1>1 DEF MaySign
<1>. QED  BY <1>1, <1>2, <1>3, BeginSignStep DEF Sign

LEMMA SignNextStep ==
    ASSUME ServerInv, NEW t \in Threads, SignNext(t)
    PROVE  ServerInv' /\ DecidedStep
<1>1. thread[t] \in ThreadRecord /\ SoundThread(thread[t], asked)
  BY DEF ServerInv, ServerTypeOK, ThreadRecord
<1>2. PICK e \in thread[t].todo, u \in thread[t].by : BeginSign(t, u, e, thread[t].todo \ {e})
  BY DEF SignNext
<1>3. /\ e \in Entities /\ u \in Users /\ thread[t].todo \subseteq Entities
      /\ \A f \in thread[t].todo : MaySign(u, f, asked)
  BY <1>1, <1>2 DEF ThreadRecord, SoundThread
<1>4. /\ UNCHANGED <<added, stored, running, asked>> /\ asked \subseteq Users \X Entities
      /\ requests' \in 0..MaxRequests /\ crashes' \in 0..MaxCrashes
  BY DEF SignNext, ServerInv, ServerTypeOK
<1>. QED  BY <1>2, <1>3, <1>4, BeginSignStep

(* The protocol is started on what the request holds, which it may still   *)
(* decide, whatever is stored by now.                                      *)
LEMMA StartProtocolStep ==
    ASSUME ServerInv, NEW t \in Threads, StartProtocol(t)
    PROVE  ServerInv' /\ DecidedStep
<1>1. /\ thread[t] \in ThreadRecord /\ SoundThread(thread[t], asked) /\ thread[t].op = "sign"
      /\ thread \in [Threads -> ThreadRecord]
  BY DEF StartProtocol, ServerInv, ServerTypeOK, ThreadRecord
<1>2. /\ UNCHANGED <<added, stored, asked>> /\ raced' \subseteq Entities
      /\ asked \subseteq Users \X Entities
      /\ requests' \in 0..MaxRequests /\ crashes' \in 0..MaxCrashes
  BY DEF StartProtocol, ServerInv, ServerTypeOK
<1>3. PICK e \in DOMAIN thread[t].read, u \in thread[t].by :
         \/ /\ u \in thread[t].read[e].parties
            /\ running' = running \cup {Protocol(e, u, thread[t].read[e].clauses)}
            /\ thread' = [thread EXCEPT ![t].op = "signing"]
         \/ thread' = [thread EXCEPT ![t] = Idle] /\ UNCHANGED running
  BY DEF StartProtocol
<1>4. MayDecide(thread[t], e) /\ MaySign(u, e, asked)
  BY <1>1, <1>3 DEF SoundThread
<1>5. CASE running' = running \cup {Protocol(e, u, thread[t].read[e].clauses)}
           /\ thread' = [thread EXCEPT ![t].op = "signing"]
  <2>. DEFINE r == [thread[t] EXCEPT !.op = "signing"]
              p == Protocol(e, u, thread[t].read[e].clauses)
  <2>1. /\ r \in ThreadRecord /\ r.op = "signing" /\ r.by = thread[t].by
        /\ r.todo = thread[t].todo /\ r.read = thread[t].read /\ r.new = thread[t].new
    BY <1>1 DEF ThreadRecord
  <2>2. thread' = [thread EXCEPT ![t] = r]
    BY <1>1, <1>5 DEF ThreadRecord
  <2>. HIDE DEF r
  <2>3. \A f : MayDecide(r, f) <=> MayDecide(thread[t], f)
    BY <1>1, <2>1 DEF MayDecide
  <2>4. SoundThread(r, asked)
    BY <1>1, <2>1, <2>3 DEF SoundThread
  <2>5. e \in Entities /\ u \in Users /\ thread[t].read[e].clauses \in Texts
    BY <1>1, <1>3, CopiesElim DEF ThreadRecord, EntityRecord
  <2>6. p \in Protocols /\ p.entity = e /\ p.signer = u
    BY <2>5 DEF Protocol, Protocols
  <2>7. running' \subseteq Protocols
    BY <1>5, <2>6 DEF ServerInv, ServerTypeOK, Protocols
  <2>. HIDE DEF p
  <2>8. StartedOnlyIfAsked'
    BY <1>2, <1>4, <1>5, <2>6 DEF p, ServerInv, StartedOnlyIfAsked, MaySign
  <2>9. \A q \in running' : q \in running \/ MayDecide(thread[t], q.entity)
    BY <1>4, <1>5, <2>6 DEF p
  <2>. QED  BY <1>2, <2>1, <2>2, <2>3, <2>4, <2>7, <2>8, <2>9, ThreadStep
<1>6. CASE thread' = [thread EXCEPT ![t] = Idle] /\ UNCHANGED running
  BY <1>2, <1>6, IdleThread, StartedStill, ThreadStep
<1>. QED  BY <1>3, <1>5, <1>6

LEMMA ProgressStep ==
    ASSUME ServerInv, NEW t \in Threads, Progress(t)
    PROVE  ServerInv' /\ DecidedStep
<1>1. /\ thread[t] \in ThreadRecord /\ SoundThread(thread[t], asked)
      /\ thread \in [Threads -> ThreadRecord] /\ thread[t].op = "signing"
  BY DEF Progress, ServerInv, ServerTypeOK, ThreadRecord
<1>2. PICK e \in DOMAIN thread[t].new, status \in {"SIGNING", "CANCELLED", "FINALIZED"} :
          thread' = [thread EXCEPT ![t].new[e].status = status]
  BY DEF Progress
<1>. DEFINE old == thread[t].new[e]
            later == [old EXCEPT !.status = status]
            new == [thread[t].new EXCEPT ![e] = later]
            r == [thread[t] EXCEPT !.new = new]
<1>3. /\ thread[t].new \in [DOMAIN thread[t].new -> EntityRecord]
      /\ DOMAIN thread[t].new \subseteq Entities /\ old \in EntityRecord
  BY <1>1, <1>2, CopiesElim DEF ThreadRecord
<1>4. later \in EntityRecord /\ later.wish = old.wish
  BY <1>2, <1>3 DEF EntityRecord
<1>5. new \in [DOMAIN thread[t].new -> EntityRecord]
  <2>. HIDE DEF old, later
  <2>. QED  BY <1>3, <1>4
<1>6. new \in Copies
  BY <1>3, <1>5, CopiesIntro
<1>7. /\ r \in ThreadRecord /\ r.new = new /\ r.op = thread[t].op /\ r.by = thread[t].by
      /\ r.read = thread[t].read /\ r.todo = thread[t].todo
  <2>. HIDE DEF new
  <2>. QED  BY <1>1, <1>6 DEF ThreadRecord
<1>8. DOMAIN new = DOMAIN thread[t].new /\ new[e] = later
      /\ \A f \in DOMAIN new : f # e => new[f] = thread[t].new[f]
  <2>. HIDE DEF later
  <2>. QED  BY <1>2, <1>3
<1>9. \A f : MayDecide(r, f) <=> MayDecide(thread[t], f)
  <2>. HIDE DEF r
  <2>. QED  BY <1>7 DEF MayDecide
<1>10. SoundThread(r, asked)
  <2>. HIDE DEF r, new, later
  <2>. QED  BY <1>1, <1>2, <1>4, <1>7, <1>8, <1>9 DEF SoundThread
<1>11. thread' = [thread EXCEPT ![t] = r]
  BY <1>1, <1>2 DEF ThreadRecord
<1>12. /\ UNCHANGED <<added, stored, running, asked>> /\ raced' \subseteq Entities
       /\ asked \subseteq Users \X Entities
       /\ requests' \in 0..MaxRequests /\ crashes' \in 0..MaxCrashes
  BY DEF Progress, ServerInv, ServerTypeOK
<1>. QED
  <2>. HIDE DEF r
  <2>. QED  BY <1>7, <1>9, <1>10, <1>11, <1>12, StartedStill, ThreadStep

LEMMA ListContractsStep ==
    ASSUME ServerInv, NEW t \in Threads, NEW u \in Users, ListContracts(t, u)
    PROVE  ServerInv' /\ DecidedStep
<1>. DEFINE r == IF Accepted(u) = {} THEN Idle
                 ELSE Serving("list", {u}, Accepted(u), Nothing, Nothing)
<1>1. Accepted(u) \subseteq Entities /\ \A e \in Accepted(u), v \in {u} : MaySign(v, e, asked)
  BY CopiesElim DEF Accepted, ServerInv, SoundStored, ServerTypeOK, AskedBy, MaySign
<1>2. /\ UNCHANGED <<added, stored, running, asked>> /\ raced' \subseteq Entities
      /\ asked \subseteq Users \X Entities
      /\ requests' \in 0..MaxRequests /\ crashes' \in 0..MaxCrashes
  BY CountedRequest DEF ListContracts, ServerInv, ServerTypeOK
<1>3. r \in ThreadRecord /\ SoundThread(r, asked) /\ \A e : ~MayDecide(r, e)
  BY <1>1, IdleThread, ListThread
<1>4. thread' = [thread EXCEPT ![t] = r]
  BY DEF ListContracts
<1>. HIDE DEF r
<1>. QED  BY <1>2, <1>3, <1>4, StartedStill, ThreadStep

(* An edit leaves wish and status of its copies as it has read them. *)
LEMMA EditStep ==
    ASSUME ServerInv, NEW t \in Threads, NEW u \in Users, NEW title, NEW text \in Texts,
           NEW parties \in PartyLists, Edit(t, u, title, text, parties)
    PROVE  ServerInv' /\ DecidedStep
<1>. DEFINE found == Editable(u, title)
            read == Restrict(stored, found)
            new == [e \in found |-> [stored[e] EXCEPT !.clauses = text, !.parties = parties]]
            r == Serving("edit", {}, {}, read, new)
<1>1. /\ found \subseteq DOMAIN stored /\ found \subseteq Entities
      /\ \A e \in found : stored[e] \in EntityRecord
  BY CopiesElim DEF Editable, ServerInv, ServerTypeOK
<1>2. \A e \in found :
         LET m == [stored[e] EXCEPT !.clauses = text, !.parties = parties]
         IN  m \in EntityRecord /\ m.wish = stored[e].wish /\ m.status = stored[e].status
  BY <1>1, ContractsAssumption DEF EntityRecord
<1>3. read \in [found -> EntityRecord] /\ new \in [found -> EntityRecord]
  BY <1>1, <1>2 DEF Restrict
<1>4. read \in Copies /\ new \in Copies
  BY <1>1, <1>3, CopiesIntro
<1>5. r \in ThreadRecord
  BY <1>4 DEF Serving, ThreadRecord
<1>6. SoundThread(r, asked)
  BY <1>1, <1>2 DEF Serving, SoundThread, Restrict, ServerInv, SoundStored
<1>7. \A e : ~MayDecide(r, e)
  BY DEF Serving, MayDecide
<1>8. /\ UNCHANGED <<added, stored, running, asked>> /\ raced' \subseteq Entities
      /\ asked \subseteq Users \X Entities
      /\ requests' \in 0..MaxRequests /\ crashes' \in 0..MaxCrashes
  BY <1>1, CountedRequest DEF Edit, ServerInv, ServerTypeOK
<1>9. thread' = [thread EXCEPT ![t] = r]
  BY DEF Edit
<1>. QED
  <2>. HIDE DEF r
  <2>. QED  BY <1>5, <1>6, <1>7, <1>8, <1>9, StartedStill, ThreadStep

LEMMA CancelStep ==
    ASSUME ServerInv, NEW t \in Threads, NEW e \in Entities, Cancel(t, e)
    PROVE  ServerInv' /\ DecidedStep
<1>. DEFINE read == [f \in {e} |-> stored[e]]
            new == [f \in {e} |-> Cancelled(stored[e])]
            r == Serving("cancel", {}, {}, read, new)
<1>1. stored[e] \in EntityRecord
  BY CopiesElim DEF Cancel, ServerInv, ServerTypeOK
<1>2. /\ Cancelled(stored[e]) \in EntityRecord
      /\ Cancelled(stored[e]).wish = "REFUSE"
      /\ stored[e].status # "NOWHERE" => Cancelled(stored[e]).status = stored[e].status
  BY <1>1, CancelledCopy
<1>3. read \in [{e} -> EntityRecord] /\ new \in [{e} -> EntityRecord]
  BY <1>1, <1>2
<1>4. read \in Copies /\ new \in Copies
  BY <1>3, CopiesIntro
<1>5. r \in ThreadRecord
  BY <1>4 DEF Serving, ThreadRecord
<1>6. SoundThread(r, asked)
  BY <1>2 DEF Serving, SoundThread, MayDecide
<1>7. \A f : MayDecide(r, f) => stored[f].status = "NOWHERE"
  BY DEF Serving, MayDecide
<1>8. /\ UNCHANGED <<added, stored, running, asked>> /\ raced' \subseteq Entities
      /\ asked \subseteq Users \X Entities
      /\ requests' \in 0..MaxRequests /\ crashes' \in 0..MaxCrashes
  BY CountedRequest DEF Cancel, ServerInv, ServerTypeOK
<1>9. thread' = [thread EXCEPT ![t] = r]
  BY DEF Cancel
<1>. QED
  <2>. HIDE DEF r
  <2>. QED  BY <1>5, <1>6, <1>7, <1>8, <1>9, StartedStill, ThreadStep

LEMMA CommitStep ==
    ASSUME ServerInv, NEW t \in Threads, Commit(t)
    PROVE  ServerInv' /\ DecidedStep
<1>. DEFINE read == thread[t].read
            new == thread[t].new
            after(e) == IF e \in DOMAIN read THEN Written(stored[e], read[e], new[e]) ELSE stored[e]
<1>1. /\ stored \in [DOMAIN stored -> EntityRecord] /\ DOMAIN stored \subseteq Entities
      /\ \A e \in DOMAIN stored : stored[e] \in EntityRecord
  BY CopiesElim DEF ServerInv, ServerTypeOK
<1>2. /\ thread[t] \in ThreadRecord /\ SoundThread(thread[t], asked)
      /\ read \in Copies /\ new \in Copies
  BY DEF ServerInv, ServerTypeOK, ThreadRecord
<1>3. \A e \in DOMAIN read : read[e] \in EntityRecord /\ new[e] \in EntityRecord
  BY <1>2, CopiesElim DEF SoundThread
<1>4. stored' = [e \in DOMAIN stored |-> after(e)] /\ UNCHANGED <<added, running, asked, raced, requests, crashes>>
  BY DEF Commit
<1>5. \A e \in DOMAIN stored :
         /\ after(e) \in EntityRecord
         /\ after(e).wish = "ACCEPT" => AskedBy(e, asked)
         /\ stored[e].status # "NOWHERE" =>
               after(e).status = stored[e].status \/ MayDecide(thread[t], e)
  <2>. SUFFICES ASSUME NEW e \in DOMAIN stored
                PROVE  /\ after(e) \in EntityRecord
                       /\ after(e).wish = "ACCEPT" => AskedBy(e, asked)
                       /\ after(e).status = stored[e].status \/ MayDecide(thread[t], e)
    OBVIOUS
  <2>1. stored[e].wish = "ACCEPT" => AskedBy(e, asked)
    BY DEF ServerInv, SoundStored
  <2>2. CASE e \in DOMAIN read
    <3>1. after(e) = Written(stored[e], read[e], new[e])
      BY <2>2
    <3>2. /\ new[e].wish = "ACCEPT" => AskedBy(e, asked)
          /\ new[e].status = read[e].status \/ MayDecide(thread[t], e)
      BY <1>2, <2>2 DEF SoundThread
    <3>. HIDE DEF after, read, new
    <3>. QED  BY <1>1, <1>3, <2>1, <2>2, <3>1, <3>2, WrittenCopy
  <2>3. CASE e \notin DOMAIN read
    BY <1>1, <2>1, <2>3
  <2>. QED  BY <2>2, <2>3
(* No status goes back to NOWHERE: what changes it is never NOWHERE, or    *)
(* has been read so.                                                       *)
<1>6. \A e \in DOMAIN stored : stored[e].status # "NOWHERE" => after(e).status # "NOWHERE"
  <2>. SUFFICES ASSUME NEW e \in DOMAIN stored, stored[e].status # "NOWHERE", e \in DOMAIN read
                PROVE  after(e).status # "NOWHERE"
    OBVIOUS
  <2>1. /\ after(e) = Written(stored[e], read[e], new[e])
        /\ new[e].status = read[e].status \/ read[e].status = "NOWHERE"
    BY <1>2 DEF SoundThread, MayDecide
  <2>. HIDE DEF after, read, new
  <2>. QED  BY <1>1, <1>3, <2>1, WrittenCopy
<1>. HIDE DEF after
<1>7. stored' \in [DOMAIN stored -> EntityRecord] /\ DOMAIN stored' = DOMAIN stored
  BY <1>4, <1>5
<1>8. stored' \in Copies /\ SoundStored(stored', asked', added')
  BY <1>1, <1>4, <1>5, <1>7, CopiesIntro DEF SoundStored, ServerInv
<1>. DEFINE r == IF thread[t].todo = {} THEN Idle
                 ELSE Serving("list", thread[t].by, thread[t].todo, Nothing, Nothing)
<1>9. r \in ThreadRecord /\ SoundThread(r, asked) /\ \A e : ~MayDecide(r, e)
  <2>1. /\ thread[t].todo \subseteq Entities /\ thread[t].by \subseteq Users
        /\ \A e \in thread[t].todo, u \in thread[t].by : MaySign(u, e, asked)
    BY <1>2 DEF ThreadRecord, SoundThread
  <2>. QED  BY <2>1, IdleThread, ListThread
<1>10. thread' = [thread EXCEPT ![t] = r]
  BY DEF Commit
<1>. HIDE DEF r
<1>11. /\ thread' \in [Threads -> ThreadRecord]
       /\ \A s \in Threads : SoundThread(thread'[s], asked')
       /\ \A s \in Threads : thread'[s] = IF s = t THEN r ELSE thread[s]
  BY <1>4, <1>9, <1>10, OneThread
<1>12. /\ added' \subseteq ContractIds /\ asked' \subseteq Users \X Entities
       /\ raced' \subseteq Entities /\ running' \subseteq Protocols /\ StartedOnlyIfAsked'
       /\ requests' \in 0..MaxRequests /\ crashes' \in 0..MaxCrashes
  BY <1>4, StartedStill DEF ServerInv, ServerTypeOK
<1>13. ServerInv'
  BY <1>8, <1>11, <1>12, InvariantAgain
<1>14. DecidedStep
  <2>1. \A s \in Threads, e \in DOMAIN stored : MayDecide(thread'[s], e) => DecidedBehind(e)
    BY <1>9, <1>11, BehindIfMayDecide
  <2>2. \A e \in DOMAIN stored \cap DOMAIN stored' :
           stored[e].status # "NOWHERE" =>
              /\ stored'[e].status # "NOWHERE"
              /\ stored'[e].status = stored[e].status \/ DecidedBehind(e)
    BY <1>4, <1>5, <1>6, BehindIfMayDecide
  <2>. QED  BY <1>4, <2>1, <2>2, DecidesNoMore
<1>. QED  BY <1>13, <1>14

LEMMA CrashStep ==
    ASSUME ServerInv, Crash
    PROVE  ServerInv' /\ DecidedStep
<1>1. /\ thread' \in [Threads -> ThreadRecord]
      /\ \A s \in Threads : SoundThread(thread'[s], asked')
      /\ \A s \in Threads, e \in DOMAIN stored : ~MayDecide(thread'[s], e)
  BY IdleThread DEF Crash
<1>2. /\ added' \subseteq ContractIds /\ asked' \subseteq Users \X Entities
      /\ stored' \in Copies /\ SoundStored(stored', asked', added')
      /\ running' = {} /\ raced' \subseteq Entities
      /\ requests' \in 0..MaxRequests /\ crashes' \in 0..MaxCrashes
  BY ContractsAssumption DEF Crash, ServerInv, ServerTypeOK
<1>3. running' \subseteq Protocols /\ StartedOnlyIfAsked'
  BY <1>2 DEF StartedOnlyIfAsked
<1>4. ServerInv'
  BY <1>1, <1>2, <1>3, InvariantAgain
<1>5. DecidedStep
  BY <1>1, <1>2, DecidesNoMore DEF Crash
<1>. QED  BY <1>4, <1>5

LEMMA ServerStep ==
    ASSUME ServerInv, ServerNext
    PROVE  ServerInv' /\ DecidedStep
<1>1. ASSUME NEW t \in Threads, NEW u \in Users, UserRequest(t, u)
      PROVE  ServerInv' /\ DecidedStep
  BY <1>1, SignStep, DeleteStep, ListContractsStep DEF UserRequest
<1>2. ASSUME NEW t \in Threads, AnyRequest(t)
      PROVE  ServerInv' /\ DecidedStep
  BY <1>2, CancelStep, AddStep, EditStep DEF AnyRequest
<1>3. ASSUME NEW t \in Threads, Serve(t)
      PROVE  ServerInv' /\ DecidedStep
  BY <1>3, SignNextStep, StartProtocolStep, CommitStep DEF Serve
<1>4. ASSUME NEW t \in Threads, Progress(t)
      PROVE  ServerInv' /\ DecidedStep
  BY <1>4, ProgressStep
<1>5. CASE Crash
  BY <1>5, CrashStep
<1>. QED  BY <1>1, <1>2, <1>3, <1>4, <1>5 DEF ServerNext

LEMMA ServerStutters ==
    ASSUME ServerInv, UNCHANGED serverVars
    PROVE  ServerInv'
BY DEF ServerInv, ServerTypeOK, StartedOnlyIfAsked, SoundStored, SoundThread, serverVars

LEMMA ServerStarts ==
    ASSUME ServerInit
    PROVE  ServerInv
<1>1. thread \in [Threads -> ThreadRecord] /\ \A t \in Threads : SoundThread(thread[t], asked)
  BY IdleThread DEF ServerInit
<1>. QED
  BY <1>1, NothingRead, ContractsAssumption
     DEF ServerInit, ServerInv, ServerTypeOK, StartedOnlyIfAsked, SoundStored, ThreadRecord, SoundThread

------------------------------------------------------------------------------
(* The server keeps its invariant, for any users, contracts and threads:   *)
(* no copy that a request may still write is ahead of what has been asked, *)
(* and its status is as it was read, or was read as NOWHERE.               *)
THEOREM ServerInvariant == ServerSpec => []ServerInv
<1>1. ServerInit => ServerInv
  BY ServerStarts
<1>2. ServerInv /\ [ServerNext]_serverVars => ServerInv'
  BY ServerStep, ServerStutters
<1>. QED  BY <1>1, <1>2, PTL DEF ServerSpec

(* The database and the copies of the requests are entities throughout.    *)
THEOREM ServerTypeCorrect == ServerSpec => []ServerTypeOK
BY ServerInvariant, PTL DEF ServerInv

(* No protocol is started on an entity that nobody has asked to sign,      *)
(* whatever is listed, edited, cancelled or lost, and with no other key    *)
(* than that of a user who has asked or of the owner of the entity.        *)
THEOREM ServerStartsIfAsked == ServerSpec => []StartedOnlyIfAsked
BY ServerInvariant, PTL DEF ServerInv

(* A stale copy never takes a decided contract back to NOWHERE.  Once the  *)
(* requests that read it before have ended, its status never changes, and  *)
(* no protocol is started on it, though a request starts its protocol      *)
(* later than it looks at the status.                                      *)
THEOREM ServerDecidesForGood == ServerSpec => DecidedForGood
<1>1. ServerInv /\ [ServerNext]_serverVars => [DecidedStep]_serverVars
  BY ServerStep
<1>2. ServerInv /\ [ServerNext]_serverVars =>
        [\A e \in DOMAIN stored \cap DOMAIN stored' :
            /\ stored[e].status # "NOWHERE" => stored'[e].status # "NOWHERE"
            /\ Settled(e) =>
                  /\ Settled(e)' /\ stored'[e].status = stored[e].status
                  /\ \A r \in running' : r.entity = e => r \in running]_serverVars
  BY <1>1 DEF DecidedStep
<1>. QED  BY <1>2, ServerInvariant, PTL DEF ServerSpec, DecidedForGood

------------------------------------------------------------------------------
(* The texts: the parties that have not decided agree on the text, and the *)
(* text a protocol signs stays.                                            *)
(*                                                                         *)
(* Edits and commits overlap, so that the invariant relates the copies of  *)
(* each request to what is stored by now.  What it turns on is that no     *)
(* commit makes a wish NEUTRAL again.                                      *)

(* What a request changes: the wish, or the text. *)
SoundCopy(r) ==
    /\ r.op \in {"idle", "list"} => DOMAIN r.read = {}
    /\ r.op \in {"sign", "signing", "cancel"} =>
          \A e \in DOMAIN r.read :
              /\ r.new[e].wish # "NEUTRAL"
              /\ r.new[e].clauses = r.read[e].clauses
              /\ r.new[e].parties = r.read[e].parties
    /\ r.op = "edit" =>
          \A e \in DOMAIN r.read : r.read[e].wish = "NEUTRAL" /\ r.new[e].wish = "NEUTRAL"

(* A contract read as decided is still decided in the store s, unless it   *)
(* was deleted, and it is of the contracts C added.                        *)
Behind(r, s, C) ==
    \A e \in DOMAIN r.read :
        /\ e[1] \in C
        /\ e \in DOMAIN s /\ r.read[e].wish # "NEUTRAL" => s[e].wish # "NEUTRAL"

(* An edit holds with an entity all those of the same contract that are    *)
(* as undecided as it is, with the same texts.                             *)
EditsTogether(r, s) ==
    r.op = "edit" =>
        \A e \in DOMAIN r.read, f \in DOMAIN s :
            /\ e \in DOMAIN s /\ f[1] = e[1]
            /\ s[e].wish = "NEUTRAL" /\ s[f].wish = "NEUTRAL"
            => /\ f \in DOMAIN r.read
               /\ r.read[f].clauses = r.read[e].clauses /\ r.read[f].parties = r.read[e].parties
               /\ r.new[f].clauses = r.new[e].clauses /\ r.new[f].parties = r.new[e].parties

CopiesInv ==
    \A t \in Threads :
        /\ SoundCopy(thread[t])
        /\ Behind(thread[t], stored, added)
        /\ EditsTogether(thread[t], stored)

(* The text that a protocol signs, or will when its request starts it.     *)
ToSign(e, text) ==
    \/ \E r \in running : r.entity = e /\ r.text = text
    \/ \E t \in Threads :
          thread[t].op = "sign" /\ e \in DOMAIN thread[t].read /\ thread[t].read[e].clauses = text

(* Why it stays: no edit holds the entity, and none will, for the entity is *)
(* decided, or about to be by the request that has started the protocol.   *)
Fixed(e, text) ==
    /\ e[1] \in added
    /\ e \in DOMAIN stored /\ e \notin raced =>
          stored[e].clauses = text /\ e \notin Holding({"edit"})
Deciding(e) == e \in DOMAIN stored => stored[e].wish # "NEUTRAL" \/ e \in Holding({"signing"})

SigningInv ==
    /\ \A e \in Entities, text \in Texts : ToSign(e, text) => Fixed(e, text)
    /\ \A r \in running : Deciding(r.entity)

TextInv == ServerInv /\ CopiesInv /\ NeutralAgree /\ SigningInv

------------------------------------------------------------------------------
(* A request that has read nothing. *)
LEMMA EmptyCopy ==
    ASSUME NEW op \in {"idle", "list"}, NEW by, NEW todo, NEW s, NEW C
    PROVE  LET r == Serving(op, by, todo, Nothing, Nothing)
           IN  /\ r.op = op /\ DOMAIN r.read = {}
               /\ SoundCopy(r) /\ Behind(r, s, C) /\ EditsTogether(r, s)
BY DEF SoundCopy, Behind, EditsTogether, Serving, Nothing

(* One thread changes, and the database does not. *)
LEMMA OneCopy ==
    ASSUME TextInv, UNCHANGED <<stored, added>>,
           NEW t \in Threads, NEW r,
           SoundCopy(r), Behind(r, stored, added), EditsTogether(r, stored),
           thread' = [thread EXCEPT ![t] = r]
    PROVE  CopiesInv' /\ NeutralAgree'
<1>1. \A s \in Threads : thread'[s] = IF s = t THEN r ELSE thread[s]
  BY DEF TextInv, ServerInv, ServerTypeOK
<1>. QED  BY <1>1 DEF TextInv, CopiesInv, NeutralAgree

LEMMA HeldAfter ==
    ASSUME TextInv, NEW t \in Threads, NEW r, thread' = [thread EXCEPT ![t] = r]
    PROVE  /\ \A e \in Holding({"edit"})' :
                 e \in Holding({"edit"}) \/ (r.op = "edit" /\ e \in DOMAIN r.read)
           /\ \A e \in Holding({"signing"}) :
                 \/ e \in Holding({"signing"})'
                 \/ thread[t].op = "signing" /\ e \in DOMAIN thread[t].read
           /\ r.op = "signing" => DOMAIN r.read \subseteq Holding({"signing"})'
           /\ \A e, text : ToSign(e, text)' =>
                 \/ ToSign(e, text)
                 \/ r.op = "sign" /\ e \in DOMAIN r.read /\ r.read[e].clauses = text
                 \/ \E p \in running' \ running : p.entity = e /\ p.text = text
<1>1. \A s \in Threads : thread'[s] = IF s = t THEN r ELSE thread[s]
  BY DEF TextInv, ServerInv, ServerTypeOK
<1>. QED  BY <1>1 DEF Holding, ToSign

(* An undecided entity that is to be signed is held by a request to sign.  *)
LEMMA SignerHolds ==
    ASSUME TextInv, NEW e, NEW text, ToSign(e, text),
           e \in DOMAIN stored, stored[e].wish = "NEUTRAL"
    PROVE  e \in Holding({"sign", "signing"})
BY DEF TextInv, SigningInv, ToSign, Deciding, Holding

(* A step that stores nothing leaves fixed what was, when the requests     *)
(* that have started a protocol still hold what they sign.                 *)
LEMMA StaysFixed ==
    ASSUME TextInv, UNCHANGED <<added, stored>>, raced \subseteq raced',
           \A e \in Holding({"edit"})' :
               \/ e \in Holding({"edit"})
               \/ /\ e \in DOMAIN stored /\ stored[e].wish = "NEUTRAL"
                  /\ e \in Holding({"sign", "signing"}) => e \in raced',
           Holding({"signing"}) \subseteq Holding({"signing"})',
           \A p \in running' : p \in running \/ p.entity \in Holding({"signing"})',
           \A e \in Entities, text \in Texts :
               ToSign(e, text)' => ToSign(e, text) \/ Fixed(e, text)'
    PROVE  SigningInv'
<1>1. ASSUME NEW e \in Entities, NEW text \in Texts, ToSign(e, text)
      PROVE  Fixed(e, text)'
  BY <1>1, SignerHolds DEF TextInv, SigningInv, Fixed
<1>2. \A p \in running' : Deciding(p.entity)'
  BY DEF TextInv, SigningInv, Deciding
<1>. QED  BY <1>1, <1>2 DEF SigningInv

(* What is stored changes, but no wish becomes NEUTRAL: the threads that   *)
(* do not change stay sound.                                               *)
LEMMA OtherCopies ==
    ASSUME TextInv, added' = added,
           \A e \in DOMAIN stored' :
              e \in DOMAIN stored /\ (stored'[e].wish = "NEUTRAL" => stored[e].wish = "NEUTRAL"),
           NEW s \in Threads, thread'[s] = thread[s]
    PROVE  SoundCopy(thread[s])' /\ Behind(thread[s], stored, added)' /\ EditsTogether(thread[s], stored)'
<1>1. SoundCopy(thread[s]) /\ Behind(thread[s], stored, added) /\ EditsTogether(thread[s], stored)
  BY DEF TextInv, CopiesInv
<1>2. SoundCopy(thread[s])'
  BY <1>1 DEF SoundCopy
<1>3. Behind(thread[s], stored, added)'
  BY <1>1 DEF Behind
<1>4. EditsTogether(thread[s], stored)'
  BY <1>1 DEF EditsTogether
<1>. QED  BY <1>2, <1>3, <1>4

------------------------------------------------------------------------------
LEMMA AddTexts ==
    ASSUME TextInv, NEW t \in Threads, NEW c \in ContractIds, NEW text \in Texts,
           Add(t, c, text)
    PROVE  CopiesInv' /\ NeutralAgree' /\ SigningInv'
<1>. DEFINE persisted == {c} \X PartiesOf[c]
            fresh == [clauses |-> text, parties |-> PartiesOf[c],
                      wish |-> "NEUTRAL", status |-> "NOWHERE"]
<1>1. /\ stored' = [e \in DOMAIN stored \cup persisted |->
                      IF e \in persisted THEN fresh ELSE stored[e]]
      /\ added' = added \cup {c} /\ c \notin added
      /\ UNCHANGED <<thread, running, asked, raced>>
  BY DEF Add
<1>2. \A e \in persisted : e[1] = c
  OBVIOUS
<1>3. \A e \in DOMAIN stored : e[1] \in added
  BY DEF TextInv, ServerInv, SoundStored
<1>4. /\ \A e : e[1] \in added /\ e \in DOMAIN stored' => e \in DOMAIN stored /\ stored'[e] = stored[e]
      /\ \A e : e[1] = c /\ e \in DOMAIN stored' => stored'[e] = fresh
      /\ \A e \in DOMAIN stored' : e[1] \in added \/ e[1] = c
  <2>. HIDE DEF persisted, fresh
  <2>. QED  BY <1>1, <1>2, <1>3
<1>. HIDE DEF persisted, fresh
<1>5. CopiesInv'
  <2>. SUFFICES ASSUME NEW s \in Threads
                PROVE  /\ SoundCopy(thread[s])
                       /\ Behind(thread[s], stored', added')
                       /\ EditsTogether(thread[s], stored')
    BY <1>1 DEF CopiesInv
  <2>1. SoundCopy(thread[s]) /\ Behind(thread[s], stored, added) /\ EditsTogether(thread[s], stored)
    BY DEF TextInv, CopiesInv
  <2>2. \A e \in DOMAIN thread[s].read : e[1] \in added
    BY <2>1 DEF Behind
  <2>3. Behind(thread[s], stored', added')
    BY <1>1, <1>4, <2>1, <2>2 DEF Behind
  <2>4. EditsTogether(thread[s], stored')
    BY <1>4, <2>1, <2>2 DEF EditsTogether
  <2>. QED  BY <2>1, <2>3, <2>4
<1>6. NeutralAgree'
  <2>. SUFFICES ASSUME NEW e \in DOMAIN stored', NEW f \in DOMAIN stored', e[1] = f[1],
                       stored'[e].wish = "NEUTRAL", stored'[f].wish = "NEUTRAL"
                PROVE  /\ stored'[e].clauses = stored'[f].clauses
                       /\ stored'[e].parties = stored'[f].parties
    BY DEF NeutralAgree
  <2>1. CASE e[1] = c
    BY <1>4, <2>1
  <2>2. CASE e[1] \in added
    BY <1>4, <2>2 DEF TextInv, NeutralAgree
  <2>. QED  BY <1>4, <2>1, <2>2
<1>7. SigningInv'
  <2>1. \A ops : Holding(ops)' = Holding(ops)
    BY <1>1 DEF Holding
  <2>2. \A e, txt : ToSign(e, txt)' <=> ToSign(e, txt)
    BY <1>1 DEF ToSign
  <2>3. ASSUME NEW e \in Entities, NEW text2 \in Texts, ToSign(e, text2)
        PROVE  Fixed(e, text2)'
    <3>1. Fixed(e, text2)
      BY <2>3 DEF TextInv, SigningInv
    <3>. QED  BY <1>1, <1>4, <2>1, <3>1 DEF Fixed
  <2>4. ASSUME NEW p \in running PROVE Deciding(p.entity)'
    <3>1. p.entity[1] \in added /\ Deciding(p.entity)
      BY DEF TextInv, SigningInv, ServerInv, ServerTypeOK, Fixed, ToSign
    <3>. QED  BY <1>4, <2>1, <3>1 DEF Deciding
  <2>. QED  BY <1>1, <2>2, <2>3, <2>4 DEF SigningInv
<1>. QED  BY <1>5, <1>6, <1>7

(* A request that begins or ends without storing anything. *)
LEMMA RequestTexts ==
    ASSUME TextInv, NEW t \in Threads, NEW r, thread[t].op # "signing",
           thread' = [thread EXCEPT ![t] = r], UNCHANGED <<added, stored, running>>,
           SoundCopy(r), Behind(r, stored, added), EditsTogether(r, stored),
           raced \subseteq raced',
           \A e : r.op = "edit" /\ e \in DOMAIN r.read =>
                    e \in DOMAIN stored /\ stored[e].wish = "NEUTRAL"
                    /\ (e \in Holding({"sign", "signing"}) => e \in raced'),
           \A e \in Entities, text \in Texts :
               r.op = "sign" /\ e \in DOMAIN r.read /\ r.read[e].clauses = text => Fixed(e, text)'
    PROVE  CopiesInv' /\ NeutralAgree' /\ SigningInv'
<1>1. CopiesInv' /\ NeutralAgree'
  BY OneCopy
<1>2. /\ \A e \in Holding({"edit"})' :
            \/ e \in Holding({"edit"})
            \/ /\ e \in DOMAIN stored /\ stored[e].wish = "NEUTRAL"
               /\ e \in Holding({"sign", "signing"}) => e \in raced'
      /\ Holding({"signing"}) \subseteq Holding({"signing"})'
  BY HeldAfter
<1>3. \A e \in Entities, text \in Texts :
         ToSign(e, text)' => ToSign(e, text) \/ Fixed(e, text)'
  BY HeldAfter
<1>4. SigningInv'
  BY <1>2, <1>3, StaysFixed
<1>. QED  BY <1>1, <1>4

(* The request of thread t begins to sign. *)
LEMMA BeginSignTexts ==
    ASSUME TextInv, NEW t \in Threads, NEW u, NEW e \in Entities, NEW rest,
           thread[t].op \in {"idle", "list"}, UNCHANGED <<added, stored, running>>,
           BeginSign(t, u, e, rest)
    PROVE  CopiesInv' /\ NeutralAgree' /\ SigningInv'
<1>1. CASE ReadToSign(t, u, e, rest)
  <2>. DEFINE read == [f \in {e} |-> stored[e]]
              new == [f \in {e} |-> [stored[e] EXCEPT !.wish = "ACCEPT"]]
              r == Serving("sign", {u}, rest, read, new)
  <2>1. e \in DOMAIN stored /\ stored[e] \in EntityRecord /\ e[1] \in added
    BY <1>1, CopiesElim DEF ReadToSign, TextInv, ServerInv, ServerTypeOK, SoundStored
  <2>2. LET m == [stored[e] EXCEPT !.wish = "ACCEPT"]
        IN  m.wish = "ACCEPT" /\ m.clauses = stored[e].clauses /\ m.parties = stored[e].parties
    BY <2>1 DEF EntityRecord
  <2>3. SoundCopy(r) /\ Behind(r, stored, added) /\ EditsTogether(r, stored)
    BY <2>1, <2>2 DEF SoundCopy, Behind, EditsTogether, Serving
  <2>4. r.op = "sign" /\ DOMAIN r.read = {e} /\ r.read[e] = stored[e]
    BY DEF Serving
  <2>5. thread' = [thread EXCEPT ![t] = r] /\ raced' = raced \cup ({e} \cap Holding({"edit"}))
    BY <1>1 DEF ReadToSign
  <2>. HIDE DEF r
  <2>6. Holding({"edit"})' \subseteq Holding({"edit"})
    BY <2>4, <2>5, HeldAfter
  <2>7. \A text : text = stored[e].clauses => Fixed(e, text)'
    BY <2>1, <2>5, <2>6 DEF Fixed
  <2>. QED  BY <2>3, <2>4, <2>5, <2>7, RequestTexts
<1>2. ASSUME NEW todo, Continue(t, u, todo), UNCHANGED raced
      PROVE  CopiesInv' /\ NeutralAgree' /\ SigningInv'
  <2>. DEFINE r == IF todo = {} THEN Idle ELSE Serving("list", {u}, todo, Nothing, Nothing)
  <2>1. thread' = [thread EXCEPT ![t] = r]
    BY <1>2 DEF Continue
  <2>2. SoundCopy(r) /\ Behind(r, stored, added) /\ EditsTogether(r, stored) /\ DOMAIN r.read = {}
    BY EmptyCopy DEF Idle
  <2>. HIDE DEF r
  <2>. QED  BY <1>2, <2>1, <2>2, RequestTexts
<1>. QED  BY <1>1, <1>2 DEF BeginSign

(* The protocol signs what its request has read. *)
LEMMA StartedTexts ==
    ASSUME TextInv, NEW t \in Threads, NEW r, thread' = [thread EXCEPT ![t] = r],
           thread[t].op = "sign", r.op = "signing",
           r.read = thread[t].read, r.new = thread[t].new,
           UNCHANGED <<added, stored, raced>>,
           NEW e \in DOMAIN r.read,
           \A p \in running' : p \in running \/ (p.entity = e /\ p.text = r.read[e].clauses)
    PROVE  CopiesInv' /\ NeutralAgree' /\ SigningInv'
<1>1. SoundCopy(r) /\ Behind(r, stored, added) /\ EditsTogether(r, stored)
  BY DEF TextInv, CopiesInv, SoundCopy, Behind, EditsTogether
<1>2. /\ Holding({"edit"})' \subseteq Holding({"edit"})
      /\ Holding({"signing"}) \subseteq Holding({"signing"})'
      /\ e \in Holding({"signing"})'
  BY HeldAfter
<1>3. ASSUME NEW f, NEW text, ToSign(f, text)'
      PROVE  ToSign(f, text)
  <2>1. \A s \in Threads : thread'[s] = IF s = t THEN r ELSE thread[s]
    BY DEF TextInv, ServerInv, ServerTypeOK
  <2>. QED  BY <1>3, <2>1 DEF ToSign
<1>4. SigningInv'
  BY <1>2, <1>3, StaysFixed
<1>. QED  BY <1>1, <1>4, OneCopy

LEMMA StartProtocolTexts ==
    ASSUME TextInv, NEW t \in Threads, StartProtocol(t)
    PROVE  CopiesInv' /\ NeutralAgree' /\ SigningInv'
<1>1. /\ thread[t] \in ThreadRecord /\ thread \in [Threads -> ThreadRecord]
      /\ thread[t].op = "sign" /\ UNCHANGED <<added, stored, raced>>
  BY DEF StartProtocol, TextInv, ServerInv, ServerTypeOK, ThreadRecord
<1>2. PICK e \in DOMAIN thread[t].read, u \in thread[t].by :
         \/ /\ running' = running \cup {Protocol(e, u, thread[t].read[e].clauses)}
            /\ thread' = [thread EXCEPT ![t].op = "signing"]
         \/ thread' = [thread EXCEPT ![t] = Idle] /\ UNCHANGED running
  BY DEF StartProtocol
<1>3. CASE running' = running \cup {Protocol(e, u, thread[t].read[e].clauses)}
           /\ thread' = [thread EXCEPT ![t].op = "signing"]
  <2>. DEFINE r == [thread[t] EXCEPT !.op = "signing"]
  <2>1. r.op = "signing" /\ r.read = thread[t].read /\ r.new = thread[t].new
    BY <1>1 DEF ThreadRecord
  <2>2. thread' = [thread EXCEPT ![t] = r]
    BY <1>1, <1>3 DEF ThreadRecord
  <2>. HIDE DEF r
  <2>3. \A p \in running' : p \in running \/ (p.entity = e /\ p.text = r.read[e].clauses)
    BY <1>3, <2>1 DEF Protocol
  <2>. QED  BY <1>1, <1>2, <2>1, <2>2, <2>3, StartedTexts
<1>4. CASE thread' = [thread EXCEPT ![t] = Idle] /\ UNCHANGED running
  <2>1. /\ SoundCopy(Idle) /\ Behind(Idle, stored, added) /\ EditsTogether(Idle, stored)
        /\ Idle.op = "idle" /\ DOMAIN Idle.read = {}
    BY EmptyCopy DEF Idle
  <2>. QED  BY <1>1, <1>4, <2>1, RequestTexts
<1>. QED  BY <1>2, <1>3, <1>4

LEMMA ListContractsTexts ==
    ASSUME TextInv, NEW t \in Threads, NEW u \in Users, ListContracts(t, u)
    PROVE  CopiesInv' /\ NeutralAgree' /\ SigningInv'
<1>. DEFINE r == IF Accepted(u) = {} THEN Idle
                 ELSE Serving("list", {u}, Accepted(u), Nothing, Nothing)
<1>1. thread' = [thread EXCEPT ![t] = r] /\ thread[t].op = "idle"
      /\ UNCHANGED <<added, stored, running, raced>>
  BY DEF ListContracts, Request, Idle, Serving
<1>2. SoundCopy(r) /\ Behind(r, stored, added) /\ EditsTogether(r, stored) /\ DOMAIN r.read = {}
  BY EmptyCopy DEF Idle
<1>. HIDE DEF r
<1>. QED  BY <1>1, <1>2, RequestTexts

LEMMA EditTexts ==
    ASSUME TextInv, NEW t \in Threads, NEW u \in Users, NEW title, NEW text \in Texts,
           NEW parties \in PartyLists, Edit(t, u, title, text, parties)
    PROVE  CopiesInv' /\ NeutralAgree' /\ SigningInv'
<1>. DEFINE found == Editable(u, title)
            read == Restrict(stored, found)
            new == [e \in found |-> [stored[e] EXCEPT !.clauses = text, !.parties = parties]]
            r == Serving("edit", {}, {}, read, new)
<1>0. thread[t].op = "idle"
  <2>1. thread[t] = Idle
    BY DEF Edit, Request
  <2>. QED  BY <2>1 DEF Idle, Serving
<1>1. /\ thread' = [thread EXCEPT ![t] = r] /\ UNCHANGED <<added, stored, running>>
      /\ raced' = raced \cup (found \cap Holding({"sign", "signing"}))
  BY DEF Edit
<1>2. /\ found \subseteq DOMAIN stored
      /\ \A e \in found : /\ stored[e] \in EntityRecord /\ stored[e].wish = "NEUTRAL"
                           /\ u \in stored[e].parties /\ TitleOf[e[1]] = title
                           /\ e[1] \in added
  BY CopiesElim DEF Editable, TextInv, ServerInv, ServerTypeOK, SoundStored
<1>3. /\ r.op = "edit" /\ DOMAIN r.read = found
      /\ \A e \in found : r.read[e] = stored[e]
      /\ \A e \in found : /\ r.new[e].wish = "NEUTRAL"
                           /\ r.new[e].clauses = text /\ r.new[e].parties = parties
  BY <1>2 DEF Serving, Restrict, EntityRecord
<1>4. \A e \in found, f \in DOMAIN stored :
         f[1] = e[1] /\ stored[f].wish = "NEUTRAL"
            => f \in found /\ stored[f].clauses = stored[e].clauses /\ stored[f].parties = stored[e].parties
  <2>1. \A e \in found, f \in DOMAIN stored :
         f[1] = e[1] /\ stored[f].wish = "NEUTRAL"
            => stored[f].clauses = stored[e].clauses /\ stored[f].parties = stored[e].parties
    BY <1>2 DEF TextInv, NeutralAgree
  <2>. QED  BY <1>2, <2>1 DEF Editable
<1>. HIDE DEF r, found
<1>5. SoundCopy(r) /\ Behind(r, stored, added) /\ EditsTogether(r, stored)
  BY <1>2, <1>3, <1>4 DEF SoundCopy, Behind, EditsTogether
<1>6. \A e : e \in found => stored[e].wish = "NEUTRAL" /\ (e \in Holding({"sign", "signing"}) => e \in raced')
  BY <1>1, <1>2
<1>. QED  BY <1>0, <1>1, <1>2, <1>3, <1>5, <1>6, RequestTexts

LEMMA CancelTexts ==
    ASSUME TextInv, NEW t \in Threads, NEW e \in Entities, Cancel(t, e)
    PROVE  CopiesInv' /\ NeutralAgree' /\ SigningInv'
<1>. DEFINE read == [f \in {e} |-> stored[e]]
            new == [f \in {e} |-> Cancelled(stored[e])]
            r == Serving("cancel", {}, {}, read, new)
<1>1. /\ thread' = [thread EXCEPT ![t] = r] /\ thread[t].op = "idle"
      /\ UNCHANGED <<added, stored, running, raced>>
  BY DEF Cancel, Request, Idle, Serving
<1>2. e \in DOMAIN stored /\ stored[e] \in EntityRecord /\ e[1] \in added
  BY CopiesElim DEF Cancel, TextInv, ServerInv, ServerTypeOK, SoundStored
<1>3. /\ Cancelled(stored[e]).wish = "REFUSE"
      /\ Cancelled(stored[e]).clauses = stored[e].clauses
      /\ Cancelled(stored[e]).parties = stored[e].parties
  BY <1>2 DEF Cancelled, EntityRecord
<1>4. SoundCopy(r) /\ Behind(r, stored, added) /\ EditsTogether(r, stored) /\ r.op = "cancel"
  BY <1>2, <1>3 DEF SoundCopy, Behind, EditsTogether, Serving
<1>. HIDE DEF r
<1>. QED  BY <1>1, <1>4, RequestTexts

LEMMA ProgressTexts ==
    ASSUME TextInv, NEW t \in Threads, Progress(t)
    PROVE  CopiesInv' /\ NeutralAgree' /\ SigningInv'
<1>1. thread[t] \in ThreadRecord /\ thread \in [Threads -> ThreadRecord] /\ thread[t].op = "signing"
      /\ DOMAIN thread[t].new = DOMAIN thread[t].read
  BY DEF Progress, TextInv, ServerInv, ServerTypeOK, ThreadRecord
<1>2. PICK e \in DOMAIN thread[t].new, status \in {"SIGNING", "CANCELLED", "FINALIZED"} :
          thread' = [thread EXCEPT ![t].new[e].status = status]
  BY DEF Progress
<1>. DEFINE old == thread[t].new[e]
            later == [old EXCEPT !.status = status]
            new == [thread[t].new EXCEPT ![e] = later]
            r == [thread[t] EXCEPT !.new = new]
<1>3. old \in EntityRecord /\ thread[t].new \in [DOMAIN thread[t].new -> EntityRecord]
  BY <1>1, <1>2, CopiesElim DEF ThreadRecord
<1>4. later.wish = old.wish /\ later.clauses = old.clauses /\ later.parties = old.parties
  BY <1>3 DEF EntityRecord
<1>5. /\ DOMAIN new = DOMAIN thread[t].new
      /\ \A f \in DOMAIN new : /\ new[f].wish = thread[t].new[f].wish
                               /\ new[f].clauses = thread[t].new[f].clauses
                               /\ new[f].parties = thread[t].new[f].parties
  <2>. HIDE DEF later
  <2>. QED  BY <1>2, <1>3, <1>4
<1>6. r.new = new /\ r.read = thread[t].read /\ r.op = "signing"
  <2>. HIDE DEF new
  <2>. QED  BY <1>1 DEF ThreadRecord
<1>7. thread' = [thread EXCEPT ![t] = r]
  BY <1>1, <1>2 DEF ThreadRecord
<1>. HIDE DEF r, new, later
<1>8. SoundCopy(thread[t]) /\ Behind(thread[t], stored, added)
  BY DEF TextInv, CopiesInv
<1>9. SoundCopy(r) /\ Behind(r, stored, added) /\ EditsTogether(r, stored)
  BY <1>1, <1>5, <1>6, <1>8 DEF SoundCopy, Behind, EditsTogether
<1>10. UNCHANGED <<added, stored, running, raced>>
  BY DEF Progress
<1>11. CopiesInv' /\ NeutralAgree'
  BY <1>7, <1>9, <1>10, OneCopy
<1>12. /\ Holding({"edit"})' \subseteq Holding({"edit"})
       /\ Holding({"signing"}) \subseteq Holding({"signing"})'
       /\ \A f, text : ToSign(f, text)' => ToSign(f, text)
  BY <1>6, <1>7, <1>10, HeldAfter
<1>13. SigningInv'
  BY <1>10, <1>12, StaysFixed
<1>. QED  BY <1>11, <1>13

LEMMA DeleteTexts ==
    ASSUME TextInv, NEW t \in Threads, NEW u, NEW e \in Entities, Delete(t, u, e)
    PROVE  CopiesInv' /\ NeutralAgree' /\ SigningInv'
<1>1. /\ stored' = [f \in DOMAIN stored \ {e} |-> stored[f]]
      /\ UNCHANGED <<added, thread, running, raced>>
  BY DEF Delete, Restrict
<1>2. CopiesInv'
  BY <1>1, OtherCopies DEF CopiesInv
<1>3. NeutralAgree'
  BY <1>1 DEF TextInv, NeutralAgree
<1>4. /\ \A ops : Holding(ops)' = Holding(ops)
      /\ \A f, text : ToSign(f, text)' <=> ToSign(f, text)
  BY <1>1 DEF Holding, ToSign
<1>5. SigningInv'
  BY <1>1, <1>4 DEF TextInv, SigningInv, Fixed, Deciding
<1>. QED  BY <1>2, <1>3, <1>5

(* What a commit stores of one entity: no wish becomes NEUTRAL again, a    *)
(* signed or cancelled entity keeps its text, an edited one is NEUTRAL     *)
(* only if it still was.                                                   *)
LEMMA CommitTexts ==
    ASSUME TextInv, NEW t \in Threads, Commit(t)
    PROVE  CopiesInv' /\ NeutralAgree' /\ SigningInv'
<1>. DEFINE read == thread[t].read
            new == thread[t].new
            r == IF thread[t].todo = {} THEN Idle
                 ELSE Serving("list", thread[t].by, thread[t].todo, Nothing, Nothing)
<1>1. /\ stored' = [e \in DOMAIN stored |->
             IF e \in DOMAIN read THEN Written(stored[e], read[e], new[e]) ELSE stored[e]]
      /\ UNCHANGED <<added, running, raced>>
      /\ thread' = [thread EXCEPT ![t] = r]
      /\ thread[t].op \in {"signing", "edit", "cancel"}
  BY DEF Commit
<1>2. SoundCopy(thread[t]) /\ Behind(thread[t], stored, added) /\ EditsTogether(thread[t], stored)
  BY DEF TextInv, CopiesInv
<1>3. DOMAIN stored' = DOMAIN stored
  BY <1>1
<1>4. \A e \in DOMAIN stored : e \notin DOMAIN read => stored'[e] = stored[e]
  BY <1>1
<1>5. \A e \in DOMAIN stored \cap DOMAIN read :
         /\ stored'[e].wish = Attribute(stored[e].wish, read[e].wish, new[e].wish)
         /\ stored'[e].clauses = Attribute(stored[e].clauses, read[e].clauses, new[e].clauses)
         /\ stored'[e].parties = Attribute(stored[e].parties, read[e].parties, new[e].parties)
  BY <1>1 DEF Written
(* The request has signed or cancelled. *)
<1>6. ASSUME thread[t].op # "edit", NEW e \in DOMAIN stored \cap DOMAIN read
      PROVE  /\ stored'[e].wish # "NEUTRAL"
             /\ stored'[e].clauses = stored[e].clauses /\ stored'[e].parties = stored[e].parties
  BY <1>1, <1>2, <1>5, <1>6 DEF SoundCopy, Behind, Attribute
(* The request has edited. *)
<1>7. ASSUME thread[t].op = "edit", NEW e \in DOMAIN stored \cap DOMAIN read
      PROVE  stored'[e].wish = stored[e].wish
  BY <1>2, <1>5, <1>7 DEF SoundCopy, Attribute
<1>8. \A e \in DOMAIN stored : stored'[e].wish = "NEUTRAL" => stored[e].wish = "NEUTRAL"
  BY <1>4, <1>6, <1>7
<1>9. CopiesInv'
  <2>1. thread' \in [Threads -> ThreadRecord] /\ \A s \in Threads : s # t => thread'[s] = thread[s]
    BY <1>1, CommitStep DEF TextInv, ServerInv, ServerTypeOK, ThreadRecord
  <2>2. thread'[t] = r
    BY <1>1 DEF TextInv, ServerInv, ServerTypeOK
  <2>3. SoundCopy(r) /\ Behind(r, stored', added') /\ EditsTogether(r, stored')
    BY EmptyCopy DEF Idle
  <2>. HIDE DEF r
  <2>4. SoundCopy(thread'[t]) /\ Behind(thread'[t], stored', added') /\ EditsTogether(thread'[t], stored')
    BY <2>2, <2>3
  <2>5. ASSUME NEW s \in Threads, s # t
        PROVE  /\ SoundCopy(thread'[s]) /\ Behind(thread'[s], stored', added')
               /\ EditsTogether(thread'[s], stored')
    BY <1>1, <1>3, <1>8, <2>1, <2>5, OtherCopies
  <2>. QED  BY <2>4, <2>5 DEF CopiesInv
<1>10. NeutralAgree'
  <2>. SUFFICES ASSUME NEW e \in DOMAIN stored, NEW f \in DOMAIN stored, e[1] = f[1],
                       stored'[e].wish = "NEUTRAL", stored'[f].wish = "NEUTRAL"
                PROVE  /\ stored'[e].clauses = stored'[f].clauses
                       /\ stored'[e].parties = stored'[f].parties
    BY <1>3 DEF NeutralAgree
  <2>1. /\ stored[e].wish = "NEUTRAL" /\ stored[f].wish = "NEUTRAL"
        /\ stored[e].clauses = stored[f].clauses /\ stored[e].parties = stored[f].parties
    BY <1>8 DEF TextInv, NeutralAgree
  <2>2. CASE thread[t].op # "edit"
    BY <1>4, <1>6, <2>1, <2>2
  <2>3. CASE thread[t].op = "edit" /\ (e \in DOMAIN read \/ f \in DOMAIN read)
    <3>1. /\ e \in DOMAIN read /\ f \in DOMAIN read
          /\ read[f].clauses = read[e].clauses /\ read[f].parties = read[e].parties
          /\ new[f].clauses = new[e].clauses /\ new[f].parties = new[e].parties
      BY <1>2, <2>1, <2>3 DEF EditsTogether
    <3>. QED  BY <1>5, <2>1, <3>1 DEF Attribute
  <2>4. CASE e \notin DOMAIN read /\ f \notin DOMAIN read
    BY <1>4, <2>1, <2>4
  <2>. QED  BY <2>2, <2>3, <2>4
<1>11. SigningInv'
  <2>1. r.op \in {"idle", "list"}
    BY EmptyCopy DEF Idle
  <2>2. /\ Holding({"edit"})' \subseteq Holding({"edit"})
        /\ \A e \in Holding({"signing"}) :
              e \in Holding({"signing"})' \/ (thread[t].op = "signing" /\ e \in DOMAIN read)
        /\ \A e, text : ToSign(e, text)' => ToSign(e, text)
    <3>. HIDE DEF r
    <3>. QED  BY <1>1, <2>1, HeldAfter
  <2>3. ASSUME NEW e \in Entities, NEW text \in Texts, ToSign(e, text)
        PROVE  Fixed(e, text)'
    <3>1. Fixed(e, text)
      BY <2>3 DEF TextInv, SigningInv
    <3>2. e \in DOMAIN stored /\ e \notin raced => stored'[e].clauses = stored[e].clauses
      <4>1. thread[t].op = "edit" /\ e \in DOMAIN read => e \in Holding({"edit"})
        BY DEF Holding
      <4>. QED  BY <1>4, <1>6, <3>1, <4>1 DEF Fixed
    <3>. QED  BY <1>1, <1>3, <2>2, <3>1, <3>2 DEF Fixed
  <2>4. ASSUME NEW p \in running PROVE Deciding(p.entity)'
    <3>1. Deciding(p.entity)
      BY DEF TextInv, SigningInv
    <3>2. ASSUME p.entity \in DOMAIN stored
          PROVE  stored'[p.entity].wish # "NEUTRAL" \/ p.entity \in Holding({"signing"})'
      <4>1. CASE stored[p.entity].wish # "NEUTRAL"
        BY <1>8, <3>2, <4>1
      <4>2. CASE p.entity \in Holding({"signing"})
        BY <1>6, <2>2, <3>2, <4>2
      <4>. QED  BY <3>1, <3>2, <4>1, <4>2 DEF Deciding
    <3>. QED  BY <1>3, <3>2 DEF Deciding
  <2>. QED  BY <1>1, <2>2, <2>3, <2>4 DEF SigningInv
<1>. QED  BY <1>9, <1>10, <1>11

LEMMA CrashTexts ==
    ASSUME TextInv, Crash
    PROVE  CopiesInv' /\ NeutralAgree' /\ SigningInv'
<1>1. \A t \in Threads : thread'[t] = Idle
  BY DEF Crash
<1>2. CopiesInv'
  BY <1>1, EmptyCopy DEF CopiesInv, Idle
<1>3. NeutralAgree'
  BY DEF Crash, TextInv, NeutralAgree
<1>4. running' = {} /\ \A e, text : ~ToSign(e, text)'
  BY <1>1 DEF Crash, ToSign, Idle, Serving
<1>5. SigningInv'
  BY <1>4 DEF SigningInv
<1>. QED  BY <1>2, <1>3, <1>5

LEMMA TextStep ==
    ASSUME TextInv, ServerNext
    PROVE  TextInv'
<1>. DEFINE Goal == CopiesInv' /\ NeutralAgree' /\ SigningInv'
<1>1. ASSUME NEW t \in Threads, NEW u \in Users, NEW e \in Entities, Sign(t, u, e) PROVE Goal
  BY <1>1, BeginSignTexts DEF Sign, Request, Idle, Serving
<1>2. ASSUME NEW t \in Threads, NEW u \in Users, UserRequest(t, u) PROVE Goal
  BY <1>1, <1>2, DeleteTexts, ListContractsTexts DEF UserRequest
<1>3. ASSUME NEW t \in Threads, AnyRequest(t) PROVE Goal
  BY <1>3, CancelTexts, AddTexts, EditTexts DEF AnyRequest
<1>4. ASSUME NEW t \in Threads, SignNext(t) PROVE Goal
  <2>1. PICK e \in thread[t].todo, u \in thread[t].by :
            BeginSign(t, u, e, thread[t].todo \ {e})
    BY <1>4 DEF SignNext
  <2>2. e \in Entities /\ thread[t].op = "list" /\ UNCHANGED <<added, stored, running>>
    BY <1>4 DEF SignNext, TextInv, ServerInv, ServerTypeOK
  <2>. QED  BY <2>1, <2>2, BeginSignTexts
<1>5. ASSUME NEW t \in Threads, StartProtocol(t) PROVE Goal
  BY <1>5, StartProtocolTexts
<1>6. ASSUME NEW t \in Threads, Commit(t) PROVE Goal
  BY <1>6, CommitTexts
<1>7. ASSUME NEW t \in Threads, Progress(t) PROVE Goal
  BY <1>7, ProgressTexts
<1>8. ASSUME Crash PROVE Goal
  BY <1>8, CrashTexts
<1>9. Goal
  BY <1>2, <1>3, <1>4, <1>5, <1>6, <1>7, <1>8 DEF ServerNext, Serve
<1>10. ServerInv'
  BY ServerStep DEF TextInv
<1>. QED  BY <1>9, <1>10 DEF TextInv

LEMMA TextStutters ==
    ASSUME TextInv, UNCHANGED serverVars
    PROVE  TextInv'
<1>1. UNCHANGED <<added, stored, thread, running, raced>>
  BY DEF serverVars
<1>2. /\ \A ops : Holding(ops)' = Holding(ops)
      /\ \A e, text : ToSign(e, text)' <=> ToSign(e, text)
  BY <1>1 DEF Holding, ToSign
<1>3. ServerInv'
  BY ServerStutters DEF TextInv
<1>4. CopiesInv' /\ NeutralAgree'
  BY <1>1 DEF TextInv, CopiesInv, NeutralAgree
<1>5. SigningInv'
  BY <1>1, <1>2 DEF TextInv, SigningInv, Fixed, Deciding
<1>. QED  BY <1>3, <1>4, <1>5 DEF TextInv

LEMMA TextStarts ==
    ASSUME ServerInit
    PROVE  TextInv
<1>1. CopiesInv
  BY EmptyCopy DEF ServerInit, CopiesInv, Idle
<1>2. NeutralAgree /\ SigningInv
  BY DEF ServerInit, NeutralAgree, SigningInv, ToSign, Idle, Serving, Nothing
<1>. QED  BY <1>1, <1>2, ServerStarts DEF TextInv

------------------------------------------------------------------------------
(* What requests hold and what is stored stay related, however requests    *)
(* overlap.                                                                *)
THEOREM TextInvariant == ServerSpec => []TextInv
<1>1. ServerInit => TextInv
  BY TextStarts
<1>2. TextInv /\ [ServerNext]_serverVars => TextInv'
  BY TextStep, TextStutters
<1>. QED  BY <1>1, <1>2, PTL DEF ServerSpec

(* The parties that have not decided yet have the same text before them.   *)
THEOREM ServerNeutralAgree == ServerSpec => []NeutralAgree
BY TextInvariant, PTL DEF TextInv

(* The text that a protocol signs is that of the entity as long as it is   *)
(* there, unless an edit and the request to sign were served together.     *)
THEOREM ServerTextIsFixed == ServerSpec => []TextIsFixed
<1>1. TextInv => TextIsFixed
  BY DEF TextInv, ServerInv, ServerTypeOK, SigningInv, ToSign, Fixed, TextIsFixed
<1>. QED  BY <1>1, TextInvariant, PTL

------------------------------------------------------------------------------
(* The pages: whatever their user does is a request the server serves, so  *)
(* that all the above holds of them; and none of it asks to sign.          *)

PageShows ==
    /\ DOMAIN page = {"at", "entity", "status"}
    /\ page.at # "viewContracts" => page.entity \in Entities

LEMMA PageStarts == Init => PageShows
BY DEF Init, PageShows, At

LEMMA PageStep ==
    ASSUME User \in Users, PageShows, [Next]_vars
    PROVE  [ServerNext]_serverVars /\ PageShows'
<1>1. ASSUME NEW t \in Threads, GoToList(t) PROVE ServerNext /\ PageShows'
  BY <1>1 DEF GoToList, ServerNext, UserRequest, PageShows, At
<1>2. ASSUME NEW t \in Threads, Submit(t) PROVE ServerNext /\ PageShows'
  BY <1>2 DEF Submit, ServerNext, AnyRequest, PageShows, pageVars
<1>3. ASSUME NEW t \in Threads, DeleteContract(t) PROVE ServerNext /\ PageShows'
  BY <1>3 DEF DeleteContract, ServerNext, UserRequest, PageShows, pageVars
<1>4. ASSUME NEW t \in Threads, AddContract(t) PROVE ServerNext /\ PageShows'
  BY <1>4 DEF AddContract, ServerNext, AnyRequest, PageShows, pageVars
<1>5. ASSUME NEW t \in Threads, OtherClient(t) PROVE ServerNext /\ PageShows'
  BY <1>5 DEF OtherClient, ServerNext, PageShows, pageVars
<1>6. ASSUME NEW t \in Threads, Serve(t) \/ Progress(t), UNCHANGED pageVars
      PROVE  ServerNext /\ PageShows'
  BY <1>6 DEF ServerNext, PageShows, pageVars
<1>7. ASSUME NEW e \in Entities, ViewContract(e) PROVE UNCHANGED serverVars /\ PageShows'
  BY <1>7 DEF ViewContract, PageShows, At
<1>8. ASSUME EditContract PROVE UNCHANGED serverVars /\ PageShows'
  BY <1>8 DEF EditContract, PageShows
<1>9. ASSUME Crash, UNCHANGED pageVars PROVE ServerNext /\ PageShows'
  BY <1>9 DEF ServerNext, PageShows, pageVars
<1>10. ASSUME UNCHANGED vars PROVE UNCHANGED serverVars /\ PageShows'
  BY <1>10 DEF vars, PageShows, pageVars
<1>. QED  BY <1>1, <1>2, <1>3, <1>4, <1>5, <1>6, <1>7, <1>8, <1>9, <1>10
          DEF Next, ViewContracts, Accept, Decline

(* The pages and the server implement the server: a page that loads, edits *)
(* or deletes what it shows sends a request that the server knows, and one *)
(* that only moves to another view changes nothing there.                  *)
THEOREM PagesImplementServer == ASSUME User \in Users PROVE Spec => ServerSpec
<1>1. Init => ServerInit /\ PageShows
  BY PageStarts DEF Init
<1>2. PageShows /\ [Next]_vars => [ServerNext]_serverVars /\ PageShows'
  BY PageStep
<1>. QED  BY <1>1, <1>2, PTL DEF Spec, ServerSpec

(* The server's guarantees hold under the pages, too, with other clients   *)
(* that send it any request, for anybody's contracts.                      *)
THEOREM PagesKeepGuarantees ==
  ASSUME User \in Users
  PROVE  Spec => [](StartedOnlyIfAsked /\ NeutralAgree /\ TextIsFixed) /\ DecidedForGood
BY PagesImplementServer, ServerStartsIfAsked, ServerNeutralAgree, ServerTextIsFixed,
   ServerDecidesForGood, PTL

(* Nothing the user of the pages can do asks the server to sign.           *)
NeverAsked == asked \subseteq (Users \ {User}) \X Entities
StartedByOthers ==
    \A r \in running : \E u \in Users \ {User} : <<u, r.entity>> \in asked

LEMMA NeverAskedStep ==
    ASSUME NeverAsked, [Next]_vars
    PROVE  NeverAsked'
<1>1. SUFFICES ASSUME asked' # asked PROVE NeverAsked'
  BY DEF NeverAsked
<1>2. PICK t \in Threads : OtherClient(t)
  BY <1>1 DEF Next, ViewContracts, Accept, Decline, GoToList, ListContracts, Submit, Edit,
     DeleteContract, Delete, AddContract, Add, Serve, SignNext, StartProtocol, Commit, Progress,
     ViewContract, EditContract, Crash, vars, serverVars
<1>3. ~AnyRequest(t)
  BY <1>1 DEF AnyRequest, Cancel, Add, Edit
<1>4. PICK u \in Users \ {User}, e \in Entities : Sign(t, u, e)
  BY <1>1, <1>2, <1>3 DEF OtherClient, UserRequest, Delete, ListContracts
<1>. QED  BY <1>4 DEF Sign, NeverAsked

(* contracts.js, sign: no address that the pages send a request to signs.  *)
(* However often a user presses the button, and whatever is listed, edited *)
(* or restarted, a protocol runs only on an entity that the token of       *)
(* another user was used to sign.  With that user's request the listings   *)
(* of the pages do start it, with the key of their own user.               *)
THEOREM PagesNeverStart == ASSUME User \in Users PROVE Spec => []StartedByOthers
<1>1. Init => NeverAsked
  BY DEF Init, ServerInit, NeverAsked
<1>2. NeverAsked /\ [Next]_vars => NeverAsked'
  BY NeverAskedStep
<1>3. NeverAsked /\ StartedOnlyIfAsked => StartedByOthers
  BY DEF NeverAsked, StartedOnlyIfAsked, StartedByOthers
<1>. QED  BY <1>1, <1>2, <1>3, PagesImplementServer, ServerStartsIfAsked, PTL DEF Spec
==============================================================================
