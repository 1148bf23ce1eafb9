------------------------------- MODULE Contracts -------------------------------
(***************************************************************************)
(* The contracts of one server (controller/Contracts.java): one entity per *)
(* party in the database, requests served by threads, and the Sigma        *)
(* protocols that they start.                                              *)
(*                                                                         *)
(* A request reads copies of entities, and its commit writes the           *)
(* attributes it has changed: there are no versions and no locks, so that  *)
(* requests overlap freely between the two.  A protocol works on the copy  *)
(* of the request that has started it; what it does after the commit of    *)
(* that request is never stored.  A crash of the server loses the requests *)
(* and the protocols, not the entities.                                    *)
(*                                                                         *)
(* An entity is known by its contract and its owner; the text of a         *)
(* contract (clauses) is a value of Texts.  Of the requests, only delete   *)
(* looks whether the entity belongs to the user of the token: any user may *)
(* ask to sign any entity, and the protocol then signs with that user's    *)
(* key.                                                                    *)
(***************************************************************************)
EXTENDS Naturals, Functions

CONSTANTS Users,
          ContractIds,
          PartiesOf,   \* the users a contract is added for
          TitleOf,     \* titles are not unique
          PartyLists,  \* the parties an edit may set
          Texts,
          Threads,     \* bound: the requests served at the same time
          MaxRequests, \* bound: the requests of a behaviour
          MaxCrashes   \* bound: the crashes of a behaviour

ASSUME ContractsAssumption ==
    /\ PartiesOf \in [ContractIds -> SUBSET Users]
    /\ DOMAIN TitleOf = ContractIds
    /\ PartyLists \subseteq SUBSET Users
    /\ MaxRequests \in Nat /\ MaxCrashes \in Nat

VARIABLES
    added,    \* the contracts added so far; an id is never used again
    stored,   \* the database: the entities that exist
    thread,   \* the requests being served
    running,  \* the protocols started since the last crash
    asked,    \* history: who asked to sign which entity
    raced,    \* history: the entities edited and signed at the same time
    requests, \* how many requests so far
    crashes   \* how many crashes so far

serverVars == <<added, stored, thread, running, asked, raced, requests, crashes>>

Entities == {e \in ContractIds \X Users : e[2] \in PartiesOf[e[1]]}
EntityRecord ==
    [clauses : Texts, parties : SUBSET Users,
     wish : {"NEUTRAL", "ACCEPT", "REFUSE"},
     status : {"NOWHERE", "SIGNING", "CANCELLED", "FINALIZED"}]

(* The entities of a database, or those that a request holds copies of.    *)
Copies == UNION {[S -> EntityRecord] : S \in SUBSET Entities}

(* What a thread has read and changed, what a listing has to sign yet, and *)
(* the user whose token it goes by, for those requests that look at it.    *)
Serving(op, by, todo, read, new) ==
    [op |-> op, by |-> by, todo |-> todo, read |-> read, new |-> new]
Nothing == [e \in {} |-> 0]
Idle == Serving("idle", {}, {}, Nothing, Nothing)

(* A protocol signs the text of the copy with the key of one user. *)
Protocol(e, u, text) == [entity |-> e, signer |-> u, text |-> text]

ServerTypeOK ==
    /\ added \subseteq ContractIds
    /\ stored \in Copies
    /\ thread \in [Threads ->
          [op : {"idle", "list", "sign", "signing", "edit", "cancel"}, by : SUBSET Users,
           todo : SUBSET Entities, read : Copies, new : Copies]]
    /\ \A t \in Threads : DOMAIN thread[t].new = DOMAIN thread[t].read
    /\ running \subseteq [entity : Entities, signer : Users, text : Texts]
    /\ asked \subseteq Users \X Entities
    /\ raced \subseteq Entities
    /\ requests \in 0..MaxRequests
    /\ crashes \in 0..MaxCrashes

ServerInit ==
    /\ added = {}
    /\ stored = Nothing
    /\ thread = [t \in Threads |-> Idle]
    /\ running = {}
    /\ asked = {}
    /\ raced = {}
    /\ requests = 0
    /\ crashes = 0

(* A request arrives, and is served by a free thread: any will do. *)
Request(t) ==
    /\ thread[t] = Idle
    /\ t = CHOOSE s \in Threads : thread[s] = Idle
    /\ requests < MaxRequests
    /\ requests' = requests + 1
    /\ UNCHANGED crashes

Holding(ops) == UNION {DOMAIN thread[t].read : t \in {s \in Threads : thread[s].op \in ops}}

(***************************************************************************)
(* add: an entity for each party.                                          *)
(***************************************************************************)
Add(t, c, text) ==
    /\ Request(t)
    /\ c \notin added
    /\ added' = added \cup {c}
    /\ LET persisted == {c} \X PartiesOf[c]
       IN stored' = [e \in DOMAIN stored \cup persisted |->
                        IF e \in persisted
                        THEN [clauses |-> text, parties |-> PartiesOf[c],
                              wish |-> "NEUTRAL", status |-> "NOWHERE"]
                        ELSE stored[e]]
    /\ UNCHANGED <<thread, running, asked, raced>>

(***************************************************************************)
(* sign, which the listing calls too.  It reads its copy, whose wish it    *)
(* sets, and looks at the status.  When the entity is not found, the       *)
(* request throws, and a listing ends; when the status is no longer        *)
(* NOWHERE, nothing is changed.                                            *)
(***************************************************************************)
ReadToSign(t, u, e, rest) ==
    /\ e \in DOMAIN stored /\ stored[e].status = "NOWHERE"
    /\ thread' = [thread EXCEPT ![t] =
          Serving("sign", {u}, rest, [f \in {e} |-> stored[e]],
                  [f \in {e} |-> [stored[e] EXCEPT !.wish = "ACCEPT"]])]
    /\ raced' = raced \cup ({e} \cap Holding({"edit"}))

Continue(t, u, rest) ==
    thread' = [thread EXCEPT ![t] =
                  IF rest = {} THEN Idle ELSE Serving("list", {u}, rest, Nothing, Nothing)]

BeginSign_Once(t, u, e, rest) ==
    \/ ReadToSign(t, u, e, rest) /\ stored[e].wish # "ACCEPT"
    \/ /\ e \in DOMAIN stored => stored[e].status # "NOWHERE" \/ stored[e].wish = "ACCEPT"
       /\ Continue(t, u, rest) /\ UNCHANGED raced
BeginSign(t, u, e, rest) ==
    \/ ReadToSign(t, u, e, rest)
    \/ /\ e \in DOMAIN stored /\ stored[e].status # "NOWHERE"
       /\ Continue(t, u, rest) /\ UNCHANGED raced
    \/ e \notin DOMAIN stored /\ Continue(t, u, {}) /\ UNCHANGED raced

(* Sent with the token of user u, for an entity of anybody. *)
Sign(t, u, e) ==
    /\ Request(t)
    /\ BeginSign(t, u, e, {})
    /\ asked' = asked \cup {<<u, e>>}
    /\ UNCHANGED <<added, stored, running>>

(* Then the protocol is started on the copy, with the key of that user,    *)
(* whatever other requests have committed since.  It looks for the key     *)
(* among the parties, and throws when it is not there.                     *)
StartProtocol(t) ==
    /\ thread[t].op = "sign"
    /\ \E e \in DOMAIN thread[t].read, u \in thread[t].by :
          \/ /\ u \in thread[t].read[e].parties
             /\ running' = running \cup {Protocol(e, u, thread[t].read[e].clauses)}
             /\ thread' = [thread EXCEPT ![t].op = "signing"]
          \/ /\ u \notin thread[t].read[e].parties
             /\ thread' = [thread EXCEPT ![t] = Idle]
             /\ UNCHANGED running
    /\ UNCHANGED <<added, stored, asked, raced, requests, crashes>>

(* The protocol goes on in the handlers that start calls, before commit.   *)
(* It may find that Trent has cancelled as soon as it listens to Trent.    *)
(* The wish of the copy stays ACCEPT, so that it never asks Trent itself.  *)
Progress(t) ==
    /\ thread[t].op = "signing"
    /\ \E e \in DOMAIN thread[t].new :
          \/ /\ thread[t].new[e].status = "NOWHERE"
             /\ thread' = [thread EXCEPT ![t].new[e].status = "SIGNING"]
          \/ /\ thread[t].new[e].status = "SIGNING"
             /\ \E status \in {"CANCELLED", "FINALIZED"} :
                   thread' = [thread EXCEPT ![t].new[e].status = status]
    /\ UNCHANGED <<added, stored, running, asked, raced, requests, crashes>>

(***************************************************************************)
(* get: the listing of a user's contracts starts again the protocol of     *)
(* each that it has read as accepted.                                      *)
(***************************************************************************)
Accepted_All(u) == {e \in DOMAIN stored : e[2] = u}
Accepted(u) == {e \in DOMAIN stored : e[2] = u /\ stored[e].wish = "ACCEPT"}

ListContracts(t, u) ==
    /\ Request(t)
    /\ thread' = [thread EXCEPT ![t] =
           IF Accepted(u) = {} THEN Idle
           ELSE Serving("list", {u}, Accepted(u), Nothing, Nothing)]
    /\ UNCHANGED <<added, stored, running, asked, raced>>

SignNext(t) ==
    /\ thread[t].op = "list"
    /\ \E e \in thread[t].todo, u \in thread[t].by :
          BeginSign(t, u, e, thread[t].todo \ {e})
    /\ UNCHANGED <<added, stored, running, asked, requests, crashes>>

(***************************************************************************)
(* edit, sent in the name of user u: it finds the entities by the title it *)
(* sends, and changes those that are still neutral and have u among their  *)
(* parties.                                                                *)
(***************************************************************************)
Editable_Own(u, title) ==
    {e \in DOMAIN stored : e[2] = u /\ TitleOf[e[1]] = title /\ stored[e].wish = "NEUTRAL"}
Editable_Accepted(u, title) ==
    {e \in DOMAIN stored : TitleOf[e[1]] = title /\ u \in stored[e].parties}
Editable(u, title) ==
    {e \in DOMAIN stored :
        TitleOf[e[1]] = title /\ u \in stored[e].parties /\ stored[e].wish = "NEUTRAL"}

Edit(t, u, title, text, parties) ==
    /\ Request(t)
    /\ LET found == Editable(u, title)
       IN /\ thread' = [thread EXCEPT ![t] =
                Serving("edit", {}, {}, Restrict(stored, found),
                        [e \in found |-> [stored[e] EXCEPT !.clauses = text, !.parties = parties]])]
          /\ raced' = raced \cup (found \cap Holding({"sign", "signing"}))
    /\ UNCHANGED <<added, stored, running, asked>>

(***************************************************************************)
(* cancel: the copy is cancelled, or only its owner's wish changed.  A     *)
(* contract that is not there throws.                                      *)
(***************************************************************************)
Cancelled_Swapped(r) == [r EXCEPT !.wish = IF r.status = "NOWHERE" THEN "CANCELLED" ELSE "REFUSE"]
Cancelled(r) ==
    [r EXCEPT !.wish = "REFUSE", !.status = IF @ = "NOWHERE" THEN "CANCELLED" ELSE @]

Cancel(t, e) ==
    /\ Request(t)
    /\ e \in DOMAIN stored
    /\ stored[e].status \in {"NOWHERE", "SIGNING"}
    /\ thread' = [thread EXCEPT ![t] =
           Serving("cancel", {}, {}, [f \in {e} |-> stored[e]],
                   [f \in {e} |-> Cancelled(stored[e])])]
    /\ UNCHANGED <<added, stored, running, asked, raced>>

(* delete, by the owner alone.  A protocol that runs is left running. *)
Delete(t, u, e) ==
    /\ Request(t)
    /\ e \in DOMAIN stored /\ e[2] = u
    /\ stored' = Restrict(stored, DOMAIN stored \ {e})
    /\ UNCHANGED <<added, thread, running, asked, raced>>

(***************************************************************************)
(* end: what a request has changed in its copy is written, attribute by    *)
(* attribute.                                                              *)
(***************************************************************************)
Written_Whole(now, read, new) == new
Attribute(now, read, new) == IF new # read THEN new ELSE now
Written(now, read, new) ==
    [clauses |-> Attribute(now.clauses, read.clauses, new.clauses),
     parties |-> Attribute(now.parties, read.parties, new.parties),
     wish |-> Attribute(now.wish, read.wish, new.wish),
     status |-> Attribute(now.status, read.status, new.status)]

Commit(t) ==
    /\ thread[t].op \in {"signing", "edit", "cancel"}
    /\ stored' = [e \in DOMAIN stored |->
          IF e \in DOMAIN thread[t].read
          THEN Written(stored[e], thread[t].read[e], thread[t].new[e]) ELSE stored[e]]
    /\ thread' = [thread EXCEPT ![t] =
          IF @.todo = {} THEN Idle ELSE Serving("list", @.by, @.todo, Nothing, Nothing)]
    /\ UNCHANGED <<added, running, asked, raced, requests, crashes>>

Crash ==
    /\ crashes < MaxCrashes
    /\ crashes' = crashes + 1
    /\ thread' = [t \in Threads |-> Idle]
    /\ running' = {}
    /\ UNCHANGED <<added, stored, asked, raced, requests>>

Serve(t) == SignNext(t) \/ StartProtocol(t) \/ Commit(t)

(* What the token of user u is asked for, and what anybody may ask: an     *)
(* edit is in the name that it gives, and whose token adds or cancels a    *)
(* contract makes no difference.                                           *)
UserRequest(t, u) ==
    \/ \E e \in Entities : Sign(t, u, e) \/ Delete(t, u, e)
    \/ ListContracts(t, u)
AnyRequest(t) ==
    \/ \E e \in Entities : Cancel(t, e)
    \/ \E c \in ContractIds, text \in Texts :
          \/ Add(t, c, text)
          \/ \E u \in Users, parties \in PartyLists : Edit(t, u, TitleOf[c], text, parties)

ServerNext ==
    \/ \E t \in Threads :
          \/ \E u \in Users : UserRequest(t, u)
          \/ AnyRequest(t) \/ Serve(t) \/ Progress(t)
    \/ Crash

ServerSpec == ServerInit /\ [][ServerNext]_serverVars

(* The server serves every request it has accepted. *)
ServerFairness == \A t \in Threads : WF_serverVars(Serve(t))

------------------------------------------------------------------------------

(* No protocol runs on an entity that nobody asked to sign: neither a      *)
(* listing, nor an edit, nor a restart commits its owner by itself.  The   *)
(* key it signs with is that of a user who asked, or of the owner, whose   *)
(* listings go on with what another user may have asked for.               *)
StartedOnlyIfAsked ==
    \A r \in running : \E u \in Users :
        <<u, r.entity>> \in asked /\ r.signer \in {u, r.entity[2]}

(* Those parties of a contract that have not decided yet all have the same *)
(* text before them, whoever edits and however the edits overlap.          *)
NeutralAgree ==
    \A e, f \in DOMAIN stored :
        e[1] = f[1] /\ stored[e].wish = "NEUTRAL" /\ stored[f].wish = "NEUTRAL"
            => stored[e].clauses = stored[f].clauses /\ stored[e].parties = stored[f].parties

(* The text a protocol signs stays the text of the entity, unless an edit  *)
(* and the request to sign were served at the same time.                   *)
TextIsFixed ==
    \A r \in running :
        r.entity \in DOMAIN stored /\ r.entity \notin raced
            => stored[r.entity].clauses = r.text

(* A request has read the entity undecided, and may still decide it. *)
DecidedBehind(e) ==
    \E t \in Threads :
        /\ thread[t].op \in {"sign", "signing", "cancel"}
        /\ e \in DOMAIN thread[t].read /\ thread[t].read[e].status = "NOWHERE"
Settled(e) ==
    e \in DOMAIN stored /\ stored[e].status # "NOWHERE" /\ ~DecidedBehind(e)

(* A contract stored as cancelled, signing or signed never goes back to    *)
(* NOWHERE, whatever stale copies are committed later.  Which of the three *)
(* it is may still change, and its protocol be started, by the requests    *)
(* that had read it before: two that overlap make a signed contract        *)
(* cancelled, or a cancelled one signing.  Once these have ended its       *)
(* status stays for good, and its protocol is never started again.         *)
DecidedForGood ==
    [][\A e \in DOMAIN stored \cap DOMAIN stored' :
          /\ stored[e].status # "NOWHERE" => stored'[e].status # "NOWHERE"
          /\ Settled(e) =>
                /\ Settled(e)' /\ stored'[e].status = stored[e].status
                /\ \A r \in running' : r.entity = e => r \in running]_serverVars

(* Each accepted contract that a listing has read runs in the end, after a *)
(* crash too, unless the server crashes again, or another contract of the  *)
(* listing is deleted under it or has lost its owner from its parties,     *)
(* which makes the listing throw.                                          *)
ListingRestarts ==
    \A e \in Entities, k \in 0..MaxCrashes :
        (crashes = k /\ \E t \in Threads : thread[t].op = "list" /\ e \in thread[t].todo)
            ~> \/ \E r \in running : r.entity = e
               \/ crashes > k
               \/ e \in DOMAIN stored /\ stored[e].status # "NOWHERE"
               \/ \E f \in Entities : f[2] = e[2] /\ f[1] \in added /\ f \notin DOMAIN stored
               \/ \E f \in Accepted(e[2]) : f[2] \notin stored[f].parties

==============================================================================
