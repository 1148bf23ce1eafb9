------------------------------ MODULE ItemSearch ------------------------------
(***************************************************************************)
(* The server's side of a search by title: one thread per request          *)
(* (controller/Search.java), the decorator that asks the other peers       *)
(* (NetworkItemManagerDecorator.java), and the two JXTA services all the   *)
(* threads share: the item service, which finds the peers that advertise   *)
(* the title, and the item sender, whose pipe carries requests and         *)
(* responses.                                                              *)
(*                                                                         *)
(* A search stands for its title: no two searches look for the same one.   *)
(* The item that place p holds for the title of search s is <<s, p>>.      *)
(***************************************************************************)
EXTENDS Naturals, Sequences

CONSTANTS MaxSearches, \* bound: searches launched in a behaviour
          Peers,       \* the other peers
          Local        \* the peer of this server

ASSUME SearchAssumption ==
    /\ MaxSearches \in Nat \ {0}
    /\ Local \notin Peers

Searches == 1..MaxSearches
Places == Peers \cup {Local}
Nobody == 0  \* no search

VARIABLES
    stock,     \* the items of every place: a set of <<search, place>>
    thread,    \* where the thread of a search is
    output,    \* the chunks written so far, as sets of items; {} is "[]"
    currentSl, \* whose SearchListener the item service holds
    listener,  \* whose ServiceListener the item sender holds under "test"
    queries,   \* <<search, peer>>: discovery queries not yet answered
    requests   \* <<title, peer>>: requests for items not yet answered

serverVars == <<stock, thread, output, currentSl, listener, queries, requests>>

ServerTypeOK ==
    /\ stock \subseteq Searches \X Places
    /\ thread \in [Searches -> {"none", "listen", "ask", "sleep", "ended"}]
    /\ output \in [Searches -> Seq(SUBSET (Searches \X Places))]
    /\ {currentSl, listener} \subseteq Searches \cup {Nobody}
    /\ queries \cup requests \subseteq Searches \X Peers

ServerInit ==
    /\ stock \in SUBSET (Searches \X Places)
    /\ thread = [s \in Searches |-> "none"]
    /\ output = [s \in Searches |-> <<>>]
    /\ currentSl = Nobody
    /\ listener = Nobody
    /\ queries = {}
    /\ requests = {}

(* What place p answers to a search of the title of s. *)
ItemsAt(s, p) == stock \cap {<<s, p>>}

(* The listener of Search.java: empty results are not written, and what is *)
(* written to a closed output is lost.                                     *)
WriteTo(s, items) ==
    output' = IF items = {} \/ thread[s] = "ended" THEN output
              ELSE [output EXCEPT ![s] = Append(@, items)]

(* The server starts a thread for the request; findAllByAttribute first    *)
(* notifies the items of the own database.  Nothing else depends on the    *)
(* moment of that: the two are one step.                                   *)
Accept(s) ==
    /\ WriteTo(s, ItemsAt(s, Local))
    /\ thread' = [thread EXCEPT ![s] = "listen"]

(* removeListener(who) and addListener(..., who == null ? "test" : who). A *)
(* search carries no token, so that who is null: nothing is removed, and   *)
(* every search listens under the same name.                               *)
Listen(s) ==
    /\ thread[s] = "listen"
    /\ listener' = s
    /\ thread' = [thread EXCEPT ![s] = "ask"]
    /\ UNCHANGED <<stock, output, currentSl, queries, requests>>

(* items.search: the service keeps one listener for all its queries. *)
AskPeers(s) ==
    /\ thread[s] = "ask"
    /\ currentSl' = s
    /\ queries' = queries \cup ({s} \X Peers)
    /\ thread' = [thread EXCEPT ![s] = "sleep"]
    /\ UNCHANGED <<stock, output, listener, requests>>

(* After five seconds "[]" ends the answer. Nothing is unregistered. *)
EndOutput_Replaces(s) ==
    /\ thread[s] = "sleep"
    /\ output' = [output EXCEPT ![s] = <<{}>>]
    /\ thread' = [thread EXCEPT ![s] = "ended"]
    /\ UNCHANGED <<stock, currentSl, listener, queries, requests>>
EndOutput(s) ==
    /\ thread[s] = "sleep"
    /\ output' = [output EXCEPT ![s] = Append(@, {})]
    /\ thread' = [thread EXCEPT ![s] = "ended"]
    /\ UNCHANGED <<stock, currentSl, listener, queries, requests>>

(* A peer that advertises the title of s answers the query of s. The       *)
(* listener of the latest query takes the answer, and asks that peer for   *)
(* the items of its own title. No answer need ever come.                   *)
DiscoveryEvent(s, p) ==
    /\ <<s, p>> \in queries
    /\ ItemsAt(s, p) # {}
    /\ requests' = requests \cup {<<currentSl, p>>}
    /\ queries' = queries \ {<<s, p>>}
    /\ UNCHANGED <<stock, thread, output, currentSl, listener>>

(* The peer looks up the title t it was asked for, and its response goes   *)
(* to whoever listens under the name of the request.                       *)
PipeMsgEvent(t, p) ==
    /\ <<t, p>> \in requests
    /\ WriteTo(listener, ItemsAt(t, p))
    /\ requests' = requests \ {<<t, p>>}
    /\ UNCHANGED <<stock, thread, currentSl, listener, queries>>

SearchThread(s) == Listen(s) \/ AskPeers(s) \/ EndOutput(s)

ServerNext ==
    \/ \E s \in Searches : SearchThread(s)
    \/ \E s \in Searches, p \in Peers : DiscoveryEvent(s, p) \/ PipeMsgEvent(s, p)

==============================================================================
