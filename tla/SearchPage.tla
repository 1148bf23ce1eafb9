------------------------------ MODULE SearchPage ------------------------------
(***************************************************************************)
(* The search page (modules/search.js) over ItemSearch.  Each key typed    *)
(* launches a search, whose answer is a stream of chunks.  Oboe makes one  *)
(* promise per stream (angular-oboe.js): a chunk notifies the promise, and *)
(* ends by resolving it, for it is a complete JSON document.  AngularJS    *)
(* queues the notification for the next digest, and ignores one made after *)
(* the promise is resolved ($q's notify).                                  *)
(*                                                                         *)
(* An event handler and the digest that follows it are one step, as they   *)
(* are in the browser.                                                     *)
(***************************************************************************)
EXTENDS ItemSearch, FiniteSets, Functions

CONSTANT TooMany  \* 1000 in the code: the number of results that ends a search

ASSUME TooManyAssumption == TooMany \in Nat \ {0}

VARIABLES
    page,      \* results, stream, errorSearch and searchItem of the scope
    request,   \* the state of each search's XMLHttpRequest
    received,  \* how many chunks of each output the browser has read
    resolved,  \* the searches whose promise is resolved
    tasks,     \* nodes of the notifications queued for the next digest
    alone      \* history: the last search found no other one running

pageVars == <<page, request, received, resolved, tasks, alone>>
vars == <<serverVars, pageVars>>

Items == Searches \X Places

PageTypeOK ==
    /\ ServerTypeOK
    /\ page \in [results : SUBSET Items, stream : Searches \cup {Nobody},
                 errorSearch : BOOLEAN, searchItem : BOOLEAN]
    /\ request \in [Searches -> {"none", "opening", "open", "aborted", "failed"}]
    /\ \A s \in Searches : received[s] \in 0..Len(output[s])
    /\ resolved \subseteq Searches
    /\ tasks \in Seq(SUBSET Items)
    /\ alone \in BOOLEAN

Init ==
    /\ ServerInit
    /\ page = [results |-> {}, stream |-> Nobody, errorSearch |-> FALSE, searchItem |-> FALSE]
    /\ request = [s \in Searches |-> "none"]
    /\ received = [s \in Searches |-> 0]
    /\ resolved = {}
    /\ tasks = <<>>
    /\ alone = FALSE

(* The searches launched so far are 1..launched. *)
launched == Cardinality({s \in Searches : request[s] # "none"})

(* The answer is complete once "[]" is read: then the server closes it. *)
Complete(s) == thread[s] = "ended" /\ received[s] = Len(output[s])
Running(s) == request[s] = "opening" \/ (request[s] = "open" /\ ~Complete(s))

Aborted_Not(s) == request
Aborted(s) == IF s = Nobody THEN request ELSE [request EXCEPT ![s] = "aborted"]

(***************************************************************************)
(* The notification callback.  It ends the search when too many results    *)
(* are there or when the node is empty: it aborts the stream of the scope, *)
(* whichever it is.  Without a stream the call of abort throws, and the    *)
(* spinner is left as it was before.                                       *)
(***************************************************************************)
Node_KeepsSpinner(pg, node) ==
    LET results == pg.results \cup node
        ends == (node = {} \/ Cardinality(results) = TooMany) /\ pg.stream # Nobody
    IN  [pg EXCEPT !.results = results, !.errorSearch = results = {},
                   !.searchItem = @ /\ node = {},
                   !.stream = IF ends THEN Nobody ELSE @]
Node(pg, node) ==
    LET results == pg.results \cup node
        ends == (node = {} \/ Cardinality(results) = TooMany) /\ pg.stream # Nobody
    IN  [pg EXCEPT !.results = results, !.errorSearch = results = {},
                   !.searchItem = @ /\ node = {} /\ ~ends,
                   !.stream = IF ends THEN Nobody ELSE @]

(* The digest runs the queued callbacks in order.  A stream is aborted     *)
(* when the scope loses it.                                                *)
RunTasks(pg, req) ==
    LET After[i \in 0..Len(tasks)] == IF i = 0 THEN pg ELSE Node(After[i - 1], tasks[i])
        after == After[Len(tasks)]
    IN  /\ page' = after
        /\ tasks' = <<>>
        /\ request' = IF pg.stream # after.stream THEN [req EXCEPT ![pg.stream] = "aborted"] ELSE req

(***************************************************************************)
(* A key is typed: search(), and the digest of ng-keyup.                   *)
(***************************************************************************)
Search ==
    LET s == launched + 1
        cleared == [page EXCEPT !.results = {}, !.errorSearch = FALSE, !.searchItem = TRUE]
    IN  /\ launched < MaxSearches
        /\ RunTasks(cleared, [Aborted(page.stream) EXCEPT ![s] = "opening"])
        /\ Accept(s)
        /\ alone' = (tasks = <<>> /\ \A r \in Searches \ {page.stream} : ~Running(r))
        /\ UNCHANGED <<stock, currentSl, listener, queries, requests, received, resolved>>

(* The headers arrive: only now does the page know the stream. *)
Start(s) ==
    /\ request[s] = "opening"
    /\ request' = [request EXCEPT ![s] = "open"]
    /\ page' = [page EXCEPT !.stream = s]
    /\ UNCHANGED <<serverVars, received, resolved, tasks, alone>>

(* A chunk arrives: node, then done. *)
Receive_DoneFirst(s) ==
    /\ request[s] = "open"
    /\ received[s] < Len(output[s])
    /\ received' = [received EXCEPT ![s] = @ + 1]
    /\ resolved' = resolved \cup {s}
    /\ UNCHANGED <<serverVars, page, request, tasks, alone>>
Receive(s) ==
    /\ request[s] = "open"
    /\ received[s] < Len(output[s])
    /\ received' = [received EXCEPT ![s] = @ + 1]
    /\ tasks' = IF s \in resolved THEN tasks
                ELSE Append(tasks, output[s][received[s] + 1])
    /\ resolved' = resolved \cup {s}
    /\ UNCHANGED <<serverVars, page, request, alone>>

Failed == \E s \in Searches : request[s] = "failed"

(* The request fails, or its connection is lost: nothing handles the error. *)
(* One failure per behaviour is enough.                                    *)
Fail(s) ==
    /\ ~Failed
    /\ Running(s)
    /\ request' = [request EXCEPT ![s] = "failed"]
    /\ resolved' = resolved \cup {s}
    /\ UNCHANGED <<serverVars, page, received, tasks, alone>>

(* The timer set by the first notification of an empty queue. *)
Digest ==
    /\ tasks # <<>>
    /\ RunTasks(page, request)
    /\ UNCHANGED <<serverVars, received, resolved, alone>>

Next ==
    \/ Search
    \/ \E s \in Searches : Start(s) \/ Receive(s) \/ Fail(s)
    \/ Digest
    \/ ServerNext /\ UNCHANGED pageVars

(* The browser handles its events and timers, and the server runs its      *)
(* threads.  These steps are finitely many, so that one condition is       *)
(* enough for all of them.  Users and peers owe nothing.                   *)
Fairness ==
    WF_vars(\/ Digest
            \/ \E s \in Searches : \/ Start(s) \/ Receive(s)
                                  \/ (SearchThread(s) /\ UNCHANGED pageVars))

Spec == Init /\ [][Next]_vars /\ Fairness

------------------------------------------------------------------------------

(* Every search ends by showing results, or by telling that there are none *)
(* (never both), and the spinner stops, unless the user launches another   *)
(* search or a request fails: whatever older streams abort meanwhile.      *)
SearchEndsTold ==
    \A s \in Searches :
        launched = s ~> \/ ~page.searchItem /\ (page.errorSearch <=> page.results = {})
                       \/ launched > s
                       \/ Failed

(* What the own database holds is shown to a user whose search finds no    *)
(* other one running, unless the user launches another or a request fails. *)
LocalItemsShown ==
    \A s \in Searches :
        (alone /\ launched = s /\ <<s, Local>> \in stock)
            ~> (<<s, Local>> \in page.results \/ launched > s \/ Failed)

(* Such a user is never shown an item of this peer found for an older     *)
(* search.                                                                 *)
NoStaleItems ==
    alone => \A i \in page.results : i[2] = Local => i[1] = launched

(* search.js:50: "A node is just a partial list of matches from the        *)
(* streamed search".  Once the stream of a search that runs alone is over, *)
(* the lists the server streamed are all on the page.                      *)
PartialListsAddUp ==
    \A s \in Searches :
        (alone /\ launched = s /\ request[s] = "open" /\ Complete(s) /\ tasks = <<>>)
            => UNION Range(output[s]) \subseteq page.results
==============================================================================
