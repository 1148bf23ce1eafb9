--------------------------- MODULE SearchPage_proofs ---------------------------
(***************************************************************************)
(* The search page, for any number of searches and any peers: the state    *)
(* keeps its type, and a user whose search runs alone is never shown an    *)
(* item of this peer found for an older search.                            *)
(*                                                                         *)
(* The argument.  What this peer holds for a title is only ever written to *)
(* the output of the search for it (OutputIsOwn): responses that reach the *)
(* wrong search come from other peers.  The last search is alone only if   *)
(* no notification was queued when it was launched, and no older search    *)
(* was running (Queued, OnlyLast); one that does not run never runs again. *)
(***************************************************************************)
EXTENDS SearchPage, InductionFacts

(* The local items among those of i are of search s. *)
OwnItem(i, s) == i[2] = Local => i[1] = s

Asked == queries # {} => currentSl # Nobody
OutputIsOwn ==
    \A s \in Searches : \A k \in DOMAIN output[s] : \A i \in output[s][k] : OwnItem(i, s)
(* Searches are launched in their order. *)
InOrder == {s \in Searches : request[s] # "none"} = 1..launched
StreamKnown == page.stream # Nobody => request[page.stream] # "none"
OnlyLast == alone => \A s \in Searches : s # launched => ~Running(s)
Queued == alone => \A k \in DOMAIN tasks : \A i \in tasks[k] : OwnItem(i, launched)

PageInv ==
    /\ PageTypeOK /\ received \in [Searches -> Nat] /\ Asked /\ OutputIsOwn
    /\ InOrder /\ StreamKnown /\ OnlyLast /\ Queued /\ NoStaleItems

Page == [results : SUBSET Items, stream : Searches \cup {Nobody},
         errorSearch : BOOLEAN, searchItem : BOOLEAN]
States == {"none", "opening", "open", "aborted", "failed"}

LEMMA Constants == /\ MaxSearches \in Nat \ {0} /\ Local \notin Peers
                   /\ Searches = 1..MaxSearches /\ Nobody = 0 /\ Nobody \notin Searches
BY SearchAssumption DEF Searches, Nobody

------------------------------------------------------------------------------
(* What the queued callbacks do to the page.                               *)

LEMMA NodeDoes ==
    ASSUME NEW pg \in Page, NEW node \in SUBSET Items
    PROVE  /\ Node(pg, node) \in Page
           /\ Node(pg, node).results = pg.results \cup node
           /\ Node(pg, node).stream \in {pg.stream, Nobody}
<1> DEFINE results == pg.results \cup node
           ends == (node = {} \/ Cardinality(results) = TooMany) /\ pg.stream # Nobody
           told == pg.searchItem /\ node = {} /\ ~ends
           stream == IF ends THEN Nobody ELSE pg.stream
           none == results = {}
<1>1. Node(pg, node) = [pg EXCEPT !.results = results, !.errorSearch = none,
                                  !.searchItem = told, !.stream = stream]
    BY DEF Node, Page
<1>2. told \in BOOLEAN /\ none \in BOOLEAN
    OBVIOUS
<1>3. results \in SUBSET Items /\ stream \in Searches \cup {Nobody}
    BY DEF Page
<1>4. stream \in {pg.stream, Nobody}
    OBVIOUS
<1> HIDE DEF results, told, stream, none
<1> QED BY <1>1, <1>2, <1>3, <1>4 DEF Page, results

(* The page after the first k callbacks: it shows what it did and what they *)
(* bring, and its stream is the same or none.                               *)
Shown(pg, after, k) ==
    /\ after \in Page
    /\ \A i \in after.results : i \in pg.results \/ \E j \in 1..k : i \in tasks[j]
    /\ after.stream \in {pg.stream, Nobody}

LEMMA RunTasksDoes ==
    ASSUME tasks \in Seq(SUBSET Items), NEW pg \in Page, NEW req, RunTasks(pg, req)
    PROVE  /\ Shown(pg, page', Len(tasks))
           /\ tasks = <<>> => page' = pg
           /\ tasks' = <<>>
           /\ \/ request' = req
              \/ pg.stream \in Searches /\ request' = [req EXCEPT ![pg.stream] = "aborted"]
<1> DEFINE n == Len(tasks)
           Eq(g) == [i \in 0..n |-> IF i = 0 THEN pg ELSE Node(g[i - 1], tasks[i])]
           After == CHOOSE g : g = Eq(g)
           T == {k \in Nat : k <= n => Shown(pg, After[k], k)}
<1>1. /\ page' = After[n]
      /\ tasks' = <<>>
      /\ request' = IF pg.stream # After[n].stream THEN [req EXCEPT ![pg.stream] = "aborted"]
                    ELSE req
    BY DEF RunTasks
<1>2. n \in Nat /\ \A i \in 1..n : tasks[i] \in SUBSET Items
    OBVIOUS
<1>3. \A i \in 1..n : i \in 0..n /\ i # 0 /\ i - 1 \in 0..n
    BY <1>2
<1>4. n = 0 <=> tasks = <<>>
    OBVIOUS
<1> HIDE DEF n
<1>5. \E g : g = Eq(g)
    <2> DEFINE F == [x \in (1..n) \X Page |-> Node(x[2], tasks[x[1]])]
    <2>1. F \in [(1..n) \X Page -> Page]
        BY <1>2, NodeDoes
    <2>2. \A i \in 1..n, q \in Page : F[<<i, q>>] = Node(q, tasks[i])
        OBVIOUS
    <2> HIDE DEF F
    <2>3. Runs(Page, pg, n, F) # {}
        BY <1>2, <2>1, StepsExist
    <2>4. PICK g \in [0..n -> Page] :
                 g[0] = pg /\ \A i \in 1..n : g[i] = F[<<i, g[i - 1]>>]
        BY <2>3 DEF Runs
    <2>5. ASSUME NEW i \in 1..n PROVE g[i] = Node(g[i - 1], tasks[i])
        <3>1. g[i - 1] \in Page
            BY <1>3, <2>4
        <3> QED BY <2>2, <2>4, <3>1
    <2>6. ASSUME NEW i \in 0..n PROVE g[i] = Eq(g)[i]
        <3>1. CASE i = 0
            BY <2>4, <3>1
        <3>2. CASE i # 0
            <4>1. i \in 1..n
                BY <1>2, <3>2
            <4> QED BY <2>5, <3>2, <4>1
        <3> QED BY <3>1, <3>2
    <2>7. g = [i \in 0..n |-> g[i]] /\ Eq(g) = [i \in 0..n |-> Eq(g)[i]]
        BY <2>4
    <2> HIDE DEF Eq
    <2> QED BY <2>6, <2>7
<1>6. After = Eq(After)
    <2> HIDE DEF Eq
    <2> QED BY <1>5
<1> HIDE DEF After
<1>7. After[0] = pg
    <2>1. 0 \in 0..n
        BY <1>2
    <2>2. Eq(After)[0] = pg
        BY <2>1
    <2> HIDE DEF Eq
    <2> QED BY <1>6, <2>2
<1>8. \A i \in 1..n : After[i] = Node(After[i - 1], tasks[i])
    <2>1. \A i \in 1..n : Eq(After)[i] = Node(After[i - 1], tasks[i])
        BY <1>3
    <2> HIDE DEF Eq
    <2> QED BY <1>6, <2>1
<1>9. 0 \in T
    BY <1>7 DEF Shown
<1>10. ASSUME NEW k \in Nat, k \in T PROVE k + 1 \in T
    <2> SUFFICES ASSUME k + 1 <= n PROVE Shown(pg, After[k + 1], k + 1)
        OBVIOUS
    <2>1. Shown(pg, After[k], k) /\ k + 1 \in 1..n
        BY <1>2, <1>10
    <2> DEFINE was == After[k]
               is == After[k + 1]
               node == tasks[k + 1]
    <2>2. is = Node(was, node)
        BY <1>8, <2>1
    <2>3. was \in Page /\ node \in SUBSET Items
        BY <1>2, <2>1 DEF Shown
    <2>4. /\ \A i \in was.results : i \in pg.results \/ \E j \in 1..k : i \in tasks[j]
          /\ was.stream \in {pg.stream, Nobody}
        BY <2>1 DEF Shown
    <2> HIDE DEF was, is
    <2>5. /\ is \in Page /\ is.results = was.results \cup node
          /\ is.stream \in {was.stream, Nobody}
        BY <2>2, <2>3, NodeDoes
    <2>6. ASSUME NEW i \in is.results
          PROVE  i \in pg.results \/ \E j \in 1..(k + 1) : i \in tasks[j]
        <3>1. 1..k \subseteq 1..(k + 1) /\ k + 1 \in 1..(k + 1)
            OBVIOUS
        <3> QED BY <2>4, <2>5, <3>1
    <2>7. is.stream \in {pg.stream, Nobody}
        BY <2>4, <2>5
    <2> QED BY <2>5, <2>6, <2>7 DEF Shown, is
<1>11. Shown(pg, After[n], n)
    <2>1. Nat \subseteq T
        <3> HIDE DEF T
        <3> QED BY <1>9, <1>10, EveryNumber
    <2> QED BY <1>2, <2>1
<1>12. pg.stream # After[n].stream => pg.stream \in Searches
    BY <1>11 DEF Shown, Page
<1> QED BY <1>1, <1>4, <1>7, <1>11, <1>12 DEF n

------------------------------------------------------------------------------

LEMMA AppendTyped ==
    ASSUME NEW S, NEW seq \in Seq(S), NEW e \in S
    PROVE  Append(seq, e) \in Seq(S)
OBVIOUS

(* An entry of a sequence to which one is appended. *)
LEMMA AppendedTo ==
    ASSUME NEW S, NEW seq \in Seq(S), NEW e \in S, NEW k \in DOMAIN Append(seq, e)
    PROVE  (k \in DOMAIN seq /\ Append(seq, e)[k] = seq[k]) \/ Append(seq, e)[k] = e
<1>1. /\ DOMAIN seq = 1..Len(seq) /\ Len(seq) \in Nat
      /\ DOMAIN Append(seq, e) = 1..(Len(seq) + 1)
    OBVIOUS
<1>2. CASE k = Len(seq) + 1
    BY <1>2
<1>3. CASE k # Len(seq) + 1
    <2>1. k \in 1..Len(seq)
        BY <1>1, <1>3
    <2> QED BY <1>1, <2>1
<1> QED BY <1>2, <1>3

(* Which searches are launched.                                            *)

LEMMA LaunchedCounts ==
    ASSUME PageInv
    PROVE  launched \in Nat /\ \A s \in Searches : request[s] # "none" <=> s <= launched
<1> DEFINE L == {s \in Searches : request[s] # "none"}
<1>1. IsFiniteSet(L)
    BY FS_Interval, FS_Subset, Constants
<1>2. launched \in Nat
    BY <1>1, FS_CardinalityType DEF launched
<1>3. L = 1..launched
    BY DEF PageInv, InOrder
<1> QED BY <1>2, <1>3, Constants

LEMMA SameLaunched ==
    ASSUME PageInv, \A s \in Searches : request'[s] = "none" <=> request[s] = "none"
    PROVE  launched' = launched /\ InOrder'
<1>1. {s \in Searches : request'[s] # "none"} = {s \in Searches : request[s] # "none"}
    OBVIOUS
<1> QED BY <1>1 DEF launched, InOrder, PageInv

LEMMA OneMore ==
    ASSUME PageInv, launched + 1 \in Searches,
           \A s \in Searches : request'[s] = "none" <=> (request[s] = "none" /\ s # launched + 1)
    PROVE  launched' = launched + 1 /\ InOrder'
<1>1. launched \in Nat /\ {s \in Searches : request'[s] # "none"} = 1..(launched + 1)
    BY LaunchedCounts, Constants
<1>2. Cardinality(1..(launched + 1)) = launched + 1
    BY <1>1, FS_Interval
<1> QED BY <1>1, <1>2 DEF launched, InOrder

------------------------------------------------------------------------------
(* The steps of the page.                                                  *)

(* What the page's own steps leave as it was. *)
LEMMA ServerRests ==
    ASSUME PageInv, UNCHANGED serverVars
    PROVE  ServerTypeOK' /\ Asked' /\ OutputIsOwn'
BY DEF PageInv, PageTypeOK, ServerTypeOK, serverVars, Asked, OutputIsOwn, OwnItem

LEMMA StartKeeps ==
    ASSUME PageInv, NEW s \in Searches, Start(s)
    PROVE  PageInv'
<1>1. /\ request[s] = "opening" /\ request' = [request EXCEPT ![s] = "open"]
      /\ page' = [page EXCEPT !.stream = s]
      /\ UNCHANGED <<serverVars, received, resolved, tasks, alone>>
    BY DEF Start
<1>2. output' = output /\ thread' = thread
    BY <1>1 DEF serverVars
<1>3. request \in [Searches -> States] /\ page \in Page
    BY DEF PageInv, PageTypeOK, States, Page
<1>4. request' \in [Searches -> States] /\ page' \in Page /\ page'.results = page.results
    BY <1>1, <1>3 DEF States, Page
<1>5. \A r \in Searches : request'[r] = IF r = s THEN "open" ELSE request[r]
    BY <1>1, <1>3
<1>6. launched' = launched /\ InOrder'
    BY <1>1, <1>5, SameLaunched
<1>7. PageTypeOK' /\ Asked' /\ OutputIsOwn' /\ received' \in [Searches -> Nat]
    BY <1>1, <1>2, <1>4, ServerRests DEF PageInv, PageTypeOK, States, Page
<1>8. StreamKnown'
    BY <1>1, <1>3, <1>5 DEF StreamKnown, Page
<1>9. alone => s = launched
    BY <1>1 DEF PageInv, OnlyLast, Running
<1>10. OnlyLast'
    BY <1>1, <1>2, <1>5, <1>6, <1>9 DEF PageInv, OnlyLast, Running, Complete
<1>11. Queued' /\ NoStaleItems'
    BY <1>1, <1>4, <1>6 DEF PageInv, Queued, OwnItem, NoStaleItems
<1> QED BY <1>6, <1>7, <1>8, <1>10, <1>11 DEF PageInv

LEMMA ReceiveKeeps ==
    ASSUME PageInv, NEW s \in Searches, Receive(s)
    PROVE  PageInv'
<1> DEFINE k == received[s] + 1
           chunk == output[s][k]
<1>1. /\ request[s] = "open" /\ received[s] < Len(output[s])
      /\ received' = [received EXCEPT ![s] = @ + 1]
      /\ tasks' = tasks \/ tasks' = Append(tasks, chunk)
      /\ resolved' = resolved \cup {s}
      /\ UNCHANGED <<serverVars, page, request, alone>>
    BY DEF Receive
<1>2. output' = output /\ thread' = thread
    BY <1>1 DEF serverVars
<1>3. /\ received \in [Searches -> Nat] /\ output \in [Searches -> Seq(SUBSET Items)]
      /\ tasks \in Seq(SUBSET Items)
    BY DEF PageInv, PageTypeOK, ServerTypeOK, Items
<1>4. /\ received' \in [Searches -> Nat]
      /\ \A r \in Searches : received'[r] = IF r = s THEN k ELSE received[r]
    BY <1>1, <1>3
<1>5. k \in DOMAIN output[s] /\ k \in 0..Len(output[s])
    BY <1>1, <1>3
<1>6. chunk \in SUBSET Items
    BY <1>3, <1>5
<1>7. \A i \in chunk : OwnItem(i, s)
    BY <1>5 DEF PageInv, OutputIsOwn
<1> HIDE DEF k, chunk
<1>8. tasks' \in Seq(SUBSET Items)
    BY <1>1, <1>3, <1>6, AppendTyped
<1>9. \A r \in Searches : received'[r] \in 0..Len(output'[r])
    BY <1>2, <1>4, <1>5 DEF PageInv, PageTypeOK
<1>10. launched' = launched /\ InOrder'
    BY <1>1, SameLaunched
<1>11. PageTypeOK' /\ Asked' /\ OutputIsOwn'
    BY <1>1, <1>8, <1>9, ServerRests DEF PageInv, PageTypeOK
<1>12. StreamKnown' /\ NoStaleItems'
    BY <1>1, <1>10 DEF PageInv, StreamKnown, NoStaleItems
<1>13. alone => s = launched
    BY <1>1, <1>3 DEF PageInv, OnlyLast, Running, Complete
<1>14. OnlyLast'
    BY <1>1, <1>2, <1>4, <1>10, <1>13 DEF PageInv, OnlyLast, Running, Complete
<1>15. Queued'
    <2> SUFFICES ASSUME alone, NEW j \in DOMAIN tasks', NEW i \in tasks'[j]
                 PROVE  OwnItem(i, launched)
        BY <1>1, <1>10 DEF Queued, OwnItem
    <2>1. (j \in DOMAIN tasks /\ tasks'[j] = tasks[j]) \/ tasks'[j] = chunk
        <3>1. CASE tasks' = tasks
            BY <3>1
        <3>2. CASE tasks' = Append(tasks, chunk)
            <4>1. j \in DOMAIN Append(tasks, chunk)
                BY <3>2
            <4> QED BY <1>3, <1>6, <3>2, <4>1, AppendedTo
        <3> QED BY <1>1, <3>1, <3>2
    <2> QED BY <1>7, <1>13, <2>1 DEF PageInv, Queued
<1> QED BY <1>4, <1>10, <1>11, <1>12, <1>14, <1>15 DEF PageInv

LEMMA FailKeeps ==
    ASSUME PageInv, NEW s \in Searches, Fail(s)
    PROVE  PageInv'
<1>1. /\ Running(s) /\ request' = [request EXCEPT ![s] = "failed"]
      /\ resolved' = resolved \cup {s}
      /\ UNCHANGED <<serverVars, page, received, tasks, alone>>
    BY DEF Fail
<1>2. output' = output /\ thread' = thread
    BY <1>1 DEF serverVars
<1>3. request \in [Searches -> States]
    BY DEF PageInv, PageTypeOK, States
<1>4. request' \in [Searches -> States]
    BY <1>1, <1>3 DEF States
<1>5. \A r \in Searches : request'[r] = IF r = s THEN "failed" ELSE request[r]
    BY <1>1, <1>3
<1>6. request[s] # "none"
    BY <1>1 DEF Running
<1>7. launched' = launched /\ InOrder'
    BY <1>5, <1>6, SameLaunched
<1>8. PageTypeOK' /\ Asked' /\ OutputIsOwn' /\ received' \in [Searches -> Nat]
    BY <1>1, <1>2, <1>4, ServerRests DEF PageInv, PageTypeOK, States
<1>9. StreamKnown'
    BY <1>1, <1>5, <1>6 DEF PageInv, PageTypeOK, StreamKnown
<1>10. OnlyLast'
    BY <1>1, <1>2, <1>5, <1>7 DEF PageInv, OnlyLast, Running, Complete
<1>11. Queued' /\ NoStaleItems'
    BY <1>1, <1>7 DEF PageInv, Queued, OwnItem, NoStaleItems
<1> QED BY <1>7, <1>8, <1>9, <1>10, <1>11 DEF PageInv

LEMMA DigestKeeps ==
    ASSUME PageInv, Digest
    PROVE  PageInv'
<1>1. /\ RunTasks(page, request)
      /\ UNCHANGED <<serverVars, received, resolved, alone>>
    BY DEF Digest
<1>2. output' = output /\ thread' = thread
    BY <1>1 DEF serverVars
<1>3. /\ request \in [Searches -> States] /\ page \in Page
      /\ tasks \in Seq(SUBSET Items)
    BY DEF PageInv, PageTypeOK, States, Page
<1>4. /\ Shown(page, page', Len(tasks)) /\ tasks' = <<>>
      /\ \/ request' = request
         \/ page.stream \in Searches /\ request' = [request EXCEPT ![page.stream] = "aborted"]
    BY <1>1, <1>3, RunTasksDoes
<1>5. request' \in [Searches -> States]
    BY <1>3, <1>4 DEF States
<1>6. \A r \in Searches : \/ request'[r] = request[r]
                          \/ request'[r] = "aborted" /\ r = page.stream
    BY <1>3, <1>4
<1>7. \A r \in Searches : request'[r] = "none" <=> request[r] = "none"
    BY <1>6, Constants DEF PageInv, StreamKnown
<1>8. launched' = launched /\ InOrder'
    BY <1>7, SameLaunched
<1>9. page' \in Page /\ page'.stream \in {page.stream, Nobody}
    BY <1>4 DEF Shown
<1>10. PageTypeOK' /\ Asked' /\ OutputIsOwn' /\ received' \in [Searches -> Nat]
    BY <1>1, <1>2, <1>4, <1>5, <1>9, ServerRests DEF PageInv, PageTypeOK, States, Page
<1>11. StreamKnown'
    <2>1. page'.stream \in Searches \cup {Nobody}
        BY <1>9 DEF Page
    <2> QED BY <1>7, <1>9, <2>1 DEF PageInv, StreamKnown
<1>12. OnlyLast'
    BY <1>1, <1>2, <1>6, <1>8 DEF PageInv, OnlyLast, Running, Complete
<1>13. Queued'
    BY <1>4 DEF Queued
<1>14. NoStaleItems'
    <2> SUFFICES ASSUME alone, NEW i \in page'.results PROVE OwnItem(i, launched)
        BY <1>1, <1>8 DEF NoStaleItems, OwnItem
    <2>1. i \in page.results \/ \E j \in 1..Len(tasks) : i \in tasks[j]
        BY <1>4 DEF Shown
    <2>2. DOMAIN tasks = 1..Len(tasks)
        BY <1>3
    <2> QED BY <2>1, <2>2 DEF PageInv, Queued, NoStaleItems, OwnItem
<1> QED BY <1>8, <1>10, <1>11, <1>12, <1>13, <1>14 DEF PageInv

(* A new search: where no other one runs and no notification is queued,    *)
(* nothing of the older ones can reach the page any more.                  *)
LEMMA SearchKeeps ==
    ASSUME PageInv, Search
    PROVE  PageInv'
<1> DEFINE s == launched + 1
           cleared == [page EXCEPT !.results = {}, !.errorSearch = FALSE, !.searchItem = TRUE]
           req == [Aborted(page.stream) EXCEPT ![s] = "opening"]
           own == ItemsAt(s, Local)
<1>1. /\ launched < MaxSearches /\ RunTasks(cleared, req) /\ Accept(s)
      /\ alone' = (tasks = <<>> /\ \A r \in Searches \ {page.stream} : ~Running(r))
      /\ UNCHANGED <<stock, currentSl, listener, queries, requests, received, resolved>>
    BY DEF Search
<1>2. /\ launched \in Nat /\ s \in Searches
      /\ \A r \in Searches : request[r] # "none" <=> r < s
    BY <1>1, LaunchedCounts, Constants
<1>3. /\ request \in [Searches -> States] /\ page \in Page
      /\ tasks \in Seq(SUBSET Items)
      /\ received \in [Searches -> Nat]
      /\ \A r \in Searches : received[r] <= Len(output[r])
      /\ output \in [Searches -> Seq(SUBSET Items)]
    BY DEF PageInv, PageTypeOK, ServerTypeOK, Items, States, Page
<1>4. cleared \in Page /\ cleared.stream = page.stream /\ cleared.results = {}
    BY <1>3 DEF Page
<1>5. page.stream \in Searches \cup {Nobody} /\ page.stream # s
    BY <1>2, <1>3, Constants DEF PageInv, StreamKnown, Page
<1>6. /\ req \in [Searches -> States]
      /\ \A r \in Searches : req[r] = IF r = s THEN "opening"
                                      ELSE IF r = page.stream THEN "aborted" ELSE request[r]
    BY <1>2, <1>3, <1>5, Constants DEF Aborted, States
<1> HIDE DEF s, cleared, req
<1>7. /\ Shown(cleared, page', Len(tasks)) /\ tasks' = <<>>
      /\ tasks = <<>> => page' = cleared
      /\ \/ request' = req
         \/ page.stream \in Searches /\ request' = [req EXCEPT ![page.stream] = "aborted"]
    BY <1>1, <1>3, <1>4, RunTasksDoes
<1>8. /\ request' \in [Searches -> States]
      /\ \A r \in Searches : request'[r] = IF r = s THEN "opening"
                                           ELSE IF r = page.stream THEN "aborted" ELSE request[r]
    BY <1>5, <1>6, <1>7 DEF States
<1>9. \A r \in Searches : request'[r] = "none" <=> (request[r] = "none" /\ r # s)
    BY <1>2, <1>5, <1>8, Constants DEF PageInv, StreamKnown
<1>10. launched' = s /\ InOrder'
    BY <1>2, <1>9, OneMore DEF s
<1>11. page' \in Page /\ page'.stream \in {page.stream, Nobody}
    BY <1>4, <1>7 DEF Shown
<1>12. StreamKnown'
    BY <1>5, <1>8, <1>11 DEF StreamKnown, PageInv
<1>13. /\ thread' = [thread EXCEPT ![s] = "listen"]
       /\ output' = output \/ output' = [output EXCEPT ![s] = Append(@, own)]
    BY <1>1 DEF Accept, WriteTo
<1>14. own \in SUBSET Items /\ \A i \in own : OwnItem(i, s)
    BY DEF ItemsAt, PageInv, PageTypeOK, ServerTypeOK, Items, OwnItem
<1> HIDE DEF own
<1>15. output' \in [Searches -> Seq(SUBSET Items)]
    <2>1. output[s] \in Seq(SUBSET Items) /\ Append(output[s], own) \in Seq(SUBSET Items)
        BY <1>2, <1>3, <1>14, AppendTyped
    <2> QED BY <1>3, <1>13, <2>1
<1>16. \A r \in Searches :
          \/ output'[r] = output[r]
          \/ r = s /\ output'[r] = Append(output[r], own)
    BY <1>2, <1>3, <1>13
<1>17. \A r \in Searches : received'[r] \in 0..Len(output'[r])
    BY <1>1, <1>3, <1>14, <1>16
<1>18. thread' \in [Searches -> {"none", "listen", "ask", "sleep", "ended"}]
    BY <1>2, <1>13 DEF PageInv, PageTypeOK, ServerTypeOK
<1>19. PageTypeOK'
    <2>1. ServerTypeOK'
        BY <1>1, <1>15, <1>18 DEF PageInv, PageTypeOK, ServerTypeOK, Items
    <2>2. tasks' \in Seq(SUBSET Items) /\ alone' \in BOOLEAN
        BY <1>1, <1>7
    <2> QED BY <1>1, <1>8, <1>11, <1>17, <2>1, <2>2 DEF PageInv, PageTypeOK, Page, States
<1>20. Asked'
    BY <1>1 DEF PageInv, Asked
<1>21. OutputIsOwn'
    <2> SUFFICES ASSUME NEW r \in Searches, NEW k \in DOMAIN output'[r], NEW i \in output'[r][k]
                 PROVE  OwnItem(i, r)
        BY DEF OutputIsOwn, OwnItem
    <2>1. CASE output'[r] = output[r]
        BY <2>1 DEF PageInv, OutputIsOwn
    <2>2. CASE r = s /\ output'[r] = Append(output[r], own)
        <3>1. output[r] \in Seq(SUBSET Items)
            BY <1>3
        <3>2. (k \in DOMAIN output[r] /\ output'[r][k] = output[r][k]) \/ output'[r][k] = own
            BY <1>14, <2>2, <3>1, AppendedTo
        <3> QED BY <1>14, <2>2, <3>2 DEF PageInv, OutputIsOwn
    <2> QED BY <1>16, <2>1, <2>2
<1>22. OnlyLast'
    <2> SUFFICES ASSUME alone', NEW r \in Searches, r # s PROVE ~Running(r)'
        BY <1>10 DEF OnlyLast
    <2>1. output'[r] = output[r] /\ thread'[r] = thread[r] /\ received'[r] = received[r]
        BY <1>1, <1>2, <1>13, <1>16 DEF PageInv, PageTypeOK, ServerTypeOK
    <2>2. CASE r = page.stream
        BY <1>8, <2>2 DEF Running
    <2>3. CASE r # page.stream
        BY <1>1, <1>8, <2>1, <2>3 DEF Running, Complete
    <2> QED BY <2>2, <2>3
<1>23. Queued'
    BY <1>7 DEF Queued
<1>24. NoStaleItems'
    BY <1>1, <1>4, <1>7 DEF NoStaleItems
<1> QED BY <1>1, <1>3, <1>10, <1>12, <1>19, <1>20, <1>21, <1>22, <1>23, <1>24 DEF PageInv

------------------------------------------------------------------------------
(* The steps of the server.                                                *)

(* What a step of the server must do for the page's invariant to stay. *)
LEMMA ServerKeeps ==
    ASSUME PageInv, UNCHANGED pageVars, ServerTypeOK', Asked', OutputIsOwn',
           \A s \in Searches : /\ Len(output[s]) <= Len(output'[s])
                               /\ thread[s] = "ended" => /\ thread'[s] = "ended"
                                                         /\ output'[s] = output[s]
    PROVE  PageInv'
<1>1. /\ page' = page /\ request' = request /\ received' = received
      /\ resolved' = resolved /\ tasks' = tasks /\ alone' = alone
    BY DEF pageVars
<1>2. launched' = launched /\ InOrder'
    BY <1>1, SameLaunched
<1>3. ASSUME NEW s \in Searches PROVE received'[s] \in 0..Len(output'[s])
    <2>1. output[s] \in Seq(SUBSET Items) /\ output'[s] \in Seq(SUBSET Items)
        BY DEF PageInv, PageTypeOK, ServerTypeOK, Items
    <2>2. Len(output[s]) \in Nat /\ Len(output'[s]) \in Nat
        BY <2>1
    <2>3. received[s] \in 0..Len(output[s])
        BY DEF PageInv, PageTypeOK
    <2> QED BY <1>1, <2>2, <2>3
<1>4. PageTypeOK'
    BY <1>1, <1>3 DEF PageInv, PageTypeOK
<1>5. ASSUME NEW s \in Searches, Running(s)' PROVE Running(s)
    BY <1>1, <1>5 DEF Running, Complete
<1>6. OnlyLast'
    BY <1>1, <1>2, <1>5 DEF PageInv, OnlyLast
<1>7. StreamKnown' /\ Queued' /\ NoStaleItems'
    BY <1>1, <1>2 DEF PageInv, StreamKnown, Queued, OwnItem, NoStaleItems
<1> QED BY <1>1, <1>2, <1>4, <1>6, <1>7 DEF PageInv

(* A step that writes items to the output of a search, or its end. *)
LEMMA WrittenKeeps ==
    ASSUME PageInv, NEW s \in Searches, NEW items \in SUBSET Items,
           output' = [output EXCEPT ![s] = Append(@, items)],
           \A i \in items : OwnItem(i, s)
    PROVE  /\ output' \in [Searches -> Seq(SUBSET Items)] /\ OutputIsOwn'
           /\ \A r \in Searches : /\ Len(output[r]) <= Len(output'[r])
                                  /\ r # s => output'[r] = output[r]
<1>1. output \in [Searches -> Seq(SUBSET Items)]
    BY DEF PageInv, PageTypeOK, ServerTypeOK, Items
<1>2. output' \in [Searches -> Seq(SUBSET Items)]
    BY <1>1
<1>3. \A r \in Searches : output'[r] = IF r = s THEN Append(output[r], items) ELSE output[r]
    BY <1>1
<1>4. \A r \in Searches : Len(output[r]) <= Len(output'[r])
    BY <1>1, <1>3
<1>5. OutputIsOwn'
    <2> SUFFICES ASSUME NEW r \in Searches, NEW k \in DOMAIN output'[r], NEW i \in output'[r][k]
                 PROVE  OwnItem(i, r)
        BY DEF OutputIsOwn, OwnItem
    <2>1. CASE r # s
        BY <1>3, <2>1 DEF PageInv, OutputIsOwn
    <2>2. CASE r = s
        <3>1. output[r] \in Seq(SUBSET Items)
            BY <1>1
        <3>2. (k \in DOMAIN output[r] /\ output'[r][k] = output[r][k]) \/ output'[r][k] = items
            BY <1>3, <2>2, <3>1, AppendedTo
        <3> QED BY <2>2, <3>2 DEF PageInv, OutputIsOwn
    <2> QED BY <2>1, <2>2
<1> QED BY <1>2, <1>3, <1>4, <1>5

LEMMA ServerNextKeeps ==
    ASSUME PageInv, ServerNext, UNCHANGED pageVars
    PROVE  PageInv'
<1>1. /\ thread \in [Searches -> {"none", "listen", "ask", "sleep", "ended"}]
      /\ output \in [Searches -> Seq(SUBSET Items)] /\ ServerTypeOK
    BY DEF PageInv, PageTypeOK, ServerTypeOK, Items
<1>2. ASSUME NEW s \in Searches, Listen(s) PROVE PageInv'
    <2>1. output' = output /\ \A r \in Searches : thread[r] = "ended" => thread'[r] = "ended"
        BY <1>1, <1>2 DEF Listen
    <2>2. ServerTypeOK' /\ Asked' /\ OutputIsOwn'
        BY <1>1, <1>2, <2>1 DEF Listen, ServerTypeOK, PageInv, Asked, OutputIsOwn, OwnItem
    <2> QED BY <1>1, <2>1, <2>2, ServerKeeps
<1>3. ASSUME NEW s \in Searches, AskPeers(s) PROVE PageInv'
    <2>1. output' = output /\ \A r \in Searches : thread[r] = "ended" => thread'[r] = "ended"
        BY <1>1, <1>3 DEF AskPeers
    <2>2. queries' \subseteq Searches \X Peers
        BY <1>1, <1>3 DEF AskPeers, ServerTypeOK
    <2>3. ServerTypeOK' /\ Asked' /\ OutputIsOwn'
        BY <1>1, <1>3, <2>1, <2>2, Constants
        DEF AskPeers, ServerTypeOK, PageInv, Asked, OutputIsOwn, OwnItem
    <2> QED BY <1>1, <2>1, <2>3, ServerKeeps
<1>4. ASSUME NEW s \in Searches, EndOutput(s) PROVE PageInv'
    <2>1. /\ thread[s] = "sleep" /\ output' = [output EXCEPT ![s] = Append(@, {})]
          /\ thread' = [thread EXCEPT ![s] = "ended"]
          /\ UNCHANGED <<stock, currentSl, listener, queries, requests>>
        BY <1>4 DEF EndOutput
    <2>2. /\ output' \in [Searches -> Seq(SUBSET Items)] /\ OutputIsOwn'
          /\ \A r \in Searches : /\ Len(output[r]) <= Len(output'[r])
                                 /\ r # s => output'[r] = output[r]
        <3> DEFINE none == {}
        <3>1. none \in SUBSET Items /\ \A i \in none : OwnItem(i, s)
            OBVIOUS
        <3>2. output' = [output EXCEPT ![s] = Append(@, none)]
            BY <2>1
        <3> HIDE DEF none
        <3> QED BY <3>1, <3>2, WrittenKeeps
    <2>3. ServerTypeOK' /\ Asked'
        BY <1>1, <2>1, <2>2 DEF ServerTypeOK, PageInv, Asked, Items
    <2> QED BY <1>1, <2>1, <2>2, <2>3, ServerKeeps
<1>5. ASSUME NEW s \in Searches, NEW p \in Peers, DiscoveryEvent(s, p) PROVE PageInv'
    <2>1. output' = output /\ thread' = thread
        BY <1>5 DEF DiscoveryEvent
    <2>2. currentSl \in Searches
        BY <1>1, <1>5 DEF DiscoveryEvent, PageInv, Asked, ServerTypeOK
    <2>3. ServerTypeOK' /\ Asked' /\ OutputIsOwn'
        BY <1>1, <1>5, <2>1, <2>2
        DEF DiscoveryEvent, ServerTypeOK, PageInv, Asked, OutputIsOwn, OwnItem
    <2> QED BY <1>1, <2>1, <2>3, ServerKeeps
<1>6. ASSUME NEW t \in Searches, NEW p \in Peers, PipeMsgEvent(t, p) PROVE PageInv'
    <2> DEFINE items == ItemsAt(t, p)
    <2>1. /\ thread' = thread /\ requests' \subseteq requests
          /\ UNCHANGED <<stock, currentSl, listener, queries>>
          /\ \/ output' = output
             \/ thread[listener] # "ended" /\ output' = [output EXCEPT ![listener] = Append(@, items)]
        BY <1>6 DEF PipeMsgEvent, WriteTo
    <2>2. items \in SUBSET Items /\ \A i \in items : OwnItem(i, listener)
        BY <1>1, Constants DEF ItemsAt, OwnItem, ServerTypeOK, Items
    <2> HIDE DEF items
    <2>3. CASE output' = output
        <3>1. ServerTypeOK' /\ Asked' /\ OutputIsOwn'
            BY <1>1, <2>1, <2>3 DEF ServerTypeOK, PageInv, Asked, OutputIsOwn, OwnItem
        <3> QED BY <1>1, <2>1, <2>3, <3>1, ServerKeeps
    <2>4. CASE /\ thread[listener] # "ended" /\ listener \in Searches
               /\ output' = [output EXCEPT ![listener] = Append(@, items)]
        <3>1. /\ output' \in [Searches -> Seq(SUBSET Items)] /\ OutputIsOwn'
              /\ \A r \in Searches : /\ Len(output[r]) <= Len(output'[r])
                                     /\ r # listener => output'[r] = output[r]
            BY <2>2, <2>4, WrittenKeeps
        <3>2. ServerTypeOK' /\ Asked'
            BY <1>1, <2>1, <3>1 DEF ServerTypeOK, PageInv, Asked, Items
        <3> QED BY <1>1, <2>1, <2>4, <3>1, <3>2, ServerKeeps
    <2>5. CASE /\ listener \notin Searches
               /\ output' = [output EXCEPT ![listener] = Append(@, items)]
        <3>1. output' = output
            BY <1>1, <2>5
        <3> QED BY <2>3, <3>1
    <2> QED BY <2>1, <2>3, <2>4, <2>5
<1> QED BY <1>2, <1>3, <1>4, <1>5, <1>6 DEF ServerNext, SearchThread

------------------------------------------------------------------------------

LEMMA PageStarts == Init => PageInv
<1> SUFFICES ASSUME Init PROVE PageInv
    OBVIOUS
<1>1. /\ \A s \in Searches : request[s] = "none" /\ received[s] = 0 /\ output[s] = <<>>
      /\ tasks = <<>> /\ alone = FALSE /\ queries = {}
      /\ page.stream = Nobody /\ page.results = {}
    BY DEF Init, ServerInit
<1>2. ServerTypeOK
    BY DEF Init, ServerInit, ServerTypeOK
<1>3. PageTypeOK
    <2>1. /\ page \in Page /\ tasks \in Seq(SUBSET Items)
          /\ request \in [Searches -> States] /\ resolved \subseteq Searches /\ alone \in BOOLEAN
        <3>1. page \in Page
            BY DEF Init, Page
        <3>2. tasks \in Seq(SUBSET Items)
            BY DEF Init
        <3>3. request \in [Searches -> States] /\ resolved \subseteq Searches /\ alone \in BOOLEAN
            BY DEF Init, States
        <3> QED BY <3>1, <3>2, <3>3
    <2>2. \A s \in Searches : received[s] \in 0..Len(output[s])
        BY <1>1
    <2> QED BY <1>2, <2>1, <2>2 DEF PageTypeOK, Page, States
<1>4. {s \in Searches : request[s] # "none"} = {} /\ 1..0 = {}
    BY <1>1
<1>5. launched = 0 /\ InOrder
    BY <1>4, FS_EmptySet DEF launched, InOrder
<1>6. received \in [Searches -> Nat]
    BY DEF Init
<1>7. Asked /\ OutputIsOwn /\ StreamKnown /\ OnlyLast /\ Queued /\ NoStaleItems
    BY <1>1 DEF Asked, OutputIsOwn, StreamKnown, OnlyLast, Queued, NoStaleItems
<1> QED BY <1>3, <1>5, <1>6, <1>7 DEF PageInv

LEMMA PageStutters == ASSUME PageInv, UNCHANGED vars PROVE PageInv'
<1>1. UNCHANGED serverVars /\ UNCHANGED pageVars
    BY DEF vars
<1>2. output' = output /\ thread' = thread
    BY <1>1 DEF serverVars
<1>3. \A s \in Searches : Len(output[s]) <= Len(output'[s])
    BY <1>2 DEF PageInv, PageTypeOK, ServerTypeOK
<1> QED BY <1>1, <1>2, <1>3, ServerRests, ServerKeeps

LEMMA PageStep == PageInv /\ [Next]_vars => PageInv'
BY SearchKeeps, StartKeeps, ReceiveKeeps, FailKeeps, DigestKeeps, ServerNextKeeps, PageStutters
DEF Next

(* The searches are launched in their order, the last one finds the others *)
(* at rest when it is alone, and a list of items the server writes for a   *)
(* search holds no item this peer found for another.                       *)
THEOREM PageInvariant == Spec => []PageInv
<1>1. Init => PageInv
    BY PageStarts
<1>2. PageInv /\ [Next]_vars => PageInv'
    BY PageStep
<1> QED BY <1>1, <1>2, PTL DEF Spec

(* The page's and the server's variables keep their types: the page never  *)
(* reads beyond what the server wrote, and a stream it aborts is one.       *)
THEOREM PageTypeCorrect == Spec => []PageTypeOK
<1>1. PageInv => PageTypeOK
    BY DEF PageInv
<1> QED BY <1>1, PageInvariant, PTL

(* search.js: a user whose search finds no other one running is never      *)
(* shown an item of this peer found for an older search.                   *)
THEOREM PageNoStaleItems == Spec => []NoStaleItems
<1>1. PageInv => NoStaleItems
    BY DEF PageInv
<1> QED BY <1>1, PageInvariant, PTL
==============================================================================
