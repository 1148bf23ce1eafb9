# SXP in TLA+

SXP is a peer-to-peer platform on which people write contracts, sign them
together and see them cancelled or completed. Every peer runs a JXTA node, a
REST server for its front end, a database, and the protocols that sign a
contract. This directory holds TLA+ modules for the protocol that signs a
contract, for the server around it (contracts, sessions, item search) and for
the pages that drive it, TLC configurations that check them on small instances,
and TLAPS proofs for any number of signers, users, threads and calls. Paths are relative to the repository; `J/` stands for
`SXP/src/main/java/`, `M/` for `SXP/src/main/js/modules/`.

    cd tla
    tlc -config signing.cfg SigmaSigning      # any run of PROJECT.json
    tlapm SigmaSigning_proofs.tla                   # any proof module

## The system

| Component | State | Operations | Talks to |
|---|---|---|---|
| Choice of Trent, `J/protocol/impl/sigma/steps/ProtocolChooseTrent.java` | list of users, random number, which entries have come (`hasSent`), Trent's key | start, three kinds of messages, restart | establisher service; then Sigma establisher |
| Sigma establisher, `J/protocol/impl/SigmaEstablisher.java`, `J/protocol/api/Establisher.java` | contract, wish, status, step of the protocol | initialize, start, sign, resolve, setWish | its steps |
| Signing step, `.../steps/ProtocolSign.java` | round, promises received, listener | send a round, receive a promise or a signature, refuse, stop | establisher service, resolve step, contract |
| Resolve step, `.../steps/ProtocolResolve.java` | the signer's keys | ask Trent, receive Trent's answers | establisher service, signing step, contract |
| Sigma contract, `.../sigma/SigmaContract.java` | signatures | addSignature, isFinalized | signer |
| Trent, `.../sigma/Trent.java`, `TrentSolver.java` | list of claims, dishonest signers, `optimistic` | one request: open, pile up, accuse | establisher service |
| Sigma cryptography, `.../sigma/{Sender,Receiver,PCS,ElGamal,...}.java` | none | proofs, private contract signatures | - |
| Encryption, hashes, certificates, `J/crypt` | keys | encrypt, decrypt, parse | - |
| Establisher service, `J/network/impl/jxta/JxtaEstablisherService.java` | two tables of listeners | send (advertisement or message), listen, remove | JXTA service |
| JXTA services, `J/network/impl/jxta` | groups, pipes, search listener, message listeners | search, publish, send, receive | the network |
| Persistence, `J/model/syncManager`, `J/model/manager` | entity manager, watch list, transaction | begin, find, persist, end, close | the database |
| Manager decorators, `J/controller/managers` | none | sign or publish on the way to persistence | persistence, network |
| Contracts controller, `J/controller/Contracts.java` | the copies each request holds | add, list, edit, sign, cancel, delete | persistence, Sigma establisher |
| Users controller, `J/controller/Users.java`, `J/rest/impl/SimpleAuthentifier.java` | table of tokens, each with a password | login, logout, change of password | persistence |
| Search controller, `J/controller/Search.java` | a thread and an output per search | search by title | item decorator, JXTA services |
| Other controllers, `J/controller` | none of their own | items, messages, profile | managers |
| Blockchain contracts, `J/protocol/impl/BlockChainEstablisher.java`, `blockChain/` | contract address, signatures | deploy, share address, hash and signatures | establisher service, Ethereum |
| Search page, `M/search.js`, `libs/angular-oboe.js` | results, stream, spinner | search, callbacks of the stream | search controller |
| Contract pages, `M/contracts.js` | the contract shown | list, view, accept, decline, edit, add, delete | contracts controller |
| Session pages, `M/users.js`, `settings.js`, `app.js` | route, user, token | log in, log out, change the password | users controller |
| Item and message pages, `M/myItems.js`, `messages.js` | the entity shown | forms over one entity | controllers |
| Demos and voting contracts | - | - | not part of the program |

How a signature comes about: `Contracts.sign` makes a `SigmaEstablisher`
without URIs, so that all its messages are advertisements. `initialize` and
`start` run ProtocolChooseTrent; when all have picked the same Trent it calls
`setListenerOnTrent` (status SIGNING, ProtocolResolve listens to Trent) and
`sign` (ProtocolSign, round 1). A signer sends its promise of round k + 1 when
it holds everybody's promise of round k, and its clear signature at round
N + 2. A signer whose owner refuses, or which has waited long enough, stops
listening to the others and asks Trent, with the claim of its last complete
round, or with ABORT.

### What is hard about it

- An advertisement is published for good. It is found by the local search, by
  the remote search and by the discovery listener (`JxtaEstablisherService`
  145-196): late, in any order, and more than once. Locally, `sendContract`
  notifies the listeners inside the handler that sends.
- Signers give up at any time, while their last promises are still under way;
  what they show Trent is one round behind what the others may hold.
- Trent answers requests in the order it finds them, and its list is shifted
  by each insertion, while its lookups go by index.
- ProtocolResolve goes on listening to Trent after the exchange is over.
- The handlers run on threads of JXTA, of the server and of the search, and
  nothing is synchronised.
- Controllers read a contract from the database while a protocol is running on
  another copy of it; commits write what a request changed in its copies, with
  no versions and no locks; a listing of the contracts starts protocols again.
- Calls of a page are answered in any order, wherever the page has gone by then,
  and a transition between pages may be superseded before it ends.
- All searches of a server share one search listener and one name to answer to.
- The chunks of a stream, the promise that the first one resolves, and the
  digest that runs the callbacks come in an order no page controls.

`PROJECT.json` lists these hazards at their lines, with the properties that
cover them or the reason why none does yet.

### What makes each component correct

| Component | Properties |
|---|---|
| Trent | It never answers both an abort and the signatures, except that it overturns an abort for which only dishonest claims stood; what it opens is what the signers accept; it accuses only signers that have asked, and nobody once it has opened |
| Signing and resolve steps | Nobody ends up signed while another is cancelled; no signer commits more than a round ahead; a complete claim is never left waiting; a signed contract is never taken back; if nobody refuses everybody signs; a refusal reaches everybody |
| Choice of Trent | All go on with one Trent or do not go on; every number counts once; equal lists lead everybody to sign |
| Establisher and JXTA services | A message that is published reaches every listener registered before or after it; a removed listener is not notified; a search's answers reach its own listener |
| Contracts controller and pages | A protocol runs only on an entity that somebody asked to sign; a decision is never taken back, and stays once the requests that overlap it have ended; the parties that have not decided have one text; an accepted contract is started again; a button does what it says |
| Session | A token is worth nothing once its page has logged out; a token made since the last change works; a change sent in order is made |
| Search | A search ends told to the user, shows what is its own and all of what was streamed |
| Persistence and decorators | What is published is stored; a failed commit changes nothing |
| Blockchain contracts | Both signers hold both signatures, in whatever order they sign and receive; byte conversions are inverse to each other |

## The modules

**`TrentSolver`** models Trent for one contract. `requests` and `answers` are the
sets of all advertisements ever published, so that a request is handled in any
order and any number of times. `possiblyHonestClaims` is the Java list of maps,
each map the set of its claims. `ResolveT` is `TrentSolver.resolveT`; it has one
disjunct for each way out of the method, in the order of its loops:
`OtherShownDishonest` (loop 1), `SenderContradictsItself` (loop 2),
`SenderShownDishonest` (loop 3), `OpenPromises`, `PileUp` and `Throw`. Details
that matter are kept: loop 1 reads past the end of the list and throws;
`s != senderId` compares two strings by identity and so always holds;
`List.indexOf` returns the first map that is equal, not the map at hand;
`add(round, h)` shifts the maps after it. A claim is known by its author and its
round: `Trent.resolve` verifies it first, and that verification is taken to
accept the genuine claims and no others. `failed` is a history variable.

**`SigmaSigning`** extends it with the signers. Each has the status and the wish
of its contract, `round` and `received` (`round` and `roundReceived` of
ProtocolSign), `signatures` (the round at which each was made: `Clear` for a
clear one), `listening` (its ProtocolSign listener is registered), `deaf` (the
signer of ProtocolResolve is left on the key of the last party, so that no
further answer of Trent verifies) and `sent`. The actions are the handlers, with
everything they call: `Start` is `setListenerOnTrent` and `sign`; `NotifyPromise`
and `NotifySignature` are the listener of ProtocolSign; `NotifyCancelled` and
`NotifyResolved` that of ProtocolResolve; `Resolve` is
`SigmaEstablisher.resolve`; `SetWish` is the owner's change of mind, which
`ProtocolSign.sendMessage` alone reads. The loop of the listener, which sends
all the rounds that are due, is one step: `FirstGap` names the round it stops
at. The promises of a signer count as received for its own row at once.

**`FairExchange`** is the abstract specification: the exchange is decided once,
and what a signer learns is that decision. `SigmaSigning` implements it with the
verdict "cancelled" once Trent has answered an abort, and "signed" once Trent
has opened the promises or somebody has published its clear signature.

**`ChooseTrent`** models ProtocolChooseTrent. The step of a signer is a record,
and each branch of the handler a function from records to records
(`NotifyList`, `NotifyNumber`, `NotifyTrent`), because `sendContract` notifies
the sender's own listener inside the handler: the nested call is a nested
application. `got` and `done` stand for the arrays `hasSent`, whose entry N marks
a complete round; `Restart` makes arrays without that entry (`short`).
`Filtered` and `FilterThrows` are the loops over the two lists of users, whose
iterator is advanced once per user of the other list; `remove` and `next` throw
where the Java code does.

**`SignThreads`** takes the listener of ProtocolSign apart, statement by
statement, for the threads that notify it at the same time: `Check` and `While`
are the test of the claim and the loop, `Read` and `Write` the two halves of
`round++`, `Make` and `Publish` the two halves of `sendMessage`. Before
`sendMessage` returns (`Return`), `sendContract` notifies the listeners of the
same peer, the sender's own among them: a `Notify` of a thread that is sending is
a nested call, and `depth` counts the calls that wait. A waiting call was in its
loop, so that it held its claim: this is all of its local state that has to be
given back when the nested one ends. The other signers are what they publish once
they hold what this signer has sent.

**`Contracts`** models `Contracts.java`. An entity is the pair of a contract and
its owner (`add` makes one for each party). A request holds in `thread` the
copies it has `read` and what it made of them (`new`), and the user whose token
it goes `by`; `Commit` writes the attributes that differ, into what the database
holds by then, as the persistence provider does. `sign` is three steps, between
which other requests are served: `ReadToSign` reads the copy and tests its status
(line 205), `StartProtocol` starts the protocol on the copy (214), `Commit` ends
the request. In between `Progress` is what the protocol does to the copy before
the request ends; what it does later is stored nowhere. It leaves RESOLVING out:
the copy's wish stays ACCEPT, so that the signer never turns to Trent within the
request, and nothing calls `resolve()`. `delete` compares the owner of the entity
with the user of the token; `sign` does not, so that `Sign(t, u, e)` is for any
user u and any entity e, and the protocol signs with the key of u (`Protocol`), or
throws when u is not among the parties. `ListContracts` is `get`, whose loop calls
`sign` again, with the owner's token, for each contract it read as accepted
(`SignNext`). `edit` finds entities by title (`Editable`), and `Crash` loses
threads and protocols, not entities. `asked` and `raced` are history variables:
who asked to sign which entity, and which entities an edit and a request to sign
held at the same time.

**`ContractsPage`** composes it with the pages of one user. Every button leads to
the list, which is a `ListContracts`. `Accept` and `Decline` send to an address
with the literal `:id`, at which the server changes nothing. The view shows what
was stored when it was loaded, and `Buttons` follow what it shows. `OtherClient` is
any request of any other user, for anybody's contracts.

**`Session`** models the pages for login, logout and password, and the server
that keeps tokens for them. `state` and `going` are the router's: `$state.go`
begins a transition, `Arrive` ends it and runs the controller, unless another
`go` has superseded it; a `go` to the state the page is in only drops the
transition under way (`Toward`). A call passes through `at`: sent, checked by `Check`
(`getUser`), token made by `GetToken`, committed by `CommitPassword`, answered.
`Restart` loses the tokens and the calls being served, `CommitFails` is an `end`
that returns false. A token is the number of the call that made it.

**`ItemSearch`** models the server's side of a search: the thread of
`Search.java` (`Accept`, `Listen`, `AskPeers`, `EndOutput`), the one listener of
the item service (`currentSl`), the one name ("test") under which responses are
listened for (`listener`), the peers' answers (`DiscoveryEvent`, `PipeMsgEvent`).
A search stands for its title.

**`SearchPage`** composes it with the page. `Search` is a key typed and its
digest; `Receive` a chunk, which notifies and then resolves the promise of its
stream; `RunTasks` the queued callbacks, each `Node`. AngularJS is third-party;
what is taken from it is that `notify` queues a callback for the next digest and
does nothing once the promise is resolved.

**`MCTrentSolver`**, **`MCChooseTrent`**, **`MCContracts`** and
**`MCContractsPage`** give TLC its bounds, lists, users and contracts.

In these modules a definition named `X_Bug` (`FirstGap_Short`,
`Written_Whole`, ...) is a plausible bug in `X`. The specifications do not use it.
It takes the place of `X` when one wants to see that a property tells the two
apart; the pairs are listed under `mutants` in `PROJECT.json`, one for each
property that holds.

## The runs

| Run | Module, cfg | Shows |
|---|---|---|
| trent_solver | MCTrentSolver, MCTrentSolver.cfg | `TrentTypeOK`, `Exclusive`, `OnlyFirstRoundOpened`, `AccusedHaveAsked`, `NoAccusationOnceOpened`: three signers, any three distinct requests, each found any number of times |
| signing | SigmaSigning, signing.cfg | `TypeOK`, `NoClaimLeftWaiting`, `ResolvedIsAccepted`, `FinalizedHoldsClaim`, `AllFoundAllSigned`, `Agreement`, `LockStep`, `FinalizedForever`, the refinement `FairExchangeSpec`: two signers, which both may refuse and lose patience. Liveness: `EverybodySigns` if nobody asks Trent, `RefusalCancels`, `FirstClaimSigns`, `EarlyRequestDecides` |
| choose | MCChooseTrent, choose.cfg | `TypeOK`, `UnanimousTrent`, `RestartNeverSigns`, `NumbersCountOnce`, and `EverybodyGoesOn` (liveness): two signers whose lists are equal or differ in their order |
| search_page | SearchPage, search_page.cfg | `PageTypeOK`, `NoStaleItems`, and `SearchEndsTold`, `LocalItemsShown` (liveness): two searches, one peer, any stock of items, a request that may fail |
| contracts | MCContracts, contracts.cfg | `ServerTypeOK`, `StartedOnlyIfAsked`, `NeutralAgree`, `TextIsFixed`, `DecidedForGood`, and `ListingRestarts` (liveness): four requests of two users on two threads, two contracts of one title, a crash |
| session | Session, session.cfg | `TypeOK`, `LogoutEndsSession`, `FreshSessionIsAccepted`, and `PasswordChanges` (liveness): three calls, two passwords, a restart or a failed commit |

Six runs show that the program does not do what its documentation says:

| Run | The doc | The code |
|---|---|---|
| all_signed | "Check if all parties have signed the contract." (`EstablisherContract.java:62`) | the first clear signature in the order of the keys is enough |
| timeliness | "At every point any party can decide to leave" (`SecureContractSigningProtocol.md:21`) | a first claim of round 2 or more makes `resolveT` throw; the signer waits in RESOLVING for ever |
| overturn | "[if] the PossiblyHonestsClaims list is emptied, then it is fair and timely for him to accept to open everything from now on" (`SecureContractSigningProtocol.md:159-163`) | emptied maps stay in the list, so that `isEmpty()` (`TrentSolver.java:93`) is false for ever after an abort: Trent answers the honesty token, which cancels |
| search_partial | "A node is just a partial list of matches from the streamed search" (`M/search.js:50`) | the first chunk resolves the promise of its stream; later lists are ignored |
| accept_starts | "tell everyone that the user is ready to sign (pressed signing button)" (`SigmaEstablisher.java:91`) | the button's address holds the literal `:id`; the server finds no contract and throws |
| sent_with_claim | "Send the rounds (if we have the claim needed)" (`ProtocolSign.java:180`) | two notifications both advance the round, and the second sends without the claim |

`Exclusive` holds the way it does because of `overturn`: the protocol wants an abort to
be overturned when all the claims it rests on turn out dishonest, and Trent never
does. As long as no claim is dishonest, the property is what the protocol
promises, either everyone or no one.

More differences are visible in the modules and have no run of their own. The
index of a claim in Trent's list is not its round once an insertion has shifted
the list (`TrentSolver.java:104`, against the comment at line 21). A request found
three times makes its author dishonest (`TrentSolver.java:80`). The filter of the
lists of users compares by position and may keep a user that the other does not
have (`ProtocolChooseTrent.java:200`). `Contracts.sign` does not look whether the
entity is its user's, as `delete` does (`Contracts.java:205`, `181`): one user can
set another's wish, and that other's next listing starts the protocol with the
other's key. And requests that overlap may change a decision: commits carry no
versions, and the test of the status and the start of the protocol are apart, so
that a signed contract may become cancelled, or a cancelled one signing.

### Bounds

- `N`: `signing` has two signers, one promise to wait for in each round, so that
  Trent's part, both timers and all liveness fit in one run; `trent_solver` has
  three, of whose claims two can contradict a third. That a round may be complete
  for one of three signers and not for another is left to the proofs, which cover
  every N, for all the safety properties of `signing` and the refinement.
  `overturn` needs two signers and two requests.
- `MaxClaims` bounds the list of piled-up claims, 3 or 4. Three maps are enough
  for each of the loops of `resolveT` to find something and for an insertion to
  shift two maps. The proofs hold for every value.
- `MaxRequests` = 3 distinct requests to Trent on its own: two that contradict
  each other and one that comes between.
- `Refusers`, `TimerParties`: who may refuse or lose patience: both in `signing`.
- `Numbers` = {0, 1} lets the sum pick either user of a list of two.
  `InitialLists` holds a list and its reversal: equal lists let everybody go on,
  different ones make the filter drop users and throw when it meets a shortened
  list again.
- `MaxSearches` = 2: a search and the one that replaces it, which is where
  streams, listeners and aborts of two searches meet; one peer beside the own
  server; `TooMany` = 2 results end a search, so that the limit is reached.
  `search_partial` needs one search only.
- `contracts`: two threads, so that two requests overlap in every way; a contract
  of two parties and one of the first alone with the same title, which `edit`
  cannot tell apart; two texts, and edits that set the parties to the second user alone; four
  requests, enough to add a contract, ask to sign it, and list, edit or cancel it
  around that; one crash. `MCContracts` has the first request add the contract of
  both, without which nothing can be asked, and adds contracts with one text, the
  other being what an edit sets.
- `session`: three calls (a login, a change or second login, and a logout) that
  overlap in every way, two passwords, one fault.
- `sent_with_claim`: two signers, two threads.

Deadlock is not checked in the runs of ChooseTrent, SearchPage, Contracts,
Session and SignThreads: there, once the bounds are used up and what was asked
for is done, nobody has anything left to do.

### Fairness

Fairness is weak, and only of what the peers do by themselves: each signer
starts its step, and each advertisement is sooner or later found by each
listener (SigmaSigning and ChooseTrent). This is what `JxtaEstablisherService.listens` is for: it searches
locally and remotely, and goes on discovering; and an advertisement does not go
away. In ChooseTrent every owner presses the signing button. No fairness is
assumed of owners' wishes or timers. `EverybodyGoesOn` and `EverybodySigns` do not
say how long it takes, nor what happens when a peer leaves the network for good.

In the other modules it is weak fairness of the threads: a thread of the server
goes on with the request it serves (`Contracts`, `Session`, and the search
threads of `ItemSearch`, which only sleep), and the browser handles the events
and timers it has (`SearchPage`: headers, chunks and digests). Nothing is assumed
of users, of peers' answers, of the way of an answer back to the page, or of
crashes, failures and failed commits, which may happen or not.

## The proofs

These modules prove, for every value of the constants, and with no other
assumption than those the modules name (`InductionFacts` holds what they need of
recursive functions and sums; the theorems about the contract pages assume that
who is logged in is a user, and the one of SignThreads that there is one thread):

| Module | Theorems | State |
|---|---|---|
| TrentSolver_proofs | `TrentTypeCorrect`, `TrentExclusive`, `TrentOpensFirstRound`, `TrentAccusesAskers` | the invariants of the run trent_solver |
| | `TrentNeverAccusesOnceOpened` | its action property `NoAccusationOnceOpened` |
| SigmaSigning_proofs | `SigningTypeCorrect`, `SigningAgreement`, `SigningLockStep`, `SigningAccepted` | `TypeOK`, `Agreement`, `LockStep`, `ResolvedIsAccepted` |
| | `SigningFinalizedForever` | the action property `FinalizedForever` |
| | `SigningIsFair` | `Spec => FairExchangeSpec`, the refinement |
| | `SigningDrivesTrent`, `SigningNoAccusationOnceOpened` | `Spec => TrentSpec`, a second refinement, and what Trent guarantees through it |
| | `SigningGoesOn`, `SigningHoldsClaim`, `SigningNeverStuck` | `NoClaimLeftWaiting`, `FinalizedHoldsClaim`, `AllFoundAllSigned` |
| SignThreads_proofs | `OneThreadSendsWithClaim` | with one thread, its own nested notifications included, `SentWithClaim`, which several threads violate |
| ChooseTrent_proofs | `ChooseUnanimous`, `ChooseRestartNeverSigns` | `UnanimousTrent`, `RestartNeverSigns` |
| | `ChooseTypeCorrect`, `ChooseCountsOnce` | `TypeOK`, `NumbersCountOnce` |
| SearchPage_proofs | `PageTypeCorrect`, `PageNoStaleItems` | `PageTypeOK`, `NoStaleItems` |
| Contracts_proofs | `ServerTypeCorrect`, `ServerStartsIfAsked` | `ServerTypeOK`, `StartedOnlyIfAsked` |
| | `ServerDecidesForGood` | the action property `DecidedForGood` |
| | `ServerNeutralAgree`, `ServerTextIsFixed` | `NeutralAgree`, `TextIsFixed` |
| | `PagesImplementServer`, `PagesKeepGuarantees` | the pages' `Spec => ServerSpec`, and the above under the pages |
| | `PagesNeverStart` | under the pages a protocol runs only on what another user's client asked to sign |
| Session_proofs | `SessionTypeCorrect`, `SessionLogoutEnds`, `SessionFreshIsAccepted` | `TypeOK`, `LogoutEndsSession`, `FreshSessionIsAccepted` |

*Trent.* `Exclusive` alone is not inductive. `TrentInvariant` adds that once an
abort has been answered the list of maps is not empty (maps are emptied,
never removed: hence, too, no overturn), and that once promises have been opened it is empty for good
and `optimistic` is false: nothing can then be piled up, withdrawn or accused.
The claims in the list are among the requests, from which `AccusedHaveAsked`
follows. That the list is empty once promises have been opened is also why
nobody is accused from then on.

*The signers.* `SigningInvariant` relates what a signer holds to what the others
have sent. A signer sends no round above its own (`NotStarted`), and everybody
has sent each round below its own (`HoldsAllBelow`), so that nobody is more than
a round ahead: `LockStep`. A signer that has asked Trent, with a claim one round
below its own, stays at that round for ever (`AskedAtRound`). So when somebody
has asked with ABORT it stays at round 1, nobody gets past round 2, and nobody
publishes a clear signature; and when Trent has opened round 1, somebody stays
at round 2 and everybody is at rounds 1 to 3. The list of claims is not empty
only after an ABORT (`ListByAbort`), so that a clear signature and an abort
exclude each other, as do Trent's two answers. That is `Agreement`, and, with
the mapping of the verdict, the refinement. In the other direction the signers
are among those that Trent faces on its own (`SigningDrivesTrent`): each handler
that turns to Trent asks for a round between 0 and N + 1, and no other touches
Trent's state.

*The claims.* `SigningClaims` adds what a signer has received. At round r it
holds everybody's promises of all rounds below r, because it goes on, to a next
round or to Trent, only with them; and it does not hold those of round r itself,
because the notification that completed them has sent the next. A clear
signature is published after the last round, so that who receives it holds the
promises of round N, by `SigningInvariant` on who has sent what.

*Nobody waits for ever.* `AllFoundAllSigned` says of states what `EverybodySigns`
says of behaviours: when Trent is not asked and all that is published has been
found, nobody is still signing. Of two signers a round apart the one behind has
all it needs, and when none is behind so have all (`GoesPast`); at the last round
a signer waits for the clear signature of the first party alone, which is
published as soon as anybody has the signed contract (`FirstHasSigned`).
`WaitsInv` adds that a signer still signing holds no finalized contract, and
keeps its own clear signature.

*One thread.* `SignThreads` takes the listener statement by statement, and with
two threads violates `SentWithClaim`. With one it does not, for any number of
signers (`ThreadInv`): between the statement that sees a claim complete and the
one that leaves its round nobody else changes the round, and promises are only
added. The one thread may be notified again while it sends, by its own
`sendContract`, to any depth; such a nested notification may advance the round
itself, but only as a whole, and the call that waits looks at the claim of the
round it then finds (`Return`) before it goes on. So the violation is due to the
interleaving of several threads.

*The choice of Trent.* `UnanimousTrent` is not inductive: nothing in it stops a
signer from picking again after others have entered its first Trent.
`ChooseInvariant` says that it picks once at most: picking completes its round 1
(`Once`), and after a restart no round completes. It has entered another signer
in round 2 only with the Trent which that signer has picked and which is its own
(`Heard`), and it goes on when all are entered (`Going`). The handlers nest, so
that each is first shown to do one of four things to the record of a step
(`Quiet`, `Again`, `Hears`, `Picks`), and each of these to keep the invariant.

For the numbers, `ChooseNumbers` says that the sum of a signer that has not
restarted is that of its own number and those of the signers entered in round 1,
and that its own is entered when the number is drawn (`Tallied`): so it is not
added again when the signer finds its own message, and another's is not when it
is found twice. The lists stay lists of users that repeat none (`Listed`): a
filtered list keeps the others, in their order, and a list has one sorted order,
so that `Sorted` chooses a list at all.

*Recursion.* `Filtered`, the sum of the numbers and the callbacks of a digest are
recursive functions. The library's induction theorems take a predicate, which no
installed prover can instantiate. `InductionFacts` takes the set of the instances
instead: a set that has 0 and the successor of each of its numbers has all
numbers (`EveryNumber`), a set of subsets of a finite S that has a subset
whenever it has what is left of it without each of its elements has them all
(`EverySubset`), both from the least element of
a well-founded order. `StepsExist` gives the recursive functions, and `SumsTake`
says that a sum may be taken in any order.

*The contracts.* `StartedOnlyIfAsked` and `DecidedForGood` depend on what the
copies of the requests will write later. `ServerInvariant` says that no wish,
stored or in a copy, is ACCEPT unless somebody asked to sign the entity
(`AskedBy`); that a listing has only such contracts left;
that a request about to sign holds one entity, which it goes for by somebody who
asked or by the owner (`MaySign`); that only a copy read as NOWHERE is about to
decide (`MayDecide`); and that no copy has gone back to NOWHERE since it was
read. An entity is `Settled` when its status is decided and no request is left
that read it undecided: none can come any more, as `ReadToSign` and `Cancel` read
what is stored, so that nothing changes the status or starts its protocol, though
the test and the start are two steps. For the texts (`TextInvariant`) the copies
of overlapping edits matter: an edit holds, with an entity, all those of the same
contract that are still neutral (`EditsTogether`), a copy is never ahead of what
is stored (`Behind`), and what a request is about to sign, or a protocol signs, is
the stored text, decided or about to be by that request, and held by no edit
unless they raced (`SigningInv`). All of it turns on the fact that no commit makes
a wish NEUTRAL again.

*The contract pages.* A page deletes what it shows, and that is an entity
(`PageShows`); so every step of `ContractsPage` is one of the server, or leaves
the server alone, and the server's theorems hold under the pages. Nothing its
user does asks to sign (`NeverAsked`), and no protocol starts unasked: hence
`PagesNeverStart`. The protocols that run were asked for by another user's client,
which the server lets ask for anybody's entities, those of the pages' user
included, whose listing then goes on with them. That the button itself never
starts a protocol, which the run accept_starts finds in an instance, is thereby
shown for all.

*The search.* `NoStaleItems` needs to know that nothing of older searches is on
its way when a search is alone. `PageInvariant` says that then no other search
runs (`OnlyLast`), one that does not run never runs again, and the queued
notifications bring no older item of this peer (`Queued`). What this peer holds
for a title is written to the search of that title alone: responses that go
to the wrong search come from other peers (`OutputIsOwn`). The last search is the
number of those launched because they are launched in order (`InOrder`).

*The session.* `SessionInvariant` says that the token the page sends is that of
a login whose answer has come, that only checked calls have tokens, and that a
password checked since the last change is the one of the database. A logout
leaves the page without a user in the step that sends the token to be deleted,
and no later answer but a login's changes either.

*What is only model-checked.* All invariants and action properties of the passing
runs are proved. The liveness properties (`EverybodySigns`,
`RefusalCancels`, `FirstClaimSigns`, `EarlyRequestDecides`, `EverybodyGoesOn`,
`SearchEndsTold`, `LocalItemsShown`, `ListingRestarts`, `PasswordChanges`) stay
with TLC: temporal reasoning under fairness needs ENABLED, which the prover does
not support. So do the violations, which are behaviours of an instance.

## Not modelled

- The mathematics of the Sigma protocol: 1024-bit arithmetic. What it is for
  (a claim that verifies was made by its author, at its round) is assumed.
- Threads, beyond those named. In `SigmaSigning` and `ChooseTrent` a handler is
  a step; `SignThreads` shows what that leaves out for ProtocolSign. The HashMap
  of tokens is taken to be one step per operation.
- Messages instead of advertisements: the controllers never use them
  (`Contracts.java:212` gives no URIs). The tables of listeners of the
  establisher service are not modelled either.
- `restore` of the steps and the constructors from stored data, which are never
  called; `Contracts.get` starts a protocol anew instead, which is modelled.
- The blockchain prototype. The test of the contract's id is inverted
  (`BlockChainEstablisher.java:79`), the signer that does not deploy has no
  contract to sign, and the contract is compared with itself when it is checked:
  no two signers can complete an exchange, and no controller uses it.
- The items and messages controllers and pages, the subscription, the profile:
  each request reads or writes one entity. The user search of the message page
  streams like the search page. The message that goes to the first user found
  with a name (`Messages.java:88`) is listed as a hazard.
- Decorators that publish, sign or encrypt on the way to the database;
  encryption, certificates; demos and voting contracts.
- AngularJS (30,868 of the repository's some 35,000 lines of JavaScript) and
  jquery.datetimepicker (3,191) are third-party. Only the few places of
  AngularJS whose order the search page and the session depend on are
  translated, so that the modules cover a small part of the JavaScript by lines,
  though `search.js`, `contracts.js`, `settings.js` and the session part of
  `users.js` are covered.

## Plan

Done: `TrentSolver`, `SigmaSigning`, `FairExchange`, `ChooseTrent`, `SignThreads`,
`Contracts`, `ContractsPage`, `Session`, `ItemSearch`, `SearchPage`, and the
proofs above. What would come next, in this order:

1. `EstablisherService`: the tables of listeners, and a listener that is
   registered after it has been notified (`JxtaEstablisherService.java:194`).
2. `ProtocolRun`: ChooseTrent followed by SigmaSigning, signer by signer, which
   start at different times.
3. `Messages` with the user search of its page, and the decorators that publish
   before they commit (`NetworkItemManagerDecorator.java:144`).
4. `SigmaAlgebra`: the proofs of Sender and Receiver over a small group.
5. For `ChooseTrent` what `AllFoundAllSigned` is for the signers; then the
   theorems of both over `ProtocolRun`.
