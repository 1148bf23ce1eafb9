----------------------------- MODULE ContractsPage -----------------------------
(***************************************************************************)
(* The pages of contracts (modules/contracts.js) of the user of one        *)
(* application, over the server of Contracts.                              *)
(*                                                                         *)
(* The list of the contracts, the view of one and its form are loaded from *)
(* the server when the user goes there, and show what was stored then.     *)
(* Every button that sends a request leads back to the list, which the     *)
(* server takes for an order to go on with the accepted contracts.         *)
(***************************************************************************)
EXTENDS Contracts

CONSTANT User  \* who is logged in

VARIABLES
    page,    \* the state of the router, and the contract it shows
    pressed  \* history: the contracts accepted with the button

pageVars == <<page, pressed>>
vars == <<serverVars, pageVars>>

At(state, e, status) == [at |-> state, entity |-> e, status |-> status]
NoEntity == <<>>

Init ==
    /\ ServerInit
    /\ page = At("viewContracts", NoEntity, "none")
    /\ pressed = {}

(* viewContracts, and the listing that loads it. *)
GoToList(t) ==
    /\ ListContracts(t, User)
    /\ page' = At("viewContracts", NoEntity, "none")

ViewContracts(t) == GoToList(t) /\ UNCHANGED pressed

(* viewContract, once loaded: the buttons depend on the status it shows. *)
ViewContract(e) ==
    /\ page.at = "viewContracts"
    /\ e \in DOMAIN stored /\ e[2] = User
    /\ page' = At("viewContract", e, stored[e].status)
    /\ UNCHANGED <<serverVars, pressed>>

Buttons == page.at = "viewContract" /\ page.status = "NOWHERE"

(* sign: the id of the contract is the body of a PUT to the address        *)
(* /api/contracts/sign/:id, in which nothing replaces ":id".  The server   *)
(* finds no contract of that id, and throws before it changes anything.    *)
Accept(t) ==
    /\ Buttons
    /\ GoToList(t)
    /\ pressed' = pressed \cup {page.entity}

(* decline is sent to /api/contracts/cancel/:id in the same way. *)
Decline(t) ==
    /\ Buttons
    /\ GoToList(t)
    /\ UNCHANGED pressed

(* editContract, from the view or from the header, which does not look at  *)
(* the status.                                                             *)
EditContract ==
    /\ page.at = "viewContract"
    /\ page' = [page EXCEPT !.at = "editContract"]
    /\ UNCHANGED <<serverVars, pressed>>

(* submit: the form may hold any text and parties.  The page stays until   *)
(* the answer comes, and may submit again.                                 *)
Submit(t) ==
    /\ page.at = "editContract"
    /\ \E c \in ContractIds, text \in Texts, parties \in PartyLists :
          Edit(t, User, TitleOf[c], text, parties)
    /\ UNCHANGED pageVars

DeleteContract(t) ==
    /\ page.at = "editContract"
    /\ Delete(t, User, page.entity)
    /\ UNCHANGED pageVars

AddContract(t) ==
    /\ page.at = "viewContracts"
    /\ \E c \in ContractIds, text \in Texts : Add(t, c, text)
    /\ UNCHANGED pageVars

(* Other clients of the server, such as its tests, know the right address, *)
(* and may send it the id of anybody's contract.                           *)
OtherClient(t) ==
    /\ AnyRequest(t) \/ \E u \in Users \ {User} : UserRequest(t, u)
    /\ UNCHANGED pageVars

Next ==
    \/ \E t \in Threads :
          \/ ViewContracts(t) \/ Accept(t) \/ Decline(t)
          \/ Submit(t) \/ DeleteContract(t) \/ AddContract(t) \/ OtherClient(t)
          \/ (Serve(t) \/ Progress(t)) /\ UNCHANGED pageVars
    \/ \E e \in Entities : ViewContract(e)
    \/ EditContract
    \/ Crash /\ UNCHANGED pageVars

Fairness == \A t \in Threads : WF_vars(Serve(t) /\ UNCHANGED pageVars)

Spec == Init /\ [][Next]_vars /\ Fairness

------------------------------------------------------------------------------

(* SigmaEstablisher.java:91: "Launch the protocol : tell everyone that the *)
(* user is ready to sign (pressed signing button)".  A user that presses   *)
(* the signing button has the protocol launched, as long as the contract   *)
(* is there, undecided, and the server does not crash.                     *)
AcceptStarts ==
    \A e \in Entities :
        e \in pressed ~> \/ \E r \in running : r.entity = e
                         \/ e \in DOMAIN stored => stored[e].status # "NOWHERE"
                         \/ crashes > 0
==============================================================================
