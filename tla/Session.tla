-------------------------------- MODULE Session --------------------------------
(***************************************************************************)
(* The session of a user: the pages of one browser that log in, log out    *)
(* and change the password (modules/users.js, settings.js, app.js), and    *)
(* the server that keeps tokens for them (Users.java, SimpleAuthentifier). *)
(*                                                                         *)
(* The calls of a page are answered in any order, by threads of the server *)
(* that overlap.  An answer does what it does wherever the page has gone.  *)
(* $state.go only begins a transition: the controller of the new state     *)
(* runs when its template has come, unless another transition has begun;   *)
(* to the state the page is in, it only drops the transition under way.    *)
(* The server keeps the tokens in memory, and a restart loses them.        *)
(*                                                                         *)
(* One account, which exists.  $rootScope.userLogged, which shows the      *)
(* menu, always follows userid and is left out.                            *)
(***************************************************************************)
EXTENDS Naturals, Sequences

CONSTANTS Passwords,
          FirstPassword,  \* of the account
          MaxCalls,       \* bound: the calls of a behaviour
          MaxFaults       \* bound: the restarts and failed commits

ASSUME SessionAssumption ==
    /\ FirstPassword \in Passwords
    /\ MaxCalls \in Nat /\ MaxFaults \in Nat

VARIABLES
    state,     \* the router: where the page is
    going,     \* the state of the transition under way, or "none"
    userid,    \* does the page hold a user (app.userid is defined)?
    header,    \* the Auth-Token sent with every call; NoToken at first
    calls,     \* the calls sent, each with how far the server is with it
    password,  \* the database: the password of the account
    tokens,    \* SimpleAuthentifier: a token is the number of the call that made it
    older,     \* history: the calls whose password was checked before the last change
    faults     \* how many faults so far

pageVars == <<state, going, userid, header>>
serverVars == <<password, tokens, older, faults>>
vars == <<pageVars, calls, serverVars>>

States == {"login", "logout", "password", "settings", "myItemsView"}
NoToken == 0

CallRecord ==
    [kind : {"login", "logout", "password"}, token : 0..MaxCalls,
     given : Passwords, new : Passwords,
     at : {"sent", "checked", "kept", "ok", "told", "refused"}]

Call(kind, given, new) ==
    [kind |-> kind, token |-> header, given |-> given, new |-> new, at |-> "sent"]

TypeOK ==
    /\ state \in States /\ going \in States \cup {"none"}
    /\ userid \in BOOLEAN
    /\ header \in 0..MaxCalls
    /\ calls \in Seq(CallRecord)
    /\ Len(calls) <= MaxCalls
    /\ password \in Passwords
    /\ tokens \subseteq DOMAIN calls /\ older \subseteq DOMAIN calls
    /\ faults \in 0..MaxFaults

(* The home page leads to login at once, for nobody is its current user. *)
Init ==
    /\ state = "login" /\ going = "none"
    /\ userid = FALSE
    /\ header = NoToken
    /\ calls = <<>>
    /\ password = FirstPassword
    /\ tokens = {}
    /\ older = {}
    /\ faults = 0

------------------------------------------------------------------------------
(***************************************************************************)
(* The page                                                                *)
(***************************************************************************)
Toward(s) == IF s = state THEN "none" ELSE s

(* A link or the address bar, which may lead anywhere. *)
Go(s) ==
    /\ going' = Toward(s)
    /\ UNCHANGED <<state, userid, header, calls, serverVars>>

Send(call) ==
    /\ Len(calls) < MaxCalls
    /\ calls' = Append(calls, call)

(* isUserConnected, which most controllers call first: a page without a    *)
(* user goes to login, after the rest of the controller.                   *)
IsUserConnected == going' = IF userid THEN "none" ELSE "login"

(* The transition ends: the controller of the new state runs.  That of     *)
(* logout sends the token and forgets the user, not the token; those of    *)
(* login and password do not ask whether there is a user.                  *)
Arrive ==
    /\ going # "none"
    /\ state' = going
    /\ IF going = "logout"
       THEN /\ Send(Call("logout", FirstPassword, FirstPassword))
            /\ userid' = FALSE
       ELSE UNCHANGED <<calls, userid>>
    /\ IF going \in {"login", "password"} THEN going' = "none" ELSE IsUserConnected
    /\ UNCHANGED <<header, serverVars>>

(* The form may be sent again before it is answered. *)
SubmitLogin(given) ==
    /\ state = "login"
    /\ Send(Call("login", given, given))
    /\ UNCHANGED <<pageVars, serverVars>>

LoginAnswered_NoState(c) ==  \* goes to the module, which is not a state
    /\ calls[c].kind = "login" /\ calls[c].at = "ok"
    /\ calls' = [calls EXCEPT ![c].at = "told"]
    /\ header' = c
    /\ userid' = TRUE
    /\ going' = "myItems"
    /\ UNCHANGED <<state, serverVars>>

LoginAnswered(c) ==
    /\ calls[c].kind = "login" /\ calls[c].at = "ok"
    /\ calls' = [calls EXCEPT ![c].at = "told"]
    /\ header' = c
    /\ userid' = TRUE
    /\ going' = Toward("myItemsView")
    /\ UNCHANGED <<state, serverVars>>

(* The page shows "Password changed", sends the change and goes to logout, *)
(* which sends the same token.                                             *)
SubmitPassword(given, new) ==
    /\ state = "password"
    /\ Send(Call("password", given, new))
    /\ going' = "logout"
    /\ UNCHANGED <<state, userid, header, serverVars>>

PasswordAnswered_Keeps(c) ==  \* keeps the new token, as a login does
    /\ calls[c].kind = "password" /\ calls[c].at = "ok"
    /\ calls' = [calls EXCEPT ![c].at = "told"]
    /\ header' = c
    /\ going' = "settings"
    /\ UNCHANGED <<state, userid, serverVars>>

(* The new token is not kept.  A refused change is null, on which the      *)
(* function throws, or an error, which is shown.                           *)
PasswordAnswered(c) ==
    /\ calls[c].kind = "password" /\ calls[c].at = "ok"
    /\ calls' = [calls EXCEPT ![c].at = "told"]
    /\ going' = Toward("settings")
    /\ UNCHANGED <<state, userid, header, serverVars>>

------------------------------------------------------------------------------
(***************************************************************************)
(* The server                                                              *)
(***************************************************************************)
Known_NoHeader(call) == call.kind = "login"  \* a token that is not passed on

(* getUser, for the nick of the login, or for that of a live token. *)
Known(call) == call.kind = "login" \/ call.token \in tokens

Check(c) ==
    /\ calls[c].at = "sent" /\ calls[c].kind # "logout"
    /\ calls' = [calls EXCEPT ![c].at =
          IF Known(calls[c]) /\ calls[c].given = password THEN "checked" ELSE "refused"]
    /\ UNCHANGED <<pageVars, serverVars>>

KeptPassword_Given(c) == calls[c].given  \* the previous password, with the token of a change
KeptPassword(c) == IF calls[c].kind = "login" THEN calls[c].given ELSE calls[c].new

(* getToken keeps the password along with the new token: the one given, or *)
(* the new one before it is in the database.                               *)
GetToken(c) ==
    /\ calls[c].at = "checked"
    /\ tokens' = tokens \cup {c}
    /\ calls' = [calls EXCEPT ![c].at = IF calls[c].kind = "login" THEN "ok" ELSE "kept"]
    /\ UNCHANGED <<pageVars, password, older, faults>>

(* end commits the new password, whatever the other threads have committed *)
(* since the check, or fails, and then the token stays.                    *)
CommitPassword(c) ==
    /\ calls[c].at = "kept"
    /\ calls' = [calls EXCEPT ![c].at = "ok"]
    /\ password' = calls[c].new
    /\ older' = {d \in DOMAIN calls : calls[d].at # "sent"} \ {c}
    /\ UNCHANGED <<pageVars, tokens, faults>>

CommitFails(c) ==
    /\ calls[c].at = "kept"
    /\ faults < MaxFaults /\ faults' = faults + 1
    /\ calls' = [calls EXCEPT ![c].at = "refused"]
    /\ UNCHANGED <<pageVars, password, tokens, older>>

DeleteToken(c) ==
    /\ calls[c].kind = "logout" /\ calls[c].at = "sent"
    /\ tokens' = tokens \ {calls[c].token}
    /\ calls' = [calls EXCEPT ![c].at = "told"]
    /\ UNCHANGED <<pageVars, password, older, faults>>

Restart ==
    /\ faults < MaxFaults /\ faults' = faults + 1
    /\ tokens' = {}
    /\ calls' = [c \in DOMAIN calls |->
                    IF calls[c].at \in {"sent", "checked", "kept"}
                    THEN [calls[c] EXCEPT !.at = "refused"] ELSE calls[c]]
    /\ UNCHANGED <<pageVars, password, older>>

Serve(c) == Check(c) \/ GetToken(c) \/ CommitPassword(c) \/ DeleteToken(c)

Next ==
    \/ \E s \in States : Go(s)
    \/ Arrive
    \/ \E given \in Passwords :
          SubmitLogin(given) \/ \E new \in Passwords : SubmitPassword(given, new)
    \/ \E c \in DOMAIN calls :
          LoginAnswered(c) \/ PasswordAnswered(c) \/ Serve(c) \/ CommitFails(c)
    \/ Restart

(* A thread of the server goes on with the call it serves.  Nothing is     *)
(* asked of the user, nor of the way of the answers.                       *)
Fairness == \A c \in 1..MaxCalls : WF_vars(c \in DOMAIN calls /\ Serve(c))

Spec == Init /\ [][Next]_vars /\ Fairness

------------------------------------------------------------------------------
(***************************************************************************)
(* Properties                                                              *)
(***************************************************************************)
(* logout.html: "You are succesfully logged out".  When the page holds no  *)
(* user, the token it still sends with every call is worth nothing, or is  *)
(* about to be deleted, whatever answers came after the logout.            *)
LogoutEndsSession ==
    ~userid /\ header \in tokens =>
        \E c \in DOMAIN calls :
            calls[c].kind = "logout" /\ calls[c].token = header /\ calls[c].at = "sent"

(* Every other controller looks its user up with the password kept along   *)
(* with the token: it finds the user as long as no password was changed    *)
(* since that one was checked, even if changes overlap.                    *)
FreshSessionIsAccepted ==
    \A t \in tokens \ older :
        calls[t].at \in {"ok", "told"} => KeptPassword(t) = password

(* A change sent with the right password and a live token is made, if      *)
(* there is no fault and the server takes the calls up in the order they   *)
(* were sent: the logout that follows at once may otherwise overtake it,   *)
(* and delete the token that says whose password it is.                    *)
InOrder ==
    \A c, d \in DOMAIN calls : c < d /\ calls[d].at # "sent" => calls[c].at # "sent"
Due(c) ==
    /\ c \in DOMAIN calls
    /\ calls[c].kind = "password" /\ calls[c].at = "sent"
    /\ calls[c].token \in tokens /\ calls[c].given = password
    /\ \A d \in 1..(c - 1) : calls[d].at \notin {"sent", "checked", "kept"}
PasswordChanges ==
    [](InOrder /\ faults = 0) =>
        \A c \in 1..MaxCalls :
            Due(c) ~> c \in DOMAIN calls /\ calls[c].at \in {"ok", "told"}
==============================================================================
