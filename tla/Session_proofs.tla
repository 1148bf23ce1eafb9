----------------------------- MODULE Session_proofs -----------------------------
(***************************************************************************)
(* Proofs about Session, for any passwords and any number of calls: what a *)
(* logout and a change of the password leave behind, whatever the order in *)
(* which calls are served and answered.                                    *)
(***************************************************************************)
EXTENDS Session, TLAPS

(* The token the page sends is that of a login that was answered. *)
HeaderInv ==
    header # NoToken =>
        header \in DOMAIN calls /\ calls[header].kind = "login" /\ calls[header].at = "told"

(* Only calls that were checked have a token. *)
TokensInv == \A t \in tokens : calls[t].at \notin {"sent", "checked"} /\ calls[t].kind # "logout"

(* A password checked since the last change is right still; so is the one  *)
(* of the last change.                                                     *)
PasswordInv ==
    \A c \in DOMAIN calls \ older :
        /\ calls[c].kind = "login" /\ calls[c].at \in {"checked", "ok", "told"}
              => calls[c].given = password
        /\ calls[c].kind = "password" /\ calls[c].at \in {"ok", "told"}
              => calls[c].new = password

StagesInv ==
    \A c \in DOMAIN calls :
        /\ calls[c].kind = "login" => calls[c].at # "kept"
        /\ calls[c].kind = "logout" => calls[c].at \in {"sent", "told", "refused"}

SessionInv == TypeOK /\ HeaderInv /\ TokensInv /\ PasswordInv /\ StagesInv /\ LogoutEndsSession

------------------------------------------------------------------------------
(* A stage of one call changes. *)
Staged(c, stage) ==
    /\ DOMAIN calls' = DOMAIN calls /\ Len(calls') <= MaxCalls
    /\ calls' \in Seq(CallRecord)
    /\ calls'[c].at = stage
    /\ \A d \in DOMAIN calls : d # c => calls'[d].at = calls[d].at
    /\ \A d \in DOMAIN calls :
          /\ calls'[d].kind = calls[d].kind /\ calls'[d].token = calls[d].token
          /\ calls'[d].given = calls[d].given /\ calls'[d].new = calls[d].new

LEMMA OneStage ==
    ASSUME TypeOK, NEW c \in DOMAIN calls,
           NEW stage \in {"sent", "checked", "kept", "ok", "told", "refused"},
           calls' = [calls EXCEPT ![c].at = stage]
    PROVE  Staged(c, stage)
<1>. DEFINE call == [calls[c] EXCEPT !.at = stage]
<1>1. calls \in Seq(CallRecord) /\ Len(calls) <= MaxCalls /\ calls[c] \in CallRecord
  BY DEF TypeOK
<1>2. /\ call \in CallRecord /\ call.at = stage
      /\ call.kind = calls[c].kind /\ call.token = calls[c].token
      /\ call.given = calls[c].given /\ call.new = calls[c].new
  BY <1>1 DEF CallRecord
<1>3. calls' = [calls EXCEPT ![c] = call]
  OBVIOUS
<1>. HIDE DEF call
<1>. QED  BY <1>1, <1>2, <1>3 DEF Staged

LEMMA EachCall ==
    ASSUME TypeOK, NEW c \in DOMAIN calls
    PROVE  /\ calls[c].kind \in {"login", "logout", "password"}
           /\ calls[c].given \in Passwords /\ calls[c].new \in Passwords
<1>1. calls[c] \in CallRecord
  BY DEF TypeOK
<1>. QED  BY <1>1 DEF CallRecord

(* A call is sent. *)
Sent(call) ==
    /\ DOMAIN calls' = DOMAIN calls \cup {Len(calls) + 1}
    /\ Len(calls) + 1 \notin DOMAIN calls
    /\ Len(calls') <= MaxCalls
    /\ calls' \in Seq(CallRecord)
    /\ calls'[Len(calls) + 1] = call
    /\ \A d \in DOMAIN calls : calls'[d] = calls[d]

LEMMA OneMore ==
    ASSUME TypeOK, NEW call \in CallRecord, Send(call)
    PROVE  Sent(call)
BY SessionAssumption DEF TypeOK, Send, Sent

LEMMA NewCall ==
    ASSUME TypeOK, NEW kind \in {"login", "logout", "password"},
           NEW given \in Passwords, NEW new \in Passwords
    PROVE  /\ Call(kind, given, new) \in CallRecord
           /\ Call(kind, given, new).kind = kind /\ Call(kind, given, new).at = "sent"
           /\ Call(kind, given, new).token = header
BY DEF TypeOK, Call, CallRecord

------------------------------------------------------------------------------
LEMMA SessionStarts ==
    ASSUME Init
    PROVE  SessionInv
<1>1. calls = <<>>
  BY DEF Init
<1>2. <<>> \in Seq(CallRecord) /\ Len(<<>>) = 0
  OBVIOUS
<1>3. DOMAIN calls = {}
  BY <1>1
<1>4. TypeOK
  <2>1. state \in States /\ going \in States \cup {"none"} /\ userid \in BOOLEAN
    BY DEF Init, States
  <2>2. header \in 0..MaxCalls /\ faults \in 0..MaxFaults /\ password \in Passwords
    BY SessionAssumption DEF Init, NoToken
  <2>3. calls \in Seq(CallRecord)
    BY <1>1, <1>2
  <2>4. Len(calls) <= MaxCalls
    BY <1>1, <1>2, SessionAssumption
  <2>5. tokens \subseteq DOMAIN calls /\ older \subseteq DOMAIN calls
    BY DEF Init
  <2>. QED  BY <2>1, <2>2, <2>3, <2>4, <2>5 DEF TypeOK
<1>5. HeaderInv /\ TokensInv /\ PasswordInv /\ StagesInv /\ LogoutEndsSession
  BY <1>3 DEF Init, HeaderInv, TokensInv, PasswordInv, StagesInv, LogoutEndsSession
<1>. QED  BY <1>4, <1>5 DEF SessionInv

(* The page goes somewhere: neither calls nor tokens change. *)
LEMMA PageMoves ==
    ASSUME SessionInv, UNCHANGED <<userid, header, calls, serverVars>>,
           state' \in States, going' \in States \cup {"none"}
    PROVE  SessionInv'
BY DEF SessionInv, TypeOK, HeaderInv, TokensInv, PasswordInv, StagesInv, LogoutEndsSession, serverVars

(* The page sends a call. *)
LEMMA PageSends ==
    ASSUME SessionInv, NEW call \in CallRecord, call.at = "sent", Send(call),
           UNCHANGED <<header, serverVars>>,
           state' \in States, going' \in States \cup {"none"}, userid' \in BOOLEAN,
           userid' = userid \/ (call.kind = "logout" /\ call.token = header)
    PROVE  SessionInv'
<1>1. Sent(call)
  BY OneMore DEF SessionInv
<1>2. TypeOK'
  BY <1>1 DEF Sent, SessionInv, TypeOK, serverVars
<1>3. HeaderInv' /\ TokensInv'
  BY <1>1 DEF Sent, SessionInv, HeaderInv, TokensInv, TypeOK, serverVars
<1>4. PasswordInv' /\ StagesInv'
  <2>. SUFFICES ASSUME NEW c \in DOMAIN calls'
                PROVE  /\ c \notin older =>
                            /\ calls'[c].kind = "login" /\ calls'[c].at \in {"checked", "ok", "told"}
                                  => calls'[c].given = password
                            /\ calls'[c].kind = "password" /\ calls'[c].at \in {"ok", "told"}
                                  => calls'[c].new = password
                       /\ calls'[c].kind = "login" => calls'[c].at # "kept"
                       /\ calls'[c].kind = "logout" => calls'[c].at \in {"sent", "told", "refused"}
    BY DEF PasswordInv, StagesInv, serverVars
  <2>1. CASE c \in DOMAIN calls
    BY <1>1, <2>1 DEF Sent, SessionInv, PasswordInv, StagesInv
  <2>2. CASE c = Len(calls) + 1
    BY <1>1, <2>2 DEF Sent
  <2>. QED  BY <1>1, <2>1, <2>2 DEF Sent
<1>5. LogoutEndsSession'
  <2>1. CASE userid' = userid
    BY <1>1, <2>1 DEF Sent, SessionInv, LogoutEndsSession, serverVars
  <2>2. CASE call.kind = "logout" /\ call.token = header
    BY <1>1, <2>2 DEF Sent, LogoutEndsSession
  <2>. QED  BY <2>1, <2>2
<1>. QED  BY <1>2, <1>3, <1>4, <1>5 DEF SessionInv

LEMMA ArriveStep ==
    ASSUME SessionInv, Arrive
    PROVE  SessionInv'
<1>1. state' \in States /\ going' \in States \cup {"none"}
  BY DEF Arrive, IsUserConnected, SessionInv, TypeOK, States
<1>2. CASE going = "logout"
  BY <1>1, <1>2, NewCall, PageSends, SessionAssumption DEF Arrive, SessionInv
<1>3. CASE going # "logout"
  BY <1>1, <1>3, PageMoves DEF Arrive
<1>. QED  BY <1>2, <1>3

LEMMA SubmitStep ==
    ASSUME SessionInv, NEW given \in Passwords, NEW new \in Passwords,
           SubmitLogin(given) \/ SubmitPassword(given, new)
    PROVE  SessionInv'
<1>1. CASE SubmitLogin(given)
  BY <1>1, NewCall, PageSends DEF SubmitLogin, SessionInv, TypeOK, pageVars
<1>2. CASE SubmitPassword(given, new)
  BY <1>2, NewCall, PageSends DEF SubmitPassword, SessionInv, TypeOK, States
<1>. QED  BY <1>1, <1>2

LEMMA LoginAnsweredStep ==
    ASSUME SessionInv, NEW c \in DOMAIN calls, LoginAnswered(c)
    PROVE  SessionInv'
<1>1. Staged(c, "told") /\ UNCHANGED <<state, serverVars>> /\ calls[c].kind = "login" /\ calls[c].at = "ok"
      /\ header' = c /\ userid' = TRUE /\ going' \in {"myItemsView", "none"}
  BY OneStage DEF LoginAnswered, SessionInv, Toward
<1>2. c \in 1..MaxCalls
  BY SessionAssumption DEF SessionInv, TypeOK
<1>3. TypeOK'
  BY <1>1, <1>2 DEF Staged, SessionInv, TypeOK, States, serverVars
<1>4. HeaderInv' /\ TokensInv' /\ StagesInv'
  BY <1>1 DEF Staged, SessionInv, HeaderInv, TokensInv, StagesInv, TypeOK, serverVars
<1>5. PasswordInv'
  BY <1>1 DEF Staged, SessionInv, PasswordInv, serverVars
<1>6. LogoutEndsSession'
  BY <1>1 DEF LogoutEndsSession
<1>. QED  BY <1>3, <1>4, <1>5, <1>6 DEF SessionInv

LEMMA PasswordAnsweredStep ==
    ASSUME SessionInv, NEW c \in DOMAIN calls, PasswordAnswered(c)
    PROVE  SessionInv'
<1>1. Staged(c, "told") /\ UNCHANGED <<state, userid, header, serverVars>>
      /\ calls[c].kind = "password" /\ calls[c].at = "ok" /\ going' \in {"settings", "none"}
  BY OneStage DEF PasswordAnswered, SessionInv, Toward
<1>2. TypeOK'
  BY <1>1 DEF Staged, SessionInv, TypeOK, States, serverVars
<1>3. HeaderInv' /\ TokensInv' /\ StagesInv'
  BY <1>1 DEF Staged, SessionInv, HeaderInv, TokensInv, StagesInv, TypeOK, serverVars
<1>4. PasswordInv'
  BY <1>1 DEF Staged, SessionInv, PasswordInv, serverVars
<1>5. LogoutEndsSession'
  BY <1>1 DEF Staged, SessionInv, LogoutEndsSession, serverVars
<1>. QED  BY <1>2, <1>3, <1>4, <1>5 DEF SessionInv

LEMMA CheckStep ==
    ASSUME SessionInv, NEW c \in DOMAIN calls, Check(c)
    PROVE  SessionInv'
<1>1. /\ calls[c].at = "sent" /\ calls[c].kind # "logout" /\ UNCHANGED <<pageVars, serverVars>>
      /\ \/ Staged(c, "checked") /\ calls[c].given = password
         \/ Staged(c, "refused")
  BY OneStage DEF Check, SessionInv
<1>2. TypeOK'
  BY <1>1 DEF Staged, SessionInv, TypeOK, pageVars, serverVars
<1>3. HeaderInv' /\ TokensInv' /\ StagesInv'
  BY <1>1 DEF Staged, SessionInv, HeaderInv, TokensInv, StagesInv, TypeOK, pageVars, serverVars
<1>4. PasswordInv'
  BY <1>1 DEF Staged, SessionInv, PasswordInv, serverVars
<1>5. LogoutEndsSession'
  BY <1>1 DEF Staged, SessionInv, LogoutEndsSession, pageVars, serverVars
<1>. QED  BY <1>2, <1>3, <1>4, <1>5 DEF SessionInv

(* The new token is not the one of the page, which is an older one. *)
LEMMA GetTokenStep ==
    ASSUME SessionInv, NEW c \in DOMAIN calls, GetToken(c)
    PROVE  SessionInv'
<1>1. /\ calls[c].at = "checked" /\ tokens' = tokens \cup {c}
      /\ UNCHANGED <<pageVars, password, older, faults>>
      /\ \/ Staged(c, "ok") /\ calls[c].kind = "login"
         \/ Staged(c, "kept") /\ calls[c].kind # "login"
  BY OneStage DEF GetToken, SessionInv
<1>2. calls[c].kind \in {"login", "password"}
  BY <1>1, EachCall DEF SessionInv, StagesInv
<1>3. TypeOK'
  BY <1>1 DEF Staged, SessionInv, TypeOK, pageVars
<1>4. HeaderInv' /\ TokensInv' /\ StagesInv'
  BY <1>1, <1>2 DEF Staged, SessionInv, HeaderInv, TokensInv, StagesInv, TypeOK, pageVars
<1>5. PasswordInv'
  BY <1>1, <1>2 DEF Staged, SessionInv, PasswordInv
<1>6. header # c
  BY <1>1 DEF SessionInv, HeaderInv, TypeOK, NoToken
<1>7. LogoutEndsSession'
  BY <1>1, <1>2, <1>6 DEF Staged, SessionInv, LogoutEndsSession, pageVars
<1>. QED  BY <1>3, <1>4, <1>5, <1>7 DEF SessionInv

(* After a change every password checked before is older, but the new one. *)
LEMMA CommitPasswordStep ==
    ASSUME SessionInv, NEW c \in DOMAIN calls, CommitPassword(c)
    PROVE  SessionInv'
<1>1. /\ calls[c].at = "kept" /\ Staged(c, "ok") /\ password' = calls[c].new
      /\ older' = {d \in DOMAIN calls : calls[d].at # "sent"} \ {c}
      /\ UNCHANGED <<pageVars, tokens, faults>>
  BY OneStage DEF CommitPassword, SessionInv
<1>2. calls[c].kind = "password"
  BY <1>1, EachCall DEF SessionInv, StagesInv
<1>3. TypeOK'
  <2>1. calls[c].new \in Passwords
    BY EachCall DEF SessionInv
  <2>. QED  BY <1>1, <2>1 DEF Staged, SessionInv, TypeOK, pageVars
<1>4. HeaderInv' /\ TokensInv' /\ StagesInv'
  BY <1>1, <1>2 DEF Staged, SessionInv, HeaderInv, TokensInv, StagesInv, TypeOK, pageVars
<1>5. PasswordInv'
  BY <1>1, <1>2 DEF Staged, PasswordInv
<1>6. LogoutEndsSession'
  BY <1>1, <1>2 DEF Staged, SessionInv, LogoutEndsSession, pageVars
<1>. QED  BY <1>3, <1>4, <1>5, <1>6 DEF SessionInv

LEMMA CommitFailsStep ==
    ASSUME SessionInv, NEW c \in DOMAIN calls, CommitFails(c)
    PROVE  SessionInv'
<1>1. /\ calls[c].at = "kept" /\ Staged(c, "refused")
      /\ faults' \in 0..MaxFaults /\ UNCHANGED <<pageVars, password, tokens, older>>
  <2>1. calls[c].at = "kept" /\ Staged(c, "refused")
    BY OneStage DEF CommitFails, SessionInv
  <2>2. faults' \in 0..MaxFaults
    BY SessionAssumption DEF CommitFails, SessionInv, TypeOK
  <2>. QED  BY <2>1, <2>2 DEF CommitFails
<1>2. calls[c].kind = "password"
  BY <1>1, EachCall DEF SessionInv, StagesInv
<1>3. TypeOK'
  BY <1>1 DEF Staged, SessionInv, TypeOK, pageVars
<1>4. HeaderInv' /\ TokensInv' /\ StagesInv'
  BY <1>1, <1>2 DEF Staged, SessionInv, HeaderInv, TokensInv, StagesInv, TypeOK, pageVars
<1>5. PasswordInv'
  BY <1>1, <1>2 DEF Staged, SessionInv, PasswordInv
<1>6. LogoutEndsSession'
  BY <1>1, <1>2 DEF Staged, SessionInv, LogoutEndsSession, pageVars
<1>. QED  BY <1>3, <1>4, <1>5, <1>6 DEF SessionInv

LEMMA DeleteTokenStep ==
    ASSUME SessionInv, NEW c \in DOMAIN calls, DeleteToken(c)
    PROVE  SessionInv'
<1>1. /\ calls[c].kind = "logout" /\ calls[c].at = "sent" /\ Staged(c, "told")
      /\ tokens' = tokens \ {calls[c].token} /\ UNCHANGED <<pageVars, password, older, faults>>
  BY OneStage DEF DeleteToken, SessionInv
<1>2. TypeOK'
  BY <1>1 DEF Staged, SessionInv, TypeOK, pageVars
<1>3. HeaderInv' /\ TokensInv' /\ StagesInv'
  BY <1>1 DEF Staged, SessionInv, HeaderInv, TokensInv, StagesInv, TypeOK, pageVars
<1>4. PasswordInv'
  BY <1>1 DEF Staged, SessionInv, PasswordInv
<1>5. LogoutEndsSession'
  BY <1>1 DEF Staged, SessionInv, LogoutEndsSession, pageVars
<1>. QED  BY <1>2, <1>3, <1>4, <1>5 DEF SessionInv

LEMMA RestartStep ==
    ASSUME SessionInv, Restart
    PROVE  SessionInv'
<1>1. /\ tokens' = {} /\ UNCHANGED <<pageVars, password, older>> /\ faults' \in 0..MaxFaults
      /\ calls' = [c \in DOMAIN calls |->
                      IF calls[c].at \in {"sent", "checked", "kept"}
                      THEN [calls[c] EXCEPT !.at = "refused"] ELSE calls[c]]
  BY SessionAssumption DEF Restart, SessionInv, TypeOK
<1>2. calls \in Seq(CallRecord) /\ Len(calls) <= MaxCalls /\ DOMAIN calls = 1..Len(calls)
      /\ \A c \in DOMAIN calls : calls[c] \in CallRecord
  BY DEF SessionInv, TypeOK
<1>3. \A c \in DOMAIN calls :
         LET r == [calls[c] EXCEPT !.at = "refused"]
         IN  /\ r \in CallRecord /\ r.at = "refused" /\ r.kind = calls[c].kind
             /\ r.given = calls[c].given /\ r.new = calls[c].new
  BY <1>2 DEF CallRecord
<1>4. DOMAIN calls' = DOMAIN calls
  BY <1>1
<1>5. \A c \in DOMAIN calls :
         /\ calls'[c] \in CallRecord
         /\ \/ calls'[c] = calls[c] /\ calls[c].at \notin {"sent", "checked", "kept"}
            \/ /\ calls'[c].at = "refused" /\ calls'[c].kind = calls[c].kind
               /\ calls[c].at \in {"sent", "checked", "kept"}
  BY <1>1, <1>2, <1>3
<1>6. calls' \in Seq(CallRecord) /\ Len(calls') <= MaxCalls
  <2>1. Len(calls) \in Nat /\ calls' = [c \in 1..Len(calls) |-> calls'[c]]
    BY <1>1, <1>2
  <2>2. calls' \in [1..Len(calls) -> CallRecord]
    BY <1>2, <1>5, <2>1
  <2>3. calls' \in Seq(CallRecord)
    BY <2>1, <2>2
  <2>4. Len(calls') = Len(calls)
    BY <1>2, <1>4, <2>1, <2>3
  <2>. QED  BY <1>2, <2>3, <2>4
<1>7. TypeOK'
  BY <1>1, <1>4, <1>6 DEF SessionInv, TypeOK, pageVars
<1>8. HeaderInv' /\ TokensInv' /\ StagesInv' /\ LogoutEndsSession'
  BY <1>1, <1>4, <1>5 DEF SessionInv, HeaderInv, TokensInv, StagesInv, LogoutEndsSession, pageVars
<1>9. PasswordInv'
  BY <1>1, <1>4, <1>5 DEF SessionInv, PasswordInv
<1>. QED  BY <1>7, <1>8, <1>9 DEF SessionInv

LEMMA SessionStep ==
    ASSUME SessionInv, Next
    PROVE  SessionInv'
<1>1. ASSUME NEW s \in States, Go(s) PROVE SessionInv'
  BY <1>1, PageMoves DEF Go, Toward, SessionInv, TypeOK
<1>2. CASE Arrive
  BY <1>2, ArriveStep
<1>3. ASSUME NEW given \in Passwords, SubmitLogin(given) PROVE SessionInv'
  BY <1>3, SubmitStep
<1>4. ASSUME NEW given \in Passwords, NEW new \in Passwords, SubmitPassword(given, new)
      PROVE  SessionInv'
  BY <1>4, SubmitStep
<1>5. ASSUME NEW c \in DOMAIN calls, LoginAnswered(c) \/ PasswordAnswered(c) PROVE SessionInv'
  BY <1>5, LoginAnsweredStep, PasswordAnsweredStep
<1>6. ASSUME NEW c \in DOMAIN calls, Serve(c) PROVE SessionInv'
  BY <1>6, CheckStep, GetTokenStep, CommitPasswordStep, DeleteTokenStep DEF Serve
<1>7. ASSUME NEW c \in DOMAIN calls, CommitFails(c) PROVE SessionInv'
  BY <1>7, CommitFailsStep
<1>8. CASE Restart
  BY <1>8, RestartStep
<1>. QED  BY <1>1, <1>2, <1>3, <1>4, <1>5, <1>6, <1>7, <1>8 DEF Next

------------------------------------------------------------------------------
(* The page and the server agree on what the tokens are worth, in whatever *)
(* order calls are served and answered.                                    *)
THEOREM SessionInvariant == Spec => []SessionInv
<1>1. Init => SessionInv
  BY SessionStarts
<1>2. SessionInv /\ [Next]_vars => SessionInv'
  <2>1. CASE Next
    BY <2>1, SessionStep
  <2>2. CASE UNCHANGED vars
    BY <2>2 DEF vars, pageVars, serverVars, SessionInv, TypeOK, HeaderInv, TokensInv, PasswordInv,
                StagesInv, LogoutEndsSession
  <2>. QED  BY <2>1, <2>2
<1>. QED  BY <1>1, <1>2, PTL DEF Spec

THEOREM SessionTypeCorrect == Spec => []TypeOK
BY SessionInvariant, PTL DEF SessionInv

(* "You are succesfully logged out": the token that a page without a user  *)
(* still sends is dead, or its deletion is on its way.                     *)
THEOREM SessionLogoutEnds == Spec => []LogoutEndsSession
BY SessionInvariant, PTL DEF SessionInv

(* A token whose password was checked, or set, after the last change finds *)
(* its user.                                                               *)
THEOREM SessionFreshIsAccepted == Spec => []FreshSessionIsAccepted
<1>1. SessionInv => FreshSessionIsAccepted
  <2>. SUFFICES ASSUME SessionInv, NEW t \in tokens \ older, calls[t].at \in {"ok", "told"}
                PROVE  KeptPassword(t) = password
    BY DEF FreshSessionIsAccepted
  <2>1. t \in DOMAIN calls \ older
    BY DEF SessionInv, TypeOK
  <2>2. calls[t].kind \in {"login", "password"}
    BY <2>1, EachCall DEF SessionInv, TokensInv
  <2>. QED  BY <2>1, <2>2 DEF SessionInv, PasswordInv, KeptPassword
<1>. QED  BY <1>1, SessionInvariant, PTL
==============================================================================
