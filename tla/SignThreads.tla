------------------------------ MODULE SignThreads ------------------------------
(***************************************************************************)
(* The listener of one signer's ProtocolSign, statement by statement, when *)
(* several threads notify it at the same time: those of JXTA that answer   *)
(* the search and the discovery, and those of the server that publish the  *)
(* messages of other signers of the same peer.  Nothing in ProtocolSign is *)
(* synchronised.  SigmaSigning takes each notification as one step; this   *)
(* module shows what that leaves out.                                      *)
(*                                                                         *)
(* A message that is sent is notified to the listeners of the same peer    *)
(* before sendMessage returns, the sender's own among them, and so are the *)
(* answers of those listeners: a thread that sends is notified again, in   *)
(* calls nested in one another.                                            *)
(***************************************************************************)
EXTENDS Naturals

CONSTANTS N,       \* number of signers; this one is the first
          Threads  \* bound: the threads that notify it at the same time

VARIABLES
    round,    \* the field of ProtocolSign, shared by the threads
    received, \* roundReceived: <<round, signer>>
    status,   \* of the contract
    sent,     \* the messages published: the round they name, and that of their promises
    pc,       \* the statement each thread is at
    local,    \* claimFormed, the round read by round++, that of the promises made
    depth     \* the calls of each thread that wait for sendMessage to return

vars == <<round, received, status, sent, pc, local, depth>>

Others == 2..N
LastRound == N + 2
Labels == {sent_[1] : sent_ \in sent}

TypeOK ==
    /\ round \in 1..(LastRound + 2)
    /\ received \subseteq (1..(N + 1)) \X (1..N)
    /\ status \in {"SIGNING", "FINALIZED"}
    /\ sent \subseteq (1..(LastRound + 2)) \X (1..LastRound)
    /\ pc \in [Threads ->
          {"away", "check", "while", "read", "write", "make", "publish", "sending"}]
    /\ local \in [Threads -> [claimFormed : BOOLEAN, read : Nat, made : Nat]]
    /\ depth \in [Threads -> Nat]

(* The step has sent round 1, when setListenerOnTrent started it. *)
Init ==
    /\ round = 1
    /\ received = {<<1, 1>>}
    /\ status = "SIGNING"
    /\ sent = {<<1, 1>>}
    /\ pc = [t \in Threads |-> "away"]
    /\ local = [t \in Threads |-> [claimFormed |-> FALSE, read |-> 0, made |-> 0]]
    /\ depth = [t \in Threads |-> 0]

Goto(t, label) == pc' = [pc EXCEPT ![t] = label]

(* What the others have published: each sends the promises of round k, or  *)
(* its clear signature, once it holds those of this signer of every round  *)
(* before.                                                                 *)
Published(q, k) == \A j \in 1..(k - 1) : q = 1 \/ <<j, j>> \in sent

(* verifyAndStoreSignature, for a message found at last or found again,    *)
(* or brought by the own sendContract, which then has to wait.  A clear    *)
(* signature of another does not finalize the contract of this first       *)
(* signer: without its own it is not enough, and its own has done so.      *)
Notify(t, q, k) ==
    /\ \/ pc[t] = "away" /\ UNCHANGED depth
       \/ pc[t] = "sending" /\ depth' = [depth EXCEPT ![t] = @ + 1]
    /\ IF q = 1 THEN k \in Labels ELSE Published(q, k)
    /\ received' = IF q # 1 /\ k # LastRound THEN received \cup {<<k, q>>} ELSE received
    /\ Goto(t, "check")
    /\ UNCHANGED <<round, status, sent, local>>

HoldsClaim == round < LastRound => \A q \in 1..N : <<round, q>> \in received

(* claimFormed = true, and false if a promise of the round is missing. *)
Check(t) ==
    /\ pc[t] = "check"
    /\ local' = [local EXCEPT ![t].claimFormed = HoldsClaim]
    /\ Goto(t, "while")
    /\ UNCHANGED <<round, received, status, sent, depth>>

(* The loop goes on, or the notification ends: a nested one goes back to   *)
(* the call that waits for it, which was in its loop with its claim.       *)
GoesOn(t) == round <= N + 1 /\ local[t].claimFormed /\ status = "SIGNING"
While(t) ==
    /\ pc[t] = "while"
    /\ \/ GoesOn(t) /\ Goto(t, "read") /\ UNCHANGED <<local, depth>>
       \/ ~GoesOn(t) /\ depth[t] = 0 /\ Goto(t, "away") /\ UNCHANGED <<local, depth>>
       \/ /\ ~GoesOn(t) /\ depth[t] > 0 /\ Goto(t, "sending")
          /\ depth' = [depth EXCEPT ![t] = @ - 1]
          /\ local' = [local EXCEPT ![t].claimFormed = TRUE]
    /\ UNCHANGED <<round, received, status, sent>>

(* round++ reads the field, and writes it. *)
Read(t) ==
    /\ pc[t] = "read"
    /\ local' = [local EXCEPT ![t].read = round]
    /\ Goto(t, "write")
    /\ UNCHANGED <<round, received, status, sent, depth>>
Write(t) ==
    /\ pc[t] = "write"
    /\ round' = local[t].read + 1
    /\ Goto(t, "make")
    /\ UNCHANGED <<received, status, sent, local, depth>>

(* sendMessage makes the promises of the round, or at the last round the   *)
(* clear signature, with which the contract of the first signer is         *)
(* finalized.  Past the last round it throws, for there is no place to     *)
(* keep the own promise, and so do the calls that wait for it.             *)
Make(t) ==
    /\ pc[t] = "make"
    /\ local' = [local EXCEPT ![t].made = round]
    /\ received' = IF round < LastRound THEN received \cup {<<round, 1>>} ELSE received
    /\ status' = IF round = LastRound THEN "FINALIZED" ELSE status
    /\ \/ round <= LastRound /\ Goto(t, "publish") /\ UNCHANGED depth
       \/ round > LastRound /\ Goto(t, "away") /\ depth' = [depth EXCEPT ![t] = 0]
    /\ UNCHANGED <<round, sent>>

(* Then it names the round and publishes, and notifies the listeners of    *)
(* this peer: Notify, any number of times, until it returns.               *)
Publish(t) ==
    /\ pc[t] = "publish"
    /\ sent' = sent \cup {<<round, local[t].made>>}
    /\ Goto(t, "sending")
    /\ UNCHANGED <<round, received, status, local, depth>>

(* Back from sendMessage, it looks at the claim of the round it is now at: *)
(* only a missing promise changes claimFormed.                             *)
Return(t) ==
    /\ pc[t] = "sending"
    /\ local' = [local EXCEPT ![t].claimFormed = @ /\ HoldsClaim]
    /\ Goto(t, "while")
    /\ UNCHANGED <<round, received, status, sent, depth>>

Next ==
    \E t \in Threads :
        \/ \E q \in 1..N, k \in 1..LastRound : Notify(t, q, k)
        \/ Check(t) \/ While(t) \/ Read(t) \/ Write(t)
        \/ Make(t) \/ Publish(t) \/ Return(t)

Spec == Init /\ [][Next]_vars

------------------------------------------------------------------------------

(* ProtocolSign.java:180: "Send the rounds (if we have the claim needed)". *)
(* A message of round k is sent only against everybody's promises of all   *)
(* the rounds before.                                                      *)
SentWithClaim ==
    \A k \in Labels : \A j \in 1..(k - 1), q \in 1..N : <<j, q>> \in received
==============================================================================
