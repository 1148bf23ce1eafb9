------------------------- MODULE SignThreads_proofs -------------------------
(***************************************************************************)
(* The listener of ProtocolSign with one thread, for any number of         *)
(* signers and whatever it is notified of while it sends: it sends what    *)
(* SigmaSigning says it sends.  What goes wrong with several threads is    *)
(* thus due to their interleaving, not to the nested notifications.        *)
(*                                                                         *)
(* The argument.  A nested notification begins once the message is         *)
(* published and ends before its sender looks at the claim again.  So      *)
(* from the statement that sees a claim complete to the one that leaves    *)
(* its round nothing changes the round, and promises are only ever added:  *)
(* the claim is complete when the round is left.                           *)
(***************************************************************************)
EXTENDS SignThreads, TLAPS

OneThread == \A t, u \in Threads : t = u

Complete(k) == \A q \in 1..N : <<k, q>> \in received

(* What the thread knows at each statement. *)
Knows(t) ==
    /\ pc[t] = "while" /\ local[t].claimFormed => HoldsClaim
    /\ pc[t] \in {"read", "write"} => round < LastRound /\ Complete(round)
    /\ pc[t] = "write" => local[t].read = round
    /\ pc[t] = "publish" => local[t].made = round

ThreadInv ==
    /\ TypeOK
    /\ round <= LastRound
    /\ \A m \in sent : m[1] = m[2] /\ m[1] <= round
    /\ \A k \in 1..(round - 1) : Complete(k)
    /\ \A t \in Threads : Knows(t)

LEMMA ThreadStep ==
    ASSUME N \in Nat \ {0}, OneThread, ThreadInv, [Next]_vars
    PROVE  ThreadInv'
<1> USE DEF OneThread, ThreadInv, TypeOK, Knows, Complete, HoldsClaim, LastRound, Goto
<1>1. ASSUME NEW t \in Threads, NEW q \in 1..N, NEW k \in 1..LastRound, Notify(t, q, k)
      PROVE  ThreadInv'
    BY <1>1 DEF Notify
<1>2. ASSUME NEW t \in Threads, Check(t) PROVE ThreadInv'
    <2> DEFINE formed == HoldsClaim
    <2>1. formed \in BOOLEAN
        OBVIOUS
    <2>2. /\ local' = [local EXCEPT ![t].claimFormed = formed]
          /\ pc' = [pc EXCEPT ![t] = "while"]
          /\ UNCHANGED <<round, received, status, sent, depth>>
        BY <1>2 DEF Check
    <2>3. HoldsClaim' = formed
        BY <2>2
    <2> HIDE DEF formed, HoldsClaim
    <2>4. TypeOK'
        BY <2>1, <2>2
    <2>5. \A u \in Threads : Knows(u)'
        BY <2>1, <2>2, <2>3
    <2> QED BY <2>2, <2>4, <2>5
<1>3. ASSUME NEW t \in Threads, While(t) PROVE ThreadInv'
    <2>1. CASE GoesOn(t) /\ Goto(t, "read") /\ UNCHANGED <<local, depth>>
        BY <1>3, <2>1 DEF While, GoesOn
    <2>2. CASE Goto(t, "away") /\ UNCHANGED <<local, depth>>
        BY <1>3, <2>2 DEF While
    <2>3. CASE /\ depth[t] > 0 /\ Goto(t, "sending")
               /\ depth' = [depth EXCEPT ![t] = @ - 1]
               /\ local' = [local EXCEPT ![t].claimFormed = TRUE]
        <3>1. pc[t] = "while" /\ UNCHANGED <<round, received, status, sent>>
            BY <1>3 DEF While
        <3>2. depth' \in [Threads -> Nat]
            BY <2>3
        <3>3. local' \in [Threads -> [claimFormed : BOOLEAN, read : Nat, made : Nat]]
            BY <2>3
        <3>4. TypeOK'
            BY <2>3, <3>1, <3>2, <3>3
        <3>5. \A u \in Threads : Knows(u)'
            BY <2>3, <3>1
        <3> QED BY <3>1, <3>4, <3>5
    <2> QED BY <1>3, <2>1, <2>2, <2>3 DEF While
<1>4. ASSUME NEW t \in Threads, Read(t) PROVE ThreadInv'
    BY <1>4 DEF Read
<1>5. ASSUME NEW t \in Threads, Write(t) PROVE ThreadInv'
    <2>1. /\ pc[t] = "write" /\ round' = round + 1 /\ pc' = [pc EXCEPT ![t] = "make"]
          /\ UNCHANGED <<received, status, sent, local, depth>>
        BY <1>5 DEF Write
    <2>2. round < LastRound /\ Complete(round)
        BY <2>1
    <2>3. TypeOK' /\ (round <= LastRound)'
        BY <2>1, <2>2
    <2>4. \A k \in 1..(round' - 1) : k = round \/ k \in 1..(round - 1)
        BY <2>1
    <2>5. \A k \in 1..(round' - 1) : Complete(k)'
        BY <2>1, <2>2, <2>4
    <2>6. \A u \in Threads : Knows(u)'
        BY <2>1
    <2>7. (\A m \in sent : m[1] = m[2] /\ m[1] <= round)'
        BY <2>1
    <2> QED BY <2>3, <2>5, <2>6, <2>7
<1>6. ASSUME NEW t \in Threads, Make(t) PROVE ThreadInv'
    BY <1>6 DEF Make
<1>7. ASSUME NEW t \in Threads, Publish(t) PROVE ThreadInv'
    <2>1. /\ pc[t] = "publish" /\ pc' = [pc EXCEPT ![t] = "sending"]
          /\ sent' = sent \cup {<<round, local[t].made>>}
          /\ UNCHANGED <<round, received, status, local, depth>>
        BY <1>7 DEF Publish
    <2>2. local[t].made = round /\ round \in 1..LastRound
        BY <2>1
    <2>3. TypeOK'
        BY <2>1, <2>2
    <2>4. (\A m \in sent : m[1] = m[2] /\ m[1] <= round)'
        BY <2>1, <2>2
    <2>5. \A u \in Threads : Knows(u)'
        BY <2>1
    <2> QED BY <2>1, <2>3, <2>4, <2>5
<1>8. ASSUME NEW t \in Threads, Return(t) PROVE ThreadInv'
    <2> DEFINE formed == local[t].claimFormed /\ HoldsClaim
    <2>1. formed \in BOOLEAN
        OBVIOUS
    <2>2. /\ pc[t] = "sending" /\ pc' = [pc EXCEPT ![t] = "while"]
          /\ local' = [local EXCEPT ![t].claimFormed = formed]
          /\ UNCHANGED <<round, received, status, sent, depth>>
        BY <1>8 DEF Return
    <2>3. HoldsClaim' = HoldsClaim /\ (formed => HoldsClaim)
        BY <2>2
    <2> HIDE DEF formed, HoldsClaim
    <2>4. TypeOK'
        BY <2>1, <2>2
    <2>5. \A u \in Threads : Knows(u)'
        BY <2>1, <2>2, <2>3
    <2> QED BY <2>2, <2>4, <2>5
<1>9. CASE UNCHANGED vars
    BY <1>9 DEF vars
<1> QED BY <1>1, <1>2, <1>3, <1>4, <1>5, <1>6, <1>7, <1>8, <1>9 DEF Next

(* ProtocolSign.java: a listener that is notified by one thread alone, and *)
(* again by that thread while it sends (JxtaEstablisherService 105-109),   *)
(* sends a message of a round only against everybody's promises of all the *)
(* rounds before, and the promises in it are of the round that it names.   *)
THEOREM OneThreadSendsWithClaim ==
    ASSUME N \in Nat \ {0}, OneThread
    PROVE  Spec => [](SentWithClaim /\ \A m \in sent : m[1] = m[2])
<1>1. Init => ThreadInv
    BY DEF Init, ThreadInv, TypeOK, Knows, LastRound
<1>2. ThreadInv /\ [Next]_vars => ThreadInv'
    BY ThreadStep
<1>3. ThreadInv => SentWithClaim /\ \A m \in sent : m[1] = m[2]
    BY DEF ThreadInv, TypeOK, SentWithClaim, Labels, Complete
<1> QED BY <1>1, <1>2, <1>3, PTL DEF Spec
==============================================================================
