--------------------------- MODULE DownlinkProofs ---------------------------
(***************************************************************************)
(* Proofs about Downlink, for every set of statuses and any number of      *)
(* downlinks: type correctness, TxAckTruthful, SendPanicsOnlyAfterTimeout. *)
(*                                                                         *)
(* Nothing in the code relates a reply to a request; IInv says why they    *)
(* belong together all the same: the REQ socket and the handler move in    *)
(* lockstep, and whatever is under way is about the downlink in hand.      *)
(***************************************************************************)
EXTENDS Downlink, TLAPS

(* The socket and the handler: a poll waits on a socket that has sent; the   *)
(* handler that is not polling leaves such a socket behind only by timing    *)
(* out, or when the process ends.                                            *)
Lockstep ==
  /\ command_sock = "send" => dl_pc # "poll" /\ requests = {} /\ replies = {}
  /\ command_sock = "recv" /\ dl_pc \notin {"poll", "ended"} => timed_out
  /\ dl_pc = "send_panicked" => timed_out

(* Whatever is under way is about the downlink in hand.                      *)
OneDownlink ==
  /\ \A id \in requests : id = pull_resp
  /\ \A reply \in replies : reply.id = pull_resp

(* A reply carries the verdict on its frame; a frame that is under way or    *)
(* has yet to be sent has none.                                              *)
VerdictsFaithful ==
  /\ \A reply \in replies : verdict[reply.id] = reply.result
  /\ \A id \in requests : verdict[id] = "none" /\ id <= downlinks
  /\ \A id \in Ids : id > downlinks => verdict[id] = "none"

IInv ==
  /\ TypeOK
  /\ Lockstep
  /\ OneDownlink
  /\ VerdictsFaithful
  /\ TxAckTruthful

-----------------------------------------------------------------------------
(* Lemma: "none" is not a status, so a frame with a status has a verdict.    *)
LEMMA NoneIsNoStatus == "none" \notin TxAckStatus
BY DownlinkAssumption

(* Lemma: the counts of downlinks and what follows from their bound.         *)
LEMMA Counts ==
  /\ MaxDownlinks \in Nat
  /\ 0 \in 0 .. MaxDownlinks
  /\ \A n \in 0 .. MaxDownlinks :
       n \in Nat /\ (n < MaxDownlinks => n + 1 \in Ids /\ n + 1 \in 0 .. MaxDownlinks)
<1>1. MaxDownlinks \in Nat
  BY DownlinkAssumption
<1> QED BY <1>1 DEF Ids

(* Lemma: the initial state satisfies the invariant.                         *)
LEMMA InitHolds == Init => IInv
<1> SUFFICES ASSUME Init PROVE IInv
  OBVIOUS
<1>1. TypeOK
  BY Counts DEF Init, TypeOK, Results
<1>2. Lockstep /\ OneDownlink /\ VerdictsFaithful /\ TxAckTruthful
  BY DEF Init, Lockstep, OneDownlink, VerdictsFaithful, TxAckTruthful
<1> QED BY <1>1, <1>2 DEF IInv

(* Lemma: so does the state of a restart.                                    *)
LEMMA RestartHolds == ASSUME Restart PROVE IInv'
<1>1. TypeOK'
  BY Counts DEF Restart, TypeOK, Results
<1>2. Lockstep' /\ OneDownlink' /\ VerdictsFaithful' /\ TxAckTruthful'
  BY DEF Restart, Lockstep, OneDownlink, VerdictsFaithful, TxAckTruthful
<1> QED BY <1>1, <1>2 DEF IInv

(* Lemma: passing a frame on keeps the invariant.                            *)
LEMMA SendCommandKeeps ==
  ASSUME IInv, NEW txpk \in TxPk, SendCommand(txpk) PROVE IInv'
<1> USE DEF SendCommand, SendAllowed
<1>1. downlinks + 1 \in Ids /\ downlinks \in Nat
  BY Counts DEF IInv, TypeOK
<1>2. requests = {} /\ replies = {}
  BY DEF IInv, Lockstep
<1>3. TypeOK'
  BY <1>1, <1>2, Counts DEF IInv, TypeOK
<1>4. Lockstep' /\ OneDownlink'
  BY <1>2 DEF Lockstep, OneDownlink
<1>5. VerdictsFaithful'
  <2>1. verdict[downlinks + 1] = "none"
    BY <1>1 DEF IInv, VerdictsFaithful
  <2>2. requests' = {downlinks + 1} /\ replies' = {} /\ verdict' = verdict
    BY <1>2
  <2>3. \A id \in Ids : id > downlinks' => verdict'[id] = "none"
    BY <1>1, <2>2 DEF IInv, VerdictsFaithful, Ids
  <2> QED BY <1>1, <2>1, <2>2, <2>3 DEF VerdictsFaithful
<1>6. TxAckTruthful'
  BY DEF IInv, TxAckTruthful
<1> QED BY <1>3, <1>4, <1>5, <1>6 DEF IInv

(* Lemma: the failing unwraps and the end of the process keep the invariant. *)
LEMMA PanicsKeep ==
  ASSUME IInv, Crash \/ \E txpk \in TxPk : ParsePanics(txpk) \/ SendPanics(txpk)
  PROVE  IInv'
<1> USE DEF ParsePanics, SendPanics, SendAllowed, Crash, sockVars
<1>1. TypeOK'
  BY Counts DEF IInv, TypeOK
<1>2. Lockstep' /\ OneDownlink'
  BY DEF IInv, TypeOK, Lockstep, OneDownlink
<1>3. VerdictsFaithful'
  BY DEF IInv, TypeOK, VerdictsFaithful, Ids
<1>4. TxAckTruthful'
  BY DEF IInv, TxAckTruthful
<1> QED BY <1>1, <1>2, <1>3, <1>4 DEF IInv

(* Lemma: receiving the reply keeps the invariant; here the TX_ACK is sent.  *)
LEMMA ReceiveReplyKeeps == ASSUME IInv, ReceiveReply PROVE IInv'
<1> USE DEF ReceiveReply
<1>1. PICK reply \in replies :
        /\ replies' = replies \ {reply}
        /\ tx_acks' = tx_acks \cup
             {[id |-> pull_resp, error |-> Error(status)] :
                status \in {reply.result} \cap TxAckStatus}
  OBVIOUS
<1>2. reply.id = pull_resp /\ verdict[pull_resp] = reply.result
  BY DEF IInv, OneDownlink, VerdictsFaithful
<1>3. pull_resp \in Ids
  BY <1>2 DEF IInv, TypeOK
<1>4. \A ack \in tx_acks' :
        \/ ack \in tx_acks
        \/ /\ reply.result \in TxAckStatus
           /\ ack = [id |-> pull_resp, error |-> Error(reply.result)]
  BY <1>1
<1>5. TypeOK'
  <2>1. tx_acks' \subseteq [id : Ids, error : {Error(s) : s \in TxAckStatus}]
    BY <1>3, <1>4 DEF IInv, TypeOK
  <2> QED BY <1>1, <2>1 DEF IInv, TypeOK
<1>6. requests = {} /\ replies' = {}
  <2>1. \A r \in replies : r.id = reply.id /\ r.result = reply.result
    BY <1>2 DEF IInv, OneDownlink, VerdictsFaithful
  <2>2. \A r \in replies : r = reply
    BY <2>1 DEF IInv, TypeOK
  <2>3. \A id \in requests : id = reply.id /\ verdict[id] = "none"
    BY <1>2 DEF IInv, OneDownlink, VerdictsFaithful
  <2>4. reply.result # "none"
    BY DownlinkAssumption DEF IInv, TypeOK, Results
  <2>5. requests = {}
    BY <1>2, <2>3, <2>4
  <2> QED BY <1>1, <2>2, <2>5
<1>7. Lockstep' /\ OneDownlink'
  BY <1>6 DEF Lockstep, OneDownlink
<1>8. VerdictsFaithful'
  BY <1>1 DEF IInv, VerdictsFaithful
<1>9. TxAckTruthful'
  BY <1>2, <1>4 DEF IInv, TxAckTruthful
<1> QED BY <1>5, <1>7, <1>8, <1>9 DEF IInv

(* Lemma: a reply of the Concentratord, on time or late, keeps the invariant.*)
LEMMA ReplyKeeps ==
  ASSUME IInv, NEW id \in requests, NEW result \in Results, Reply(id, result)
  PROVE  IInv'
<1> USE DEF Reply
<1>1. id \in Ids /\ verdict[id] = "none" /\ id <= downlinks
  BY DEF IInv, TypeOK, VerdictsFaithful
<1>2. verdict \in [Ids -> Results \cup {"none"}]
  BY DEF IInv, TypeOK
<1>3. verdict'[id] = result /\ \A i \in Ids \ {id} : verdict'[i] = verdict[i]
  BY <1>1, <1>2
<1>4. \A reply \in replies : reply.id \in Ids \ {id}
  <2>1. \A reply \in replies : reply.id \in Ids /\ verdict[reply.id] # "none"
    BY DownlinkAssumption DEF IInv, TypeOK, VerdictsFaithful, Results
  <2> QED BY <1>1, <2>1
<1>5. TypeOK'
  BY <1>1, <1>2 DEF IInv, TypeOK
<1>6. Lockstep' /\ OneDownlink'
  BY DEF IInv, Lockstep, OneDownlink
<1>7. VerdictsFaithful'
  <2>1. \A reply \in replies' : verdict'[reply.id] = reply.result
    BY <1>3, <1>4 DEF IInv, VerdictsFaithful
  <2>2. \A i \in requests' : verdict'[i] = "none" /\ i <= downlinks'
    BY <1>3 DEF IInv, TypeOK, VerdictsFaithful
  <2>3. \A i \in Ids : i > downlinks' => verdict'[i] = "none"
    <3>1. SUFFICES ASSUME NEW i \in Ids, i > downlinks PROVE verdict'[i] = "none"
      OBVIOUS
    <3>2. i # id
      BY <1>1, <3>1 DEF IInv, TypeOK, Ids
    <3> QED BY <1>3, <3>1, <3>2 DEF IInv, VerdictsFaithful
  <2> QED BY <2>1, <2>2, <2>3 DEF VerdictsFaithful
<1>8. TxAckTruthful'
  <2>1. \A ack \in tx_acks : ack.id \in Ids \ {id}
    BY <1>1, NoneIsNoStatus DEF IInv, TypeOK, TxAckTruthful
  <2> QED BY <1>3, <2>1 DEF IInv, TxAckTruthful
<1> QED BY <1>5, <1>6, <1>7, <1>8 DEF IInv

(* Lemma: every step keeps the invariant.                                    *)
LEMMA NextKeeps == IInv /\ [Next]_vars => IInv'
<1> SUFFICES ASSUME IInv, [Next]_vars PROVE IInv'
  OBVIOUS
<1>1. ASSUME NEW txpk \in TxPk, SendCommand(txpk) PROVE IInv'
  BY <1>1, SendCommandKeeps
<1>2. ASSUME NEW txpk \in TxPk, ParsePanics(txpk) \/ SendPanics(txpk) PROVE IInv'
  BY <1>2, PanicsKeep
<1>3. CASE ReceiveReply
  BY <1>3, ReceiveReplyKeeps
<1>4. CASE TimeOut
  BY <1>4 DEF TimeOut, sockVars, IInv, TypeOK, Lockstep, OneDownlink,
              VerdictsFaithful, TxAckTruthful
<1>5. ASSUME NEW id \in requests, LoseRequest(id) PROVE IInv'
  BY <1>5 DEF LoseRequest, IInv, TypeOK, Lockstep, OneDownlink,
              VerdictsFaithful, TxAckTruthful
<1>6. ASSUME NEW id \in requests, NEW result \in Results, Reply(id, result)
      PROVE IInv'
  BY <1>6, ReplyKeeps
<1>7. CASE Restart
  BY <1>7, RestartHolds
<1>8. CASE UNCHANGED vars
  BY <1>8 DEF vars, sockVars, IInv, TypeOK, Lockstep, OneDownlink,
              VerdictsFaithful, TxAckTruthful
<1>9. CASE Crash
  BY <1>9, PanicsKeep
<1> QED
  BY <1>1, <1>2, <1>3, <1>4, <1>5, <1>6, <1>7, <1>8, <1>9
     DEF Next, handle_pull_resp, Concentratord

(* The state keeps its types.                                                *)
THEOREM TypeCorrect == Spec => []TypeOK
<1>1. IInv => TypeOK
  BY DEF IInv
<1> QED BY <1>1, InitHolds, NextKeeps, PTL DEF Spec

(* Every TX_ACK reports the reply to the frame it answers, however late the  *)
(* replies and whatever timed out before.                                    *)
THEOREM TxAckIsTruthful == Spec => []TxAckTruthful
<1>1. IInv => TxAckTruthful
  BY DEF IInv
<1> QED BY <1>1, InitHolds, NextKeeps, PTL DEF Spec

(* sock.send fails only after a timeout.                                     *)
THEOREM SendPanicIsAfterTimeout == Spec => []SendPanicsOnlyAfterTimeout
<1>1. IInv => SendPanicsOnlyAfterTimeout
  BY DEF IInv, Lockstep, SendPanicsOnlyAfterTimeout
<1> QED BY <1>1, InitHolds, NextKeeps, PTL DEF Spec
=============================================================================
