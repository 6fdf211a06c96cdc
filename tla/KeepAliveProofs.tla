--------------------------- MODULE KeepAliveProofs ---------------------------
(***************************************************************************)
(* Proofs about KeepAlive, for every set of tokens, limit and counter      *)
(* width: type correctness, StopJustified and StopDue.                     *)
(*                                                                         *)
(* Neither of the last two is inductive: they speak of the history of the  *)
(* checks, the code of missed_acks and of two tokens.  IInv relates them.  *)
(***************************************************************************)
EXTENDS KeepAlive, TLAPS

Limited == keepalive_max_failures # 0
Ordered == "reordering" \notin Faults

(* The counter stays below the limit while the thread goes on, so it cannot  *)
(* wrap, and passes it where the thread gives up.                            *)
CounterBounded ==
  /\ Limited /\ pull_pc \in {"check", "send", "sleep"}
       => missed_acks <= keepalive_max_failures
  /\ pull_pc = "signal" => Limited /\ missed_acks > keepalive_max_failures

(* A frame without an answer shows as two different tokens: a PULL_ACK of an *)
(* earlier frame cannot carry the token sent last unless the token collided. *)
SilenceVisible ==
  ~answered /\ ~collided =>
    /\ pull_data_token # pull_data_token_acked
    /\ \A m \in pull_acks : m.current \/ m.token # pull_data_token

(* An answer shows as two equal tokens, and in an ordered network no older   *)
(* PULL_ACK is left that could overwrite the token again.                    *)
AnswerVisible ==
  /\ \A m \in pull_acks : m.current => m.token = pull_data_token
  /\ Ordered /\ answered =>
       /\ pull_data_token = pull_data_token_acked
       /\ \A m \in pull_acks : m.current

(* The counter is between the two histories of unanswered frames.            *)
CounterFaithful ==
  /\ Limited /\ pull_pc \in {"check", "send", "sleep"} => silent <= missed_acks
  /\ Ordered /\ Limited /\ pull_pc \in {"check", "send", "sleep", "signal"}
       => missed_acks <= unanswered

IInv ==
  /\ TypeOK
  /\ CounterBounded
  /\ SilenceVisible
  /\ AnswerVisible
  /\ CounterFaithful

-----------------------------------------------------------------------------
(* Lemma: counting a missed frame below the limit never wraps, so the        *)
(* counter grows by exactly one.                                             *)
LEMMA NoWrap ==
  ASSUME missed_acks \in Nat, missed_acks <= keepalive_max_failures
  PROVE  (missed_acks + 1) % U32 = missed_acks + 1
<1> DEFINE n == missed_acks + 1
<1>1. n \in Nat /\ U32 \in Nat /\ n < U32
  BY KeepAliveAssumption
<1>2. \A a, b \in Nat : a < b => a % b = a
  BY SMT
<1> QED BY <1>1, <1>2

(* Lemma: the counter of pull_data_loop stays a u32.                         *)
LEMMA CountMissedType == ASSUME TypeOK PROVE CountMissed \in 0 .. U32 - 1
<1>1. (missed_acks + 1) % U32 \in 0 .. U32 - 1
  BY KeepAliveAssumption DEF TypeOK
<1>2. 0 \in 0 .. U32 - 1
  BY KeepAliveAssumption
<1> QED BY <1>1, <1>2 DEF CountMissed

(* Lemma: where the loop of start() begins, everything the invariant says    *)
(* holds, whatever went before.                                              *)
LEMMA FreshState == Init => IInv
<1> SUFFICES ASSUME Init PROVE IInv
  OBVIOUS
<1>1. 0 \in 0 .. U32 - 1 /\ 0 \in 0 .. keepalive_max_failures + 1
  BY KeepAliveAssumption
<1>2. TypeOK
  BY <1>1, KeepAliveAssumption DEF Init, TypeOK
<1>3. CounterBounded /\ SilenceVisible /\ AnswerVisible /\ CounterFaithful
  BY KeepAliveAssumption
     DEF Init, CounterBounded, SilenceVisible, AnswerVisible, CounterFaithful
<1> QED BY <1>2, <1>3 DEF IInv

(* Lemma: a check of the tokens keeps the invariant.  This is the step where *)
(* the two histories and the counter move together.                          *)
LEMMA CheckAckedKeeps == ASSUME IInv, CheckAcked PROVE IInv'
<1> USE DEF CheckAcked, netVars
<1>1. TypeOK'
  <2>1. missed_acks' \in 0 .. U32 - 1
    BY CountMissedType DEF IInv
  <2>2. OneMore(unanswered) \in 0 .. keepalive_max_failures + 1
    BY KeepAliveAssumption DEF IInv, TypeOK, OneMore
  <2>3. OneMore(silent) \in 0 .. keepalive_max_failures + 1
    BY KeepAliveAssumption DEF IInv, TypeOK, OneMore
  <2>4. 0 \in 0 .. keepalive_max_failures + 1
    BY KeepAliveAssumption
  <2> QED BY <2>1, <2>2, <2>3, <2>4 DEF IInv, TypeOK
<1>2. Limited => missed_acks' = IF Missed THEN missed_acks + 1 ELSE 0
  BY NoWrap, KeepAliveAssumption
     DEF IInv, TypeOK, CounterBounded, CountMissed, Limited
<1>3. missed_acks \in Nat /\ missed_acks' \in Nat
  BY <1>1 DEF IInv, TypeOK
<1>4. CounterBounded'
  BY <1>3, KeepAliveAssumption DEF GivesUp, CounterBounded, Limited
<1>5. SilenceVisible' /\ AnswerVisible'
  BY DEF IInv, SilenceVisible, AnswerVisible
<1>6. ASSUME Limited PROVE silent' <= missed_acks'
  <2>1. CASE answered \/ collided
    BY <2>1, <1>3
  <2>2. CASE ~(answered \/ collided)
    <3>1. Missed
      BY <2>2 DEF IInv, SilenceVisible, Missed
    <3>2. silent <= missed_acks
      BY <1>6 DEF IInv, CounterFaithful
    <3>3. silent' <= silent + 1
      BY <2>2, KeepAliveAssumption DEF OneMore, IInv, TypeOK
    <3>4. silent \in Nat /\ silent' \in Nat
      BY <1>1, KeepAliveAssumption DEF IInv, TypeOK
    <3> QED BY <1>2, <1>3, <1>6, <3>1, <3>2, <3>3, <3>4
  <2> QED BY <2>1, <2>2
<1>7. ASSUME Ordered, Limited PROVE missed_acks' <= unanswered'
  <2>0. unanswered \in Nat /\ unanswered' \in Nat
    BY <1>1, KeepAliveAssumption DEF IInv, TypeOK
  <2>1. CASE answered
    BY <2>1, <1>2, <1>7, <2>0 DEF IInv, AnswerVisible, Missed
  <2>2. CASE ~answered
    <3>1. missed_acks <= unanswered /\ missed_acks <= keepalive_max_failures
      BY <1>7 DEF IInv, CounterFaithful, CounterBounded
    <3>2. unanswered' >= missed_acks + 1
      BY <2>0, <2>2, <1>3, <3>1, KeepAliveAssumption DEF OneMore
    <3> QED BY <1>2, <1>3, <1>7, <2>0, <3>2
  <2> QED BY <2>1, <2>2
<1>8. CounterFaithful'
  BY <1>6, <1>7 DEF CounterFaithful, Limited
<1> QED BY <1>1, <1>4, <1>5, <1>8 DEF IInv

(* Lemma: sending a frame keeps the invariant.                               *)
LEMMA SendPullDataKeeps == ASSUME IInv, SendPullData PROVE IInv'
<1> USE DEF SendPullData, countVars
<1>1. PICK token \in Tokens, answer \in BOOLEAN :
        /\ pull_data_token' = token
        /\ collided' = (\/ token = pull_data_token_acked
                        \/ \E m \in pull_acks : m.token = token)
        /\ pull_acks' = Aged(pull_acks)
             \cup {m \in {[token |-> token, current |-> TRUE]} : answer}
  OBVIOUS
<1>2. \A m \in Aged(pull_acks) :
        m \in PullAck /\ ~m.current /\ \E n \in pull_acks : n.token = m.token
  BY DEF IInv, TypeOK, Aged, PullAck
<1>3. \A m \in pull_acks' :
        \/ m \in Aged(pull_acks)
        \/ m = [token |-> token, current |-> TRUE]
  BY <1>1
<1>4. TypeOK'
  <2>1. pull_acks' \subseteq PullAck
    <3>1. [token |-> token, current |-> TRUE] \in PullAck
      BY DEF PullAck
    <3> QED BY <1>2, <1>3, <3>1
  <2> QED BY <1>1, <2>1 DEF IInv, TypeOK
<1>5. CounterBounded' /\ CounterFaithful'
  BY DEF IInv, CounterBounded, CounterFaithful
<1>6. SilenceVisible'
  <2>1. SUFFICES ASSUME ~collided'
                 PROVE  /\ pull_data_token' # pull_data_token_acked'
                        /\ \A m \in pull_acks' :
                             m.current \/ m.token # pull_data_token'
    BY DEF SilenceVisible
  <2>2. token # pull_data_token_acked /\ \A m \in pull_acks : m.token # token
    BY <1>1, <2>1
  <2> QED BY <1>1, <1>2, <1>3, <2>2
<1>7. AnswerVisible'
  BY <1>1, <1>2, <1>3 DEF AnswerVisible
<1> QED BY <1>4, <1>5, <1>6, <1>7 DEF IInv

(* Lemma: a PULL_ACK that arrives keeps the invariant, whichever frame it    *)
(* answers.                                                                  *)
LEMMA PullAckKeeps ==
  ASSUME IInv, NEW m \in pull_acks, handle_pull_ack(m) PROVE IInv'
<1> USE DEF handle_pull_ack, countVars
<1>1. pull_acks' \subseteq pull_acks
  BY DEF Remains
<1>2. TypeOK'
  BY <1>1 DEF IInv, TypeOK, PullAck
<1>3. CounterBounded' /\ CounterFaithful'
  BY DEF IInv, CounterBounded, CounterFaithful
<1>4. SilenceVisible'
  BY <1>1 DEF IInv, SilenceVisible
<1>5. AnswerVisible'
  BY <1>1 DEF IInv, TypeOK, AnswerVisible, Deliverable, Remains, Ordered
<1> QED BY <1>2, <1>3, <1>4, <1>5 DEF IInv

(* Lemma: every step keeps the invariant.                                    *)
LEMMA NextKeeps == IInv /\ [Next]_vars => IInv'
<1> SUFFICES ASSUME IInv, [Next]_vars PROVE IInv'
  OBVIOUS
<1>1. CASE CheckAcked
  BY <1>1, CheckAckedKeeps
<1>2. CASE SendPullData
  BY <1>2, SendPullDataKeeps
<1>3. CASE Wake
  BY <1>3 DEF Wake, netVars, countVars, IInv, TypeOK, CounterBounded,
              SilenceVisible, AnswerVisible, CounterFaithful
<1>4. CASE Terminate
  BY <1>4 DEF Terminate, netVars, countVars, IInv, TypeOK, CounterBounded,
              SilenceVisible, AnswerVisible, CounterFaithful
<1>5. ASSUME NEW m \in pull_acks, handle_pull_ack(m) PROVE IInv'
  BY <1>5, PullAckKeeps
<1>6. CASE Start
  <2>0. 0 \in 0 .. U32 - 1 /\ 0 \in 0 .. keepalive_max_failures + 1
    BY KeepAliveAssumption
  <2>1. TypeOK'
    BY <1>6, <2>0, KeepAliveAssumption DEF Start, TypeOK
  <2>2. CounterBounded' /\ SilenceVisible' /\ AnswerVisible' /\ CounterFaithful'
    BY <1>6, KeepAliveAssumption
       DEF Start, CounterBounded, SilenceVisible, AnswerVisible, CounterFaithful
  <2> QED BY <2>1, <2>2 DEF IInv
<1>7. CASE Crash
  BY <1>7 DEF Crash, netVars, countVars, IInv, TypeOK, CounterBounded,
              SilenceVisible, AnswerVisible, CounterFaithful
<1>8. CASE UNCHANGED vars
  BY <1>8 DEF vars, netVars, countVars, IInv, TypeOK, CounterBounded,
              SilenceVisible, AnswerVisible, CounterFaithful
<1> QED
  BY <1>1, <1>2, <1>3, <1>4, <1>5, <1>6, <1>7, <1>8
     DEF Next, pull_data_loop

(* The state keeps its types: the counter wraps like a u32.                  *)
THEOREM TypeCorrect == Spec => []TypeOK
<1>1. IInv => TypeOK
  BY DEF IInv
<1> QED BY <1>1, FreshState, NextKeeps, PTL DEF Spec

(* In a network that keeps the order of the PULL_ACKs, pull_data_loop gives  *)
(* a connection up only after more unanswered frames in a row than the limit *)
(* allows, and never when the limit is 0.                                    *)
THEOREM StopIsJustified == ASSUME Ordered PROVE Spec => []StopJustified
<1>1. IInv => StopJustified
  BY KeepAliveAssumption
     DEF IInv, TypeOK, CounterBounded, CounterFaithful, StopJustified, Limited
<1> QED BY <1>1, FreshState, NextKeeps, PTL DEF Spec

(* In any network, pull_data_loop never goes on after more unanswered frames *)
(* in a row than the limit allows, as far as no random token collides.       *)
THEOREM StopIsDue == Spec => []StopDue
<1>1. IInv => StopDue
  BY KeepAliveAssumption
     DEF IInv, TypeOK, CounterBounded, CounterFaithful, StopDue, Limited
<1> QED BY <1>1, FreshState, NextKeeps, PTL DEF Spec
=============================================================================
