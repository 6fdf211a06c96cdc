--------------------------- MODULE PushDataProofs ---------------------------
(***************************************************************************)
(* Proofs about PushData, for any number of datagrams and tokens and any   *)
(* faults of the network: type correctness, CountersConserved,             *)
(* AckedAtMostSent, AckedExactly and ExcessAtMostTwo.                      *)
(*                                                                         *)
(* The sums are kept by every step of either thread, the resets of         *)
(* events_stats included; what the invariant adds to them is that the set  *)
(* of PUSH_ACKs is finite, that a report is only begun where there is a    *)
(* datagram left to carry it, which PUSH_ACKs can match (Latest), and how  *)
(* far the counter of a report can get ahead while it is made (Excess).    *)
(***************************************************************************)
EXTENDS PushData, FiniteSetTheorems, TLAPS

(* A PUSH_ACK that handle_push_ack would match now.                          *)
Current == {a \in push_acks : a.token = push_data_token}
Outstanding == IF Current = {} THEN 0 ELSE 1

(* Every PUSH_ACK is that of the latest datagram, if each arrives before the *)
(* next one is sent; and at most one matches, if no token collides.          *)
Latest ==
  /\ ~pipelined => push_acks = Current
  /\ ~collided => \A a, b \in Current : a = b

(* What is counted, matched, or may match is at most two more than what was  *)
(* sent since the reset, which the counter of the report has been read at.   *)
Excess ==
  "duplication" \notin Faults /\ ~collided =>
    /\ push_data_acked + Stalled + Outstanding
         <= (IF ev_pc = "reset" THEN stat.sent ELSE push_data_sent) + 2
    /\ ev_pc = "send" => stat.acked <= stat.sent + 2

Sums ==
  /\ TypeOK
  /\ IsFiniteSet(push_acks)
  /\ ev_pc \in {"reset", "send"} => datagrams < MaxDatagrams
  /\ ev_pc = "read" => stat = NoReport
  /\ ev_pc # "send" => stat.acked = 0
  /\ CountersConserved
  /\ AckedAtMostSent

Matching == Latest /\ AckedExactly /\ Excess

IInv == Sums /\ Matching

-----------------------------------------------------------------------------
(* Lemma: the bound is a number, and what follows for the counts below it.   *)
LEMMA Counts ==
  /\ MaxDatagrams \in Nat
  /\ 0 \in 0 .. MaxDatagrams
  /\ 0 \in 0 .. 0
  /\ 0 \in Nat
  /\ 0 \in Tokens
BY PushDataAssumption

(* Lemma: one PUSH_ACK less, or one more, changes the number by at most one. *)
LEMMA OneAck ==
  ASSUME NEW S, IsFiniteSet(S)
  PROVE  /\ Cardinality(S) \in Nat
         /\ \A a \in S : /\ IsFiniteSet(S \ {a})
                         /\ Cardinality(S \ {a}) = Cardinality(S) - 1
         /\ \A a : /\ IsFiniteSet(S \cup {a})
                   /\ Cardinality(S \cup {a}) \in Nat
                   /\ Cardinality(S \cup {a}) <= Cardinality(S) + 1
<1>1. Cardinality(S) \in Nat
  BY FS_CardinalityType
<1>2. ASSUME NEW a \in S
      PROVE  IsFiniteSet(S \ {a}) /\ Cardinality(S \ {a}) = Cardinality(S) - 1
  BY FS_RemoveElement
<1>3. ASSUME NEW a
      PROVE  /\ IsFiniteSet(S \cup {a})
             /\ Cardinality(S \cup {a}) \in Nat
             /\ Cardinality(S \cup {a}) <= Cardinality(S) + 1
  <2>1. /\ IsFiniteSet(S \cup {a})
        /\ \/ Cardinality(S \cup {a}) = Cardinality(S)
           \/ Cardinality(S \cup {a}) = Cardinality(S) + 1
    BY FS_AddElement
  <2> QED BY <1>1, <2>1
<1> QED BY <1>1, <1>2, <1>3

(* Lemma: the initial state satisfies the invariant.                         *)
LEMMA InitHolds == Init => Sums
<1> SUFFICES ASSUME Init PROVE Sums
  OBVIOUS
<1>1. NoReport \in Report
  BY Counts DEF NoReport, Report
<1>2. TypeOK
  BY <1>1, Counts DEF Init, TypeOK
<1>3. IsFiniteSet(push_acks) /\ Cardinality(push_acks) = 0
  BY FS_EmptySet DEF Init
<1>4. CountersConserved /\ AckedAtMostSent
  BY <1>3 DEF Init, CountersConserved, AckedAtMostSent, Acked, Stalled, NoReport
<1> QED BY <1>2, <1>3, <1>4 DEF Sums, Init, NoReport

(* Lemma: so does the state of a restart.                                    *)
LEMMA RestartHolds == ASSUME Restart PROVE Sums'
<1>1. NoReport \in Report
  BY Counts DEF NoReport, Report
<1>2. TypeOK'
  BY <1>1, Counts DEF Restart, TypeOK
<1>3. push_acks' = {}
  BY DEF Restart
<1>4. IsFiniteSet(push_acks') /\ Cardinality(push_acks') = 0
  BY <1>3, FS_EmptySet
<1>5. CountersConserved' /\ AckedAtMostSent'
  BY <1>4 DEF Restart, CountersConserved, AckedAtMostSent, Acked, Stalled, NoReport
<1> QED BY <1>2, <1>4, <1>5 DEF Sums, Restart, NoReport

(* Lemma: what sending a datagram does, whoever sends it.                    *)
LEMMA SendPushDataFacts ==
  ASSUME Sums, datagrams < MaxDatagrams, SendPushData
  PROVE  /\ push_data_token' \in Tokens
         /\ push_acks' \subseteq PushAck
         /\ IsFiniteSet(push_acks')
         /\ Cardinality(push_acks') \in Nat
         /\ answers' \in answers .. answers + 1
         /\ Cardinality(push_acks') <= Cardinality(push_acks) + (answers' - answers)
         /\ datagrams' = datagrams + 1
         /\ datagrams' \in 0 .. MaxDatagrams
         /\ answers' \in 0 .. datagrams'
         /\ collided' \in BOOLEAN /\ pipelined' \in BOOLEAN
<1>1. PICK token \in Tokens, answer \in BOOLEAN :
        /\ push_data_token' = token
        /\ collided' = (collided \/ \E a \in push_acks : a.token = token)
        /\ push_acks' = push_acks \cup
             {a \in {[id |-> datagrams + 1, token |-> token]} : answer}
        /\ answers' = IF answer THEN answers + 1 ELSE answers
  BY DEF SendPushData
<1> DEFINE ack == [id |-> datagrams + 1, token |-> token]
<1>2. \/ push_acks' = push_acks /\ answers' = answers
      \/ push_acks' = push_acks \cup {ack} /\ answers' = answers + 1
  BY <1>1
<1>3. datagrams' = datagrams + 1 /\ datagrams' \in 0 .. MaxDatagrams
  BY Counts DEF Sums, TypeOK, SendPushData
<1>4. ack \in PushAck
  <2>1. datagrams + 1 \in 1 .. MaxDatagrams
    BY Counts DEF Sums, TypeOK
  <2> QED BY <2>1 DEF PushAck
<1>5. push_acks' \subseteq PushAck
  BY <1>2, <1>4 DEF Sums, TypeOK
<1>6. /\ answers \in Nat /\ answers' \in answers .. answers + 1
      /\ answers' \in 0 .. datagrams'
  BY <1>2, <1>3, Counts DEF Sums, TypeOK
<1>7. /\ IsFiniteSet(push_acks') /\ Cardinality(push_acks') \in Nat
      /\ Cardinality(push_acks') <= Cardinality(push_acks) + (answers' - answers)
  <2>0. answers \in Nat
    BY <1>6
  <2>1. IsFiniteSet(push_acks)
    BY DEF Sums
  <2> HIDE DEF ack
  <2>2. CASE push_acks' = push_acks /\ answers' = answers
    BY <2>0, <2>1, <2>2, OneAck
  <2>3. CASE push_acks' = push_acks \cup {ack} /\ answers' = answers + 1
    <3>1. /\ IsFiniteSet(push_acks \cup {ack})
          /\ Cardinality(push_acks) \in Nat
          /\ Cardinality(push_acks \cup {ack}) \in Nat
          /\ Cardinality(push_acks \cup {ack}) <= Cardinality(push_acks) + 1
      BY <2>1, OneAck
    <3>2. answers' - answers = 1
      BY <2>0, <2>3
    <3> QED BY <2>3, <3>1, <3>2
  <2> QED BY <1>2, <2>2, <2>3
<1>8. collided' \in BOOLEAN /\ pipelined' \in BOOLEAN
  BY <1>1 DEF Sums, TypeOK, SendPushData
<1> QED BY <1>1, <1>3, <1>5, <1>7, <1>8, <1>6

(* Lemma: the counters, one by one, as far as their types say.               *)
LEMMA Fields ==
  ASSUME Sums
  PROVE  /\ push_data_sent \in Nat /\ push_data_acked \in Nat /\ rxfw \in Nat
         /\ stat.rxfw \in Nat /\ stat.sent \in Nat /\ stat.acked \in Nat
         /\ reported.rxfw \in Nat /\ reported.sent \in Nat
         /\ reported.acked \in Nat
         /\ datagrams \in Nat /\ answers \in Nat /\ reports \in Nat
         /\ Stalled \in Nat
         /\ Cardinality(push_acks) \in Nat
         /\ stat = [rxfw |-> stat.rxfw, sent |-> stat.sent, acked |-> stat.acked]
         /\ reported = [rxfw |-> reported.rxfw, sent |-> reported.sent,
                        acked |-> reported.acked]
<1>1. Cardinality(push_acks) \in Nat
  BY FS_CardinalityType DEF Sums
<1>2. Stalled \in Nat
  BY DEF Stalled
<1>3. stat \in Report /\ reported \in Report
  BY DEF Sums, TypeOK
<1>4. 0 .. MaxDatagrams \subseteq Nat
  BY Counts
<1>5. /\ push_data_sent \in Nat /\ push_data_acked \in Nat /\ rxfw \in Nat
      /\ datagrams \in Nat /\ answers \in Nat /\ reports \in Nat
  BY <1>4 DEF Sums, TypeOK
<1> QED BY <1>1, <1>2, <1>3, <1>4, <1>5 DEF Report

(* Lemma: forwarding a frame keeps the invariant.                            *)
LEMMA EventsUpKeeps ==
  ASSUME Sums, NEW up \in UplinkFrame, events_up(up) PROVE Sums'
<1>1. SendPushData /\ datagrams < MaxDatagrams
  BY DEF events_up
<1>2. /\ push_data_sent' = push_data_sent + 1 /\ rxfw' = rxfw + 1
      /\ UNCHANGED <<push_data_acked, ev_pc, stat, ack_pc, reported, reports>>
      /\ ev_pc = "read"
  BY DEF events_up
<1>3. CountersConserved'
  BY <1>1, <1>2, SendPushDataFacts, Fields DEF Sums, CountersConserved
<1>4. TypeOK'
  <2>1. push_data_sent' <= datagrams' /\ rxfw' <= datagrams'
    BY <1>1, <1>2, <1>3, Fields, SendPushDataFacts DEF CountersConserved
  <2>2. push_data_sent' \in 0 .. MaxDatagrams /\ rxfw' \in 0 .. MaxDatagrams
    BY <1>1, <1>2, <2>1, Counts, Fields, SendPushDataFacts
  <2> QED BY <1>1, <1>2, <2>2, SendPushDataFacts DEF Sums, TypeOK
<1>5. AckedAtMostSent'
  BY <1>1, <1>2, SendPushDataFacts, Fields
     DEF Sums, AckedAtMostSent, Acked, Stalled
<1> QED BY <1>1, <1>2, <1>3, <1>4, <1>5, SendPushDataFacts DEF Sums

(* Lemma: the reset of rxfw and push_data_sent moves both into the report.   *)
LEMMA ResetSentKeeps == ASSUME Sums, ResetSent PROVE Sums'
<1> USE DEF ResetSent, history
<1>1. stat = NoReport
  BY DEF Sums
<1>2. stat' = [rxfw |-> rxfw, sent |-> push_data_sent, acked |-> 0]
  BY <1>1 DEF NoReport
<1>3. TypeOK'
  BY <1>2, Counts DEF Sums, TypeOK, Report
<1>4. CountersConserved'
  BY <1>1, <1>2, Fields DEF Sums, CountersConserved, NoReport
<1>5. AckedAtMostSent'
  BY <1>1, <1>2, Fields DEF Sums, AckedAtMostSent, Acked, Stalled, NoReport
<1> QED BY <1>3, <1>4, <1>5 DEF Sums

(* Lemma: the reset of push_data_acked moves it into the report.             *)
LEMMA ResetAckedKeeps == ASSUME Sums, ResetAcked PROVE Sums'
<1> USE DEF ResetAcked, history
<1>0. stat \in Report /\ push_data_acked \in Nat
  BY DEF Sums, TypeOK
<1>1. /\ stat' \in Report
      /\ stat'.rxfw = stat.rxfw /\ stat'.sent = stat.sent
      /\ stat'.acked = push_data_acked
  BY <1>0 DEF Report
<1>2. TypeOK'
  BY <1>1, Counts DEF Sums, TypeOK
<1>3. CountersConserved'
  BY <1>1 DEF Sums, CountersConserved
<1>4. AckedAtMostSent'
  <2>1. Acked' + Cardinality(push_acks)' <= Acked + Cardinality(push_acks)
    BY <1>1, Fields DEF Acked, Stalled
  <2>2. /\ Acked' + Cardinality(push_acks)' \in Nat
        /\ Acked + Cardinality(push_acks) \in Nat
    BY <1>1, Fields DEF Acked, Stalled
  <2> QED BY <2>1, <2>2, Fields DEF Sums, AckedAtMostSent
<1> QED BY <1>2, <1>3, <1>4 DEF Sums

(* Lemma: sending the report moves it into the sums of the reports.          *)
LEMMA SendStatsKeeps == ASSUME Sums, SendStats PROVE Sums'
<1>1. SendPushData /\ datagrams < MaxDatagrams
  BY DEF Sums, SendStats
<1>2. /\ ev_pc' = "read" /\ stat' = NoReport
      /\ push_data_sent' = push_data_sent + 1
      /\ reports' = reports + 1
      /\ reported' = [rxfw |-> reported.rxfw + stat.rxfw,
                      sent |-> reported.sent + stat.sent,
                      acked |-> reported.acked + stat.acked]
      /\ UNCHANGED <<push_data_acked, rxfw, ack_pc>>
  BY DEF SendStats, Plus
<1>3. CountersConserved'
  BY <1>1, <1>2, SendPushDataFacts, Fields DEF Sums, CountersConserved, NoReport
<1>4. TypeOK'
  <2>1. /\ push_data_sent' <= datagrams' /\ reports' <= datagrams'
        /\ reported.rxfw + stat.rxfw <= datagrams'
        /\ reported.sent + stat.sent <= datagrams'
    BY <1>1, <1>2, SendPushDataFacts, Fields DEF Sums, CountersConserved
  <2>2. /\ push_data_sent' \in 0 .. MaxDatagrams /\ reports' \in 0 .. MaxDatagrams
        /\ reported.rxfw + stat.rxfw \in 0 .. MaxDatagrams
        /\ reported.sent + stat.sent \in 0 .. MaxDatagrams
        /\ reported.acked + stat.acked \in Nat
    BY <1>1, <1>2, <2>1, Counts, SendPushDataFacts, Fields
  <2>3. reported' \in Report /\ stat' \in Report
    BY <1>2, <2>2, Counts DEF Report, NoReport
  <2> QED BY <1>1, <1>2, <2>2, <2>3, SendPushDataFacts DEF Sums, TypeOK
<1>5. AckedAtMostSent'
  BY <1>1, <1>2, SendPushDataFacts, Fields
     DEF Sums, AckedAtMostSent, Acked, Stalled, NoReport
<1> QED BY <1>1, <1>2, <1>3, <1>4, <1>5, SendPushDataFacts DEF Sums, NoReport

(* Lemma: matching a PUSH_ACK turns one on its way into one to be counted.   *)
LEMMA MatchAckKeeps ==
  ASSUME Sums, NEW a \in push_acks, MatchAck(a) PROVE Sums'
<1> USE DEF MatchAck, counters, history
<1>1. push_acks' \subseteq push_acks
  BY DEF Remains
<1>2. IsFiniteSet(push_acks')
  BY <1>1, FS_Subset DEF Sums
<1>3. TypeOK'
  BY <1>1 DEF Sums, TypeOK
<1>4. CountersConserved'
  BY DEF Sums, CountersConserved
<1>5. AckedAtMostSent'
  <2>1. SUFFICES ASSUME "duplication" \notin Faults
                 PROVE  Acked' + Cardinality(push_acks') <= answers'
    BY DEF AckedAtMostSent
  <2>2. push_acks' = push_acks \ {a}
    BY <2>1 DEF Remains
  <2>3. Cardinality(push_acks') = Cardinality(push_acks) - 1
    BY <2>2, OneAck DEF Sums
  <2>4. Acked' <= Acked + 1 /\ Acked \in Nat /\ Acked' \in Nat
    BY Fields DEF Acked, Stalled
  <2> QED BY <2>1, <2>3, <2>4, Fields DEF Sums, AckedAtMostSent
<1> QED BY <1>2, <1>3, <1>4, <1>5 DEF Sums

(* Lemma: counting it changes no sum.                                        *)
LEMMA CountAckKeeps == ASSUME Sums, CountAck PROVE Sums'
<1> USE DEF CountAck, history
<1>1. TypeOK'
  BY DEF Sums, TypeOK
<1>2. CountersConserved'
  BY DEF Sums, CountersConserved
<1>3. AckedAtMostSent'
  BY Fields DEF Sums, AckedAtMostSent, Acked, Stalled
<1> QED BY <1>1, <1>2, <1>3 DEF Sums

-----------------------------------------------------------------------------
(* Lemma: after any sending, no PUSH_ACK but its own matches, unless its     *)
(* token collides, or none is another's, unless it is pipelined.             *)
LEMMA SendPushDataLatest ==
  ASSUME Latest, SendPushData
  PROVE  /\ Latest'
         /\ collided => collided'
         /\ pipelined => pipelined'
         /\ ~pipelined' => /\ push_acks = {}
                          /\ \/ push_acks' = {} /\ answers' = answers
                             \/ /\ answers' = answers + 1
                                /\ \E ack : push_acks' = {ack}
<1>1. PICK token \in Tokens, answer \in BOOLEAN :
        /\ push_data_token' = token
        /\ collided' = (collided \/ \E a \in push_acks : a.token = token)
        /\ push_acks' = push_acks \cup
             {a \in {[id |-> datagrams + 1, token |-> token]} : answer}
        /\ answers' = IF answer THEN answers + 1 ELSE answers
  BY DEF SendPushData
<1>2. pipelined' = (pipelined \/ push_acks # {})
  BY DEF SendPushData
<1> DEFINE ack == [id |-> datagrams + 1, token |-> token]
<1>3. \/ push_acks' = push_acks /\ answers' = answers
      \/ push_acks' = push_acks \cup {ack} /\ answers' = answers + 1
  BY <1>1
<1>4. ack.token = push_data_token'
  BY <1>1
<1> HIDE DEF ack
<1>5. ~pipelined' => push_acks' = Current'
  BY <1>2, <1>3, <1>4 DEF Current
<1>6. ~collided' => \A a, b \in Current' : a = b
  <2>1. ~collided' => Current' \subseteq {ack}
    BY <1>1, <1>3 DEF Current
  <2> QED BY <2>1
<1>7. ~pipelined' => \/ push_acks' = {} /\ answers' = answers
                     \/ answers' = answers + 1 /\ push_acks' = {ack}
  BY <1>2, <1>3
<1> QED BY <1>1, <1>2, <1>5, <1>6, <1>7 DEF Latest

(* Lemma: a datagram adds one to what is sent, and at most one to what may   *)
(* match; a PUSH_ACK that arrives before the next datagram adds to both.     *)
LEMMA SendKeepsMatching ==
  ASSUME Sums, Matching, SendPushData, datagrams < MaxDatagrams,
         ev_pc # "reset", ev_pc' # "reset", ev_pc' # "send",
         push_data_sent' = push_data_sent + 1, Acked' = Acked,
         UNCHANGED <<push_data_acked, ack_pc>>
  PROVE  Matching'
<1>1. Latest' /\ (collided => collided')
  BY SendPushDataLatest DEF Matching
<1>2. AckedExactly'
  <2>1. SUFFICES ASSUME "duplication" \notin Faults, ~pipelined'
                 PROVE  Acked' + Cardinality(push_acks') = answers'
    BY DEF AckedExactly
  <2>2. ~pipelined /\ push_acks = {}
    BY <2>1, SendPushDataLatest DEF Matching
  <2>3. Acked + Cardinality({}) = answers
    BY <2>1, <2>2 DEF Matching, AckedExactly
  <2>4. Acked = answers /\ Acked \in Nat
    BY <2>3, FS_EmptySet, Fields DEF Acked
  <2>5. CASE push_acks' = {} /\ answers' = answers
    BY <2>4, <2>5, FS_EmptySet
  <2>6. ASSUME NEW ack, push_acks' = {ack}, answers' = answers + 1
        PROVE  Acked' + Cardinality(push_acks') = answers'
    BY <2>4, <2>6, FS_Singleton
  <2> QED BY <2>1, <2>5, <2>6, SendPushDataLatest DEF Matching
<1>3. Excess'
  <2>1. Outstanding' <= Outstanding + 1 /\ Outstanding' \in Nat /\ Outstanding \in Nat
    BY DEF Outstanding
  <2>2. Stalled' = Stalled
    BY DEF Stalled
  <2> QED BY <1>1, <2>1, <2>2, Fields DEF Matching, Excess
<1> QED BY <1>1, <1>2, <1>3 DEF Matching

(* Lemma: what matching looks at stays, so who matches stays.                *)
LEMMA SameLatest ==
  ASSUME Latest, UNCHANGED <<push_data_token, push_acks, collided, pipelined>>
  PROVE  Latest' /\ Current' = Current /\ Outstanding' = Outstanding
BY DEF Latest, Current, Outstanding

(* Lemma: the resets lose nothing that was matched or counted, and the       *)
(* counter of the report is ahead by no more than the two in between.        *)
LEMMA ResetsKeepMatching ==
  ASSUME Sums, Matching, ResetSent \/ ResetAcked
  PROVE  Matching'
<1> USE DEF history
<1>1. /\ UNCHANGED <<push_data_token, push_acks, collided, pipelined, answers>>
      /\ Stalled' = Stalled
  BY DEF ResetSent, ResetAcked, Stalled
<1>2. Latest' /\ Outstanding' = Outstanding
  BY <1>1, SameLatest DEF Matching
<1>3. Outstanding \in 0 .. 1 /\ Stalled \in 0 .. 1
  BY DEF Outstanding, Stalled
<1>4. CASE ResetSent
  <2>1. stat' = [rxfw |-> rxfw, sent |-> push_data_sent, acked |-> 0]
        /\ stat.acked = 0 /\ ev_pc = "read" /\ ev_pc' = "reset"
        /\ UNCHANGED <<reported, push_data_acked>>
    BY <1>4 DEF ResetSent, Sums, NoReport
  <2>2. Acked' = Acked
    BY <1>1, <2>1 DEF Acked
  <2>3. AckedExactly'
    BY <1>1, <2>2 DEF Matching, AckedExactly
  <2>4. Excess'
    BY <1>1, <1>2, <2>1 DEF Matching, Excess
  <2> QED BY <1>2, <2>3, <2>4 DEF Matching
<1>5. CASE ResetAcked
  <2>1. stat \in Report /\ ev_pc = "reset"
    BY <1>5 DEF Sums, TypeOK, ResetAcked
  <2>2. /\ stat'.sent = stat.sent /\ stat'.acked = push_data_acked
        /\ stat.acked = 0 /\ push_data_acked' = 0 /\ ev_pc' = "send"
        /\ UNCHANGED <<reported, push_data_sent>>
    BY <1>5, <2>1 DEF ResetAcked, Sums, Report
  <2>3. Acked' = Acked
    BY <1>1, <2>2, Fields DEF Acked
  <2>4. AckedExactly'
    BY <1>1, <2>3 DEF Matching, AckedExactly
  <2>5. Excess'
    BY <1>1, <1>2, <1>3, <2>1, <2>2, Fields DEF Matching, Excess
  <2> QED BY <1>2, <2>4, <2>5 DEF Matching
<1> QED BY <1>4, <1>5

(* Lemma: a PUSH_ACK that matches is no longer outstanding but stalled.      *)
LEMMA MatchAckKeepsMatching ==
  ASSUME Sums, Matching, NEW a \in push_acks, MatchAck(a)
  PROVE  Matching'
<1> USE DEF MatchAck, counters, history
<1>1. push_acks' \subseteq push_acks
  BY DEF Remains
<1>2. Current' \subseteq Current /\ (push_acks = Current => push_acks' = Current')
  BY <1>1 DEF Current
<1>3. Latest'
  BY <1>2 DEF Matching, Latest
<1>4. Stalled = 0 /\ Stalled' = IF Matches(a) THEN 1 ELSE 0
  BY DEF Stalled
<1>5. "duplication" \notin Faults => push_acks' = push_acks \ {a}
  BY DEF Remains
<1>6. AckedExactly'
  <2>1. SUFFICES ASSUME "duplication" \notin Faults, ~pipelined
                 PROVE  Acked' + Cardinality(push_acks') = answers
    BY DEF AckedExactly
  <2>2. Matches(a)
    BY <2>1 DEF Matching, Latest, Current, Matches
  <2>3. Cardinality(push_acks') = Cardinality(push_acks) - 1
    BY <1>5, <2>1, OneAck DEF Sums
  <2>4. Acked' = Acked + 1 /\ Acked \in Nat
    BY <1>4, <2>2, Fields DEF Acked
  <2> QED BY <2>1, <2>3, <2>4, Fields DEF Matching, AckedExactly
<1>7. Excess'
  <2>1. SUFFICES ASSUME "duplication" \notin Faults, ~collided
                 PROVE  Excess'
    BY DEF Excess
  <2>2. Stalled' + Outstanding' <= Outstanding
    <3>1. CASE Matches(a)
      <4>1. a \in Current
        BY <3>1 DEF Matches, Current
      <4>2. Current = {a}
        BY <2>1, <4>1 DEF Matching, Latest
      <4>3. Current' = {}
        BY <1>5, <2>1, <4>2 DEF Current
      <4> QED BY <1>4, <3>1, <4>1, <4>3 DEF Outstanding
    <3>2. CASE ~Matches(a)
      BY <1>2, <1>4, <3>2 DEF Outstanding
    <3> QED BY <3>1, <3>2
  <2>3. Stalled' \in Nat /\ Outstanding' \in Nat /\ Outstanding \in Nat
    BY <1>4 DEF Outstanding
  <2> QED BY <1>4, <2>1, <2>2, <2>3, Fields DEF Matching, Excess
<1> QED BY <1>3, <1>6, <1>7 DEF Matching

(* Lemma: counting it changes neither sum.                                   *)
LEMMA CountAckKeepsMatching == ASSUME Sums, Matching, CountAck PROVE Matching'
<1> USE DEF CountAck, history
<1>1. Latest' /\ Outstanding' = Outstanding
  BY SameLatest DEF Matching
<1>2. Acked' = Acked /\ push_data_acked' + Stalled' = push_data_acked + Stalled
  BY Fields DEF Acked, Stalled
<1>3. AckedExactly'
  BY <1>2 DEF Matching, AckedExactly
<1>4. Excess'
  BY <1>1, <1>2 DEF Matching, Excess
<1> QED BY <1>1, <1>3, <1>4 DEF Matching

(* Lemma: no PUSH_ACK is there in the initial state or after a restart.      *)
LEMMA FreshMatching ==
  /\ Init => Matching
  /\ Restart => Matching'
<1>1. Cardinality({}) = 0
  BY FS_EmptySet
<1>2. Init => Matching
  <2> SUFFICES ASSUME Init PROVE Matching
    OBVIOUS
  <2>1. Latest /\ Outstanding = 0
    BY DEF Init, Latest, Current, Outstanding
  <2>2. AckedExactly /\ Excess
    BY <1>1, <2>1 DEF Init, AckedExactly, Acked, Stalled, NoReport, Excess
  <2> QED BY <2>1, <2>2 DEF Matching
<1>3. Restart => Matching'
  <2> SUFFICES ASSUME Restart PROVE Matching'
    OBVIOUS
  <2>1. Latest' /\ Outstanding' = 0
    BY DEF Restart, Latest, Current, Outstanding
  <2>2. AckedExactly' /\ Excess'
    BY <1>1, <2>1 DEF Restart, AckedExactly, Acked, Stalled, NoReport, Excess
  <2> QED BY <2>1, <2>2 DEF Matching
<1> QED BY <1>2, <1>3

(* Lemma: a panic of the events thread changes no counter.                   *)
LEMMA PanicsKeep ==
  ASSUME IInv,
         \/ \E up \in UplinkFrame : events_upPanics(up)
         \/ \E time \in Time : events_statsPanics(time)
  PROVE  IInv'
<1>1. /\ ev_pc = "read" /\ ev_pc' = "panicked"
      /\ UNCHANGED <<push_data_token, counters, stat, ack_pc, push_acks, history>>
  BY DEF events_upPanics, events_statsPanics
<1> USE DEF counters, history
<1>2. Sums'
  BY <1>1 DEF IInv, Sums, TypeOK, CountersConserved, AckedAtMostSent, Acked, Stalled
<1>3. Matching'
  BY <1>1 DEF IInv, Matching, Latest, Current, AckedExactly, Acked, Stalled, Excess,
              Outstanding
<1> QED BY <1>2, <1>3 DEF IInv

-----------------------------------------------------------------------------
(* Lemma: the invariant holds at first.                                      *)
LEMMA InvInit == Init => IInv
BY InitHolds, FreshMatching DEF IInv

(* Lemma: every step keeps the invariant.                                    *)
LEMMA NextKeeps == IInv /\ [Next]_vars => IInv'
<1> SUFFICES ASSUME IInv, [Next]_vars PROVE IInv'
  OBVIOUS
<1> USE DEF IInv
<1>1. ASSUME NEW up \in UplinkFrame, events_up(up) PROVE IInv'
  <2>1. Acked' = Acked
    BY <1>1 DEF events_up, Acked, Stalled
  <2> QED BY <1>1, <2>1, EventsUpKeeps, SendKeepsMatching DEF events_up
<1>2. CASE ResetSent
  BY <1>2, ResetSentKeeps, ResetsKeepMatching
<1>3. CASE ResetAcked
  BY <1>3, ResetAckedKeeps, ResetsKeepMatching
<1>4. CASE SendStats
  <2>1. Acked' = Acked
    BY <1>4, Fields DEF SendStats, Plus, NoReport, Acked, Stalled
  <2>2. datagrams < MaxDatagrams
    BY <1>4 DEF SendStats, Sums
  <2> QED BY <1>4, <2>1, <2>2, SendStatsKeeps, SendKeepsMatching DEF SendStats
<1>5. ASSUME NEW a \in push_acks, MatchAck(a) PROVE IInv'
  BY <1>5, MatchAckKeeps, MatchAckKeepsMatching
<1>6. CASE CountAck
  BY <1>6, CountAckKeeps, CountAckKeepsMatching
<1>7. CASE Restart
  BY <1>7, RestartHolds, FreshMatching
<1>8. CASE UNCHANGED vars
  BY <1>8 DEF vars, counters, history, Sums, TypeOK, CountersConserved,
              AckedAtMostSent, Acked, Stalled, Matching, Latest, Current,
              AckedExactly, Excess, Outstanding
<1>9. CASE \/ \E up \in UplinkFrame : events_upPanics(up)
           \/ \E time \in Time : events_statsPanics(time)
  BY <1>9, PanicsKeep
<1> QED
  BY <1>1, <1>2, <1>3, <1>4, <1>5, <1>6, <1>7, <1>8, <1>9 DEF Next, events_stats

(* The state keeps its types.                                                *)
THEOREM TypeCorrect == Spec => []TypeOK
<1>1. IInv => TypeOK
  BY DEF IInv, Sums
<1> QED BY <1>1, InvInit, NextKeeps, PTL DEF Spec

(* Every datagram, and every forwarded frame, is in exactly one report or    *)
(* still in its counter.                                                     *)
THEOREM CountersAreConserved == Spec => []CountersConserved
<1>1. IInv => CountersConserved
  BY DEF IInv, Sums
<1> QED BY <1>1, InvInit, NextKeeps, PTL DEF Spec

(* Over all reports no more is acknowledged than sent, unless the network    *)
(* duplicates, whatever it loses or reorders and whatever tokens collide.    *)
THEOREM AckedIsAtMostSent == Spec => []AckedAtMostSent
<1>1. IInv => AckedAtMostSent
  BY DEF IInv, Sums
<1> QED BY <1>1, InvInit, NextKeeps, PTL DEF Spec

(* A PUSH_ACK that arrives before the next datagram is counted, whatever     *)
(* resets and stalls it meets, and whatever the network loses.               *)
THEOREM AckedIsExact == Spec => []AckedExactly
<1>1. IInv => AckedExactly
  BY DEF IInv, Matching
<1> QED BY <1>1, InvInit, NextKeeps, PTL DEF Spec

(* No report counts more than two datagrams of the time before it.           *)
THEOREM ExcessIsAtMostTwo == Spec => []ExcessAtMostTwo
<1>1. IInv => ExcessAtMostTwo
  BY DEF IInv, Matching, Excess, ExcessAtMostTwo
<1> QED BY <1>1, InvInit, NextKeeps, PTL DEF Spec
=============================================================================
