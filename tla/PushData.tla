------------------------------ MODULE PushData ------------------------------
(***************************************************************************)
(* The PUSH_DATA traffic of one server: the events thread forwards uplink  *)
(* frames and statistics of the Concentratord as PUSH_DATA datagrams, the  *)
(* UDP receive thread counts the PUSH_ACKs, and every statistics datagram  *)
(* reports the counters of the time since the one before: rxfw, and ackr,  *)
(* the quotient of push_data_acked and push_data_sent.                     *)
(*                                                                         *)
(* Each counter has a mutex of its own, so a report is not one step.  The  *)
(* steps here are the accesses to what both threads use, push_data_token   *)
(* and push_data_acked; rxfw and push_data_sent are the events thread's    *)
(* alone, and what happens to them is part of the step next to it.         *)
(***************************************************************************)
EXTENDS Naturals, FiniteSets

CONSTANTS
  Tokens,        \* what rng.random() draws a u16 random_token from
  forward_crc,   \* the CRC states whose forward_crc_ok, _invalid, _missing is set
  Faults,        \* what the network may do to the datagrams and their PUSH_ACKs
  MaxDatagrams   \* bound: PUSH_DATA datagrams of one incarnation

CrcStatus == {"CrcOk", "BadCrc", "NoCrc"}

ASSUME PushDataAssumption ==
  /\ 0 \in Tokens
  /\ forward_crc \subseteq CrcStatus
  /\ Faults \subseteq {"loss", "duplication", "reordering"}
  /\ MaxDatagrams \in Nat

VARIABLES
  push_data_token,  \* State.push_data_token: the token sent last
  push_data_sent,   \* State.push_data_sent
  push_data_acked,  \* State.push_data_acked
  rxfw,             \* State.rxfw
  ev_pc,            \* where the events thread is: between two events, or in events_stats
  stat,             \* the locals stat.rxfw, pd_sent and pd_acked of events_stats
  ack_pc,           \* whether handle_push_ack has matched a token it has yet to count
  push_acks,        \* PUSH_ACKs that may still arrive, with the datagram they answer
  datagrams,        \* history: PUSH_DATA datagrams sent
  answers,          \* history: PUSH_ACKs the server has sent
  reported,         \* history: the sums of what the reports sent so far said
  reports,          \* history: the reports sent so far
  collided,         \* history: some token was drawn while a PUSH_ACK carried it
  pipelined         \* history: some datagram was sent while a PUSH_ACK was on its way

counters == <<push_data_sent, push_data_acked, rxfw>>
history == <<datagrams, answers, reported, reports, collided, pipelined>>
vars == <<push_data_token, counters, ev_pc, stat, ack_pc, push_acks, history>>

PushAck == [id : 1 .. MaxDatagrams, token : Tokens]
Report == [rxfw : 0 .. MaxDatagrams, sent : 0 .. MaxDatagrams, acked : Nat]
NoReport == [rxfw |-> 0, sent |-> 0, acked |-> 0]

TypeOK ==
  /\ push_data_token \in Tokens
  /\ push_data_sent \in 0 .. MaxDatagrams
  /\ push_data_acked \in Nat
  /\ rxfw \in 0 .. MaxDatagrams
  /\ ev_pc \in {"read", "reset", "send", "panicked"}
  /\ stat \in Report
  /\ ack_pc \in {"idle", "matched"}
  /\ push_acks \subseteq PushAck
  /\ datagrams \in 0 .. MaxDatagrams
  /\ answers \in 0 .. datagrams
  /\ reported \in Report
  /\ reports \in 0 .. MaxDatagrams
  /\ collided \in BOOLEAN
  /\ pipelined \in BOOLEAN

(* A new State: the counters of the previous one are lost with it.           *)
Init ==
  /\ push_data_token = 0
  /\ push_data_sent = 0
  /\ push_data_acked = 0
  /\ rxfw = 0
  /\ ev_pc = "read"
  /\ stat = NoReport
  /\ ack_pc = "idle"
  /\ push_acks = {}
  /\ datagrams = 0
  /\ answers = 0
  /\ reported = NoReport
  /\ reports = 0
  /\ collided = FALSE
  /\ pipelined = FALSE

-----------------------------------------------------------------------------
(* The events thread.                                                        *)

(* What events_up and RxPk::from_proto look at: the CRC state of rx_info and *)
(* whether its gw_time is beyond what chrono represents or its context has   *)
(* not four bytes, and whether tx_info has the modulation LoRa or FSK;       *)
(* either info may be absent.                                                *)
Time == {"representable", "beyond_chrono"}
UplinkFrame == [crc : CrcStatus \cup {"no_rx_info"},
                rx_info : Time \cup {"not_four_bytes"},
                modulation : {"supported", "unsupported", "no_tx_info"}]

Filtered(up) == up.crc \in CrcStatus \ forward_crc

(* from_proto converts the time, then the context, and panics where it       *)
(* cannot; whether the modulation is supported it looks at after that.       *)
RxPkPanics(up) ==
  /\ up.crc # "no_rx_info"
  /\ up.modulation # "no_tx_info"
  /\ up.rx_info \in {"beyond_chrono", "not_four_bytes"}

Converts(up) ==
  /\ up.crc # "no_rx_info"
  /\ ~RxPkPanics(up)
  /\ up.modulation = "supported"

(* Set a new token and send a datagram with it.  A failing send is logged,   *)
(* no more, and looks like a lost datagram; otherwise the server answers.    *)
SendPushData ==
  /\ datagrams' = datagrams + 1
  /\ \E token \in Tokens, answer \in BOOLEAN :
       /\ answer \/ "loss" \in Faults
       /\ push_data_token' = token
       /\ collided' = (collided \/ \E a \in push_acks : a.token = token)
       /\ push_acks' = push_acks \cup
            {a \in {[id |-> datagrams + 1, token |-> token]} : answer}
       /\ answers' = IF answer THEN answers + 1 ELSE answers
  /\ pipelined' = (pipelined \/ push_acks # {})

(* A mutated form of events_up: the frame is not counted in rxfw.            *)
events_upNoRxfw(up) ==
  /\ ev_pc = "read"
  /\ datagrams < MaxDatagrams
  /\ ~Filtered(up)
  /\ Converts(up)
  /\ SendPushData
  /\ push_data_sent' = push_data_sent + 1
  /\ UNCHANGED <<rxfw, push_data_acked, ev_pc, stat, ack_pc, reported, reports>>

(* Forward an uplink frame.  A frame that is filtered or does not convert    *)
(* changes nothing.                                                          *)
events_up(up) ==
  /\ ev_pc = "read"
  /\ datagrams < MaxDatagrams
  /\ ~Filtered(up)
  /\ Converts(up)
  /\ SendPushData
  /\ rxfw' = rxfw + 1
  /\ push_data_sent' = push_data_sent + 1
  /\ UNCHANGED <<push_data_acked, ev_pc, stat, ack_pc, reported, reports>>

(* events_up panics in RxPk::from_proto, or events_stats in                  *)
(* Stat::from_proto: the process ends.                                       *)
events_upPanics(up) ==
  /\ ev_pc = "read"
  /\ ~Filtered(up)
  /\ RxPkPanics(up)
  /\ ev_pc' = "panicked"
  /\ UNCHANGED <<push_data_token, counters, stat, ack_pc, push_acks, history>>

events_statsPanics(time) ==
  /\ ev_pc = "read"
  /\ time = "beyond_chrono"
  /\ ev_pc' = "panicked"
  /\ UNCHANGED <<push_data_token, counters, stat, ack_pc, push_acks, history>>

(* A mutated form of ResetSent: the counter is read but not reset.           *)
ResetSentNoReset ==
  /\ ev_pc = "read"
  /\ datagrams < MaxDatagrams
  /\ ev_pc' = "reset"
  /\ stat' = [stat EXCEPT !.rxfw = rxfw, !.sent = push_data_sent]
  /\ rxfw' = 0
  /\ UNCHANGED <<push_data_token, push_data_sent, push_data_acked, ack_pc,
                 push_acks, history>>

(* events_stats, up to the reset of push_data_sent: Stat::from_proto returns *)
(* no error.                                                                 *)
ResetSent ==
  /\ ev_pc = "read"
  /\ datagrams < MaxDatagrams
  /\ ev_pc' = "reset"
  /\ stat' = [stat EXCEPT !.rxfw = rxfw, !.sent = push_data_sent]
  /\ rxfw' = 0
  /\ push_data_sent' = 0
  /\ UNCHANGED <<push_data_token, push_data_acked, ack_pc, push_acks, history>>

(* Mutated forms of ResetAcked: the counter is read but not reset, the       *)
(* counter is reset but not read.                                            *)
ResetAckedNoReset ==
  /\ ev_pc = "reset"
  /\ ev_pc' = "send"
  /\ stat' = [stat EXCEPT !.acked = push_data_acked]
  /\ UNCHANGED <<push_data_token, counters, ack_pc, push_acks, history>>
ResetAckedNoRead ==
  /\ ev_pc = "reset"
  /\ ev_pc' = "send"
  /\ push_data_acked' = 0
  /\ UNCHANGED <<push_data_token, push_data_sent, rxfw, stat, ack_pc, push_acks,
                 history>>

ResetAcked ==
  /\ ev_pc = "reset"
  /\ ev_pc' = "send"
  /\ stat' = [stat EXCEPT !.acked = push_data_acked]
  /\ push_data_acked' = 0
  /\ UNCHANGED <<push_data_token, push_data_sent, rxfw, ack_pc, push_acks, history>>

Plus(r, s) ==
  [rxfw |-> r.rxfw + s.rxfw, sent |-> r.sent + s.sent, acked |-> r.acked + s.acked]

(* Send the report, a PUSH_DATA datagram itself.                             *)
SendStats ==
  /\ ev_pc = "send"
  /\ SendPushData
  /\ push_data_sent' = push_data_sent + 1
  /\ reported' = Plus(reported, stat)
  /\ reports' = reports + 1
  /\ stat' = NoReport
  /\ ev_pc' = "read"
  /\ UNCHANGED <<push_data_acked, rxfw, ack_pc>>

-----------------------------------------------------------------------------
(* The UDP receive thread, and the network.                                  *)

Deliverable(a) ==
  "reordering" \in Faults \/ \A b \in push_acks : a.id <= b.id

Remains(a) ==
  {push_acks \ {a}} \cup IF "duplication" \in Faults THEN {push_acks} ELSE {}

(* A mutated form of Matches: any PUSH_ACK counts.                           *)
MatchesAny(a) == a.token \in Tokens

Matches(a) == a.token = push_data_token

(* handle_push_ack reads push_data_token and compares it ...                 *)
MatchAck(a) ==
  /\ ev_pc # "panicked"
  /\ ack_pc = "idle"
  /\ Deliverable(a)
  /\ ack_pc' = IF Matches(a) THEN "matched" ELSE "idle"
  /\ push_acks' \in Remains(a)
  /\ UNCHANGED <<push_data_token, counters, ev_pc, stat, history>>

(* ... and counts later: both other threads may have run in between.         *)
CountAck ==
  /\ ev_pc # "panicked"
  /\ ack_pc = "matched"
  /\ ack_pc' = "idle"
  /\ push_data_acked' = push_data_acked + 1
  /\ UNCHANGED <<push_data_token, push_data_sent, rxfw, ev_pc, stat, push_acks,
                 history>>

-----------------------------------------------------------------------------
(* The loop of start(), or of the service manager after a panic, begins      *)
(* again: with new counters, and with a socket no old PUSH_ACK can reach.    *)
Restart ==
  /\ push_data_token' = 0
  /\ push_data_sent' = 0
  /\ push_data_acked' = 0
  /\ rxfw' = 0
  /\ ev_pc' = "read"
  /\ stat' = NoReport
  /\ ack_pc' = "idle"
  /\ push_acks' = {}
  /\ datagrams' = 0
  /\ answers' = 0
  /\ reported' = NoReport
  /\ reports' = 0
  /\ collided' = FALSE
  /\ pipelined' = FALSE

events_stats == ResetSent \/ ResetAcked \/ SendStats

Next ==
  \/ \E up \in UplinkFrame : events_up(up) \/ events_upPanics(up)
  \/ events_stats
  \/ \E time \in Time : events_statsPanics(time)
  \/ \E a \in push_acks : MatchAck(a)
  \/ CountAck
  \/ Restart

Spec == Init /\ [][Next]_vars

-----------------------------------------------------------------------------
Stalled == IF ack_pc = "matched" THEN 1 ELSE 0
Acked == reported.acked + stat.acked + push_data_acked + Stalled

(* Every datagram is counted once: it is in push_data_sent, in the report    *)
(* being made or in one sent before, and so is every forwarded frame in rxfw *)
(* or a report, although the two counters are reset apart from each other    *)
(* and the report counts towards one of them only.                           *)
CountersConserved ==
  /\ reported.sent + stat.sent + push_data_sent = datagrams
  /\ reported.rxfw + stat.rxfw + rxfw = datagrams - reports

(* Over all reports, no more datagrams are counted as acknowledged than the  *)
(* server has acknowledged, those whose PUSH_ACK is on its way or lost not   *)
(* counted, unless the network duplicates: what one report counts too much   *)
(* another one before has counted too little.                                *)
AckedAtMostSent ==
  "duplication" \notin Faults => Acked + Cardinality(push_acks) <= answers

(* One report counts at most two datagrams of the time before it as          *)
(* acknowledged: the one whose PUSH_ACK handle_push_ack had matched and not  *)
(* counted at the reset, and the last one, whose PUSH_ACK arrived before the *)
(* report set its own token.                                                 *)
ExcessAtMostTwo ==
  "duplication" \notin Faults /\ ~collided /\ ev_pc = "send"
    => stat.acked <= stat.sent + 2

(* As long as every PUSH_ACK arrives before the next datagram is sent, none  *)
(* is missed, whichever resets and stalls it meets.                          *)
AckedExactly ==
  "duplication" \notin Faults /\ ~pipelined
    => Acked + Cardinality(push_acks) = answers

(* What struct Stat says of ackr, that it is a percentage of the upstream    *)
(* datagrams: at most as many acknowledged as sent.                          *)
AckrIsPercentage ==
  ev_pc = "send" /\ stat.sent # 0 => stat.acked <= stat.sent
=============================================================================
