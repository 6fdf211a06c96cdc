------------------------------ MODULE Forwarder ------------------------------
(***************************************************************************)
(* The forwarder of one server: the loop of forwarder::start, which sets   *)
(* up a State, spawns the UDP receive thread, the events thread and the    *)
(* PULL_DATA thread, joins all three and starts over; the Stop signal by   *)
(* which the PULL_DATA thread ends the other two; and the end of the whole *)
(* process, which every panic is (release profile, panic = "abort").       *)
(*                                                                         *)
(* What the threads do to the State they share is in KeepAlive, PushData   *)
(* and Downlink, one part of the State each.  This module adds when a      *)
(* thread may do it: the receive thread handles one datagram at a time,    *)
(* and looks for Stop between two of them, as the events thread does after *)
(* it has read an event and before it handles it.                          *)
(***************************************************************************)
EXTENDS Naturals, FiniteSets

CONSTANTS
  Tokens, keepalive_max_failures, U32, Faults,  \* of KeepAlive and PushData
  forward_crc, MaxDatagrams,                    \* of PushData
  TxAckStatus, MaxDownlinks                     \* of Downlink

ASSUME ForwarderAssumption ==
  /\ 0 \in Tokens
  /\ U32 \in Nat
  /\ keepalive_max_failures \in Nat
  /\ keepalive_max_failures + 1 < U32
  /\ Faults \subseteq {"loss", "duplication", "reordering"}
  /\ forward_crc \subseteq {"CrcOk", "BadCrc", "NoCrc"}
  /\ MaxDatagrams \in Nat
  /\ TxAckStatus \subseteq STRING
  /\ {"", "undecodable", "not_one_item", "none"} \cap TxAckStatus = {}
  /\ MaxDownlinks \in Nat

VARIABLES
  pull_data_token, pull_data_token_acked, missed_acks, pull_pc, pull_acks,
  answered, collided, unanswered, silent
VARIABLES
  push_data_token, push_data_sent, push_data_acked, rxfw, ev_pc, stat, ack_pc,
  push_acks, datagrams, answers, reported, reports, push_collided, pipelined
VARIABLES
  command_sock, dl_pc, pull_resp, requests, replies, downlinks, verdict,
  tx_acks, timed_out
VARIABLES
  rx_loop,     \* where udp_receive_loop is, between two calls of a handler
  ev_loop,     \* where events_loop is, likewise
  rx_stop,     \* the channel of the receive thread holds a Stop
  ev_stop,     \* the channel of the events thread holds a Stop
  signalled,   \* how many of its senders send_signal has used
  process      \* "up", or what aborted it

kVars == <<pull_data_token, pull_data_token_acked, missed_acks, pull_pc,
           pull_acks, answered, collided, unanswered, silent>>
pVars == <<push_data_token, push_data_sent, push_data_acked, rxfw, ev_pc, stat,
           ack_pc, push_acks, datagrams, answers, reported, reports,
           push_collided, pipelined>>
dVars == <<command_sock, dl_pc, pull_resp, requests, replies, downlinks,
           verdict, tx_acks, timed_out>>
stopVars == <<rx_stop, ev_stop, signalled>>
vars == <<kVars, pVars, dVars, rx_loop, ev_loop, stopVars, process>>

K == INSTANCE KeepAlive
P == INSTANCE PushData WITH collided <- push_collided
D == INSTANCE Downlink

TypeOK ==
  /\ K!TypeOK /\ P!TypeOK /\ D!TypeOK
  /\ rx_loop \in {"check", "recv", "ended"}
  /\ ev_loop \in {"next", "handle", "ended"}
  /\ rx_stop \in BOOLEAN
  /\ ev_stop \in BOOLEAN
  /\ signalled \in 0 .. 2
  /\ process \in {"up", "pull_resp", "command", "event", "signal", "connect"}

Init ==
  /\ K!Init /\ P!Init /\ D!Init
  /\ rx_loop = "check"
  /\ ev_loop = "next"
  /\ rx_stop = FALSE
  /\ ev_stop = FALSE
  /\ signalled = 0
  /\ process = "up"

Up == process = "up"

(* A panic ends every thread, wherever it is, and a downlink that is not     *)
(* what panics.                                                              *)
Abort(cause) ==
  /\ process' = cause
  /\ rx_loop' = "ended"
  /\ ev_loop' = "ended"
  /\ rx_stop' = FALSE
  /\ ev_stop' = FALSE
  /\ IF pull_pc = "done" THEN UNCHANGED kVars ELSE K!Crash
  /\ IF cause \in {"pull_resp", "command"} THEN TRUE ELSE D!Crash

-----------------------------------------------------------------------------
(* udp_receive_loop.                                                         *)

Handling == ack_pc = "matched" \/ dl_pc = "poll"

(* A mutated form of RxCheck: Stop is not looked for.                        *)
RxCheckIgnores ==
  /\ Up /\ rx_loop = "check" /\ ~Handling
  /\ rx_loop' = "recv"
  /\ UNCHANGED <<kVars, pVars, dVars, ev_loop, stopVars, process>>

(* Look for Stop, and return or go on.                                       *)
RxCheck ==
  /\ Up /\ rx_loop = "check" /\ ~Handling
  /\ rx_stop' = FALSE
  /\ rx_loop' = IF rx_stop THEN "ended" ELSE "recv"
  /\ UNCHANGED <<kVars, pVars, dVars, ev_loop, ev_stop, signalled, process>>

(* Receive a datagram and begin to handle it.                                *)
RxPushAck ==
  /\ Up /\ rx_loop = "recv"
  /\ rx_loop' = "check"
  /\ \E a \in push_acks : P!MatchAck(a)
  /\ UNCHANGED <<kVars, dVars, ev_loop, stopVars, process>>

RxPullAck ==
  /\ Up /\ rx_loop = "recv"
  /\ rx_loop' = "check"
  /\ \E m \in pull_acks : K!handle_pull_ack(m)
  /\ UNCHANGED <<pVars, dVars, ev_loop, stopVars, process>>

RxPullResp ==
  /\ Up /\ rx_loop = "recv"
  /\ rx_loop' = "check"
  /\ \E txpk \in D!TxPk : D!SendCommand(txpk)
  /\ UNCHANGED <<kVars, pVars, ev_loop, stopVars, process>>

RxParsePanics ==
  /\ Up /\ rx_loop = "recv"
  /\ Abort("pull_resp")
  /\ \E txpk \in D!TxPk : D!ParsePanics(txpk)
  /\ UNCHANGED <<pVars, signalled>>

RxSendPanics ==
  /\ Up /\ rx_loop = "recv"
  /\ Abort("command")
  /\ \E txpk \in D!TxPk : D!SendPanics(txpk)
  /\ UNCHANGED <<pVars, signalled>>

(* recv times out after 100 ms, the datagram has less than four bytes or an  *)
(* unknown identifier, or its handler returns an error at once.              *)
RxNothing ==
  /\ Up /\ rx_loop = "recv"
  /\ rx_loop' = "check"
  /\ UNCHANGED <<kVars, pVars, dVars, ev_loop, stopVars, process>>

(* The rest of handle_push_ack and of handle_pull_resp.                      *)
RxFinish ==
  /\ Up
  /\ \/ P!CountAck /\ UNCHANGED dVars
     \/ (D!ReceiveReply \/ D!TimeOut) /\ UNCHANGED pVars
  /\ UNCHANGED <<kVars, rx_loop, ev_loop, stopVars, process>>

udp_receive_loop ==
  \/ RxCheck \/ RxFinish
  \/ RxNothing \/ RxPushAck \/ RxPullAck \/ RxPullResp
  \/ RxParsePanics \/ RxSendPanics

-----------------------------------------------------------------------------
(* events_loop.                                                              *)

(* Read an event, or none for 100 ms, and look for Stop: then the event is   *)
(* dropped.                                                                  *)
EvNext ==
  /\ Up /\ ev_loop = "next" /\ ev_pc = "read"
  /\ ev_stop' = FALSE
  /\ ev_loop' = IF ev_stop THEN "ended" ELSE "handle"
  /\ UNCHANGED <<kVars, pVars, dVars, rx_loop, rx_stop, signalled, process>>

EvUplink ==
  /\ Up /\ ev_loop = "handle"
  /\ ev_loop' = "next"
  /\ \E up \in P!UplinkFrame : P!events_up(up)
  /\ UNCHANGED <<kVars, dVars, rx_loop, stopVars, process>>

EvStats ==
  /\ Up /\ ev_loop = "handle"
  /\ ev_loop' = "next"
  /\ P!ResetSent
  /\ UNCHANGED <<kVars, dVars, rx_loop, stopVars, process>>

(* Handle an event that from_proto panics on.                                *)
EvPanics ==
  /\ Up /\ ev_loop = "handle"
  /\ Abort("event")
  /\ \/ \E up \in P!UplinkFrame : P!events_upPanics(up)
     \/ \E time \in P!Time : P!events_statsPanics(time)
  /\ UNCHANGED signalled

(* A timeout, an event of another kind, one that does not decode, or one     *)
(* that is not forwarded.                                                    *)
EvNothing ==
  /\ Up /\ ev_loop = "handle"
  /\ ev_loop' = "next"
  /\ UNCHANGED <<kVars, pVars, dVars, rx_loop, stopVars, process>>

(* The rest of events_stats.                                                 *)
EvFinish ==
  /\ Up
  /\ P!ResetAcked \/ P!SendStats
  /\ UNCHANGED <<kVars, dVars, rx_loop, ev_loop, stopVars, process>>

events_loop == EvNext \/ EvFinish \/ EvNothing \/ EvUplink \/ EvStats \/ EvPanics

-----------------------------------------------------------------------------
(* pull_data_loop, and SignalPool.send_signal.                               *)

PullLoop ==
  /\ Up
  /\ K!CheckAcked \/ K!SendPullData \/ K!Wake
  /\ UNCHANGED <<pVars, dVars, rx_loop, ev_loop, stopVars, process>>

(* The senders in the order of the calls of new_receiver.  A receiver whose  *)
(* thread has returned is dropped, and then the unwrap of send fails.        *)
SignalRx ==
  /\ Up /\ pull_pc = "signal" /\ signalled = 0
  /\ signalled' = 1
  /\ IF rx_loop = "ended"
       THEN Abort("signal")
       ELSE /\ rx_stop' = TRUE
            /\ UNCHANGED <<kVars, dVars, rx_loop, ev_loop, ev_stop, process>>
  /\ UNCHANGED pVars

(* Mutated forms of SignalEv: only the first receiver is told, Stop goes to  *)
(* the first receiver once more.                                             *)
SignalEvForgotten ==
  /\ Up /\ pull_pc = "signal" /\ signalled = 1
  /\ signalled' = 2
  /\ UNCHANGED <<kVars, pVars, dVars, rx_loop, ev_loop, rx_stop, ev_stop, process>>
SignalEvToRx ==
  /\ Up /\ pull_pc = "signal" /\ signalled = 1
  /\ signalled' = 2
  /\ IF rx_loop = "ended"
       THEN Abort("signal")
       ELSE /\ rx_stop' = TRUE
            /\ UNCHANGED <<kVars, dVars, rx_loop, ev_loop, ev_stop, process>>
  /\ UNCHANGED pVars

SignalEv ==
  /\ Up /\ pull_pc = "signal" /\ signalled = 1
  /\ signalled' = 2
  /\ IF ev_loop = "ended"
       THEN Abort("signal")
       ELSE /\ ev_stop' = TRUE
            /\ UNCHANGED <<kVars, dVars, rx_loop, ev_loop, rx_stop, process>>
  /\ UNCHANGED pVars

PullReturns ==
  /\ Up /\ signalled = 2
  /\ K!Terminate
  /\ UNCHANGED <<pVars, dVars, rx_loop, ev_loop, stopVars, process>>

pull_data_loop == PullLoop \/ SignalRx \/ SignalEv \/ PullReturns

-----------------------------------------------------------------------------
(* The loop of start(), and the service manager.                             *)

(* A mutated form of Joined: the receive thread is not waited for.           *)
JoinedTwo == ev_loop = "ended" /\ pull_pc = "done"

(* All three threads have returned.                                          *)
Joined == rx_loop = "ended" /\ ev_loop = "ended" /\ pull_pc = "done"

(* A mutated form of Fresh: the State is created before the loop.            *)
FreshOneState ==
  /\ pull_pc' = "check"
  /\ pull_acks' = {}
  /\ UNCHANGED <<pull_data_token, pull_data_token_acked, missed_acks, answered,
                 collided, unanswered, silent>>
  /\ P!Restart /\ D!Restart
  /\ rx_loop' = "check"
  /\ ev_loop' = "next"
  /\ rx_stop' = FALSE
  /\ ev_stop' = FALSE
  /\ signalled' = 0

Fresh ==
  /\ K!Start /\ P!Restart /\ D!Restart
  /\ rx_loop' = "check"
  /\ ev_loop' = "next"
  /\ rx_stop' = FALSE
  /\ ev_stop' = FALSE
  /\ signalled' = 0

(* start() goes round its loop: it resolves the server again.                *)
StartOver ==
  /\ Up /\ Joined
  /\ Fresh
  /\ UNCHANGED process

(* ... which panics when it cannot.                                          *)
ConnectPanics ==
  /\ Up /\ Joined
  /\ process' = "connect"
  /\ UNCHANGED <<kVars, pVars, dVars, rx_loop, ev_loop, stopVars>>

(* The service manager starts the process again (Restart=on-failure).        *)
ServiceRestarts ==
  /\ ~Up
  /\ process' = "up"
  /\ Fresh

(* What it does after the process has ended nobody sees.                     *)
Concentratord ==
  /\ Up
  /\ D!Concentratord
  /\ UNCHANGED <<kVars, pVars, rx_loop, ev_loop, stopVars, process>>

Next ==
  \/ udp_receive_loop \/ events_loop \/ pull_data_loop
  \/ StartOver \/ ConnectPanics \/ ServiceRestarts
  \/ Concentratord

Spec == Init /\ [][Next]_vars

(* The operating system schedules every thread.                              *)
FairSpec ==
  /\ Spec
  /\ WF_vars(udp_receive_loop)
  /\ WF_vars(events_loop)
  /\ WF_vars(pull_data_loop)
  /\ WF_vars(StartOver \/ ConnectPanics)

-----------------------------------------------------------------------------
(* Of the panics, those that malformed input does not explain come only      *)
(* after what must have happened before: sock.send fails only after a        *)
(* downlink whose reply was late, a server is connected to, in vain, only    *)
(* when all threads have returned, and Stop is never sent to a thread that   *)
(* has returned.  (The other two, "pull_resp" and "event", are the           *)
(* conversions that panic on what a server or the Concentratord sends.)      *)
AbortCause ==
  /\ process = "command" => timed_out
  /\ process = "connect" => Joined
  /\ process # "signal"

(* start() goes round its loop only when no thread of the round before is in *)
(* the middle of a handler: no datagram, report or downlink of one round is  *)
(* finished on the State of the next one.                                    *)
RestartQuiescent ==
  [][Up /\ pull_pc = "done" /\ pull_pc' = "check"
       => ack_pc = "idle" /\ dl_pc = "idle" /\ ev_pc = "read"]_vars

(* What the process sees of the three threads.                               *)
Phase ==
  IF ~Up THEN "down"
  ELSE IF Joined THEN "stopped"
  ELSE IF pull_pc \in {"signal", "done"} THEN "stopping" ELSE "up"

S == INSTANCE Session WITH session <- Phase

(* The threads together are one session: once the PULL_DATA thread has given *)
(* up, the other two return whatever they were doing, in whatever order, and *)
(* then the forwarder connects anew, unless the process ends.                *)
ImplementsSession == S!FairSpec

(* A server that is silent from some point on is connected to anew again and *)
(* again, or the process ends: the loop of start() never stays with a round  *)
(* whose keepalives nobody answers, whatever uplinks, downlinks and events   *)
(* keep the other threads busy.                                              *)
SilenceReconnects ==
  <>[](pull_acks = {} /\ ~collided) => []<>(Joined \/ ~Up)

(* Together the threads still do what the modules of their parts say, and    *)
(* the scheduling of the threads is all the fairness these need: no thread   *)
(* is held up by another one, and an abort ends the PULL_DATA thread.        *)
ImplementsParts == K!FairSpec /\ D!FairSpec
=============================================================================
