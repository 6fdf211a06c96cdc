--------------------------- MODULE ForwarderProofs ---------------------------
(***************************************************************************)
(* Proofs about Forwarder, for all values of the constants: AbortCause and *)
(* RestartQuiescent; that the composition implements the modules of its    *)
(* three parts; hence type correctness, and for the forwarder as a whole   *)
(* what is proved about the parts.                                         *)
(***************************************************************************)
EXTENDS Forwarder, TLAPS

(* A thread returns only after its own Stop, which send_signal has sent it.  *)
StopInOrder ==
  process = "up" =>
    /\ rx_stop \/ rx_loop = "ended" => signalled # 0
    /\ ev_stop \/ ev_loop = "ended" => signalled # 0 /\ signalled # 1

(* Neither loop is past the end of an iteration while its handler runs.      *)
LoopsWait ==
  process = "up" =>
    /\ rx_loop # "check" => ack_pc = "idle" /\ dl_pc # "poll"
    /\ ev_loop # "next" => ev_pc = "read"

(* The receive thread and the command socket; while the process runs, no     *)
(* handler has panicked.                                                     *)
SocketWaits ==
  /\ ack_pc \in {"idle", "matched"}
  /\ dl_pc = "poll" => command_sock # "send"
  /\ process = "up" =>
       /\ dl_pc \in {"idle", "poll"}
       /\ ev_pc \in {"read", "reset", "send"}
       /\ command_sock # "send" /\ dl_pc # "poll" => timed_out

IInv == StopInOrder /\ LoopsWait /\ SocketWaits /\ AbortCause

-----------------------------------------------------------------------------
(* Lemma: the initial state satisfies the invariant.                         *)
LEMMA InitHolds == Init => IInv
BY DEF Init, P!Init, D!Init, IInv, StopInOrder, LoopsWait, SocketWaits, AbortCause

(* Lemma: a new round of start(), or a new process, begins like the first.   *)
LEMMA FreshHolds == ASSUME Fresh, process' = "up" PROVE IInv'
BY DEF Fresh, P!Restart, D!Restart, IInv, StopInOrder, LoopsWait, SocketWaits,
       AbortCause

(* Lemma: the receive thread keeps the invariant.                            *)
LEMMA ReceiveKeeps == ASSUME IInv, udp_receive_loop PROVE IInv'
<1> USE DEF IInv, Up, kVars, pVars, dVars, stopVars
<1>1. CASE RxCheck
  BY <1>1 DEF RxCheck, Handling, StopInOrder, LoopsWait, SocketWaits, AbortCause, Joined
<1>2. CASE RxPushAck
  BY <1>2 DEF RxPushAck, P!MatchAck, P!counters, P!history, StopInOrder, LoopsWait,
              SocketWaits, AbortCause
<1>3. CASE RxPullAck
  BY <1>3 DEF RxPullAck, StopInOrder, LoopsWait, SocketWaits, AbortCause
<1>4. CASE RxPullResp
  BY <1>4 DEF RxPullResp, D!SendCommand, StopInOrder, LoopsWait, SocketWaits,
              AbortCause
<1>5. CASE RxParsePanics \/ RxSendPanics
  BY <1>5 DEF RxParsePanics, RxSendPanics, D!ParsePanics, D!SendPanics, D!SendAllowed,
              D!sockVars, Abort, StopInOrder, LoopsWait, SocketWaits, AbortCause
<1>6. CASE RxNothing
  BY <1>6 DEF RxNothing, StopInOrder, LoopsWait, SocketWaits, AbortCause
<1>7. CASE RxFinish
  <2>1. CASE P!CountAck /\ UNCHANGED dVars
    BY <1>7, <2>1 DEF RxFinish, P!CountAck, P!history, StopInOrder, LoopsWait,
                      SocketWaits, AbortCause
  <2>2. CASE D!ReceiveReply /\ UNCHANGED pVars
    BY <1>7, <2>2 DEF RxFinish, D!ReceiveReply, StopInOrder, LoopsWait,
                      SocketWaits, AbortCause
  <2>3. CASE D!TimeOut /\ UNCHANGED pVars
    BY <1>7, <2>3 DEF RxFinish, D!TimeOut, D!sockVars, StopInOrder, LoopsWait,
                      SocketWaits, AbortCause
  <2> QED BY <1>7, <2>1, <2>2, <2>3 DEF RxFinish
<1> QED BY <1>1, <1>2, <1>3, <1>4, <1>5, <1>6, <1>7 DEF udp_receive_loop

(* Lemma: an event that panics leaves the receive thread's part alone.       *)
LEMMA EventPanics == ASSUME EvPanics PROVE ack_pc' = ack_pc /\ process' = "event"
BY DEF EvPanics, Abort, P!events_upPanics, P!events_statsPanics

(* Lemma: the events thread keeps the invariant.                             *)
LEMMA EventsKeep == ASSUME IInv, events_loop PROVE IInv'
<1> USE DEF IInv, Up, kVars, pVars, dVars, stopVars
<1>1. CASE EvNext
  BY <1>1 DEF EvNext, StopInOrder, LoopsWait, SocketWaits, AbortCause
<1>2. CASE EvUplink
  BY <1>2 DEF EvUplink, P!events_up, StopInOrder, LoopsWait, SocketWaits, AbortCause
<1>3. CASE EvStats
  BY <1>3 DEF EvStats, P!ResetSent, P!history, StopInOrder, LoopsWait, SocketWaits,
              AbortCause
<1>4. CASE EvNothing
  BY <1>4 DEF EvNothing, StopInOrder, LoopsWait, SocketWaits, AbortCause
<1>5. CASE EvFinish
  <2>1. CASE P!ResetAcked
    BY <1>5, <2>1 DEF EvFinish, P!ResetAcked, P!history, StopInOrder, LoopsWait,
                      SocketWaits, AbortCause
  <2>2. CASE P!SendStats
    BY <1>5, <2>2 DEF EvFinish, P!SendStats, StopInOrder, LoopsWait, SocketWaits,
                      AbortCause
  <2> QED BY <1>5, <2>1, <2>2 DEF EvFinish
<1>6. CASE EvPanics
  BY <1>6, EventPanics DEF EvPanics, D!Crash, D!sockVars, Abort, StopInOrder, LoopsWait,
              SocketWaits, AbortCause
<1> QED BY <1>1, <1>2, <1>3, <1>4, <1>5, <1>6 DEF events_loop

(* Lemma: the PULL_DATA thread keeps the invariant; above all, it finds no   *)
(* receiver dropped.                                                         *)
LEMMA PullKeeps == ASSUME IInv, pull_data_loop PROVE IInv'
<1> USE DEF IInv, Up, pVars, dVars, stopVars
<1>1. CASE PullLoop
  BY <1>1 DEF PullLoop, StopInOrder, LoopsWait, SocketWaits, AbortCause
<1>2. CASE SignalRx
  BY <1>2 DEF SignalRx, StopInOrder, LoopsWait, SocketWaits, AbortCause
<1>3. CASE SignalEv
  BY <1>3 DEF SignalEv, StopInOrder, LoopsWait, SocketWaits, AbortCause
<1>4. CASE PullReturns
  BY <1>4 DEF PullReturns, StopInOrder, LoopsWait, SocketWaits, AbortCause
<1> QED BY <1>1, <1>2, <1>3, <1>4 DEF pull_data_loop

(* Lemma: every step keeps the invariant.                                    *)
LEMMA NextKeeps == IInv /\ [Next]_vars => IInv'
<1> SUFFICES ASSUME IInv, [Next]_vars PROVE IInv'
  OBVIOUS
<1>1. CASE udp_receive_loop
  BY <1>1, ReceiveKeeps
<1>2. CASE events_loop
  BY <1>2, EventsKeep
<1>3. CASE pull_data_loop
  BY <1>3, PullKeeps
<1>4. CASE StartOver
  BY <1>4, FreshHolds DEF StartOver, Up
<1>5. CASE ConnectPanics
  BY <1>5 DEF ConnectPanics, Up, kVars, pVars, dVars, stopVars, Joined,
              IInv, StopInOrder, LoopsWait, SocketWaits, AbortCause
<1>6. CASE ServiceRestarts
  BY <1>6, FreshHolds DEF ServiceRestarts
<1>7. CASE Concentratord
  <2>1. UNCHANGED <<command_sock, dl_pc, timed_out>>
    BY <1>7 DEF Concentratord, D!Concentratord, D!Reply, D!LoseRequest
  <2> QED BY <1>7, <2>1 DEF Concentratord, kVars, pVars, stopVars, Joined, IInv,
             StopInOrder, LoopsWait, SocketWaits, AbortCause
<1>8. CASE UNCHANGED vars
  BY <1>8 DEF vars, kVars, pVars, dVars, stopVars, Joined, IInv, StopInOrder,
              LoopsWait, SocketWaits, AbortCause
<1> QED
  BY <1>1, <1>2, <1>3, <1>4, <1>5, <1>6, <1>7, <1>8 DEF Next

-----------------------------------------------------------------------------
(* The panics that malformed input does not explain come only in sock.send   *)
(* after a timed-out downlink, or in connect with all threads joined;        *)
(* send_signal never panics.                                                 *)
THEOREM AbortHasCause == Spec => []AbortCause
<1>1. IInv => AbortCause
  BY DEF IInv
<1> QED BY <1>1, InitHolds, NextKeeps, PTL DEF Spec

(* Lemma: the keepalive begins anew in a running process only where start()  *)
(* goes round its loop.                                                      *)
LEMMA OnlyStartOver ==
  ASSUME Next, Up, pull_pc = "done", pull_pc' = "check" PROVE Joined
<1> USE DEF kVars
<1>1. CASE udp_receive_loop
  BY <1>1 DEF udp_receive_loop, RxCheck, RxPushAck, RxPullAck, RxPullResp,
     RxParsePanics, RxSendPanics, RxNothing, RxFinish, Abort, K!handle_pull_ack
<1>2. CASE events_loop
  BY <1>2 DEF events_loop, EvNext, EvUplink, EvStats, EvPanics, EvNothing, EvFinish, Abort
<1>3. CASE pull_data_loop
  BY <1>3 DEF pull_data_loop, PullLoop, SignalRx, SignalEv, PullReturns,
     K!CheckAcked, K!SendPullData, K!Wake, K!Terminate
<1>4. CASE StartOver \/ ConnectPanics
  BY <1>4 DEF StartOver, ConnectPanics
<1>5. CASE ServiceRestarts
  BY <1>5 DEF ServiceRestarts
<1>6. CASE Concentratord
  BY <1>6 DEF Concentratord
<1> QED BY <1>1, <1>2, <1>3, <1>4, <1>5, <1>6 DEF Next

(* No handler is left running when start() goes round its loop.              *)
THEOREM RestartIsQuiescent == Spec => RestartQuiescent
<1> DEFINE Quiet == Up /\ pull_pc = "done" /\ pull_pc' = "check"
                      => ack_pc = "idle" /\ dl_pc = "idle" /\ ev_pc = "read"
<1>1. IInv /\ [Next]_vars => [Quiet]_vars
  <2>1. SUFFICES ASSUME IInv, Next, Up, pull_pc = "done", pull_pc' = "check"
                 PROVE  ack_pc = "idle" /\ dl_pc = "idle" /\ ev_pc = "read"
    OBVIOUS
  <2>2. Joined
    BY <2>1, OnlyStartOver
  <2> QED BY <2>1, <2>2 DEF Joined, Up, IInv, LoopsWait, SocketWaits
<1> QED BY <1>1, InitHolds, NextKeeps, PTL DEF Spec, RestartQuiescent

-----------------------------------------------------------------------------
(* Whatever the threads do together is a behaviour of the keepalive alone.   *)
THEOREM ImplementsKeepAliveSpec == Spec => K!Spec
<1>1. Init => K!Init
  BY DEF Init
<1>2. [Next]_vars => [K!Next]_(K!vars)
  <2> SUFFICES ASSUME [Next]_vars PROVE K!Next \/ UNCHANGED kVars
    BY DEF K!vars, K!netVars, K!countVars, kVars
  <2>1. CASE udp_receive_loop
    <3>1. CASE RxPullAck
      BY <3>1 DEF RxPullAck, K!Next
    <3>2. CASE RxParsePanics \/ RxSendPanics
      BY <3>2 DEF RxParsePanics, RxSendPanics, Abort, K!Next
    <3>3. CASE RxCheck \/ RxPushAck \/ RxPullResp \/ RxNothing \/ RxFinish
      BY <3>3 DEF RxCheck, RxPushAck, RxPullResp, RxNothing, RxFinish
    <3> QED BY <2>1, <3>1, <3>2, <3>3 DEF udp_receive_loop
  <2>2. CASE events_loop
    BY <2>2 DEF events_loop, EvNext, EvUplink, EvStats, EvPanics, EvNothing, EvFinish,
                Abort, K!Next
  <2>3. CASE pull_data_loop
    <3>1. CASE PullLoop
      BY <3>1 DEF PullLoop, K!Next, K!pull_data_loop
    <3>2. CASE SignalRx \/ SignalEv
      BY <3>2 DEF SignalRx, SignalEv, Abort, K!Next, kVars
    <3>3. CASE PullReturns
      BY <3>3 DEF PullReturns, K!Next, K!pull_data_loop
    <3> QED BY <2>3, <3>1, <3>2, <3>3 DEF pull_data_loop
  <2>4. CASE StartOver \/ ServiceRestarts
    BY <2>4 DEF StartOver, ServiceRestarts, Fresh, K!Next
  <2>5. CASE ConnectPanics \/ Concentratord
    BY <2>5 DEF ConnectPanics, Concentratord
  <2>6. CASE UNCHANGED vars
    BY <2>6 DEF vars
  <2> QED BY <2>1, <2>2, <2>3, <2>4, <2>5, <2>6 DEF Next
<1> QED BY <1>1, <1>2, PTL DEF Spec, K!Spec

(* ... and of the uplinks and statistics alone.                              *)
THEOREM ImplementsPushDataSpec == Spec => P!Spec
<1>1. Init => P!Init
  BY DEF Init
<1>2. [Next]_vars => [P!Next]_(P!vars)
  <2> SUFFICES ASSUME [Next]_vars PROVE P!Next \/ UNCHANGED pVars
    BY DEF P!vars, P!counters, P!history, pVars
  <2>1. CASE udp_receive_loop
    <3>1. CASE RxPushAck
      BY <3>1 DEF RxPushAck, P!Next
    <3>2. CASE RxFinish
      BY <3>2 DEF RxFinish, P!Next
    <3>3. CASE RxCheck \/ RxPullAck \/ RxPullResp \/ RxParsePanics \/ RxSendPanics
               \/ RxNothing
      BY <3>3 DEF RxCheck, RxPullAck, RxPullResp, RxParsePanics, RxSendPanics, RxNothing
    <3> QED BY <2>1, <3>1, <3>2, <3>3 DEF udp_receive_loop
  <2>2. CASE events_loop
    BY <2>2 DEF events_loop, EvNext, EvUplink, EvStats, EvPanics, EvNothing, EvFinish,
                P!Next, P!events_stats
  <2>3. CASE pull_data_loop
    BY <2>3 DEF pull_data_loop, PullLoop, SignalRx, SignalEv, PullReturns
  <2>4. CASE StartOver \/ ServiceRestarts
    BY <2>4 DEF StartOver, ServiceRestarts, Fresh, P!Next
  <2>5. CASE ConnectPanics \/ Concentratord
    BY <2>5 DEF ConnectPanics, Concentratord
  <2>6. CASE UNCHANGED vars
    BY <2>6 DEF vars
  <2> QED BY <2>1, <2>2, <2>3, <2>4, <2>5, <2>6 DEF Next
<1> QED BY <1>1, <1>2, PTL DEF Spec, P!Spec

(* ... and of the downlinks alone.                                           *)
THEOREM ImplementsDownlinkSpec == Spec => D!Spec
<1>1. Init => D!Init
  BY DEF Init
<1>2. [Next]_vars => [D!Next]_(D!vars)
  <2> SUFFICES ASSUME [Next]_vars PROVE D!Next \/ UNCHANGED dVars
    BY DEF D!vars, D!sockVars, dVars
  <2>1. CASE udp_receive_loop
    <3>1. CASE RxPullResp \/ RxParsePanics \/ RxSendPanics
      BY <3>1 DEF RxPullResp, RxParsePanics, RxSendPanics, D!Next, D!handle_pull_resp
    <3>2. CASE RxFinish
      BY <3>2 DEF RxFinish, D!Next, D!handle_pull_resp
    <3>3. CASE RxCheck \/ RxPullAck \/ RxPushAck \/ RxNothing
      BY <3>3 DEF RxCheck, RxPullAck, RxPushAck, RxNothing
    <3> QED BY <2>1, <3>1, <3>2, <3>3 DEF udp_receive_loop
  <2>2. CASE events_loop
    BY <2>2 DEF events_loop, EvNext, EvUplink, EvStats, EvPanics, EvNothing, EvFinish,
                Abort, D!Next
  <2>3. CASE pull_data_loop
    BY <2>3 DEF pull_data_loop, PullLoop, SignalRx, SignalEv, PullReturns, Abort,
                D!Next, dVars
  <2>4. CASE StartOver \/ ServiceRestarts
    BY <2>4 DEF StartOver, ServiceRestarts, Fresh, D!Next
  <2>5. CASE ConnectPanics
    BY <2>5 DEF ConnectPanics
  <2>6. CASE Concentratord
    BY <2>6 DEF Concentratord, D!Next
  <2>7. CASE UNCHANGED vars
    BY <2>7 DEF vars
  <2> QED BY <2>1, <2>2, <2>3, <2>4, <2>5, <2>6, <2>7 DEF Next
<1> QED BY <1>1, <1>2, PTL DEF Spec, D!Spec

-----------------------------------------------------------------------------
(* Lemma: the threads that a session stops return for good, and the receive  *)
(* and the events thread end no session.                                     *)
LEMMA OtherThreads ==
  ASSUME udp_receive_loop \/ events_loop \/ Concentratord
  PROVE  [S!Next]_Phase
<1> USE DEF Phase, Up, Joined, S!Next, S!Abort, S!Stopped, S!Move, kVars
<1>1. CASE RxCheck \/ EvNext
  BY <1>1 DEF RxCheck, EvNext
<1>2. CASE RxPushAck \/ RxPullResp \/ RxNothing \/ RxFinish
  BY <1>2 DEF RxPushAck, RxPullResp, RxNothing, RxFinish
<1>3. CASE RxPullAck
  BY <1>3 DEF RxPullAck, K!handle_pull_ack
<1>4. CASE RxParsePanics \/ RxSendPanics \/ EvPanics
  BY <1>4 DEF RxParsePanics, RxSendPanics, EvPanics, Abort
<1>5. CASE EvUplink \/ EvStats \/ EvNothing \/ EvFinish
  BY <1>5 DEF EvUplink, EvStats, EvNothing, EvFinish
<1>6. CASE Concentratord
  BY <1>6 DEF Concentratord
<1> QED
  BY <1>1, <1>2, <1>3, <1>4, <1>5, <1>6 DEF udp_receive_loop, events_loop

(* Lemma: the PULL_DATA thread gives up, or ends last.                       *)
LEMMA PullThread == ASSUME pull_data_loop PROVE [S!Next]_Phase
<1> USE DEF Phase, Up, Joined, S!Next, S!Move, kVars
<1>1. CASE PullLoop
  BY <1>1 DEF PullLoop, K!CheckAcked, K!SendPullData, K!Wake, S!GiveUp
<1>2. CASE SignalRx \/ SignalEv
  BY <1>2 DEF SignalRx, SignalEv, Abort, S!Abort
<1>3. CASE PullReturns
  BY <1>3 DEF PullReturns, K!Terminate, S!Stopped
<1> QED BY <1>1, <1>2, <1>3 DEF pull_data_loop

(* The three threads, whatever they do, are one session: it is given up,     *)
(* stopped completely, and only then connected anew.                         *)
THEOREM ImplementsSessionSpec == Spec => S!Spec
<1>1. Init => S!Init
  BY DEF Init, K!Init, S!Init, Phase, Up, Joined
<1>2. [Next]_vars => [S!Next]_Phase
  <2> SUFFICES ASSUME [Next]_vars PROVE [S!Next]_Phase
    OBVIOUS
  <2>1. CASE udp_receive_loop \/ events_loop \/ Concentratord
    BY <2>1, OtherThreads
  <2>2. CASE pull_data_loop
    BY <2>2, PullThread
  <2>3. CASE StartOver
    BY <2>3 DEF StartOver, Fresh, K!Start, Phase, Up, Joined, S!Next, S!Reconnect, S!Move
  <2>4. CASE ConnectPanics
    BY <2>4 DEF ConnectPanics, Phase, Up, Joined, S!Next, S!Abort
  <2>5. CASE ServiceRestarts
    BY <2>5 DEF ServiceRestarts, Fresh, K!Start, Phase, Up, Joined, S!Next, S!Begin, S!Move
  <2>6. CASE UNCHANGED vars
    BY <2>6 DEF vars, kVars, Phase, Up, Joined
  <2> QED BY <2>1, <2>2, <2>3, <2>4, <2>5, <2>6 DEF Next
<1> QED BY <1>1, <1>2, PTL DEF Spec, S!Spec
-----------------------------------------------------------------------------
(* What is proved about the parts alone, with the parts' variables for those *)
(* of the proofs' modules.  K, P and D and the parts that these modules      *)
(* extend have the same definitions under two names.                         *)
KP == INSTANCE KeepAliveProofs
PP == INSTANCE PushDataProofs WITH collided <- push_collided
DP == INSTANCE DownlinkProofs

(* Lemma: K!Spec is the specification that KeepAliveProofs is about.         *)
LEMMA SameKeepAlive == K!Spec => KP!Spec
<1>1. K!Init => KP!Init
  BY DEF K!Init, KP!Init
<1>2. [K!Next]_(K!vars) => [KP!Next]_(KP!vars)
  BY DEF K!Next, KP!Next, K!pull_data_loop, KP!pull_data_loop, K!Start, KP!Start,
     K!Crash, KP!Crash, K!handle_pull_ack, KP!handle_pull_ack, K!Remains, KP!Remains,
     K!Deliverable, KP!Deliverable, K!CheckAcked, KP!CheckAcked,
     K!SendPullData, KP!SendPullData, K!Wake, KP!Wake, K!Terminate, KP!Terminate,
     K!vars, KP!vars, K!netVars, KP!netVars, K!countVars, KP!countVars,
     K!Aged, KP!Aged, K!OneMore, KP!OneMore, K!GivesUp, KP!GivesUp,
     K!CountMissed, KP!CountMissed, K!Missed, KP!Missed
<1> QED BY <1>1, <1>2, PTL DEF K!Spec, KP!Spec

(* Lemma: P!Spec is the specification that PushDataProofs is about.          *)
LEMMA SamePushData == P!Spec => PP!Spec
<1>1. P!Init => PP!Init
  BY DEF P!Init, PP!Init, P!NoReport, PP!NoReport
<1>2. [P!Next]_(P!vars) => [PP!Next]_(PP!vars)
  BY DEF P!Next, PP!Next, P!events_stats, PP!events_stats, P!events_up, PP!events_up,
     P!ResetSent, PP!ResetSent, P!ResetAcked, PP!ResetAcked, P!SendStats, PP!SendStats,
     P!MatchAck, PP!MatchAck, P!CountAck, PP!CountAck, P!Restart, PP!Restart,
     P!SendPushData, PP!SendPushData, P!Deliverable, PP!Deliverable,
     P!Remains, PP!Remains, P!Matches, PP!Matches, P!Plus, PP!Plus,
     P!NoReport, PP!NoReport, P!vars, PP!vars, P!counters, PP!counters,
     P!history, PP!history, P!Filtered, PP!Filtered, P!Converts, PP!Converts,
     P!UplinkFrame, PP!UplinkFrame, P!CrcStatus, PP!CrcStatus, P!Time, PP!Time,
     P!RxPkPanics, PP!RxPkPanics, P!events_upPanics, PP!events_upPanics,
     P!events_statsPanics, PP!events_statsPanics
<1> QED BY <1>1, <1>2, PTL DEF P!Spec, PP!Spec

(* Lemma: D!Spec is the specification that DownlinkProofs is about.          *)
LEMMA SameDownlink == D!Spec => DP!Spec
<1>1. D!Init => DP!Init
  BY DEF D!Init, DP!Init, D!Ids, DP!Ids
<1>2. [D!Next]_(D!vars) => [DP!Next]_(DP!vars)
  BY DEF D!Next, DP!Next, D!handle_pull_resp, DP!handle_pull_resp,
     D!SendCommand, DP!SendCommand, D!SendPanics, DP!SendPanics,
     D!ParsePanics, DP!ParsePanics, D!DatrPanics, DP!DatrPanics, D!Crash, DP!Crash,
     D!ReceiveReply, DP!ReceiveReply, D!TimeOut, DP!TimeOut,
     D!Concentratord, DP!Concentratord, D!Reply, DP!Reply, D!LoseRequest, DP!LoseRequest,
     D!Restart, DP!Restart, D!vars, DP!vars, D!sockVars, DP!sockVars, D!TxPk, DP!TxPk,
     D!Converts, DP!Converts, D!SendAllowed, DP!SendAllowed, D!Error, DP!Error,
     D!Results, DP!Results, D!Ids, DP!Ids
<1> QED BY <1>1, <1>2, PTL DEF D!Spec, DP!Spec

(* No interleaving of the three threads, no restart and no abort makes the   *)
(* keepalive go on beyond its limit.                                         *)
THEOREM ForwarderStopsWhenDue == Spec => []K!StopDue
<1>1. KP!Spec => []KP!StopDue
  BY ForwarderAssumption, KP!StopIsDue
<1>2. KP!StopDue => K!StopDue
  BY DEF KP!StopDue, K!StopDue
<1> QED BY <1>1, <1>2, ImplementsKeepAliveSpec, SameKeepAlive, PTL

(* ... nor, in a network that keeps the order of the PULL_ACKs, makes it     *)
(* give a connection up before its limit.                                    *)
THEOREM ForwarderStopsOnlyJustified ==
  ASSUME "reordering" \notin Faults PROVE Spec => []K!StopJustified
<1>1. KP!Spec => []KP!StopJustified
  BY ForwarderAssumption, KP!StopIsJustified DEF KP!Ordered
<1>2. KP!StopJustified => K!StopJustified
  BY DEF KP!StopJustified, K!StopJustified
<1> QED BY <1>1, <1>2, ImplementsKeepAliveSpec, SameKeepAlive, PTL

(* In the forwarder as a whole no datagram is lost from the counters or      *)
(* counted twice, and the reports say of the acknowledged ones what          *)
(* PushData says.                                                            *)
THEOREM ForwarderReportsAreSound ==
  Spec => [](P!CountersConserved /\ P!AckedAtMostSent /\ P!AckedExactly /\ P!ExcessAtMostTwo)
<1>1. PP!Spec => []PP!CountersConserved
  BY ForwarderAssumption, PP!CountersAreConserved DEF PP!CrcStatus
<1>2. PP!Spec => []PP!AckedAtMostSent
  BY ForwarderAssumption, PP!AckedIsAtMostSent DEF PP!CrcStatus
<1>3. PP!Spec => []PP!AckedExactly
  BY ForwarderAssumption, PP!AckedIsExact DEF PP!CrcStatus
<1>4. PP!Spec => []PP!ExcessAtMostTwo
  BY ForwarderAssumption, PP!ExcessIsAtMostTwo DEF PP!CrcStatus
<1>5. PP!CountersConserved => P!CountersConserved
  BY DEF PP!CountersConserved, P!CountersConserved
<1>6. PP!Cardinality(push_acks) = P!Cardinality(push_acks)
  BY DEF PP!Cardinality, P!Cardinality
<1>7. PP!AckedAtMostSent => P!AckedAtMostSent
  BY <1>6 DEF PP!AckedAtMostSent, P!AckedAtMostSent, PP!Acked, P!Acked,
              PP!Stalled, P!Stalled
<1>8. PP!AckedExactly => P!AckedExactly
  BY <1>6 DEF PP!AckedExactly, P!AckedExactly, PP!Acked, P!Acked, PP!Stalled, P!Stalled
<1>9. PP!ExcessAtMostTwo => P!ExcessAtMostTwo
  BY DEF PP!ExcessAtMostTwo, P!ExcessAtMostTwo
<1> QED BY <1>1, <1>2, <1>3, <1>4, <1>5, <1>7, <1>8, <1>9, ImplementsPushDataSpec, SamePushData, PTL

(* In the forwarder as a whole every TX_ACK is true, and sending a command   *)
(* fails only after another one has timed out.                               *)
THEOREM ForwarderTxAcksAreTruthful ==
  Spec => [](D!TxAckTruthful /\ D!SendPanicsOnlyAfterTimeout)
<1>1. DP!Spec => []DP!TxAckTruthful
  BY ForwarderAssumption, DP!TxAckIsTruthful
<1>2. DP!Spec => []DP!SendPanicsOnlyAfterTimeout
  BY ForwarderAssumption, DP!SendPanicIsAfterTimeout
<1>3. DP!TxAckTruthful => D!TxAckTruthful
  BY DEF DP!TxAckTruthful, D!TxAckTruthful, DP!Error, D!Error
<1>4. DP!SendPanicsOnlyAfterTimeout => D!SendPanicsOnlyAfterTimeout
  BY DEF DP!SendPanicsOnlyAfterTimeout, D!SendPanicsOnlyAfterTimeout
<1> QED BY <1>1, <1>2, <1>3, <1>4, ImplementsDownlinkSpec, SameDownlink, PTL

-----------------------------------------------------------------------------
(* The part of TypeOK about what Forwarder adds to its parts.                *)
LoopsTypeOK ==
  /\ rx_loop \in {"check", "recv", "ended"}
  /\ ev_loop \in {"next", "handle", "ended"}
  /\ rx_stop \in BOOLEAN
  /\ ev_stop \in BOOLEAN
  /\ signalled \in {0, 1, 2}
  /\ process \in {"up", "pull_resp", "command", "event", "signal", "connect"}

(* Lemma: every step keeps the types of the loops and channels.              *)
LEMMA LoopsKeep == LoopsTypeOK /\ [Next]_vars => LoopsTypeOK'
<1> SUFFICES ASSUME LoopsTypeOK, [Next]_vars PROVE LoopsTypeOK'
  OBVIOUS
<1> USE DEF LoopsTypeOK, stopVars
<1>1. CASE udp_receive_loop
  BY <1>1 DEF udp_receive_loop, RxCheck, RxPushAck, RxPullAck, RxPullResp,
     RxParsePanics, RxSendPanics, RxNothing, RxFinish, Abort
<1>2. CASE events_loop
  BY <1>2 DEF events_loop, EvNext, EvUplink, EvStats, EvPanics, EvNothing, EvFinish, Abort
<1>3. CASE pull_data_loop
  BY <1>3 DEF pull_data_loop, PullLoop, SignalRx, SignalEv, PullReturns, Abort
<1>4. CASE StartOver \/ ServiceRestarts
  BY <1>4 DEF StartOver, ServiceRestarts, Fresh
<1>5. CASE ConnectPanics \/ Concentratord
  BY <1>5 DEF ConnectPanics, Concentratord
<1>6. CASE UNCHANGED vars
  BY <1>6 DEF vars
<1> QED BY <1>1, <1>2, <1>3, <1>4, <1>5, <1>6 DEF Next

(* The state of the three threads together keeps its types.                  *)
THEOREM TypeCorrect == Spec => []TypeOK
<1>1. KP!Spec => []KP!TypeOK
  BY ForwarderAssumption, KP!TypeCorrect
<1>2. PP!Spec => []PP!TypeOK
  BY ForwarderAssumption, PP!TypeCorrect DEF PP!CrcStatus
<1>3. DP!Spec => []DP!TypeOK
  BY ForwarderAssumption, DP!TypeCorrect
<1>4. Init => LoopsTypeOK
  BY DEF Init, LoopsTypeOK
<1>5. KP!TypeOK => K!TypeOK
  BY DEF KP!TypeOK, KP!PullAck, K!TypeOK, K!PullAck
<1>6. PP!TypeOK => P!TypeOK
  BY DEF PP!TypeOK, PP!PushAck, PP!Report, P!TypeOK, P!PushAck, P!Report
<1>7. DP!TypeOK => D!TypeOK
  BY DEF DP!TypeOK, DP!Ids, DP!Results, DP!Error, D!TypeOK, D!Ids, D!Results, D!Error
<1>8. signalled \in {0, 1, 2} => signalled \in 0 .. 2
  OBVIOUS
<1>9. K!TypeOK /\ P!TypeOK /\ D!TypeOK /\ LoopsTypeOK => TypeOK
  BY <1>8 DEF LoopsTypeOK, TypeOK
<1> QED
  BY <1>1, <1>2, <1>3, <1>4, <1>5, <1>6, <1>7, <1>9, LoopsKeep,
     SameKeepAlive, SamePushData, SameDownlink,
     ImplementsKeepAliveSpec, ImplementsPushDataSpec, ImplementsDownlinkSpec, PTL DEF Spec
=============================================================================
