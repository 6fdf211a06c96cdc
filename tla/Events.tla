------------------------------- MODULE Events -------------------------------
(***************************************************************************)
(* The events of one server: the SUB socket that events::get_socket makes, *)
(* Reader::next, which turns it into an endless iterator of events, errors *)
(* and timeouts, and events_loop, which takes one item after the other,    *)
(* looks for Stop, and then handles the item.                              *)
(*                                                                         *)
(* The Concentratord publishes whether or not somebody listens: an event   *)
(* is lost while the socket is not connected and while its queue is full.  *)
(***************************************************************************)
EXTENDS Naturals, Sequences, SequencesExt

CONSTANTS
  HighWater,   \* the events a SUB socket queues
  MaxEvents    \* bound: events published

ASSUME EventsAssumption == HighWater \in Nat /\ MaxEvents \in Nat

(* What an event decodes to; "Garbage" does not decode.                      *)
Kind == {"UplinkFrame", "GatewayStats", "Other", "Garbage"}
Forwarded == {"UplinkFrame", "GatewayStats"}
Event == [id : 1 .. MaxEvents, kind : Kind]

Nothing == [id |-> 0, kind |-> "Nothing"]   \* the loop has no item in hand
Timeout == [id |-> 0, kind |-> "Timeout"]   \* Error::Timeout

VARIABLES
  published,  \* events the Concentratord has published
  connected,  \* the SUB socket has reached the Concentratord
  event_sock, \* State.event_sock: the events it has queued
  cmd,        \* the item events_loop has in hand
  ev_loop,    \* where events_loop is: in the Reader, before the look for Stop, returned
  ev_stop,    \* the channel of the events thread holds a Stop
  forwarded,  \* history: events given to events_up and events_stats, of all rounds
  received    \* history: events the socket of this round has queued

sockVars == <<published, connected, event_sock, received>>
vars == <<sockVars, cmd, ev_loop, ev_stop, forwarded>>

TypeOK ==
  /\ published \in 0 .. MaxEvents
  /\ connected \in BOOLEAN
  /\ event_sock \in Seq(Event)
  /\ Len(event_sock) <= HighWater
  /\ cmd \in Event \cup {Nothing, Timeout}
  /\ ev_loop \in {"next", "check", "ended"}
  /\ ev_stop \in BOOLEAN
  /\ forwarded \in Seq(Event)
  /\ received \subseteq Event

Init ==
  /\ published = 0
  /\ connected = FALSE
  /\ event_sock = <<>>
  /\ cmd = Nothing
  /\ ev_loop = "next"
  /\ ev_stop = FALSE
  /\ forwarded = <<>>
  /\ received = {}

-----------------------------------------------------------------------------
(* The Concentratord and the transport.                                      *)

(* A mutated form of Queues: no limit.                                       *)
QueuesAll == connected

Queues == connected /\ Len(event_sock) < HighWater

Publish(kind) ==
  /\ published < MaxEvents
  /\ published' = published + 1
  /\ LET event == [id |-> published + 1, kind |-> kind]
     IN IF Queues
          THEN /\ event_sock' = Append(event_sock, event)
               /\ received' = received \cup {event}
          ELSE UNCHANGED <<event_sock, received>>
  /\ UNCHANGED <<connected, cmd, ev_loop, ev_stop, forwarded>>

(* The socket connects by itself, and again when the Concentratord went away *)
(* and comes back; what it has queued stays.                                 *)
ConnectOrLose ==
  /\ connected' = ~connected
  /\ UNCHANGED <<published, event_sock, received, cmd, ev_loop, ev_stop, forwarded>>

-----------------------------------------------------------------------------
(* The events thread.                                                        *)

(* A mutated form of NextTimeout: the Reader polls until there is an event.  *)
NextTimeoutNever ==
  /\ ev_loop = "next"
  /\ event_sock # <<>>
  /\ cmd' = Timeout
  /\ ev_loop' = "check"
  /\ UNCHANGED <<sockVars, ev_stop, forwarded>>

(* Reader::next, when nothing can be read for 100 ms.                        *)
NextTimeout ==
  /\ ev_loop = "next"
  /\ event_sock = <<>>
  /\ cmd' = Timeout
  /\ ev_loop' = "check"
  /\ UNCHANGED <<sockVars, ev_stop, forwarded>>

(* Mutated forms of NextEvent: the iterator ends with an event that does not *)
(* decode; the newest event is taken and the older ones are dropped; or they *)
(* are taken later.                                                          *)
NextEventOrNone ==
  /\ ev_loop = "next"
  /\ event_sock # <<>>
  /\ cmd' = Head(event_sock)
  /\ event_sock' = Tail(event_sock)
  /\ ev_loop' = IF cmd'.kind = "Garbage" THEN "ended" ELSE "check"
  /\ UNCHANGED <<published, connected, received, ev_stop, forwarded>>
NextEventNewest ==
  /\ ev_loop = "next"
  /\ event_sock # <<>>
  /\ cmd' = event_sock[Len(event_sock)]
  /\ event_sock' = <<>>
  /\ ev_loop' = "check"
  /\ UNCHANGED <<published, connected, received, ev_stop, forwarded>>
NextEventLast ==
  /\ ev_loop = "next"
  /\ event_sock # <<>>
  /\ cmd' = event_sock[Len(event_sock)]
  /\ event_sock' = SubSeq(event_sock, 1, Len(event_sock) - 1)
  /\ ev_loop' = "check"
  /\ UNCHANGED <<published, connected, received, ev_stop, forwarded>>

(* Reader::next, when the socket is readable: the event is decoded, and the  *)
(* error of one that does not decode is an item as well.                     *)
NextEvent ==
  /\ ev_loop = "next"
  /\ event_sock # <<>>
  /\ cmd' = Head(event_sock)
  /\ event_sock' = Tail(event_sock)
  /\ ev_loop' = "check"
  /\ UNCHANGED <<published, connected, received, ev_stop, forwarded>>

(* Stop has come: return, whatever the item is.                              *)
Return ==
  /\ ev_loop = "check"
  /\ ev_stop
  /\ ev_stop' = FALSE
  /\ ev_loop' = "ended"
  /\ UNCHANGED <<sockVars, cmd, forwarded>>

(* Otherwise an uplink frame or a report goes to its handler; all other      *)
(* items are passed over.                                                    *)
Handle ==
  /\ ev_loop = "check"
  /\ ~ev_stop
  /\ forwarded' = IF cmd.kind \in Forwarded THEN Append(forwarded, cmd) ELSE forwarded
  /\ cmd' = Nothing
  /\ ev_loop' = "next"
  /\ UNCHANGED <<sockVars, ev_stop>>

events_loop == NextTimeout \/ NextEvent \/ Return \/ Handle

-----------------------------------------------------------------------------
(* The PULL_DATA thread sends Stop, once in a round.                         *)
Stop ==
  /\ ev_loop # "ended"
  /\ ev_stop' = TRUE
  /\ UNCHANGED <<sockVars, cmd, ev_loop, forwarded>>

(* start() goes round its loop: a new State with a new socket.  The sender   *)
(* of Stop and the other thread have returned as well by then.               *)
StartOver ==
  /\ ev_loop = "ended"
  /\ connected' = FALSE
  /\ event_sock' = <<>>
  /\ received' = {}
  /\ cmd' = Nothing
  /\ ev_loop' = "next"
  /\ UNCHANGED <<published, ev_stop, forwarded>>

Next ==
  \/ \E kind \in Kind : Publish(kind)
  \/ ConnectOrLose
  \/ events_loop
  \/ Stop
  \/ StartOver

Spec == Init /\ [][Next]_vars

(* The operating system schedules the events thread.                         *)
FairSpec == Spec /\ WF_vars(events_loop)

-----------------------------------------------------------------------------
(* Events are forwarded in the order in which they were published and none   *)
(* twice, also across the rounds of start(), whose sockets know nothing of   *)
(* each other.                                                               *)
InOrder ==
  \A i, j \in DOMAIN forwarded : i < j => forwarded[i].id < forwarded[j].id

(* What the socket of a round has queued is forwarded, is still queued or is *)
(* in hand: the only uplink frames and reports that a Stop can lose are the  *)
(* one in hand and those not read.                                           *)
NothingLost ==
  \A event \in received :
    event.kind \in Forwarded =>
      event = cmd \/ event \in ToSet(event_sock) \/ event \in ToSet(forwarded)

(* A Stop is seen although no event ever comes: the timeout is an item.      *)
StopSeen == ev_stop ~> ev_loop = "ended"

(* An event that is queued gets to its handler unless a Stop is sent: the    *)
(* loop ends for no other reason, whatever events come before it.            *)
EventsAreHandled ==
  \A i \in 1 .. MaxEvents :
    (/\ ev_loop # "ended"
     /\ \E event \in ToSet(event_sock) : event.id = i /\ event.kind \in Forwarded)
      ~> (\E event \in ToSet(forwarded) : event.id = i) \/ ev_stop
=============================================================================
