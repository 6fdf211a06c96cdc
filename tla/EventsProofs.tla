---------------------------- MODULE EventsProofs ----------------------------
(***************************************************************************)
(* Proofs about Events, for any queue and any number of events, of which   *)
(* any may be lost, and for any number of rounds: type correctness,        *)
(* InOrder and NothingLost.                                                *)
(*                                                                         *)
(* Both need to know that every event is in one of three places, which the *)
(* steps move it through: the queue, the hand, the handlers.  The numbers  *)
(* of the events grow along the queue, and from each place to the one      *)
(* before it.                                                              *)
(***************************************************************************)
EXTENDS Events, TLAPS

InHand == cmd \in Event

(* What is forwarded is older than what is in hand, and that is older than   *)
(* what is queued, and all of it has been published.                         *)
Ordered ==
  /\ \A i \in 1 .. Len(forwarded) :
       /\ forwarded[i].id <= published
       /\ InHand => forwarded[i].id < cmd.id
       /\ \A j \in 1 .. Len(event_sock) : forwarded[i].id < event_sock[j].id
  /\ InHand => /\ cmd.id <= published
               /\ \A j \in 1 .. Len(event_sock) : cmd.id < event_sock[j].id
  /\ \A j \in 1 .. Len(event_sock) : event_sock[j].id <= published
  /\ \A i, j \in 1 .. Len(event_sock) : i < j => event_sock[i].id < event_sock[j].id

IInv ==
  /\ TypeOK
  /\ ev_loop = "next" => cmd = Nothing
  /\ Ordered
  /\ InOrder
  /\ NothingLost

-----------------------------------------------------------------------------
(* Lemma: what the hand holds when it holds no event.                        *)
LEMMA Empty == /\ Nothing \notin Event /\ Timeout \notin Event
               /\ Nothing.kind \notin Forwarded /\ Timeout.kind \notin Forwarded
BY EventsAssumption DEF Nothing, Timeout, Event, Forwarded

(* Lemma: the initial state satisfies the invariant.                         *)
LEMMA InitHolds == Init => IInv
<1> SUFFICES ASSUME Init PROVE IInv
  OBVIOUS
<1>1. TypeOK
  <2>1. <<>> \in Seq(Event) /\ Len(<<>>) <= HighWater
    BY EventsAssumption
  <2> HIDE DEF Init
  <2>2. 0 \in 0 .. MaxEvents
    BY EventsAssumption
  <2> QED BY <2>1, <2>2 DEF Init, TypeOK
<1>2. Ordered /\ InOrder
  BY Empty DEF Init, Ordered, InHand, InOrder
<1>3. NothingLost /\ cmd = Nothing
  BY DEF Init, NothingLost
<1> QED BY <1>1, <1>2, <1>3 DEF IInv

(* Lemma: types are kept.                                                    *)
LEMMA TypeStep == TypeOK /\ [Next]_vars => TypeOK'
<1> SUFFICES ASSUME TypeOK, [Next]_vars PROVE TypeOK'
  OBVIOUS
<1> USE EventsAssumption DEF TypeOK
<1>1. ASSUME NEW kind \in Kind, Publish(kind) PROVE TypeOK'
  <2> DEFINE event == [id |-> published + 1, kind |-> kind]
  <2>1. event \in Event /\ published' \in 0 .. MaxEvents
    BY <1>1 DEF Publish, Event
  <2>2. CASE Queues
    <3>1. event_sock' = Append(event_sock, event) /\ received' = received \cup {event}
      BY <1>1, <2>2 DEF Publish
    <3>2. event_sock' \in Seq(Event) /\ Len(event_sock') <= HighWater
      BY <2>1, <2>2, <3>1 DEF Queues
    <3> QED BY <1>1, <2>1, <3>1, <3>2 DEF Publish
  <2>3. CASE ~Queues
    BY <1>1, <2>1, <2>3 DEF Publish
  <2> QED BY <2>2, <2>3
<1>2. CASE ConnectOrLose
  BY <1>2 DEF ConnectOrLose
<1>3. CASE NextTimeout
  BY <1>3 DEF NextTimeout, sockVars
<1>4. CASE NextEvent
  <2>1. /\ Head(event_sock) \in Event
        /\ Tail(event_sock) \in Seq(Event)
        /\ Len(Tail(event_sock)) <= HighWater
    BY <1>4 DEF NextEvent
  <2> QED BY <1>4, <2>1 DEF NextEvent
<1>5. CASE Return
  BY <1>5 DEF Return, sockVars
<1>6. CASE Handle
  <2>1. cmd.kind \in Forwarded => cmd \in Event
    BY Empty
  <2>2. forwarded' \in Seq(Event)
    BY <1>6, <2>1 DEF Handle
  <2>3. UNCHANGED <<published, connected, event_sock, received, ev_stop>>
    BY <1>6 DEF Handle, sockVars
  <2>4. /\ cmd' \in Event \cup {Nothing, Timeout}
        /\ ev_loop' \in {"next", "check", "ended"}
    BY <1>6 DEF Handle
  <2>5. connected' \in BOOLEAN /\ ev_stop' \in BOOLEAN
    BY <2>3, Zenon
  <2>6. /\ published' \in 0 .. MaxEvents
        /\ event_sock' \in Seq(Event)
        /\ Len(event_sock') <= HighWater
        /\ received' \subseteq Event
    BY <2>3
  <2> QED BY <2>2, <2>4, <2>5, <2>6
<1>7. CASE Stop
  BY <1>7 DEF Stop, sockVars
<1>8. CASE StartOver
  <2>1. <<>> \in Seq(Event) /\ Len(<<>>) <= HighWater /\ {} \subseteq Event
    OBVIOUS
  <2> QED BY <1>8, <2>1 DEF StartOver
<1>9. CASE UNCHANGED vars
  BY <1>9 DEF vars, sockVars
<1> QED
  BY <1>1, <1>2, <1>3, <1>4, <1>5, <1>6, <1>7, <1>8, <1>9 DEF Next, events_loop

(* Lemma: the three places stay in order.                                    *)
LEMMA OrderStep ==
  ASSUME TypeOK, ev_loop = "next" => cmd = Nothing, Ordered, InOrder, [Next]_vars
  PROVE  (ev_loop' = "next" => cmd' = Nothing) /\ Ordered' /\ InOrder'
<1> DEFINE Goal == (ev_loop' = "next" => cmd' = Nothing) /\ Ordered' /\ InOrder'
<1> USE EventsAssumption DEF TypeOK
<1>0. \A event \in Event : event.id \in Nat
  BY DEF Event
<1>1. ASSUME NEW kind \in Kind, Publish(kind) PROVE Goal
  <2> DEFINE event == [id |-> published + 1, kind |-> kind]
  <2>1. /\ published' = published + 1 /\ published \in Nat
        /\ UNCHANGED <<cmd, ev_loop, forwarded>>
    BY <1>1 DEF Publish
  <2>2. CASE Queues
    <3>1. event_sock' = Append(event_sock, event)
      BY <1>1, <2>2 DEF Publish
    <3>2. /\ Len(event_sock') = Len(event_sock) + 1
          /\ \A j \in 1 .. Len(event_sock) : event_sock'[j] = event_sock[j]
          /\ event_sock'[Len(event_sock) + 1] = event
      BY <3>1
    <3>3. event.id = published + 1
      OBVIOUS
    <3> HIDE DEF event
    <3>4. \A j \in 1 .. Len(event_sock') :
            \/ j \in 1 .. Len(event_sock) /\ event_sock'[j] = event_sock[j]
            \/ j = Len(event_sock) + 1 /\ event_sock'[j].id = published + 1
      BY <3>2, <3>3
    <3>5. \A i \in 1 .. Len(forwarded) : forwarded[i].id \in Nat
      BY <1>0
    <3>6. \A j \in 1 .. Len(event_sock) : event_sock[j].id \in Nat
      BY <1>0
    <3>7. InHand => cmd.id \in Nat
      BY <1>0 DEF InHand
    <3> HIDE DEF TypeOK
    <3>8. \A i \in 1 .. Len(forwarded) :
            /\ forwarded[i].id <= published + 1
            /\ InHand => forwarded[i].id < cmd.id
            /\ \A j \in 1 .. Len(event_sock') : forwarded[i].id < event_sock'[j].id
      <4> SUFFICES ASSUME NEW i \in 1 .. Len(forwarded)
                   PROVE  /\ forwarded[i].id <= published + 1
                          /\ InHand => forwarded[i].id < cmd.id
                          /\ \A j \in 1 .. Len(event_sock') :
                               forwarded[i].id < event_sock'[j].id
        OBVIOUS
      <4>1. /\ forwarded[i].id \in Nat /\ forwarded[i].id <= published
            /\ InHand => forwarded[i].id < cmd.id
            /\ \A j \in 1 .. Len(event_sock) : forwarded[i].id < event_sock[j].id
        BY <3>5 DEF Ordered
      <4> QED BY <2>1, <3>4, <4>1
    <3>9. InHand => /\ cmd.id <= published + 1
                    /\ \A j \in 1 .. Len(event_sock') : cmd.id < event_sock'[j].id
      BY <2>1, <3>4, <3>6, <3>7 DEF Ordered
    <3>10. \A j \in 1 .. Len(event_sock') : event_sock'[j].id <= published + 1
      BY <2>1, <3>4, <3>6 DEF Ordered
    <3>11. \A i, j \in 1 .. Len(event_sock') :
             i < j => event_sock'[i].id < event_sock'[j].id
      BY <2>1, <3>4, <3>6 DEF Ordered
    <3> QED BY <2>1, <3>8, <3>9, <3>10, <3>11 DEF Ordered, InHand, InOrder
  <2>3. CASE ~Queues
    <3>1. event_sock' = event_sock
      BY <1>1, <2>3 DEF Publish
    <3>2. Ordered'
      BY <1>0, <2>1, <3>1 DEF Ordered, InHand
    <3> QED BY <2>1, <3>2 DEF InOrder
  <2> QED BY <2>2, <2>3
<1>2. CASE ConnectOrLose
  BY <1>2 DEF ConnectOrLose, Ordered, InHand, InOrder
<1>3. CASE NextTimeout
  BY <1>3, Empty DEF NextTimeout, sockVars, Ordered, InHand, InOrder
<1>4. CASE NextEvent
  <2>1. /\ cmd = Nothing /\ ev_loop' = "check" /\ event_sock # <<>>
        /\ cmd' = event_sock[1]
        /\ event_sock' = Tail(event_sock)
        /\ UNCHANGED <<published, forwarded>>
    BY <1>4 DEF NextEvent
  <2>2. /\ Len(event_sock) \in Nat \ {0}
        /\ Len(event_sock') = Len(event_sock) - 1
        /\ \A j \in 1 .. Len(event_sock') : event_sock'[j] = event_sock[j + 1]
    BY <2>1
  <2>3. \A j \in 1 .. Len(event_sock') : j + 1 \in 1 .. Len(event_sock) /\ 1 < j + 1
    BY <2>2
  <2>4. 1 \in 1 .. Len(event_sock)
    BY <2>2
  <2>5. Ordered'
    BY <1>0, <2>1, <2>2, <2>3, <2>4 DEF Ordered, InHand
  <2> QED BY <2>1, <2>5 DEF InOrder
<1>5. CASE Return
  BY <1>5 DEF Return, sockVars, Ordered, InHand, InOrder
<1>6. CASE Handle
  <2>1. /\ cmd' = Nothing /\ ~InHand'
        /\ UNCHANGED <<published, event_sock>>
    BY <1>6, Empty DEF Handle, sockVars, InHand
  <2>2. CASE cmd.kind \in Forwarded
    <3>1. forwarded' = Append(forwarded, cmd) /\ InHand
      BY <1>6, <2>2, Empty DEF Handle, InHand
    <3>2. /\ Len(forwarded') = Len(forwarded) + 1
          /\ \A i \in 1 .. Len(forwarded) : forwarded'[i] = forwarded[i]
          /\ forwarded'[Len(forwarded) + 1] = cmd
          /\ DOMAIN forwarded' = 1 .. Len(forwarded')
      BY <3>1 DEF InHand
    <3>3. Ordered'
      BY <2>1, <3>1, <3>2 DEF Ordered
    <3>4. InOrder'
      BY <1>0, <3>1, <3>2 DEF Ordered, InOrder, InHand
    <3> QED BY <2>1, <3>3, <3>4
  <2>3. CASE cmd.kind \notin Forwarded
    <3>1. forwarded' = forwarded
      BY <1>6, <2>3 DEF Handle
    <3> QED BY <2>1, <3>1 DEF Ordered, InOrder
  <2> QED BY <2>2, <2>3
<1>7. CASE Stop
  BY <1>7 DEF Stop, sockVars, Ordered, InHand, InOrder
<1>8. CASE StartOver
  <2>1. /\ cmd' = Nothing /\ ~InHand' /\ Len(event_sock') = 0
        /\ UNCHANGED <<published, forwarded>>
    BY <1>8, Empty DEF StartOver, InHand
  <2> QED BY <2>1 DEF Ordered, InOrder
<1>9. CASE UNCHANGED vars
  BY <1>9 DEF vars, sockVars, Ordered, InHand, InOrder
<1> QED
  BY <1>1, <1>2, <1>3, <1>4, <1>5, <1>6, <1>7, <1>8, <1>9 DEF Next, events_loop

(* Lemma: nothing gets out of the three places but by StartOver.             *)
LEMMA KeptStep ==
  ASSUME TypeOK, ev_loop = "next" => cmd = Nothing, NothingLost, [Next]_vars
  PROVE  NothingLost'
<1> USE EventsAssumption DEF TypeOK
<1>1. ASSUME NEW kind \in Kind, Publish(kind) PROVE NothingLost'
  <2> DEFINE event == [id |-> published + 1, kind |-> kind]
  <2>1. UNCHANGED <<cmd, forwarded>>
    BY <1>1 DEF Publish
  <2>2. CASE Queues
    <3>1. event_sock' = Append(event_sock, event) /\ received' = received \cup {event}
      BY <1>1, <2>2 DEF Publish
    <3> HIDE DEF event
    <3>2. ToSet(event_sock) \cup {event} \subseteq ToSet(event_sock')
      BY <3>1 DEF ToSet
    <3> QED BY <2>1, <3>1, <3>2 DEF NothingLost
  <2>3. CASE ~Queues
    BY <1>1, <2>1, <2>3 DEF Publish, NothingLost
  <2> QED BY <2>2, <2>3
<1>2. CASE ConnectOrLose
  BY <1>2 DEF ConnectOrLose, NothingLost
<1>3. CASE NextTimeout
  <2>1. Nothing.kind \notin Forwarded
    BY Empty
  <2> QED BY <1>3, <2>1 DEF NextTimeout, sockVars, NothingLost
<1>4. CASE NextEvent
  <2>1. /\ cmd = Nothing /\ event_sock # <<>>
        /\ cmd' = event_sock[1]
        /\ event_sock' = Tail(event_sock)
        /\ UNCHANGED <<received, forwarded>>
    BY <1>4 DEF NextEvent
  <2>2. ToSet(event_sock) \subseteq ToSet(event_sock') \cup {cmd'}
    <3>1. /\ DOMAIN event_sock' = 1 .. (Len(event_sock) - 1)
          /\ \A j \in 1 .. (Len(event_sock) - 1) : event_sock'[j] = event_sock[j + 1]
      BY <2>1
    <3>2. SUFFICES ASSUME NEW j \in 1 .. Len(event_sock), j # 1
                   PROVE  event_sock[j] \in ToSet(event_sock')
      BY <2>1 DEF ToSet
    <3>3. j - 1 \in 1 .. (Len(event_sock) - 1) /\ (j - 1) + 1 = j
      BY <3>2
    <3>4. event_sock[j] = event_sock'[j - 1]
      BY <3>1, <3>3
    <3> QED BY <3>1, <3>3, <3>4 DEF ToSet
  <2>3. Nothing.kind \notin Forwarded
    BY Empty
  <2> QED BY <2>1, <2>2, <2>3 DEF NothingLost
<1>5. CASE Return
  BY <1>5 DEF Return, sockVars, NothingLost
<1>6. CASE Handle
  <2>1. UNCHANGED <<event_sock, received>>
    BY <1>6 DEF Handle, sockVars
  <2>2. CASE cmd.kind \in Forwarded
    <3>1. forwarded' = Append(forwarded, cmd)
      BY <1>6, <2>2 DEF Handle
    <3>2. cmd \in Event
      BY <2>2, Empty
    <3>3. ToSet(forwarded) \cup {cmd} \subseteq ToSet(forwarded')
      BY <3>1, <3>2 DEF ToSet
    <3> QED BY <2>1, <3>3 DEF NothingLost
  <2>3. CASE cmd.kind \notin Forwarded
    <3>1. forwarded' = forwarded
      BY <1>6, <2>3 DEF Handle
    <3> QED BY <2>1, <2>3, <3>1 DEF NothingLost
  <2> QED BY <2>2, <2>3
<1>7. CASE Stop
  BY <1>7 DEF Stop, sockVars, NothingLost
<1>8. CASE StartOver
  BY <1>8 DEF StartOver, NothingLost
<1>9. CASE UNCHANGED vars
  BY <1>9 DEF vars, sockVars, NothingLost
<1> QED
  BY <1>1, <1>2, <1>3, <1>4, <1>5, <1>6, <1>7, <1>8, <1>9 DEF Next, events_loop

(* Lemma: the invariant is inductive.                                        *)
LEMMA StepHolds == IInv /\ [Next]_vars => IInv'
BY TypeStep, OrderStep, KeptStep DEF IInv

-----------------------------------------------------------------------------
(* Type correctness, whatever is published, lost or stopped.                 *)
THEOREM TypeCorrect == Spec => []TypeOK
<1>1. Init => TypeOK
  BY InitHolds DEF IInv
<1> QED BY <1>1, TypeStep, PTL DEF Spec

(* events_loop hands the events over in the order of their publication, none *)
(* twice, in and across the rounds of start().                               *)
THEOREM EventsInOrder == Spec => []InOrder
<1>1. IInv => InOrder
  BY DEF IInv
<1> QED BY InitHolds, StepHolds, <1>1, PTL DEF Spec

(* Within a round every uplink frame and report that the socket has queued   *)
(* is handed over, or is still queued or in hand.                            *)
THEOREM NothingIsLost == Spec => []NothingLost
<1>1. IInv => NothingLost
  BY DEF IInv
<1> QED BY InitHolds, StepHolds, <1>1, PTL DEF Spec
=============================================================================
