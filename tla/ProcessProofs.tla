--------------------------- MODULE ProcessProofs ----------------------------
(***************************************************************************)
(* Proofs about Process, for any set of servers: type correctness,         *)
(* SettledStays, and that the session of each server is one of Session,    *)
(* whatever the threads of the others do.                                  *)
(*                                                                         *)
(* The invariant: a thread of a server runs only for a configured server   *)
(* and once main() has read a gateway ID, so the first PULL_DATA finds     *)
(* one, of eight bytes or not.                                             *)
(***************************************************************************)
EXTENDS Process, TLAPS

IdFirst ==
  /\ main_pc \in {"spawn", "join"} /\ Up => gateway_id # "none"
  /\ main_pc \in {"config", "gateway_id"} => \A s \in Servers : session[s] = "none"
  /\ \A s \in Servers : session[s] # "none" => s \in servers

IInv == TypeOK /\ IdFirst

-----------------------------------------------------------------------------
(* Lemma: the initial state satisfies the invariant.                         *)
LEMMA InitHolds == Init => IInv
BY DEF Init, IInv, TypeOK, IdFirst

(* Lemma: both outcomes of an expect are processes.                          *)
LEMMA Expects == ASSUME NEW x, Expect(x) PROVE process' \in {"up", "aborted"}
BY DEF Expect

(* Lemma: main() keeps the invariant.                                        *)
LEMMA MainKeeps == ASSUME IInv, main PROVE IInv'
<1> USE DEF IInv, TypeOK, IdFirst, Up, config, threads
<1>1. CASE ReadConfig
  BY <1>1, Expects DEF ReadConfig
<1>2. CASE GetGatewayId
  BY <1>2 DEF GetGatewayId
<1>3. ASSUME NEW s \in servers, SpawnServer(s) PROVE IInv'
  BY <1>3 DEF SpawnServer
<1>4. CASE SpawnMetrics
  BY <1>4 DEF SpawnMetrics
<1>5. CASE Join
  BY <1>5 DEF Join
<1> QED BY <1>1, <1>2, <1>3, <1>4, <1>5 DEF main

(* Lemma: the thread of a server keeps it as well.                           *)
LEMMA ServerKeeps ==
  ASSUME IInv, NEW s \in Servers, start(s) \/ GiveUp(s) \/ Downlink(s) \/ Convert(s)
  PROVE  IInv'
<1> USE DEF IInv, TypeOK, IdFirst, Up, config, Become, threads
<1>0. session[s] # "none" => main_pc \in {"spawn", "join"} /\ s \in servers
  OBVIOUS
<1>1. CASE Connect(s)
  BY <1>0, <1>1, Expects DEF Connect
<1>2. CASE SendFirst(s)
  BY <1>0, <1>2 DEF SendFirst
<1>3. CASE Reconnect(s)
  BY <1>0, <1>3, Expects DEF Reconnect
<1>4. CASE GiveUp(s) \/ Stopped(s)
  BY <1>0, <1>4 DEF GiveUp, Stopped
<1>5. CASE Downlink(s)
  <2>1. late' = [late EXCEPT ![s] = late[s] \/ "no_reply" \in trouble]
    BY <1>5 DEF Downlink
  <2>2. (late[s] \/ "no_reply" \in trouble) \in BOOLEAN
    OBVIOUS
  <2>3. late' \in [Servers -> BOOLEAN]
    BY <2>1, <2>2
  <2> QED BY <1>0, <1>5, <2>3 DEF Downlink
<1>6. CASE Convert(s)
  BY <1>0, <1>6, Expects DEF Convert
<1> QED BY <1>1, <1>2, <1>3, <1>4, <1>5, <1>6 DEF start

(* Lemma: every step keeps the invariant.                                    *)
LEMMA NextKeeps == IInv /\ [Next]_vars => IInv'
<1> SUFFICES ASSUME IInv, [Next]_vars PROVE IInv'
  OBVIOUS
<1> USE DEF IInv, TypeOK, IdFirst, Up, config, threads
<1>1. CASE Environment
  <2>1. trouble' \subseteq Trouble
    BY <1>1 DEF Environment
  <2> QED BY <1>1, <2>1 DEF Environment
<1>2. CASE main
  BY <1>2, MainKeeps
<1>3. ASSUME NEW s \in Servers, start(s) \/ GiveUp(s) \/ Downlink(s) \/ Convert(s)
      PROVE  IInv'
  BY <1>3, ServerKeeps
<1>4. CASE BindMetrics \/ Scrape
  BY <1>4, Expects DEF BindMetrics, Scrape
<1>5. CASE ServiceRestarts
  BY <1>5 DEF ServiceRestarts
<1>6. CASE UNCHANGED vars
  BY <1>6 DEF vars
<1> QED BY <1>1, <1>2, <1>3, <1>4, <1>5, <1>6 DEF Next

-----------------------------------------------------------------------------
(* Type correctness.                                                         *)
THEOREM TypeCorrect == Spec => []TypeOK
<1>1. IInv => TypeOK
  BY DEF IInv
<1> QED BY <1>1, InitHolds, NextKeeps, PTL DEF Spec

(* Lemma: the thread of a settled server leaves the process settled.         *)
LEMMA ServerStaysSettled ==
  ASSUME IInv, Settled, Quiet, NEW s \in Servers,
         start(s) \/ GiveUp(s) \/ Downlink(s) \/ Convert(s)
  PROVE  Settled'
<1> USE DEF IInv, TypeOK, IdFirst, Settled, Quiet, Up, Idle, config, Become, threads
<1>1. session[s] # "none" => s \in servers
  OBVIOUS
<1>2. CASE Connect(s) \/ SendFirst(s)
  BY <1>1, <1>2 DEF Connect, SendFirst
<1>3. CASE Reconnect(s)
  BY <1>1, <1>3 DEF Reconnect, Expect
<1>4. CASE GiveUp(s) \/ Stopped(s)
  BY <1>1, <1>4 DEF GiveUp, Stopped
<1>5. CASE Downlink(s)
  <2>1. s \in servers /\ process' = "up"
    BY <1>1, <1>5 DEF Downlink
  <2>2. late' = [late EXCEPT ![s] = late[s] \/ "no_reply" \in trouble]
    BY <1>5 DEF Downlink
  <2>3. \A r \in servers : ~late'[r]
    BY <2>1, <2>2
  <2> QED BY <1>5, <2>1, <2>3 DEF Downlink
<1>6. CASE Convert(s)
  BY <1>6 DEF Convert, Expect
<1> QED BY <1>2, <1>3, <1>4, <1>5, <1>6 DEF start

(* A settled process depends no more on its configuration, on the gateway    *)
(* ID, on the metrics address, or on the names of servers it is connected to.*)
THEOREM SettledStaysUp == Spec => SettledStays
<1> DEFINE Stays == Settled /\ Quiet => Settled'
<1>1. IInv /\ [Next]_vars => [Stays]_vars
  <2> SUFFICES ASSUME IInv, Next, Settled, Quiet PROVE Settled'
    OBVIOUS
  <2> USE DEF Settled, Quiet, Up, Idle, config, threads
  <2>1. CASE Environment
    BY <2>1 DEF Environment
  <2>2. CASE main
    BY <2>2 DEF main, ReadConfig, GetGatewayId, SpawnServer, SpawnMetrics, Join
  <2>3. ASSUME NEW s \in Servers, start(s) \/ GiveUp(s) \/ Downlink(s) \/ Convert(s)
        PROVE  Settled'
    BY <2>3, ServerStaysSettled
  <2>4. CASE BindMetrics \/ Scrape
    BY <2>4 DEF BindMetrics, Scrape, Expect
  <2>5. CASE ServiceRestarts
    BY <2>5 DEF ServiceRestarts
  <2> QED BY <2>1, <2>2, <2>3, <2>4, <2>5 DEF Next
<1> QED BY <1>1, InitHolds, NextKeeps, PTL DEF Spec, SettledStays

-----------------------------------------------------------------------------
(* Lemma: a server's thread moves its own session, and aborts all.           *)
LEMMA ServerMoves ==
  ASSUME IInv, NEW s \in Servers, NEW r \in Servers,
         start(r) \/ GiveUp(r) \/ Downlink(r) \/ Convert(r)
  PROVE  [S(s)!Next]_(Phase(s))
<1> USE DEF IInv, TypeOK, Up, config, Become, Expect, Phase, S!Next, S!Move, S!Abort
<1>1. CASE Connect(r) \/ SendFirst(r)
  BY <1>1 DEF Connect, SendFirst, S!Begin
<1>2. CASE Reconnect(r)
  BY <1>2 DEF Reconnect, S!Reconnect
<1>3. CASE GiveUp(r)
  BY <1>3 DEF GiveUp, S!GiveUp
<1>4. CASE Stopped(r)
  BY <1>4 DEF Stopped, S!Stopped
<1>5. CASE Downlink(r)
  BY <1>5 DEF Downlink
<1>6. CASE Convert(r)
  BY <1>6 DEF Convert, threads
<1> QED BY <1>1, <1>2, <1>3, <1>4, <1>5, <1>6 DEF start

(* The process is a session for each server: one that is given up stops      *)
(* completely before it is connected anew, whatever the other servers'       *)
(* threads, the metrics, aborts and restarts do.                             *)
THEOREM SessionsAreImplemented == ASSUME NEW s \in Servers PROVE Spec => S(s)!Spec
<1>1. Init => S(s)!Init
  BY DEF Init, S!Init, Phase
<1>2. IInv /\ [Next]_vars => [S(s)!Next]_(Phase(s))
  <2> SUFFICES ASSUME IInv, [Next]_vars PROVE [S(s)!Next]_(Phase(s))
    OBVIOUS
  <2> USE DEF IInv, TypeOK, Up, Phase, config, threads
  <2>1. CASE Environment
    BY <2>1 DEF Environment
  <2>2. CASE main
    <3> USE DEF S!Next, S!Abort
    <3>1. CASE ReadConfig \/ GetGatewayId \/ SpawnMetrics \/ Join
      BY <2>2, <3>1 DEF ReadConfig, GetGatewayId, SpawnMetrics, Join, Expect
    <3>2. ASSUME NEW r \in servers, SpawnServer(r) PROVE [S(s)!Next]_(Phase(s))
      BY <3>2 DEF SpawnServer
    <3> QED BY <2>2, <3>1, <3>2 DEF main
  <2>3. ASSUME NEW r \in Servers, start(r) \/ GiveUp(r) \/ Downlink(r) \/ Convert(r)
        PROVE  [S(s)!Next]_(Phase(s))
    BY <2>3, ServerMoves
  <2>4. CASE BindMetrics \/ Scrape
    BY <2>4 DEF BindMetrics, Scrape, Expect, S!Next, S!Abort
  <2>5. CASE ServiceRestarts
    BY <2>5 DEF ServiceRestarts
  <2>6. CASE UNCHANGED vars
    BY <2>6 DEF vars
  <2> QED BY <2>1, <2>2, <2>3, <2>4, <2>5, <2>6 DEF Next
<1> QED BY <1>1, <1>2, InitHolds, NextKeeps, PTL DEF Spec, S!Spec
=============================================================================
