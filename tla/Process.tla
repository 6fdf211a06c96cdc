------------------------------ MODULE Process -------------------------------
(***************************************************************************)
(* The process: main(), which reads the configuration, asks the            *)
(* Concentratord for the gateway ID, spawns a thread per server, each with *)
(* the loop of forwarder::start in it, and one for the metrics endpoint,   *)
(* and joins them; and the service manager, which starts the process again *)
(* when it has failed.                                                     *)
(*                                                                         *)
(* A release build aborts on a panic, so every expect and unwrap that      *)
(* fails, in any thread, ends the sessions of all servers.  Of a session   *)
(* there is here what Session says, which Forwarder implements, and what   *)
(* can make it panic: its connect, its first PULL_DATA, a downlink after   *)
(* one whose reply was late, and what a conversion panics on.              *)
(***************************************************************************)
EXTENDS Naturals

CONSTANT
  Servers   \* servers that may be configured

(* What may be wrong around the process: the configuration does not parse,   *)
(* the Concentratord does not reply in time, its gateway ID is no hex text   *)
(* or has not eight bytes, the metrics endpoint cannot be bound, what comes  *)
(* in is such that reading it panics, the name of a server does not resolve. *)
(* Of what comes in, that is a scraping client that resets its connection,   *)
(* and PULL_RESPs and events that a conversion panics on.                    *)
Outside == {"config", "no_reply", "not_hex", "not_8_bytes", "bind", "input"}
Trouble == Outside \cup Servers

ASSUME ProcessAssumption == Servers \cap Outside = {}

VARIABLES
  servers,       \* UdpForwarder.servers
  metrics_bind,  \* UdpForwarder.metrics_bind is set
  trouble,       \* what is wrong now
  main_pc,       \* where main() is
  gateway_id,    \* the gateway ID that main() has read: "none", "ok" or "not_8_bytes"
  session,       \* the thread of each server: "none", "connect", "first" (PULL_DATA),
                 \* or a state of its Session
  late,          \* a downlink of the session timed out: its REQ socket cannot send
  metrics,       \* the metrics thread: "none", "bind", "serve"
  process        \* "up", "aborted", or "exited" with success

config == <<servers, metrics_bind>>
threads == <<session, late, metrics>>
vars == <<config, trouble, main_pc, gateway_id, threads, process>>

Up == process = "up"

(* Nothing is configured that a thread would be spawned for.                 *)
Idle == servers = {} /\ ~metrics_bind

TypeOK ==
  /\ servers \subseteq Servers
  /\ metrics_bind \in BOOLEAN
  /\ trouble \subseteq Trouble
  /\ main_pc \in {"config", "gateway_id", "spawn", "join"}
  /\ gateway_id \in {"none", "ok", "not_8_bytes"}
  /\ session \in [Servers -> {"none", "connect", "first", "up", "stopping", "stopped"}]
  /\ late \in [Servers -> BOOLEAN]
  /\ metrics \in {"none", "bind", "serve"}
  /\ process \in {"up", "aborted", "exited"}

Init ==
  /\ servers \in SUBSET Servers
  /\ metrics_bind \in BOOLEAN
  /\ trouble \in SUBSET Trouble
  /\ main_pc = "config"
  /\ gateway_id = "none"
  /\ session = [s \in Servers |-> "none"]
  /\ late = [s \in Servers |-> FALSE]
  /\ metrics = "none"
  /\ process = "up"

Environment ==
  /\ \E x \in Trouble : trouble' \in {trouble \cup {x}, trouble \ {x}}
  /\ UNCHANGED <<config, main_pc, gateway_id, threads, process>>

(* An expect or unwrap: go on, or abort the process when x is wrong.         *)
Expect(x) == process' = IF x \in trouble THEN "aborted" ELSE "up"

-----------------------------------------------------------------------------
(* main() up to the first spawn: Configuration::get and get_gateway_id.      *)

ReadConfig ==
  /\ Up /\ main_pc = "config"
  /\ main_pc' = "gateway_id"
  /\ Expect("config")
  /\ UNCHANGED <<config, trouble, gateway_id, threads>>

(* A mutated form of GetGatewayId: unwrap_or_default, an empty ID.           *)
GetGatewayIdDefault ==
  /\ Up /\ main_pc = "gateway_id"
  /\ main_pc' = "spawn"
  /\ gateway_id' = IF trouble \cap {"no_reply", "not_hex"} # {} THEN "" ELSE "ok"
  /\ UNCHANGED <<config, trouble, threads, process>>

(* One request, and 100 ms for the reply: there is no second attempt.  The   *)
(* length of what is decoded is not looked at.                               *)
GetGatewayId ==
  /\ Up /\ main_pc = "gateway_id"
  /\ main_pc' = "spawn"
  /\ process' = IF trouble \cap {"no_reply", "not_hex"} # {} THEN "aborted" ELSE "up"
  /\ gateway_id' = IF "not_8_bytes" \in trouble THEN "not_8_bytes" ELSE "ok"
  /\ UNCHANGED <<config, trouble, threads>>

-----------------------------------------------------------------------------
(* main() from there: the threads of servers, then that of the metrics.      *)

SpawnServer(s) ==
  /\ Up /\ main_pc = "spawn"
  /\ session[s] = "none"
  /\ session' = [session EXCEPT ![s] = "connect"]
  /\ UNCHANGED <<config, trouble, main_pc, gateway_id, late, metrics, process>>

SpawnMetrics ==
  /\ Up /\ main_pc = "spawn"
  /\ \A s \in servers : session[s] # "none"
  /\ main_pc' = "join"
  /\ metrics' = IF metrics_bind THEN "bind" ELSE "none"
  /\ UNCHANGED <<config, trouble, gateway_id, session, late, process>>

(* A mutated form of Join: the threads are detached.                         *)
JoinNone ==
  /\ Up /\ main_pc = "join"
  /\ process' = "exited"
  /\ UNCHANGED <<config, trouble, main_pc, gateway_id, threads>>

(* No thread of a server or of the metrics endpoint ever returns, so main()  *)
(* returns when there is none.                                               *)
Join ==
  /\ Up /\ main_pc = "join"
  /\ Idle
  /\ process' = "exited"
  /\ UNCHANGED <<config, trouble, main_pc, gateway_id, threads>>

main == ReadConfig \/ GetGatewayId \/ (\E s \in servers : SpawnServer(s)) \/ SpawnMetrics \/ Join

-----------------------------------------------------------------------------
(* forwarder::start of one server.                                           *)

Become(s, state) ==
  /\ session' = [session EXCEPT ![s] = state]
  /\ UNCHANGED <<config, trouble, main_pc, gateway_id, metrics>>

(* Resolve the server's name and connect, at first ...                       *)
Connect(s) ==
  /\ Up /\ session[s] = "connect"
  /\ Expect(s)
  /\ Become(s, "first")
  /\ UNCHANGED late

(* ... where the first PULL_DATA copies the gateway ID to eight bytes ...    *)
SendFirst(s) ==
  /\ Up /\ session[s] = "first"
  /\ process' = IF gateway_id = "ok" THEN "up" ELSE "aborted"
  /\ Become(s, "up")
  /\ UNCHANGED late

(* A mutated form of Reconnect: the threads are not joined.                  *)
ReconnectEarly(s) ==
  /\ Up /\ session[s] = "stopping"
  /\ Expect(s)
  /\ Become(s, "up")
  /\ late' = [late EXCEPT ![s] = FALSE]

(* Another one: it asks the Concentratord for the gateway ID again.          *)
ReconnectAsks(s) ==
  /\ Up /\ session[s] = "stopped"
  /\ process' = IF trouble \cap {s, "no_reply", "not_hex"} # {} THEN "aborted" ELSE "up"
  /\ Become(s, "up")
  /\ late' = [late EXCEPT ![s] = FALSE]

(* ... and when a connection has been given up, with a new State.            *)
Reconnect(s) ==
  /\ Up /\ session[s] = "stopped"
  /\ Expect(s)
  /\ Become(s, "up")
  /\ late' = [late EXCEPT ![s] = FALSE]

GiveUp(s) ==
  /\ Up /\ session[s] = "up"
  /\ Become(s, "stopping")
  /\ UNCHANGED <<late, process>>

Stopped(s) ==
  /\ Up /\ session[s] = "stopping"
  /\ Become(s, "stopped")
  /\ UNCHANGED <<late, process>>

(* handle_pull_resp: a reply that is not in time leaves the socket unable to *)
(* send, and the next downlink panics.                                       *)
Downlink(s) ==
  /\ Up /\ session[s] \in {"up", "stopping"}
  /\ process' = IF late[s] THEN "aborted" ELSE "up"
  /\ late' = [late EXCEPT ![s] = @ \/ "no_reply" \in trouble]
  /\ UNCHANGED <<config, trouble, main_pc, gateway_id, session, metrics>>

(* PullResp::from_bytes, RxPk::from_proto or Stat::from_proto panics; events *)
(* may come before the first PULL_DATA.                                      *)
Convert(s) ==
  /\ Up /\ session[s] \in {"first", "up", "stopping"}
  /\ Expect("input")
  /\ UNCHANGED <<config, trouble, main_pc, gateway_id, threads>>

start(s) == Connect(s) \/ SendFirst(s) \/ Stopped(s) \/ Reconnect(s)

-----------------------------------------------------------------------------
(* metrics::start, and the unwrap in handle_read.                            *)

BindMetrics ==
  /\ Up /\ metrics = "bind"
  /\ metrics' = "serve"
  /\ Expect("bind")
  /\ UNCHANGED <<config, trouble, main_pc, gateway_id, session, late>>

Scrape ==
  /\ Up /\ metrics = "serve"
  /\ Expect("input")
  /\ UNCHANGED <<config, trouble, main_pc, gateway_id, threads>>

-----------------------------------------------------------------------------
(* A mutated form of ServiceRestarts: Restart=always.                        *)
ServiceRestartsAlways ==
  /\ ~Up
  /\ process' = "up"
  /\ main_pc' = "config"
  /\ gateway_id' = "none"
  /\ session' = [s \in Servers |-> "none"]
  /\ late' = [s \in Servers |-> FALSE]
  /\ metrics' = "none"
  /\ UNCHANGED <<config, trouble>>

(* Restart=on-failure: not after a success.                                  *)
ServiceRestarts ==
  /\ process = "aborted"
  /\ process' = "up"
  /\ main_pc' = "config"
  /\ gateway_id' = "none"
  /\ session' = [s \in Servers |-> "none"]
  /\ late' = [s \in Servers |-> FALSE]
  /\ metrics' = "none"
  /\ UNCHANGED <<config, trouble>>

Next ==
  \/ Environment
  \/ main
  \/ \E s \in Servers : start(s) \/ GiveUp(s) \/ Downlink(s) \/ Convert(s)
  \/ BindMetrics \/ Scrape
  \/ ServiceRestarts

Spec == Init /\ [][Next]_vars

(* The operating system schedules the threads, and the service manager       *)
(* restarts a failed service.  Servers may be silent, send downlinks, be     *)
(* scraped, or not.                                                          *)
FairSpec ==
  /\ Spec
  /\ WF_vars(main)
  /\ \A s \in Servers : WF_vars(start(s))
  /\ WF_vars(BindMetrics)
  /\ WF_vars(ServiceRestarts)

-----------------------------------------------------------------------------
(* All threads have got through what they do once.                           *)
Settled ==
  /\ Up /\ main_pc = "join"
  /\ ~Idle
  /\ metrics # "bind"
  /\ \A s \in servers : session[s] \in {"up", "stopping", "stopped"} /\ ~late[s]

(* What a settled process still depends on is not wrong.                     *)
Quiet ==
  /\ trouble \cap {"no_reply", "input"} = {}
  /\ \A s \in servers : session[s] = "stopped" => s \notin trouble

(* A process in which all threads have got going, and no downlink was late,  *)
(* stays so whatever becomes of its configuration, the gateway ID and the    *)
(* metrics address, and of the names of the servers it is not about to       *)
(* connect to again: sessions that give up, stop and reconnect ask for none  *)
(* of these anew, and none of them ends the others.                          *)
SettledStays == [][Settled /\ Quiet => Settled']_vars

(* When nothing is wrong any more, whatever was wrong before, a process that *)
(* has anything to do is up for good from some time on, and with it the      *)
(* session of every server.                                                  *)
Recovers ==
  ~Idle /\ <>[](trouble = {})
    => <>[](Up /\ \A s \in servers : session[s] \in {"up", "stopping", "stopped"})

(* A process with no server and no metrics endpoint configured ends, and is  *)
(* not started again and again to do nothing.                                *)
IdleEnds ==
  Idle /\ <>[](trouble = {}) => <>[](process = "exited")

Phase(s) == IF Up /\ session[s] \notin {"none", "connect", "first"} THEN session[s] ELSE "down"

S(s) == INSTANCE Session WITH session <- Phase(s)

(* For each server the process keeps the promise of a session, the fairness  *)
(* included: what the other servers, the metrics and the restarts do never   *)
(* keeps it from stopping completely and connecting anew, or ends it.        *)
ImplementsSessions ==
  /\ \A s \in Servers : S(s)!Init
  /\ [][\A s \in Servers : [S(s)!Next]_(Phase(s))]_vars
  /\ \A s \in Servers : S(s)!Fairness

(* What README says of keepalive_max_failures: a connection that was given   *)
(* up is followed by a new one.                                              *)
GiveUpReconnects ==
  [][\A s \in Servers :
       session[s] = "stopped" /\ session'[s] # "stopped" => process' = "up"]_vars
=============================================================================
