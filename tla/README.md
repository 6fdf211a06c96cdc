# Verification of the ChirpStack UDP Forwarder

The UDP Forwarder sits on a LoRa gateway between the ChirpStack Concentratord
(ZeroMQ) and one or more network servers that speak the Semtech UDP
packet-forwarder protocol. This directory holds TLA+ modules of its control
logic, TLC configurations that check them on small instances, and proofs that
TLAPS checks for every instance. `PROJECT.json` relates each definition to the
lines it translates, each run to its properties, and each hazard of the code to
the properties that watch it.

## The system

| Part | Source | State | Operations |
| --- | --- | --- | --- |
| Keepalive | `forwarder.rs` `pull_data_loop`, `handle_pull_ack` | `pull_data_token`, `pull_data_token_acked`, `missed_acks` | send PULL_DATA, count failures, take a PULL_ACK, give the connection up |
| Uplinks and statistics | `forwarder.rs` `events_up`, `events_stats`, `handle_push_ack` | `push_data_token`, `push_data_sent`, `push_data_acked`, `rxfw` | filter and forward a frame, make a report, count a PUSH_ACK |
| Downlinks | `forwarder.rs` `handle_pull_resp`, `commands.rs` | the REQ socket | pass a frame to the Concentratord, wait for its reply, send a TX_ACK |
| One server's threads | `forwarder.rs` `start`, `udp_receive_loop`, `events_loop`, `signals.rs` | three threads, two stop channels | spawn, dispatch, stop, join, start over |
| Events | `events.rs`, `forwarder.rs` `events_loop` | the SUB socket and its queue | read an event, an error or a timeout; look for Stop; handle |
| Codec | `structs.rs` | the receive buffer | parse and build the UDP packets, convert to and from the API's messages |
| Metrics | `metrics.rs` | four families, each behind a `LazyLock`; `REGISTRY` behind an `RwLock` | register a family, count, answer a scrape |
| Configuration | `config.rs` | the text read so far | read files, substitute environment variables |
| Process | `main.rs`, `helpers.rs`, `packaging/debian/service` | the threads of servers and of the metrics endpoint, the gateway ID | boot, ask for the gateway ID, spawn, join; abort and be restarted |
| Logging, transport | `logging.rs`, `socket.rs` | none | set up once |

How they interact: for each server `start` makes one `State` and three threads
that share it. The **receive thread** handles one datagram of the server at a
time (PUSH_ACK, PULL_ACK, PULL_RESP) and looks for Stop before each. The
**events thread** reads the Concentratord's events, looks for Stop, and forwards.
The **PULL_DATA thread** sends keepalives; past the limit of unanswered ones it
sends Stop to the other two through a channel each and returns. `start` joins all
three and begins again with a new socket and a new `State`, which resolves the
server's name anew. Every field of the `State` has a mutex of its own, so
nothing that touches two fields is one step. A release build aborts on a panic
(`Cargo.toml`, `panic = "abort"`), so an `unwrap` that fails in any thread ends
the forwarding to all servers; the service manager starts the process again.

What is hard here: the three threads interleave on unrelated locks; UDP loses,
delays, reorders and duplicates; acknowledgements are recognised by random 16-bit
tokens compared with one stored token only; the command socket carries replies
that may be late and are not compared with their request; a stop has to reach
two threads wherever they are; a scrape holds the registry's lock while it writes
to its client, which threads that register a family wait for, and others for
these; and whatever panics in one thread ends the sessions of all servers.

What makes each part correct:

* Keepalive: a connection is given up only when the server left more frames in a
  row unanswered than the limit allows, and then always.
* Uplinks and statistics: each datagram is reported once, and `ackr` relates the
  datagrams sent to those acknowledged.
* Downlinks: a TX_ACK tells the truth about its own downlink, and a Concentratord
  that is slow or gone does no harm.
* Threads: a stop completes, nothing of one round of `start` reaches the next one,
  and the process does not abort.
* Events: they are handled in order and once, and a stop loses no more than it must.
* Codec: what is handled is what was received, an answer is sent when and how the
  server asked for it, and what an uplink says is accepted in an answer to it.
* Metrics: an answer is one of its time, and no scrape holds up the forwarding.
* Configuration: the references of the files, and nothing else, are replaced.
* Process: once it has got going no session ends another one's, unless what comes
  from outside makes a conversion or a read panic; and it recovers when that is gone.

## The modules

### KeepAlive

`pull_pc` is the place of the PULL_DATA thread: `"check"` (lines 196-216),
`"send"` (218-233), `"sleep"` (235), `"signal"` (in `send_signal`), `"done"`.
`CheckAcked`, `SendPullData`, `Wake` and `Terminate` are its steps;
`handle_pull_ack(m)` is the receive thread's. The network and the server are the
set `pull_acks`: each PULL_ACK has a token and whether it answers the frame sent
last (`current`). Sending chooses whether there will be a PULL_ACK at all, which
covers a failed send, a lost frame, a lost PULL_ACK and a server that is down.
`Start` and `Crash` stand for what the rest of the program does to this state.

The step from the check to the send is not one step with the check: a PULL_ACK
may arrive in between. Setting the token and sending are one step, since only the
PULL_DATA thread acts on `pull_data_token` (the receive thread uses it for a log
line).

Four history variables record what really happened, so that properties can
compare it with what the code counts: `answered` (the frame sent last has been
answered), `unanswered` (checks in a row that found it was not), `collided` (the
random token drawn last was acknowledged or on its way already), and `silent`
(unanswered checks in a row without a collision).

### PushData

The events thread's `events_up` is one action: of what it touches, the receive
thread uses the token alone. `events_stats` is three, `ResetSent` (lines 343-345),
`ResetAcked` (346-349) and `SendStats` (351-376), with its locals in `stat`.
`handle_push_ack` is two, `MatchAck` (reads the token and compares, 426-428) and
`CountAck` (434); both other threads may run in between. `push_data_sent` and
`rxfw` belong to the events thread alone, so their updates are part of the steps
next to them. `events_upPanics` and `events_statsPanics` are the panics of
`RxPk::from_proto` and `Stat::from_proto`: a context that has not four bytes
(`structs.rs:255`), looked at before the modulation is, and a time that chrono does
not represent (lines 244 and 359). The server chooses at the sending whether it will answer (`answers`
counts the PUSH_ACKs it sends); loss on the way back is the same choice. A frame
that the CRC filter drops or `RxPk::from_proto` returns an error for changes
nothing and is no step. `reported`, `reports`, `datagrams` are sums over the
reports and the datagrams sent in this round of `start`.

### Downlink

`ParsePanics` is a PULL_RESP whose `datr` is a number that is no `u64` (a negative
one, or one written with a fraction or an exponent), which `PullResp::from_bytes`
unwraps (`structs.rs:112`). `SendCommand` is `handle_pull_resp` up to the poll, `ReceiveReply` the rest when
the socket becomes readable, `TimeOut` the rest when it does not. `SendPanics` is
the `unwrap` of a `sock.send` that fails because the REQ socket still waits for a
reply (ZeroMQ's EFSM). The Concentratord replies to a request once, any time
later, or never; what the reply says is a status, or bytes that do not decode, or
a message that has not exactly one item. Other `PullResp`s that do not parse or
convert are dropped before the socket is used. `Crash` is the panic of another thread. A downlink is named by its number;
`random_token` is taken as that number, so tokens chosen twice by the server are
not modelled.

### Forwarder

The composition: instances of the three modules above on one common state, plus
`rx_loop`, `ev_loop` (where the two loops are between handlers), the two stop
channels, how far `send_signal` has come, and what aborted the process if
anything. Each action conjoins an action of a part with the thread's own
condition: the receive thread handles one datagram at a time (`Handling`), the
events thread looks for Stop only between events, `start` goes on only when all
three have returned (`Joined`). `RxParsePanics`, `RxSendPanics`, `EvPanics`, the two
steps of `send_signal` and `ConnectPanics` are where the process can abort; `Abort`
ends all threads, wherever they are. `StartOver` and `ServiceRestarts` make a new state for all parts at once
(`Fresh`).

### Session

What the rest of the program may rely on of the threads of one server, in one
variable: `"up"`, `"stopping"` once the PULL_DATA thread has given up, `"stopped"`
once all three have returned, `"down"` with the process. `Forwarder` implements it
with `Phase`, fairness included; `Process` uses it for each server and implements
it again, now with the panics of all the others.

### Events

The SUB socket of one round of `start` (`event_sock`, at most `HighWater` events,
connected or not), the Concentratord that publishes whether or not anybody
listens, and `events_loop` with the item in hand (`cmd`). `NextTimeout` and
`NextEvent` are `Reader::next` (a decode error and a timeout are items),
`Return` and `Handle` the loop after its look for Stop. `StartOver` makes a new
socket, which loses what the old one had queued. `Forwarder` has the same loop
without the content of the queue.

### Metrics

`Datagram(t, d)` begins the two `incr_` calls of a thread, the count first. Each
call is `ForceLazy` (the first use of the family takes its `LazyLock`), `register`
(under the registry's write lock) and `Increment`. A connection is `Accept`,
`handle_read`, and the four steps of `handle_write`: the header, the read lock, one
family encoded after the other while counting goes on, the write. The lock is
std's, where a reader waits if a writer waits; `readers` is who holds it. The
unwrap of the read aborts the process (`handle_read_panics`). `floor` remembers the
counters when the lock was taken.

### Process

The process and its service manager. `trouble` is what is wrong around it: the
configuration, the Concentratord's reply, the gateway ID's form or length, the
metrics endpoint's address, input that panics (`"input"`: a scraping client that resets
its connection, PULL_RESPs or events that a conversion panics on), the name of a server;
any of it may come and go at any time (`Environment`). `main_pc` goes through `ReadConfig`,
`GetGatewayId`, `SpawnServer`, `SpawnMetrics` and `Join`; `session[s]` is the thread of
a server, with the connect and the first PULL_DATA before it is a `Session`.
Which servers are configured, and whether the metrics endpoint is, is chosen at
the start and stays. A gateway ID of another length than eight bytes is found out
only by `copy_from_slice` in the first PULL_DATA. `Convert` is a conversion that panics, in
either thread of a server. `late[s]` is what a late reply of
the Concentratord leaves behind in a command socket.

### Datagrams

Bytes: `udp_receive_loop` receives every datagram into one buffer (`Write`), chooses
the handler by the fourth byte (`Dispatch`), which parses the slice of the bytes
received (`Slice`, `from_bytes`); a PULL_RESP is answered by the bytes of a TX_ACK if its
downlink is converted and the Concentratord's reply comes in time, decodes and has one
item (`replied`), and by nothing on each of the paths that return an error before. A
JSON text is one byte. `Datagram` has every prefix, foreign versions and
identifiers, and bytes too many.

### Conversions

Values: an uplink frame, with anything optional missing, becomes a JSON object
(`RxPk`), a server answers with an object (`Answers`), and that becomes a downlink
frame (`DownlinkFrame`). Errors and panics are conditions of their own (`RxPkFails`,
`RxPkPanics`, `TxPkFails`, `DatrPanics`). A number of JSON is an integer or, when it is
written with a fraction or an exponent, a float, of which `as_u64()` is `None` even
where it is whole. `u32` has its wrap, in a base of bytes that
TLC's integers can hold.

### Config

`Configuration::get`: files are read one after the other into one text, then
`ReplaceVariable` replaces one environment variable after the other, in any order;
`replaced` is the order so far. `replace` is `str::replace`; `Meaning` is the reference
definition, which goes over the joined files once: where there is a reference, there
stands the value of the variable replaced first of those it can be read as, and values
are taken as they are. `Arises` is when a pass finds a reference that the files do not
have: one that values, or values and what stands next to them, have made of a
variable whose turn was still to come.

### Sequential and MCSequential

`Sequential` composes the three modules before this one, which share no state: a
behaviour steps one of them and leaves the others as they are. `MCSequential` gives
its constants to TLC: the names, the values and all short configuration files.

### KeepAliveProofs, PushDataProofs, DownlinkProofs, ForwarderProofs, EventsProofs, MetricsProofs, ProcessProofs, SequentialProofs

The theorems, see below.

Definitions whose comment begins with "A mutated form of" are not part of the
specification: each is a plausible mistake in the definition after it, and the
property named for it in `PROJECT.json` fails when it takes that definition's
place.

## The runs

| Run | Question | States |
| --- | --- | --- |
| `keepalive_ordered` | Is a connection given up exactly when it should be, when PULL_ACKs are lost and duplicated but keep their order? | 7,860 |
| `keepalive_reordered` | The same with reordering: **violated** | |
| `pushdata_udp` | Are datagrams reported once, by how much can a report be wrong, and is any PUSH_ACK missed while nothing is pipelined? | 759,832 |
| `pushdata_over` | Is `ackr` a percentage? **violated** | |
| `downlink_late` | Are TX_ACKs true and when does `sock.send` fail? | 4,083 |
| `downlink_timeout` | Is a timeout harmless to the next downlink? **violated** | |
| `forwarder` | What must have happened before a panic; does a stop complete and a silent server lead to a new connection; does a handler survive a restart; do the threads keep what KeepAlive, Downlink and Session promise? | 464,738 |
| `events` | Are events handled in order and once; what does a Stop lose; is it seen without events? | 57,162 |
| `metrics` | Is an answer one of its time; who can be held up by a scrape? | 180,332 |
| `process` | What can end it once it has got going; does it recover; does it end when it has nothing to do; does each server keep its session among the others? | 248,832 |
| `process_reconnect` | Is a connection that is given up followed by a new one? **violated** | |
| `sequential` | What is handled, when and how is an answer sent and is it accepted, what do references become? | 1,585,172 |

### Bounds

* `Tokens`: three for the parts. One equals the token acknowledged last, one may
  be on its way, one is neither, so collisions and their absence both occur; two
  in the composition, where the collisions themselves are not the question.
* `keepalive_max_failures` 2 (1 in the composition): the counter starts, grows,
  is reset half-way and passes the limit. `U32` is the number of values of the
  failure counter, small so that a wrap would be seen.
* `MaxDatagrams` 5: a report that is too high by two takes four datagrams, its
  own included, and one that is too high by three would take five. 4 where no
  report is compared. The bound is checked where an event is taken, so that a
  report that was begun can be sent. 1 in the composition.
* `MaxDownlinks` 4 frames passed to the Concentratord: more than a timeout and its
  late reply need. A PULL_RESP whose `sock.send` fails is not counted, so 1 is
  enough in the composition for the process to abort that way.
* `HighWater` 2 and `MaxEvents` 4: the queue is full, an event is lost there, and
  others come after it, in one round and across two.
* Metrics: two threads and two connections, so that each lock has someone who holds
  it, someone who waits as a reader and someone who waits as a writer; one
  direction, which has both its families. `MaxDatagrams` 4: at 3 an answer cannot
  lack the bytes of more datagrams than there are threads even if bytes were
  counted first.
* Process: every subset of two servers, with and without the metrics endpoint; two
  is the least where one server's panic ends another one's session.
* Datagrams: token bytes 0, an identifier's value and 255; a buffer one byte longer
  than the shortest PULL_RESP. Conversions: counters at 0, in the middle and one
  before the wrap; a bandwidth that is no whole number of kHz and one that wraps
  when multiplied. Config: all files of up to four characters in up to two
  pieces, three variables of which one begins another, values that are empty, a
  letter, a dollar, or a reference: names that overlap, references across the end of a
  file, and values that have a dollar without making a reference all occur where
  `ReferencesReplaced` says something, and so do orders in which it says nothing.
* Histories that count are capped one above what properties compare them with.

### Fairness

Weak fairness of each thread's steps, which is what the operating system's
scheduler gives, and of `start` once its joins return. No fairness of the
network, the server, the Concentratord or the service manager: they may stop for
ever. Process has one fairness more, of the service manager (`Restart=on-failure`
starts a failed process again), which `Recovers` is about. In Metrics a client may
stop reading for ever: that none does is a hypothesis of `CountingEnds`, and
`CountingGoesOn` does without it. Every wait of a thread is bounded in the code (socket read and both polls
100 ms, sleep of the keepalive interval), so the end of a wait is a step of that
thread. `SilenceDetected` and `SilenceReconnects` assume that the server is
silent and no token collides from some point on; both are hypotheses in the
formula, not in the specification.

### What the violations show

* **After a timeout the next downlink aborts the process** (`downlink_timeout`).
  `handle_pull_resp` returns on a timed-out poll and leaves the REQ socket
  waiting; `sock.send(..).unwrap()` (`forwarder.rs:476`) fails on the next
  PULL_RESP. `SendPanicsOnlyAfterTimeout` and `AbortCause` show that `sock.send` fails in
  no other way. (A downlink can also abort the process while it is parsed, see below.)
* **`ackr` may exceed 100 %** (`pushdata_over`). Between the reset of
  `push_data_acked` and the new token a PUSH_ACK still matches; it belongs to a
  datagram of the report before. `ExcessAtMostTwo` bounds the effect and
  `AckedAtMostSent` shows that it evens out over all reports.
* **A late PULL_ACK undoes a newer one** (`keepalive_reordered`), so answered
  frames count as failures. `StopJustified` holds as long as PULL_ACKs keep their
  order.
* **A reconnect may end the process** (`process_reconnect`). The connect after a
  connection was given up is an `expect` (`forwarder.rs:112-114`); when the server's
  name does not resolve at that moment, as may well be when its network is down,
  the sessions of all other servers end too. `Recovers` shows that the service
  manager's restarts bring all of them back once it does, and `SettledStays` that a
  reconnect depends on nothing else: not on the configuration, the gateway ID or the
  metrics address anew, nor on the names of the other servers.

Smaller observations, made while writing the models and not kept as runs:

* `ackr` may stay below 100 % although all datagrams were acknowledged, as only
  the latest token is compared. `AckedExactly` shows that this needs a datagram
  sent before the PUSH_ACK of the one before it has arrived (`pipelined`).
* A PULL_RESP whose `datr` is `-1`, `50000.0` or `5e4` aborts the process
  (`structs.rs:112`), and so does an event whose context has not four bytes (line 255)
  or whose time chrono does not represent (lines 244, 359). These are steps of
  Downlink, PushData, Forwarder and Process. `AnswersAccepted` shows that a data rate
  taken over from an uplink is never one of these.
* With variables `A` and `AB` set, `$AB` in a configuration file becomes the value of
  the one that the environment has first (`config.rs:87-89`), as `ReferencesReplaced`
  says; with `A` set to `$B`, what becomes of `$A` depends on whether `B` comes after
  `A`, which is the one case it leaves open.
* The altitude of a gateway below the sea is reported as 0 (`structs.rs:373`): the
  cast from a float to an unsigned integer saturates.

The configuration's comment that the forwarder reconnects "after the max. number
has been reached" is read as the code does it: on the first failure beyond the
number allowed.

## The theorems

TLAPS proves, for every token set, limit, bound and set of network faults:

| Module | Theorem | States |
| --- | --- | --- |
| all | `TypeCorrect` | `Spec => []TypeOK` |
| KeepAliveProofs | `StopIsJustified` | unless the network reorders, `Spec => []StopJustified` |
| KeepAliveProofs | `StopIsDue` | `Spec => []StopDue` |
| PushDataProofs | `CountersAreConserved` | `Spec => []CountersConserved` |
| PushDataProofs | `AckedIsAtMostSent` | `Spec => []AckedAtMostSent` |
| PushDataProofs | `AckedIsExact` | `Spec => []AckedExactly` |
| PushDataProofs | `ExcessIsAtMostTwo` | `Spec => []ExcessAtMostTwo` |
| DownlinkProofs | `TxAckIsTruthful` | `Spec => []TxAckTruthful` |
| DownlinkProofs | `SendPanicIsAfterTimeout` | `Spec => []SendPanicsOnlyAfterTimeout` |
| ForwarderProofs | `AbortHasCause` | `Spec => []AbortCause` |
| ForwarderProofs | `RestartIsQuiescent` | `Spec => RestartQuiescent` |
| ForwarderProofs | `ImplementsKeepAliveSpec`, `ImplementsPushDataSpec`, `ImplementsDownlinkSpec` | `Spec => K!Spec`, `P!Spec`, `D!Spec` |
| ForwarderProofs | `ImplementsSessionSpec` | `Spec => S!Spec` |
| ForwarderProofs | `ForwarderStopsWhenDue` | `Spec => []K!StopDue` |
| ForwarderProofs | `ForwarderStopsOnlyJustified` | unless the network reorders, `Spec => []K!StopJustified` |
| ForwarderProofs | `ForwarderReportsAreSound` | `Spec => []` of PushData's `CountersConserved`, `AckedAtMostSent`, `AckedExactly`, `ExcessAtMostTwo` |
| ForwarderProofs | `ForwarderTxAcksAreTruthful` | `Spec => []` of Downlink's `TxAckTruthful`, `SendPanicsOnlyAfterTimeout` |
| EventsProofs | `EventsInOrder` | `Spec => []InOrder` |
| EventsProofs | `NothingIsLost` | `Spec => []NothingLost` |
| MetricsProofs | `ScrapesAreFaithful` | `Spec => []ScrapeFaithful` |
| MetricsProofs | `AnswersAreConsistent` | `Spec => []AnswerConsistent` |
| ProcessProofs | `SettledStaysUp` | `Spec => SettledStays` |
| ProcessProofs | `SessionsAreImplemented` | for each server `s`, `Spec => S(s)!Spec` |
| SequentialProofs | `HandledIsWhatWasReceived` | `SeqSpec => []HandledIsReceived` |
| SequentialProofs | `TokenIsEchoed` | `SeqSpec => []TokenEchoed` |
| SequentialProofs | `SentOnTime` | `SeqSpec => []OnTime` |
| SequentialProofs | `SentWithSameModulation` | `SeqSpec => []SameModulation` |
| SequentialProofs | `AnswersAreAccepted` | `SeqSpec => []AnswersAccepted` |
| SequentialProofs | `ReferencesAreReplaced` | `SeqSpec => []ReferencesReplaced` |
| SequentialProofs | `PartsTypeCorrect` | `SeqSpec => []PartsTypeOK` |

Every invariant that a passing run checks is the statement of one of these.

The assumptions are those on the constants: `0` is a token (the initial one), the
limit is a number below the counter's largest value, the bounds are numbers, the
texts `"none"`, `"undecodable"`, `"not_one_item"` are no statuses, no server has the name
of another trouble, the threads that count are finitely many and none is named `"unset"`
or `"set"`, tokens are made of bytes, and a buffer holds a PULL_RESP; a byte has at
least two values, counters, delays and bandwidths are numbers of four bytes,
nanoseconds are less than a second; names of variables are not empty and have no
dollar, values and files are texts. `Forwarder` assumes what its parts do
(`ForwarderAssumption`), `Sequential` too (`PartsAssumption`).

*KeepAlive.* `StopJustified` and `StopDue` speak of what happened, the code of one
counter and two tokens, so neither is inductive. `IInv` adds what ties them
together: an unanswered frame without a collision shows as two different tokens
and no PULL_ACK of an earlier frame carries the new one (`SilenceVisible`); an
answered frame shows as equal tokens and, without reordering, no earlier PULL_ACK
is left (`AnswerVisible`); the counter does not wrap (`CounterBounded`) and lies
between the two histories (`CounterFaithful`). The one step where all of them
meet is `CheckAcked`.

*PushData.* The two sums are inductive once it is known that a report is begun
only where a datagram is left to carry it and that `push_acks` is finite, so that
taking one away lowers its cardinality by one. The proof is one lemma per action;
what sending does is a lemma of its own, as two actions send. `AckedExactly` needs
that a PUSH_ACK can match only while no datagram has followed its own (`Latest`);
`ExcessAtMostTwo` that the counter, the PUSH_ACK that is matched and not yet
counted, and the one that could still match are together never more than two ahead
of what was sent since the reset (`Excess`).

*Downlink.* `TxAckTruthful` rests on the socket and the handler moving in lockstep
(`Lockstep`), on whatever is under way being about the downlink in hand
(`OneDownlink`), and on each reply carrying the verdict on its frame
(`VerdictsFaithful`): from these follows that the one reply `ReceiveReply` finds is
the one it asked for.

*Events.* Every event moves from the queue to the hand and from there to the
handlers; `Ordered` says that numbers grow along the queue and from each place to
the one before it, which a new socket, whose queue is empty, keeps.

*Metrics.* That an answer is one of its time needs that a family in which anything is
counted is registered (`Registration`), and that what a scrape has encoded lies between
the counters at its beginning and now, one value for each family in turn, as the
registry stands still under it (`Encoding`). That bytes do not fall far behind counts
needs a sum: the count of a direction is its bytes and one for each thread that has yet
to add them (`Sums`); and an order: a thread forces the family of the bytes only after
it has counted (`CountFirst`), so the count is registered, and read, first (`Behind`).

*Process.* A thread of a server runs only for a configured server and after main() has
read a gateway ID (`IdFirst`), so in a settled process the threads that can still take a
step are those of the servers and the scrapes, and each panic among these has a cause
that `Quiet` excludes. For the sessions one step of a server's thread moves its own
phase, or ends those of all.

*Datagrams.* What a handler gets is the datagram itself, whatever the buffer held;
two bytes determine a token and are determined by it, so the bytes of a TX_ACK, if
one is sent, are those of the PULL_RESP.

*Conversions.* The invariant (`Converted`) says that an object is that of the frame it
was made of, and an answer one to that object. The rest is arithmetic: the four
digits of a counter are the counter in any base (`FourDigits`, `CounterBytes`), the sum
with a delay wraps to a counter, a bandwidth that was cut to kHz does not wrap when it
is multiplied (`KiloHertz`), and milliseconds are split without a loss (`MillisSplit`).
TLC checks this in base 40, the theorems hold in base 256.

*Config.* The invariant (`Loading`) says that the text is that of the files read so far
and, once all are read, the `Meaning` of the joined files with the variables replaced
so far: the files themselves at first (`MeaningOfNone`), their full meaning at the end.
What `ReplaceVariable` adds is one variable (`OneMore`): place by place of the files,
`replace` goes through what `Meaning` has put there, leaves a value alone
(`ReplaceNone`), replaces a reference that has stayed (`ReferenceStays`, `ReplaceOne`),
and copies anything else. This is so unless a reference begins in a value, or at a
dollar of the files that was none of a reference; `Arises` is exactly that, for each
variable at its turn. What a recursive function over the places of a text
returns is found from the last place to the first: if it were wrong anywhere,
there would be a last place where it is (`Backward`, from the least number of a set).
This is an induction over data that needs no theorem with an operator as its
parameter; that the function exists at all is shown the same way (`ScanExists`).

*Forwarder.* The invariant says that a thread returns only after its own Stop and
Stop is sent in order (`StopInOrder`), so no sender finds its receiver dropped; that
a loop is past the end of an iteration only when its handler is done (`LoopsWait`),
so a joined thread has left nothing behind; and what the command socket knows of a
timeout (`SocketWaits`). The implementation theorems of the parts need no invariant: each
action is an action of one part and leaves the others alone, or starts all anew.
They carry the theorems of the parts over to the composition: `ForwarderStopsWhenDue`
and the three after it. Its types are those of the parts and of the loops and channels
(`LoopsTypeOK`).

Only model-checked: the liveness properties (`SilenceDetected`, `StopSeen`,
`EventsAreHandled`, `CountingEnds`, `CountingGoesOn`, `Recovers`, `IdleEnds`,
`SilenceReconnects`) and the fairness of the parts and of the sessions in a composition
(`ImplementsParts`, `ImplementsSession`, `ImplementsSessions`; their safety parts are
proved), all of which are out of the prover's reach. The runs that expect a
violation have no theorem: they show one behaviour each.

## Plan

1. *Done*: KeepAlive, PushData, Downlink, their composition Forwarder; Session,
   Events, Metrics, Process, Datagrams, Conversions, Config, the composition of
   these three; the proofs of every invariant above.
2. Reports of one round of `start` as theorems about whole reports rather than sums:
   what a server that reads `rxfw`, `ackr` one after the other may conclude.
3. An abstract specification of the metrics endpoint (an answer is a value of some
   time), implemented by Metrics.

## Not modelled

Logging, message texts and layout. Transport inside ZeroMQ beyond the alternation
of the REQ socket and the queue and connection of the SUB socket. Time, except as
the order of steps: a timeout is a step that may happen whenever its condition
allows. Of a frame: fields that are only copied (RSSI, channel, power, payload),
the frequency, which is an `f64` of MHz in the JSON, and the time of day, which is
formatted for a reader (whether chrono can represent it is modelled). The deserialisation of TOML and JSON is a library's.
Partial writes of a scrape's answer. Builds with `panic = "unwind"`, where a panic
ends one thread. Limits the service manager puts on how often it restarts; the
rest of the packaging builds and installs.
