---------------------------- MODULE Conversions -----------------------------
(***************************************************************************)
(* The values of a frame on their way: RxPk::from_proto and the            *)
(* serialisation turn an uplink frame of the Concentratord into a JSON     *)
(* object, the server answers with one, and the deserialisation and        *)
(* TxPk::to_proto turn that into a downlink frame.  What a downlink is     *)
(* sent with has to fit the uplink it answers: the same data rate, and a   *)
(* time counted from the uplink's, on the Concentratord's counter of       *)
(* microseconds, which wraps.                                              *)
(*                                                                         *)
(* An optional value is a sequence of at most one element.  Fields that    *)
(* are only copied are left out: frequency, power, channel, RSSI, payload. *)
(***************************************************************************)
EXTENDS Integers, Sequences

CONSTANTS
  Base,         \* values of a byte, 256 in the code
  Counters,     \* of the Concentratord, at the end of an uplink
  Delays,       \* of the server's answer, in microseconds
  Bandwidths,   \* of LoRa frames, in Hz
  Seconds,      \* since the GPS epoch, at the end of an uplink,
  Nanos         \* and nanoseconds

Width == Base * Base * Base * Base    \* values of a u32
Subsecond == {n \in Nat : n < 1000000000}    \* nanoseconds of a time

ConversionsAssumption ==
  /\ Base \in Nat /\ Base >= 2
  /\ Counters \subseteq 0 .. Width - 1
  /\ Delays \subseteq 0 .. Width - 1
  /\ Bandwidths \subseteq 0 .. Width - 1
  /\ Seconds \subseteq Nat
  /\ Nanos \subseteq Subsecond

VARIABLES
  up,       \* the uplink frame converted last, None at first
  rxpk,     \* its object, None if it has none
  txpk,     \* the object the server has answered with, None if it has not
  down,     \* the downlink frame made of that, None if there is none
  outcome   \* of the conversion done last: "ok", "error" or "panic"

vars == <<up, rxpk, txpk, down, outcome>>

None == [none |-> TRUE]
Option(values) == {<<>>} \cup {<<v>> : v \in values}

-----------------------------------------------------------------------------
(* u32::to_be_bytes and from_be_bytes.                                       *)

to_be_bytes(n) ==
  <<n \div (Base * Base * Base), (n \div (Base * Base)) % Base,
    (n \div Base) % Base, n % Base>>

from_be_bytes(b) == ((b[1] * Base + b[2]) * Base + b[3]) * Base + b[4]

-----------------------------------------------------------------------------
(* What an uplink frame has: a context of four bytes, its counter, or none, *)
(* and a modulation that may be any or none.                                 *)
CodeRates == {"Cr45", "Cr46", "Cr47", "Cr48"}
LoraInfo == [kind : {"Lora"}, spreading_factor : {7, 12}, bandwidth : Bandwidths,
             code_rate : {"Cr45", "Cr48", "CrLi48"}]
FskInfo == [kind : {"Fsk"}, datarate : {50000}]
Modulation == LoraInfo \cup FskInfo \cup [kind : {"LrFhss", "None"}]

(* The Concentratord's own notation of its counter: a digit for each weight. *)
Weight == <<Base * Base * Base, Base * Base, Base, 1>>
Context(n) == [i \in 1 .. 4 |-> (n \div Weight[i]) % Base]

UplinkFrame ==
  [rx_info : BOOLEAN, tx_info : BOOLEAN, modulation : Modulation,
   context : {<<>>} \cup {Context(n) : n \in Counters},
   time_since_gps_epoch : Option([seconds : Seconds, nanos : Nanos])]

(* A mutated form of SerialisedDatr: a bitrate is written with a fraction.   *)
SerialisedDatrFraction(modulation) ==
  IF modulation.kind = "Lora"
    THEN [type |-> "text", sf |-> modulation.spreading_factor,
          bw |-> modulation.bandwidth \div 1000]
    ELSE [type |-> "float"]

(* DataRate::serialize: the text SF..BW.. has kHz.                           *)
SerialisedDatr(modulation) ==
  IF modulation.kind = "Lora"
    THEN [type |-> "text", sf |-> modulation.spreading_factor,
          bw |-> modulation.bandwidth \div 1000]
    ELSE [type |-> "integer", n |-> modulation.datarate]

(* CodeRate::serialize: any other one is null, which reads as none.          *)
SerialisedCodr(modulation) ==
  IF modulation.kind = "Lora" /\ modulation.code_rate \in CodeRates
    THEN <<modulation.code_rate>>
    ELSE <<>>

Millis(d) == d.seconds * 1000 + d.nanos \div 1000000

(* The context is copied before the modulation is looked at.                 *)
RxPkPanics(u) == u.rx_info /\ u.tx_info /\ Len(u.context) # 4

RxPkFails(u) == ~u.rx_info \/ ~u.tx_info \/ u.modulation.kind \notin {"Lora", "Fsk"}

RxPk(u) ==
  [tmst |-> from_be_bytes(u.context),
   tmms |-> IF u.time_since_gps_epoch = <<>> THEN <<>>
                                             ELSE <<Millis(u.time_since_gps_epoch[1])>>,
   modu |-> u.modulation.kind,
   datr |-> SerialisedDatr(u.modulation),
   codr |-> SerialisedCodr(u.modulation)]

-----------------------------------------------------------------------------
(* What a server may answer with: at a delay, at once, at a GPS time, with   *)
(* more than one of these or none, usually with the uplink's data rate, and  *)
(* a payload that is Base64 or not.  A number of JSON is a float if it is    *)
(* written with a fraction or an exponent, even as 50000.0, or exceeds a u64.*)
OddDatr == {[type |-> "text", sf |-> 7, bw |-> 5000], [type |-> "malformed"],
            [type |-> "integer", n |-> 50000], [type |-> "integer", n |-> -1],
            [type |-> "float"]}

Answers(r) ==
  [imme : Option(BOOLEAN),
   tmst : Option({(r.tmst + d) % Width : d \in Delays}),
   tmms : IF r.tmms = <<>> THEN {<<>>} ELSE Option({r.tmms[1] + d \div 1000 : d \in Delays}),
   modu : {"Lora", "Fsk"},
   datr : {r.datr} \cup OddDatr,
   codr : {r.codr},
   base64 : BOOLEAN]

(* DataRate::deserialize.  The bandwidth is multiplied as a u32, which wraps *)
(* in a release build, and as_u64() is unwrapped although it is None for a   *)
(* number below zero and for every float.                                    *)
DatrPanics(datr) ==
  \/ datr.type = "float"
  \/ datr.type = "integer" /\ datr.n < 0

(* Mutated forms of DataRate: the bandwidth is left in kHz; it does not wrap.*)
DataRateKhz(datr) ==
  IF datr.type = "text"
    THEN [kind |-> "Lora", spreading_factor |-> datr.sf, bandwidth |-> datr.bw % Width]
    ELSE [kind |-> "Fsk", datarate |-> datr.n % Width]
DataRateWide(datr) ==
  IF datr.type = "text"
    THEN [kind |-> "Lora", spreading_factor |-> datr.sf, bandwidth |-> datr.bw * 1000]
    ELSE [kind |-> "Fsk", datarate |-> datr.n % Width]

DataRate(datr) ==
  IF datr.type = "text"
    THEN [kind |-> "Lora", spreading_factor |-> datr.sf,
          bandwidth |-> (datr.bw * 1000) % Width]
    ELSE [kind |-> "Fsk", datarate |-> datr.n % Width]

(* A time of that many milliseconds.                                         *)
GpsTime(millis) == [seconds |-> millis \div 1000, nanos |-> (millis % 1000) * 1000000]

(* A mutated form of Timing: the time of a class B slot comes first.         *)
TimingGpsFirst(t) ==
  IF t.imme = <<TRUE>>
    THEN [kind |-> "Immediately"]
    ELSE IF t.tmms # <<>>
           THEN [kind |-> "GpsEpoch", time |-> GpsTime(t.tmms[1])]
           ELSE [kind |-> "Delay", delay |-> 0]

Timing(t) ==
  IF t.imme = <<TRUE>>
    THEN [kind |-> "Immediately"]
    ELSE IF t.tmst # <<>>
           THEN [kind |-> "Delay", delay |-> 0]
           ELSE [kind |-> "GpsEpoch", time |-> GpsTime(t.tmms[1])]

TxPkFails(t) ==
  \/ t.datr.type \notin {"text", "integer"}
  \/ DataRate(t.datr).kind # t.modu
  \/ t.imme # <<TRUE>> /\ t.tmst = <<>> /\ t.tmms = <<>>
  \/ ~t.base64

(* TxPk::to_proto.                                                           *)
DownlinkFrame(t) ==
  [modulation |-> DataRate(t.datr),
   code_rate |-> IF t.codr = <<>> THEN "CrUndefined" ELSE t.codr[1],
   timing |-> Timing(t),
   context |-> IF t.tmst = <<>> THEN <<>> ELSE to_be_bytes(t.tmst[1])]

-----------------------------------------------------------------------------
Init == up = None /\ rxpk = None /\ txpk = None /\ down = None /\ outcome = "ok"

(* An uplink frame is converted and sent.                                    *)
Uplink(u) ==
  /\ up = None
  /\ up' = u
  /\ outcome' = IF RxPkPanics(u) THEN "panic" ELSE IF RxPkFails(u) THEN "error" ELSE "ok"
  /\ rxpk' = IF outcome' = "ok" THEN RxPk(u) ELSE None
  /\ UNCHANGED <<txpk, down>>

(* The server's answer is received and converted.                            *)
Downlink(t) ==
  /\ txpk = None
  /\ txpk' = t
  /\ outcome' = IF DatrPanics(t.datr) THEN "panic" ELSE IF TxPkFails(t) THEN "error" ELSE "ok"
  /\ down' = IF outcome' = "ok" THEN DownlinkFrame(t) ELSE None
  /\ UNCHANGED <<up, rxpk>>

(* A conversion keeps nothing for the next one.                              *)
Forget ==
  /\ up # None
  /\ up' = None /\ rxpk' = None /\ txpk' = None /\ down' = None /\ outcome' = "ok"

Next ==
  \/ \E u \in UplinkFrame : Uplink(u)
  \/ rxpk # None /\ \E t \in Answers(rxpk) : Downlink(t)
  \/ Forget

Spec == Init /\ [][Next]_vars

-----------------------------------------------------------------------------
TypeOK ==
  /\ up \in UplinkFrame \cup {None}
  /\ outcome \in {"ok", "error", "panic"}
  /\ rxpk # None => rxpk.tmst \in 0 .. Width - 1 /\ txpk \in Answers(rxpk) \cup {None}
  /\ down # None =>
       /\ down.modulation \in
            [kind : {"Lora"}, spreading_factor : {7, 12}, bandwidth : 0 .. Width - 1]
              \cup [kind : {"Fsk"}, datarate : 0 .. Width - 1]
       /\ down.context \in {<<>>} \cup [1 .. 4 -> 0 .. Base - 1]

(* A downlink is sent when the server asked for it: at once; or at its delay *)
(* after the end of the uplink on the Concentratord's counter, across the    *)
(* wrap of that; or at the GPS time of the uplink plus the delay, in whole   *)
(* milliseconds.  The first that is asked for counts.                        *)
OnTime ==
  down # None =>
    /\ txpk.imme = <<TRUE>> => down.timing.kind = "Immediately"
    /\ \A n \in Counters, d \in Delays :
         (txpk.imme # <<TRUE>> /\ up.context = Context(n)
                               /\ txpk.tmst = <<(rxpk.tmst + d) % Width>>) =>
           /\ down.timing.kind = "Delay"
           /\ down.context = Context((n + d) % Width)
    /\ \A d \in Delays :
         (txpk.imme # <<TRUE>> /\ txpk.tmst = <<>>
                               /\ txpk.tmms = <<rxpk.tmms[1] + d \div 1000>>) =>
           /\ down.timing.kind = "GpsEpoch"
           /\ down.timing.time.nanos \in Subsecond
           /\ Millis(down.timing.time) = Millis(up.time_since_gps_epoch[1]) + d \div 1000

(* An answer with the data rate of its uplink is sent with the spreading     *)
(* factor, the coding rate and the bandwidth of the uplink, of which less    *)
(* than a kHz is cut off.                                                    *)
SameModulation ==
  (down # None /\ txpk.datr = rxpk.datr /\ up.modulation.kind = "Lora")
    => /\ down.modulation.spreading_factor = up.modulation.spreading_factor
       /\ up.modulation.bandwidth - down.modulation.bandwidth \in 0 .. 999
       /\ up.modulation.code_rate \in CodeRates
            => down.code_rate = up.modulation.code_rate

(* What a server takes over from the object of an uplink, the downlink       *)
(* accepts: an answer with the uplink's data rate and modulation, a payload  *)
(* in Base64 and some time to send it at is sent.  It neither fails nor      *)
(* aborts the process, as a data rate in other notations of JSON would.      *)
AnswersAccepted ==
  (/\ txpk # None
   /\ txpk.datr = rxpk.datr /\ txpk.modu = rxpk.modu /\ txpk.base64
   /\ txpk.imme = <<TRUE>> \/ txpk.tmst # <<>> \/ txpk.tmms # <<>>)
    => outcome = "ok" /\ down # None
=============================================================================
