-------------------------- MODULE SequentialProofs --------------------------
(***************************************************************************)
(* Proofs about the sequential code.                                       *)
(*                                                                         *)
(* Datagrams, for all tokens, texts and buffers: the receive loop takes a  *)
(* datagram for what the server has sent and for nothing else, and a       *)
(* TX_ACK, which a PULL_RESP alone can bring about, carries its token.     *)
(* What a handler gets is the datagram itself, whatever the buffer held,   *)
(* and the two bytes of a token determine it and are determined by it.     *)
(*                                                                         *)
(* Conversions, for all counters, delays, bandwidths and times of any      *)
(* base: a downlink is sent on time and with the modulation of its         *)
(* uplink, and an answer that takes these over from the uplink's object    *)
(* is accepted. The objects are always those of the frames they are made   *)
(* of (Converted), the four digits of a counter are the counter, also      *)
(* where the delay makes it wrap, and seconds and nanoseconds are the      *)
(* milliseconds they are made of.                                          *)
(*                                                                         *)
(* Config, for all names, values and files of any length, in every order:  *)
(* references are replaced. When all files are read, the text is at any    *)
(* time their meaning with the variables replaced so far (Loading), none   *)
(* at first and all at the end. That a pass makes the meaning with one     *)
(* variable more of that with the ones before (OneMore) needs that it      *)
(* finds a reference where the files have one and nowhere else; where it   *)
(* does, one has arisen (Arises).                                          *)
(* What a recursive function returns is found from the last place of the   *)
(* text to its first (Backward): of the places at which it is not so there *)
(* is a last one.                                                          *)
(***************************************************************************)
EXTENDS Sequential, Integers, SequenceTheorems, WellFoundedInduction, TLAPS

Handled(d) == IF Len(d) < 4 THEN Refused ELSE Dispatch(d[4], d)

-----------------------------------------------------------------------------
(* Lemma: a token is given by its two bytes, and its bytes by it.            *)
LEMMA TokenBytes ==
  ASSUME NEW high \in Byte, NEW low \in Byte
  PROVE  /\ high * Base + low \in 0 .. Base * Base - 1
         /\ to_be_bytes(high * Base + low) = <<high, low>>
         /\ \A h, l \in Byte : h * Base + l = high * Base + low => h = high /\ l = low
<1>1. \A b \in Byte : b \in Int /\ 0 <= b /\ b < Base
  BY DEF Byte, Base
<1>2. \A h, l \in Byte : (h * Base + l) \div Base = h /\ (h * Base + l) % Base = l
  BY <1>1 DEF Base
<1>3. \A h, l \in Byte : h * Base + l = high * Base + low => h = high /\ l = low
  <2> SUFFICES ASSUME NEW h \in Byte, NEW l \in Byte, h * Base + l = high * Base + low
               PROVE  h = high /\ l = low
    OBVIOUS
  <2>1. (h * Base + l) \div Base = h /\ (h * Base + l) % Base = l
    BY <1>2
  <2>2. (high * Base + low) \div Base = high /\ (high * Base + low) % Base = low
    BY <1>2
  <2> QED BY <2>1, <2>2
<1>4. high * Base + low \in Int /\ 0 <= high * Base + low /\ high * Base + low < Base * Base
  BY <1>1 DEF Base
<1>5. Base * Base \in Int
  BY DEF Base
<1>6. high * Base + low \in 0 .. Base * Base - 1
  BY <1>4, <1>5
<1> QED BY <1>2, <1>3, <1>6 DEF to_be_bytes

(* Lemma: what may arrive are bytes.                                         *)
LEMMA DatagramIsBytes ==
  ASSUME NEW d \in Datagram
  PROVE  d \in Seq(Byte)
<1>1. PICK version \in {1, PROTOCOL_VERSION}, high \in TokenByte, low \in TokenByte,
           id \in 0 .. 5, text \in {0, Json}, n \in 0 .. 6 :
        d = SubSeq(<<version, high, low, id, text, Json>>, 1, n)
  BY DEF Datagram
<1>2. version \in Byte /\ high \in Byte /\ low \in Byte /\ id \in Byte /\ text \in Byte
      /\ Json \in Byte
  BY DatagramsAssumption DEF Byte, Base, PROTOCOL_VERSION
<1>3. <<version, high, low, id, text, Json>> \in Seq(Byte)
  BY <1>2
<1> QED BY <1>1, <1>3

(* Lemma: a handler gets the datagram, whatever the buffer held.             *)
LEMMA BufferReused ==
  ASSUME NEW d \in Seq(Byte), Len(d) <= BufferSize, NEW buf
  PROVE  Handle(Write(buf, d), Len(d)) = Handled(d)
<1> DEFINE new == Write(buf, d)
<1>1. \A i \in 1 .. Len(d) : new[i] = d[i]
  BY DatagramsAssumption DEF Write
<1>2. Slice(new, Len(d)) = d
  BY <1>1 DEF Slice
<1>3. Len(d) >= 4 => new[4] = d[4]
  BY <1>1
<1>4. CASE Len(d) < 4
  BY <1>4 DEF Handle, Handled
<1>5. CASE ~(Len(d) < 4)
  <2>1. new[4] = d[4]
    BY <1>3, <1>5
  <2> HIDE DEF new
  <2>2. Handle(new, Len(d)) = Handled(d)
    BY <1>2, <1>5, <2>1 DEF Handle, Handled
  <2> QED BY <2>2 DEF new
<1> QED BY <1>4, <1>5

(* Lemma: a datagram is handled as one of the server's if it is one.         *)
LEMMA HandledExactly ==
  ASSUME NEW d \in Seq(Byte), NEW kind \in ServerKind,
         NEW high \in TokenByte, NEW low \in TokenByte
  PROVE  Handled(d) = [kind |-> kind, token |-> high * Base + low]
           <=> d = FromServer(kind, high, low)
<1>1. high \in Byte /\ low \in Byte
  BY DatagramsAssumption
<1>2. Identifier["PUSH_ACK"] = 1 /\ Identifier["PULL_RESP"] = 3 /\ Identifier["PULL_ACK"] = 4
  BY DEF Identifier
<1>3. ASSUME Handled(d) = [kind |-> kind, token |-> high * Base + low]
      PROVE  d = FromServer(kind, high, low)
  <2>1. Handled(d).kind = kind /\ Handled(d).kind # "none"
    BY <1>3 DEF ServerKind
  <2>2. /\ Len(d) >= 4
        /\ \/ d[4] = 1 /\ Handled(d) = from_bytes("PUSH_ACK", d)
           \/ d[4] = 3 /\ Handled(d) = from_bytes("PULL_RESP", d)
           \/ d[4] = 4 /\ Handled(d) = from_bytes("PULL_ACK", d)
    BY <2>1 DEF Handled, Dispatch, Refused
  <2>3. PICK k \in ServerKind : Handled(d) = from_bytes(k, d)
    BY <2>2 DEF ServerKind
  <2>4. /\ k = kind
        /\ LengthFits(kind, d) /\ d[1] = PROTOCOL_VERSION /\ d[4] = Identifier[kind]
        /\ kind = "PULL_RESP" => Len(d) = 5 /\ d[5] = Json
        /\ Handled(d).token = from_be_bytes(d[2], d[3])
    BY <2>1, <2>3 DEF from_bytes, Refused
  <2>5. d[2] \in Byte /\ d[3] \in Byte
    BY <2>2
  <2>6. d[2] = high /\ d[3] = low
    <3>1. from_be_bytes(d[2], d[3]) = high * Base + low
      BY <1>3, <2>4
    <3>2. d[2] * Base + d[3] = high * Base + low
      BY <3>1 DEF from_be_bytes
    <3>3. \A h, l \in Byte : h * Base + l = high * Base + low => h = high /\ l = low
      BY <1>1, TokenBytes
    <3> QED BY <2>5, <3>2, <3>3
  <2>7. CASE kind = "PULL_RESP"
    BY <2>4, <2>6, <2>7 DEF FromServer
  <2>8. CASE kind # "PULL_RESP"
    BY <2>4, <2>6, <2>8 DEF FromServer, LengthFits
  <2> QED BY <2>7, <2>8
<1>4. ASSUME d = FromServer(kind, high, low)
      PROVE  Handled(d) = [kind |-> kind, token |-> high * Base + low]
  <2>1. /\ Len(d) = IF kind = "PULL_RESP" THEN 5 ELSE 4
        /\ d[1] = PROTOCOL_VERSION /\ d[2] = high /\ d[3] = low /\ d[4] = Identifier[kind]
        /\ kind = "PULL_RESP" => d[5] = Json
    BY <1>4 DEF FromServer
  <2>2. from_bytes(kind, d) = [kind |-> kind, token |-> high * Base + low]
    <3>1. LengthFits(kind, d)
      BY <2>1 DEF LengthFits
    <3>2. from_be_bytes(d[2], d[3]) = high * Base + low
      BY <2>1 DEF from_be_bytes
    <3>3. kind = "PULL_RESP" => Len(d) = 5 /\ d[5] = Json
      BY <2>1
    <3> QED BY <2>1, <3>1, <3>2, <3>3, Zenon DEF from_bytes
  <2>3. Handled(d) = from_bytes(kind, d)
    BY <1>2, <2>1 DEF Handled, Dispatch, ServerKind
  <2> QED BY <2>2, <2>3
<1> QED BY <1>3, <1>4

(* Lemma: the token of what is handled as a PULL_RESP is two of its bytes.   *)
LEMMA PullRespToken ==
  ASSUME NEW d \in Seq(Byte), Handled(d).kind = "PULL_RESP"
  PROVE  Len(d) >= 4 /\ Handled(d) = [kind |-> "PULL_RESP", token |-> d[2] * Base + d[3]]
<1>1. Len(d) >= 4 /\ Handled(d) = from_bytes("PULL_RESP", d)
  BY DEF Handled, Dispatch, from_bytes, Refused
<1>2. Handled(d) = [kind |-> "PULL_RESP", token |-> d[2] * Base + d[3]]
  BY <1>1 DEF from_bytes, from_be_bytes, Refused
<1> QED BY <1>1, <1>2

(* Lemma: a datagram that may arrive and has the form of a PULL_RESP has     *)
(* token bytes of a server.                                                  *)
LEMMA TokenByteArrives ==
  ASSUME NEW d \in Datagram, Len(d) >= 4
  PROVE  d[2] \in TokenByte /\ d[3] \in TokenByte
<1>1. PICK version \in {1, PROTOCOL_VERSION}, high \in TokenByte, low \in TokenByte,
           id \in 0 .. 5, text \in {0, Json}, n \in 0 .. 6 :
        d = SubSeq(<<version, high, low, id, text, Json>>, 1, n)
  BY DEF Datagram
<1>2. version \in Byte /\ high \in Byte /\ low \in Byte /\ id \in Byte /\ text \in Byte
      /\ Json \in Byte
  BY DatagramsAssumption DEF Byte, Base, PROTOCOL_VERSION
<1>3. d[2] = high /\ d[3] = low
  BY <1>1, <1>2
<1> QED BY <1>3

(* Lemma: the sequential code handles datagrams as Datagrams does.           *)
LEMMA DatagramsInside == SeqSpec => Spec
<1>1. SeqInit => Init
  BY DEF SeqInit
<1>2. [SeqNext]_<<part, vars, cVars, gVars>> => [Next]_vars
  BY DEF SeqNext
<1> QED BY <1>1, <1>2, PTL DEF SeqSpec, Spec

(* Type correctness: the buffer keeps bytes, and a token fits two of them.   *)
THEOREM TypeCorrect == Spec => []TypeOK
<1>1. Init => TypeOK
  <2>1. 0 \in Byte /\ 0 \in 0 .. Base * Base - 1
    BY DEF Byte, Base
  <2>2. Refused \in [kind : ServerKind \cup {"none"}, token : 0 .. Base * Base - 1]
    BY <2>1 DEF Refused
  <2> QED BY <2>1, <2>2 DEF Init, TypeOK
<1>2. ASSUME TypeOK, [Next]_vars PROVE TypeOK'
  <2>1. ASSUME NEW d \in Datagram, NEW replied \in BOOLEAN, Receive(d, replied)
        PROVE  TypeOK'
    <3>1. d \in Seq(Byte) /\ handled' = Handled(d) /\ buffer' = Write(buffer, d)
      BY <2>1, DatagramIsBytes, BufferReused DEF Receive
    <3>2. buffer' \in [1 .. BufferSize -> Byte]
      BY <1>2, <3>1, DatagramsAssumption DEF TypeOK, Write
    <3>3. CASE Handled(d) = Refused
      <4>1. 0 \in 0 .. Base * Base - 1
        BY DEF Base
      <4> QED BY <3>1, <3>2, <3>3, <4>1 DEF TypeOK, Refused
    <3>4. CASE Handled(d) # Refused
      <4>1. /\ Len(d) >= 4
            /\ \E kind \in ServerKind : Handled(d) = from_bytes(kind, d)
        BY <3>4 DEF Handled, Dispatch, ServerKind
      <4>2. PICK kind \in ServerKind :
              Handled(d) = [kind |-> kind, token |-> d[2] * Base + d[3]]
        BY <3>4, <4>1 DEF from_bytes, from_be_bytes
      <4>3. d[2] \in Byte /\ d[3] \in Byte
        BY <3>1, <4>1
      <4>4. d[2] * Base + d[3] \in 0 .. Base * Base - 1
        BY <4>3, TokenBytes
      <4> QED BY <3>1, <3>2, <4>2, <4>4 DEF TypeOK
    <3> QED BY <3>3, <3>4
  <2>2. CASE UNCHANGED vars
    BY <1>2, <2>2 DEF vars, TypeOK
  <2> QED BY <1>2, <2>1, <2>2 DEF Next
<1> QED BY <1>1, <1>2, PTL DEF Spec

(* A datagram is handled as what the server has sent, and nothing else is,   *)
(* whatever older datagrams have left in the buffer.                         *)
THEOREM HandledIsWhatWasReceived == SeqSpec => []HandledIsReceived
<1>1. Init => HandledIsReceived
  BY DEF Init, HandledIsReceived, Refused, ServerKind, FromServer
<1>2. ASSUME HandledIsReceived, [Next]_vars PROVE HandledIsReceived'
  <2>1. ASSUME NEW d \in Datagram, NEW replied \in BOOLEAN, Receive(d, replied)
        PROVE  HandledIsReceived'
    <3>1. handled' = Handled(d) /\ received' = d
      BY <2>1, DatagramIsBytes, BufferReused DEF Receive
    <3> QED BY <3>1, DatagramIsBytes, HandledExactly DEF HandledIsReceived
  <2>2. CASE UNCHANGED vars
    BY <1>2, <2>2 DEF vars, HandledIsReceived
  <2> QED BY <1>2, <2>1, <2>2 DEF Next
<1> QED BY <1>1, <1>2, DatagramsInside, PTL DEF Spec

-----------------------------------------------------------------------------
(* Lemma: a TX_ACK has thirteen bytes of which the second and third are      *)
(* those of its token.                                                       *)
LEMMA TxAckBytes ==
  ASSUME NEW high \in Byte, NEW low \in Byte, NEW ack, ack = TxAck(high * Base + low)
  PROVE  /\ Len(ack) = 13
         /\ ack[1] = PROTOCOL_VERSION /\ ack[2] = high /\ ack[3] = low /\ ack[4] = 5
<1> DEFINE head == <<PROTOCOL_VERSION, high, low, 5>>
<1>1. /\ to_be_bytes(high * Base + low) = <<high, low>>
      /\ Identifier["TX_ACK"] = 5
  BY TokenBytes DEF Identifier
<1>2. ack = (head \o gateway_id) \o <<Json>>
  <2>1. /\ to_be_bytes(high * Base + low)[1] = high
        /\ to_be_bytes(high * Base + low)[2] = low
    BY <1>1
  <2> QED BY <1>1, <2>1 DEF TxAck
<1>3. /\ head \in Seq(Nat) /\ gateway_id \in Seq(Nat) /\ <<Json>> \in Seq(Nat)
      /\ Len(head) = 4 /\ Len(gateway_id) = 8 /\ Len(<<Json>>) = 1
  BY DatagramsAssumption DEF Byte, Base, PROTOCOL_VERSION, gateway_id
<1>4. head[1] = PROTOCOL_VERSION /\ head[2] = high /\ head[3] = low /\ head[4] = 5
  OBVIOUS
<1> HIDE DEF head
<1>5. /\ head \o gateway_id \in Seq(Nat) /\ Len(head \o gateway_id) = 12
      /\ \A i \in 1 .. 4 : (head \o gateway_id)[i] = head[i]
  <2>1. /\ head \o gateway_id \in Seq(Nat)
        /\ Len(head \o gateway_id) = Len(head) + Len(gateway_id)
        /\ \A i \in 1 .. Len(head) + Len(gateway_id) :
             (head \o gateway_id)[i] =
                IF i <= Len(head) THEN head[i] ELSE gateway_id[i - Len(head)]
    BY <1>3, ConcatProperties, Zenon
  <2>2. Len(head) + Len(gateway_id) = 12
    BY <1>3
  <2>3. \A i \in 1 .. 4 : i \in 1 .. 12 /\ i <= Len(head)
    BY <1>3
  <2> QED BY <2>1, <2>2, <2>3
<1>6. /\ Len((head \o gateway_id) \o <<Json>>) = 13
      /\ \A i \in 1 .. 4 : ((head \o gateway_id) \o <<Json>>)[i] = head[i]
  <2> DEFINE first == head \o gateway_id
  <2>0. first \in Seq(Nat) /\ Len(first) = 12 /\ \A i \in 1 .. 4 : first[i] = head[i]
    BY <1>5, Zenon
  <2> HIDE DEF first
  <2>1. /\ Len(first \o <<Json>>) = Len(first) + Len(<<Json>>)
        /\ \A i \in 1 .. Len(first) + Len(<<Json>>) :
             (first \o <<Json>>)[i] =
                IF i <= Len(first) THEN first[i] ELSE <<Json>>[i - Len(first)]
    BY <1>3, <2>0, ConcatProperties, Zenon
  <2>2. Len(first) + Len(<<Json>>) = 13
    BY <1>3, <2>0
  <2>3. \A i \in 1 .. 4 : i \in 1 .. 13 /\ i <= Len(first)
    BY <2>0
  <2>4. Len(first \o <<Json>>) = 13 /\ \A i \in 1 .. 4 : (first \o <<Json>>)[i] = head[i]
    BY <2>0, <2>1, <2>2, <2>3
  <2> QED BY <2>4 DEF first
<1>7. 1 \in 1 .. 4 /\ 2 \in 1 .. 4 /\ 3 \in 1 .. 4 /\ 4 \in 1 .. 4
  OBVIOUS
<1>8. Len(ack) = 13 /\ \A i \in 1 .. 4 : ack[i] = head[i]
  BY <1>2, <1>6, Zenon
<1>9. ack[1] = head[1] /\ ack[2] = head[2] /\ ack[3] = head[3] /\ ack[4] = head[4]
  BY <1>7, <1>8, Zenon
<1> QED BY <1>4, <1>8, <1>9

(* Whenever a TX_ACK is sent it has the token of the PULL_RESP received last,*)
(* and nothing but a well-formed PULL_RESP is answered by one.               *)
THEOREM TokenIsEchoed == SeqSpec => []TokenEchoed
<1>1. Init => TokenEchoed
  BY DEF Init, TokenEchoed
<1>2. ASSUME TokenEchoed, [Next]_vars PROVE TokenEchoed'
  <2>1. ASSUME NEW d \in Datagram, NEW replied \in BOOLEAN, Receive(d, replied)
        PROVE  TokenEchoed'
    <3>1. /\ handled' = Handled(d) /\ received' = d
          /\ tx_ack' = IF handled'.kind = "PULL_RESP" /\ replied
                         THEN TxAck(handled'.token)
                         ELSE <<>>
      BY <2>1, DatagramIsBytes, BufferReused DEF Receive
    <3> SUFFICES ASSUME tx_ack' # <<>>
                 PROVE  \E high, low \in TokenByte :
                          /\ d = FromServer("PULL_RESP", high, low)
                          /\ Len(tx_ack') = 13
                          /\ tx_ack'[1] = PROTOCOL_VERSION /\ tx_ack'[2] = high
                          /\ tx_ack'[3] = low /\ tx_ack'[4] = 5
      BY <3>1 DEF TokenEchoed
    <3>2. Handled(d).kind = "PULL_RESP" /\ tx_ack' = TxAck(Handled(d).token)
      BY <3>1
    <3>3. Len(d) >= 4 /\ Handled(d) = [kind |-> "PULL_RESP", token |-> d[2] * Base + d[3]]
      BY <3>2, PullRespToken, DatagramIsBytes
    <3>4. d[2] \in TokenByte /\ d[3] \in TokenByte
      BY <3>3, TokenByteArrives
    <3>5. d[2] \in Byte /\ d[3] \in Byte /\ "PULL_RESP" \in ServerKind
      BY <3>4, DatagramsAssumption DEF ServerKind
    <3>6. d = FromServer("PULL_RESP", d[2], d[3])
      BY <3>3, <3>4, <3>5, DatagramIsBytes, HandledExactly
    <3>7. tx_ack' = TxAck(d[2] * Base + d[3])
      BY <3>2, <3>3
    <3>8. /\ Len(tx_ack') = 13
          /\ tx_ack'[1] = PROTOCOL_VERSION /\ tx_ack'[2] = d[2] /\ tx_ack'[3] = d[3]
          /\ tx_ack'[4] = 5
      BY <3>5, <3>7, TxAckBytes
    <3> QED BY <3>4, <3>6, <3>8
  <2>2. CASE UNCHANGED vars
    BY <1>2, <2>2 DEF vars, TokenEchoed
  <2> QED BY <1>2, <2>1, <2>2 DEF Next
<1> QED BY <1>1, <1>2, DatagramsInside, PTL DEF Spec

-----------------------------------------------------------------------------
(* Lemma: a number is its last digit and the number before it.               *)
LEMMA LastDigit ==
  ASSUME NEW b \in Nat, b >= 2, NEW n \in Nat
  PROVE  /\ n \div b \in Nat /\ n % b \in 0 .. b - 1
         /\ n = (b * (n \div b)) + (n % b)
OBVIOUS

(* Lemma: and dividing by two bases is dividing twice.                       *)
LEMMA DivideTwice ==
  ASSUME NEW b \in Nat, b >= 2, NEW c \in Nat, c >= 2, NEW n \in Nat
  PROVE  n \div (b * c) = (n \div b) \div c
<1> DEFINE q == n \div b
           r == n % b
           s == q \div c
           t == q % c
<1>1. q \in Nat /\ r \in 0 .. b - 1 /\ n = (b * q) + r
  BY LastDigit
<1>2. s \in Nat /\ t \in 0 .. c - 1 /\ q = (c * s) + t
  BY <1>1, LastDigit
<1> HIDE DEF q, r, s, t
<1>3. n = ((b * c) * s) + ((b * t) + r)
  BY <1>1, <1>2
<1>4. b * t <= b * (c - 1)
  BY <1>2
<1>5. (b * t) + r < b * c /\ (b * t) + r \in Nat
  BY <1>1, <1>2, <1>4
<1>6. b * c \in Nat /\ b * c > 0
  OBVIOUS
<1>7. \A d \in Nat, rest \in Nat : d > 0 /\ rest < d => ((d * s) + rest) \div d = s
  BY <1>2
<1>8. n \div (b * c) = s
  BY <1>3, <1>5, <1>6, <1>7
<1> QED BY <1>8 DEF s, q

(* Lemma: the four digits of a u32, the highest of which is the rest.        *)
LEMMA FourDigits ==
  ASSUME NEW b \in Nat, b >= 2, NEW n \in 0 .. (b * b * b * b) - 1
  PROVE  \E one, two, three \in Nat :
           /\ one = n \div b /\ two = n \div (b * b) /\ three = n \div (b * b * b)
           /\ three \in 0 .. b - 1 /\ two % b \in 0 .. b - 1
           /\ one % b \in 0 .. b - 1 /\ n % b \in 0 .. b - 1
           /\ ((three * b + (two % b)) * b + (one % b)) * b + (n % b) = n
<1> DEFINE one == n \div b
           two == one \div b
           three == two \div b
<1>1. b * b \in Nat /\ b * b >= 2 /\ n \in Nat /\ b * b * b * b \in Nat
  <2>1. b * b >= 2 * b
    OBVIOUS
  <2> QED BY <2>1
<1>2. one \in Nat /\ n % b \in 0 .. b - 1 /\ n = (b * one) + (n % b)
  BY <1>1, LastDigit
<1>3. two \in Nat /\ one % b \in 0 .. b - 1 /\ one = (b * two) + (one % b)
  BY <1>2, LastDigit
<1>4. three \in Nat /\ two % b \in 0 .. b - 1 /\ two = (b * three) + (two % b)
  BY <1>3, LastDigit
<1>5. n \div (b * b) = two
  BY <1>1, DivideTwice
<1>6. n \div (b * b * b) = three
  <2>1. n \div ((b * b) * b) = (n \div (b * b)) \div b
    BY <1>1, DivideTwice
  <2> QED BY <1>5, <2>1
<1>0. one = n \div b
  OBVIOUS
<1> HIDE DEF one, two, three
<1>7. three < b
  <2>1. SUFFICES ASSUME three >= b PROVE FALSE
    BY <1>4
  <2>2. two >= b * b
    <3>1. b * three >= b * b
      BY <1>4, <2>1
    <3> QED BY <1>1, <1>4, <3>1
  <2>3. one >= b * (b * b)
    <3>1. b * two >= b * (b * b)
      BY <1>1, <1>3, <2>2
    <3> QED BY <1>1, <1>3, <3>1
  <2>4. n >= b * (b * (b * b))
    <3>1. b * one >= b * (b * (b * b))
      BY <1>1, <1>2, <2>3
    <3> QED BY <1>1, <1>2, <3>1
  <2>5. b * (b * (b * b)) = b * b * b * b
    OBVIOUS
  <2> QED BY <1>1, <2>4, <2>5
<1>8. three * b + (two % b) = two
  BY <1>4
<1>9. two * b + (one % b) = one
  BY <1>3
<1>10. one * b + (n % b) = n
  BY <1>2
<1>11. ((three * b + (two % b)) * b + (one % b)) * b + (n % b) = n
  BY <1>8, <1>9, <1>10
<1>12. three \in 0 .. b - 1
  BY <1>4, <1>7
<1> QED BY <1>0, <1>2, <1>3, <1>4, <1>5, <1>6, <1>11, <1>12, Zenon

-----------------------------------------------------------------------------
u32 == 0 .. C!Width - 1

(* Lemma: what is assumed of the constants of Conversions.                   *)
LEMMA Assumed ==
  /\ WordBase \in Nat /\ WordBase >= 2
  /\ Counters \subseteq u32 /\ Delays \subseteq u32 /\ Bandwidths \subseteq u32
  /\ Seconds \subseteq Nat /\ Nanos \subseteq C!Subsecond
  /\ C!Width \in Nat /\ C!Width >= 16
<1>1. C!ConversionsAssumption
  BY PartsAssumption
<1>2. WordBase \in Nat /\ WordBase >= 2
  BY <1>1, SMT DEF C!ConversionsAssumption
<1>3. C!Width \in Nat /\ C!Width >= 16
  <2>1. WordBase * WordBase >= 4 /\ WordBase * WordBase \in Nat
    BY <1>2
  <2>2. WordBase * WordBase * WordBase >= 8 /\ WordBase * WordBase * WordBase \in Nat
    BY <1>2, <2>1
  <2> QED BY <1>2, <2>2 DEF C!Width
<1>4. Counters \subseteq u32 /\ Delays \subseteq u32 /\ Bandwidths \subseteq u32
  BY <1>1, SMT DEF C!ConversionsAssumption, u32
<1>5. Seconds \subseteq Nat /\ Nanos \subseteq C!Subsecond
  BY <1>1, SMT DEF C!ConversionsAssumption
<1> QED BY <1>2, <1>3, <1>4, <1>5, SMT

(* Lemma: to_be_bytes writes a counter as the Concentratord does, and        *)
(* from_be_bytes reads that.                                                 *)
LEMMA CounterBytes ==
  ASSUME NEW n \in u32
  PROVE  /\ C!Context(n) = C!to_be_bytes(n)
         /\ C!from_be_bytes(C!Context(n)) = n
         /\ C!Context(n) \in [1 .. 4 -> 0 .. WordBase - 1]
         /\ Len(C!Context(n)) = 4
<1>1. WordBase \in Nat /\ WordBase >= 2
  BY Assumed
<1>2. n \in 0 .. (WordBase * WordBase * WordBase * WordBase) - 1
  BY DEF u32, C!Width
<1>3. PICK one \in Nat, two \in Nat, three \in Nat :
        /\ one = n \div WordBase /\ two = n \div (WordBase * WordBase)
        /\ three = n \div (WordBase * WordBase * WordBase)
        /\ three \in 0 .. WordBase - 1 /\ two % WordBase \in 0 .. WordBase - 1
        /\ one % WordBase \in 0 .. WordBase - 1 /\ n % WordBase \in 0 .. WordBase - 1
        /\ ((three * WordBase + (two % WordBase)) * WordBase + (one % WordBase)) * WordBase
             + (n % WordBase) = n
  BY <1>1, <1>2, FourDigits
<1>4. three % WordBase = three /\ n \div 1 = n
  <2>1. \A x \in 0 .. WordBase - 1 : x % WordBase = x
    BY <1>1
  <2>2. n \in Int
    BY DEF u32
  <2> QED BY <1>3, <2>1, <2>2
<1>5. C!Context(n) = [i \in 1 .. 4 |-> (n \div C!Weight[i]) % WordBase]
  BY DEF C!Context
<1>6. /\ C!Context(n)[1] = three /\ C!Context(n)[2] = two % WordBase
      /\ C!Context(n)[3] = one % WordBase /\ C!Context(n)[4] = n % WordBase
  BY <1>3, <1>4, <1>5 DEF C!Weight
<1>7. C!to_be_bytes(n) = <<three, two % WordBase, one % WordBase, n % WordBase>>
  BY <1>3 DEF C!to_be_bytes
<1>8. C!Context(n) = <<three, two % WordBase, one % WordBase, n % WordBase>>
  BY <1>5, <1>6
<1>9. C!from_be_bytes(C!Context(n)) = n
  BY <1>3, <1>6 DEF C!from_be_bytes
<1>10. C!Context(n) \in [1 .. 4 -> 0 .. WordBase - 1] /\ Len(C!Context(n)) = 4
  BY <1>3, <1>8
<1> QED BY <1>7, <1>8, <1>9, <1>10

-----------------------------------------------------------------------------
(* What is known of the objects: they are those of the frames they are made  *)
(* of.                                                                       *)
Converted ==
  /\ up = C!None => rxpk = C!None
  /\ rxpk = C!None => txpk = C!None
  /\ txpk = C!None => down = C!None
  /\ up # C!None => up \in C!UplinkFrame
  /\ rxpk # C!None =>
       ~C!RxPkPanics(up) /\ ~C!RxPkFails(up) /\ rxpk = C!RxPk(up)
  /\ txpk # C!None => txpk \in C!Answers(rxpk)
  /\ down # C!None =>
       ~C!DatrPanics(txpk.datr) /\ ~C!TxPkFails(txpk) /\ down = C!DownlinkFrame(txpk)
  /\ outcome \in {"ok", "error", "panic"}
  /\ (txpk # C!None /\ ~C!DatrPanics(txpk.datr) /\ ~C!TxPkFails(txpk)) =>
       outcome = "ok" /\ down # C!None

(* Lemma: a frame, an object and an answer are none of them None.            *)
LEMMA Distinct ==
  /\ \A u \in C!UplinkFrame : u # C!None /\ C!RxPk(u) # C!None
  /\ \A r : \A t \in C!Answers(r) : t # C!None
  /\ \A t : C!DownlinkFrame(t) # C!None
<1>1. \A u \in C!UplinkFrame : DOMAIN u # DOMAIN C!None
  BY DEF C!UplinkFrame, C!None
<1>2. \A u : DOMAIN C!RxPk(u) # DOMAIN C!None
  BY DEF C!RxPk, C!None
<1>3. \A r : \A t \in C!Answers(r) : DOMAIN t # DOMAIN C!None
  BY DEF C!Answers, C!None
<1>4. \A t : DOMAIN C!DownlinkFrame(t) # DOMAIN C!None
  BY DEF C!DownlinkFrame, C!None
<1> QED BY <1>1, <1>2, <1>3, <1>4, Zenon

(* Lemma: every conversion keeps that.                                       *)
LEMMA ConvertedKept == Converted /\ [C!Next]_cVars => Converted'
<1> SUFFICES ASSUME Converted, [C!Next]_cVars PROVE Converted'
  OBVIOUS
<1>1. ASSUME NEW u \in C!UplinkFrame, C!Uplink(u) PROVE Converted'
  <2>1. /\ up' = u /\ txpk' = C!None /\ down' = C!None
        /\ outcome' = IF C!RxPkPanics(u) THEN "panic" ELSE IF C!RxPkFails(u) THEN "error" ELSE "ok"
        /\ rxpk' = IF outcome' = "ok" THEN C!RxPk(u) ELSE C!None
        /\ u # C!None
    BY <1>1, Distinct DEF Converted, C!Uplink
  <2>2. CASE C!RxPkPanics(u) \/ C!RxPkFails(u)
    BY <2>1, <2>2 DEF Converted
  <2>3. CASE ~C!RxPkPanics(u) /\ ~C!RxPkFails(u)
    BY <2>1, <2>3, Distinct DEF Converted
  <2> QED BY <2>2, <2>3
<1>2. ASSUME rxpk # C!None, NEW t \in C!Answers(rxpk), C!Downlink(t) PROVE Converted'
  BY <1>2, Distinct DEF Converted, C!Downlink
<1>3. CASE C!Forget
  BY <1>3 DEF Converted, C!Forget
<1>4. CASE UNCHANGED cVars
  BY <1>4 DEF Converted, cVars
<1> QED BY <1>1, <1>2, <1>3, <1>4 DEF C!Next

(* Lemma: the object of an uplink has the uplink's counter.                  *)
LEMMA UplinkCounter ==
  ASSUME Converted, rxpk # C!None
  PROVE  /\ up \in C!UplinkFrame /\ up.modulation.kind \in {"Lora", "Fsk"}
         /\ rxpk = C!RxPk(up)
         /\ rxpk.tmst \in Counters /\ rxpk.tmst \in u32 /\ up.context = C!Context(rxpk.tmst)
<1>1. up \in C!UplinkFrame /\ rxpk = C!RxPk(up) /\ ~C!RxPkPanics(up) /\ ~C!RxPkFails(up)
  BY DEF Converted
<1>2. Len(up.context) = 4 /\ up.modulation.kind \in {"Lora", "Fsk"}
  BY <1>1 DEF C!RxPkPanics, C!RxPkFails, C!UplinkFrame
<1>3. up.context \in {<<>>} \cup {C!Context(n) : n \in Counters}
  BY <1>1 DEF C!UplinkFrame
<1>4. PICK n \in Counters : up.context = C!Context(n)
  <2>1. Len(<<>>) # 4
    OBVIOUS
  <2>2. up.context # <<>>
    BY <1>2, <2>1
  <2> QED BY <1>3, <2>2, Zenon
<1>5. n \in u32
  BY Assumed
<1>6. rxpk.tmst = n
  BY <1>1, <1>4, <1>5, CounterBytes DEF C!RxPk
<1> QED BY <1>1, <1>2, <1>4, <1>5, <1>6

(* Lemma: a downlink frame is made of an answer to the uplink's object.      *)
LEMMA DownlinkOf ==
  ASSUME Converted, down # C!None
  PROVE  /\ rxpk # C!None /\ txpk \in C!Answers(rxpk)
         /\ ~C!DatrPanics(txpk.datr) /\ ~C!TxPkFails(txpk) /\ down = C!DownlinkFrame(txpk)
BY DEF Converted

(* Lemma: the sum of a counter and a delay wraps to a counter.               *)
LEMMA Wraps ==
  ASSUME NEW x \in u32, NEW d \in Delays
  PROVE  (x + d) % C!Width \in u32
<1>1. x \in Nat /\ d \in Nat /\ C!Width \in Nat /\ C!Width > 0
  BY Assumed DEF u32
<1>2. \A m \in Nat : m % C!Width \in 0 .. C!Width - 1
  BY <1>1
<1> QED BY <1>1, <1>2 DEF u32

(* Lemma: a time in milliseconds is split into seconds and nanoseconds       *)
(* without a loss.                                                           *)
LEMMA MillisSplit ==
  ASSUME NEW x \in Nat
  PROVE  C!Millis(C!GpsTime(x)) = x /\ C!GpsTime(x).nanos \in C!Subsecond
<1>1. x % 1000 \in 0 .. 999 /\ x \div 1000 \in Nat /\ x = (1000 * (x \div 1000)) + (x % 1000)
  BY SMT
<1>2. \A r \in 0 .. 999 : (r * 1000000) \div 1000000 = r
  BY SMT
<1>3. \A r \in 0 .. 999 : r * 1000000 \in C!Subsecond
  BY SMT DEF C!Subsecond
<1>4. C!GpsTime(x).seconds = x \div 1000 /\ C!GpsTime(x).nanos = (x % 1000) * 1000000
  BY SMT DEF C!GpsTime
<1>5. C!Millis(C!GpsTime(x)) = ((x \div 1000) * 1000) + (x % 1000)
  <2>1. (C!GpsTime(x).nanos) \div 1000000 = x % 1000
    BY <1>1, <1>2, <1>4, SMT
  <2> QED BY <1>4, <2>1, SMT DEF C!Millis
<1>6. C!Millis(C!GpsTime(x)) = x
  BY <1>1, <1>5, SMT
<1> QED BY <1>1, <1>3, <1>4, <1>6, SMT

(* Lemma: which of the three times counts.                                   *)
LEMMA WhichTime ==
  ASSUME NEW t
  PROVE  /\ t.imme = <<TRUE>> => C!Timing(t).kind = "Immediately"
         /\ t.imme # <<TRUE>> /\ t.tmst # <<>> => C!Timing(t).kind = "Delay"
         /\ t.imme # <<TRUE>> /\ t.tmst = <<>> =>
              C!Timing(t).kind = "GpsEpoch" /\ C!Timing(t).time = C!GpsTime(t.tmms[1])
BY DEF C!Timing

(* Lemma: a downlink frame is sent on time.                                  *)
LEMMA ConvertedOnTime == ASSUME Converted, down # C!None PROVE C!OnTime
<1>1. /\ rxpk # C!None /\ txpk \in C!Answers(rxpk) /\ down = C!DownlinkFrame(txpk)
      /\ up \in C!UplinkFrame /\ rxpk = C!RxPk(up)
      /\ rxpk.tmst \in u32 /\ up.context = C!Context(rxpk.tmst)
  BY DownlinkOf, UplinkCounter
<1>2. /\ down.timing = C!Timing(txpk)
      /\ down.context = IF txpk.tmst = <<>> THEN <<>> ELSE C!to_be_bytes(txpk.tmst[1])
  BY <1>1 DEF C!DownlinkFrame
<1>3. ASSUME txpk.imme = <<TRUE>> PROVE down.timing.kind = "Immediately"
  BY <1>2, <1>3, WhichTime
<1>4. ASSUME txpk.imme # <<TRUE>>, NEW n \in Counters, NEW d \in Delays,
             up.context = C!Context(n), txpk.tmst = <<(rxpk.tmst + d) % C!Width>>
      PROVE  down.timing.kind = "Delay" /\ down.context = C!Context((n + d) % C!Width)
  <2>1. down.timing.kind = "Delay"
    <3>1. txpk.tmst # <<>>
      BY <1>4
    <3> QED BY <1>2, <1>4, <3>1, WhichTime, Zenon
  <2>2. n = rxpk.tmst
    <3>1. n \in u32
      BY Assumed
    <3>2. C!from_be_bytes(C!Context(n)) = n
      BY <3>1, CounterBytes
    <3>3. C!from_be_bytes(C!Context(rxpk.tmst)) = rxpk.tmst
      BY <1>1, CounterBytes
    <3> QED BY <1>1, <1>4, <3>2, <3>3
  <2>3. down.context = C!to_be_bytes((n + d) % C!Width)
    BY <1>2, <1>4, <2>2
  <2>4. (n + d) % C!Width \in u32
    BY <1>1, <2>2, Wraps
  <2> QED BY <2>1, <2>3, <2>4, CounterBytes
<1>5. ASSUME txpk.imme # <<TRUE>>, NEW d \in Delays,
             txpk.tmst = <<>>, txpk.tmms = <<rxpk.tmms[1] + d \div 1000>>
      PROVE  /\ down.timing.kind = "GpsEpoch"
             /\ down.timing.time.nanos \in C!Subsecond
             /\ C!Millis(down.timing.time) =
                  C!Millis(up.time_since_gps_epoch[1]) + d \div 1000
  <2>1. rxpk.tmms # <<>>
    <3>1. txpk.tmms # <<>>
      BY <1>5
    <3> QED BY <1>1, <3>1 DEF C!Answers
  <2>2. /\ up.time_since_gps_epoch # <<>>
        /\ rxpk.tmms = <<C!Millis(up.time_since_gps_epoch[1])>>
    BY <1>1, <2>1 DEF C!RxPk
  <2>3. C!Millis(up.time_since_gps_epoch[1]) \in Nat
    <3>1. up.time_since_gps_epoch \in C!Option([seconds : Seconds, nanos : Nanos])
      BY <1>1 DEF C!UplinkFrame
    <3>2. up.time_since_gps_epoch[1] \in [seconds : Seconds, nanos : Nanos]
      BY <2>2, <3>1 DEF C!Option
    <3>3. \A time \in [seconds : Seconds, nanos : Nanos] :
            time.seconds \in Nat /\ time.nanos \in Nat
      <4>1. C!Subsecond \subseteq Nat
        BY SMT DEF C!Subsecond
      <4> QED BY <4>1, Assumed
    <3> QED BY <3>2, <3>3, SMT DEF C!Millis
  <2> DEFINE x == C!Millis(up.time_since_gps_epoch[1]) + d \div 1000
  <2>4. x \in Nat
    BY <2>3, Assumed DEF u32
  <2>5. txpk.tmms[1] = x
    BY <1>5, <2>2
  <2> HIDE DEF x
  <2>6. down.timing.kind = "GpsEpoch" /\ down.timing.time = C!GpsTime(x)
    <3>1. C!Timing(txpk).kind = "GpsEpoch" /\ C!Timing(txpk).time = C!GpsTime(txpk.tmms[1])
      <4>1. txpk.imme # <<TRUE>> /\ txpk.tmst = <<>>
        BY <1>5, Zenon
      <4> QED BY <4>1, WhichTime, Zenon
    <3> QED BY <1>2, <2>5, <3>1
  <2>7. down.timing.time.nanos \in C!Subsecond /\ C!Millis(down.timing.time) = x
    BY <2>4, <2>6, MillisSplit
  <2> QED BY <2>6, <2>7 DEF x
<1>6. txpk.imme = <<TRUE>> => down.timing.kind = "Immediately"
  BY <1>3
<1>7. \A n \in Counters, d \in Delays :
        (txpk.imme # <<TRUE>> /\ up.context = C!Context(n)
                              /\ txpk.tmst = <<(rxpk.tmst + d) % C!Width>>) =>
          down.timing.kind = "Delay" /\ down.context = C!Context((n + d) % C!Width)
  BY <1>4
<1>8. \A d \in Delays :
        (txpk.imme # <<TRUE>> /\ txpk.tmst = <<>>
                              /\ txpk.tmms = <<rxpk.tmms[1] + d \div 1000>>) =>
          /\ down.timing.kind = "GpsEpoch"
          /\ down.timing.time.nanos \in C!Subsecond
          /\ C!Millis(down.timing.time) = C!Millis(up.time_since_gps_epoch[1]) + d \div 1000
  BY <1>5
<1> QED BY <1>6, <1>7, <1>8, Zenon DEF C!OnTime

(* Lemma: the data rates an object or an answer has.                         *)
LEMMA DatrOf ==
  ASSUME Converted, rxpk # C!None
  PROVE  /\ up.modulation.kind = "Lora" =>
              /\ up.modulation.bandwidth \in u32
              /\ up.modulation.spreading_factor \in {7, 12}
              /\ rxpk.datr = [type |-> "text", sf |-> up.modulation.spreading_factor,
                              bw |-> up.modulation.bandwidth \div 1000]
         /\ up.modulation.kind # "Lora" => rxpk.datr = [type |-> "integer", n |-> 50000]
<1>1. /\ up \in C!UplinkFrame /\ up.modulation.kind \in {"Lora", "Fsk"} /\ rxpk = C!RxPk(up)
  BY UplinkCounter
<1>2. up.modulation \in C!LoraInfo \cup C!FskInfo \cup [kind : {"LrFhss", "None"}]
  BY <1>1 DEF C!UplinkFrame, C!Modulation
<1>3. rxpk.datr = C!SerialisedDatr(up.modulation)
  BY <1>1 DEF C!RxPk
<1>4. CASE up.modulation.kind = "Lora"
  <2>1. up.modulation \in C!LoraInfo
    BY <1>2, <1>4 DEF C!FskInfo
  <2>2. up.modulation.bandwidth \in Bandwidths /\ up.modulation.spreading_factor \in {7, 12}
    BY <2>1 DEF C!LoraInfo
  <2>3. up.modulation.bandwidth \in u32
    BY <2>2, Assumed
  <2> QED BY <1>3, <1>4, <2>2, <2>3 DEF C!SerialisedDatr
<1>5. CASE up.modulation.kind # "Lora"
  <2>1. up.modulation \in C!FskInfo
    BY <1>1, <1>2, <1>5 DEF C!LoraInfo
  <2>2. up.modulation.datarate = 50000
    BY <2>1 DEF C!FskInfo
  <2> QED BY <1>3, <1>5, <2>2 DEF C!SerialisedDatr
<1> QED BY <1>4, <1>5

(* Lemma: the odd data rates of a server that do not panic.                  *)
LEMMA OddDatrCases ==
  ASSUME NEW datr \in C!OddDatr, ~C!DatrPanics(datr)
  PROVE  /\ datr.type = "text" => datr.sf = 7 /\ datr.bw = 5000
         /\ datr.type = "integer" => datr.n = 50000
<1>1. \/ datr = [type |-> "text", sf |-> 7, bw |-> 5000]
      \/ datr = [type |-> "malformed"]
      \/ datr = [type |-> "integer", n |-> 50000]
      \/ datr = [type |-> "integer", n |-> -1]
      \/ datr = [type |-> "float"]
  BY DEF C!OddDatr
<1>2. CASE datr = [type |-> "text", sf |-> 7, bw |-> 5000]
  BY <1>2
<1>3. CASE datr = [type |-> "malformed"]
  BY <1>3
<1>4. CASE datr = [type |-> "integer", n |-> 50000]
  BY <1>4
<1>5. CASE datr = [type |-> "integer", n |-> -1]
  BY <1>5 DEF C!DatrPanics
<1>6. CASE datr = [type |-> "float"]
  BY <1>6 DEF C!DatrPanics
<1> QED BY <1>1, <1>2, <1>3, <1>4, <1>5, <1>6

(* Lemma: what an object says is accepted.                                   *)
LEMMA ConvertedAccepted == ASSUME Converted PROVE C!AnswersAccepted
<1>1. SUFFICES ASSUME txpk # C!None, txpk.datr = rxpk.datr, txpk.modu = rxpk.modu,
                      txpk.base64,
                      txpk.imme = <<TRUE>> \/ txpk.tmst # <<>> \/ txpk.tmms # <<>>
               PROVE  outcome = "ok" /\ down # C!None
  BY DEF C!AnswersAccepted
<1>2. rxpk # C!None
  BY <1>1 DEF Converted
<1>3. rxpk = C!RxPk(up) /\ up.modulation.kind \in {"Lora", "Fsk"}
  BY <1>2, UplinkCounter
<1>4. rxpk.modu = up.modulation.kind
  BY <1>3 DEF C!RxPk
<1>5. CASE up.modulation.kind = "Lora"
  <2>1. rxpk.datr.type = "text"
    BY <1>2, <1>5, DatrOf
  <2>2. C!DataRate(rxpk.datr).kind = "Lora"
    BY <2>1 DEF C!DataRate
  <2>3. ~C!DatrPanics(txpk.datr)
    BY <1>1, <2>1 DEF C!DatrPanics
  <2>4. ~C!TxPkFails(txpk)
    <3>1. txpk.datr.type \in {"text", "integer"}
      BY <1>1, <2>1
    <3>2. C!DataRate(txpk.datr).kind = txpk.modu
      BY <1>1, <1>4, <1>5, <2>2, Zenon
    <3> QED BY <1>1, <3>1, <3>2, Zenon DEF C!TxPkFails
  <2> QED BY <1>1, <2>3, <2>4, Zenon DEF Converted
<1>6. CASE up.modulation.kind = "Fsk"
  <2>1. rxpk.datr.type = "integer" /\ rxpk.datr.n = 50000
    BY <1>2, <1>6, DatrOf
  <2>2. C!DataRate(rxpk.datr).kind = "Fsk"
    BY <2>1 DEF C!DataRate
  <2>3. ~C!DatrPanics(txpk.datr)
    BY <1>1, <2>1 DEF C!DatrPanics
  <2>4. ~C!TxPkFails(txpk)
    <3>1. txpk.datr.type \in {"text", "integer"}
      BY <1>1, <2>1
    <3>2. C!DataRate(txpk.datr).kind = txpk.modu
      BY <1>1, <1>4, <1>6, <2>2, Zenon
    <3> QED BY <1>1, <3>1, <3>2, Zenon DEF C!TxPkFails
  <2> QED BY <1>1, <2>3, <2>4, Zenon DEF Converted
<1> QED BY <1>3, <1>5, <1>6

(* Lemma: cutting a bandwidth to kHz loses less than a kHz, and the product  *)
(* with 1000 does not wrap.                                                  *)
LEMMA KiloHertz ==
  ASSUME NEW bw \in u32
  PROVE  /\ ((bw \div 1000) * 1000) % C!Width = (bw \div 1000) * 1000
         /\ bw - ((bw \div 1000) * 1000) \in 0 .. 999
<1>1. bw \in Nat /\ bw < C!Width /\ C!Width \in Nat
  BY Assumed DEF u32
<1>2. bw \div 1000 \in Nat /\ bw = (1000 * (bw \div 1000)) + (bw % 1000) /\ bw % 1000 \in 0 .. 999
  BY <1>1
<1>3. (bw \div 1000) * 1000 \in Nat /\ (bw \div 1000) * 1000 < C!Width
  BY <1>1, <1>2
<1>4. \A m \in Nat : m < C!Width => m % C!Width = m
  BY <1>1
<1> QED BY <1>2, <1>3, <1>4

(* Lemma: a downlink frame has the modulation of the uplink it answers.      *)
LEMMA ConvertedModulation == ASSUME Converted PROVE C!SameModulation
<1>1. SUFFICES ASSUME down # C!None, txpk.datr = rxpk.datr, up.modulation.kind = "Lora"
               PROVE  /\ down.modulation.spreading_factor = up.modulation.spreading_factor
                      /\ up.modulation.bandwidth - down.modulation.bandwidth \in 0 .. 999
                      /\ up.modulation.code_rate \in C!CodeRates
                           => down.code_rate = up.modulation.code_rate
  BY DEF C!SameModulation
<1>2. /\ rxpk # C!None /\ txpk \in C!Answers(rxpk) /\ down = C!DownlinkFrame(txpk)
      /\ rxpk = C!RxPk(up)
  BY <1>1, DownlinkOf, UplinkCounter
<1> DEFINE bw == up.modulation.bandwidth
<1>3. /\ bw \in u32
      /\ txpk.datr.type = "text" /\ txpk.datr.sf = up.modulation.spreading_factor
      /\ txpk.datr.bw = bw \div 1000
  BY <1>1, <1>2, DatrOf
<1> HIDE DEF bw
<1>4. /\ down.modulation = C!DataRate(txpk.datr)
      /\ down.code_rate = IF txpk.codr = <<>> THEN "CrUndefined" ELSE txpk.codr[1]
  BY <1>2 DEF C!DownlinkFrame
<1>5. /\ down.modulation.spreading_factor = up.modulation.spreading_factor
      /\ down.modulation.bandwidth = ((bw \div 1000) * 1000) % C!Width
  BY <1>3, <1>4 DEF C!DataRate
<1>6. bw - down.modulation.bandwidth \in 0 .. 999
  BY <1>3, <1>5, KiloHertz
<1>7. ASSUME up.modulation.code_rate \in C!CodeRates
      PROVE  down.code_rate = up.modulation.code_rate
  <2>1. txpk.codr = C!SerialisedCodr(up.modulation)
    BY <1>2 DEF C!Answers, C!RxPk
  <2>2. txpk.codr = <<up.modulation.code_rate>>
    BY <1>1, <1>7, <2>1 DEF C!SerialisedCodr
  <2> QED BY <1>4, <2>2
<1> QED BY <1>5, <1>6, <1>7 DEF bw

(* Lemma: the converted values have their types.                             *)
LEMMA ConvertedTypes == ASSUME Converted PROVE C!TypeOK
<1>1. up \in C!UplinkFrame \cup {C!None} /\ outcome \in {"ok", "error", "panic"}
  BY DEF Converted
<1>2. ASSUME rxpk # C!None
      PROVE  rxpk.tmst \in 0 .. C!Width - 1 /\ txpk \in C!Answers(rxpk) \cup {C!None}
  BY <1>2, UplinkCounter DEF Converted, u32
<1>3. ASSUME down # C!None
      PROVE  down.modulation \in
               [kind : {"Lora"}, spreading_factor : {7, 12}, bandwidth : 0 .. C!Width - 1]
                 \cup [kind : {"Fsk"}, datarate : 0 .. C!Width - 1]
  <2>1. /\ rxpk # C!None /\ txpk \in C!Answers(rxpk) /\ down = C!DownlinkFrame(txpk)
        /\ ~C!DatrPanics(txpk.datr) /\ ~C!TxPkFails(txpk)
    BY <1>3, DownlinkOf
  <2>2. txpk.datr \in {rxpk.datr} \cup C!OddDatr /\ txpk.datr.type \in {"text", "integer"}
    BY <2>1 DEF C!Answers, C!TxPkFails
  <2>3. \/ txpk.datr.type = "text" /\ txpk.datr.sf \in {7, 12} /\ txpk.datr.bw \in Nat
        \/ txpk.datr.type = "integer" /\ txpk.datr.n = 50000
    <3>1. CASE txpk.datr = rxpk.datr
      <4>1. up.modulation.kind = "Lora" => up.modulation.bandwidth \div 1000 \in Nat
        BY <2>1, DatrOf, Assumed DEF u32
      <4> QED BY <2>1, <3>1, <4>1, DatrOf
    <3>2. CASE txpk.datr \in C!OddDatr
      <4>1. /\ txpk.datr.type = "text" => txpk.datr.sf = 7 /\ txpk.datr.bw = 5000
            /\ txpk.datr.type = "integer" => txpk.datr.n = 50000
        BY <2>1, <3>2, OddDatrCases
      <4> QED BY <2>2, <4>1
    <3> QED BY <2>2, <3>1, <3>2
  <2>4. \A m \in Nat : m % C!Width \in 0 .. C!Width - 1
    BY Assumed
  <2>5. down.modulation = C!DataRate(txpk.datr)
    BY <2>1 DEF C!DownlinkFrame
  <2>6. CASE txpk.datr.type = "text"
    <3>1. (txpk.datr.bw * 1000) % C!Width \in 0 .. C!Width - 1
      BY <2>3, <2>4, <2>6
    <3> QED BY <2>3, <2>5, <2>6, <3>1 DEF C!DataRate
  <2>7. CASE txpk.datr.type = "integer"
    <3>1. txpk.datr.n % C!Width \in 0 .. C!Width - 1
      BY <2>3, <2>4, <2>7
    <3> QED BY <2>5, <2>7, <3>1 DEF C!DataRate
  <2> QED BY <2>3, <2>6, <2>7
<1>4. ASSUME down # C!None
      PROVE  down.context \in {<<>>} \cup [1 .. 4 -> 0 .. WordBase - 1]
  <2>1. /\ rxpk # C!None /\ txpk \in C!Answers(rxpk) /\ down = C!DownlinkFrame(txpk)
        /\ rxpk.tmst \in u32
    BY <1>4, DownlinkOf, UplinkCounter
  <2>2. down.context = IF txpk.tmst = <<>> THEN <<>> ELSE C!to_be_bytes(txpk.tmst[1])
    BY <2>1 DEF C!DownlinkFrame
  <2>3. CASE txpk.tmst = <<>>
    BY <2>2, <2>3
  <2>4. CASE txpk.tmst # <<>>
    <3>1. txpk.tmst \in C!Option({(rxpk.tmst + d) % C!Width : d \in Delays})
      BY <2>1 DEF C!Answers
    <3>2. PICK d \in Delays : txpk.tmst = <<(rxpk.tmst + d) % C!Width>>
      BY <2>4, <3>1 DEF C!Option
    <3>3. txpk.tmst[1] \in u32
      BY <2>1, <3>2, Wraps
    <3> QED BY <2>2, <2>4, <3>3, CounterBytes
  <2> QED BY <2>3, <2>4
<1> QED BY <1>1, <1>2, <1>3, <1>4, Zenon DEF C!TypeOK

-----------------------------------------------------------------------------
(* Lemma: that is so from the start, and a step of another part keeps it.    *)
LEMMA AlwaysConverted == SeqSpec => []Converted
<1>1. SeqInit => Converted
  BY DEF SeqInit, C!Init, Converted
<1>2. Converted /\ [SeqNext]_<<part, vars, cVars, gVars>> => Converted'
  <2> SUFFICES ASSUME Converted, [SeqNext]_<<part, vars, cVars, gVars>> PROVE Converted'
    OBVIOUS
  <2>1. [C!Next]_cVars
    BY DEF SeqNext
  <2> QED BY <2>1, ConvertedKept
<1> QED BY <1>1, <1>2, PTL DEF SeqSpec

(* Theorem: a downlink is sent when the server asked for it, at once, at its *)
(* delay after the uplink across the wrap of the counter, or at a GPS time.  *)
THEOREM SentOnTime == SeqSpec => []OnTime
<1>1. Converted => OnTime
  BY ConvertedOnTime DEF OnTime, C!OnTime
<1> QED BY <1>1, AlwaysConverted, PTL

(* Theorem: and with the spreading factor, the coding rate and, to a kHz,    *)
(* the bandwidth of the uplink it answers.                                   *)
THEOREM SentWithSameModulation == SeqSpec => []SameModulation
<1>1. Converted => SameModulation
  BY ConvertedModulation DEF SameModulation
<1> QED BY <1>1, AlwaysConverted, PTL

(* Theorem: an answer with the data rate and modulation of its uplink, a     *)
(* payload in Base64 and some time to send it at is sent.                    *)
THEOREM AnswersAreAccepted == SeqSpec => []AnswersAccepted
<1>1. Converted => AnswersAccepted
  BY ConvertedAccepted DEF AnswersAccepted
<1> QED BY <1>1, AlwaysConverted, PTL

-----------------------------------------------------------------------------
(* Pairs of which the first is less.                                         *)
Below == {p \in Nat \X Nat : p[1] < p[2]}

(* Lemma: a set of natural numbers has a least one.                          *)
LEMMA Least ==
  ASSUME NEW S \in SUBSET Nat, S # {}
  PROVE  \E n \in S : \A m \in S : n <= m
<1>1. IsWellFoundedOn(Below, Nat)
  BY NatLessThanWellFounded, SMT DEF OpToRel, Below
<1>2. \E n \in S : \A m \in S : ~(<<m, n>> \in Below)
  BY <1>1, WFMin
<1>3. PICK n \in S : \A m \in S : ~(<<m, n>> \in Below)
  BY <1>2
<1>4. ASSUME NEW m \in S PROVE n <= m
  <2>1. <<m, n>> \in Nat \X Nat /\ ~(<<m, n>> \in Below)
    BY <1>3
  <2>2. ~(m < n)
    BY <2>1 DEF Below
  <2> QED BY <2>2
<1> QED BY <1>4

(* Lemma: what holds of a place if it holds of those after it, holds of all. *)
LEMMA Backward ==
  ASSUME NEW L \in Nat, NEW S,
         \A i \in 1 .. L + 1 : (\A j \in i + 1 .. L + 1 : j \in S) => i \in S
  PROVE  \A i \in 1 .. L + 1 : i \in S
<1> DEFINE B == {k \in 0 .. L : (L + 1) - k \notin S}
<1>1. SUFFICES ASSUME B # {} PROVE FALSE
  <2>1. \A i \in 1 .. L + 1 : (L + 1) - i \in 0 .. L /\ (L + 1) - ((L + 1) - i) = i
    OBVIOUS
  <2> QED BY <2>1
<1>2. PICK k \in B : \A m \in B : k <= m
  <2>1. B \in SUBSET Nat
    OBVIOUS
  <2> HIDE DEF B
  <2> QED BY <1>1, <2>1, Least
<1>3. \A j \in ((L + 1) - k) + 1 .. L + 1 : j \in S
  <2> SUFFICES ASSUME NEW j \in ((L + 1) - k) + 1 .. L + 1, j \notin S PROVE FALSE
    OBVIOUS
  <2>1. (L + 1) - j \in 0 .. L /\ (L + 1) - ((L + 1) - j) = j /\ (L + 1) - j < k
    OBVIOUS
  <2>2. (L + 1) - j \in B
    BY <2>1
  <2> QED BY <1>2, <2>1, <2>2
<1>4. (L + 1) - k \in 1 .. L + 1
  OBVIOUS
<1> QED BY <1>3, <1>4

(* Lemma: what holds of none and of one more, holds of any number.           *)
LEMMA Forward ==
  ASSUME NEW n \in Nat, NEW S, 0 \in S, \A k \in 0 .. n - 1 : k \in S => k + 1 \in S
  PROVE  \A k \in 0 .. n : k \in S
<1> DEFINE B == {k \in 0 .. n : k \notin S}
<1>1. SUFFICES ASSUME B # {} PROVE FALSE
  OBVIOUS
<1>2. PICK k \in B : \A m \in B : k <= m
  <2>1. B \in SUBSET Nat
    OBVIOUS
  <2> HIDE DEF B
  <2> QED BY <1>1, <2>1, Least
<1>3. k # 0 /\ k - 1 \in 0 .. n - 1
  OBVIOUS
<1>4. k - 1 \in S
  BY <1>2, <1>3
<1>5. (k - 1) + 1 = k
  OBVIOUS
<1> QED BY <1>3, <1>4, <1>5

-----------------------------------------------------------------------------
(* A text is scanned from left to right: at each place a piece is written    *)
(* and the scan goes on at a later place.                                    *)
Character == Char \cup {G!Dollar}

ScannedAt(f, i, L, piece, next) == f[i] = IF i > L THEN <<>> ELSE piece[i] \o f[next[i]]

Scanned(f, L, piece, next) ==
  f = [i \in 1 .. L + 1 |-> IF i > L THEN <<>> ELSE piece[i] \o f[next[i]]]

(* Lemma: such a scan exists,                                                *)
LEMMA ScanExists ==
  ASSUME NEW L \in Nat, NEW piece \in [1 .. L -> Seq(Character)], NEW next \in [1 .. L -> Nat],
         \A i \in 1 .. L : next[i] \in i + 1 .. L + 1
  PROVE  \E f \in [1 .. L + 1 -> Seq(Character)] : Scanned(f, L, piece, next)
<1> DEFINE S == {i \in 1 .. L + 1 : \E f \in [1 .. L + 1 -> Seq(Character)] :
                   \A j \in i .. L + 1 : ScannedAt(f, j, L, piece, next)}
<1>1. ASSUME NEW i \in 1 .. L + 1, \A j \in i + 1 .. L + 1 : j \in S PROVE i \in S
  <2>1. CASE i = L + 1
    <3> DEFINE f == [j \in 1 .. L + 1 |-> <<>>]
    <3>1. f \in [1 .. L + 1 -> Seq(Character)]
      OBVIOUS
    <3>2. \A j \in i .. L + 1 : j > L /\ f[j] = <<>>
      BY <2>1
    <3>3. \A j \in i .. L + 1 : ScannedAt(f, j, L, piece, next)
      BY <3>2 DEF ScannedAt
    <3> QED BY <3>1, <3>3
  <2>2. CASE i # L + 1
    <3>1. i \in 1 .. L /\ next[i] \in i + 1 .. L + 1
      BY <2>2
    <3>2. i + 1 \in S
      <4>1. i + 1 \in i + 1 .. L + 1
        BY <3>1
      <4> HIDE DEF S
      <4> QED BY <1>1, <4>1
    <3>3. PICK f \in [1 .. L + 1 -> Seq(Character)] :
                 \A j \in i + 1 .. L + 1 : ScannedAt(f, j, L, piece, next)
      BY <3>2
    <3> DEFINE g == [f EXCEPT ![i] = piece[i] \o f[next[i]]]
    <3>4. piece[i] \o f[next[i]] \in Seq(Character)
      <4>1. piece[i] \in Seq(Character) /\ f[next[i]] \in Seq(Character)
        BY <3>1
      <4> QED BY <4>1
    <3>5. g \in [1 .. L + 1 -> Seq(Character)]
      BY <3>4
    <3>6. \A j \in i + 1 .. L + 1 : g[j] = f[j]
      OBVIOUS
    <3>7. g[i] = piece[i] \o g[next[i]]
      BY <3>1, <3>6
    <3> HIDE DEF g
    <3>8. ASSUME NEW j \in i .. L + 1 PROVE ScannedAt(g, j, L, piece, next)
      <4>1. CASE j = i
        <5>1. ~(i > L)
          BY <3>1
        <5>2. ScannedAt(g, i, L, piece, next)
          BY <3>7, <5>1 DEF ScannedAt
        <5> QED BY <4>1, <5>2
      <4>2. CASE j # i
        <5>1. j \in i + 1 .. L + 1 /\ j \in 1 .. L + 1
          BY <4>2
        <5>2. ScannedAt(f, j, L, piece, next) /\ g[j] = f[j]
          BY <3>3, <3>6, <5>1
        <5>3. CASE j > L
          BY <5>2, <5>3 DEF ScannedAt
        <5>4. CASE j <= L
          <6>1. next[j] \in j + 1 .. L + 1
            BY <5>1, <5>4
          <6>2. \A n : n \in j + 1 .. L + 1 => n \in i + 1 .. L + 1
            BY <5>1
          <6>3. next[j] \in i + 1 .. L + 1
            BY <6>1, <6>2, Zenon
          <6> QED BY <3>6, <5>2, <5>4, <6>3 DEF ScannedAt
        <5> QED BY <5>1, <5>3, <5>4
      <4> QED BY <4>1, <4>2
    <3> QED BY <3>5, <3>8
  <2> QED BY <2>1, <2>2
<1>2. 1 \in S
  <2>1. 1 \in 1 .. L + 1
    OBVIOUS
  <2> HIDE DEF S
  <2> QED BY <1>1, <2>1, Backward
<1>3. PICK f \in [1 .. L + 1 -> Seq(Character)] :
             \A i \in 1 .. L + 1 : ScannedAt(f, i, L, piece, next)
  BY <1>2
<1> QED BY <1>3 DEF Scanned, ScannedAt

(* Lemma: and is the only one.                                               *)
LEMMA ScanUnique ==
  ASSUME NEW L \in Nat, NEW piece, NEW next,
         \A i \in 1 .. L : next[i] \in i + 1 .. L + 1,
         NEW f, Scanned(f, L, piece, next), NEW g, Scanned(g, L, piece, next)
  PROVE  f = g
<1> DEFINE S == {i \in 1 .. L + 1 : f[i] = g[i]}
<1>1. ASSUME NEW i \in 1 .. L + 1, \A j \in i + 1 .. L + 1 : j \in S PROVE i \in S
  <2>1. CASE i > L
    BY <2>1 DEF Scanned
  <2>2. CASE i <= L
    <3>1. f[next[i]] = g[next[i]]
      BY <1>1, <2>2
    <3> QED BY <2>2, <3>1 DEF Scanned
  <2> QED BY <2>1, <2>2
<1>2. \A i \in 1 .. L + 1 : i \in S
  <2> HIDE DEF S
  <2> QED BY <1>1, Backward
<1>3. \A i \in 1 .. L + 1 : f[i] = g[i]
  BY <1>2
<1> QED BY <1>3 DEF Scanned

-----------------------------------------------------------------------------
(* What str::replace writes at a place, and where it goes on.                *)
Piece(text, p, v) == [i \in 1 .. Len(text) |-> IF G!HasAt(text, i, p) THEN v ELSE <<text[i]>>]
Goes(text, p) == [i \in 1 .. Len(text) |-> IF G!HasAt(text, i, p) THEN i + Len(p) ELSE i + 1]

(* Lemma: str::replace scans the text.                                       *)
LEMMA ReplaceScans ==
  ASSUME NEW text \in Seq(Character), NEW p \in Seq(Character), p # <<>>, NEW v \in Seq(Character)
  PROVE  /\ Piece(text, p, v) \in [1 .. Len(text) -> Seq(Character)]
         /\ Goes(text, p) \in [1 .. Len(text) -> Nat]
         /\ \A i \in 1 .. Len(text) : Goes(text, p)[i] \in i + 1 .. Len(text) + 1
         /\ Len(text) \in Nat
<1>1. Len(text) \in Nat /\ Len(p) \in Nat /\ Len(p) >= 1
  OBVIOUS
<1>2. \A i \in 1 .. Len(text) : text[i] \in Character
  OBVIOUS
<1>3. \A c \in Character : <<c>> \in Seq(Character)
  OBVIOUS
<1>4. Piece(text, p, v) \in [1 .. Len(text) -> Seq(Character)]
  BY <1>2, <1>3 DEF Piece
<1>5. ASSUME NEW i \in 1 .. Len(text)
      PROVE  Goes(text, p)[i] \in i + 1 .. Len(text) + 1
  <2>1. CASE G!HasAt(text, i, p)
    <3>1. i + Len(p) - 1 <= Len(text)
      BY <2>1 DEF G!HasAt
    <3> QED BY <1>1, <2>1, <3>1 DEF Goes
  <2>2. CASE ~G!HasAt(text, i, p)
    BY <1>1, <2>2 DEF Goes
  <2> QED BY <2>1, <2>2
<1>6. Goes(text, p) \in [1 .. Len(text) -> Nat]
  BY <1>1 DEF Goes
<1> QED BY <1>1, <1>4, <1>5, <1>6

(* The equation of the function in replace.                                  *)
Replacing(f, text, p, v) ==
  f = [i \in 1 .. Len(text) + 1 |->
         IF i > Len(text) THEN <<>>
         ELSE IF G!HasAt(text, i, p) THEN v \o f[i + Len(p)]
         ELSE <<text[i]>> \o f[i + 1]]

(* Lemma: which is that of the scan.                                         *)
LEMMA ReplacingScanned ==
  ASSUME NEW text \in Seq(Character), NEW p, NEW v, NEW f
  PROVE  Replacing(f, text, p, v) <=> Scanned(f, Len(text), Piece(text, p, v), Goes(text, p))
<1>1. ASSUME NEW i \in 1 .. Len(text) + 1
      PROVE  (IF i > Len(text) THEN <<>>
              ELSE IF G!HasAt(text, i, p) THEN v \o f[i + Len(p)]
              ELSE <<text[i]>> \o f[i + 1])
             = IF i > Len(text) THEN <<>>
               ELSE Piece(text, p, v)[i] \o f[Goes(text, p)[i]]
  BY DEF Piece, Goes
<1> QED BY <1>1 DEF Replacing, Scanned

(* Lemma: and what it returns is what it has written from the first place.   *)
LEMMA ReplaceIs ==
  ASSUME NEW text \in Seq(Character), NEW p \in Seq(Character), p # <<>>, NEW v \in Seq(Character)
  PROVE  \E f \in [1 .. Len(text) + 1 -> Seq(Character)] :
           Replacing(f, text, p, v) /\ G!replace(text, p, v) = f[1]
<1>1. PICK f \in [1 .. Len(text) + 1 -> Seq(Character)] : Replacing(f, text, p, v)
  BY ReplaceScans, ScanExists, ReplacingScanned
<1> DEFINE from == CHOOSE g : Replacing(g, text, p, v)
<1>2. Replacing(from, text, p, v)
  BY <1>1
<1>3. G!replace(text, p, v) = from[1]
  BY DEF G!replace, Replacing
<1> HIDE DEF from
<1>4. from = f
  <2>1. Scanned(from, Len(text), Piece(text, p, v), Goes(text, p))
    BY <1>2, ReplacingScanned
  <2>2. Scanned(f, Len(text), Piece(text, p, v), Goes(text, p))
    BY <1>1, ReplacingScanned
  <2> QED BY <2>1, <2>2, ReplaceScans, ScanUnique
<1> QED BY <1>1, <1>3, <1>4

-----------------------------------------------------------------------------
(* Lemma: what a text has at a place does not depend on what is before.      *)
LEMMA HasAtAfter ==
  ASSUME NEW x \in Seq(Character), NEW u \in Seq(Character), NEW p \in Seq(Character), p # <<>>,
         NEW j \in 1 .. Len(u)
  PROVE  G!HasAt(x \o u, Len(x) + j, p) <=> G!HasAt(u, j, p)
<1>1. Len(p) \in Nat /\ Len(p) >= 1 /\ Len(x) \in Nat /\ Len(u) \in Nat
      /\ Len(x \o u) = Len(x) + Len(u)
  OBVIOUS
<1>2. ASSUME j + Len(p) - 1 <= Len(u)
      PROVE  SubSeq(x \o u, Len(x) + j, Len(x) + j + Len(p) - 1) = SubSeq(u, j, j + Len(p) - 1)
  <2>1. Len(x) + j \in Len(x) + 1 .. Len(x) + Len(u)
    BY <1>1
  <2>2. Len(x) + j + Len(p) - 1 \in (Len(x) + j) - 1 .. Len(x) + Len(u)
    BY <1>1, <1>2
  <2>3. /\ (Len(x) + j) - Len(x) = j
        /\ (Len(x) + j + Len(p) - 1) - Len(x) = j + Len(p) - 1
    BY <1>1
  <2> QED BY <2>1, <2>2, <2>3, SubSeqOfConcat2
<1>3. (Len(x) + j) + Len(p) - 1 <= Len(x) + Len(u) <=> j + Len(p) - 1 <= Len(u)
  BY <1>1
<1> QED BY <1>1, <1>2, <1>3 DEF G!HasAt

(* Lemma: nor does what is written from there.                               *)
LEMMA ReplaceAfter ==
  ASSUME NEW x \in Seq(Character), NEW u \in Seq(Character),
         NEW p \in Seq(Character), p # <<>>, NEW v \in Seq(Character),
         NEW f, Replacing(f, x \o u, p, v), NEW g, Replacing(g, u, p, v)
  PROVE  f[Len(x) + 1] = g[1]
<1>1. Len(p) \in Nat /\ Len(p) >= 1 /\ Len(x) \in Nat /\ Len(u) \in Nat
      /\ Len(x \o u) = Len(x) + Len(u)
  OBVIOUS
<1> DEFINE S == {j \in 1 .. Len(u) + 1 : f[Len(x) + j] = g[j]}
<1>2. ASSUME NEW j \in 1 .. Len(u) + 1, \A k \in j + 1 .. Len(u) + 1 : k \in S PROVE j \in S
  <2>0. \A k \in j + 1 .. Len(u) + 1 : f[Len(x) + k] = g[k]
    BY <1>2
  <2>1. CASE j > Len(u)
    <3>1. Len(x) + j > Len(x \o u) /\ Len(x) + j \in 1 .. Len(x \o u) + 1
      BY <1>1, <2>1
    <3> QED BY <2>1, <3>1 DEF Replacing
  <2>2. CASE j <= Len(u)
    <3>1. ~(Len(x) + j > Len(x \o u)) /\ Len(x) + j \in 1 .. Len(x \o u) + 1 /\ ~(j > Len(u))
      BY <1>1, <2>2
    <3>2. G!HasAt(x \o u, Len(x) + j, p) <=> G!HasAt(u, j, p)
      BY <2>2, HasAtAfter
    <3>3. CASE G!HasAt(u, j, p)
      <4>1. j + Len(p) \in j + 1 .. Len(u) + 1 /\ Len(x) + (j + Len(p)) = (Len(x) + j) + Len(p)
        BY <1>1, <3>3 DEF G!HasAt
      <4>2. f[(Len(x) + j) + Len(p)] = g[j + Len(p)]
        BY <2>0, <4>1
      <4> QED BY <3>1, <3>2, <3>3, <4>2 DEF Replacing
    <3>4. CASE ~G!HasAt(u, j, p)
      <4>1. j + 1 \in j + 1 .. Len(u) + 1 /\ Len(x) + (j + 1) = (Len(x) + j) + 1
        BY <1>1, <2>2
      <4>2. f[(Len(x) + j) + 1] = g[j + 1]
        BY <2>0, <4>1
      <4>3. (x \o u)[Len(x) + j] = u[j]
        BY <1>1, <2>2
      <4> QED BY <3>1, <3>2, <3>4, <4>2, <4>3 DEF Replacing
    <3> QED BY <3>3, <3>4
  <2> QED BY <1>1, <2>1, <2>2
<1>3. 1 \in S
  <2>1. 1 \in 1 .. Len(u) + 1
    BY <1>1
  <2> HIDE DEF S
  <2> QED BY <1>1, <1>2, <2>1, Backward
<1> QED BY <1>3

(* Lemma: texts can be joined in any order.                                  *)
LEMMA Associative ==
  \A x, y, z \in Seq(Character) : x \o (y \o z) = (x \o y) \o z
BY ConcatAssociative

(* Lemma: a text without the reference is written as it is, and what comes   *)
(* after it as if it was alone.                                              *)
LEMMA ReplaceNone ==
  ASSUME NEW x \in Seq(Character), NEW u \in Seq(Character),
         NEW p \in Seq(Character), p # <<>>, NEW v \in Seq(Character),
         \A i \in 1 .. Len(x) : ~G!HasAt(x \o u, i, p)
  PROVE  G!replace(x \o u, p, v) = x \o G!replace(u, p, v)
<1>1. Len(x) \in Nat /\ Len(u) \in Nat /\ Len(x \o u) = Len(x) + Len(u) /\ x \o u \in Seq(Character)
  OBVIOUS
<1>2. PICK f \in [1 .. Len(x \o u) + 1 -> Seq(Character)] :
             Replacing(f, x \o u, p, v) /\ G!replace(x \o u, p, v) = f[1]
  BY <1>1, ReplaceIs
<1>3. PICK g \in [1 .. Len(u) + 1 -> Seq(Character)] :
             Replacing(g, u, p, v) /\ G!replace(u, p, v) = g[1]
  BY ReplaceIs
<1>4. f[Len(x) + 1] = g[1] /\ g[1] \in Seq(Character)
  <2>1. Replacing(f, x \o u, p, v) /\ Replacing(g, u, p, v)
    BY <1>2, <1>3
  <2>2. f[Len(x) + 1] = g[1]
    BY <2>1, ReplaceAfter
  <2>3. 1 \in 1 .. Len(u) + 1
    BY <1>1
  <2> QED BY <1>3, <2>2, <2>3
<1> DEFINE S == {i \in 1 .. Len(x) + 1 : f[i] = SubSeq(x, i, Len(x)) \o g[1]}
<1>5. ASSUME NEW i \in 1 .. Len(x) + 1, \A k \in i + 1 .. Len(x) + 1 : k \in S PROVE i \in S
  <2>1. CASE i > Len(x)
    <3>1. i = Len(x) + 1 /\ SubSeq(x, i, Len(x)) = <<>>
      BY <1>1, <2>1
    <3> QED BY <1>4, <3>1
  <2>2. CASE i <= Len(x)
    <3>1. i + 1 \in i + 1 .. Len(x) + 1 /\ i \in 1 .. Len(x) /\ ~(i > Len(x \o u))
          /\ i \in 1 .. Len(x \o u) + 1
      BY <1>1, <2>2
    <3>2. f[i + 1] = SubSeq(x, i + 1, Len(x)) \o g[1]
      BY <1>5, <3>1
    <3>3. f[i] = <<(x \o u)[i]>> \o f[i + 1]
      BY <1>2, <3>1 DEF Replacing
    <3>4. (x \o u)[i] = x[i]
      BY <3>1
    <3>5. SubSeq(x, i, Len(x)) = <<x[i]>> \o SubSeq(x, i + 1, Len(x))
      BY <3>1, SubSeqRecursiveFirst
    <3>6. <<x[i]>> \in Seq(Character) /\ SubSeq(x, i + 1, Len(x)) \in Seq(Character)
      BY <1>1, <3>1, SubSeqProperties
    <3>7. <<x[i]>> \o (SubSeq(x, i + 1, Len(x)) \o g[1])
            = (<<x[i]>> \o SubSeq(x, i + 1, Len(x))) \o g[1]
      <4>1. \A y, z \in Seq(Character) : <<x[i]>> \o (y \o z) = (<<x[i]>> \o y) \o z
        BY <3>6, Associative, Zenon
      <4> QED BY <1>4, <3>6, <4>1, Zenon
    <3>8. f[i] = SubSeq(x, i, Len(x)) \o g[1]
      BY <3>2, <3>3, <3>4, <3>5, <3>7
    <3> QED BY <3>8
  <2>3. i > Len(x) \/ i <= Len(x)
    BY <1>1
  <2> QED BY <2>1, <2>2, <2>3
<1>6. 1 \in S
  <2>1. 1 \in 1 .. Len(x) + 1
    BY <1>1
  <2> HIDE DEF S
  <2> QED BY <1>1, <1>5, <2>1, Backward
<1>7. SubSeq(x, 1, Len(x)) = x
  BY SubSeqFull
<1> QED BY <1>2, <1>3, <1>6, <1>7

(* Lemma: a reference is replaced by its value, and what comes after it is   *)
(* written as if it was alone.                                               *)
LEMMA ReplaceOne ==
  ASSUME NEW u \in Seq(Character),
         NEW p \in Seq(Character), p # <<>>, NEW v \in Seq(Character)
  PROVE  G!replace(p \o u, p, v) = v \o G!replace(u, p, v)
<1>1. Len(p) \in Nat /\ Len(p) >= 1 /\ Len(u) \in Nat
      /\ Len(p \o u) = Len(p) + Len(u) /\ p \o u \in Seq(Character)
  OBVIOUS
<1>2. PICK f \in [1 .. Len(p \o u) + 1 -> Seq(Character)] :
             Replacing(f, p \o u, p, v) /\ G!replace(p \o u, p, v) = f[1]
  BY <1>1, ReplaceIs
<1>3. PICK g \in [1 .. Len(u) + 1 -> Seq(Character)] :
             Replacing(g, u, p, v) /\ G!replace(u, p, v) = g[1]
  BY ReplaceIs
<1>4. f[Len(p) + 1] = g[1]
  <2>1. Replacing(f, p \o u, p, v) /\ Replacing(g, u, p, v)
    BY <1>2, <1>3
  <2> QED BY <2>1, ReplaceAfter
<1>5. G!HasAt(p \o u, 1, p)
  <2>1. SubSeq(p \o u, 1, Len(p)) = SubSeq(p, 1, Len(p))
    <3>1. 1 \in 1 .. Len(p) + 1 /\ Len(p) \in 1 - 1 .. Len(p)
      BY <1>1
    <3> QED BY <3>1, SubSeqOfConcat1
  <2>2. SubSeq(p, 1, Len(p)) = p /\ 1 + Len(p) - 1 = Len(p)
    BY <1>1, SubSeqFull
  <2> QED BY <1>1, <2>1, <2>2 DEF G!HasAt
<1>6. 1 \in 1 .. Len(p \o u) + 1 /\ ~(1 > Len(p \o u)) /\ 1 + Len(p) = Len(p) + 1
  BY <1>1
<1>7. f[1] = v \o f[1 + Len(p)]
  BY <1>2, <1>5, <1>6 DEF Replacing
<1> QED BY <1>2, <1>3, <1>4, <1>6, <1>7

-----------------------------------------------------------------------------
(* Lemma: what is assumed of the constants of Config.                        *)
LEMMA Environment ==
  ASSUME env \in G!Environments, NEW n \in DOMAIN env
  PROVE  /\ n \in Seq(Char) /\ n \in Seq(Character) /\ n # <<>>
         /\ G!Reference(n) \in Seq(Character) /\ G!Reference(n) # <<>>
         /\ Len(G!Reference(n)) = Len(n) + 1 /\ Len(n) \in Nat
         /\ G!Reference(n)[1] = G!Dollar
         /\ \A k \in 1 .. Len(n) : G!Reference(n)[k + 1] = n[k]
         /\ env[n] \in Seq(Character)
<1>1. G!ConfigAssumption
  BY PartsAssumption
<1>2. Name \subseteq Seq(Char) \ {<<>>} /\ Value \subseteq Seq(Character)
  BY <1>1 DEF G!ConfigAssumption, G!Text, Character
<1>3. n \in Name /\ env[n] \in Value
  BY DEF G!Environments
<1>4. n \in Seq(Char) /\ n # <<>> /\ env[n] \in Seq(Character)
  BY <1>2, <1>3
<1>5. n \in Seq(Character)
  BY <1>4 DEF Character
<1>6. G!Dollar \in Character
  BY DEF Character
<1> QED BY <1>4, <1>5, <1>6 DEF G!Reference

(* Lemma: the characters of a reference that is there.                       *)
LEMMA ReferenceThere ==
  ASSUME env \in G!Environments, NEW n \in DOMAIN env,
         NEW text \in Seq(Character), NEW i \in 1 .. Len(text),
         G!HasAt(text, i, G!Reference(n))
  PROVE  /\ text[i] = G!Dollar /\ i + Len(n) <= Len(text)
         /\ SubSeq(text, i, i + Len(n)) = G!Reference(n)
         /\ \A k \in 1 .. Len(n) : text[i + k] = n[k]
<1>1. /\ Len(G!Reference(n)) = Len(n) + 1 /\ Len(n) \in Nat /\ Len(text) \in Nat
      /\ G!Reference(n)[1] = G!Dollar
      /\ \A k \in 1 .. Len(n) : G!Reference(n)[k + 1] = n[k]
  BY Environment
<1>2. i + Len(G!Reference(n)) - 1 = i + Len(n)
  BY <1>1
<1>3. i + Len(n) <= Len(text) /\ SubSeq(text, i, i + Len(n)) = G!Reference(n)
  BY <1>2 DEF G!HasAt
<1>4. \A j \in i .. i + Len(n) : text[j] \in Character
  BY <1>1, <1>3
<1>5. \A k \in 1 .. (i + Len(n)) - i + 1 : SubSeq(text, i, i + Len(n))[k] = text[i + k - 1]
  BY <1>1, <1>4, SubSeqProperties
<1>6. text[i] = G!Dollar
  <2>1. 1 \in 1 .. (i + Len(n)) - i + 1 /\ i + 1 - 1 = i
    BY <1>1
  <2> QED BY <1>1, <1>3, <1>5, <2>1
<1>7. ASSUME NEW k \in 1 .. Len(n) PROVE text[i + k] = n[k]
  <2>1. k + 1 \in 1 .. (i + Len(n)) - i + 1 /\ i + (k + 1) - 1 = i + k
    BY <1>1
  <2> QED BY <1>1, <1>3, <1>5, <2>1
<1> QED BY <1>3, <1>6, <1>7

(* Lemma: nothing is replaced in no text.                                    *)
LEMMA ReplaceEmpty ==
  ASSUME NEW p \in Seq(Character), p # <<>>, NEW v \in Seq(Character)
  PROVE  G!replace(<<>>, p, v) = <<>>
<1>1. <<>> \in Seq(Character) /\ Len(<<>>) = 0
  OBVIOUS
<1>2. PICK f \in [1 .. Len(<<>>) + 1 -> Seq(Character)] :
             Replacing(f, <<>>, p, v) /\ G!replace(<<>>, p, v) = f[1]
  BY <1>1, ReplaceIs
<1>3. f[1] = <<>>
  BY <1>1, <1>2 DEF Replacing
<1> QED BY <1>2, <1>3

(* Lemma: a text is a text after a variable is replaced.                     *)
LEMMA ReplaceType ==
  ASSUME env \in G!Environments, NEW n \in DOMAIN env, NEW u \in Seq(Character)
  PROVE  G!replace(u, G!Reference(n), env[n]) \in Seq(Character)
<1>1. G!Reference(n) \in Seq(Character) /\ G!Reference(n) # <<>> /\ env[n] \in Seq(Character)
  BY Environment
<1>2. PICK f \in [1 .. Len(u) + 1 -> Seq(Character)] :
             G!replace(u, G!Reference(n), env[n]) = f[1]
  BY <1>1, ReplaceIs
<1>3. 1 \in 1 .. Len(u) + 1
  OBVIOUS
<1> QED BY <1>2, <1>3

-----------------------------------------------------------------------------
(* What Meaning writes at a place of a text, and where it goes on.           *)
Meant(text, o) ==
  [i \in 1 .. Len(text) |->
     IF G!Referred(text, o, i) = {} THEN <<text[i]>> ELSE env[G!First(text, o, i)]]
After(text, o) ==
  [i \in 1 .. Len(text) |->
     IF G!Referred(text, o, i) = {} THEN i + 1 ELSE i + 1 + Len(G!First(text, o, i))]

(* Lemma: the variable that counts at a place is one that is referred to.    *)
LEMMA FirstReferred ==
  ASSUME NEW o, o \in Seq(DOMAIN env), NEW text, NEW i, G!Referred(text, o, i) # {}
  PROVE  \E p \in G!Referred(text, o, i) :
           /\ \A q \in G!Referred(text, o, i) : p <= q
           /\ G!First(text, o, i) = o[p]
<1>1. G!Referred(text, o, i) \in SUBSET Nat
  BY DEF G!Referred
<1>2. PICK p \in G!Referred(text, o, i) : \A q \in G!Referred(text, o, i) : p <= q
  BY <1>1, Least
<1> DEFINE S == G!Referred(text, o, i)
<1> HIDE DEF S
<1>3. G!Min(S) \in S /\ \A q \in S : G!Min(S) <= q
  BY <1>2 DEF G!Min, S
<1> QED BY <1>3 DEF S, G!First

(* Lemma: so it has a reference there.                                       *)
LEMMA FirstIs ==
  ASSUME env \in G!Environments, NEW o, o \in Seq(DOMAIN env),
         NEW text \in Seq(Character), NEW i \in 1 .. Len(text), G!Referred(text, o, i) # {}
  PROVE  LET m == G!First(text, o, i)
         IN /\ m \in DOMAIN env /\ m \in Seq(Character) /\ Len(m) \in Nat
            /\ G!HasAt(text, i, G!Reference(m))
            /\ text[i] = G!Dollar /\ env[m] \in Seq(Character)
            /\ i + 1 + Len(m) \in i + 1 .. Len(text) + 1
<1>1. PICK p \in G!Referred(text, o, i) : G!First(text, o, i) = o[p]
  BY FirstReferred
<1> DEFINE m == G!First(text, o, i)
<1>2. m \in DOMAIN env /\ G!HasAt(text, i, G!Reference(m))
  BY <1>1 DEF G!Referred
<1> HIDE DEF m
<1>3. m \in Seq(Character) /\ Len(m) \in Nat /\ env[m] \in Seq(Character)
  BY <1>2, Environment
<1>4. text[i] = G!Dollar /\ i + Len(m) <= Len(text)
  BY <1>2, ReferenceThere
<1>5. i + 1 + Len(m) \in i + 1 .. Len(text) + 1
  BY <1>3, <1>4
<1> QED BY <1>2, <1>3, <1>4, <1>5 DEF m

(* Lemma: that is a scan of the text.                                        *)
LEMMA MeaningScans ==
  ASSUME env \in G!Environments, NEW o, o \in Seq(DOMAIN env), NEW text \in Seq(Character)
  PROVE  /\ Meant(text, o) \in [1 .. Len(text) -> Seq(Character)]
         /\ After(text, o) \in [1 .. Len(text) -> Nat]
         /\ \A i \in 1 .. Len(text) : After(text, o)[i] \in i + 1 .. Len(text) + 1
         /\ Len(text) \in Nat
<1>1. ASSUME NEW i \in 1 .. Len(text)
      PROVE  /\ Meant(text, o)[i] \in Seq(Character)
             /\ After(text, o)[i] \in i + 1 .. Len(text) + 1
  <2>1. CASE G!Referred(text, o, i) = {}
    <3>1. <<text[i]>> \in Seq(Character)
      OBVIOUS
    <3> QED BY <2>1, <3>1 DEF Meant, After
  <2>2. CASE G!Referred(text, o, i) # {}
    <3>1. /\ env[G!First(text, o, i)] \in Seq(Character)
          /\ i + 1 + Len(G!First(text, o, i)) \in i + 1 .. Len(text) + 1
      BY <2>2, FirstIs
    <3> QED BY <2>2, <3>1 DEF Meant, After
  <2> QED BY <2>1, <2>2
<1>2. Len(text) \in Nat
  OBVIOUS
<1>3. Meant(text, o) \in [1 .. Len(text) -> Seq(Character)]
  BY <1>1 DEF Meant
<1>4. \A i \in 1 .. Len(text) : After(text, o)[i] \in Nat
  BY <1>1, <1>2
<1>5. After(text, o) \in [1 .. Len(text) -> Nat]
  BY <1>4 DEF After
<1> QED BY <1>1, <1>2, <1>3, <1>5

(* Lemma: and it has one result.                                             *)
LEMMA MeaningIs ==
  ASSUME env \in G!Environments, NEW o, o \in Seq(DOMAIN env), NEW text \in Seq(Character)
  PROVE  /\ G!Meaning(env, text, o) \in [1 .. Len(text) + 1 -> Seq(Character)]
         /\ Scanned(G!Meaning(env, text, o), Len(text), Meant(text, o), After(text, o))
<1> DEFINE Means(f) ==
       f = [i \in 1 .. Len(text) + 1 |->
              IF i > Len(text) THEN <<>>
              ELSE IF G!Referred(text, o, i) = {} THEN <<text[i]>> \o f[i + 1]
              ELSE env[G!First(text, o, i)] \o f[i + 1 + Len(G!First(text, o, i))]]
           from == CHOOSE f : Means(f)
<1>1. G!Meaning(env, text, o) = from
  BY DEF G!Meaning
<1>2. PICK f \in [1 .. Len(text) + 1 -> Seq(Character)] :
             Scanned(f, Len(text), Meant(text, o), After(text, o))
  BY MeaningScans, ScanExists
<1>3. ASSUME NEW g PROVE Means(g) <=> Scanned(g, Len(text), Meant(text, o), After(text, o))
  <2>1. ASSUME NEW i \in 1 .. Len(text) + 1
        PROVE  (IF i > Len(text) THEN <<>>
                ELSE IF G!Referred(text, o, i) = {} THEN <<text[i]>> \o g[i + 1]
                ELSE env[G!First(text, o, i)] \o g[i + 1 + Len(G!First(text, o, i))])
               = IF i > Len(text) THEN <<>> ELSE Meant(text, o)[i] \o g[After(text, o)[i]]
    BY DEF Meant, After
  <2> QED BY <2>1 DEF Scanned
<1>4. Means(from)
  <2>1. Means(f)
    BY <1>2, <1>3
  <2> HIDE DEF Means
  <2> QED BY <2>1
<1> HIDE DEF from
<1>5. Scanned(from, Len(text), Meant(text, o), After(text, o))
  BY <1>3, <1>4
<1>6. from = f
  BY <1>2, <1>5, MeaningScans, ScanUnique
<1> QED BY <1>1, <1>2, <1>5, <1>6

(* Lemma: what is written from a place, and from the next one.               *)
LEMMA MeaningAt ==
  ASSUME env \in G!Environments, NEW o, o \in Seq(DOMAIN env), NEW text \in Seq(Character),
         NEW i \in 1 .. Len(text)
  PROVE  LET from == G!Meaning(env, text, o)
             m == G!First(text, o, i)
         IN /\ from[i] \in Seq(Character)
            /\ G!Referred(text, o, i) = {} => from[i] = <<text[i]>> \o from[i + 1]
            /\ G!Referred(text, o, i) # {} => from[i] = env[m] \o from[i + 1 + Len(m)]
<1> DEFINE from == G!Meaning(env, text, o)
<1>1. /\ from \in [1 .. Len(text) + 1 -> Seq(Character)]
      /\ Scanned(from, Len(text), Meant(text, o), After(text, o))
  BY MeaningIs
<1>2. Len(text) \in Nat /\ i \in 1 .. Len(text) + 1 /\ ~(i > Len(text))
  OBVIOUS
<1> HIDE DEF from
<1>3. from[i] = Meant(text, o)[i] \o from[After(text, o)[i]]
  BY <1>1, <1>2 DEF Scanned
<1>4. from[i] \in Seq(Character)
  BY <1>1, <1>2
<1>5. CASE G!Referred(text, o, i) = {}
  BY <1>3, <1>4, <1>5 DEF Meant, After, from
<1>6. CASE G!Referred(text, o, i) # {}
  BY <1>3, <1>4, <1>6 DEF Meant, After, from
<1> QED BY <1>5, <1>6

(* Lemma: from the end of the text nothing is written.                       *)
LEMMA MeaningEnds ==
  ASSUME env \in G!Environments, NEW o, o \in Seq(DOMAIN env), NEW text \in Seq(Character)
  PROVE  /\ G!Meaning(env, text, o) \in [1 .. Len(text) + 1 -> Seq(Character)]
         /\ Len(text) \in Nat
         /\ G!Meaning(env, text, o)[Len(text) + 1] = <<>>
<1> DEFINE from == G!Meaning(env, text, o)
<1>1. /\ from \in [1 .. Len(text) + 1 -> Seq(Character)]
      /\ Scanned(from, Len(text), Meant(text, o), After(text, o))
  BY MeaningIs
<1>2. Len(text) \in Nat /\ Len(text) + 1 \in 1 .. Len(text) + 1 /\ Len(text) + 1 > Len(text)
  OBVIOUS
<1> HIDE DEF from
<1>3. from[Len(text) + 1] = <<>>
  BY <1>1, <1>2 DEF Scanned
<1> QED BY <1>1, <1>2, <1>3 DEF from

-----------------------------------------------------------------------------
(* Lemma: before any variable is replaced the text means itself.             *)
LEMMA MeaningOfNone ==
  ASSUME env \in G!Environments, NEW text \in Seq(Character)
  PROVE  G!Meaning(env, text, <<>>)[1] = text
<1> DEFINE from == G!Meaning(env, text, <<>>)
<1>1. <<>> \in Seq(DOMAIN env) /\ \A i : G!Referred(text, <<>>, i) = {}
  BY DEF G!Referred
<1>2. Len(text) \in Nat /\ from[Len(text) + 1] = <<>>
  BY <1>1, MeaningEnds
<1>3. \A i \in 1 .. Len(text) : from[i] = <<text[i]>> \o from[i + 1]
  BY <1>1, MeaningAt
<1> HIDE DEF from
<1> DEFINE S == {i \in 1 .. Len(text) + 1 : from[i] = SubSeq(text, i, Len(text))}
<1>4. ASSUME NEW i \in 1 .. Len(text) + 1, \A j \in i + 1 .. Len(text) + 1 : j \in S PROVE i \in S
  <2>1. CASE i = Len(text) + 1
    <3>1. SubSeq(text, i, Len(text)) = <<>>
      BY <1>2, <2>1, SubSeqEmpty
    <3> QED BY <1>2, <2>1, <3>1
  <2>2. CASE i # Len(text) + 1
    <3>1. i \in 1 .. Len(text) /\ i + 1 \in i + 1 .. Len(text) + 1
          /\ Len(text) \in i .. Len(text)
      BY <1>2, <2>2
    <3>2. from[i + 1] = SubSeq(text, i + 1, Len(text))
      BY <1>4, <3>1
    <3>3. SubSeq(text, i, Len(text)) = <<text[i]>> \o SubSeq(text, i + 1, Len(text))
      BY <3>1, SubSeqRecursiveFirst
    <3> QED BY <1>3, <3>1, <3>2, <3>3
  <2> QED BY <2>1, <2>2
<1>5. 1 \in S
  <2>1. 1 \in 1 .. Len(text) + 1
    BY <1>2
  <2> HIDE DEF S
  <2> QED BY <1>2, <1>4, <2>1, Backward
<1>6. from[1] = text
  BY <1>5, SubSeqFull
<1> QED BY <1>6 DEF from

(* Lemma: where no variable is referred to yet, a reference stands for       *)
(* itself.                                                                   *)
LEMMA ReferenceStays ==
  ASSUME env \in G!Environments, NEW o, o \in Seq(DOMAIN env), NEW text \in Seq(Character),
         NEW n \in DOMAIN env, NEW i \in 1 .. Len(text),
         G!Referred(text, o, i) = {}, G!HasAt(text, i, G!Reference(n))
  PROVE  G!Meaning(env, text, o)[i]
           = G!Reference(n) \o G!Meaning(env, text, o)[i + 1 + Len(n)]
<1> DEFINE from == G!Meaning(env, text, o)
<1>1. /\ n \in Seq(Char) /\ n \in Seq(Character) /\ Len(n) \in Nat /\ Len(text) \in Nat
      /\ text[i] = G!Dollar /\ i + Len(n) <= Len(text)
      /\ \A k \in 1 .. Len(n) : text[i + k] = n[k]
  BY Environment, ReferenceThere
<1>2. from \in [1 .. Len(text) + 1 -> Seq(Character)]
  BY MeaningIs
<1>3. from[i] = <<G!Dollar>> \o from[i + 1]
  BY <1>1, MeaningAt
<1>4. ASSUME NEW k \in 1 .. Len(n)
      PROVE  from[i + k] = <<n[k]>> \o from[i + k + 1]
  <2>1. i + k \in 1 .. Len(text) /\ text[i + k] = n[k] /\ n[k] \in Char
    BY <1>1
  <2>2. n[k] # G!Dollar
    <3>1. G!Dollar \notin Char
      BY PartsAssumption DEF G!ConfigAssumption
    <3> QED BY <2>1, <3>1
  <2>3. G!Referred(text, o, i + k) = {}
    BY <2>1, <2>2, FirstIs
  <2> QED BY <2>1, <2>3, MeaningAt
<1> HIDE DEF from
<1> DEFINE S == {k \in 0 .. Len(n) : from[i + 1] = SubSeq(n, 1, k) \o from[i + 1 + k]}
<1>5. 0 \in S
  <2>1. SubSeq(n, 1, 0) = <<>> /\ i + 1 + 0 = i + 1 /\ i + 1 \in 1 .. Len(text) + 1
    BY <1>1
  <2>2. from[i + 1] \in Seq(Character)
    BY <1>2, <2>1
  <2> QED BY <1>1, <2>1, <2>2, ConcatEmptySeq
<1>6. ASSUME NEW k \in 0 .. Len(n) - 1, k \in S PROVE k + 1 \in S
  <2>1. /\ k + 1 \in 1 .. Len(n) /\ k + 1 \in 0 .. Len(n) /\ i + (k + 1) = i + 1 + k
        /\ i + (k + 1) + 1 = i + 1 + (k + 1) /\ i + 1 + (k + 1) \in 1 .. Len(text) + 1
        /\ (k + 1) - 1 = k /\ 1 \in 1 .. Len(n) /\ k + 1 \in 1 .. Len(n)
    BY <1>1
  <2>2. from[i + 1 + k] = <<n[k + 1]>> \o from[i + 1 + (k + 1)]
    BY <1>4, <2>1
  <2>3. SubSeq(n, 1, k + 1) = SubSeq(n, 1, k) \o <<n[k + 1]>>
    BY <1>1, <2>1, SubSeqRecursiveSecond
  <2>4. /\ from[i + 1 + (k + 1)] \in Seq(Character) /\ <<n[k + 1]>> \in Seq(Character)
        /\ SubSeq(n, 1, k) \in Seq(Character)
    <3>1. from[i + 1 + (k + 1)] \in Seq(Character)
      BY <1>2, <2>1
    <3>2. n[k + 1] \in Character
      BY <1>1, <2>1
    <3>3. \A j \in 1 .. k : n[j] \in Character
      <4>1. \A j \in 1 .. k : j \in 1 .. Len(n)
        BY <1>1
      <4> QED BY <1>1, <4>1
    <3>4. SubSeq(n, 1, k) \in Seq(Character)
      BY <3>3, SubSeqProperties
    <3>5. <<n[k + 1]>> \in Seq(Character)
      BY <3>2
    <3> QED BY <3>1, <3>4, <3>5
  <2>5. SubSeq(n, 1, k) \o (<<n[k + 1]>> \o from[i + 1 + (k + 1)])
          = (SubSeq(n, 1, k) \o <<n[k + 1]>>) \o from[i + 1 + (k + 1)]
    BY <2>4, Associative, Zenon
  <2>6. from[i + 1] = SubSeq(n, 1, k) \o from[i + 1 + k]
    BY <1>6
  <2> QED BY <2>1, <2>2, <2>3, <2>5, <2>6
<1>7. Len(n) \in S
  <2>1. \A k \in 0 .. Len(n) - 1 : k \in S => k + 1 \in S
    BY <1>6
  <2>2. Len(n) \in 0 .. Len(n)
    BY <1>1
  <2> HIDE DEF S
  <2> QED BY <1>1, <1>5, <2>1, <2>2, Forward
<1>8. from[i + 1] = n \o from[i + 1 + Len(n)]
  BY <1>1, <1>7, SubSeqFull
<1>9. i + 1 + Len(n) \in 1 .. Len(text) + 1
  BY <1>1
<1>10. from[i + 1 + Len(n)] \in Seq(Character) /\ <<G!Dollar>> \in Seq(Character)
  BY <1>2, <1>9 DEF Character
<1>11. <<G!Dollar>> \o (n \o from[i + 1 + Len(n)]) = (<<G!Dollar>> \o n) \o from[i + 1 + Len(n)]
  BY <1>1, <1>10, Associative, Zenon
<1> QED BY <1>3, <1>8, <1>11 DEF from, G!Reference

-----------------------------------------------------------------------------
(* Lemma: one variable more is one more that may be referred to, and it      *)
(* counts where no other one is.                                             *)
LEMMA OneMoreReferred ==
  ASSUME env \in G!Environments, NEW o, o \in Seq(DOMAIN env), NEW n \in DOMAIN env,
         NEW text \in Seq(Character), NEW i \in 1 .. Len(text)
  PROVE  LET oo == Append(o, n)
         IN /\ oo \in Seq(DOMAIN env)
            /\ G!Referred(text, o, i) # {} =>
                 G!Referred(text, oo, i) # {} /\ G!First(text, oo, i) = G!First(text, o, i)
            /\ G!Referred(text, o, i) = {} /\ G!HasAt(text, i, G!Reference(n)) =>
                 G!Referred(text, oo, i) # {} /\ G!First(text, oo, i) = n
            /\ G!Referred(text, o, i) = {} /\ ~G!HasAt(text, i, G!Reference(n)) =>
                 G!Referred(text, oo, i) = {}
<1> DEFINE oo == Append(o, n)
<1>1. /\ oo \in Seq(DOMAIN env) /\ Len(oo) = Len(o) + 1 /\ Len(o) \in Nat
      /\ DOMAIN o = 1 .. Len(o) /\ DOMAIN oo = 1 .. Len(o) + 1
      /\ \A p \in 1 .. Len(o) : oo[p] = o[p]
      /\ oo[Len(o) + 1] = n
  BY AppendProperties
<1> HIDE DEF oo
<1>2. \A p : p \in G!Referred(text, oo, i) <=>
               \/ p \in G!Referred(text, o, i)
               \/ p = Len(o) + 1 /\ G!HasAt(text, i, G!Reference(n))
  BY <1>1 DEF G!Referred
<1>3. \A p \in G!Referred(text, o, i) : p \in 1 .. Len(o)
  BY <1>1 DEF G!Referred
<1>4. ASSUME G!Referred(text, o, i) # {}
      PROVE  G!Referred(text, oo, i) # {} /\ G!First(text, oo, i) = G!First(text, o, i)
  <2>1. G!Referred(text, oo, i) # {}
    BY <1>2, <1>4
  <2>2. PICK p \in G!Referred(text, o, i) :
               /\ \A q \in G!Referred(text, o, i) : p <= q
               /\ G!First(text, o, i) = o[p]
    BY <1>4, FirstReferred
  <2>3. PICK q \in G!Referred(text, oo, i) :
               /\ \A r \in G!Referred(text, oo, i) : q <= r
               /\ G!First(text, oo, i) = oo[q]
    BY <1>1, <2>1, FirstReferred
  <2>4. p \in 1 .. Len(o) /\ q <= p
    BY <1>2, <1>3, <2>2, <2>3
  <2>5. q \in G!Referred(text, o, i)
    BY <1>1, <1>2, <2>3, <2>4
  <2>6. q = p
    BY <1>3, <2>2, <2>4, <2>5
  <2> QED BY <1>1, <2>1, <2>2, <2>3, <2>4, <2>6
<1>5. ASSUME G!Referred(text, o, i) = {}, G!HasAt(text, i, G!Reference(n))
      PROVE  G!Referred(text, oo, i) # {} /\ G!First(text, oo, i) = n
  <2>1. G!Referred(text, oo, i) # {}
    BY <1>2, <1>5
  <2>2. PICK q \in G!Referred(text, oo, i) : G!First(text, oo, i) = oo[q]
    BY <1>1, <2>1, FirstReferred
  <2>3. q = Len(o) + 1
    BY <1>2, <1>5, <2>2
  <2> QED BY <1>1, <2>1, <2>2, <2>3
<1>6. ASSUME G!Referred(text, o, i) = {}, ~G!HasAt(text, i, G!Reference(n))
      PROVE  G!Referred(text, oo, i) = {}
  BY <1>2, <1>6
<1> QED BY <1>1, <1>4, <1>5, <1>6 DEF oo

(* What Arises says of the variable whose turn comes after some others.      *)
ArisesNext(text, o, n) ==
  \E i \in DOMAIN text :
    /\ text[i] = G!Dollar
    /\ IF G!Referred(text, o, i) = {}
         THEN /\ ~G!HasAt(text, i, G!Reference(n))
              /\ G!HasAt(G!Meaning(env, text, o)[i], 1, G!Reference(n))
         ELSE \E k \in DOMAIN env[G!First(text, o, i)] :
                G!HasAt(G!Meaning(env, text, o)[i], k, G!Reference(n))

(* Lemma: if no reference arises with one variable more, none does without   *)
(* it, and none to it.                                                       *)
LEMMA ArisesLess ==
  ASSUME NEW o, o \in Seq(DOMAIN env), NEW n \in DOMAIN env, NEW text,
         ~G!Arises(env, text, Append(o, n))
  PROVE  ~G!Arises(env, text, o) /\ ~ArisesNext(text, o, n)
<1> DEFINE oo == Append(o, n)
<1>1. /\ oo \in Seq(DOMAIN env) /\ Len(oo) = Len(o) + 1 /\ Len(o) \in Nat
      /\ DOMAIN o = 1 .. Len(o) /\ DOMAIN oo = 1 .. Len(o) + 1
      /\ \A p \in 1 .. Len(o) : oo[p] = o[p]
      /\ oo[Len(o) + 1] = n
  BY AppendProperties
<1>2. oo = o \o <<n>> /\ <<n>> \in Seq(DOMAIN env) /\ Len(<<n>>) = 1
  BY AppendIsConcat
<1> HIDE DEF oo
<1>3. ASSUME NEW q \in 1 .. Len(o) + 1
      PROVE  SubSeq(oo, 1, q - 1) = SubSeq(o, 1, q - 1)
  <2>1. q - 1 \in 0 .. Len(o) /\ \A k \in 1 .. q - 1 : k \in 1 .. Len(o)
    BY <1>1
  <2>2. \A k \in 1 .. q - 1 : oo[k] = o[k]
    BY <1>1, <2>1
  <2>3. SubSeq(oo, 1, q - 1) = [k \in 1 .. q - 1 |-> oo[k]]
    BY <1>1, <2>1
  <2>4. SubSeq(o, 1, q - 1) = [k \in 1 .. q - 1 |-> o[k]]
    BY <1>1, <2>1
  <2> QED BY <2>2, <2>3, <2>4
<1>4. ~G!Arises(env, text, o)
  <2>1. \A q \in 1 .. Len(o) : /\ q \in DOMAIN oo /\ SubSeq(oo, 1, q - 1) = SubSeq(o, 1, q - 1)
                               /\ oo[q] = o[q]
    BY <1>1, <1>3
  <2> QED BY <1>1, <2>1 DEF G!Arises, oo
<1>5. ~ArisesNext(text, o, n)
  <2>1. Len(o) + 1 \in DOMAIN oo /\ (Len(o) + 1) - 1 = Len(o) /\ oo[Len(o) + 1] = n
    BY <1>1
  <2>2. SubSeq(oo, 1, (Len(o) + 1) - 1) = o
    <3>1. SubSeq(o, 1, Len(o)) = o
      BY SubSeqFull
    <3> QED BY <1>1, <1>3, <2>1, <3>1
  <2> QED BY <2>1, <2>2 DEF G!Arises, ArisesNext, oo
<1> QED BY <1>4, <1>5

(* Lemma: replacing one variable more gives the meaning with one variable    *)
(* more, if no reference to it has arisen.                                   *)
LEMMA OneMore ==
  ASSUME env \in G!Environments, NEW o, o \in Seq(DOMAIN env), NEW n \in DOMAIN env,
         NEW text \in Seq(Character), ~ArisesNext(text, o, n)
  PROVE  G!replace(G!Meaning(env, text, o)[1], G!Reference(n), env[n])
           = G!Meaning(env, text, Append(o, n))[1]
<1> DEFINE oo == Append(o, n)
           f == G!Meaning(env, text, o)
           g == G!Meaning(env, text, oo)
           p == G!Reference(n)
<1>1. oo \in Seq(DOMAIN env)
  BY AppendProperties
<1>2. /\ p \in Seq(Character) /\ p # <<>> /\ env[n] \in Seq(Character) /\ Len(n) \in Nat
  BY Environment
<1>3. /\ f \in [1 .. Len(text) + 1 -> Seq(Character)] /\ f[Len(text) + 1] = <<>>
      /\ g \in [1 .. Len(text) + 1 -> Seq(Character)] /\ g[Len(text) + 1] = <<>>
      /\ Len(text) \in Nat
  BY <1>1, MeaningEnds
<1>4. ASSUME NEW i \in 1 .. Len(text), G!Referred(text, o, i) # {}
      PROVE  /\ text[i] = G!Dollar
             /\ \E m \in DOMAIN env :
                  /\ m = G!First(text, o, i) /\ env[m] \in Seq(Character)
                  /\ i + 1 + Len(m) \in i + 1 .. Len(text) + 1
                  /\ f[i] = env[m] \o f[i + 1 + Len(m)]
                  /\ g[i] = env[m] \o g[i + 1 + Len(m)]
  <2> DEFINE m == G!First(text, o, i)
  <2>1. /\ m \in DOMAIN env /\ env[m] \in Seq(Character) /\ text[i] = G!Dollar
        /\ i + 1 + Len(m) \in i + 1 .. Len(text) + 1
    BY <1>4, FirstIs
  <2>2. G!Referred(text, oo, i) # {} /\ G!First(text, oo, i) = m
    BY <1>4, OneMoreReferred
  <2>3. f[i] = env[m] \o f[i + 1 + Len(m)]
    BY <1>4, MeaningAt
  <2>4. g[i] = env[m] \o g[i + 1 + Len(m)]
    <3>1. g[i] = env[G!First(text, oo, i)] \o g[i + 1 + Len(G!First(text, oo, i))]
      BY <1>1, <2>2, MeaningAt
    <3> HIDE DEF g, m, oo
    <3> QED BY <2>2, <3>1
  <2> QED BY <2>1, <2>3, <2>4
<1>5. ASSUME NEW i \in 1 .. Len(text), G!Referred(text, o, i) = {}, G!HasAt(text, i, p)
      PROVE  /\ f[i] = p \o f[i + 1 + Len(n)] /\ g[i] = env[n] \o g[i + 1 + Len(n)]
             /\ i + 1 + Len(n) \in i + 1 .. Len(text) + 1
  <2>1. f[i] = p \o f[i + 1 + Len(n)]
    BY <1>5, ReferenceStays
  <2>2. G!Referred(text, oo, i) # {} /\ G!First(text, oo, i) = n
    BY <1>5, OneMoreReferred
  <2>3. g[i] = env[n] \o g[i + 1 + Len(n)]
    <3>1. g[i] = env[G!First(text, oo, i)] \o g[i + 1 + Len(G!First(text, oo, i))]
      BY <1>1, <2>2, MeaningAt
    <3> HIDE DEF g, oo
    <3> QED BY <2>2, <3>1
  <2>4. i + 1 + Len(n) \in i + 1 .. Len(text) + 1
    BY <1>1, <2>2, FirstIs
  <2> QED BY <2>1, <2>3, <2>4
<1>6. ASSUME NEW i \in 1 .. Len(text), G!Referred(text, o, i) = {}, ~G!HasAt(text, i, p)
      PROVE  /\ f[i] = <<text[i]>> \o f[i + 1] /\ g[i] = <<text[i]>> \o g[i + 1]
             /\ <<text[i]>> \in Seq(Character)
  <2>1. G!Referred(text, oo, i) = {}
    BY <1>6, OneMoreReferred
  <2>2. f[i] = <<text[i]>> \o f[i + 1]
    BY <1>6, MeaningAt
  <2>3. g[i] = <<text[i]>> \o g[i + 1]
    BY <1>1, <2>1, MeaningAt
  <2> QED BY <2>2, <2>3
<1>7. ASSUME NEW i \in 1 .. Len(text), G!Referred(text, o, i) # {}, NEW k \in 1 .. Len(env[G!First(text, o, i)])
      PROVE  ~G!HasAt(f[i], k, p)
  <2>1. text[i] = G!Dollar /\ env[G!First(text, o, i)] \in Seq(Character)
    BY <1>7, FirstIs
  <2>2. i \in DOMAIN text /\ k \in DOMAIN env[G!First(text, o, i)]
    BY <1>7, <2>1
  <2> QED BY <1>7, <2>1, <2>2 DEF ArisesNext
<1>8. ASSUME NEW i \in 1 .. Len(text), G!Referred(text, o, i) = {}, ~G!HasAt(text, i, p)
      PROVE  ~G!HasAt(f[i], 1, p)
  <2>1. i \in DOMAIN text
    OBVIOUS
  <2>2. CASE text[i] = G!Dollar
    BY <1>8, <2>1, <2>2 DEF ArisesNext
  <2>3. CASE text[i] # G!Dollar
    <3>1. i + 1 \in 1 .. Len(text) + 1 /\ i \in 1 .. Len(text) + 1
      BY <1>3
    <3>2. f[i] \in Seq(Character) /\ f[i + 1] \in Seq(Character)
      BY <1>3, <3>1
    <3>3. f[i] = <<text[i]>> \o f[i + 1] /\ <<text[i]>> \in Seq(Character)
      BY <1>8, <1>6
    <3> HIDE DEF f
    <3>4. 1 \in 1 .. Len(f[i]) /\ f[i][1] = text[i]
      BY <3>2, <3>3
    <3> QED BY <2>3, <3>2, <3>4, ReferenceThere
  <2> QED BY <2>2, <2>3
<1> HIDE DEF oo, f, g, p
<1> DEFINE S == {i \in 1 .. Len(text) + 1 : G!replace(f[i], p, env[n]) = g[i]}
<1>9. ASSUME NEW i \in 1 .. Len(text) + 1, \A j \in i + 1 .. Len(text) + 1 : j \in S PROVE i \in S
  <2>0. \A j \in i + 1 .. Len(text) + 1 :
          /\ G!replace(f[j], p, env[n]) = g[j]
          /\ f[j] \in Seq(Character) /\ g[j] \in Seq(Character)
    BY <1>3, <1>9
  <2>1. CASE i = Len(text) + 1
    BY <1>2, <1>3, <2>1, ReplaceEmpty
  <2>2. CASE i # Len(text) + 1 /\ G!Referred(text, o, i) # {}
    <3>1. i \in 1 .. Len(text)
      BY <1>3, <2>2
    <3>2. PICK m \in DOMAIN env :
                 /\ m = G!First(text, o, i) /\ env[m] \in Seq(Character)
                 /\ i + 1 + Len(m) \in i + 1 .. Len(text) + 1
                 /\ f[i] = env[m] \o f[i + 1 + Len(m)]
                 /\ g[i] = env[m] \o g[i + 1 + Len(m)]
      BY <1>4, <2>2, <3>1
    <3>3. \A k \in 1 .. Len(env[m]) : ~G!HasAt(env[m] \o f[i + 1 + Len(m)], k, p)
      BY <1>7, <2>2, <3>1, <3>2
    <3>4. G!replace(env[m] \o f[i + 1 + Len(m)], p, env[n])
            = env[m] \o G!replace(f[i + 1 + Len(m)], p, env[n])
      <4> DEFINE x == env[m]
                 u == f[i + 1 + Len(m)]
      <4>1. x \in Seq(Character) /\ u \in Seq(Character) /\ env[n] \in Seq(Character)
        BY <1>2, <2>0, <3>2
      <4>2. \A k \in 1 .. Len(x) : ~G!HasAt(x \o u, k, p)
        BY <3>3
      <4> HIDE DEF x, u
      <4>3. G!replace(x \o u, p, env[n]) = x \o G!replace(u, p, env[n])
        BY <1>2, <4>1, <4>2, ReplaceNone
      <4> QED BY <4>3 DEF x, u
    <3> QED BY <2>0, <3>2, <3>4
  <2>3. CASE i # Len(text) + 1 /\ G!Referred(text, o, i) = {} /\ G!HasAt(text, i, p)
    <3>1. i \in 1 .. Len(text)
      BY <1>3, <2>3
    <3>2. /\ f[i] = p \o f[i + 1 + Len(n)] /\ g[i] = env[n] \o g[i + 1 + Len(n)]
          /\ i + 1 + Len(n) \in i + 1 .. Len(text) + 1
      BY <1>5, <2>3, <3>1
    <3>3. G!replace(p \o f[i + 1 + Len(n)], p, env[n])
            = env[n] \o G!replace(f[i + 1 + Len(n)], p, env[n])
      BY <1>2, <2>0, <3>2, ReplaceOne
    <3> QED BY <2>0, <3>2, <3>3
  <2>4. CASE i # Len(text) + 1 /\ G!Referred(text, o, i) = {} /\ ~G!HasAt(text, i, p)
    <3>1. i \in 1 .. Len(text) /\ i + 1 \in i + 1 .. Len(text) + 1
      BY <1>3, <2>4
    <3>2. /\ f[i] = <<text[i]>> \o f[i + 1] /\ g[i] = <<text[i]>> \o g[i + 1]
          /\ <<text[i]>> \in Seq(Character)
      BY <1>6, <2>4, <3>1
    <3>3. ~G!HasAt(<<text[i]>> \o f[i + 1], 1, p)
      BY <1>8, <2>4, <3>1, <3>2
    <3>4. \A k \in 1 .. Len(<<text[i]>>) : ~G!HasAt(<<text[i]>> \o f[i + 1], k, p)
      BY <3>3
    <3>5. G!replace(<<text[i]>> \o f[i + 1], p, env[n])
            = <<text[i]>> \o G!replace(f[i + 1], p, env[n])
      <4> DEFINE x == <<text[i]>>
                 u == f[i + 1]
      <4>1. x \in Seq(Character) /\ u \in Seq(Character) /\ env[n] \in Seq(Character)
        BY <1>2, <2>0, <3>1, <3>2
      <4>2. \A k \in 1 .. Len(x) : ~G!HasAt(x \o u, k, p)
        BY <3>4
      <4> HIDE DEF x, u
      <4>3. G!replace(x \o u, p, env[n]) = x \o G!replace(u, p, env[n])
        BY <1>2, <4>1, <4>2, ReplaceNone
      <4> QED BY <4>3 DEF x, u
    <3> QED BY <2>0, <3>1, <3>2, <3>5
  <2> QED BY <2>1, <2>2, <2>3, <2>4
<1>10. 1 \in S
  <2>1. 1 \in 1 .. Len(text) + 1
    BY <1>3
  <2> HIDE DEF S
  <2> QED BY <1>3, <1>9, <2>1, Backward
<1> QED BY <1>10 DEF f, g, oo, p

-----------------------------------------------------------------------------
(* The text file by file, of those that are read.                            *)
Joined(f, texts, n) ==
  /\ f[0] = <<>>
  /\ \A k \in 1 .. n : f[k] = f[k - 1] \o texts[k]

(* Lemma: that of all files is what FlattenSeq makes of them.                *)
LEMMA AllJoined ==
  ASSUME NEW s \in Seq(Seq(Character)), NEW f \in [0 .. Len(s) -> Seq(Character)],
         Joined(f, s, Len(s))
  PROVE  f[Len(s)] = G!FlattenSeq(s)
<1> DEFINE n == Len(s)
<1>1. n \in Nat /\ f[0] = <<>>
      /\ \A k \in 1 .. n : f[k] = f[k - 1] \o s[k] /\ s[k] \in Seq(Character)
  BY DEF Joined
<1>2. CASE n = 0
  <2>1. s = <<>>
    BY <1>2
  <2>2. G!FlattenSeq(s) = s
    BY <1>2 DEF G!FlattenSeq
  <2> QED BY <1>1, <1>2, <2>1, <2>2
<1>3. CASE n # 0
  <2> DEFINE Flat(g) == g = [i \in 1 .. n |-> IF i = 1 THEN s[i] ELSE g[i - 1] \o s[i]]
             flatten == CHOOSE g : Flat(g)
             h == [i \in 1 .. n |-> f[i]]
  <2>1. G!FlattenSeq(s) = flatten[n]
    BY <1>3 DEF G!FlattenSeq
  <2> HIDE DEF n
  <2>2. f[1] = s[1]
    <3>1. 1 \in 1 .. n /\ 1 - 1 = 0
      BY <1>1, <1>3
    <3>2. f[1] = <<>> \o s[1] /\ s[1] \in Seq(Character)
      BY <1>1, <3>1
    <3> QED BY <3>2, ConcatEmptySeq
  <2>3. Flat(h)
    <3>1. ASSUME NEW i \in 1 .. n PROVE h[i] = IF i = 1 THEN s[i] ELSE h[i - 1] \o s[i]
      <4>1. CASE i = 1
        <5>1. f[1] = s[1]
          BY <2>2
        <5> QED BY <4>1, <5>1
      <4>2. CASE i # 1
        <5>1. i - 1 \in 1 .. n
          BY <1>1, <4>2
        <5> QED BY <1>1, <4>2, <5>1
      <4> QED BY <4>1, <4>2
    <3> QED BY <3>1
  <2>4. Flat(flatten)
    <3> HIDE DEF Flat, h
    <3> QED BY <2>3
  <2> HIDE DEF flatten
  <2> DEFINE S == {k \in 0 .. n : k >= 1 => flatten[k] = f[k]}
  <2>5. 0 \in S
    BY <1>1
  <2>6. ASSUME NEW k \in 0 .. n - 1, k \in S PROVE k + 1 \in S
    <3>1. k + 1 \in 1 .. n /\ (k + 1) - 1 = k /\ k + 1 \in 0 .. n
      BY <1>1
    <3>2. f[k + 1] = f[k] \o s[k + 1]
      BY <1>1, <3>1
    <3>3. CASE k = 0
      <4>1. flatten[1] = s[1]
        BY <2>4, <3>1, <3>3
      <4> QED BY <2>2, <3>1, <3>3, <4>1
    <3>4. CASE k # 0
      <4>1. flatten[k] = f[k] /\ k + 1 # 1
        BY <1>1, <2>6, <3>4
      <4>2. flatten[k + 1] = flatten[k] \o s[k + 1]
        BY <2>4, <3>1, <4>1
      <4> QED BY <3>1, <3>2, <4>1, <4>2
    <3> QED BY <3>3, <3>4
  <2>7. n \in S
    <3>1. \A k \in 0 .. n - 1 : k \in S => k + 1 \in S
      BY <2>6
    <3>2. n \in 0 .. n
      BY <1>1
    <3> HIDE DEF S
    <3> QED BY <1>1, <2>5, <3>1, <3>2, Forward
  <2>8. flatten[n] = f[n]
    BY <1>1, <1>3, <2>7
  <2> QED BY <2>1, <2>8 DEF n
<1> QED BY <1>2, <1>3

(* What is known of the loading: the text is that of the files read so far,  *)
(* and then the meaning of all files with the variables replaced so far.     *)
Loading ==
  /\ files \in Seq(Seq(Character))
  /\ env \in G!Environments
  /\ read \in 0 .. Len(files)
  /\ content \in Seq(Character)
  /\ replaced \in Seq(DOMAIN env)
  /\ \A p, q \in DOMAIN replaced : replaced[p] = replaced[q] => p = q
  /\ loaded \in {"none", "error", "ok"}
  /\ loaded = "ok" => read = Len(files) /\ G!ToSet(replaced) = DOMAIN env
  /\ read < Len(files) => replaced = <<>>
  /\ replaced = <<>> =>
       \E f \in [0 .. read -> Seq(Character)] : Joined(f, files, read) /\ content = f[read]
  /\ read = Len(files) =>
       /\ G!FlattenSeq(files) \in Seq(Character)
       /\ ~G!Arises(env, G!FlattenSeq(files), replaced)
            => content = G!Meaning(env, G!FlattenSeq(files), replaced)[1]

(* Lemma: when all files are read, the text is that of all files.            *)
LEMMA AllRead ==
  ASSUME files \in Seq(Seq(Character)), env \in G!Environments,
         NEW f \in [0 .. Len(files) -> Seq(Character)], Joined(f, files, Len(files))
  PROVE  /\ G!FlattenSeq(files) \in Seq(Character)
         /\ f[Len(files)] = G!Meaning(env, G!FlattenSeq(files), <<>>)[1]
<1>1. f[Len(files)] = G!FlattenSeq(files)
  BY AllJoined
<1>2. f[Len(files)] \in Seq(Character)
  <2>1. Len(files) \in 0 .. Len(files)
    OBVIOUS
  <2> QED BY <2>1
<1> QED BY <1>1, <1>2, MeaningOfNone

(* Lemma: every step of the loading keeps that.                              *)
LEMMA LoadingKept == Loading /\ [G!Next]_gVars => Loading'
<1> SUFFICES ASSUME Loading, [G!Next]_gVars PROVE Loading'
  OBVIOUS
<1>0. /\ files \in Seq(Seq(Character)) /\ env \in G!Environments
      /\ read \in 0 .. Len(files) /\ content \in Seq(Character)
      /\ replaced \in Seq(DOMAIN env) /\ Len(files) \in Nat
  BY DEF Loading
<1>1. CASE G!ReadFile
  <2>1. /\ loaded = "none" /\ read < Len(files) /\ read' = read + 1
        /\ content' = content \o files[read + 1]
        /\ files' = files /\ env' = env /\ replaced' = replaced /\ loaded' = loaded
        /\ replaced = <<>>
    BY <1>1 DEF G!ReadFile, Loading
  <2>2. read + 1 \in 1 .. Len(files) /\ files[read + 1] \in Seq(Character) /\ read \in Nat
    BY <1>0, <2>1
  <2>3. content' \in Seq(Character) /\ read' \in 0 .. Len(files')
    BY <1>0, <2>1, <2>2
  <2>4. \E g \in [0 .. read' -> Seq(Character)] : Joined(g, files', read') /\ content' = g[read']
    <3>1. PICK f \in [0 .. read -> Seq(Character)] : Joined(f, files, read) /\ content = f[read]
      BY <2>1 DEF Loading
    <3> DEFINE g == [k \in 0 .. read + 1 |-> IF k <= read THEN f[k] ELSE content']
    <3>2. g \in [0 .. read' -> Seq(Character)]
      BY <2>1, <2>2, <2>3
    <3>3. g[read + 1] = content'
      BY <2>2
    <3>4. \A k \in 0 .. read : g[k] = f[k]
      BY <2>2
    <3> HIDE DEF g
    <3>5. g[0] = <<>>
      BY <2>2, <3>1, <3>4 DEF Joined
    <3>6. ASSUME NEW k \in 1 .. read + 1 PROVE g[k] = g[k - 1] \o files[k]
      <4>1. CASE k = read + 1
        <5>1. k - 1 = read /\ read \in 0 .. read
          BY <2>2, <4>1
        <5> QED BY <2>1, <3>1, <3>3, <3>4, <4>1, <5>1
      <4>2. CASE k # read + 1
        <5>1. k \in 1 .. read /\ k \in 0 .. read /\ k - 1 \in 0 .. read
          BY <2>2, <4>2
        <5>2. f[k] = f[k - 1] \o files[k]
          BY <3>1, <5>1 DEF Joined
        <5> QED BY <3>4, <5>1, <5>2
      <4> QED BY <4>1, <4>2
    <3>7. Joined(g, files', read')
      BY <2>1, <3>5, <3>6 DEF Joined
    <3>8. content' = g[read']
      BY <2>1, <3>3
    <3> QED BY <3>2, <3>7, <3>8
  <2>5. ASSUME read' = Len(files')
        PROVE  /\ G!FlattenSeq(files') \in Seq(Character)
               /\ content' = G!Meaning(env', G!FlattenSeq(files'), replaced')[1]
    <3>1. PICK g \in [0 .. Len(files) -> Seq(Character)] :
                 Joined(g, files, Len(files)) /\ content' = g[Len(files)]
      BY <2>1, <2>4, <2>5
    <3>2. /\ G!FlattenSeq(files) \in Seq(Character)
          /\ content' = G!Meaning(env, G!FlattenSeq(files), <<>>)[1]
      BY <1>0, <3>1, AllRead
    <3> QED BY <2>1, <3>2
  <2>6. /\ files' \in Seq(Seq(Character)) /\ env' \in G!Environments
        /\ replaced' \in Seq(DOMAIN env')
        /\ \A p, q \in DOMAIN replaced' : replaced'[p] = replaced'[q] => p = q
        /\ loaded' = "none"
    BY <1>0, <2>1
  <2>7. read' < Len(files') => replaced' = <<>>
    BY <2>1
  <2> QED BY <2>3, <2>4, <2>5, <2>6, <2>7 DEF Loading
<1>2. CASE G!ReadFails
  <2>1. /\ files' = files /\ env' = env /\ read' = read /\ content' = content
        /\ replaced' = replaced /\ loaded' = "error"
    BY <1>2 DEF G!ReadFails
  <2> QED BY <2>1 DEF Loading
<1>3. ASSUME NEW n \in Name, G!ReplaceVariable(n) PROVE Loading'
  <2>1. /\ loaded = "none" /\ read = Len(files)
        /\ n \in DOMAIN env /\ n \notin G!ToSet(replaced)
        /\ content' = G!replace(content, G!Reference(n), env[n])
        /\ replaced' = Append(replaced, n)
        /\ files' = files /\ env' = env /\ read' = read /\ loaded' = loaded
    BY <1>3 DEF G!ReplaceVariable
  <2>2. content' \in Seq(Character)
    BY <1>0, <2>1, ReplaceType
  <2>3. /\ replaced' \in Seq(DOMAIN env) /\ replaced' # <<>>
        /\ Len(replaced') = Len(replaced) + 1 /\ Len(replaced) \in Nat
        /\ \A p \in 1 .. Len(replaced) : replaced'[p] = replaced[p]
        /\ replaced'[Len(replaced) + 1] = n
    BY <1>0, <2>1, AppendProperties
  <2>4. \A p, q \in DOMAIN replaced' : replaced'[p] = replaced'[q] => p = q
    <3>1. \A p \in 1 .. Len(replaced) : replaced[p] # n
      BY <1>0, <2>1 DEF G!ToSet
    <3>2. \A p, q \in 1 .. Len(replaced) : replaced[p] = replaced[q] => p = q
      BY <1>0 DEF Loading
    <3>3. DOMAIN replaced' = 1 .. Len(replaced) + 1
      BY <2>3
    <3>4. \A p \in 1 .. Len(replaced) + 1 : p \in 1 .. Len(replaced) \/ p = Len(replaced) + 1
      BY <2>3
    <3> QED BY <2>3, <3>1, <3>2, <3>3, <3>4, Zenon
  <2> DEFINE text == G!FlattenSeq(files)
  <2>5. /\ text \in Seq(Character)
        /\ ~G!Arises(env, text, replaced) => content = G!Meaning(env, text, replaced)[1]
    BY <2>1 DEF Loading
  <2> HIDE DEF text
  <2>6. ASSUME ~G!Arises(env, text, Append(replaced, n))
        PROVE  content' = G!Meaning(env, text, Append(replaced, n))[1]
    <3>1. ~G!Arises(env, text, replaced) /\ ~ArisesNext(text, replaced, n)
      BY <1>0, <2>1, <2>6, ArisesLess
    <3>2. content = G!Meaning(env, text, replaced)[1]
      BY <2>5, <3>1
    <3>3. G!replace(G!Meaning(env, text, replaced)[1], G!Reference(n), env[n])
            = G!Meaning(env, text, Append(replaced, n))[1]
      BY <1>0, <2>1, <2>5, <3>1, OneMore
    <3> QED BY <2>1, <3>2, <3>3
  <2>7. /\ G!FlattenSeq(files') \in Seq(Character)
        /\ ~G!Arises(env', G!FlattenSeq(files'), replaced')
             => content' = G!Meaning(env', G!FlattenSeq(files'), replaced')[1]
    BY <2>1, <2>5, <2>6 DEF text
  <2>8. /\ files' \in Seq(Seq(Character)) /\ env' \in G!Environments
        /\ read' \in 0 .. Len(files') /\ replaced' \in Seq(DOMAIN env')
        /\ loaded' = "none" /\ ~(read' < Len(files'))
    BY <1>0, <2>1, <2>3
  <2> QED BY <2>2, <2>3, <2>4, <2>7, <2>8 DEF Loading
<1>4. CASE G!Deserialise
  <2>1. /\ files' = files /\ env' = env /\ read' = read /\ content' = content
        /\ replaced' = replaced /\ loaded' = "ok"
        /\ read = Len(files) /\ G!ToSet(replaced) = DOMAIN env
    BY <1>4 DEF G!Deserialise
  <2> QED BY <2>1 DEF Loading
<1>5. CASE UNCHANGED gVars
  <2>1. /\ files' = files /\ env' = env /\ read' = read /\ content' = content
        /\ replaced' = replaced /\ loaded' = loaded
    BY <1>5 DEF gVars
  <2> QED BY <2>1 DEF Loading
<1> QED BY <1>1, <1>2, <1>3, <1>4, <1>5 DEF G!Next

(* Lemma: nothing is read at first.                                          *)
LEMMA LoadingFirst == SeqInit => Loading
<1> SUFFICES ASSUME SeqInit PROVE Loading
  OBVIOUS
<1>1. /\ files \in Seq(Seq(Character)) /\ env \in G!Environments
      /\ read = 0 /\ content = <<>> /\ replaced = <<>> /\ loaded = "none"
  <2>1. CASE part = "config"
    <3>1. G!Init
      BY <2>1 DEF SeqInit
    <3>2. G!Text = Seq(Character)
      BY DEF G!Text, Character
    <3> QED BY <3>1, <3>2, PartsAssumption DEF G!Init, G!ConfigAssumption
  <2>2. CASE part # "config"
    <3>1. /\ files = <<>> /\ env = <<>> /\ read = 0
          /\ content = <<>> /\ replaced = <<>> /\ loaded = "none"
      BY <2>2 DEF SeqInit
    <3>2. <<>> \in [{} -> Value] /\ DOMAIN <<>> = {}
      OBVIOUS
    <3>3. <<>> \in G!Environments
      BY <3>2 DEF G!Environments
    <3> QED BY <3>1, <3>3
  <2> QED BY <2>1, <2>2
<1>2. Len(files) \in Nat /\ replaced \in Seq(DOMAIN env) /\ DOMAIN replaced = {}
  BY <1>1
<1> DEFINE f == [k \in 0 .. 0 |-> <<>>]
<1>3. f \in [0 .. read -> Seq(Character)] /\ f[0] = <<>>
  BY <1>1
<1>4. Joined(f, files, read) /\ content = f[read]
  BY <1>1, <1>3 DEF Joined
<1> HIDE DEF f
<1>5. ASSUME read = Len(files)
      PROVE  /\ G!FlattenSeq(files) \in Seq(Character)
             /\ content = G!Meaning(env, G!FlattenSeq(files), replaced)[1]
  BY <1>1, <1>3, <1>4, <1>5, AllRead
<1> QED BY <1>1, <1>2, <1>3, <1>4, <1>5 DEF Loading

(* Lemma: the text is of that kind in every state.                           *)
LEMMA AlwaysLoading == SeqSpec => []Loading
<1>1. Loading /\ [SeqNext]_<<part, vars, cVars, gVars>> => Loading'
  <2> SUFFICES ASSUME Loading, [SeqNext]_<<part, vars, cVars, gVars>> PROVE Loading'
    OBVIOUS
  <2>1. [G!Next]_gVars
    BY DEF SeqNext
  <2> QED BY <2>1, LoadingKept
<1> QED BY <1>1, LoadingFirst, PTL DEF SeqSpec

(* Lemma: the parts of the loading have their types.                         *)
LEMMA LoadingTypes == ASSUME Loading PROVE G!TypeOK
BY DEF Loading, G!TypeOK, G!Text, Character, G!ToSet

(* Theorem: in whatever order the variables are replaced, every reference    *)
(* becomes the value of the variable replaced first of those it can be read  *)
(* as, across files and with any values, and nothing else is changed; unless *)
(* replacing makes a reference to a variable whose turn is still to come.    *)
THEOREM ReferencesAreReplaced == SeqSpec => []ReferencesReplaced
<1>1. Loading => ReferencesReplaced
  BY DEF Loading, ReferencesReplaced, G!ReferencesReplaced
<1> QED BY <1>1, AlwaysLoading, PTL

(* Theorem: the values of the three parts have their types.                  *)
THEOREM PartsTypeCorrect == SeqSpec => []PartsTypeOK
<1>1. TypeOK /\ Converted /\ Loading => PartsTypeOK
  BY ConvertedTypes, LoadingTypes DEF PartsTypeOK
<1> QED BY <1>1, DatagramsInside, TypeCorrect, AlwaysConverted, AlwaysLoading, PTL
=============================================================================
