----------------------------- MODULE Datagrams ------------------------------
(***************************************************************************)
(* The datagrams of the Semtech UDP protocol as bytes: a version, a random *)
(* token of two bytes, an identifier, and a rest.  udp_receive_loop reads  *)
(* every datagram into the same buffer, chooses a handler by the           *)
(* identifier, and the handler parses as many bytes of the buffer as were  *)
(* received.  A PULL_RESP is answered by a TX_ACK with its token, if       *)
(* nothing goes wrong before: the downlink is converted, the Concentratord *)
(* replies in time, and its reply decodes and has one item.                *)
(*                                                                         *)
(* A JSON text, or what comes instead, is one byte here: whether there is  *)
(* one and nothing after it.  What it says is left to Conversions.  A text *)
(* that aborts the process is never followed by a TX_ACK, nor by anything. *)
(***************************************************************************)
EXTENDS Naturals, Sequences

CONSTANTS
  TokenByte,    \* the bytes of tokens, 0 .. 255 in the code
  Json,         \* a byte that stands for a JSON text
  BufferSize    \* 65535 in the code

Base == 256
Byte == 0 .. Base - 1

PROTOCOL_VERSION == 2
Identifier == [PUSH_DATA |-> 0, PUSH_ACK |-> 1, PULL_DATA |-> 2,
               PULL_RESP |-> 3, PULL_ACK |-> 4, TX_ACK |-> 5]

ASSUME DatagramsAssumption ==
  /\ TokenByte \subseteq Byte
  /\ Json \in Byte \ {0}
  /\ BufferSize \in Nat
  /\ BufferSize >= 5

VARIABLES
  buffer,    \* the local buffer of udp_receive_loop
  received,  \* the datagram received last
  handled,   \* what its handler took it for
  tx_ack     \* the TX_ACK it was answered by, <<>> if none

vars == <<buffer, received, handled, tx_ack>>

-----------------------------------------------------------------------------
(* A mutated form of to_be_bytes: the bytes are swapped.                      *)
to_le_bytes(token) == <<token % Base, token \div Base>>

to_be_bytes(token) == <<token \div Base, token % Base>>

from_be_bytes(high, low) == high * Base + low

gateway_id == <<1, 2, 3, 4, 5, 6, 7, 8>>   \* that of the tests

(* TxAck::to_bytes.                                                          *)
TxAck(token) ==
  LET bytes == to_be_bytes(token)
  IN <<PROTOCOL_VERSION, bytes[1], bytes[2], Identifier["TX_ACK"]>> \o gateway_id \o <<Json>>

(* What the server sends.                                                    *)
ServerKind == {"PUSH_ACK", "PULL_ACK", "PULL_RESP"}
FromServer(kind, high, low) ==
  IF kind = "PULL_RESP"
    THEN <<PROTOCOL_VERSION, high, low, Identifier[kind], Json>>
    ELSE <<PROTOCOL_VERSION, high, low, Identifier[kind]>>

Refused == [kind |-> "none", token |-> 0]

LengthFits(kind, b) == IF kind = "PULL_RESP" THEN Len(b) >= 5 ELSE Len(b) = 4

(* PushAck::from_bytes, PullAck::from_bytes and PullResp::from_bytes.        *)
from_bytes(kind, b) ==
  IF /\ LengthFits(kind, b)
     /\ b[1] = PROTOCOL_VERSION
     /\ b[4] = Identifier[kind]
     /\ kind = "PULL_RESP" => Len(b) = 5 /\ b[5] = Json
    THEN [kind |-> kind, token |-> from_be_bytes(b[2], b[3])]
    ELSE Refused

(* A mutated form of Slice: the whole buffer, without [..size].              *)
SliceAll(buf, size) == IF size > 0 THEN buf ELSE <<>>

Slice(buf, size) == [i \in 1 .. size |-> buf[i]]

(* The handler is chosen by the identifier, if there is one.                 *)
Dispatch(identifier, b) ==
  CASE identifier = 1 -> from_bytes("PUSH_ACK", b)
    [] identifier = 3 -> from_bytes("PULL_RESP", b)
    [] identifier = 4 -> from_bytes("PULL_ACK", b)
    [] OTHER -> Refused

Handle(buf, size) ==
  IF size < 4 THEN Refused ELSE Dispatch(buf[4], Slice(buf, size))

(* A datagram fits the buffer: UDP has none longer than 65507 bytes.         *)
Write(buf, d) ==
  [i \in 1 .. BufferSize |-> IF i <= Len(d) THEN d[i] ELSE buf[i]]

(* What may arrive: what the server sends, or a part of it, with another     *)
(* version or identifier, or with a byte after it.                           *)
Datagram ==
  LET tail(d, n) == SubSeq(d, 1, n)
      whole == {<<version, high, low, id, text, Json>> :
                  version \in {1, PROTOCOL_VERSION}, high \in TokenByte, low \in TokenByte,
                  id \in 0 .. 5, text \in {0, Json}}
  IN {tail(d, n) : d \in whole, n \in 0 .. 6}

Init ==
  /\ buffer = [i \in 1 .. BufferSize |-> 0]
  /\ received = <<>>
  /\ handled = Refused
  /\ tx_ack = <<>>

(* replied: the downlink of a PULL_RESP is converted, and the reply of the   *)
(* Concentratord comes in time, decodes and has one item.  If not, the       *)
(* handler returns an error, which is logged.                                *)
Receive(d, replied) ==
  /\ Len(d) <= BufferSize
  /\ buffer' = Write(buffer, d)
  /\ received' = d
  /\ handled' = Handle(buffer', Len(d))
  /\ tx_ack' = IF handled'.kind = "PULL_RESP" /\ replied
                 THEN TxAck(handled'.token)
                 ELSE <<>>

Next == \E d \in Datagram, replied \in BOOLEAN : Receive(d, replied)

Spec == Init /\ [][Next]_vars

-----------------------------------------------------------------------------
TypeOK ==
  /\ buffer \in [1 .. BufferSize -> Byte]
  /\ handled \in [kind : ServerKind \cup {"none"}, token : 0 .. Base * Base - 1]

(* A handler takes a datagram for what the server has sent and for nothing   *)
(* else, whatever datagrams the buffer held before: no part of an older one  *)
(* completes a short datagram, or spoils it.                                 *)
HandledIsReceived ==
  \A kind \in ServerKind, high, low \in TokenByte :
    handled = [kind |-> kind, token |-> high * Base + low]
      <=> received = FromServer(kind, high, low)

(* A TX_ACK is sent for a well-formed PULL_RESP only, and it is complete and *)
(* has the same two token bytes, which are all by which the server knows     *)
(* which of its downlinks it is about: never those of an older datagram in   *)
(* the same buffer, and none for a datagram that is not a PULL_RESP.         *)
TokenEchoed ==
  tx_ack # <<>> =>
    \E high, low \in TokenByte :
      /\ received = FromServer("PULL_RESP", high, low)
      /\ Len(tx_ack) = 13
      /\ tx_ack[1] = PROTOCOL_VERSION /\ tx_ack[2] = high /\ tx_ack[3] = low
      /\ tx_ack[4] = 5
=============================================================================
