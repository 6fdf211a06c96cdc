------------------------------ MODULE Downlink ------------------------------
(***************************************************************************)
(* The downlinks of one server: handle_pull_resp, run by the UDP receive   *)
(* thread, passes the frame of a PULL_RESP to the Concentratord over a     *)
(* ZeroMQ REQ socket, waits at most 100 ms for the reply and answers the   *)
(* server with a TX_ACK.  Nothing in the reply is compared with the        *)
(* request: that the two belong together rests on the REQ socket, which    *)
(* refuses to send while it waits for a reply (an error that is unwrapped, *)
(* so it aborts the process).  A PULL_RESP that does not parse is dropped, *)
(* except that one whose datr is a number other than a u64 panics.         *)
(*                                                                         *)
(* A downlink is named by its number.  The random token of its PULL_RESP,  *)
(* which the server uses to tell the TX_ACKs apart, is that number.        *)
(***************************************************************************)
EXTENDS Naturals, FiniteSets

CONSTANTS
  TxAckStatus,   \* the statuses of a DownlinkTxAck item, "Ok" among them
  MaxDownlinks   \* bound: PULL_RESPs of one incarnation

ASSUME DownlinkAssumption ==
  /\ TxAckStatus \subseteq STRING
  /\ {"", "undecodable", "not_one_item", "none"} \cap TxAckStatus = {}
  /\ MaxDownlinks \in Nat

VARIABLES
  command_sock,  \* the REQ socket State.command_sock: what it lets its user do next
  dl_pc,         \* where handle_pull_resp is
  pull_resp,     \* its local pull_resp
  requests,      \* frames on their way to the Concentratord or being processed there
  replies,       \* replies the REQ socket has received, each with its frame
  downlinks,     \* history: frames passed to the Concentratord
  verdict,       \* history: what the Concentratord replied to each frame
  tx_acks,       \* history: TX_ACKs sent
  timed_out      \* history: the poll has timed out in this incarnation

sockVars == <<command_sock, requests, replies, verdict>>
vars == <<sockVars, dl_pc, pull_resp, downlinks, tx_acks, timed_out>>

Ids == 1 .. MaxDownlinks
Results == TxAckStatus \cup {"undecodable", "not_one_item"}

(* The text of a TX_ACK: empty for Ok, the name of the status otherwise.     *)
Error(status) == IF status = "Ok" THEN "" ELSE status

TypeOK ==
  /\ command_sock \in {"send", "recv"}
  /\ dl_pc \in {"idle", "poll", "send_panicked", "parse_panicked", "ended"}
  /\ pull_resp \in 0 .. MaxDownlinks
  /\ requests \subseteq Ids
  /\ replies \subseteq [id : Ids, result : Results]
  /\ downlinks \in 0 .. MaxDownlinks
  /\ verdict \in [Ids -> Results \cup {"none"}]
  /\ tx_acks \subseteq [id : Ids, error : {Error(s) : s \in TxAckStatus}]
  /\ timed_out \in BOOLEAN

(* A new State has a new socket: what was under way on the old one is gone.  *)
Init ==
  /\ command_sock = "send"
  /\ dl_pc = "idle"
  /\ pull_resp = 0
  /\ requests = {}
  /\ replies = {}
  /\ downlinks = 0
  /\ verdict = [id \in Ids |-> "none"]
  /\ tx_acks = {}
  /\ timed_out = FALSE

-----------------------------------------------------------------------------
(* handle_pull_resp.                                                         *)

(* What PullResp::from_bytes and TxPk::to_proto look at.  A datr is          *)
(* "not_u64" when it is a negative number, one with a fraction or an         *)
(* exponent, or one beyond u64.  Other PULL_RESPs that do not parse are      *)
(* dropped, as those that do not convert, before the socket is used.  There  *)
(* is a timing if imme is true or tmst or tmms is given.                     *)
TxPk == [modu : {"LORA", "FSK"}, datr : {"Lora", "Fsk", "not_u64"},
         timing : {"some", "none"}, data : {"base64", "garbage"}]

DatrPanics(txpk) == txpk.datr = "not_u64"

Converts(txpk) ==
  /\ ~DatrPanics(txpk)
  /\ (txpk.modu = "LORA") <=> (txpk.datr = "Lora")
  /\ txpk.timing # "none"
  /\ txpk.data = "base64"

(* A mutated form of SendAllowed: a relaxed REQ socket, which may send again.*)
SendAllowedRelaxed == command_sock \in {"send", "recv"}

SendAllowed == command_sock = "send"

(* v.as_u64().unwrap() panics while the PULL_RESP is parsed.                 *)
ParsePanics(txpk) ==
  /\ dl_pc = "idle"
  /\ DatrPanics(txpk)
  /\ dl_pc' = "parse_panicked"
  /\ UNCHANGED <<sockVars, pull_resp, downlinks, tx_acks, timed_out>>

(* Pass the frame on, and poll for the reply.                                *)
SendCommand(txpk) ==
  /\ dl_pc = "idle"
  /\ downlinks < MaxDownlinks
  /\ Converts(txpk)
  /\ SendAllowed
  /\ downlinks' = downlinks + 1
  /\ pull_resp' = downlinks + 1
  /\ requests' = requests \cup {downlinks + 1}
  /\ command_sock' = "recv"
  /\ dl_pc' = "poll"
  /\ UNCHANGED <<replies, verdict, tx_acks, timed_out>>

(* sock.send(b, 0).unwrap() panics: the socket still waits for a reply.      *)
SendPanics(txpk) ==
  /\ dl_pc = "idle"
  /\ Converts(txpk)
  /\ ~SendAllowed
  /\ dl_pc' = "send_panicked"
  /\ UNCHANGED <<sockVars, pull_resp, downlinks, tx_acks, timed_out>>

(* Mutated forms of ReceiveReply: a reply that does not decode is passed on, *)
(* such a reply is left in the socket.                                       *)
ReceiveReplyUnchecked ==
  /\ dl_pc = "poll"
  /\ dl_pc' = "idle"
  /\ command_sock' = "send"
  /\ \E reply \in replies :
       /\ replies' = replies \ {reply}
       /\ tx_acks' = tx_acks \cup {[id |-> pull_resp, error |-> Error(reply.result)]}
  /\ UNCHANGED <<pull_resp, requests, verdict, downlinks, timed_out>>
ReceiveReplyUnread ==
  /\ dl_pc = "poll"
  /\ dl_pc' = "idle"
  /\ \E reply \in replies :
       /\ command_sock' = IF reply.result \in TxAckStatus THEN "send" ELSE "recv"
       /\ replies' = replies \ {r \in {reply} : r.result \in TxAckStatus}
       /\ tx_acks' = tx_acks \cup
            {[id |-> pull_resp, error |-> Error(status)] :
               status \in {reply.result} \cap TxAckStatus}
  /\ UNCHANGED <<pull_resp, requests, verdict, downlinks, timed_out>>

(* The socket becomes readable in time: receive the reply, and send a TX_ACK *)
(* unless it does not decode or does not have exactly one item.              *)
ReceiveReply ==
  /\ dl_pc = "poll"
  /\ dl_pc' = "idle"
  /\ command_sock' = "send"
  /\ \E reply \in replies :
       /\ replies' = replies \ {reply}
       /\ tx_acks' = tx_acks \cup
            {[id |-> pull_resp, error |-> Error(status)] :
               status \in {reply.result} \cap TxAckStatus}
  /\ UNCHANGED <<pull_resp, requests, verdict, downlinks, timed_out>>

(* No reply within 100 ms.  The error is logged; the socket is left as it is.*)
TimeOut ==
  /\ dl_pc = "poll"
  /\ replies = {}
  /\ dl_pc' = "idle"
  /\ timed_out' = TRUE
  /\ UNCHANGED <<sockVars, pull_resp, downlinks, tx_acks>>

handle_pull_resp ==
  \/ \E txpk \in TxPk : ParsePanics(txpk) \/ SendCommand(txpk) \/ SendPanics(txpk)
  \/ ReceiveReply
  \/ TimeOut

-----------------------------------------------------------------------------
(* The Concentratord: it replies to a request once, at any time, also after  *)
(* the poll has given up; or it goes away, and the reply never comes.        *)

Reply(id, result) ==
  /\ requests' = requests \ {id}
  /\ replies' = replies \cup {[id |-> id, result |-> result]}
  /\ verdict' = [verdict EXCEPT ![id] = result]
  /\ UNCHANGED <<command_sock, dl_pc, pull_resp, downlinks, tx_acks, timed_out>>

LoseRequest(id) ==
  /\ requests' = requests \ {id}
  /\ UNCHANGED <<command_sock, replies, verdict, dl_pc, pull_resp, downlinks,
                 tx_acks, timed_out>>

-----------------------------------------------------------------------------
(* Another thread panics, which ends this one wherever it is.                *)
Crash ==
  /\ dl_pc \in {"idle", "poll"}
  /\ dl_pc' = "ended"
  /\ UNCHANGED <<sockVars, pull_resp, downlinks, tx_acks, timed_out>>

(* The loop of start(), or of the service manager after a panic, begins      *)
(* again.                                                                    *)
Restart ==
  /\ command_sock' = "send"
  /\ dl_pc' = "idle"
  /\ pull_resp' = 0
  /\ requests' = {}
  /\ replies' = {}
  /\ downlinks' = 0
  /\ verdict' = [id \in Ids |-> "none"]
  /\ tx_acks' = {}
  /\ timed_out' = FALSE

Concentratord ==
  \E id \in requests : LoseRequest(id) \/ \E result \in Results : Reply(id, result)

Next == handle_pull_resp \/ Concentratord \/ Crash \/ Restart

Spec == Init /\ [][Next]_vars

(* The operating system schedules the receive thread, so that a poll ends.   *)
FairSpec == Spec /\ WF_vars(ReceiveReply \/ TimeOut)

-----------------------------------------------------------------------------
(* A TX_ACK tells the server what the Concentratord replied to the frame of  *)
(* the PULL_RESP with the same token, never the late reply to another frame, *)
(* and nothing where there was no reply.                                     *)
TxAckTruthful ==
  \A ack \in tx_acks :
    /\ verdict[ack.id] \in TxAckStatus
    /\ ack.error = Error(verdict[ack.id])

(* The unwrap of sock.send fails only when an earlier poll has timed out: as *)
(* long as the Concentratord answers in time, no sequence of PULL_RESPs and  *)
(* replies, undecodable ones included, leaves the socket unable to send.     *)
(* (A PULL_RESP can still abort the process while it is parsed.)             *)
SendPanicsOnlyAfterTimeout == dl_pc = "send_panicked" => timed_out

(* What the comment on the poller says, that it lets handle_pull_resp time   *)
(* out: the PULL_RESP after a timeout is handled like any other.             *)
TimeoutHarmless == dl_pc # "send_panicked"
=============================================================================
