------------------------------ MODULE KeepAlive ------------------------------
(***************************************************************************)
(* The PULL_DATA keepalive of one server: pull_data_loop, which sends a    *)
(* PULL_DATA frame with a random token every keepalive interval and counts *)
(* the frames whose token was not the last one acknowledged, and           *)
(* handle_pull_ack, by which the UDP receive thread stores the token of    *)
(* every PULL_ACK it reads.  The two threads share pull_data_token and     *)
(* pull_data_token_acked, each behind a mutex of its own.                  *)
(*                                                                         *)
(* The server and the network are the set pull_acks: the PULL_ACKs that    *)
(* may still arrive.  Any frame may remain without one (lost, or the       *)
(* server is down); Faults says whether the network may deliver one twice, *)
(* or let an older one overtake a newer one.                               *)
(***************************************************************************)
EXTENDS Naturals

CONSTANTS
  Tokens,                 \* what rng.random() draws a u16 random_token from
  keepalive_max_failures, \* Server.keepalive_max_failures; 0 switches the limit off
  U32,                    \* the number of values of a u32: missed_acks wraps at U32
  Faults                  \* what the network may do to the PULL_ACKs

ASSUME KeepAliveAssumption ==
  /\ 0 \in Tokens
  /\ U32 \in Nat
  /\ keepalive_max_failures \in Nat
  /\ keepalive_max_failures + 1 < U32
  /\ Faults \subseteq {"loss", "duplication", "reordering"}

VARIABLES
  pull_data_token,        \* State.pull_data_token: the token sent last
  pull_data_token_acked,  \* State.pull_data_token_acked: the token acknowledged last
  missed_acks,            \* the local counter of pull_data_loop
  pull_pc,                \* where the PULL_DATA thread is
  pull_acks,              \* PULL_ACKs that may still arrive, and whether each answers
                          \* the frame sent last ("current") or an earlier one
  answered,               \* history: no frame sent last is waiting for its PULL_ACK
  collided,               \* history: the token drawn last was acknowledged or in flight
  unanswered,             \* history: consecutive checks that found ~answered, capped
  silent                  \* history: of these, the consecutive ones with ~collided

netVars == <<pull_data_token, pull_data_token_acked, pull_acks, answered, collided>>
countVars == <<missed_acks, unanswered, silent>>
vars == <<netVars, countVars, pull_pc>>

PullAck == [token : Tokens, current : BOOLEAN]

TypeOK ==
  /\ pull_data_token \in Tokens
  /\ pull_data_token_acked \in Tokens
  /\ missed_acks \in 0 .. U32 - 1
  /\ pull_pc \in {"check", "send", "sleep", "signal", "done"}
  /\ pull_acks \subseteq PullAck
  /\ answered \in BOOLEAN
  /\ collided \in BOOLEAN
  /\ unanswered \in 0 .. keepalive_max_failures + 1
  /\ silent \in 0 .. keepalive_max_failures + 1

(* A new State and a new PULL_DATA thread.  No frame has been sent, and the  *)
(* new socket has a new port, which no PULL_ACK of the old one can reach.    *)
Init ==
  /\ pull_data_token = 0
  /\ pull_data_token_acked = 0
  /\ missed_acks = 0
  /\ pull_pc = "check"
  /\ pull_acks = {}
  /\ answered = TRUE
  /\ collided = FALSE
  /\ unanswered = 0
  /\ silent = 0

-----------------------------------------------------------------------------
(* The PULL_DATA thread.                                                     *)

Missed == pull_data_token # pull_data_token_acked

(* Mutated forms of CountMissed: the counter is not reset, it decays without *)
(* a floor, it stops at the limit.                                           *)
CountMissedNoReset == IF Missed THEN (missed_acks + 1) % U32 ELSE missed_acks
CountMissedDecay == IF Missed THEN (missed_acks + 1) % U32 ELSE missed_acks - 1
CountMissedSaturated ==
  IF Missed /\ missed_acks < keepalive_max_failures
    THEN missed_acks + 1
    ELSE IF Missed THEN missed_acks ELSE 0

CountMissed == IF Missed THEN (missed_acks + 1) % U32 ELSE 0

(* A mutated form of GivesUp: one frame late.                                *)
GivesUpLate(missed) ==
  keepalive_max_failures # 0 /\ missed > keepalive_max_failures + 1

GivesUp(missed) == keepalive_max_failures # 0 /\ missed > keepalive_max_failures

(* One more unanswered frame in a row; the history stops counting where the  *)
(* limit has been passed.                                                    *)
OneMore(streak) ==
  IF streak > keepalive_max_failures THEN streak ELSE streak + 1

(* Compare the two tokens and count.  The token is written by this thread    *)
(* alone, so the read of pull_data_token_acked is the only shared step.      *)
CheckAcked ==
  /\ pull_pc = "check"
  /\ missed_acks' = CountMissed
  /\ pull_pc' = IF GivesUp(missed_acks') THEN "signal" ELSE "send"
  /\ unanswered' = IF answered THEN 0 ELSE OneMore(unanswered)
  /\ silent' = IF answered \/ collided THEN 0 ELSE OneMore(silent)
  /\ UNCHANGED netVars

Aged(acks) == {[m EXCEPT !.current = FALSE] : m \in acks}

(* Draw a token and send the frame.  The send may fail (it is only logged),  *)
(* the server may be down or the frame lost: then there is no PULL_ACK.      *)
SendPullData ==
  /\ pull_pc = "send"
  /\ pull_pc' = "sleep"
  /\ \E token \in Tokens, answer \in BOOLEAN :
       /\ pull_data_token' = token
       /\ collided' = (\/ token = pull_data_token_acked
                       \/ \E m \in pull_acks : m.token = token)
       /\ pull_acks' = Aged(pull_acks)
                         \cup {m \in {[token |-> token, current |-> TRUE]} : answer}
  /\ answered' = FALSE
  /\ UNCHANGED <<pull_data_token_acked, countVars>>

Wake ==
  /\ pull_pc = "sleep"
  /\ pull_pc' = "check"
  /\ UNCHANGED <<netVars, countVars>>

(* send_signal has handed Stop to the other two threads; this one returns.   *)
Terminate ==
  /\ pull_pc = "signal"
  /\ pull_pc' = "done"
  /\ UNCHANGED <<netVars, countVars>>

-----------------------------------------------------------------------------
(* The UDP receive thread, and the network.                                  *)

Deliverable(m) ==
  \/ ~m.current
  \/ "reordering" \in Faults
  \/ \A n \in pull_acks : n.current

Remains(m) ==
  {pull_acks \ {m}} \cup IF "duplication" \in Faults THEN {pull_acks} ELSE {}

(* The received token is stored whatever it is: the comparison with the      *)
(* expected one only decides what is logged.                                 *)
handle_pull_ack(m) ==
  /\ Deliverable(m)
  /\ pull_data_token_acked' = m.token
  /\ answered' = (answered \/ m.current)
  /\ pull_acks' \in Remains(m)
  /\ UNCHANGED <<pull_data_token, collided, countVars, pull_pc>>

-----------------------------------------------------------------------------
(* The loop of start(), as far as it touches this state.                     *)

Start ==
  /\ pull_pc = "done"
  /\ pull_data_token' = 0
  /\ pull_data_token_acked' = 0
  /\ missed_acks' = 0
  /\ pull_pc' = "check"
  /\ pull_acks' = {}
  /\ answered' = TRUE
  /\ collided' = FALSE
  /\ unanswered' = 0
  /\ silent' = 0

(* A panic of any thread, or a kill, ends the process.                       *)
Crash ==
  /\ pull_pc # "done"
  /\ pull_pc' = "done"
  /\ UNCHANGED <<netVars, countVars>>

pull_data_loop == CheckAcked \/ SendPullData \/ Wake \/ Terminate

Next ==
  \/ pull_data_loop
  \/ \E m \in pull_acks : handle_pull_ack(m)
  \/ Start
  \/ Crash

Spec == Init /\ [][Next]_vars

(* The operating system schedules the PULL_DATA thread.                      *)
FairSpec == Spec /\ WF_vars(pull_data_loop)

-----------------------------------------------------------------------------
(* The thread gives the connection up only when a limit is set and more than *)
(* keepalive_max_failures frames in a row had not been answered when they    *)
(* were checked: what the configuration file says of the limit.  It holds    *)
(* when the PULL_ACKs arrive in the order of the frames they answer.         *)
StopJustified ==
  pull_pc = "signal" =>
    /\ keepalive_max_failures # 0
    /\ unanswered > keepalive_max_failures

(* The thread never goes on after more than keepalive_max_failures           *)
(* unanswered frames in a row, unless a random token collided with an        *)
(* acknowledged one or one in flight, which makes a frame look acknowledged. *)
StopDue ==
  keepalive_max_failures # 0 /\ pull_pc \in {"send", "sleep"}
    => silent <= keepalive_max_failures

(* When at some point no PULL_ACK reaches the gateway any more and no token  *)
(* collides, no incarnation lives for ever: each one is given up.            *)
SilenceDetected ==
  keepalive_max_failures # 0
    => (<>[](pull_acks = {} /\ ~collided) => []<>(pull_pc = "done"))
=============================================================================
