------------------------------ MODULE Session -------------------------------
(***************************************************************************)
(* What the rest of the process, and the server, can rely on of the        *)
(* forwarder of one server, whatever its threads do: a connection that is  *)
(* given up is stopped completely before the next one is made, and each of *)
(* the two takes its turn, unless the process ends.  Forwarder, with its   *)
(* three threads, implements this, and so does Process for each server.    *)
(***************************************************************************)

VARIABLE session
  \* "down": there is no process, or it has not connected to the server yet
  \* "up", "stopping": the threads run; given up, and some of them still run
  \* "stopped": all threads have returned

Init == session \in {"down", "up"}

Move(from, to) == session = from /\ session' = to

GiveUp == Move("up", "stopping")
Stopped == Move("stopping", "stopped")
Reconnect == Move("stopped", "up")
Begin == Move("down", "up")

(* Any panic ends all sessions, also one of another server's threads.        *)
Abort == session # "down" /\ session' = "down"

Next == GiveUp \/ Stopped \/ Reconnect \/ Begin \/ Abort

Spec == Init /\ [][Next]_session

(* Neither the end of the threads nor the new connection waits for ever.     *)
Fairness == WF_session(Stopped) /\ WF_session(Reconnect)

FairSpec == Spec /\ Fairness
=============================================================================
