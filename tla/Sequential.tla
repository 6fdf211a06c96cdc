----------------------------- MODULE Sequential -----------------------------
(***************************************************************************)
(* The sequential code: the bytes of datagrams (Datagrams), the values of  *)
(* frames (Conversions) and the loading of the configuration (Config).     *)
(* They share no state, so a behaviour steps one of them and leaves the    *)
(* others as they are.                                                     *)
(***************************************************************************)
EXTENDS Datagrams

CONSTANTS
  WordBase,                                         \* Base of Conversions
  Counters, Delays, Bandwidths, Seconds, Nanos,     \* of Conversions
  Char, Name, Value, Files                          \* of Config

VARIABLES
  part,                                          \* which of the three
  up, rxpk, txpk, down, outcome,                 \* of Conversions
  files, env, read, content, replaced, loaded     \* of Config

cVars == <<up, rxpk, txpk, down, outcome>>
gVars == <<files, env, read, content, replaced, loaded>>

C == INSTANCE Conversions WITH Base <- WordBase
G == INSTANCE Config WITH outcome <- loaded

ASSUME PartsAssumption == C!ConversionsAssumption /\ G!ConfigAssumption

SeqInit ==
  /\ Init
  /\ C!Init
  /\ part \in {"datagrams", "conversions", "config"}
  /\ IF part = "config"
       THEN G!Init
       ELSE /\ files = <<>> /\ env = <<>>
            /\ read = 0 /\ content = <<>> /\ replaced = <<>> /\ loaded = "none"

SeqNext ==
  \/ part = "datagrams" /\ Next /\ UNCHANGED <<part, cVars, gVars>>
  \/ part = "conversions" /\ C!Next /\ UNCHANGED <<part, vars, gVars>>
  \/ part = "config" /\ G!Next /\ UNCHANGED <<part, vars, cVars>>

SeqSpec == SeqInit /\ [][SeqNext]_<<part, vars, cVars, gVars>>

-----------------------------------------------------------------------------
(* The types of the three parts: no byte is more than a byte, no bandwidth   *)
(* more than a u32, no token more than a u16.                                *)
PartsTypeOK == TypeOK /\ C!TypeOK /\ G!TypeOK

(* See Conversions: a downlink is sent at the time the server asked for.     *)
OnTime == C!OnTime

(* See Conversions: and with the modulation of the uplink it answers.        *)
SameModulation == C!SameModulation

(* See Conversions: what an uplink's object says is accepted in an answer.   *)
AnswersAccepted == C!AnswersAccepted

(* See Config: references to environment variables are replaced.             *)
ReferencesReplaced == G!ReferencesReplaced
=============================================================================
