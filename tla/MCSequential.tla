---------------------------- MODULE MCSequential ----------------------------
(***************************************************************************)
(* The sequential code, for TLC.                                           *)
(***************************************************************************)
EXTENDS Sequential, SequencesExt

CONSTANTS
  MaxText,     \* bound: characters of all configuration files together
  MaxFiles     \* bound: configuration files

(* Three names of which one begins another, values that are empty, a letter, *)
(* or look like a reference, and all files up to the bounds.                 *)
MCName == {<<"A">>, <<"B">>, <<"A", "B">>}
MCValue == {<<>>, <<"B">>, <<"$">>, <<"$", "B">>}
MCText == UNION {[1 .. k -> Char \cup {"$"}] : k \in 0 .. MaxText}
MCFiles == {f \in UNION {[1 .. k -> MCText] : k \in 0 .. MaxFiles} :
              Len(FlattenSeq(f)) <= MaxText}
=============================================================================
