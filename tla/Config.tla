------------------------------- MODULE Config -------------------------------
(***************************************************************************)
(* Configuration::get: the configuration files are read one after the      *)
(* other into one text, and in this text every reference $NAME to an       *)
(* environment variable is replaced by its value, for one variable after   *)
(* the other, in the order in which the operating system has them, which   *)
(* is any.  The text is then deserialised, which is left out.              *)
(*                                                                         *)
(* A text is a sequence of characters.                                     *)
(***************************************************************************)
EXTENDS Naturals, Sequences, SequencesExt

CONSTANTS
  Char,    \* characters of names, values and texts, besides the dollar
  Name,    \* names of environment variables that may be set,
  Value,   \* and the values they may have
  Files    \* what the files named on the command line may contain, in their order

Dollar == "$"
Text == Seq(Char \cup {Dollar})

ConfigAssumption ==
  /\ Dollar \notin Char
  /\ Name \subseteq Seq(Char) \ {<<>>}
  /\ Value \subseteq Text
  /\ \A f \in Files : f \in Seq(Text)

Environments == UNION {[names -> Value] : names \in SUBSET Name}

VARIABLES
  files,    \* the files named on the command line
  env,      \* the environment: a value for each name
  read,     \* how many files have been read
  content,  \* the text
  replaced, \* the names of the variables replaced so far, in their order
  outcome   \* "none", "error", or "ok": the text is deserialised

vars == <<files, env, read, content, replaced, outcome>>

Init ==
  /\ files \in Files
  /\ env \in Environments
  /\ read = 0
  /\ content = <<>>
  /\ replaced = <<>>
  /\ outcome = "none"

-----------------------------------------------------------------------------
Reference(name) == <<Dollar>> \o name

HasAt(text, i, part) ==
  /\ i + Len(part) - 1 <= Len(text)
  /\ SubSeq(text, i, i + Len(part) - 1) = part

(* A mutated form of replace: only the first reference is replaced.          *)
replaceFirst(text, part, value) ==
  LET places == {i \in DOMAIN text : HasAt(text, i, part)}
  IN IF places = {}
       THEN text
       ELSE LET i == CHOOSE i \in places : \A j \in places : i <= j
            IN SubSeq(text, 1, i - 1) \o value \o SubSeq(text, i + Len(part), Len(text))

(* str::replace: all places, from left to right.                             *)
replace(text, part, value) ==
  LET from[i \in 1 .. Len(text) + 1] ==
        IF i > Len(text) THEN <<>>
        ELSE IF HasAt(text, i, part) THEN value \o from[i + Len(part)]
        ELSE <<text[i]>> \o from[i + 1]
  IN from[1]

ReadFile ==
  /\ outcome = "none" /\ read < Len(files)
  /\ read' = read + 1
  /\ content' = content \o files[read + 1]
  /\ UNCHANGED <<files, env, replaced, outcome>>

(* A file that cannot be read ends it.                                       *)
ReadFails ==
  /\ outcome = "none" /\ read < Len(files)
  /\ outcome' = "error"
  /\ UNCHANGED <<files, env, read, content, replaced>>

ReplaceVariable(name) ==
  /\ outcome = "none" /\ read = Len(files)
  /\ name \in DOMAIN env \ ToSet(replaced)
  /\ content' = replace(content, Reference(name), env[name])
  /\ replaced' = Append(replaced, name)
  /\ UNCHANGED <<files, env, read, outcome>>

Deserialise ==
  /\ outcome = "none" /\ read = Len(files)
  /\ ToSet(replaced) = DOMAIN env
  /\ outcome' = "ok"
  /\ UNCHANGED <<files, env, read, content, replaced>>

Next ==
  \/ ReadFile \/ ReadFails
  \/ \E name \in Name : ReplaceVariable(name)
  \/ Deserialise

Spec == Init /\ [][Next]_vars

-----------------------------------------------------------------------------
TypeOK ==
  /\ read \in 0 .. Len(files)
  /\ content \in Text
  /\ replaced \in Seq(DOMAIN env)
  /\ \A p, q \in DOMAIN replaced : replaced[p] = replaced[q] => p = q
  /\ outcome \in {"none", "error", "ok"}
  /\ outcome = "ok" => read = Len(files) /\ ToSet(replaced) = DOMAIN env

(* The variables a text refers to at a place, of some in their order.        *)
Referred(text, order, i) == {p \in DOMAIN order : HasAt(text, i, Reference(order[p]))}
First(text, order, i) == order[Min(Referred(text, order, i))]

(* What references mean, from each place of a text: there stands the value   *)
(* of the first variable that is referred to, as it is, and everything else  *)
(* stands for itself.                                                        *)
Meaning(values, text, order) ==
  LET from[i \in 1 .. Len(text) + 1] ==
        IF i > Len(text) THEN <<>>
        ELSE IF Referred(text, order, i) = {} THEN <<text[i]>> \o from[i + 1]
        ELSE values[First(text, order, i)] \o from[i + 1 + Len(First(text, order, i))]
  IN from

(* When the turn of a variable comes, a reference to it has arisen that the  *)
(* text did not have: in a value written before, or in one and what follows; *)
(* or at a dollar, from what has taken the place of references behind it.    *)
Arises(values, text, order) ==
  \E q \in DOMAIN order, i \in DOMAIN text :
    LET before == SubSeq(order, 1, q - 1)
        from == Meaning(values, text, before)
        name == Reference(order[q])
    IN /\ text[i] = Dollar
       /\ IF Referred(text, before, i) = {}
            THEN ~HasAt(text, i, name) /\ HasAt(from[i], 1, name)
            ELSE \E k \in DOMAIN values[First(text, before, i)] : HasAt(from[i], k, name)

(* In whatever order the variables are replaced, and although each pass sees *)
(* the values of those before and the files run into each other: references  *)
(* are replaced by values and nothing else is changed.  Where several names  *)
(* can be read at one place, the variable replaced first counts.  Values may *)
(* have dollars, and even references to variables whose turn is over.  If    *)
(* one arises whose turn is still to come, it is replaced too: what is       *)
(* written depends on the order of the environment, and nothing is said.     *)
ReferencesReplaced ==
  LET text == FlattenSeq(files)
  IN (outcome = "ok" /\ ~Arises(env, text, replaced))
       => content = Meaning(env, text, replaced)[1]
=============================================================================
