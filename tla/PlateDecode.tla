------------------------------ MODULE PlateDecode ------------------------------
(***************************************************************************)
(* The greedy CTC decoder of the plate reader.  Tokens, the best of each   *)
(* time step, come one by one: 0 is blank, and a token above the           *)
(* vocabulary has no character.  Confidences are left out, and the strip() *)
(* of spaces at the ends.                                                  *)
(***************************************************************************)
EXTENDS Integers, FiniteSets, Sequences

CONSTANTS
  Vocabulary,    \* characters
  Unmapped,      \* bound: model outputs beyond the vocabulary
  MaxSteps       \* bound: time steps

ASSUME DecodeAssumption == {Vocabulary, Unmapped, MaxSteps} \subseteq Nat

Tokens == 0 .. Vocabulary + Unmapped

VARIABLES
  steps,         \* the tokens so far
  previous,      \* dsai_prev_idx
  text           \* dsai_chars

decodeVars == <<steps, previous, text>>

DecodeInit == steps = <<>> /\ previous = -1 /\ text = <<>>

Lettered(t) == 0 <= t - 1 /\ t - 1 < Vocabulary

\* A repeated token is skipped, a blank is remembered, and a letter is appended.
Token(t) ==
  /\ Len(steps) < MaxSteps /\ steps' = Append(steps, t)
  /\ previous' = t
  /\ text' = IF t # previous /\ t # 0 /\ Lettered(t) THEN Append(text, t - 1) ELSE text

DecodeNext == \E t \in Tokens : Token(t)

DecodeSpec == DecodeInit /\ [][DecodeNext]_decodeVars

--------------------------------------------------------------------------------
\* The beginnings of the runs of equal tokens.
RunStarts(s) == {i \in DOMAIN s : i = 1 \/ s[i] # s[i - 1]}

\* Where a letter of the text comes from: the first token of a run, in the vocabulary.
Origins(s) == {i \in RunStarts(s) : Lettered(s[i])}

\* "collapses repeating adjacent tokens, and removes blank tokens": the text is the letters of
\* the runs, so that a double letter needs a blank, or some other token, in between.
TextIsRuns ==
  /\ Len(text) = Cardinality(Origins(steps))
  /\ \A i \in Origins(steps) :
       text[Cardinality({j \in Origins(steps) : j <= i})] = steps[i] - 1
================================================================================
