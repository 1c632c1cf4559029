-------------------------------- MODULE Argv --------------------------------
(***************************************************************************)
(* From a client's inputs to an argument vector: what a consumer           *)
(* definition may say of an operation, which inputs it accepts, and what   *)
(* is executed (internal/consumer/consumer.go).                            *)
(*                                                                         *)
(* A text is a sequence of characters, since the placeholders of a         *)
(* template are found by scanning it, twice and by different code: once    *)
(* when the definition is loaded, and once to substitute.  A pattern is    *)
(* the set of texts it matches from end to end.                            *)
(***************************************************************************)
EXTENDS Naturals, SequencesExt

CONSTANTS Letters,    \* the characters [a-z0-9]
          Controls,   \* control characters, NUL among them
          DefaultMax  \* defaultMaxInputLength

ASSUME ArgvConstants ==
    /\ Letters \cap ({"$", "{", "}", "-", "_"} \cup Controls) = {}
    /\ DefaultMax \in Nat

(***************************************************************************)
(* Templates.                                                              *)
(***************************************************************************)
validName(n) ==
    /\ n # <<>> /\ n[1] \in Letters
    /\ \A i \in 2 .. Len(n) : n[i] \in Letters \cup {"-", "_"}

\* A "$" that no "{" follows is a literal dollar sign.
Opens(s, i) == i < Len(s) /\ s[i] = "$" /\ s[i + 1] = "{"

\* The first "}" after the "${" at i, or 0.
Closing(s, i) ==
    LET ends == {j \in i + 2 .. Len(s) : s[j] = "}"}
    IN IF ends = {} THEN 0 ELSE CHOOSE j \in ends : \A k \in ends : j <= k

NameAt(s, i) == SubSeq(s, i + 2, Closing(s, i) - 1)

\* Where the scan stops over, from position i on: past a placeholder at once.
ScannedFrom(s) ==
    LET scan[i \in 1 .. Len(s) + 1] ==
          IF i > Len(s) THEN {}
          ELSE {i} \cup (IF ~Opens(s, i) THEN scan[i + 1]
                         ELSE IF Closing(s, i) = 0 THEN {} ELSE scan[Closing(s, i) + 1])
    IN scan

PlaceholderStarts(s) == {i \in ScannedFrom(s)[1] : Opens(s, i)}

\* placeholders returns no error: every "${" is closed and holds a name.
PlaceholdersParse(s) ==
    \A i \in PlaceholderStarts(s) : Closing(s, i) # 0 /\ validName(NameAt(s, i))

placeholders(s) == {NameAt(s, i) : i \in PlaceholderStarts(s)}

\* substitute returns no error.  It does not ask whether a name is one.
Substitutes(s, values) ==
    \A i \in PlaceholderStarts(s) : Closing(s, i) # 0 /\ NameAt(s, i) \in DOMAIN values

\* s with its placeholders replaced.
Expanded(s, values) ==
    LET out[i \in 1 .. Len(s) + 1] ==
          IF i > Len(s) THEN <<>>
          ELSE IF Opens(s, i) THEN values[NameAt(s, i)] \o out[Closing(s, i) + 1]
          ELSE <<s[i]>> \o out[i + 1]
    IN out[1]

\* substitute, which scans what it has written once more.
SubstituteAgain(s, values) ==
    LET once == Expanded(s, values)
    IN IF Substitutes(once, values) THEN Expanded(once, values) ELSE once

\* substitute, where it returns a text: values are copied, never scanned.
substitute(s, values) == Expanded(s, values)

(***************************************************************************)
(* What a definition may say.  An operation has an argv of templates, its  *)
(* inputs by name, and the keys of its response_config.                    *)
(***************************************************************************)
Input == [pattern : SUBSET Seq(Letters \cup Controls \cup {"$", "{", "}", "-", "_"}),
          maxLength : Nat, optional : BOOLEAN, allowLeadingDash : BOOLEAN]

\* Operation.validate, of what BuildArgv depends on.
validOperation(op) ==
    /\ \A n \in DOMAIN op.inputs : validName(n)
    /\ \A i \in DOMAIN op.argv : PlaceholdersParse(op.argv[i])
    /\ UNION {placeholders(op.argv[i]) : i \in DOMAIN op.argv} = DOMAIN op.inputs

(***************************************************************************)
(* What a client may send.                                                 *)
(***************************************************************************)
maxLength(in) == IF in.maxLength > 0 THEN in.maxLength ELSE DefaultMax

check(in, v) ==
    /\ Len(v) <= maxLength(in)
    /\ \A i \in DOMAIN v : v[i] \notin Controls
    /\ in.allowLeadingDash \/ v = <<>> \/ v[1] # "-"
    /\ v \in in.pattern

\* What BuildArgv asks before it substitutes: every input is declared, every
\* required one is there, and each that is passes its check.
Accepts(op, inputs) ==
    /\ DOMAIN inputs \subseteq DOMAIN op.inputs
    /\ \A n \in DOMAIN op.inputs :
         IF n \in DOMAIN inputs THEN check(op.inputs[n], inputs[n]) ELSE op.inputs[n].optional

\* An optional input that is absent substitutes as the empty text.
Values(op, inputs) ==
    [n \in DOMAIN op.inputs |-> IF n \in DOMAIN inputs THEN inputs[n] ELSE <<>>]

\* What the author of a template means by it: parts that are literal characters
\* and parts that are inputs; how that is spelled, and what is to come of it.
Literal(c)    == [literal |-> TRUE, text |-> <<c>>]
Placeholder(n) == [literal |-> FALSE, text |-> n]

Spelled(part) == IF part.literal THEN part.text ELSE <<"$", "{">> \o part.text \o <<"}">>
Spelling(parts) == FlattenSeq([i \in DOMAIN parts |-> Spelled(parts[i])])

Meant(part, values) == IF part.literal THEN part.text ELSE values[part.text]
Meaning(parts, values) == FlattenSeq([i \in DOMAIN parts |-> Meant(parts[i], values)])

\* Parts that can be told apart once they are spelled: there is no way to write
\* a "$" and a "{" of one's own, one after the other, nor a "}" in a name.
IsText(t) == t \in Seq({t[k] : k \in DOMAIN t})
Legible(parts) ==
    /\ IsText(parts)
    /\ \A i \in DOMAIN parts : LET text == parts[i].text IN
         /\ IsText(text)
         /\ IF parts[i].literal THEN Len(text) = 1 ELSE \A k \in DOMAIN text : text[k] # "}"
    /\ \A i \in 1 .. Len(parts) - 1 :
         parts[i].literal /\ parts[i + 1].literal =>
           ~(parts[i].text[1] = "$" /\ parts[i + 1].text[1] = "{")

\* The templates of an operation spell what they were meant to.
Spells(op) ==
    /\ DOMAIN op.meant = DOMAIN op.argv
    /\ \A i \in DOMAIN op.argv : Legible(op.meant[i]) /\ op.argv[i] = Spelling(op.meant[i])

\* The arguments after the executable.
Arguments(op, inputs) ==
    [i \in DOMAIN op.argv |-> substitute(op.argv[i], Values(op, inputs))]
=============================================================================
