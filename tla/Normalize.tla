----------------------------- MODULE Normalize -----------------------------
(***************************************************************************)
(* internal/normalize: the name of the Organization CR that an             *)
(* organization label stands for.  A text is a sequence of characters; a   *)
(* character is a capital or small letter, a digit, the dash or any other. *)
(***************************************************************************)
EXTENDS Integers, SequencesExt

CONSTANTS
    Lower,       \* the letters a to z in use and the digits
    Capitals,    \* capital letters
    ToLower,     \* the small letter of each
    Others,      \* punctuation that label values may hold
    maxDNSLabelLength

ASSUME NormalizeAssumption ==
    /\ ToLower \in [Capitals -> Lower]
    /\ "-" \notin Lower \cup Capitals \cup Others
    /\ Lower \cap Capitals = {} /\ Lower \cap Others = {} /\ Capitals \cap Others = {}
    /\ maxDNSLabelLength \in Nat \ {0}

Lowered(c) == IF c \in Capitals THEN ToLower[c] ELSE c

\* Fault: dashes are not coalesced.
FaultyAppended(xs, c) == Append(xs, IF c \in Lower THEN c ELSE "-")

\* The body of the loop: a character that is not allowed becomes a dash,
\* unless it comes first or after another dash.
Appended(xs, c) ==
    IF c \in Lower \cup {"-"} THEN Append(xs, c)
    ELSE IF xs # <<>> /\ Last(xs) # "-" THEN Append(xs, "-") ELSE xs

Trimmed(xs) ==
    LET kept == {i \in DOMAIN xs : xs[i] # "-"}
    IN  IF kept = {} THEN <<>> ELSE SubSeq(xs, Min(kept), Max(kept))

\* What the loop has made of the first i characters, for each i.
Loop(v) ==
    LET xs[i \in 0 .. Len(v)] ==
            IF i = 0 THEN <<>> ELSE Appended(xs[i - 1], Lowered(v[i]))
    IN  xs

AsDNSLabelName(v) ==
    LET xs == Trimmed(Loop(v)[Len(v)])
    IN  IF Len(xs) > maxDNSLabelLength THEN SubSeq(xs, 1, maxDNSLabelLength) ELSE xs

-----------------------------------------------------------------------------
(* Reference definitions, from the rules of Kubernetes.                    *)

\* The letters, and the digits.
Letters == Lower \cup Capitals

Chars == Letters \cup Others \cup {"-"}

\* A value of a label: it begins and ends with a letter or a digit.
IsLabelValue(v) ==
    /\ v \in Seq(Chars)
    /\ Len(v) <= maxDNSLabelLength
    /\ v # <<>> => {v[1], Last(v)} \subseteq Letters

\* A DNS label.
IsDNSLabel(v) ==
    /\ v # <<>> /\ Len(v) <= maxDNSLabelLength
    /\ \A i \in DOMAIN v : v[i] \in Lower \cup {"-"}
    /\ v[1] # "-" /\ Last(v) # "-"

\* The letters and digits of the first i characters, for each i.
LettersUpTo(v) ==
    LET letters[i \in 0 .. Len(v)] ==
            IF i = 0 THEN <<>>
            ELSE IF v[i] \in Letters THEN Append(letters[i - 1], v[i]) ELSE letters[i - 1]
    IN  letters

\* The letters and digits of a text, in order.
LettersOf(v) == LettersUpTo(v)[Len(v)]

LoweredText(v) == [i \in DOMAIN v |-> Lowered(v[i])]

HasDoubleDash(v) == \E i \in 2 .. Len(v) : v[i - 1] = "-" /\ v[i] = "-"

\* What the name must be for a label value that is not empty: a DNS label
\* with the same letters and digits, where a run of punctuation is one dash.
NamedWell(v) ==
    LET name == AsDNSLabelName(v)
    IN  /\ IsDNSLabel(name)
        /\ LettersOf(name) = LoweredText(LettersOf(v))
        /\ HasDoubleDash(name) => "-" \in ToSet(v)
        /\ AsDNSLabelName(name) = name
=============================================================================
