----------------------------- MODULE Repetition -----------------------------
(***************************************************************************)
(* Loops in a decoded text (analyzeWhisperRepetition and                   *)
(* collapseWhisperLongFormExactRepetitions, whisper_server.go): last lines *)
(* that repeat the line before are dropped, then the strongest cycle of    *)
(* tokens is cut to its first block until it is not extreme any more.      *)
(*                                                                         *)
(* A token is a run of a-z, а-я, ё and 0-9; whatever else is written, the  *)
(* words of other scripts and the line breaks, lies between tokens.  Blanks *)
(* and punctuation count for nothing.  No word has a capital Ё, which      *)
(* tokenizeWhisperText reads as a letter, normalizeWhisperHallucination as *)
(* a blank.                                                                *)
(***************************************************************************)
EXTENDS Naturals, Sequences, FiniteSets

CONSTANTS
    Tokens,
    Others,      \* words of other scripts
    Break,       \* a line break
    Fillers,     \* what may lie between two tokens
    MaxTokens,   \* bounds on the text: its tokens, and the gaps that are not empty
    MaxGaps,
    MinRepeats,  \* RepetitionMinRepeats
    MinSpan,     \* RepetitionMinSpanTokens
    MaxBlock     \* RepetitionMaxBlockTokens

\* WhisperAdaptiveDescriptor.validate
ASSUME RepetitionConstants ==
    /\ MinRepeats \in Nat /\ MinRepeats >= 2 /\ MinSpan \in Nat /\ MinSpan >= MinRepeats
    /\ MaxBlock \in Nat \ {0} /\ MaxTokens \in Nat
ASSUME FillersAssumption ==
    /\ Fillers \subseteq Seq(Others \cup {Break})
    /\ Tokens \cap Others = {} /\ Break \notin Tokens \cup Others

VARIABLES
    decoded,   \* the text of the server: its tokens in order, and gaps[n] behind the n-th
    text,      \* what is left of it
    part       \* "lines", "loops", "accepted": where the clean-up is

repetitionVars == <<decoded, text, part>>

\* What may lie around n tokens: before the first, between the others, behind the last.
GapsOf(n) ==
    UNION {{[i \in 0..n |-> IF i \in P THEN g[i] ELSE << >>] : g \in [P -> Fillers]} :
           P \in {Q \in SUBSET (0..n) : Cardinality(Q) <= MaxGaps}}

\* Where lines break: behind that many tokens, and there at that place of the gap.
Breaks(t) ==
    {b \in UNION {{n} \X DOMAIN t.gaps[n] : n \in DOMAIN t.gaps} : t.gaps[b[1]][b[2]] = Break}

Before(b, c) == b[1] < c[1] \/ (b[1] = c[1] /\ b[2] < c[2])

AtStart(b)  == b = <<0, 1>>
AtEnd(t, b) == b[1] = Len(t.tokens) /\ b[2] = Len(t.gaps[b[1]])

\* TrimSpace
Trimmed(t) == \A b \in Breaks(t) : ~AtStart(b) /\ ~AtEnd(t, b)

RepetitionInit ==
    /\ \E n \in 0..MaxTokens : \E s \in [1..n -> Tokens], g \in GapsOf(n) :
           decoded = [tokens |-> s, gaps |-> g]
    /\ Trimmed(decoded)
    /\ text = decoded /\ part = "lines"

-----------------------------------------------------------------------------
(* analyzeWhisperRepetition *)

\* The blocks of that size at start that equal the first one.
Repeats(t, start, size) ==
    LET Block(n) == SubSeq(t, start + n * size, start + (n + 1) * size - 1)
        fits == 1..((Len(t) - start + 1) \div size)
    IN  CHOOSE n \in fits :
            /\ \A i \in 1..(n - 1) : Block(i) = Block(0)
            /\ n + 1 \in fits => Block(n) # Block(0)

Cycles(t) ==
    {[start |-> p[1], size |-> p[2], repeats |-> Repeats(t, p[1], p[2])] :
        p \in {q \in (DOMAIN t) \X (1..MaxBlock) : q[1] + 2 * q[2] - 1 <= Len(t)}}

Span(c) == c.size * c.repeats

\* The order in which the loops of the code find and replace the best cycle.
Beats(c, d) ==
    \/ c.repeats > d.repeats
    \/ c.repeats = d.repeats /\ Span(c) > Span(d)
    \/ /\ c.repeats = d.repeats /\ Span(c) = Span(d)
       /\ c.start < d.start \/ (c.start = d.start /\ c.size <= d.size)

Strongest(t) == CHOOSE c \in Cycles(t) : \A d \in Cycles(t) : Beats(c, d)

IsExtreme(c) == c.repeats >= MinRepeats /\ Span(c) >= MinSpan

Extreme(t) == Cycles(t) # {} /\ Strongest(t).repeats >= 2 /\ IsExtreme(Strongest(t))

-----------------------------------------------------------------------------
(* collapseWhisperLongFormExactRepetitions *)

\* The last line is not empty, and has the tokens of the line before it: none, if
\* both are of another script.
RepeatsLine(t, b) ==
    LET earlier == {c \in Breaks(t) : Before(c, b)}
        starts  == {0} \cup {c[1] : c \in earlier}
    IN  /\ \A c \in Breaks(t) : ~Before(b, c)
        /\ ~AtEnd(t, b)
        /\ \E n \in starts :
              /\ \A m \in starts : m <= n
              /\ SubSeq(t.tokens, b[1] + 1, Len(t.tokens)) = SubSeq(t.tokens, n + 1, b[1])

\* The text up to that break.
UpTo(t, b) ==
    [tokens |-> SubSeq(t.tokens, 1, b[1]),
     gaps   |-> [n \in 0..b[1] |->
                    IF n = b[1] THEN SubSeq(t.gaps[n], 1, b[2] - 1) ELSE t.gaps[n]]]

DropLine ==
    /\ part = "lines"
    /\ \E b \in Breaks(text) : RepeatsLine(text, b) /\ text' = UpTo(text, b)
    /\ UNCHANGED <<decoded, part>>

\* From here on a break is a blank.
LinesDone ==
    /\ part = "lines" /\ \A b \in Breaks(text) : ~RepeatsLine(text, b)
    /\ part' = "loops"
    /\ UNCHANGED <<decoded, text>>

\* The text without what is written from token a + 1 up to token a + d + 1, or to the
\* end of the text: d tokens and the gap behind each of them.
Without(t, a, d) ==
    [tokens |-> SubSeq(t.tokens, 1, a) \o SubSeq(t.tokens, a + d + 1, Len(t.tokens)),
     gaps   |-> [n \in 0..(Len(t.tokens) - d) |-> IF n <= a THEN t.gaps[n] ELSE t.gaps[n + d]]]

\* Mutant: the token after the loop is cut as well.
CutOneMore(c) ==
    LET d == Span(c) - c.size
        more == IF c.start + Span(c) <= Len(text.tokens) THEN 1 ELSE 0
    IN  Without(text, c.start + c.size - 1, d + more)

\* All blocks of the cycle but the first.
Cut(c) == Without(text, c.start + c.size - 1, Span(c) - c.size)

CollapseLoop ==
    /\ part = "loops" /\ Extreme(text.tokens)
    /\ text' = Cut(Strongest(text.tokens))
    /\ UNCHANGED <<decoded, part>>

\* RepetitionValidated
AcceptText ==
    /\ part = "loops" /\ ~Extreme(text.tokens)
    /\ part' = "accepted"
    /\ UNCHANGED <<decoded, text>>

RepetitionNext == DropLine \/ LinesDone \/ CollapseLoop \/ AcceptText

LoopsSpec == RepetitionInit /\ [][RepetitionNext]_repetitionVars

-----------------------------------------------------------------------------
(* Properties *)

TokensOf(t) == {t.tokens[i] : i \in DOMAIN t.tokens}
Pairs(s)    == {<<s[i], s[i + 1]>> : i \in 1..(Len(s) - 1)}

\* Whatever lines are dropped and loops cut, in whatever order: every token that was
\* spoken is left, and no tokens follow each other that did not before, for only whole
\* blocks go (whisper_server.go:1155-1158).  It says nothing of words of other scripts.
TokensKept ==
    TokensOf(text) = TokensOf(decoded) /\ Pairs(text.tokens) \subseteq Pairs(decoded.tokens)

WordsOf(t) ==
    TokensOf(t) \cup (UNION {{t.gaps[n][k] : k \in DOMAIN t.gaps[n]} : n \in DOMAIN t.gaps} \ {Break})

\* README.md:403 promises two things of an accepted text: every cycle that meets the
\* thresholds is cut to its first block ("каждый точный цикл ... схлопывается до первого
\* блока"), "а остальной текст сохраняется": the rest of the text is kept.  At least one
\* of them holds; a text that breaks this breaks both.
CutOrKept ==
    part = "accepted" =>
        \/ \A c \in Cycles(text.tokens) : ~IsExtreme(c)
        \/ WordsOf(decoded) \subseteq WordsOf(text)
=============================================================================
