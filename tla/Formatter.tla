------------------------------ MODULE Formatter ------------------------------
(***************************************************************************)
(* Splitting the CLI's output into messages (src/formatter.rs).            *)
(*                                                                         *)
(* A text is the sequence of its UTF-8 bytes, because that is what the     *)
(* code counts and cuts: a character is an ASCII byte or a lead byte with  *)
(* its continuation bytes.  The one action lets the output grow, and the   *)
(* invariants hold of what format() makes of every output so reached.      *)
(***************************************************************************)
EXTENDS Integers, Sequences, FiniteSetsExt, SequencesExt

CONSTANTS
    Alphabets,  \* the characters an output may be made of, each a sequence of
                \* bytes, and bounds of the model: the longest such output
                \* (maxBytes) and the largest max_message_chars (maxLimit)
    HardLimit,  \* what the platform takes: 4096 bytes for telegram and whatsapp
    Suffix      \* TRUNCATION_SUFFIX

Continuation == "cont"

\* The bytes the code looks for, each a character of its own.
Marks == {"n", ".", " ", "tick"}

IsCharacter(c) ==
    /\ c \in Seq(STRING) /\ c # <<>> /\ c[1] # Continuation
    /\ \A i \in 2..Len(c) : c[i] = Continuation
    /\ Len(c) > 1 => c[1] \notin Marks

ASSUME AlphabetsAssumption ==
    \A a \in Alphabets :
        /\ a.maxBytes \in Nat /\ a.maxLimit \in Nat
        /\ \A c \in a.characters : IsCharacter(c) /\ Len(c) <= HardLimit
ASSUME HardLimitAssumption == Suffix \in Seq(STRING) /\ HardLimit \in Nat /\ HardLimit > Len(Suffix)

VARIABLES
    alphabet,   \* what the output is made of
    output,     \* the CLI's output
    maxChars,   \* max_message_chars
    threshold   \* file_upload_threshold_bytes

formatting == <<alphabet, output, maxChars, threshold>>

Fence == <<"tick", "tick", "tick">>

Text(bytes) == [kind |-> "text", content |-> bytes]
File(bytes) == [kind |-> "file", content |-> bytes]

Take(t, n) == SubSeq(t, 1, n)
Drop(t, n) == SubSeq(t, n + 1, Len(t))
Remaining(t, n) == Drop(t, Len(t) - n)

\* The offsets at which pat occurs in t; str::find takes the first of them and
\* str::rfind the last.
Occurrences(t, pat) ==
    {i \in 0..(Len(t) - Len(pat)) : SubSeq(t, i + 1, i + Len(pat)) = pat}

-----------------------------------------------------------------------------
(* Cutting.                                                                *)

IsCharBoundary(t, b) == b \in {0, Len(t)} \/ t[b + 1] # Continuation

\* Mutant: the offset itself.
ByteFloor(t, pos) == IF pos < Len(t) THEN pos ELSE Len(t)

CharBoundaryFloor(t, pos) ==
    Max({b \in 0..Len(t) : b <= pos /\ IsCharBoundary(t, b)})

\* A cut at the limit, or after the first character if that is too long.
HardCut(t, limit) ==
    LET floor == CharBoundaryFloor(t, limit)
    IN  IF floor = 0 THEN Min({b \in 1..Len(t) : IsCharBoundary(t, b)}) ELSE floor

\* The kinds of break a prose cut looks for, in this order.
Breaks == << <<"n", "n">>, <<"n">>, <<".", " ">> >>

\* Mutant: the break may lie beyond the limit.
ProseCutAnywhere(t, limit) ==
    LET present == {k \in 1..3 : Occurrences(t, Breaks[k]) # {}}
    IN  IF present = {} THEN HardCut(t, limit)
        ELSE LET break == Breaks[Min(present)]
             IN  Max(Occurrences(t, break)) + Len(break)

\* After the last paragraph break within the limit, or line break, or end of a
\* sentence, or the hard cut.
ProseCut(t, limit) ==
    LET candidate == Take(t, CharBoundaryFloor(t, limit))
        present == {k \in 1..3 : Occurrences(candidate, Breaks[k]) # {}}
    IN  IF present = {} THEN HardCut(t, limit)
        ELSE LET break == Breaks[Min(present)]
             IN  Max(Occurrences(candidate, break)) + Len(break)

\* Mutant: a line break the cut falls on is swallowed.
RestTrimmed(t, cut) ==
    IF cut < Len(t) /\ t[cut + 1] = "n" THEN Drop(t, cut + 1) ELSE Drop(t, cut)

\* split_at: what is left after the cut.
Rest(t, cut) == Drop(t, cut)

\* The cut of fixed_chunks, and that of split_prose.
Cut(t, limit, strategy) ==
    IF Len(t) <= limit THEN Len(t)
    ELSE IF strategy = "fixed" THEN HardCut(t, limit) ELSE ProseCut(t, limit)

\* The code's loops, `while !remaining.is_empty()`: all they push, when a round with
\* n bytes of t remaining pushes push[n] and cuts off the first cut[n] of them.
Loop(t, push, cut) ==
    LET pushed[n \in 0..Len(t)] ==
            IF n = 0 THEN <<>>
            ELSE <<push[n]>> \o pushed[Len(Rest(Remaining(t, n), cut[n]))]
    IN  pushed[Len(t)]

Pieces(t, limit, strategy) ==
    LET cut == [n \in 1..Len(t) |-> Cut(Remaining(t, n), limit, strategy)]
    IN  Loop(t, [n \in 1..Len(t) |-> Take(Remaining(t, n), cut[n])], cut)

-----------------------------------------------------------------------------
(* Code blocks.                                                            *)

\* Mutant: the closing fence is left to the text that follows.
BlockEndBefore(t) ==
    LET closing == {i \in Occurrences(t, Fence) : i >= 3}
    IN  IF closing = {} THEN 0 ELSE Min(closing)

\* Where the block that t begins with ends, 0 if its fence is never closed.
BlockEnd(t) ==
    LET closing == {i \in Occurrences(t, Fence) : i >= 3}
    IN  IF closing = {} THEN 0 ELSE Min(closing) + 3

Segment(code, bytes) == [code |-> code, bytes |-> bytes]

\* The prose before the first fence takes a round of its own here.
NextSegment(t) ==
    LET fences == Occurrences(t, Fence)
        end == BlockEnd(t)
    IN  IF fences = {} THEN Segment(FALSE, t)
        ELSE IF 0 \notin fences THEN Segment(FALSE, Take(t, Min(fences)))
        ELSE IF end = 0 THEN Segment(FALSE, t)
        ELSE Segment(TRUE, Take(t, end))

Segments(t) ==
    LET next == [n \in 1..Len(t) |-> NextSegment(Remaining(t, n))]
    IN  Loop(t, next, [n \in 1..Len(t) |-> Len(next[n].bytes)])

-----------------------------------------------------------------------------
(* format().                                                               *)

Texts(pieces) == [i \in 1..Len(pieces) |-> Text(pieces[i])]

FixedChunks(t, limit) ==
    IF t = <<>> THEN <<Text(<<>>)>> ELSE Texts(Pieces(t, limit, "fixed"))

SegmentChunks(s, limit) ==
    IF s.code
    THEN << IF Len(s.bytes) > limit THEN File(s.bytes) ELSE Text(s.bytes) >>
    ELSE Texts(Pieces(s.bytes, limit, "natural"))

\* No segment is empty and neither is a piece of one, so the code's filter and
\* its fallback for an empty result have nothing to do.
NaturalChunks(t, limit) ==
    IF t = <<>> THEN <<Text(<<>>)>>
    ELSE LET segments == Segments(t)
         IN  FlattenSeq([i \in 1..Len(segments) |-> SegmentChunks(segments[i], limit)])

Strategies == {"fixed", "natural"}

Format(t, strategy) ==
    IF Len(t) > threshold THEN <<File(t)>>
    ELSE IF strategy = "fixed" THEN FixedChunks(t, maxChars) ELSE NaturalChunks(t, maxChars)

\* Mutant: the room for the suffix is forgotten.
EnforceAndAppend(t) ==
    IF Len(t) <= HardLimit THEN t
    ELSE Take(t, CharBoundaryFloor(t, HardLimit)) \o Suffix

\* What send_response makes of a text that the platform would not take.
EnforceLimit(t) ==
    IF Len(t) <= HardLimit THEN t
    ELSE Take(t, CharBoundaryFloor(t, HardLimit - Len(Suffix))) \o Suffix

FormatterInit ==
    /\ alphabet \in Alphabets
    /\ output = <<>>
    /\ maxChars \in 0..alphabet.maxLimit
    /\ threshold \in {alphabet.maxBytes - 1, alphabet.maxBytes}

\* One more character of output.
Grow ==
    \E c \in alphabet.characters :
        /\ Len(output) + Len(c) <= alphabet.maxBytes
        /\ output' = output \o c
        /\ UNCHANGED <<alphabet, maxChars, threshold>>

FormatterSpec == FormatterInit /\ [][Grow]_formatting

-----------------------------------------------------------------------------

Contents(chunks) == FlattenSeq([i \in 1..Len(chunks) |-> chunks[i].content])
CharCount(bytes) == Cardinality({i \in 1..Len(bytes) : bytes[i] # Continuation})

\* Reference: the fences of a text, found from left to right without overlap.
FenceCount(t) ==
    LET count[n \in 0..Len(t)] ==
            LET fences == Occurrences(Remaining(t, n), Fence)
            IN  IF fences = {} THEN 0 ELSE 1 + count[n - Min(fences) - 3]
    IN  count[Len(t)]

(***************************************************************************)
(* The messages put together are the output: no strategy drops, repeats or *)
(* reorders a byte.                                                        *)
(***************************************************************************)
NothingLost ==
    \A s \in Strategies : Contents(Format(output, s)) = output

(***************************************************************************)
(* "Split text into chunks <= max_chars bytes" (src/formatter.rs:67): a    *)
(* text message exceeds the limit only if it is a single character.  The   *)
(* platform takes each, and none is truncated for it when max_message_chars*)
(* respects the platform's limit.                                          *)
(***************************************************************************)
WithinLimit ==
    \A s \in Strategies :
        LET chunks == Format(output, s)
        IN  \A i \in 1..Len(chunks) :
                chunks[i].kind = "text" =>
                    LET text == chunks[i].content
                        sent == EnforceLimit(text)
                    IN  /\ Len(text) <= maxChars \/ CharCount(text) = 1
                        /\ Len(sent) <= HardLimit
                        /\ maxChars <= HardLimit => sent = text

(***************************************************************************)
(* No message begins in the middle of a character, so each is valid UTF-8  *)
(* and no slice panics (docs/architecture.md:45).                          *)
(***************************************************************************)
WholeCharacters ==
    \A s \in Strategies :
        LET chunks == Format(output, s)
        IN  \A i \in 1..Len(chunks) :
                chunks[i].content # <<>> => chunks[i].content[1] # Continuation

(***************************************************************************)
(* "Code blocks are treated as atomic units -- they are never split"       *)
(* (src/formatter.rs:69): when every fence is closed, a message of the     *)
(* natural strategy holds no fence, or is one whole block.                 *)
(***************************************************************************)
BlocksWhole ==
    (FenceCount(output) % 2 = 0 /\ Len(output) <= threshold) =>
        LET chunks == Format(output, "natural")
        IN  \A i \in 1..Len(chunks) :
                LET c == chunks[i].content
                IN  \/ FenceCount(c) = 0
                    \/ FenceCount(c) = 2 /\ Take(c, 3) = Fence /\ Drop(c, Len(c) - 3) = Fence

=============================================================================
