------------------------------ MODULE Algorithms ------------------------------
(***************************************************************************)
(* The codec and the text tools at work: a tool, what it is given and what *)
(* it returns.  The pure ones return once; blame is replayed update by     *)
(* update, and the preview is highlighted for one comment after another.   *)
(***************************************************************************)
EXTENDS Codec, TextTools

CONSTANTS
    MaxPayload,  \* bound on the length of a payload
    MaxLines,    \* bound on the length of a text
    MaxUpdates   \* bound on the updates blame replays

VARIABLES tool, given, result

algorithmVars == <<tool, given, result>>

\* The messages the code frames: sync of three kinds, awareness of one.
Kinds == {<<0, 0>>, <<0, 1>>, <<0, 2>>, <<1>>}

\* Two bytes tell a payload from the framing: one ends a number, one does not.
PayloadByte == {[bits |-> {}, more |-> FALSE], [bits |-> {0}, more |-> TRUE]}

Texts == UNION {[1..n -> {"x", "y"}] : n \in 0..MaxLines}

\* The second span shows all of its source, or two characters less.
Previews == {[spans |-> <<[start |-> 0, end |-> 2, size |-> 2],
                          [start |-> 3, end |-> 6, size |-> n]>>,
              lines |-> <<1, 3>>] : n \in {1, 3}}
Anchor == {[from |-> f, to |-> t, line |-> l] : f \in 0..6, t \in -1..7, l \in 1..4}

(***************************************************************************)
(* External, Yjs: the event of an update that keeps the characters `kept'  *)
(* of a text of n and inserts ins[i] before the i-th; neighbours of a kind *)
(* are one operation and a final retain is left out.                       *)
(***************************************************************************)
Merged(ops, d) ==
    IF d.n = 0 THEN ops
    ELSE IF ops # <<>> /\ Last(ops).op = d.op
      THEN Front(ops) \o <<[op |-> d.op, n |-> Last(ops).n + d.n]>>
    ELSE Append(ops, d)

EventDelta(n, kept, ins) ==
    LET unit(i) == <<[op |-> "insert", n |-> ins[i]],
                     [op |-> IF i \in kept THEN "retain" ELSE "delete",
                      n |-> IF i <= n THEN 1 ELSE 0]>>
        ops == FoldLeft(Merged, <<>>, FlattenSeq([i \in 1..(n + 1) |-> unit(i)]))
    IN IF ops # <<>> /\ Last(ops).op = "retain" THEN Front(ops) ELSE ops

\* The text itself, a character being the number of the update that wrote it.
TextAfter(text, kept, ins, update) ==
    FlattenSeq([i \in 1..(Len(text) + 1) |->
        Repeat(update, ins[i]) \o (IF i \in kept THEN <<text[i]>> ELSE <<>>)])

(***************************************************************************)
(* The steps.                                                              *)
(***************************************************************************)
Idle == [of |-> "nothing"]

AlgorithmIdle == tool = "none" /\ given = Idle /\ result = Idle

AlgorithmInit ==
    /\ result = Idle
    /\ \/ tool = "number" /\ given \in [number : Number]
       \/ tool = "frame" /\ given \in [kinds : Kinds,
                                       payload : UNION {[1..n -> PayloadByte] : n \in 0..MaxPayload}]
       \/ tool = "diff" /\ given \in [before : Texts, after : Texts]
       \/ tool = "blame" /\ given = [text |-> <<>>, updates |-> 0]
       \/ tool = "preview" /\ given \in Previews

Return(v) == result' = [of |-> tool, value |-> v] /\ UNCHANGED <<tool, given>>

Encode ==
    /\ result = Idle
    /\ \/ tool = "number" /\ Return(EncodeVarUint(given.number))
       \/ tool = "frame" /\ Return(EncodeFrame(given.kinds, given.payload))

Diff == result = Idle /\ tool = "diff" /\ Return(BuildLineDiff(given.before, given.after))

Blamed == IF result = Idle THEN <<>> ELSE result.value

\* The observer hears nothing of an update that leaves the text as it is.
ReplayUpdate ==
    /\ tool = "blame" /\ given.updates < MaxUpdates
    /\ LET n == Len(given.text)
           update == given.updates + 1
       IN \E kept \in SUBSET (1..n), ins \in [1..(n + 1) -> 0..2] :
              LET delta == EventDelta(n, kept, ins)
                  text == TextAfter(given.text, kept, ins, update)
              IN /\ delta # <<>> /\ Len(text) <= MaxLines
                 /\ given' = [text |-> text, updates |-> update]
                 /\ result' = [of |-> tool, value |-> Observe(Blamed, delta, update)]
    /\ UNCHANGED tool

\* The effect of a selection: clear, then highlight.  Clearing restores the
\* spans and leaves the class of a line that was highlighted instead.
OldLines == IF result = Idle THEN {} ELSE result.lines

HighlightSelection ==
    /\ tool = "preview"
    /\ \E a \in Anchor :
          LET shown == HighlightPreview(given.spans, given.lines, a)
          IN result' = [of |-> tool, anchor |-> <<a>>, marks |-> shown.marks,
                        lines |-> OldLines \cup ({shown.line} \ {0})]
    /\ UNCHANGED <<tool, given>>

ClearSelection ==
    /\ tool = "preview" /\ result # Idle
    /\ result' = [result EXCEPT !.anchor = <<>>, !.marks = [i \in DOMAIN @ |-> Nothing]]
    /\ UNCHANGED <<tool, given>>

AlgorithmNext == Encode \/ Diff \/ ReplayUpdate \/ HighlightSelection \/ ClearSelection

AlgorithmSpec == AlgorithmInit /\ [][AlgorithmNext]_algorithmVars

(***************************************************************************)
(* Properties.                                                             *)
(***************************************************************************)

\* What codec.ts encodes it reads back, number by number and frame by frame;
\* a part of a frame, or a frame with something after it, is refused.
CodecRoundTrips ==
    /\ result.of = "number" =>
          /\ ReadVarUint(result.value, 1) =
                [ok |-> TRUE, next |-> Len(result.value) + 1, bits |-> given.number]
          /\ \A n \in 0..(Len(result.value) - 1) : ~ReadVarUint(SubSeq(result.value, 1, n), 1).ok
    /\ result.of = "frame" =>
          LET read(bytes) == ReadFrame(bytes, Len(given.kinds))
          IN /\ read(result.value) =
                   [ok |-> TRUE, payload |-> given.payload, kinds |-> given.kinds]
             /\ \A n \in 0..(Len(result.value) - 1) : ~read(SubSeq(result.value, 1, n)).ok
             /\ \A b \in PayloadByte : ~read(Append(result.value, b)).ok

\* Sequences that are left of s when some of it is taken out.
Subsequences(s) ==
    {[i \in 1..Cardinality(S) |-> s[CHOOSE k \in S : Cardinality({x \in S : x <= k}) = i]]
        : S \in SUBSET (DOMAIN s)}

\* The diff of the history panel tells both texts, line by line and in order,
\* and calls as many lines the same as the texts can have in common.
DiffIsExact ==
    (result.of = "diff" /\ ~result.value.truncated) =>
        LET lines == result.value.lines
            rest(kind) == SelectSeq(lines, LAMBDA d : d.kind # kind)
            old == rest("added")
            new == rest("removed")
            same == {i \in DOMAIN lines : lines[i].kind = "same"}
        IN /\ [i \in DOMAIN old |-> old[i].before] = [i \in DOMAIN given.before |-> i]
           /\ [i \in DOMAIN new |-> new[i].after] = [i \in DOMAIN given.after |-> i]
           /\ \A i \in same : given.before[lines[i].before] = given.after[lines[i].after]
           /\ \A s \in Subsequences(given.before) \cap Subsequences(given.after) :
                  Len(s) <= Cardinality(same)

\* Blame names, for each character, the update that inserted it, however the
\* updates before and after it shuffled the text; the spans compressBlame makes
\* of it are the longest stretches of one update, all of them, in order.
BlameIsExact ==
    result.of = "blame" =>
        LET blame == result.value
            spans == CompressBlame(blame)
        IN /\ blame = given.text
           /\ \A k \in DOMAIN spans :
                 /\ spans[k].start < spans[k].end
                 /\ \A i \in spans[k].start..(spans[k].end - 1) : blame[i + 1] = spans[k].mark
                 /\ k > 1 => spans[k].mark # spans[k - 1].mark
                 /\ spans[k].start = IF k = 1 THEN 0 ELSE spans[k - 1].end
           /\ blame # <<>> => Last(spans).end = Len(blame)

\* A comment highlights the characters it covers in the preview and no other,
\* in every span that shows its source as it is, whatever was selected before.
HighlightIsExact ==
    result.of = "preview" =>
        \A k \in DOMAIN given.spans :
            LET span == given.spans[k]
                shown == result.marks[k]
            IN span.size = span.end - span.start =>
                  \A c \in span.start..(span.end - 1) :
                      (c - span.start >= shown.from /\ c - span.start < shown.to)
                      <=> \E i \in DOMAIN result.anchor :
                             LET a == result.anchor[i]
                             IN a.from = c \/ (a.from <= c /\ c < a.to)
=============================================================================
