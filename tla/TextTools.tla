------------------------------ MODULE TextTools ------------------------------
(***************************************************************************)
(* The algorithms on texts the pages use: the line diff of the history     *)
(* panel, the blame replay of the client package and the highlighting of a *)
(* comment in the preview.  A line, a mark and a character are any values. *)
(***************************************************************************)
EXTENDS Integers, FiniteSets, Sequences, SequencesExt

CONSTANT MaxCells   \* 120000 in the code

(***************************************************************************)
(* lineDiff.ts.  An entry of the diff has the line's number in the texts   *)
(* that have it, 0 in the other.                                           *)
(***************************************************************************)
Longer(m, n) == IF m >= n THEN m ELSE n

\* The table of lengths of common subsequences of the suffixes.
LCSTable(before, after) ==
    LET table[i \in 1..(Len(before) + 1), j \in 1..(Len(after) + 1)] ==
            IF i > Len(before) \/ j > Len(after) THEN 0
            ELSE IF before[i] = after[j] THEN table[i + 1, j + 1] + 1
            ELSE Longer(table[i + 1, j], table[i, j + 1])
    IN table

\* Mutant: the walk leaves the longer common subsequence.
TakeRemovedIfShorter(table, i, j) == table[i + 1, j] <= table[i, j + 1]

TakeRemoved(table, i, j) == table[i + 1, j] >= table[i, j + 1]

\* The walk from the start of both texts, and the two loops that end it.
Walk(before, after, table) ==
    LET from[i \in 1..(Len(before) + 1), j \in 1..(Len(after) + 1)] ==
            LET removed == <<[kind |-> "removed", before |-> i, after |-> 0]>> \o from[i + 1, j]
                added == <<[kind |-> "added", before |-> 0, after |-> j]>> \o from[i, j + 1]
            IN IF i > Len(before) THEN (IF j > Len(after) THEN <<>> ELSE added)
               ELSE IF j > Len(after) THEN removed
               ELSE IF before[i] = after[j]
                 THEN <<[kind |-> "same", before |-> i, after |-> j]>> \o from[i + 1, j + 1]
               ELSE IF TakeRemoved(table, i, j) THEN removed ELSE added
    IN from[1, 1]

BuildLineDiff(before, after) ==
    IF Len(before) * Len(after) > MaxCells THEN [lines |-> <<>>, truncated |-> TRUE]
    ELSE [lines |-> Walk(before, after, LCSTable(before, after)), truncated |-> FALSE]

(***************************************************************************)
(* blame.ts.  `delta' is the event of one applied update: operations that  *)
(* retain, insert or delete n characters.                                  *)
(***************************************************************************)
Repeat(mark, n) == [i \in 1..n |-> mark]

TailFrom(blame, at) == SubSeq(blame, at + 1, Len(blame))

\* The observer: the blame after the update that `mark' stands for.
Observe(blame, delta, mark) ==
    LET op(done, d) ==
            CASE d.op = "retain" ->
                   [done EXCEPT !.next = @ \o SubSeq(blame, done.old + 1, done.old + d.n),
                                !.old = @ + d.n]
              [] d.op = "insert" -> [done EXCEPT !.next = @ \o Repeat(mark, d.n)]
              [] d.op = "delete" -> [done EXCEPT !.old = @ + d.n]
        end == FoldLeft(op, [old |-> 0, next |-> <<>>], delta)
    IN end.next \o TailFrom(blame, end.old)

Unmarked == 0

\* compressBlame: spans [start, end) of one mark, counted from 0.
CompressBlame(blame) ==
    LET look(s, i) ==
            LET next == IF i < Len(blame) THEN blame[i + 1] ELSE Unmarked
                ends == s.current # Unmarked /\ next # s.current
                starts == (s.current = Unmarked \/ ends) /\ next # Unmarked
            IN [spans |-> IF ends
                            THEN Append(s.spans, [start |-> s.start, end |-> i, mark |-> s.current])
                            ELSE s.spans,
                current |-> IF starts THEN next ELSE IF ends THEN Unmarked ELSE s.current,
                start |-> IF starts THEN i ELSE s.start]
    IN FoldLeft(look, [spans |-> <<>>, current |-> Unmarked, start |-> 0],
                [n \in 1..(Len(blame) + 1) |-> n - 1]).spans

(***************************************************************************)
(* previewHighlight.ts.  A span of the preview is source text [start, end) *)
(* and the number of characters it shows, fewer when the source has        *)
(* escapes; `anchor' is where a comment resolves to, `to' below 0 when it  *)
(* has no end.  The result is what each span shows highlighted, [from, to) *)
(* of its own characters, and the line that is highlighted instead.        *)
(***************************************************************************)
Shorter(m, n) == IF m <= n THEN m ELSE n
Nothing == [from |-> 0, to |-> 0]

HighlightIn(span, start, end) ==
    LET hit == IF end <= start THEN span.start <= start /\ span.end > start
               ELSE span.start < end /\ span.end > start
        last == IF end <= start THEN start + 1 ELSE end
        from == Longer(0, Longer(start, span.start) - span.start)
        to == Longer(from, Shorter(span.size, Shorter(last, span.end) - span.start))
    IN IF ~hit \/ to <= from THEN Nothing ELSE [from |-> from, to |-> to]

\* previewElementForLine: the element of this line, else the one before it,
\* else the first; `lines' are the elements' lines in document order.
ElementForLine(lines, line) ==
    LET reached == {i \in DOMAIN lines : lines[i] >= line}
        first == CHOOSE i \in reached : \A k \in reached : i <= k
    IN IF reached = {} THEN Len(lines)
       ELSE IF lines[first] = line \/ first = 1 THEN first ELSE first - 1

HighlightPreview(spans, lines, anchor) ==
    LET end == IF anchor.to < 0 THEN anchor.from ELSE anchor.to
        marks == [i \in DOMAIN spans |-> HighlightIn(spans[i], anchor.from, end)]
    IN [marks |-> marks,
        line |-> IF \E i \in DOMAIN marks : marks[i] # Nothing THEN 0
                 ELSE ElementForLine(lines, anchor.line)]
=============================================================================
