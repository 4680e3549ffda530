------------------------------ MODULE Anchors ------------------------------
(***************************************************************************)
(* What points into the text of the editor while people type: the anchors  *)
(* of comments (app/lib/commentAnchors.ts), the placeholders of images     *)
(* that are being uploaded (app/d/[id]/components/EditorAssets.tsx,        *)
(* app/components/YjsMonacoEditor.tsx) and the blame of the editor page    *)
(* (app/d/[id]/page.tsx, 494-518, 584-602).                                *)
(*                                                                         *)
(* The text is the list of items of the Y.Text; a deleted one stays as a   *)
(* tombstone.  An anchor names an item, an upload and the blame only       *)
(* remember offsets.                                                       *)
(***************************************************************************)
EXTENDS Naturals, FiniteSets, Sequences

CONSTANTS
    Length,      \* of the text at first,
    MaxChanges,  \* bounds on the edits of people,
    MaxBatches, MaxFiles,  \* on the batches of images and the files in one
    BlamePage              \* rows of the log in one call for the blame, 500

AnchorsAssumption ==
    /\ Length \in Nat /\ MaxChanges \in Nat /\ MaxBatches \in Nat /\ MaxFiles \in Nat
    /\ BlamePage \in Nat

VARIABLES
    items,      \* the text: records of an id and whether it is deleted
    fresh,      \* the next id
    changes,    \* edits of people so far,
    logged,     \* and those that are rows of the log by now
    anchor,     \* the comment's anchor, see Anchor
    uploads,    \* batches of images under way, see Upload
    batches,    \* how many there were
    pickedAt,   \* the offset kept while the file dialog is open
    readOnly,
    blame,      \* the blame: switched on, when the log had how many rows,
                \* loading, the rows the map in hand is made of, and the answer
    tool        \* what a behaviour uses besides typing; a bound

anchorVars == <<items, fresh, changes, logged, anchor, uploads, batches, pickedAt, readOnly,
                blame, tool>>

End == 0    \* the relative position of the end of a text names no item

Upload == [batch : 1..MaxBatches, at : Nat, left : 0..MaxFiles,
           marks : SUBSET Nat,   \* the items of the placeholder
           moved : BOOLEAN]      \* history: somebody changed the text before its end

AnchorTypeOK ==
    /\ items \in Seq([id : Nat, dead : BOOLEAN]) /\ fresh \in Nat
    /\ changes \in 0..MaxChanges /\ logged \in 0..changes /\ batches \in 0..MaxBatches
    /\ anchor \in {<<>>} \cup [start : Nat, end : Nat, chosen : SUBSET Nat, old : SUBSET Nat]
    /\ \A u \in uploads : u \in Upload
    /\ pickedAt \in {<<>>} \cup {<<o>> : o \in 0..Len(items)}
    /\ readOnly \in BOOLEAN /\ tool \in {"comment", "image", "blame"}
    /\ blame \in [active : BOOLEAN, since : Nat, map : {<<>>} \cup {<<c>> : c \in 0..MaxChanges},
                  loading : {"no", "sent", "served", "failed"}, answer : Nat]

AnchorIdle ==
    /\ items = [i \in 1..Length |-> [id |-> i, dead |-> FALSE]]
    /\ fresh = Length + 1 /\ changes = 0 /\ logged = 0
    /\ anchor = <<>> /\ uploads = {} /\ batches = 0 /\ pickedAt = <<>>
    /\ readOnly = FALSE
    /\ blame = [active |-> FALSE, since |-> 0, map |-> <<>>, loading |-> "no", answer |-> 0]

AnchorInit == AnchorIdle /\ tool \in {"comment", "image", "blame"}

(***************************************************************************)
(* Texts.  Offsets count the items that are not deleted.                   *)
(***************************************************************************)
Live(t) == {p \in DOMAIN t : ~t[p].dead}
Ids(t, ps) == {t[p].id : p \in ps}
Size(t) == Cardinality(Live(t))
Before(t, p) == Cardinality({q \in Live(t) : q < p})
Smaller(a, b) == IF a < b THEN a ELSE b

\* The place of the item at an offset; behind all the items for the end.  So
\* an insert goes behind the tombstones at its place.
Place(t, offset) ==
    IF offset < Size(t) THEN CHOOSE p \in Live(t) : Before(t, p) = offset ELSE Len(t) + 1

Inserted(t, p, new) == SubSeq(t, 1, p - 1) \o new \o SubSeq(t, p, Len(t))
Item(id) == [id |-> id, dead |-> FALSE]

\* model.getPositionAt puts an offset behind the text at its end.
Cut(t, from, to) ==
    [p \in DOMAIN t |-> [t[p] EXCEPT !.dead = @ \/ Before(t, p) \in from..(to - 1)]]

(***************************************************************************)
(* People type, here and elsewhere.  What somebody else inserts may arrive *)
(* at any place between the items, tombstones included.                    *)
(***************************************************************************)
Moved(p) ==
    {[u EXCEPT !.moved = @ \/ Before(items, p) < u.at + Cardinality(u.marks)] : u \in uploads}

Insert(p) ==
    /\ changes < MaxChanges /\ changes' = changes + 1
    /\ items' = Inserted(items, p, <<Item(fresh)>>) /\ fresh' = fresh + 1
    /\ uploads' = Moved(p)
    /\ UNCHANGED <<logged, anchor, batches, pickedAt, readOnly, blame>>

Delete(p) ==
    /\ changes < MaxChanges /\ changes' = changes + 1
    /\ p \in Live(items)
    /\ items' = [items EXCEPT ![p].dead = TRUE]
    /\ uploads' = Moved(p)
    /\ UNCHANGED <<fresh, logged, anchor, batches, pickedAt, readOnly, blame>>

\* The connection turns read-only (it never turns back without a reload).
BecomeReadOnly ==
    /\ ~readOnly /\ readOnly' = TRUE
    /\ UNCHANGED <<items, fresh, changes, logged, anchor, uploads, batches, pickedAt, blame>>

(***************************************************************************)
(* Comments.  createRelativePositionFromTypeIndex takes the item that is   *)
(* at the offset; createAbsolutePositionFromRelativePosition counts what   *)
(* is before it, deleted or not.                                           *)
(***************************************************************************)
\* Mutant: the item behind the one at the offset.
RelativeBehind(offset) ==
    IF offset + 1 < Size(items) THEN items[Place(items, offset + 1)].id ELSE End

RelativeAt(offset) == IF offset < Size(items) THEN items[Place(items, offset)].id ELSE End

ResolveRelativeIndex(rel) ==
    IF rel = End THEN Size(items)
    ELSE Before(items, CHOOSE p \in DOMAIN items : items[p].id = rel)

Between(from, to) == Ids(items, {p \in Live(items) : Before(items, p) \in from..(to - 1)})

BuildCommentAnchorDraft(from, to) ==
    /\ anchor = <<>>
    /\ anchor' = [start |-> RelativeAt(from), end |-> RelativeAt(to),
                  chosen |-> Between(from, to), old |-> Ids(items, Live(items))]
    /\ UNCHANGED <<items, fresh, changes, logged, uploads, batches, pickedAt, readOnly, blame>>

ResolveCommentAnchor ==
    LET from == ResolveRelativeIndex(anchor.start)
        to == ResolveRelativeIndex(anchor.end)
    IN Between(Smaller(from, to), IF from < to THEN to ELSE from)

(***************************************************************************)
(* Images.  A batch inserts a placeholder (two items here), uploads the    *)
(* file, replaces what then is at those offsets by the image (one item) or *)
(* by nothing, and goes on with the next file at the same offset.          *)
(***************************************************************************)
Placeholder(id) == <<Item(id), Item(id + 1)>>
PlaceholderSize == 2

NextFile(u, t, id) ==
    [u EXCEPT !.left = @ - 1, !.marks = {id, id + 1}, !.moved = u.at > Size(t)]

\* Opening the file dialog from the context menu keeps the offset of the click.
PickImages(offset) ==
    /\ ~readOnly /\ pickedAt = <<>> /\ batches < MaxBatches
    /\ pickedAt' = <<offset>>
    /\ UNCHANGED <<items, fresh, changes, logged, anchor, uploads, batches, readOnly, blame>>

\* An edit moves the placeholders of other batches, as one of a person does.
Others(u, p) == {v \in Moved(p) : v.batch # u.batch}

\* Every caller passes an offset, that of the click or of the selection, so that
\* the cursor is never asked (YjsMonacoEditor 94-137, page.tsx 887 and 975).
UploadImages(files) ==
    /\ pickedAt # <<>> /\ pickedAt' = <<>>
    /\ IF readOnly
       THEN UNCHANGED <<items, fresh, uploads, batches>>
       ELSE LET at == Place(items, pickedAt[1])
                u == [batch |-> batches + 1, at |-> pickedAt[1], left |-> files,
                      marks |-> {}, moved |-> FALSE]
            IN /\ items' = Inserted(items, at, Placeholder(fresh))
               /\ uploads' = Others(u, at) \cup {NextFile(u, items, fresh)}
               /\ fresh' = fresh + PlaceholderSize /\ batches' = batches + 1
    /\ UNCHANGED <<changes, logged, anchor, readOnly, blame>>

\* Mutant: the line break behind the placeholder goes too.
EndedWithLine(u, image) ==
    LET cut == Cut(items, u.at, u.at + PlaceholderSize + 1)
    IN IF image THEN Inserted(cut, Place(cut, u.at), <<Item(fresh)>>) ELSE cut

\* The edit that ends one file.
Ended(u, image) ==
    LET cut == Cut(items, u.at, u.at + PlaceholderSize)
    IN IF image THEN Inserted(cut, Place(cut, u.at), <<Item(fresh)>>) ELSE cut

\* ... and the next file's placeholder, in the same turn of the event loop.  A
\* read-only editor ignores them all.
UploadAnswered(u, image) ==
    LET text == Ended(u, image)
    IN /\ uploads' = Others(u, Place(items, u.at)) \cup
            (IF u.left = 0 \/ readOnly THEN {} ELSE {NextFile(u, text, fresh + 1)})
       /\ items' = CASE readOnly -> items
                     [] ~readOnly /\ u.left = 0 -> text
                     [] ~readOnly /\ u.left # 0 -> Inserted(text, Place(text, u.at), Placeholder(fresh + 1))
       /\ fresh' = fresh + 3
       /\ UNCHANGED <<changes, logged, anchor, batches, pickedAt, readOnly, blame>>

(***************************************************************************)
(* Blame.  An edit is a row of the log once the server has committed it.   *)
(***************************************************************************)
EditLogged ==
    /\ logged < changes /\ logged' = logged + 1
    /\ UNCHANGED <<items, fresh, changes, anchor, uploads, batches, pickedAt, readOnly, blame>>

notBlame == <<items, fresh, changes, logged, anchor, uploads, batches, pickedAt, readOnly>>

\* Mutant: the map is kept for the next time.
ToggleBlameKeepingMap ==
    /\ blame.loading = "no"
    /\ blame' = IF blame.active THEN [blame EXCEPT !.active = FALSE]
                ELSE [blame EXCEPT !.active = TRUE, !.since = logged,
                        !.loading = IF blame.map = <<>> THEN "sent" ELSE "no"]
    /\ UNCHANGED notBlame

ToggleBlame ==
    /\ blame.loading = "no"
    /\ blame' = IF blame.active THEN [blame EXCEPT !.active = FALSE, !.map = <<>>]
                ELSE [blame EXCEPT !.active = TRUE, !.since = logged,
                        !.loading = IF blame.map = <<>> THEN "sent" ELSE "no"]
    /\ UNCHANGED notBlame

\* One call, and so the first rows of the log at most (store/attribution.go, 43).
ServeBlame ==
    /\ blame.loading = "sent"
    /\ \/ blame' = [blame EXCEPT !.loading = "served", !.answer = Smaller(logged, BlamePage)]
       \/ blame' = [blame EXCEPT !.loading = "failed"]
    /\ UNCHANGED notBlame

BlameAnswered ==
    /\ blame.loading \in {"served", "failed"}
    /\ blame' = [blame EXCEPT !.loading = "no", !.active = @ /\ blame.loading = "served",
                   !.map = IF blame.loading = "served" THEN <<blame.answer>> ELSE @]
    /\ UNCHANGED notBlame

PeopleType ==
    \/ \E p \in 1..(Len(items) + 1) : Insert(p)
    \/ \E p \in DOMAIN items : Delete(p)

CommentMade ==
    \E from \in 0..Size(items) : \E to \in from..Size(items) : BuildCommentAnchorDraft(from, to)

ImageStep ==
    \/ BecomeReadOnly
    \/ \E offset \in 0..Size(items) : PickImages(offset)
    \/ \E files \in 1..MaxFiles : UploadImages(files)
    \/ \E u \in uploads, image \in BOOLEAN : UploadAnswered(u, image)

BlameStep == EditLogged \/ ToggleBlame \/ ServeBlame \/ BlameAnswered

AnchorNext ==
    /\ \/ PeopleType
       \/ tool = "comment" /\ CommentMade
       \/ tool = "image" /\ ImageStep
       \/ tool = "blame" /\ BlameStep
    /\ UNCHANGED tool

AnchorSpec == AnchorInit /\ [][AnchorNext]_anchorVars

\* A comment stays on the text it was made on: of the items there were, those
\* its range covers are the chosen ones that are left, no more and no fewer,
\* whatever people and uploads insert and delete around and within.
CommentsFollowTheirText ==
    anchor # <<>> =>
      ResolveCommentAnchor \cap anchor.old = anchor.chosen \cap Ids(items, Live(items))

\* The end of an upload deletes the items of its placeholder and no others,
\* also within a batch of several files.  The exceptions (`moved`): somebody,
\* or another batch, changed the text before the end of the placeholder, or
\* the offset was behind the text (EditorAssets.tsx, 50-58 and 64-66).
EndsOnlyItsPlaceholder ==
    \A u \in uploads :
      (/\ u \notin uploads' /\ changes' = changes /\ ~u.moved /\ ~readOnly
       /\ ~\E v \in uploads' : v.batch = u.batch /\ v.left = u.left)
      => Ids(items, Live(items)) \ Ids(items', Live(items')) = u.marks

\* The blame on the screen knows every edit that was in the log when it was
\* switched on, among the first BlamePage rows: no map of an earlier time is
\* taken up again (page.tsx, 584-602).
BlameIsFresh ==
    blame.active /\ blame.map # <<>> => blame.map[1] >= Smaller(blame.since, BlamePage)
=============================================================================
