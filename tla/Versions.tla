------------------------------ MODULE Versions ------------------------------
(***************************************************************************)
(* Snapshots as the editor page handles them: the history dialog           *)
(* (app/d/[id]/components/HistoryPanel.tsx), the export dialog             *)
(* (ExportModal.tsx) and the publish button (page.tsx, 566-582).  A text   *)
(* is a number, a new one with each edit; the database has the texts of    *)
(* the published versions, in their order.                                 *)
(***************************************************************************)
EXTENDS Naturals, FiniteSets, Sequences

CONSTANTS
    MaxAsks, MaxAsksAtOnce,  \* bounds on the calls made and in flight,
    MaxEdits,                \* on the edits,
    MaxShows                 \* and on the times a dialog is opened

VersionsAssumption ==
    MaxAsks \in Nat /\ MaxAsksAtOnce \in Nat /\ MaxEdits \in Nat /\ MaxShows \in Nat

VARIABLES
    body,      \* the text in the editor
    versions,  \* the snapshots in the database
    asks,      \* calls whose answer is not handled yet
    asked,     \* how many were made
    history,   \* the history dialog: is it open, how often was it, is it
               \* loading, the number of versions it lists, the one selected,
               \* the one whose body it shows, is one being restored
    export,    \* the export dialog: is it open, how often was it, its status,
               \* busy with what, will the timer of a print fire
    publish,   \* what the publish button shows
    late,      \* history: versions whose body was on the screen, or under way
               \* to it, when the selection was made
    threw      \* history: an export threw since, and nobody resets its `busy'

versionVars == <<body, versions, asks, asked, history, export, publish, late, threw>>

Opaque == MaxEdits + 1   \* the text of a snapshot that cannot be previewed

AskOp == {"list", "status", "body", "restore", "publish", "export", "token"}
AskBy == {"open", "choose", "button", "effect", "refresh", "latest", "first", "retry"}
Busy == {"", "markdown", "publish-markdown", "pdf"}

VersionsTypeOK ==
    /\ body \in 0..MaxEdits /\ versions \in Seq(0..Opaque)
    /\ asked \in 0..MaxAsks
    /\ asks \subseteq [n : 1..MaxAsksAtOnce, op : AskOp, by : AskBy, arg : Nat, tag : 0..MaxShows,
                       state : {"sent", "served", "failed"}, answer : Nat]
    /\ history \in [open : BOOLEAN, shows : 0..MaxShows, loading : BOOLEAN, listed : Nat,
                    selected : Nat, shown : Nat, restoring : BOOLEAN]
    /\ export \in [open : BOOLEAN, shows : 0..MaxShows, busy : Busy, printing : BOOLEAN,
                   status : {"loading", "none", "current", "stale"}]
    /\ publish \in {"idle", "saving", "saved", "error"}
    /\ late \subseteq Nat /\ threw \in BOOLEAN

VersionsStart(histories, exports, used) ==
    /\ body = 0 /\ asks = {} /\ asked = used
    /\ history = [open |-> FALSE, shows |-> histories, loading |-> TRUE, listed |-> 0,
                  selected |-> 0, shown |-> 0, restoring |-> FALSE]
    /\ export = [open |-> FALSE, shows |-> exports, busy |-> "", printing |-> FALSE,
                 status |-> "loading"]
    /\ publish = "idle" /\ late = {} /\ threw = FALSE

VersionsIdle == VersionsStart(0, 0, 0)

\* All the dialogs share is the versions, so a behaviour opens one of them: the
\* history up to MaxShows times, with two calls less, or the export dialog once.
VersionsInit ==
    /\ versions \in {<<>>, <<0>>, <<0, Opaque>>}
    /\ VersionsStart(0, MaxShows, 2) \/ VersionsStart(MaxShows, MaxShows - 1, 0)

(***************************************************************************)
(* Calls.  What the server makes of one, and what it answers: the number   *)
(* of versions to a list, the version to a body, the version in the file   *)
(* to an export, 0 (409) when there is none or the latest is no text.      *)
(***************************************************************************)
Slot(kept) == CHOOSE i \in 1..MaxAsksAtOnce : \A a \in kept : a.n # i

Ask(kept, op, by, arg, tag) ==
    /\ asked < MaxAsks /\ Cardinality(kept) < MaxAsksAtOnce
    /\ asked' = asked + 1
    /\ asks' = kept \cup {[n |-> Slot(kept), op |-> op, by |-> by, arg |-> arg, tag |-> tag,
                           state |-> "sent", answer |-> 0]}

Answer(a) ==
    IF a.op \in {"list", "status"} THEN Len(versions)
    ELSE IF a.op # "export" THEN a.arg
    ELSE IF versions = <<>> \/ versions[Len(versions)] = Opaque THEN 0
    ELSE Len(versions)

ServeAsk(a) ==
    /\ a.state = "sent"
    /\ versions' = CASE a.op = "publish" -> Append(versions, a.arg)
                     [] a.op = "restore" -> Append(versions, versions[a.arg])
                     [] OTHER -> versions
    /\ \/ asks' = (asks \ {a}) \cup {[a EXCEPT !.state = "served", !.answer = Answer(a)]}
       \/ versions' # versions /\ asks' = (asks \ {a}) \cup {[a EXCEPT !.state = "failed"]}
    /\ UNCHANGED <<body, asked, history, export, publish, late, threw>>

RefuseAsk(a) ==
    /\ a.state = "sent"
    /\ asks' = (asks \ {a}) \cup {[a EXCEPT !.state = "failed"]}
    /\ UNCHANGED <<body, versions, asked, history, export, publish, late, threw>>

DropAsk(a) == asks' = asks \ {a} /\ UNCHANGED asked
Answered(a, op, bys) == a.op = op /\ a.by \in bys /\ a.state # "sent"

\* A dialog covers the page and its buttons, though not the edits of others.
Uncovered == ~history.open /\ ~export.open

Edit ==
    /\ body < MaxEdits /\ body' = body + 1
    /\ UNCHANGED <<versions, asks, asked, history, export, publish, late, threw>>

(***************************************************************************)
(* History.                                                                *)
(***************************************************************************)
notHistory == <<body, versions, export, publish, threw>>

OpenHistory ==
    /\ Uncovered /\ history.shows < MaxShows
    /\ Ask(asks, "list", "open", 0, history.shows + 1)
    /\ history' = [history EXCEPT !.open = TRUE, !.shows = @ + 1]
    /\ UNCHANGED <<notHistory, late>>

CloseHistory ==
    /\ history.open
    /\ history' = [history EXCEPT !.open = FALSE, !.loading = TRUE]
    /\ UNCHANGED <<notHistory, asks, asked, late>>

Alive(a) == history.open /\ a.tag = history.shows
Coming == {a.arg : a \in {b \in asks : b.by = "choose"}}

HistoryListed(a) ==
    /\ Answered(a, "list", {"open"})
    /\ LET listed == [history EXCEPT !.listed = a.answer, !.selected = a.answer]
       IN \/ /\ Alive(a) /\ a.state = "served" /\ a.answer > 0
             /\ Ask(asks \ {a}, "body", "open", a.answer, a.tag)
             /\ history' = listed /\ late' = Coming \cup {history.shown}
          \/ /\ Alive(a) /\ a.state = "served" /\ a.answer = 0
             /\ history' = [listed EXCEPT !.shown = 0, !.loading = FALSE]
             /\ DropAsk(a) /\ late' = Coming
          \/ /\ Alive(a) /\ a.state = "failed"
             /\ history' = [history EXCEPT !.loading = FALSE]
             /\ DropAsk(a) /\ UNCHANGED late
          \/ ~Alive(a) /\ DropAsk(a) /\ UNCHANGED <<history, late>>
    /\ UNCHANGED notHistory

\* When this fetch fails, or the dialog closes before it ends, the body of an
\* earlier selection stays.
HistoryBodyOpened(a) ==
    /\ Answered(a, "body", {"open"})
    /\ DropAsk(a)
    /\ history' = IF ~Alive(a) THEN history
                  ELSE IF a.state = "failed" THEN [history EXCEPT !.loading = FALSE]
                  ELSE [history EXCEPT !.loading = FALSE, !.shown = a.answer]
    /\ UNCHANGED <<notHistory, late>>

\* Mutant: the body of the last selection stays until the next one is here.
ChooseSnapshotOverOld(index) ==
    /\ history.open /\ ~history.loading /\ index \in 1..history.listed
    /\ Ask(asks, "body", "choose", index, 0)
    /\ history' = [history EXCEPT !.selected = index]
    /\ late' = Coming
    /\ UNCHANGED notHistory

\* Nothing cancels or outdates a fetch that is under way.
ChooseSnapshot(index) ==
    /\ history.open /\ ~history.loading /\ index \in 1..history.listed
    /\ Ask(asks, "body", "choose", index, 0)
    /\ history' = [history EXCEPT !.selected = index, !.shown = 0]
    /\ late' = Coming
    /\ UNCHANGED notHistory

SnapshotChosen(a) ==
    /\ Answered(a, "body", {"choose"})
    /\ DropAsk(a)
    /\ history' = IF a.state = "served" THEN [history EXCEPT !.shown = a.answer] ELSE history
    /\ UNCHANGED <<notHistory, late>>

RestoreSelectedSnapshot ==
    /\ history.open /\ ~history.loading /\ history.listed > 0 /\ ~history.restoring
    /\ Ask(asks, "restore", "button", history.selected, 0)
    /\ history' = [history EXCEPT !.restoring = TRUE]
    /\ UNCHANGED <<notHistory, late>>

Restored(a) ==
    /\ Answered(a, "restore", {"button"})
    /\ DropAsk(a)
    /\ history' = [history EXCEPT !.restoring = FALSE,
                     !.open = @ /\ a.state = "failed",
                     !.loading = @ \/ (history.open /\ a.state = "served")]
    /\ UNCHANGED <<notHistory, late>>

(***************************************************************************)
(* Publish.                                                                *)
(***************************************************************************)
PublishSnapshot ==
    /\ Uncovered /\ publish # "saving"
    /\ Ask(asks, "publish", "button", body, 0)
    /\ publish' = "saving"
    /\ UNCHANGED <<body, versions, history, export, late, threw>>

Published(a) ==
    /\ Answered(a, "publish", {"button"})
    /\ DropAsk(a)
    /\ publish' = IF a.state = "served" THEN "saved" ELSE "error"
    /\ UNCHANGED <<body, versions, history, export, late, threw>>

FlashEnds ==
    /\ publish \in {"saved", "error"} /\ publish' = "idle"
    /\ UNCHANGED <<body, versions, asks, asked, history, export, late, threw>>

(***************************************************************************)
(* Export.                                                                 *)
(***************************************************************************)
notExport == <<body, versions, history, late>>

OpenExport ==
    /\ Uncovered /\ export.shows < MaxShows
    /\ Ask(asks, "status", "effect", 0, export.shows + 1)
    /\ export' = [export EXCEPT !.open = TRUE, !.shows = @ + 1, !.status = "loading"]
    /\ UNCHANGED <<notExport, publish, threw>>

CloseExport ==
    /\ export.open /\ export' = [export EXCEPT !.open = FALSE]
    /\ UNCHANGED <<notExport, asks, asked, publish, threw>>

RefreshStatus ==
    /\ export.open /\ export.status # "loading"
    /\ Ask(asks, "status", "refresh", 0, 0)
    /\ export' = [export EXCEPT !.status = "loading"]
    /\ UNCHANGED <<notExport, publish, threw>>

Watching(a) == a.by = "refresh" \/ (export.open /\ a.tag = export.shows)

\* The list and the latest body are fetched one after the other; as versions
\* never change, the two are one call here.
StatusAnswered(a) ==
    /\ Answered(a, "status", {"effect", "refresh"})
    /\ DropAsk(a)
    /\ export' = IF ~Watching(a) THEN export
                 ELSE [export EXCEPT !.status =
                         IF a.state = "failed" \/ a.answer = 0 THEN "none"
                         ELSE IF versions[a.answer] = body THEN "current" ELSE "stale"]
    /\ UNCHANGED <<notExport, publish, threw>>

\* The buttons look at `busy`, which is set when the token has come.
ExportMarkdown(by) ==
    /\ export.open /\ export.busy = ""
    /\ by = "latest" => export.status \in {"current", "stale"}
    /\ Ask(asks, "token", by, 0, 0)
    /\ UNCHANGED <<notExport, export, publish, threw>>

\* Without a token the browser goes to the login page.
TokenAnswered(a) ==
    /\ Answered(a, "token", {"latest", "first"})
    /\ IF a.state = "failed" THEN DropAsk(a) /\ UNCHANGED export
       ELSE /\ export' = [export EXCEPT !.busy =
                           IF a.by = "first" THEN "publish-markdown" ELSE "markdown"]
            /\ IF a.by = "first" THEN Ask(asks \ {a}, "publish", "first", body, 0)
               ELSE Ask(asks \ {a}, "export", "latest", 0, 0)
    /\ UNCHANGED <<notExport, publish, threw>>

NotBusy == [export EXCEPT !.busy = ""]

ExportPublished(a) ==
    /\ Answered(a, "publish", {"first", "retry"})
    /\ IF a.state = "served"
       THEN Ask(asks \ {a}, "export", a.by, 0, 0) /\ UNCHANGED <<export, threw>>
       ELSE DropAsk(a) /\ export' = NotBusy /\ threw' = FALSE
    /\ publish' = IF a.state = "served" /\ a.by = "first" THEN "saved" ELSE publish
    /\ UNCHANGED notExport

\* A file: the status is asked for again.  409: publish and try once more.
\* Another status is an error.  The fetch may throw, which is caught in a retry
\* only, and so may the reading of the file, which never is (99 and 113).
Exported(a) ==
    /\ Answered(a, "export", {"latest", "first", "retry"})
    /\ \/ /\ a.state = "served" /\ a.answer > 0
          /\ Ask(asks \ {a}, "status", "refresh", 0, 0)
          /\ export' = [NotBusy EXCEPT !.status = "loading"] /\ threw' = FALSE
       \/ /\ a.state = "served" /\ a.answer = 0 /\ a.by # "retry"
          /\ Ask(asks \ {a}, "publish", "retry", body, 0)
          /\ UNCHANGED <<export, threw>>
       \/ /\ a.state = "failed" \/ (a.answer = 0 /\ a.by = "retry")
          /\ DropAsk(a) /\ export' = NotBusy /\ threw' = FALSE
       \/ /\ IF a.state = "failed" THEN a.by # "retry" ELSE a.answer > 0
          /\ DropAsk(a) /\ threw' = (export.busy # "")
          /\ UNCHANGED export
    /\ UNCHANGED <<notExport, publish>>

ExportPDF ==
    /\ export.open /\ export.busy = ""
    /\ export' = [export EXCEPT !.open = FALSE, !.busy = "pdf", !.printing = TRUE]
    /\ UNCHANGED <<notExport, asks, asked, publish, threw>>

PrintPage ==
    /\ export.printing
    /\ export' = [NotBusy EXCEPT !.printing = FALSE] /\ threw' = FALSE
    /\ UNCHANGED <<notExport, asks, asked, publish>>

VersionsNext ==
    \/ Edit
    \/ OpenHistory \/ CloseHistory \/ RestoreSelectedSnapshot
    \/ \E index \in 1..history.listed : ChooseSnapshot(index)
    \/ PublishSnapshot \/ FlashEnds
    \/ OpenExport \/ CloseExport \/ RefreshStatus \/ ExportPDF \/ PrintPage
    \/ \E by \in {"latest", "first"} : ExportMarkdown(by)
    \/ \E a \in asks :
         \/ ServeAsk(a) \/ RefuseAsk(a)
         \/ HistoryListed(a) \/ HistoryBodyOpened(a) \/ SnapshotChosen(a) \/ Restored(a)
         \/ Published(a)
         \/ StatusAnswered(a) \/ TokenAnswered(a) \/ ExportPublished(a) \/ Exported(a)

VersionsSpec == VersionsInit /\ [][VersionsNext]_versionVars

\* The body and the diff in the history dialog are those of the version that is
\* selected, whose number "Restore as new version" asks about, or of one that was
\* on the screen or under way to it when the selection was made (`late'): nothing
\* cancels or outdates a fetch, so that its body may still replace the right one
\* (HistoryPanel.tsx, 47-48 and 77).  A body from longer ago is never shown.
HistoryShowsItsSelection ==
    history.open /\ ~history.loading /\ history.shown # 0
      => history.shown = history.selected \/ history.shown \in late

\* The export buttons come back: while they are disabled a call of an export is
\* under way or the print timer will fire.  They do not when the fetch or the
\* reading of the file threw (`threw'; ExportModal.tsx, 99 and 113).
ExportEnds ==
    /\ export.busy \in {"markdown", "publish-markdown"} =>
         threw \/ \E a \in asks : a.op \in {"publish", "export"} /\ a.by # "button"
    /\ export.busy = "pdf" => export.printing
=============================================================================
