------------------------------ MODULE Comments ------------------------------
(***************************************************************************)
(* The comments of the editor page (app/d/[id]/page.tsx and                *)
(* components/CommentsPanel.tsx): the list, the context menu, the popup a  *)
(* comment is written in, the selection, the dialog that confirms a        *)
(* deletion.  The menu, the popup and the dialog cover the page, so only   *)
(* one of them is open and nothing under it can be clicked.                *)
(***************************************************************************)
EXTENDS Calls

CONSTANTS
    Text,             \* what the user may type into the popup
    MaxCommentCalls   \* bound on the calls about comments

VARIABLES
    panel,       \* the comments panel is open
    overlay,     \* which of the three covers the page
    body,        \* what the popup holds, or None
    submitting,
    selected,    \* the comment that is selected, or None
    deleting,    \* the one the dialog asks about, or None
    writes,      \* history: per create in flight, its text and whether the
    stored       \* popup was used since; texts of the comments made

commentVars == <<panel, overlay, body, submitting, selected, deleting, writes, stored>>

None == 0
CommentsAssumption == None \notin Existing /\ None \notin Text

CommentsTypeOK ==
    /\ panel \in BOOLEAN /\ submitting \in BOOLEAN
    /\ overlay \in {"none", "menu", "popup", "delete"}
    /\ body \in Text \cup {None} /\ stored \subseteq Text
    /\ selected \in Id \cup {None}
    /\ deleting \in Id \cup {None} /\ (deleting # None <=> overlay = "delete")
    /\ writes \subseteq [n : 1..MaxCalls, text : Text, touched : BOOLEAN]

CommentsIdle ==
    /\ panel = FALSE /\ overlay = "none" /\ submitting = FALSE
    /\ body = None /\ selected = None /\ deleting = None
    /\ writes = {} /\ stored = {}

CommentsInit ==
    /\ CallsInit([Empty EXCEPT !["comments"] = [id : Existing, st : {"open"}]])
    /\ CommentsIdle

comments == list["comments"]
CallComments(op, row) == sent < MaxCommentCalls /\ Send(op, "comments", row, 0)
Touch == {[w EXCEPT !.touched = TRUE] : w \in writes}

\* The prefetch of a page that loads.
Prefetch ==
    /\ sent = 0 /\ CallComments("list", NoRow)
    /\ UNCHANGED commentVars

\* Opening the panel fetches the list.  The click is one outside of the panel,
\* and such a click ends the selection.
ToggleCommentsPanel ==
    /\ overlay = "none"
    /\ panel' = ~panel /\ selected' = None
    /\ IF panel THEN UNCHANGED callVars ELSE CallComments("list", NoRow)
    /\ UNCHANGED <<overlay, body, submitting, deleting, writes, stored>>

SelectComment(id) ==
    /\ overlay = "none" /\ panel
    /\ \E i \in DOMAIN comments : comments[i].id = id
    /\ selected' = id
    /\ UNCHANGED <<callVars, panel, overlay, body, submitting, deleting, writes, stored>>

ClickOutside ==
    /\ selected # None /\ overlay # "delete"
    /\ selected' = None
    /\ UNCHANGED <<callVars, panel, overlay, body, submitting, deleting, writes, stored>>

OpenContextMenu ==
    /\ overlay = "none"
    /\ overlay' = "menu" /\ selected' = None
    /\ UNCHANGED <<callVars, panel, body, submitting, deleting, writes, stored>>

\* "Add comment", "Suggest edit", or away with the menu.
PickFromMenu ==
    /\ overlay = "menu" /\ overlay' \in {"popup", "none"}
    /\ writes' = IF overlay' = "popup" THEN Touch ELSE writes
    /\ UNCHANGED <<callVars, panel, body, submitting, selected, deleting, stored>>

WriteBody(t) ==
    /\ overlay = "popup" /\ body # t
    /\ body' = t /\ writes' = Touch
    /\ UNCHANGED <<callVars, panel, overlay, submitting, selected, deleting, stored>>

CancelPopup ==
    /\ overlay = "popup" /\ overlay' = "none" /\ body' = None /\ writes' = Touch
    /\ UNCHANGED <<callVars, panel, submitting, selected, deleting, stored>>

\* The button waits for `submitting`; Ctrl+Enter in the textarea does not.
CreateReviewComment ==
    /\ overlay = "popup" /\ body # None
    /\ CallComments("create", NoRow)
    /\ submitting' = TRUE
    /\ writes' = Touch \cup {[n |-> sent + 1, text |-> body, touched |-> FALSE]}
    /\ UNCHANGED <<panel, overlay, body, selected, deleting, stored>>

ResolveReviewComment(i) ==
    /\ panel /\ overlay = "none" /\ comments[i].st = "open"
    /\ CallComments("change", [id |-> comments[i].id, st |-> "closed"])
    /\ UNCHANGED commentVars

AskToDelete(i) ==
    /\ panel /\ overlay = "none"
    /\ deleting' = comments[i].id /\ overlay' = "delete"
    /\ UNCHANGED <<callVars, panel, body, submitting, selected, writes, stored>>

CancelDelete ==
    /\ overlay = "delete" /\ deleting' = None /\ overlay' = "none"
    /\ UNCHANGED <<callVars, panel, body, submitting, selected, writes, stored>>

\* The dialog stays until the answer, and its button works again meanwhile.
DeleteReviewComment ==
    /\ overlay = "delete"
    /\ CallComments("remove", [id |-> deleting, st |-> "open"])
    /\ UNCHANGED commentVars

(***************************************************************************)
(* Answers.                                                                *)
(***************************************************************************)
\* Mutant: a fetch that failed empties the list.
CommentsListedAnyhow(c) ==
    /\ c.op = "list" /\ c.state # "sent"
    /\ Handled(c, c.answer)
    /\ UNCHANGED commentVars

CommentsListed(c) ==
    /\ c.op = "list" /\ c.state # "sent"
    /\ IF c.state = "served" THEN Handled(c, c.answer) ELSE Ignored(c)
    /\ UNCHANGED commentVars

\* Mutant: the popup is cleared before it is known that the comment was made.
CommentCreatedOrNot(c) ==
    /\ c.op = "create" /\ c.state # "sent"
    /\ submitting' = FALSE
    /\ writes' = {w \in writes : w.n # c.n}
    /\ body' = None
    /\ IF c.state = "served"
       THEN /\ Handled(c, c.answer \o comments)
            /\ panel' = TRUE
            /\ overlay' = IF overlay = "popup" THEN "none" ELSE overlay
            /\ stored' = stored \cup {w.text : w \in {v \in writes : v.n = c.n}}
       ELSE Ignored(c) /\ UNCHANGED <<overlay, panel, stored>>
    /\ UNCHANGED <<selected, deleting>>

CommentCreated(c) ==
    /\ c.op = "create" /\ c.state # "sent"
    /\ submitting' = FALSE
    /\ writes' = {w \in writes : w.n # c.n}
    /\ IF c.state = "served"
       THEN /\ Handled(c, c.answer \o comments)
            /\ body' = None /\ panel' = TRUE
            /\ overlay' = IF overlay = "popup" THEN "none" ELSE overlay
            /\ stored' = stored \cup {w.text : w \in {v \in writes : v.n = c.n}}
       ELSE Ignored(c) /\ UNCHANGED <<body, overlay, panel, stored>>
    /\ UNCHANGED <<selected, deleting>>

CommentResolved(c) ==
    /\ c.op = "change" /\ c.state # "sent"
    /\ IF c.state = "served" THEN Handled(c, Replaced(comments, c.row)) ELSE Ignored(c)
    /\ UNCHANGED commentVars

\* Mutant: the dialog closes and its question stays.
CommentDeletedStillAsking(c) ==
    /\ c.op = "remove" /\ c.state # "sent"
    /\ IF c.state = "served"
       THEN /\ Handled(c, Without(comments, c.row.id))
            /\ overlay' = IF overlay = "delete" THEN "none" ELSE overlay
            /\ selected' \in {selected, None}
       ELSE Ignored(c) /\ UNCHANGED <<overlay, selected>>
    /\ UNCHANGED <<deleting, panel, body, submitting, writes, stored>>

\* The selection it compares with is the one of the render the click was in.
\* Whatever the dialog asks about by now, it closes.
CommentDeleted(c) ==
    /\ c.op = "remove" /\ c.state # "sent"
    /\ IF c.state = "served"
       THEN /\ Handled(c, Without(comments, c.row.id))
            /\ deleting' = None
            /\ overlay' = IF overlay = "delete" THEN "none" ELSE overlay
            /\ selected' \in {selected, None}
       ELSE Ignored(c) /\ UNCHANGED <<deleting, overlay, selected>>
    /\ UNCHANGED <<panel, body, submitting, writes, stored>>

CommentsNext ==
    \/ Prefetch \/ ToggleCommentsPanel \/ ClickOutside
    \/ \E id \in Id : SelectComment(id)
    \/ OpenContextMenu \/ PickFromMenu \/ CancelPopup \/ CreateReviewComment
    \/ \E t \in Text : WriteBody(t)
    \/ \E i \in DOMAIN comments : ResolveReviewComment(i) \/ AskToDelete(i)
    \/ CancelDelete \/ DeleteReviewComment
    \/ \E c \in calls : (Serve(c) \/ Refuse(c)) /\ UNCHANGED commentVars
    \/ \E c \in calls : \/ CommentsListed(c) \/ CommentCreated(c)
                        \/ CommentResolved(c) \/ CommentDeleted(c)

CommentsSpec == CommentsInit /\ [][CommentsNext]_<<callVars, commentVars>>

\* Text typed into the popup is only given up when the user cancels, when it has
\* become a comment, or when another text has: one that was submitted before, in a
\* popup that was edited, reopened or submitted again since.  Its answer clears
\* whatever is there by then (page.tsx, 422-424); an answer that fails, nothing.
TypedTextSurvives ==
    body # None /\ body' = None
      => \/ overlay = "popup" /\ calls' = calls   \* cancelled
         \/ body \in stored'
         \/ \E w \in writes \ writes' : w.touched /\ w.text \in stored'
=============================================================================
