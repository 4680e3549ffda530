----------------------------- MODULE EditorPage -----------------------------
(***************************************************************************)
(* app/d/[id]/page.tsx and app/p/[token]/page.tsx: how a page loads, when  *)
(* it creates and destroys its SyncProvider, and what its effects do with  *)
(* the draft kept in localStorage and the import kept in sessionStorage.   *)
(*                                                                         *)
(* React renders from the values its cells had when it rendered and runs   *)
(* the effects of that render later: `shown` is what was rendered last,    *)
(* `due` the effects still to run.  A text is the set of pieces it shows.  *)
(* The provider is what lib/yjs.ts makes of it: a connection state, and    *)
(* local changes that are not on the server yet (SaveProtocol has more).   *)
(***************************************************************************)
EXTENDS Naturals, FiniteSets

CONSTANTS
    LocalEdit, PeerEdit,  \* what this user and the others may type
    Import,               \* the text of an imported file
    MaxVisits,            \* bound on pages opened in this tab
    MaxDrops              \* bound on lost connections

EditorAssumption ==
    /\ Import \notin LocalEdit \cup PeerEdit
    /\ LocalEdit \cap PeerEdit = {}
    /\ MaxVisits \in Nat /\ MaxDrops \in Nat

VARIABLES
    page,      \* what the load of the mounted page waits for, see Waits
    guest,     \* it is the public page
    provider,  \* its provider exists
    left,      \* loads of pages that are gone and still wait for an answer
    leaked,    \* where the pages were left whose provider nobody destroys
    replay,    \* the history that this connection gets before SyncStep1
    visits, drops,
    conn, text, added, removed,  \* provider and Y.Doc; changes not yet saved
    server,    \* the document's pieces in the database
    shown, due,
    draft, import                \* localStorage, sessionStorage

editorVars == <<page, guest, provider, left, leaked, visits, drops, conn, text,
                added, removed, server, replay, shown, due, draft, import>>

Piece == LocalEdit \cup PeerEdit \cup {Import}
Conn == {"connecting", "syncing", "live", "readonly", "offline"}

\* The awaits of the two load functions, and how they end: "loaded",
\* "signed out", "failed" (an error page), "stuck" (the first await threw).
Waits == {"me", "document", "list", "comments", "info"}
Ends == {"loaded", "signed out", "failed", "stuck"}

EditorTypeOK ==
    /\ page \in Waits \cup Ends \cup {"none"}
    /\ guest \in BOOLEAN /\ provider \in BOOLEAN /\ import \in BOOLEAN
    /\ left \subseteq Waits /\ leaked \subseteq Waits
    /\ visits \in 0..MaxVisits /\ drops \in 0..MaxDrops
    /\ conn \in Conn
    /\ shown \in [conn : Conn, save : {"saving", "saved", "offline"},
                  text : SUBSET Piece]
    /\ due \subseteq {"draft", "recover"}
    /\ \A pieces \in {text, added, removed, server, replay, draft} :
         pieces \subseteq Piece

\* What recomputeSaveState tells onSaveState.
SaveOf(c, unsaved) ==
    IF c = "offline" THEN "offline"
    ELSE IF c \in {"live", "readonly"} /\ unsaved = {} THEN "saved"
    ELSE "saving"

Cells == [conn |-> conn, save |-> SaveOf(conn, added \cup removed), text |-> text]

NoCells == [conn |-> "connecting", save |-> "saving", text |-> {}]

EditorInit ==
    /\ page = "none" /\ guest = FALSE /\ provider = FALSE
    /\ left = {} /\ leaked = {} /\ visits = 0 /\ drops = 0
    /\ conn = "connecting" /\ text = {} /\ added = {} /\ removed = {}
    /\ server \in {{}, PeerEdit} /\ replay = {}
    /\ shown = NoCells /\ due = {}
    /\ draft = {} /\ import \in BOOLEAN

stored == <<server, draft, import>>
doc == <<conn, text, added, removed, replay>>
view == <<shown, due>>
mount == <<page, guest, provider, left, leaked, visits>>

(***************************************************************************)
(* Mounting, loading, leaving.                                             *)
(***************************************************************************)
OpenPage(g) ==
    /\ page = "none" /\ visits < MaxVisits
    /\ page' = IF g THEN "info" ELSE "me"
    /\ guest' = g /\ visits' = visits + 1
    /\ conn' = "connecting" /\ text' = {} /\ added' = {} /\ removed' = {} /\ replay' = {}
    /\ shown' = NoCells /\ due' = {}
    /\ UNCHANGED <<provider, left, leaked, drops, stored>>

\* The awaits of the editor's load in order; a failing list or a failing
\* prefetch of comments is caught on the spot.
LoadEditor ==
    /\ page \in {"me", "document", "list", "comments"}
    /\ \/ page' = [me |-> "document", document |-> "list", list |-> "comments",
                   comments |-> "loaded"][page]
       \/ page = "me" /\ page' \in {"signed out", "stuck"}
       \/ page = "document" /\ page' = "failed"
    /\ provider' = (provider \/ page = "list")
    /\ UNCHANGED <<guest, left, leaked, visits, drops, doc, view, stored>>

LoadPublic ==
    /\ page = "info"
    /\ \/ page' = "loaded" /\ provider' = TRUE
       \/ page' = "failed" /\ UNCHANGED provider
    /\ UNCHANGED <<guest, left, leaked, visits, drops, doc, view, stored>>

\* The cleanup.  destroy() flushes to an open socket, and keeps nothing of
\* what it could not write; the Y.Doc goes with the page.
Leave ==
    /\ page # "none"
    /\ page' = "none" /\ provider' = FALSE
    /\ left' = left \cup ({page} \cap Waits)
    /\ \/ conn \in {"syncing", "live"} /\ server' = (server \cup added) \ removed
       \/ UNCHANGED server
    /\ conn' = "connecting" /\ text' = {} /\ added' = {} /\ removed' = {} /\ replay' = {}
    /\ shown' = NoCells /\ due' = {}
    /\ UNCHANGED <<guest, leaked, visits, drops, draft, import>>

\* An answer for a page that is gone.  Each await is followed by a look at
\* `alive`, but for the list of documents, which only guards setDocs.
AnswerAfterLeave(w) ==
    /\ w \in left
    /\ left' = left \ {w}
    /\ leaked' = IF w = "list" THEN leaked \cup {w} ELSE leaked
    /\ UNCHANGED <<page, guest, provider, visits, drops, doc, view, stored>>

(***************************************************************************)
(* The provider and the document.                                          *)
(***************************************************************************)
Connect ==
    /\ provider /\ conn \in {"connecting", "offline"}
    /\ conn' = "syncing" /\ replay' = server
    /\ UNCHANGED <<mount, drops, text, added, removed, view, stored>>

Drop ==
    /\ provider /\ conn # "offline" /\ drops < MaxDrops
    /\ conn' = "offline" /\ replay' = {} /\ drops' = drops + 1
    /\ UNCHANGED <<mount, text, added, removed, view, stored>>

Receive ==
    /\ provider /\ conn \in {"syncing", "live", "readonly"}
    /\ text' = text \cup (server \ removed)
    /\ text' # text
    /\ UNCHANGED <<mount, drops, conn, added, removed, replay, view, stored>>

\* SyncStep1 comes after the history that was loaded, and before what others
\* wrote since.
GoLive ==
    /\ provider /\ conn = "syncing" /\ replay \subseteq text \cup removed
    /\ conn' = "live"
    /\ UNCHANGED <<mount, drops, text, added, removed, replay, view, stored>>

\* MSG_READONLY: what was not sent is dropped, and nothing is pending.
GoReadonly ==
    /\ provider /\ conn \in {"syncing", "live"}
    /\ conn' = "readonly" /\ added' = {} /\ removed' = {}
    /\ UNCHANGED <<mount, drops, text, replay, view, stored>>

Persist ==
    /\ provider /\ conn \in {"syncing", "live"} /\ added \cup removed # {}
    /\ server' = (server \cup added) \ removed
    /\ added' = {} /\ removed' = {}
    /\ UNCHANGED <<mount, drops, conn, text, replay, view, draft, import>>

\* The editor of the public page goes by the role of the link, not by the state.
Type(e) ==
    /\ page = "loaded" /\ (shown.conn # "readonly" \/ guest)
    /\ e \notin text \cup server
    /\ text' = text \cup {e}
    /\ added' = IF conn = "readonly" THEN added ELSE added \cup {e}
    /\ UNCHANGED <<mount, drops, conn, removed, replay, view, stored>>

PeerTypes(e) ==
    /\ e \notin server
    /\ server' = server \cup {e}
    /\ UNCHANGED <<mount, drops, doc, view, draft, import>>

(***************************************************************************)
(* React.  A render takes the cells; before the next one the effects whose *)
(* dependencies changed run, in the order they are written in.             *)
(***************************************************************************)
Render ==
    /\ page # "none" /\ due = {} /\ shown # Cells
    /\ shown' = Cells
    /\ due' = IF guest THEN {}
              ELSE (IF <<shown.text, shown.save>> # <<Cells.text, Cells.save>>
                    THEN {"draft"} ELSE {})
                   \cup (IF shown.conn # conn THEN {"recover"} ELSE {})
    /\ UNCHANGED <<mount, drops, doc, stored>>

\* Mutant: a draft is kept until somebody has been asked about it.
DraftEffectOnce ==
    IF "draft" \notin due THEN draft
    ELSE IF shown.save = "saved" THEN {}
    ELSE IF shown.text # {} /\ draft = {} THEN shown.text
    ELSE draft

DraftEffect ==
    IF "draft" \notin due THEN draft
    ELSE IF shown.save = "saved" THEN {}
    ELSE IF shown.text # {} THEN shown.text
    ELSE draft

WentLive == "recover" \in due /\ shown.conn = "live"

ImportEffect == IF WentLive /\ import /\ text = {} THEN {Import} ELSE text

\* The prompt appears for a draft that is not the text at this moment.
Offered == WentLive /\ DraftEffect # {} /\ DraftEffect # ImportEffect

RunEffects(accept) ==
    /\ due # {}
    /\ due' = {}
    /\ import' = (import /\ ~WentLive)
    /\ accept => Offered
    /\ IF accept
       THEN /\ text' = DraftEffect
            /\ added' = added \cup (text' \ text)
            /\ removed' = removed \cup (text \ text')
            /\ draft' = DraftEffect
       ELSE /\ text' = ImportEffect
            /\ added' = added \cup (text' \ text)
            /\ draft' = IF Offered THEN {} ELSE DraftEffect
            /\ UNCHANGED removed
    /\ UNCHANGED <<mount, drops, conn, replay, shown, server>>

EditorNext ==
    \/ \E g \in BOOLEAN : OpenPage(g)
    \/ LoadEditor \/ LoadPublic \/ Leave
    \/ \E w \in left : AnswerAfterLeave(w)
    \/ Connect \/ Drop \/ Receive \/ GoLive \/ GoReadonly \/ Persist
    \/ \E e \in LocalEdit : Type(e)
    \/ \E e \in PeerEdit : PeerTypes(e)
    \/ Render
    \/ \E accept \in BOOLEAN : RunEffects(accept)

EditorSpec == EditorInit /\ [][EditorNext]_editorVars

(***************************************************************************)
(* Properties.                                                             *)
(***************************************************************************)

\* Between renders, once the effects ran and nothing changed since, localStorage
\* holds the text on the screen exactly while the server does not have all of it:
\* a tab that crashes now leaves what was typed behind, and nothing that is saved
\* is offered for recovery (page.tsx, 621-657).  An empty text leaves the draft
\* that was there.  The draft is of the page as it stands: a page opened again
\* writes the text replayed so far over the one it finds, before it is live.
DraftIsTheUnsavedText ==
    page # "none" /\ ~guest /\ due = {} /\ shown = Cells =>
        /\ shown.save = "saved" => draft = {}
        /\ shown.save # "saved" /\ text # {} => draft = text

\* Accepting a recovered draft replaces the whole text.  It takes a piece that
\* somebody else wrote out of the document only if that piece arrived between
\* the render and its effects (page.tsx, 621-657).
PeersSurvive ==
    page # "none" /\ page' = page /\ (text \ text') \cap PeerEdit # {}
      => text # shown.text
=============================================================================
