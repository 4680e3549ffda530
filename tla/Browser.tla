------------------------------ MODULE Browser ------------------------------
(***************************************************************************)
(* The web app in one browser.  What its pages and dialogs do is specified *)
(* module by module; here they stand side by side, and `scene' says which  *)
(* of them a behaviour uses: the page of a document as it is loaded and    *)
(* left, the comments, the two halves of the share dialog, the dashboard,  *)
(* history and export, what is anchored to the text, the session of the    *)
(* tabs, or the text tools.  A scene has the whole browser to itself and   *)
(* the rest stays as it was when the page opened, so that what is shared,  *)
(* the calls to the API and the lists they fill (Calls), is one set of     *)
(* variables for the four scenes that use it.                              *)
(***************************************************************************)
EXTENDS Integers, Panels

CONSTANTS
    LocalEdit, PeerEdit, Import, MaxVisits, MaxDrops,       \* EditorPage
    MaxAsks, MaxAsksAtOnce, MaxEdits, MaxShows,             \* Versions
    Length, MaxChanges, MaxBatches, MaxFiles, BlamePage,    \* Anchors
    Tab, MaxGrants, MaxFlights,                             \* Session
    Group, Word, MaxCells, MaxPayload, MaxLines, MaxUpdates \* Algorithms

VARIABLES
    scene,
    page, guest, provider, left, leaked, visits, drops, conn, text, added, removed,
    server, replay, shown, due, draft, import,
    content, versions, asks, asked, history, export, publish, late, threw,
    items, fresh, changes, logged, anchor, uploads, batches, pickedAt, readOnly, blame, used,
    cookie, latest, issued, near, expired, session, flights, flown, out, failing, muddled,
    tool, given, result

E == INSTANCE EditorPage
V == INSTANCE Versions WITH body <- content
A == INSTANCE Anchors WITH tool <- used
G == INSTANCE Session
T == INSTANCE Algorithms

ASSUME BrowserAssumption ==
    /\ E!EditorAssumption /\ PanelsAssumption
    /\ V!VersionsAssumption /\ A!AnchorsAssumption /\ G!SessionAssumption
    /\ T!CodecAssumption

editorVars == <<page, guest, provider, left, leaked, visits, drops, conn, text,
                added, removed, server, replay, shown, due, draft, import>>
versionVars == <<content, versions, asks, asked, history, export, publish, late, threw>>
anchorVars == <<items, fresh, changes, logged, anchor, uploads, batches, pickedAt, readOnly,
                blame, used>>
sessionVars == <<cookie, latest, issued, near, expired, session, flights, flown, out,
                 failing, muddled>>
algorithmVars == <<tool, given, result>>

browserVars == <<scene, callVars, editorVars, commentVars, shareVars, linkVars, dashVars,
                 versionVars, anchorVars, sessionVars, algorithmVars>>

(***************************************************************************)
(* One scene starts as its module says, the others are idle.               *)
(***************************************************************************)
Scene == {"editor", "comments", "share", "links", "dashboard", "versions", "anchors",
          "session", "tools"}

NoCalls == CallsInit(Empty)

EditorIdle == E!EditorInit /\ import = FALSE /\ server = {}
VersionsIdle == V!VersionsIdle /\ versions = <<>>
AnchorsIdle == A!AnchorIdle /\ used = "comment"

BrowserInit ==
    /\ scene \in Scene
    /\ IF scene = "editor" THEN E!EditorInit ELSE EditorIdle
    /\ IF scene = "comments" THEN CommentsInit ELSE CommentsIdle
    /\ IF scene = "share" THEN ShareInit ELSE ShareIdle /\ owner = FALSE
    /\ IF scene = "links" THEN LinksInit ELSE LinksIdle
    /\ IF scene = "dashboard" THEN DashInit ELSE DashIdle
    /\ IF scene \in {"comments", "share", "links", "dashboard"} THEN TRUE ELSE NoCalls
    /\ IF scene = "versions" THEN V!VersionsInit ELSE VersionsIdle
    /\ IF scene = "anchors" THEN A!AnchorInit ELSE AnchorsIdle
    /\ IF scene = "session" THEN G!SessionInit ELSE G!SessionIdle
    /\ IF scene = "tools" THEN T!AlgorithmInit ELSE T!AlgorithmIdle

EditorScene ==
    /\ scene = "editor" /\ E!EditorNext
    /\ UNCHANGED <<scene, callVars, commentVars, shareVars, linkVars, dashVars,
                   versionVars, anchorVars, sessionVars, algorithmVars>>

CommentsScene ==
    /\ scene = "comments" /\ CommentsNext
    /\ UNCHANGED <<scene, editorVars, shareVars, linkVars, dashVars, versionVars,
                   anchorVars, sessionVars, algorithmVars>>

ShareScene ==
    /\ scene = "share" /\ ShareNext
    /\ UNCHANGED <<scene, editorVars, commentVars, linkVars, dashVars, versionVars,
                   anchorVars, sessionVars, algorithmVars>>

LinksScene ==
    /\ scene = "links" /\ LinksNext
    /\ UNCHANGED <<scene, editorVars, commentVars, shareVars, dashVars, versionVars,
                   anchorVars, sessionVars, algorithmVars>>

DashboardScene ==
    /\ scene = "dashboard" /\ DashNext
    /\ UNCHANGED <<scene, editorVars, commentVars, shareVars, linkVars, versionVars,
                   anchorVars, sessionVars, algorithmVars>>

VersionsScene ==
    /\ scene = "versions" /\ V!VersionsNext
    /\ UNCHANGED <<scene, callVars, editorVars, commentVars, shareVars, linkVars,
                   dashVars, anchorVars, sessionVars, algorithmVars>>

AnchorsScene ==
    /\ scene = "anchors" /\ A!AnchorNext
    /\ UNCHANGED <<scene, callVars, editorVars, commentVars, shareVars, linkVars,
                   dashVars, versionVars, sessionVars, algorithmVars>>

SessionScene ==
    /\ scene = "session" /\ G!SessionNext
    /\ UNCHANGED <<scene, callVars, editorVars, commentVars, shareVars, linkVars,
                   dashVars, versionVars, anchorVars, algorithmVars>>

ToolsScene ==
    /\ scene = "tools" /\ T!AlgorithmNext
    /\ UNCHANGED <<scene, callVars, editorVars, commentVars, shareVars, linkVars,
                   dashVars, versionVars, anchorVars, sessionVars>>

BrowserNext ==
    \/ EditorScene \/ CommentsScene \/ ShareScene \/ LinksScene \/ DashboardScene
    \/ VersionsScene \/ AnchorsScene \/ SessionScene \/ ToolsScene

BrowserSpec == BrowserInit /\ [][BrowserNext]_browserVars

(***************************************************************************)
(* Properties, of one scene each but for the first two.                    *)
(***************************************************************************)

\* Every value has its type; idle scenes included.
BrowserTypeOK ==
    /\ scene \in Scene
    /\ E!EditorTypeOK /\ PanelsTypeOK
    /\ V!VersionsTypeOK /\ A!AnchorTypeOK /\ G!SessionTypeOK

\* Comments, members, invites, requests, share links and documents: once all
\* calls are answered, the list on the screen is the one in the database,
\* however the page's own calls overlapped and failed, but for the overlaps
\* that Calls names (page.tsx 396-453, ShareModal.tsx 41-169, ShareLinksPanel
\* 27-75, app/page.tsx 53-161).
SettledListsMatch ==
    CASE scene = "comments"  -> Settled("comments")
      [] scene = "share"     -> ShareSettled
      [] scene = "links"     -> LinksSettled
      [] scene = "dashboard" -> DashSettled
      [] OTHER -> TRUE

\* A search that no call is under way for has its list (app/page.tsx 53-79), and a
\* busy button of the export dialog has a call under way, unless the fetch or the
\* reading of the file threw (ExportModal.tsx 49-134).
WaitingEnds == SearchEnds /\ V!ExportEnds

\* What is typed and not saved is in the browser's storage once the effects of
\* the last render ran, and nothing that is saved (page.tsx 621-657).
DraftIsTheUnsavedText == E!DraftIsTheUnsavedText

\* Recovering a draft takes nothing out that others wrote and the user saw
\* (page.tsx 621-657).
PeersSurviveRecovery == [][E!PeersSurvive]_editorVars

\* Text typed for a comment is cancelled, becomes one, or is cleared by the answer
\* that made an earlier text one (page.tsx 410-430).
TypedCommentSurvives == [][TypedTextSurvives]_<<callVars, commentVars>>

\* The history dialog shows the version that is selected, or one whose body was on
\* the screen or under way when that was chosen (HistoryPanel.tsx 35-100), and the
\* blame is not older than the moment it was switched on (d/[id]/page.tsx 584-602).
ShownIsWhatWasAsked == V!HistoryShowsItsSelection /\ A!BlameIsFresh

\* A comment resolves to the text it was made on, whatever was typed around it
\* since (commentAnchors.ts 41-112).
CommentsFollowTheirText == A!CommentsFollowTheirText

\* An upload replaces its own placeholder and no other text (EditorAssets 48-89).
UploadsTouchOnlyTheirPlaceholder == [][A!EndsOnlyItsPlaceholder]_anchorVars

\* Using the app signs nobody out but by a failing call to the provider, and who
\* signs out is out; unless calls overlapped or got lost (auth.ts 19-66).
SessionsAreKept == G!StaysSignedIn /\ G!SignOutSticks

\* The tools compute what they are for: what the codec writes it reads back,
\* whole and nothing else (codec.ts), a diff keeps both texts (lineDiff.ts),
\* blame names the author of every character (blame.ts), and a highlight covers
\* the text that was asked for (previewHighlight.ts).
ToolsAreExact ==
    T!CodecRoundTrips /\ T!DiffIsExact /\ T!BlameIsExact /\ T!HighlightIsExact
=============================================================================
