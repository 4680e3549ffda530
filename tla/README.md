# SyncScribe, modelled and checked

SyncScribe is a collaborative Markdown editor: a Go server relays Yjs updates between browsers over
WebSockets, keeps them in PostgreSQL as an append-only log per document, and shares documents by roles,
invites, requests and links. This directory holds TLA+ modules of the server, of the
client package and of the web app, TLC configurations that check them on small instances, and proofs for
every instance. It is written against the sources; the table in `PROJECT.json` ("map") says which lines
each definition stands for.

All paths below are relative to the repository.

## 1. Inventory

| Part | Where | State | Operations | What makes it correct |
|---|---|---|---|---|
| Session registry, connection lifecycle | `apps/api/internal/sync` `hub.go`, `handler.go`, `limits.go`, `conn.go` | `h.sessions`, `s.clients`, `s.done`, `ipRegistry.conns`; one goroutine per read pump, write pump, handler and loop | join, register, unregister, detach, acquire, release | nobody is in a session whose loop stopped; an empty session is closed; slots count connections; one session per document |
| Document data path | `hub.go` loop and broadcast, `conn.go`, `store/updates.go`, `protocol.go` | `incoming`, `conn.send`, table `document_updates` | accept, drop, refuse, append, ack, broadcast, load, replay, RESYNC | nothing is told that is not durable; no gap between replay and fan-out; acks arrive; a live client is caught up |
| Write access of live connections | `hub.go` SetWriteAccess, `server/access.go`, `access_requests.go`, `share_links.go` | `conn.canWrite` against the role in the database | role check, join, commit, walk | a live connection writes exactly if its user may |
| Browser sync client | `packages/client/src/sync-client.ts`, `apps/web/app/lib/auth.ts` | socket, outbox, debounced updates, timers, `pendingSaves`, `saveState` | the callbacks of socket, document, timers and token | no edit is forgotten, `saved` is true, `saving` ends, the client comes back |
| Sharing | `store/access.go`, `invites.go`, `access_requests.go`, `users.go`, `share_links.go`, `web/app/invites/[token]` | tables `users`, `document_access`, `document_invites`, `document_access_requests`, `document_share_links` | grant, revoke, invite, resend, claim, request, resolve, sign in | an invite has one open successor; a used invite gave its role; signing in works |
| History | `store/snapshots.go`, `retention.go`, `attribution.go` | `document_snapshots`, prefix of `document_updates`, `current_version` | snapshot, restore, retention pass | what is pruned is covered by a snapshot; versions do not clash |
| Cross-node relay | `sync/broker.go`, `hub.go` brokerLoop | Redis channel per document, bounded receive channel | publish, deliver, drop | a node's clients see other nodes' updates, or can tell they did not |
| Awareness | `sync/awareness.go`, `conn.go`, `sync-client.ts`, `web/app/lib/presence.ts` | remembered clocks of a connection, clocks and states in each client | renew, relay, time out, remove on disconnect | who is here is seen, who left is not; clocks never run away |
| Rate limiting | `limits.go` | tokens and time of last refill | take | never more than rate and burst |
| Activity and event stream | `store/activity.go`, `server/events.go` | sequence ids, cursor of a stream | record, poll | a stream, cut and resumed, misses nothing that was visible in time |
| Comments, assets | `store/comments.go`, `assets.go`, their handlers; `CommentsPanel.tsx`, `commentAnchors.ts`, `EditorAssets.tsx` | rows; list, popup, anchors and placeholders in the browser | create, resolve, delete, upload | the list settles on the rows; typed text is not lost; anchors and placeholders stay in place |
| Authentication | `internal/auth`, `web/app/lib/auth.ts` | signed cookies, a token in the browser | login, callback, refresh, logout | using the app signs nobody out, signing out does |
| Codec, blame, diff, highlight | `packages/client/src/codec.ts`, `blame.ts`, `web/app/lib/lineDiff.ts`, `previewHighlight.ts` | none | pure functions | decode inverts encode; a diff keeps both texts; blame names the author; a highlight covers its text |
| Web app | `web/app/page.tsx`, `d/[id]/page.tsx`, `p/[token]/page.tsx` and their panels | React state: lists, dialogs, calls in flight; drafts and imports in the browser's storage | load, leave, fetch, change, recover, export, publish | drafts hold what is not saved; lists settle; what is shown was asked for; nobody waits in vain |
| Plumbing, scripts | `httpx`, `config`, `cmd`, `load-tests`, `infra` | none of their own | | |

How they interact. A browser's `SyncClient` opens a socket; `ServeHTTP` takes an IP slot, finds the
principal and the role, joins the document's `docSession`, loads the update log, replays it and starts
the pumps. Batches the client sends go through `acceptUpdate` into `incoming`; one `loop` goroutine per
session appends each to `document_updates`, acks the origin, broadcasts to the other clients and
publishes to the other nodes. The REST handlers change roles in the database and then call
`Hub.SetWriteAccess` on the live connections. Retention shortens the log that the replay reads. The pages
of the web app fetch lists over the REST API, apply the answers to their state when they arrive, and own
the `SyncProvider` around the client.

What is hard here: `left` is computed under one mutex and used under another; the loop of a closed
session overlaps with its successor's; a role is read long before it is used; a history is loaded while
updates are committed and broadcast; buffers are bounded and the two kinds of overflow are treated
differently; an ack is a number to count, without a name; sockets, tokens and timers end in every order;
several handlers are sequences of statements without a transaction; a page keeps what it read before an
`await` and uses it after the user has moved on; offsets into a text that others type in go stale. The
hazards in `PROJECT.json` list these at their lines, with the properties that watch them.

## 2. Modules

| Modules | What they model |
|---|---|
| `Hub` <- `DocSession` (-> `DurableLog`), `Hub` <- `WriteAccess` | one API node, live connections |
| `SyncClient` <- `SaveProtocol`; `Presence` | the browser client against a server; who sees whom |
| `History` | snapshots, retention, attribution |
| `Sharing`, `Relay`, `Activity` <- `Server` | invites; two nodes; the event stream |
| `EditorPage`, `Calls` <- (`Comments`, `ShareDialog`, `ShareLinks`, `Dashboard`) <- `Panels`, `Versions`, `Anchors`, `Session`, (`Codec`, `TextTools`) <- `Algorithms`; all in `Browser` | the web app |

An arrow `<-` is EXTENDS: the right module composes its own state with the steps of the left one. `->` is
refinement. `Browser` extends `Panels` and takes its other parts with INSTANCE, since some of their variables
and operators have the same names.

**Hub** models the registry for one document. `h.sessions` is a map by document and no step reads
another document's entry, so `registry` is the one entry. A session is a Go object that outlives its
entry, hence the set `Session` of identities and `status` for "not yet created", "`done` open" and
"`done` closed". Each action is one critical section: `Join` is `Hub.join` with its `register`;
`Unregister` is the section of `s.mu`, whose caller is the handler (`LoadFails`) or the read pump
(`ReadPumpEnds`); `DetachBusy` and `DetachLast` are the two outcomes of the section of `h.mu`, and
`DetachAgainInHandler`/`DetachAgainInPump` are what a second `close(s.done)` does: a panic that the HTTP
recoverer catches (and that leaves the slot taken), or one that nothing catches, after which the process
restarts. `pc` is where the goroutine that owns a connection stands.

**DocSession** adds the data path. `incoming`, `loop`, `stream` and `written` are the channel, the
loop's local state and `conn.send` (the frames after `written`). `AppendUpdate` reads `MAX(seq)` and
inserts in one statement; two statements for one document may both read before one commits, so
`LoopTakes` remembers the length it read and the insert fails on the primary key when it is out of date.
`AppendFails` is also any database error, `AppendCommitsUnseen` a commit whose answer is lost. A full
`conn.send` drops the frame and closes the socket (`Enqueue`), a full `incoming` drops the update and
says nothing (`DropOnFullIncoming`).

**DurableLog** is what the server promises: a log that only grows and never repeats an update, and
clients that are told only of what is in it. DocSession implements it under
`log <- the updates of store`, `told <- Told(c)`; the run `doc_session_live` checks it and
`DocSessionProofs` proves it. It is the promise between two retention passes: `store/retention.go:103-111`
deletes rows, which only History models.

**WriteAccess** adds to Hub the role of each principal, the handler's copy of it (`resolved`),
`conn.canWrite` and the calls that change roles. A call commits, looks up the session under `h.mu` and
walks its clients under `s.mu`: three steps. A read pump that refuses an update loads `canWrite` and then
stores false, under no lock (`conn.go:245-247`): two steps (`LoadCanWrite`, `StoreReadonly`), and a promotion
that comes between them is undone. `stale` is history: which of four named reasons may have left a
connection's right out of date, of the connections whose handler has read the role. They are an overlap of
two changes (or of a change and a role check), a lookup in the window between role check and join, a change
that does not tell the hub, and the refused update. A walk that sets what the database says clears them.

**SyncClient** is the browser client; each JavaScript callback is one action. A batch is the set of
edits `Y.mergeUpdates` merged. **SaveProtocol** composes it with a socket and with as much of the server
as a client can tell: accept, drop, refuse, persist and ack, fail, demote, promote, and batches that were
accepted from a socket that is gone (`orphans`).

**History** models what remains of one document's past. A snapshot's body is the set of updates its
author's tab held when it sent its text: a tab gets what the log holds when it opens and every later
update in order, so the body is a range of updates, and `openings` remembers where such ranges can
begin. `PutSnapshot` is a transaction whose first statement locks the document's row, so `PutLock`,
`PutCount` and `PutCommit` are separate steps between which updates are appended (`AppendUpdate` takes
no such lock). A retention pass lists, deletes one by one, and prunes: `ListExcess`, `DeleteSnapshot`
and `PruneUpdates`, per API process. `emptied` is history: the log has lost its last row.

### The server between requests and between nodes

**Sharing** has one action per statement of the handlers that deal with invites: a handler is a record of
what it does next, and two of them interleave. `CreateInvite` inserts, and if the person has an account
`GrantThenMark` are its two further statements; `ResendInvite` reads, and `Resend` revokes, then creates;
`UpsertUser` inserts the person, then `ClaimPendingInvites` is its second statement; `ClaimInvite` is a
transaction and so a single step. `HandlerFails` ends a request before any of its statements.
A row of the table never goes away, so an invite is its position; a resend keeps its `origin`. The page
an invite link opens (`invites/[token]/page.tsx`) signs in first and claims second.

**Relay** puts two nodes over one log. A publication is one goroutine's (`wire` is a set, so they
overtake one another), may fail, and waits in the bounded `received` on the other side, where a full
channel drops it. `brokerLoop` looks a session up, and broadcasts to it in a later step. Inserts of two
nodes collide on `MAX(seq)+1` exactly as those of two sessions do, a database may refuse one
(`AppendIsRefused`), and one may commit without the loop learning of it (`AppendIsUnseen`), after which
nobody publishes it. Who leaves a session unregisters and, in a later step, detaches it (`UnregisterFrom`,
`Detach`), so of two leavers the second may delete the entry of the successor (`DetachAgain`, as in Hub).
`lost` is history: the updates whose publication did not arrive or was never made. So are `twice`, the nodes
on which a session was detached again, and `missed`, what a node looked up while a connection was in a
session its registry did not have.

**Activity** separates taking an id from committing the row, as a sequence does, and models the stream
with its cursor, its batches, and a consumer that reconnects with `since`. `late` is history: rows that
became visible behind the cursor.

**Server** puts the three side by side. They share no state, and `part` says which one a behaviour is
about.

**Presence** is y-protocols awareness as the client package uses it: each client numbers its states, the
node remembers the clocks each connection has sent and makes up a removal for each when the connection
ends. Frames to a client are a queue, the session's awareness channel is bounded, the node may take a
connection for alive when its client has already another. A client may forget another at any time
(`Forget`; the 30 s of y-protocols are external and no clock is modelled). `news` and `missed` are history: when a client
last renewed, and who was not there to hear of a removal.

### The web app

Each module takes the callbacks of one page or dialog: a click, an answer that arrives, an effect, a
timer. A callback that awaits is split at the await, and what it captured before is part of the call.

**Calls** are the requests the lists need: in flight together, served in any order, answered in any
order, refused, or served with the answer lost. `unsure` is history: the tables whose list may be off
until the next listing, because a listing overlapped with a change, or two changes of one row did, or an
answer was lost. A listing answers with all rows of its table; of the documents, Dashboard takes the page that
the server would have sent. **Comments**, **ShareDialog**, **ShareLinks** and **Dashboard** say which calls a panel
makes, when its buttons are disabled, and what it does with each answer; **Panels** puts the four side by
side over one `Calls`. In Dashboard a page is `PageSize` of the documents that the query finds (the code asks
for 50), any of them, since the order is by last change; `cut` says that there were more.

**EditorPage** is the load of a document page, the moment it creates its provider, and the effects that
restore drafts and imports; React's render and its effects are separate steps. A text is the set of pieces
it shows. `replay` is the history the connection gets: SyncStep1, and with it `live`, comes after that and
before what others wrote since.

**Versions** has the history dialog, the export dialog and the publish button over the list of published
versions. A text is a number. **Anchors** has the text as a list of items with tombstones, the anchor of a
comment (which names items), the placeholders of uploads, the file dialog and the blame (which remember
offsets). A row of the attribution log is an edit that the server has committed (`EditLogged`), and the blame
makes one call, which brings the first `BlamePage` rows (500 in the code) and nothing unsaved. `moved`,
`late` (whose body a fetch under way may still show), `threw` (a fetch or the reading of a file threw) and,
of Session, `muddled` and `failing` are history of the same kind as `unsure`. In Browser the `body` of
Versions is `content`. Every caller of `uploadAndInsertImagesMonaco` passes an offset, so its other
branch, the cursor, is not modelled.

**Session** has the tabs of one browser: each holds an access token, they share the cookie, and the
identity provider honours the refresh token of the latest grant only. A refresh or logout is sent, served
and answered in separate steps. A call of the server to the provider may fail, before or after the provider
has taken the grant, and then the server clears the cookie (`failing`). That the cookie ends by itself
after its lifetime is not modelled.

**Algorithms** runs the pure functions: every value of the codec up to the word size, every pair of texts
up to `MaxLines`, every sequence of `MaxUpdates` updates for blame, every highlight; the properties
compare them to reference definitions that say what the result must be, not how it is computed.
**Codec** is written for any group and word size, **TextTools** for lines and characters of any kind.

**Browser** holds all of their variables and one extra, `scene`: a behaviour is about one page, dialog or
tool, and the idle rest has its initial value. The parts do not act on one another in the code either,
but for `Calls`, which four of them share.

### The rest

`MCHub`, `MCDocSession`, `MCWriteAccess`, `MCHistory`, `MCPresence`, `MCServer` and `MCSharing` give the
function-valued constants values and define symmetries for the runs that check invariants only.
The proofs are in modules of their own, each of which extends the module it is about:
`HubProofs` <- `DocSessionProofs`, `HubProofs` <- `WriteAccessProofs`, `SaveProtocolProofs`,
`HistoryProofs`, `ServerProofs`, `PresenceProofs` and `BrowserProofs`.

Abstractions that hold everywhere: the content of an update is its identity (a number), since the server
never parses one; wording, status codes and logging are left out; a database statement is one step.
History variables record what happened and are read by properties only; no action's guard uses one.

## 3. Runs

| Run | Asks | Instance, and why it is enough |
|---|---|---|
| `hub` | Is anybody ever in a session whose loop was stopped? Does every emptied session have somebody who will detach it, and is it detached? Are the slots exact on every way out? | 4 connections, 3 sessions, 2 addresses, 2 slots per address. Two leavers of one session, a joiner between them and a fourth that turns the session over; one address at its cap while the other is not. |
| `hub_one_session` | Can a document have two sessions with clients? | 4 connections, 4 sessions. Yes, see section 4. |
| `doc_session` | Is a client ever told of what is not durable? Does an update slip between registration, load and replay? | 3 connections (2 may write) of which 2 at a time, 2 sessions, 2 updates, `incoming` of 1, buffers of 2 frames, failing and unseen commits. A second update, a full channel, a full buffer and a second session all occur. |
| `doc_session_live` | Does the node implement `DurableLog`? Is a queued update acked? | 2 connections, an `incoming` of 2, no database faults (an ack is not promised with them). No symmetry, since it checks liveness and refinement. |
| `save_protocol` | Is an edit lost inside the client? Is `saved` true of what was sent on this socket? Do edits leave, does `saving` end? | 3 edits (one debounced, one queued, one sent), 2 lost sockets, 2 changes of role, failing token requests and a server that drops and fails. |
| `save_protocol_saved` | Is `saved` true of every local edit? | 1 edit, 1 lost socket, no faults. No. |
| `write_access` | When is a connection's right to write out of date? | 2 connections of a member and a guest, 2 changes through the hub, 1 silent one. Two changes are needed to overlap; a refused update may stand between load and store all the while. |
| `history` | Do versions follow the log, do the newest snapshots and what came after them stay, does paging miss nothing? | 2 publishers (one waits for the other's lock), 2 API processes (one works from an old listing), 3 versions of which 1 is kept, pages of 1 row, 2 updates. |
| `presence` | Do clocks stay together, are two renewals enough to be seen again, does anybody keep seeing one who left? | 2 clients, 3 connections, 2 renewals, 1 fault, a channel of 2. A client, its old connection the node still holds and a peer; a removal that overtakes the renewal. |
| `server` | Is an invite's line of resends open once at most? Did a used invite give its role? Do updates reach the other node unless their publication was lost or never made, or a session was detached twice? Does the event stream skip only late rows? | 1 person, 3 invites, 2 requests at once (an invite, a resend and a third); a writer on one node and 3 connections on the other (two that leave at once and one that joins the successor), 2 updates, 2 sessions per node, 1 restart, a receive channel of 1 (full and overtaken publications); the constraint `OneExtra` lets a behaviour have one of the second update, the fourth connection and the restart, not two of them; 4 events in batches of 1, 2 streams. |
| `sharing_invited_twice` | May `UpsertUser` be called on every request? | 1 person, 3 invites, 2 requests. No. |
| `browser` | Do lists settle on the database? Is anything waited for in vain? Is what is shown what was asked for? Do anchors and placeholders keep their place? Does the draft hold what is not saved, does recovery remove a peer's text, a popup lose what was typed, a refresh sign the user out? Are the tools exact? | 4 calls of which 2 at a time (a change, a listing that overlaps, a second change and the listing that settles), a page of 1 document; 2 visits, 1 lost connection, 2 texts, 3 comment calls, 2 openings of each dialog, 6 asks of which 2 at a time, 2 edits in a text of 2 items around a batch of 2 files, a blame page of 1 row; 2 tabs and 3 grants (one refresh too many); the codec with groups of 2 bits in words of 5, for 7 and 32: three groups of which the last is not full, as there; 4 lines, blame over 3 updates. |

Every bound is a CONSTANT and appears in a guard: connections are used once (`Conn`), sessions are never
reused (`Session`), and the `Max...` constants count the steps of the environment. Where a session runs
out, `Join` is disabled; the runs have one more session than the interesting case needs. Each property
has a mutant in `PROJECT.json`: a change of one definition, of the kind a bug would make, that violates
the property under the run's own configuration. The runs of `browser` and `server` are the
largest: some million states each, two and four minutes with two workers.

Deadlock is not checked where the modelled behaviour may end: a client that was told to stop, pages whose
bounds are used up.

## 4. What the checks found

Three runs check a promise of the repository's docs and have a counterexample.

1. *A document can have two sessions* (`hub_one_session`). Two connections leave one session; both see it
   empty because `left` is computed under `s.mu` and used later under `h.mu`. The first detach closes the
   session, a new connection creates another, and the second detach deletes that one's entry, by document
   id, before it panics on the closed channel. If it runs in the handler the panic is recovered, and
   everybody who joins from then on is in a third session and never sees the second's updates.
2. *`saved` is not true of every edit* (`save_protocol_saved`). The client keeps nothing of what it wrote
   to the socket and recounts `pendingSaves` from the outbox when it reconnects: a batch that was in
   flight is neither resent nor counted.
3. *Signing in may fail for somebody who was invited twice* (`sharing_invited_twice`). Nothing keeps an
   owner from inviting one address twice. `UpsertUser` claims all that is pending in one
   `INSERT ... SELECT ... ON CONFLICT DO UPDATE`, which PostgreSQL refuses when it proposes one row twice
   (`users.go:58`; `users.go:20` says "Idempotent").

Five more definitions state promises that do not hold. They are kept in their modules and not run; each
has a short counterexample with the constants given.

| Definition | What happens | To see it |
|---|---|---|
| `LiveIsCaughtUp` (DocSession) | The loop of a closed session may still be appending. What it commits after the new session's client loaded the history goes to the old session's clients: nobody. (It does reach the other nodes.) | `MCDocSession.cfg` with `ConnsPerIP = 3`, `OutboundCap = 3`, `StoreFaults = FALSE`, no symmetry |
| `LostSocketsComeBack` (SaveProtocol) | `connect()` awaits the token without a catch, so one failed request ends the reconnecting. | PROPERTY of `FairSpec`; `MaxEdits = 1`, `MaxCloses = 1`, `MaxRoleChanges = 0`, `ServerFaults = FALSE`, `TokenFaults = TRUE` |
| `RevokedWritersGoReadonly` (WriteAccess) | The connection whose handler resolved the role before the change and registers after `SetWriteAccess` has looked keeps its right. | `Conn = {c1, c3}`, `visitor = c3`, `Change = {k1}`, `MaxSilent = 0` |
| `DeletedUpdatesAreCovered` (History) | `last_seq` is the end of the log when the snapshot is inserted, not the last update in its text, which comes from a tab, or from an old version when it is a restore. Pruning may take what no snapshot holds, and no code loads a snapshot into a document. | `Author = {a1}`, `Node = {n1}`, `PageSize = 2`, `MaxVersions = 2` |
| `InvitePageAccepts` (Sharing) | The page calls `fetchMe`, which signs in and claims every pending invite; then it claims the invite of the link, which is claimed, and says that it has expired or was used, though the role is there. | `SharingSpec` with `MCSharingTwice.cfg` |

Further behaviours the models need and do not claim as findings:

- An append may commit though its answer was lost, so an unacked update may be durable
  (`AppendCommitsUnseen`). A log that retention has emptied numbers its rows from 1 again, which is why
  three properties of History hold until `emptied`.
- A silent change of role (claiming an invite, resending one, revoking a link, deleting a document) never
  reaches the live connections, which `stale` names.
- Two nodes that insert at once collide on the primary key: one update is neither stored nor acked nor
  resent. `infra/lb/README.md` calls round-robin over nodes correct.
- A client that returns is hidden from its peers until it has renewed its state twice at most
  (`TwoStatesAreEnough`), when the node's removal of its old connection used its next clock.

What the web app loses. The models have each of these cases; the property near it names it as an exception
(or there is none), so that the rest of what it says can be checked.

| Where | What happens | In the models |
|---|---|---|
| `d/[id]/page.tsx:206-223` | A page that is left while it waits for the list of documents still creates its provider, and nobody destroys it: a socket and its reconnects stay for as long as the tab does. | EditorPage, `AnswerAfterLeave`, `leaked`; no property |
| `ExportModal.tsx:99`, `113` | If the fetch of the export or the reading of the file throws, nobody catches it and the buttons stay disabled until the page is left. A throw in the retry (103) is caught. | Versions, `Exported`; `ExportEnds` excuses `threw` |
| `d/[id]/page.tsx:422-424` | The answer that a comment was created clears the popup whatever is in it by then: text that was changed, or typed into a popup opened since, is lost. | Comments, `CommentCreated`; an exception of `TypedTextSurvives` |
| `HistoryPanel.tsx:47`, `77` | Of two versions chosen in a row the first may be answered last, and is shown with the number of the second, which "Restore" restores. | Versions, `SnapshotChosen`; `HistoryShowsItsSelection` excuses `late` |
| `web/app/lib/auth.ts:32` | Two tabs that refresh at once may sign the user out when the provider rotates refresh tokens, and so may a lost answer; a refresh answered after a logout in another tab may bring the cookie back. | Session; its properties excuse `muddled` |
| `auth/handler.go:216-224` | Any failure of the call to the provider, a timeout as well as a refusal, clears the cookie. | Session, `ServeRefresh`; `StaysSignedIn` excuses `failing` |
| `d/[id]/page.tsx:621-628` | A page opened again writes the text replayed so far over the draft of the earlier visit before it is live and would offer it, so "local browser draft recovery" (`PLAN.md:395`) works only for a draft that nothing was replayed before. | EditorPage, `RunEffects`; `DraftIsTheUnsavedText` speaks of the page as it stands |
| `web/app/page.tsx:58` | The dashboard asks for 50 documents once; of more, the others can be found by searching only. | Dashboard, `Pages`; `DashSettled` compares what is on the screen |
| `d/[id]/page.tsx:594`, `store/attribution.go:43-46` | The blame makes one call and shows the first 500 rows of the log only. | Anchors, `ServeBlame`; `BlameIsFresh` says as much |
| `EditorAssets.tsx:64-66` | The end of an upload replaces text by an offset that is wrong after edits in front of it. | Anchors; `EndsOnlyItsPlaceholder` excuses `moved` |
| the panels' lists | They may show what the database no longer has, or lack what it has, after calls that overlapped, until the next listing. | Calls; `Settled` excuses `unsure` |

## 5. Fairness

- `HubFairSpec`: weak fairness of `Leave(c)`, what a connection's own goroutine does after unregister:
  detach and release. The goroutine is runnable and the mutexes are held for a few statements. Requests,
  disconnects, database answers and restarts are the environment's and are not fair.
- `DocSession!FairSpec`: weak fairness of each loop and each write pump. A loop's database call ends
  within its 5 s timeout; a write pump's write ends within its deadline, or the socket is closed.
  `LoopExits`, the `done` case of the `select`, is not fair and competes with `LoopTakes`.
- `SaveProtocol!FairSpec`: timers fire and `getToken` settles (`Timers \/ Throws`), the debounced flush
  runs, an upgrade is answered one way or the other (`Open \/ CloseWhileOpening`), the network delivers
  and the server reads. Closes, edits and changes of role are not fair.

The other specifications state no fairness, and their properties need none: a list, a button or a stream
is compared with the truth in states where no call is left to answer, so what is checked is that the
page, once answered, is right and is not still waiting.

## 6. Proofs

Thirty-four results, over lemmas, in eight modules. They hold for all values of the constants that satisfy
the assumptions named below, which TLC evaluates on every run. TLC checked the strengthened invariants on
small instances before they were proved. Two facts of numbers are needed in several places: that a set
of them has a least member, and has a greatest one if it is bounded. Induction needs a
theorem with an operator parameter, which these provers cannot instantiate, but the library's facts on
well-founded relations are stated with sets and give the least member directly.

**HubProofs**, about `HubSpec`, from `HubAssumption`: `NoSession` is not a session, `IpOf` maps
connections to addresses, connections are finitely many (for the cardinality), the cap is positive.

- `HubTypeCorrect` and `ClosedSessionsStayEmpty` follow from the inductive invariant `HubInv`.
  `ClosedSessionsAreEmpty` is not inductive alone: a join adds a client to the session in the registry,
  so that one must be open (`RegistryIsOpen`), and unregister and detach act on the session a goroutine
  points to, so that pointer must be one (`SessionsAreKnown`).
- `EmptySessionsAlwaysHaveLeaver`: relative to `HubInv`, "an open session without clients has a leaver"
  is inductive. Only the unregister that computes `left` empties a session, and only a detach that finds
  it busy, closes it, or finds it closed takes a leaver away. It is the safety half of
  `EmptySessionsClose`.
- `SlotsStayExact`: the count for an address is the cardinality of its holders. Each step is one of three
  kinds: it moves one connection between phases that hold a slot or out of them, adds one
  (`Acquire`), or empties the process.
- `MembersStayRegistered`: from the join to the unregister a connection is a client of the session its
  goroutine points to, which was created, and before and after it is in no set. No run checks it by itself; the fan-out and the walk of
  `SetWriteAccess` rely on it.

**DocSessionProofs**, about `DocSession!Spec`, adds `DocSessionAssumption` (writers are connections,
capacities are positive). Every hub step of DocSession is a step of Hub, so `HubInv` carries over
(`DocSessionsStayEmpty`). `DataInv` adds the types of log, loops, channels and buffers with their
capacities, and three facts that say of each place an update may come from that it holds durable updates
only: the buffers, the histories that were loaded, and the loops between insert and fan-out. The last two
are the strengthening: a replay sends what was loaded, a fan-out what the loop holds, so "the buffers are
durable" alone is not inductive. `NothingIsToldBeforeDurable` and `DocSessionTypeCorrect` follow.

The refinement, `Spec => KeepsDurableLog` (`DocSessionKeepsDurableLog`), is the safety of `DurableLog`
under the mapping of section 2. The log never repeats an update because an update is in one place at a
time: one slot of one channel, one loop that is about to insert it, or the log (`PlacesInv`). What was
told is never untold because a step only appends to a buffer (`WrittenStays`), or is the write pump's and
advances `written` (`OnlyPumpsWrite`, which `DataInvariant` has as an action property). Then
each insert is `Persist`, each write of a frame `Tell`, and all else stutters.

`FanOutReaches` is proved there too. `FanOutReachesAll` says of each row and each connection of the
session that stored it where the update is: in the buffer, in the replay that was loaded, or in the loop
that is about to fan it out. To be inductive it needs that a history is loaded only after the join
(`LoadedAfterJoin`), that the row names the same origin as the loop's item (`RowsKeepOrigin`, or the
fan-out might leave out somebody else), and `MembersInv` and `PlacesInv`: the loop walks the client set,
and the item it holds is the row it inserted and no other.

**WriteAccessProofs**, about `WriteAccess!Spec`, from `WriteAccessAssumption`: `NothingElseMakesStale`,
which says too that the fourth reason only ever takes a right away: a connection whose only reason is a
refused update has the right its user has, or is read-only.
Again each step is one of the hub's or changes no hub variable. The invariant follows the right on its
way from the database to the connection, for every connection with no other reason than a refusal: a change
that has still to be applied bears what the database says (`ChangesAreCurrent`), so does what a handler
has resolved, or a change is yet to look the session up (`ResolvedIsCurrent`), and so does a live
connection, or it was refused and is read-only, or a change is yet to walk its session (`LiveIsCurrent`).
The lookup is of the registry's session, and there `RegistryIsOpen` and `MembersInv` are needed.

**SaveProtocolProofs**, about `SaveProtocol!Spec`, from `MaxEditsAssumption` and
`SaveProtocolAssumption`.

- `EditsAreNeverForgotten`: the invariant adds the types and `WireNeedsSocket`: a client whose socket is
  not open has nothing on the wire, else the new socket's empty wire would forget it.
- `SavedIsTrueOfTheSocket`: `pendingSaves` is a number, and nothing says which batches it stands for. The
  invariant (`AcksAreAwaited`) says that on an open socket of a writer it is at least the acks under way,
  the batches the server has taken and those on the wire, and that whenever it equals their sum every
  batch sent on the socket is stored or in one of those places. A batch that is dropped or not stored
  leaves the number one too high for good, so the two agree only where nothing went missing; `saved` needs
  the number to be 0. The acks are counted by cardinality, and the first step of the proof says what
  appending and taking a frame does to the count.

**HistoryProofs**, about `History!Spec`, from `HistoryAssumption`, has two invariants.

- `VersionInv` gives `NewestVersionsStay`: one author holds the lock (`OneLock`) and with it the next
  version (`NextVersionIsHeld`), so versions grow by one, and what a listing doomed by rank stays at least
  `MaxSnapshots` behind however late it is deleted (`DoomedAreOld`).
- `LogInv` gives `VersionsInOrder`, `SnapshotsRollForward` and `ReadersMissNothing`: rows are in the order
  in which they were persisted (`RowsInOrder`); each `last_seq`, of a snapshot or of a publisher that has
  read `MAX(seq)`, divides the log into what was counted and all that came later (`Cuts`); the cursor of a
  reader divides it the same way (`PassedAreGot`). All but the order holds until a pass has emptied the
  log, when numbers are given again. Of rows that are appended, pruned from the front, or gone, `MAX` is
  the number of the last one, which is a step of the proof for a log of any length.

**ServerProofs**, about the three parts of Server and then about Server.

- From `SharingAssumption`: `InvitesHaveOneSuccessor` needs `ResendsAreAlone`: while a resend stands
  between its revocation and its insert, nothing of its line is open and no other resend of that line
  stands there, since getting there takes revoking an open invite. `ClaimedInvitesGaveTheirRole` needs
  that a request that is about to mark an invite has granted its role (`GrantsOK`).
- From `RelayAssumption`: `RelayKeepsItsPromise`. Nobody is in a closed session (`MembersAreIn`),
  the open session of a node is the one its registry has unless one was detached twice (`EntryIsOpen`,
  `OpenIsEntry`), and whatever bears an update, the log, a loop or a message, agrees on the
  node it was sent on (`OriginsAgree`), so the node that skips its own messages skips no other's.
- From `ActivityAssumption`: `StreamsSkipNothingElse`. The cursor is an event the stream has sent, and a
  batch takes the `BatchSize` lowest ids after it. That a batch leaves no gap is an argument about ranks:
  an event is in it if at most so many precede it, which then holds of each event that precedes it.
- `ServerKeepsPromises`: each step of Server is a step of one part and a stutter of the others, so Server
  implements each part and has the four invariants.

**PresenceProofs**, about `PresenceSpec`, from `PresenceAssumption` (the bounds are numbers, a client may
connect once at least). Queues are treated as sets (`In`); `QueuesChange` says what delivering a frame,
relaying one and ending a connection do to those sets.

- `ClocksAreKept`: nobody is ahead of a client but by a removal, which is one ahead at most
  (`FramesAreClose`). That alone is not inductive. The clock of a removal is the node's memory plus one, so
  a client must send states of itself only (`SentByOwner`), and so the node must hold the client's last
  word after it has read what waited for the connection (`LastIsNewest`); `LinksOK` ties the connections
  of the clients to the node's, and `ShownIsKnown` says that who is shown has made the clock it is shown
  with, so that a client that forgets somebody says so with a clock that is not ahead of its subject's.
- `StatesAreSeen`: since the last disturbance of a client (its `mark`), removals under way are at most one
  ahead of the mark (`RemovalsAreNear`), and so is what a connected client knows of one it does not show
  (`UnseenIsNear`), while the newest state relayed has come or is on its way (`HeardIsComing`). Two states
  relayed since are two above the mark, so the second one shows the client, whatever was made up before.
- `GhostsLeave`: of each state that a client shows or is yet to receive, a later word is due
  (`Outdated`): a newer clock is known, a newer removal is on its way, or a connection of the subject is
  open whose memory is at least that clock, and its end will make a removal newer than the state. When
  nothing is on its way and no connection of the subject is open, only the first is left, and a client
  shows the clock it knows. It rests on `LastIsNewest` through `ClockInv`.

**BrowserProofs**, about `BrowserSpec`, from `BrowserAssumption` (the assumptions of the parts). A scene
leaves the variables of the others alone, so each invariant has one scene to be kept in.

- `UsersStaySignedIn` (`SessionInv`): unless calls overlapped or got lost, the calls in flight are sign-outs
  of one tab, or one refresh (`OneKindOfFlight`). It was sent with the cookie there is
  (`RefreshIsOfThisCookie`), and once served its answer brings the grant that the provider has
  (`AnswersBringTheGrant`), so whoever waits for no refresh has that grant (`CookieIsTheGrant`).
  A call to the provider that failed leaves no cookie, and nothing but that.
- `RecoveryKeepsPeers` (`EditorInv`): what was removed here and not saved names nothing of others in the
  text, in the draft, or in the render whose effect is due (`PeersAreNotRemoved`); between two renders the
  draft is the text that was rendered (`DraftFollows`).
- `DraftsHoldTheUnsaved` (`UnsavedInv`): the text that was rendered is in the text there is, and its effect on
  the draft is due or has been done, unless the text has changed since (`DraftIsDone`).
- `NobodyWaitsInVain`: the list is the one of the tab and of the search, or the call that fetches it is
  the one waited for (`DashInv`). A call keeps its fields from the click to the answer (`AsksMoveOn`), so
  an export under way is always found among them (`ExportInv`).
- `ShownIsAskedFor`: each opening of the history dialog has one call under way, its list or its body
  (`OneAskAnOpening`), during which nothing can be chosen; whatever is shown, or is on its way for a choice, is
  the selection or is in `late` (`BodiesAreKnown`). A blame on its way has the rows that were in the log at
  its click, as far as its page goes (`BlameInv`).
- `TypedTextIsKept` (`CommentInv`): of every create under way it is written down what was typed for it, and
  that the popup has that text, is empty, or was used since (`CreatesAreWritten`).
- `CommentsStayOnTheirText` and `UploadsStayInPlace` (`AnchorInv`): ids of items are not used twice
  (`TextIs`). The ends of an anchor resolve to places in order, between which are the chosen items and, of
  those there were, no others (`ChosenAreARange`): an insert goes between two places and a deletion leaves
  tombstones. An upload nobody edited in front of has its placeholder at its offset (`MarkedIn`), and this
  must outlive each file of the batch, whose end replaces one placeholder and puts the next behind it
  (`UploadsOK`). `InsertedText`, `DeletedText` and `EndOfUpload` say what an edit does to the offsets,
  `OffsetsOfPlaces` that offsets and places determine each other. The theorem is of any number of batches
  at a time; the run has one.

- `ListsSettle` is proved for the four panels at once, and for any number of rows, of calls, and of calls
  at a time. What an answer does to a list depends on the calls it overlapped with, so the invariant
  (`CallsInv`, `Following`) is about a table whose list is not known to be off. The calls that change it
  are about a row each, and none overlaps a fetch (`ChangesAreApart`); a fetch that has been served, or
  one alone, has the rows there are (`AnswersAreTrue`, `FetchesAreTrue`); an id that a call is yet to
  create is on no list, in no answer and in no other call (`NewIdsAreNew`). The rows are then those of the
  list that no served change is about, with those that served changes have made (`FollowsRows`), and with
  no call left these are the rows of the list. `Serving`, `Sending` and `Answering` say that the three
  kinds of step keep this. They speak of the calls, rows and lists as parameters, because a callback that
  handles an answer and fetches again does two of these at once, and the state between them has no name.
  A panel has to show that it keeps what it adds to it (`PanelsInv`): which calls it makes, that a dialog
  opened again, or a panel mounted again, lets its old calls be, and that the row a comment's deletion
  asks about is not one yet to come. Of the documents the rows to follow are
  those the query finds, and none where the page was cut (`Whole`): there the list is only known to be of
  rows as they are (`OnList`). `KeptRows` is what filtering does to a list: `Without` and `Pages`
  name the places that stay, and `Kept` lists what is there.

Trying to prove these showed three mistakes of the models, which the runs had not met: a history dialog
opened again while a body of its last opening is on its way may show that body, so the listing of a new
opening sets `late`, as a choice does; and two `CASE` expressions, the answer to an upload and that of
the server to a change, had guards that overlap, so that they left open which case applies.

Only model-checked:

- all liveness (`EmptySessionsClose`, `QueuedIsAcked`, `EditsLeaveTheClient`, `SavingEnds`), which is out
  of the prover's reach;
- of Browser, `ToolsAreExact`: what the codec, the differ, blame and highlights compute takes induction over
  the input, and TLC compares them with their references on all small ones; `BrowserTypeOK`, whose
  parts the proofs above have where they need them.

## 7. Not modelled

- *Rate limiting*: a token bucket with fractional refill over a monotonic clock. DocSession has its
  outcome, a refused batch that ends the socket (`CloseRateLimited`); Hub has the cap per address.
- *Sharing of members, requests and links on the server*: each is one statement or one transaction on
  rows that no other one reads half-way. What they do to live connections is in WriteAccess, what the
  dialog shows of them in ShareDialog and ShareLinks.
- *`SetWriteAccess` across nodes*: WriteAccess is one node. A connection of another node keeps its right
  until it reconnects, whatever the order of steps.
- *Awareness names*: rewriting the name in the states of guests touches no clock.
- *Assets*: storing and serving blobs is validation and I/O; uploading into the text is in Anchors.
- *Authentication*: the redirect to the identity provider, signatures of cookies and tokens.
- *Plumbing, scripts, infrastructure*: routing, error envelopes, mail, configuration, start-up. They keep
  no state; the panic handler and the shutdown are part of Hub.
- *Rendering*: styles, icons, shortcuts, the Markdown preview apart from its highlight.
- The data race between the close frames of `closeWithResync` and the write pump (`conn.go:94`) is below
  the level of frames; its outcome there is a lost socket, which DocSession has.

## 8. What is left

1. WriteAccess over the nodes of Relay.
2. The token bucket over a clock of ticks, with integer refill.
