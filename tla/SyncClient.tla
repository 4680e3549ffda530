----------------------------- MODULE SyncClient -----------------------------
(***************************************************************************)
(* packages/client/src/sync-client.ts: the browser's end of a document's   *)
(* socket.  It batches local edits, queues them while there is no socket,  *)
(* counts acks and derives from that the indicator saving, saved, offline. *)
(*                                                                         *)
(* JavaScript runs one callback at a time, so each callback is one action. *)
(* Edits are numbered as they are made; a batch is the set of edits that   *)
(* Y.mergeUpdates merged.  Updates of other clients and awareness do not   *)
(* touch this state and are left out.                                      *)
(***************************************************************************)
EXTENDS Naturals, Sequences

CONSTANT MaxEdits  \* bound on local edits

ASSUME MaxEditsAssumption == MaxEdits \in Nat

VARIABLES
    state,        \* ConnectionState
    link,         \* the socket and what leads to it, see Link
    readonly,
    synced,
    outbox,       \* batches to send when a socket opens
    debounced,    \* debouncedUpdates
    timer,        \* updateFlushTimer is armed
    pendingSaves,
    saveState,
    edits,        \* local edits made and not ignored, so far
    discarded,    \* edits the client dropped on purpose
    shipped       \* batches written to the present socket, in order

clientVars == <<state, link, readonly, synced, outbox, debounced, timer,
                pendingSaves, saveState, edits, discarded, shipped>>

Edit == 1..MaxEdits

\* "token": connect() awaits getToken; "opening": the socket is connecting;
\* "waiting": the reconnect timer runs; "parked": getToken had no token;
\* "hung": it threw; "terminal": closed with a code that forbids to try again;
\* "stopped": destroyed by its owner.
Link == {"token", "opening", "open", "waiting", "parked", "hung", "terminal",
         "stopped"}

ClientTypeOK ==
    /\ state \in {"connecting", "syncing", "live", "readonly", "offline"}
    /\ link \in Link
    /\ readonly \in BOOLEAN /\ synced \in BOOLEAN /\ timer \in BOOLEAN
    /\ outbox \in Seq(SUBSET Edit)
    /\ debounced \subseteq Edit
    /\ pendingSaves \in Nat
    /\ saveState \in {"saving", "saved", "offline"}
    /\ edits \in 0..MaxEdits
    /\ discarded \subseteq Edit
    /\ shipped \in Seq(SUBSET Edit)

\* The constructor with autoConnect: connect() runs up to its await.
ClientInit ==
    /\ state = "connecting" /\ link = "token"
    /\ readonly = FALSE /\ synced = FALSE /\ timer = FALSE
    /\ outbox = <<>> /\ debounced = {}
    /\ pendingSaves = 0 /\ saveState = "saved"
    /\ edits = 0 /\ discarded = {} /\ shipped = <<>>

InBatches(batches) == UNION {batches[i] : i \in DOMAIN batches}

(***************************************************************************)
(* recomputeSaveState, over the values an action leaves behind.            *)
(***************************************************************************)
SaveStateOf(st, pending, deb, out) ==
    IF st = "offline" THEN "offline"
    ELSE IF st \notin {"live", "readonly"} THEN "saving"
    ELSE IF pending > 0 \/ deb # {} \/ out # <<>> THEN "saving"
    ELSE "saved"

Recompute == saveState' = SaveStateOf(state', pendingSaves', debounced', outbox')

\* setState returns early, without a recompute, when nothing changes.
SetState(st) ==
    /\ state' = st
    /\ IF st = state THEN UNCHANGED saveState ELSE Recompute

(***************************************************************************)
(* sendUpdate of a sequence of batches: onto the open socket and no longer *)
(* kept, or into the outbox.                                               *)
(***************************************************************************)
Send(batches, kept) ==
    IF link' = "open"
    THEN shipped' = shipped \o batches /\ outbox' = kept
    ELSE outbox' = kept \o batches /\ UNCHANGED shipped

Merged(es) == IF es = {} THEN <<>> ELSE <<es>>

(***************************************************************************)
(* docUpdateHandler and the flush timer.                                   *)
(***************************************************************************)
LocalEdit ==
    /\ link # "stopped" /\ ~readonly /\ edits < MaxEdits
    /\ edits' = edits + 1
    /\ debounced' = debounced \cup {edits + 1}
    /\ timer' = TRUE
    /\ UNCHANGED <<state, link, readonly, synced, outbox, pendingSaves,
                   discarded, shipped>>
    /\ Recompute

FlushUpdates ==
    /\ timer /\ link # "stopped"
    /\ timer' = FALSE
    /\ UNCHANGED <<state, link, readonly, synced, edits, discarded>>
    /\ IF readonly \/ debounced = {}
       THEN UNCHANGED <<outbox, debounced, pendingSaves, saveState, shipped>>
       ELSE /\ debounced' = {}
            /\ pendingSaves' = pendingSaves + 1
            /\ Send(<<debounced>>, outbox)
            /\ Recompute

(***************************************************************************)
(* connect().                                                              *)
(***************************************************************************)
GotToken ==
    /\ link = "token"
    /\ link' = "opening"
    /\ UNCHANGED <<state, readonly, synced, outbox, debounced, timer,
                   pendingSaves, saveState, edits, discarded, shipped>>

NoToken ==
    /\ link = "token"
    /\ link' = "parked"
    /\ UNCHANGED <<readonly, synced, outbox, debounced, timer, pendingSaves,
                   edits, discarded, shipped>>
    /\ SetState("offline")

\* getAccessToken rejects when its fetch does.  Nobody awaits connect().
TokenThrows ==
    /\ link = "token"
    /\ link' = "hung"
    /\ UNCHANGED <<state, readonly, synced, outbox, debounced, timer,
                   pendingSaves, saveState, edits, discarded, shipped>>

ReconnectTimer ==
    /\ link = "waiting"
    /\ link' = "token"
    /\ UNCHANGED <<readonly, synced, outbox, debounced, timer, pendingSaves,
                   edits, discarded, shipped>>
    /\ SetState(IF synced THEN "syncing" ELSE "connecting")

OnOpenForgettingDebounced ==
    /\ link = "opening"
    /\ link' = "open"
    /\ readonly' = FALSE
    /\ shipped' = outbox
    /\ pendingSaves' = Len(outbox)
    /\ outbox' = <<>> /\ debounced' = {} /\ timer' = FALSE
    /\ state' = "syncing"
    /\ UNCHANGED <<synced, edits, discarded>>
    /\ Recompute

OnOpenKeepingOutbox ==
    /\ link = "opening"
    /\ link' = "open"
    /\ readonly' = FALSE
    /\ shipped' = Merged(debounced)
    /\ pendingSaves' = Len(outbox) + Len(Merged(debounced))
    /\ debounced' = {} /\ timer' = FALSE
    /\ state' = "syncing"
    /\ UNCHANGED <<outbox, synced, edits, discarded>>
    /\ Recompute

OnOpenKeepingCount ==
    /\ link = "opening"
    /\ link' = "open"
    /\ readonly' = FALSE
    /\ shipped' = outbox \o Merged(debounced)
    /\ pendingSaves' = pendingSaves + Len(Merged(debounced))
    /\ outbox' = <<>> /\ debounced' = {} /\ timer' = FALSE
    /\ state' = "syncing"
    /\ UNCHANGED <<synced, edits, discarded>>
    /\ Recompute

\* ws.onopen: the outbox, then what is debounced, go out; the count restarts.
OnOpen ==
    /\ link = "opening"
    /\ link' = "open"
    /\ readonly' = FALSE
    /\ shipped' = outbox \o Merged(debounced)
    /\ pendingSaves' = Len(outbox) + Len(Merged(debounced))
    /\ outbox' = <<>> /\ debounced' = {} /\ timer' = FALSE
    /\ state' = "syncing"
    /\ UNCHANGED <<synced, edits, discarded>>
    /\ Recompute

\* ws.onclose.  RESYNC drops whatever has not been sent.
OnClose(resync) ==
    /\ link \in {"opening", "open"}
    /\ link' = "waiting"
    /\ shipped' = <<>>
    /\ IF resync
       THEN /\ discarded' = discarded \cup debounced \cup InBatches(outbox)
            /\ outbox' = <<>> /\ debounced' = {} /\ timer' = FALSE
            /\ pendingSaves' = 0 /\ synced' = FALSE
       ELSE UNCHANGED <<discarded, outbox, debounced, timer, pendingSaves,
                        synced>>
    /\ UNCHANGED <<readonly, edits>>
    /\ SetState("offline")

\* AUTH_EXPIRED, PERMISSION_DENIED, DOC_DELETED: destroyed is set, but the
\* document's handler and a pending flush stay.
OnTerminalClose ==
    /\ link \in {"opening", "open"}
    /\ link' = "terminal"
    /\ shipped' = <<>>
    /\ UNCHANGED <<readonly, synced, outbox, debounced, timer, pendingSaves,
                   edits, discarded>>
    /\ SetState("offline")

(***************************************************************************)
(* handleYjsFrame, on an open socket.                                      *)
(***************************************************************************)
OnStep1 ==
    /\ link = "open"
    /\ synced' = TRUE
    /\ UNCHANGED <<link, readonly, outbox, debounced, timer, pendingSaves,
                   edits, discarded, shipped>>
    /\ IF readonly THEN UNCHANGED <<state, saveState>> ELSE SetState("live")

OnReadonly ==
    /\ link = "open"
    /\ readonly' = TRUE
    /\ discarded' = discarded \cup debounced \cup InBatches(outbox)
    /\ outbox' = <<>> /\ debounced' = {} /\ timer' = FALSE
    /\ pendingSaves' = 0
    /\ UNCHANGED <<link, synced, edits, shipped>>
    /\ SetState("readonly")

OnAck ==
    /\ link = "open"
    /\ pendingSaves' = IF pendingSaves > 0 THEN pendingSaves - 1 ELSE 0
    /\ UNCHANGED <<state, link, readonly, synced, outbox, debounced, timer,
                   edits, discarded, shipped>>
    /\ Recompute

\* destroy(): one last flush, then the socket is closed.  What is only in the
\* outbox of a destroyed client is gone.
Destroy ==
    /\ link # "stopped"
    /\ link' = "stopped"
    /\ timer' = FALSE
    /\ UNCHANGED <<state, readonly, synced, edits, discarded>>
    /\ IF readonly \/ debounced = {}
       THEN UNCHANGED <<outbox, debounced, pendingSaves, shipped, saveState>>
       ELSE /\ debounced' = {}
            /\ pendingSaves' = pendingSaves + 1
            /\ IF link = "open"
               THEN shipped' = Append(shipped, debounced) /\ UNCHANGED outbox
               ELSE outbox' = Append(outbox, debounced) /\ UNCHANGED shipped
            /\ Recompute
=============================================================================
