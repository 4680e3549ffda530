---------------------------- MODULE SaveProtocol ----------------------------
(***************************************************************************)
(* One client and the server it saves to: what the indicator `saved' is    *)
(* worth.  SyncClient is composed with the socket and with the part of the *)
(* server a client can tell (DocSession models it in full): conn.readPump  *)
(* accepts, refuses or drops a batch, the session's loop persists and acks *)
(* what was accepted or fails to, and a batch accepted on a socket that is *)
(* gone may still be persisted or be left in its session's channel.        *)
(***************************************************************************)
EXTENDS SyncClient

CONSTANTS
    MaxCloses,       \* bound on sockets lost
    MaxRoleChanges,  \* bound on SetWriteAccess calls
    ServerFaults,    \* whether the server may drop a batch or fail to persist
    TokenFaults      \* whether getToken may throw

ASSUME SaveProtocolAssumption ==
    /\ MaxCloses \in Nat /\ MaxRoleChanges \in Nat
    /\ ServerFaults \in BOOLEAN /\ TokenFaults \in BOOLEAN

VARIABLES
    up,        \* batches on the wire
    down,      \* frames for the client, in conn.send or on the wire
    taken,     \* batches of this socket in docSession.incoming or its loop
    orphans,   \* batches accepted from sockets that are gone
    durable,   \* edits in document_updates
    vanished,  \* history: edits of batches nobody holds any more
    unacked,   \* history: a batch of this socket will never be acked
    canWrite,  \* conn.canWrite
    role,      \* whether the principal's role can write
    closes, roleChanges

serverVars == <<up, down, taken, orphans, durable, vanished, unacked,
                canWrite, role, closes, roleChanges>>
vars == <<clientVars, serverVars>>

Batch == SUBSET Edit

TypeOK ==
    /\ ClientTypeOK
    /\ up \in Seq(Batch) /\ taken \in Seq(Batch)
    /\ down \in Seq({"step1", "readonly", "ack"})
    /\ orphans \subseteq Batch
    /\ durable \subseteq Edit /\ vanished \subseteq Edit
    /\ unacked \in BOOLEAN /\ canWrite \in BOOLEAN /\ role \in BOOLEAN
    /\ closes \in 0..MaxCloses /\ roleChanges \in 0..MaxRoleChanges

Init ==
    /\ ClientInit
    /\ up = <<>> /\ down = <<>> /\ taken = <<>> /\ orphans = {}
    /\ durable = {} /\ vanished = {}
    /\ unacked = FALSE /\ canWrite = FALSE /\ role = TRUE
    /\ closes = 0 /\ roleChanges = 0

(***************************************************************************)
(* The client's own callbacks.                                             *)
(***************************************************************************)
Edits  == LocalEdit /\ UNCHANGED serverVars
Timers == (ReconnectTimer \/ GotToken \/ NoToken) /\ UNCHANGED serverVars

Throws == TokenFaults /\ TokenThrows /\ UNCHANGED serverVars

Flush ==
    /\ FlushUpdates
    /\ up' = up \o SubSeq(shipped', Len(shipped) + 1, Len(shipped'))
    /\ UNCHANGED <<down, taken, orphans, durable, vanished, unacked, canWrite, role,
                   closes, roleChanges>>

\* The server answers an upgrade with its replay, SyncStep1 and, for a role
\* that cannot write, Readonly.
Open ==
    /\ OnOpen
    /\ up' = shipped'
    /\ down' = IF role THEN <<"step1">> ELSE <<"step1", "readonly">>
    /\ canWrite' = role
    /\ UNCHANGED <<taken, orphans, durable, vanished, unacked, role, closes, roleChanges>>

Batches(batches) == {batches[i] : i \in DOMAIN batches}

\* A socket ends: what the server had accepted stays with the session, what
\* was on the wire is gone either way.
Lose ==
    /\ down' = <<>> /\ up' = <<>> /\ taken' = <<>> /\ unacked' = FALSE
    /\ orphans' = orphans \cup Batches(taken)
    /\ vanished' = vanished \cup InBatches(up)
    /\ UNCHANGED <<durable, canWrite, role, roleChanges>>

Close(resync) ==
    /\ closes < MaxCloses
    /\ closes' = closes + 1
    /\ OnClose(resync)
    /\ Lose

CloseTerminal ==
    /\ closes < MaxCloses
    /\ closes' = closes + 1
    /\ OnTerminalClose
    /\ Lose

\* The handshake fails: the browser calls onclose without onopen.
CloseWhileOpening == link = "opening" /\ Close(FALSE)

\* ws.close() delivers what was written before it; the server may use it.
CloseForGood ==
    /\ Destroy
    /\ down' = <<>> /\ up' = <<>> /\ taken' = <<>> /\ unacked' = FALSE
    /\ orphans' = orphans \cup Batches(taken) \cup Batches(up)
                    \cup Batches(SubSeq(shipped', Len(shipped) + 1, Len(shipped')))
    /\ vanished' = vanished \cup InBatches(outbox')
    /\ UNCHANGED <<durable, canWrite, role, closes, roleChanges>>

Receive ==
    /\ down # <<>>
    /\ \/ Head(down) = "step1" /\ OnStep1
       \/ Head(down) = "readonly" /\ OnReadonly
       \/ Head(down) = "ack" /\ OnAck
    /\ down' = Tail(down)
    /\ UNCHANGED <<up, taken, orphans, durable, vanished, unacked, canWrite, role,
                   closes, roleChanges>>

(***************************************************************************)
(* The server.                                                             *)
(***************************************************************************)
Accept ==
    /\ up # <<>> /\ canWrite
    /\ up' = Tail(up)
    /\ taken' = Append(taken, Head(up))
    /\ UNCHANGED <<clientVars, down, orphans, durable, vanished, unacked, canWrite,
                   role, closes, roleChanges>>

DropOnOverflow ==
    /\ up # <<>> /\ canWrite /\ ServerFaults
    /\ unacked' = TRUE
    /\ up' = Tail(up)
    /\ vanished' = vanished \cup Head(up)
    /\ UNCHANGED <<clientVars, down, taken, orphans, durable, canWrite, role,
                   closes, roleChanges>>

Refuse ==
    /\ up # <<>> /\ ~canWrite
    /\ up' = Tail(up)
    /\ vanished' = vanished \cup Head(up)
    /\ down' = Append(down, "readonly")
    /\ UNCHANGED <<clientVars, taken, orphans, durable, unacked, canWrite, role,
                   closes, roleChanges>>

Persist ==
    /\ taken # <<>>
    /\ taken' = Tail(taken)
    /\ durable' = durable \cup Head(taken)
    /\ down' = Append(down, "ack")
    /\ UNCHANGED <<clientVars, up, orphans, vanished, unacked, canWrite, role, closes,
                   roleChanges>>

\* Mutant of PersistFails: loop() acks without looking at the error.
PersistFailsButAcks ==
    /\ taken # <<>> /\ ServerFaults
    /\ taken' = Tail(taken)
    /\ vanished' = vanished \cup Head(taken)
    /\ down' = Append(down, "ack")
    /\ UNCHANGED <<clientVars, up, durable, orphans, unacked, canWrite, role, closes,
                   roleChanges>>

\* The append fails, or commits without the loop learning of it: no ack.
PersistFails ==
    /\ taken # <<>> /\ ServerFaults
    /\ unacked' = TRUE
    /\ taken' = Tail(taken)
    /\ \/ durable' = durable \cup Head(taken) /\ UNCHANGED vanished
       \/ vanished' = vanished \cup Head(taken) /\ UNCHANGED durable
    /\ UNCHANGED <<clientVars, up, down, orphans, canWrite, role, closes,
                   roleChanges>>

OrphanEnds ==
    /\ \E b \in orphans :
        /\ orphans' = orphans \ {b}
        /\ \/ durable' = durable \cup b /\ UNCHANGED vanished
           \/ vanished' = vanished \cup b /\ UNCHANGED durable
    /\ UNCHANGED <<clientVars, up, down, taken, unacked, canWrite, role, closes,
                   roleChanges>>

\* Hub.SetWriteAccess after a change of role: a frame tells the client when
\* it is demoted; nothing tells it when it is promoted.
SetWriteAccess ==
    /\ roleChanges < MaxRoleChanges
    /\ roleChanges' = roleChanges + 1
    /\ role' = ~role
    /\ canWrite' = IF link = "open" THEN ~role ELSE canWrite
    /\ down' = IF link = "open" /\ role THEN Append(down, "readonly") ELSE down
    /\ UNCHANGED <<clientVars, up, taken, orphans, durable, vanished, unacked, closes>>

Server == Accept \/ DropOnOverflow \/ Refuse \/ Persist \/ PersistFails

Next ==
    \/ Edits \/ Timers \/ Flush \/ Open \/ Receive
    \/ \E resync \in BOOLEAN : Close(resync)
    \/ Throws \/ CloseTerminal \/ CloseForGood
    \/ Server \/ OrphanEnds \/ SetWriteAccess

Spec == Init /\ [][Next]_vars

\* Timers fire, getToken answers or throws, an upgrade is answered by OnOpen or OnClose,
\* the network delivers and the server reads and persists.
FairSpec ==
    /\ Spec
    /\ WF_vars(Timers \/ Throws) /\ WF_vars(Flush)
    /\ WF_vars(Open \/ CloseWhileOpening)
    /\ WF_vars(Receive) /\ WF_vars(Server)

-----------------------------------------------------------------------------
Made == 1..edits
Held == debounced \cup InBatches(outbox)

\* What SaveState promises for `saved': the socket is live and every local
\* edit has been persisted.
SavedMeansDurable ==
    state = "live" /\ saveState = "saved" => Made \ discarded \subseteq durable

\* What the counting of acks does achieve, even when the server drops batches
\* or fails to persist them: whatever was sent on the present socket is in
\* the database, and nothing waits in the client.
SavedMeansSentIsDurable ==
    state = "live" /\ saveState = "saved"
        => InBatches(shipped) \subseteq durable /\ Held = {}

\* Between keystroke and database an edit is always somewhere; it vanishes
\* only with a batch the server refused, dropped or failed to persist, or
\* with a socket, never inside the client.
NoEditIsForgotten ==
    Made \subseteq
        durable \cup Held \cup discarded \cup vanished
            \cup InBatches(up) \cup InBatches(taken) \cup UNION orphans

\* Where a client stays that was told not to try again.
Ended == {"parked", "terminal", "stopped"}

\* An edit does not stay in a client that can get a token.
EditsLeaveTheClient ==
    \A e \in Edit : e \in Held ~> (e \notin Held \/ link \in Ended \cup {"hung"})

\* The indicator does not stick at saving unless the server dropped a batch
\* or failed to persist one, or the client was left without a socket: every
\* batch that is counted is sent, and every batch that is sent is acked once.
SavingEnds ==
    saveState = "saving" ~>
        (saveState # "saving" \/ unacked \/ link \in {"stopped", "hung"})

\* What the comment of SyncClient says, it owns reconnect and queued edits
\* ship on the next open: a client that lost its socket tries until it has
\* one, unless it was told not to.
LostSocketsComeBack ==
    link = "waiting" ~> link \in {"open"} \cup Ended
=============================================================================
