------------------------------ MODULE Activity ------------------------------
(***************************************************************************)
(* The activity log of a document and the stream an owner follows it on:   *)
(* store/activity.go and server/events.go.  Rows get their id from a       *)
(* sequence when they are inserted and are visible once that statement     *)
(* commits, which another statement may do first.  The stream asks for     *)
(* what is after its cursor every two seconds.                             *)
(***************************************************************************)
EXTENDS Naturals, FiniteSetsExt

CONSTANTS
    MaxEvents,   \* bounds on the events recorded
    MaxStreams,  \* and the streams opened
    BatchSize    \* limit of ListActivityAfter

ASSUME ActivityAssumption ==
    MaxEvents \in Nat /\ MaxStreams \in Nat /\ BatchSize \in Nat \ {0}

VARIABLES
    recording,  \* ids of rows whose insert has not committed
    recorded,   \* rows that are visible
    lastId,     \* the sequence
    since,      \* the query parameter of the stream's address, 0 for none
    streaming,  \* a stream is open
    after,      \* its afterID
    seen,       \* the events its consumer has received, over all streams
    streams,
    late        \* history: rows that became visible behind the cursor

activityVars == <<recording, recorded, lastId, since, streaming, after, seen, streams, late>>

Event == 1..MaxEvents
Highest(S) == IF S = {} THEN 0 ELSE Max(S)

ActivityTypeOK ==
    /\ recording \subseteq Event /\ recorded \subseteq Event /\ seen \subseteq recorded
    /\ {lastId, since, after} \subseteq 0..MaxEvents /\ streaming \in BOOLEAN

ActivityIdle ==
    /\ recording = {} /\ recorded = {} /\ lastId = 0 /\ since = 0
    /\ streaming = FALSE /\ after = 0 /\ seen = {} /\ streams = 0 /\ late = {}

ActivityInit == ActivityIdle

streamVars == <<since, streaming, after, seen, streams>>

RecordActivity ==
    /\ lastId < MaxEvents /\ lastId' = lastId + 1
    /\ recording' = recording \cup {lastId + 1}
    /\ UNCHANGED <<recorded, streamVars, late>>

ActivityCommits(e) ==
    /\ recording' = recording \ {e} /\ recorded' = recorded \cup {e}
    /\ late' = IF e < Highest({after} \cup seen) THEN late \cup {e} ELSE late
    /\ UNCHANGED <<lastId, streamVars>>

\* The caller is gone: its handler does not look at the error.
ActivityFails(e) ==
    /\ recording' = recording \ {e}
    /\ UNCHANGED <<recorded, lastId, streamVars, late>>

\* ORDER BY id LIMIT: what is after the cursor, up to the row whose rank is
\* the limit.
ListActivityAfter(id) ==
    {e \in recorded : e > id /\ Cardinality({d \in recorded : d \in id + 1 .. e}) <= BatchSize}

\* Mutant: the cursor is taken from the table.
WriteEventsToEnd(id, batch, to) ==
    /\ seen' = seen \cup {e \in batch : e <= to}
    /\ after' = IF to = id THEN id ELSE Highest(recorded)
    /\ streaming' = (\A e \in batch : e <= to)

\* writeEvents: the rows of a batch in the order of their ids, up to one that
\* is written last.  The cursor moves with each, and the stream ends where one
\* cannot be written.
WriteEvents(id, batch, to) ==
    /\ seen' = seen \cup {e \in batch : e <= to}
    /\ after' = to
    /\ streaming' = (\A e \in batch : e <= to)

\* Every batch, cut anywhere.
SendAfter(id) ==
    LET batch == ListActivityAfter(id)
    IN \E to \in {id} \cup batch : WriteEvents(id, batch, to)

\* parseEventCursor: the address wins over what the consumer saw last, which
\* it sends on its own when it comes back.
Cursor(query) == IF query # 0 THEN query ELSE Highest(seen)

OpenStream ==
    /\ ~streaming /\ streams < MaxStreams /\ streams' = streams + 1
    /\ \E query \in {0} \cup seen :
          /\ since' = query
          /\ SendAfter(Cursor(query))
    /\ UNCHANGED <<recording, recorded, lastId, late>>

SendBatch ==
    /\ streaming
    /\ SendAfter(after)
    /\ UNCHANGED <<recording, recorded, lastId, since, streams, late>>

EndStream ==
    /\ streaming /\ streaming' = FALSE
    /\ UNCHANGED <<recording, recorded, lastId, since, after, seen, streams, late>>

ActivityNext ==
    \/ RecordActivity
    \/ \E e \in recording : ActivityCommits(e) \/ ActivityFails(e)
    \/ OpenStream \/ SendBatch \/ EndStream

ActivitySpec == ActivityInit /\ [][ActivityNext]_activityVars

\* Over all its streams, cut anywhere and resumed by header or by address, a
\* consumer has every event up to the newest it has: none is skipped by the
\* limit of a batch, but for those that became visible behind it, whose id is
\* older than their commit.
StreamSkipsOnlyLateEvents ==
    \A e \in recorded : e <= Highest(seen) => e \in seen \cup late
=============================================================================
