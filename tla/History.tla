------------------------------ MODULE History ------------------------------
(***************************************************************************)
(* What remains of one document's past: the update log (store/updates.go), *)
(* the snapshots authors publish or restore (store/snapshots.go), the      *)
(* passes that prune both (store/retention.go, one loop per API process)   *)
(* and a reader that pages through the log (store/attribution.go).         *)
(*                                                                         *)
(* Updates are numbered in the order they commit.  A snapshot's body is    *)
(* the set of updates the author's tab had when it took its text: a tab    *)
(* gets what the log holds when it opens and then every later update in    *)
(* order, a range of them.  An action is one SQL statement, or the         *)
(* statements of a transaction up to the next that others can observe.     *)
(***************************************************************************)
EXTENDS Integers, FiniteSets

CONSTANTS
    Author,        \* tabs that publish and restore
    Node,          \* API processes, each with a retention loop
    MaxSnapshots,  \* MaxSnapshotsPerDoc
    PageSize,      \* limit of GetAttributionUpdates
    MaxUpdates,    \* bound on the updates ever persisted
    MaxVersions    \* bound on the snapshots ever put

ASSUME HistoryAssumption ==
    /\ MaxSnapshots \in Nat \ {0} /\ PageSize \in Nat \ {0}
    /\ MaxUpdates \in Nat /\ MaxVersions \in Nat

VARIABLES
    rows,       \* document_updates: [seq, upd]
    appended,   \* history: how many updates were ever persisted
    aged,       \* those older than UpdateRetentionWindow
    version,    \* documents.current_version
    snapshots,  \* document_snapshots
    openings,   \* history: what a tab got that opened when the log began anew
    call,       \* PutSnapshot of an author
    pass,       \* RunRetentionPass of a node
    cursor,     \* next_since_update_id the reader holds
    got,        \* the updates it has received
    emptied     \* history: a pass has deleted the last row

vars == <<rows, appended, aged, version, snapshots, openings, call, pass, cursor,
          got, emptied>>
logVars == <<rows, appended, aged>>
readVars == <<cursor, got>>

Update == 1..MaxUpdates

\* counted is history: the updates that were persisted when last_seq was read.
Snapshot == [version : 1..MaxVersions, last_seq : 0..MaxUpdates,
             body : SUBSET Update, counted : 0..MaxUpdates]

\* "asked": the body is with the handler; "locked": the documents row is
\* locked; "counted": MAX(seq) was read.
Call == [stage : {"none", "asked", "locked", "counted"},
         version : 0..MaxVersions, last_seq : 0..MaxUpdates,
         body : SUBSET Update, counted : 0..MaxUpdates]

NoCall == [stage |-> "none", version |-> 0, last_seq |-> 0, body |-> {},
           counted |-> 0]

TypeOK ==
    /\ rows \subseteq [seq : Update, upd : Update]
    /\ \A q, r \in rows : q.seq = r.seq => q = r
    /\ appended \in 0..MaxUpdates /\ aged \in 0..appended
    /\ version \in 0..MaxVersions
    /\ snapshots \subseteq Snapshot
    /\ \A s, t \in snapshots : s.version = t.version => s = t
    /\ openings \subseteq [from : 1..MaxUpdates + 1, to : 0..MaxUpdates]
    /\ call \in [Author -> Call]
    /\ pass \in [Node -> [stage : {"idle", "deleting"},
                          doomed : SUBSET (1..MaxVersions)]]
    /\ cursor \in 0..MaxUpdates /\ got \subseteq Update
    /\ emptied \in BOOLEAN

Init ==
    /\ rows = {} /\ appended = 0 /\ aged = 0
    /\ version = 0 /\ snapshots = {}
    /\ openings = {[from |-> 1, to |-> 0]}
    /\ call = [a \in Author |-> NoCall]
    /\ pass = [n \in Node |-> [stage |-> "idle", doomed |-> {}]]
    /\ cursor = 0 /\ got = {}
    /\ emptied = FALSE

\* What MIN and MAX select.
Least(S) == CHOOSE m \in S : \A n \in S : m <= n
Greatest(S) == CHOOSE m \in S : \A n \in S : n <= m

Seqs(R) == {r.seq : r \in R}
Upds(R) == {r.upd : r \in R}

\* COALESCE(MAX(seq), 0): an empty log starts again.
MaxSeq == IF rows = {} THEN 0 ELSE Greatest(Seqs(rows))

(***************************************************************************)
(* The log.                                                                *)
(***************************************************************************)
AppendUpdate ==
    /\ appended < MaxUpdates
    /\ appended' = appended + 1
    /\ rows' = rows \cup {[seq |-> MaxSeq + 1, upd |-> appended + 1]}
    /\ UNCHANGED <<aged, version, snapshots, openings, call, pass, readVars, emptied>>

\* Time passes.
Age ==
    /\ aged < appended
    /\ aged' = aged + 1
    /\ UNCHANGED <<rows, appended, version, snapshots, openings, call, pass, readVars,
                   emptied>>

(***************************************************************************)
(* publishSnapshot and restoreSnapshot.                                    *)
(***************************************************************************)
Ask(a, body) ==
    /\ call[a] = NoCall
    /\ call' = [call EXCEPT ![a].stage = "asked", ![a].body = body]
    /\ UNCHANGED <<logVars, version, snapshots, openings, pass, readVars, emptied>>

\* The author's tab opened at some time and has received every update up to
\* some later one: LoadUpdates, replay and fan-out.
PublishSnapshot(a) ==
    \E o \in openings : \E to \in o.to .. appended : Ask(a, o.from .. to)

RestoreSnapshot(a) == \E s \in snapshots : Ask(a, s.body)

Locked == \E b \in Author : call[b].stage \in {"locked", "counted"}

\* SELECT current_version + 1 ... FOR UPDATE.
PutLock(a) ==
    /\ call[a].stage = "asked"
    /\ version < MaxVersions
    /\ ~Locked
    /\ call' = [call EXCEPT ![a].stage = "locked", ![a].version = version + 1]
    /\ UNCHANGED <<logVars, version, snapshots, openings, pass, readVars, emptied>>

PutCountBeforeLock(a) ==
    /\ \/ /\ call[a].stage = "asked"
          /\ call' = [call EXCEPT ![a].last_seq = MaxSeq, ![a].counted = appended]
       \/ /\ call[a].stage = "locked"
          /\ call' = [call EXCEPT ![a].stage = "counted"]
    /\ UNCHANGED <<logVars, version, snapshots, openings, pass, readVars, emptied>>

\* SELECT MAX(seq): appends do not touch the locked row.
PutCount(a) ==
    /\ call[a].stage = "locked"
    /\ call' = [call EXCEPT ![a].stage = "counted", ![a].last_seq = MaxSeq,
                            ![a].counted = appended]
    /\ UNCHANGED <<logVars, version, snapshots, openings, pass, readVars, emptied>>

\* The insert, the new current_version and the commit.
PutCommit(a) ==
    LET c == call[a] IN
    /\ c.stage = "counted"
    /\ snapshots' = snapshots \cup {[version |-> c.version, last_seq |-> c.last_seq,
                                     body |-> c.body, counted |-> c.counted]}
    /\ version' = c.version
    /\ call' = [call EXCEPT ![a] = NoCall]
    /\ UNCHANGED <<logVars, openings, pass, readVars, emptied>>

\* An error or a lost client: the transaction is rolled back.
PutRollback(a) ==
    /\ call[a] # NoCall
    /\ call' = [call EXCEPT ![a] = NoCall]
    /\ UNCHANGED <<logVars, version, snapshots, openings, pass, readVars, emptied>>

(***************************************************************************)
(* RunRetentionPass: list, delete one by one, prune the log.               *)
(***************************************************************************)
\* The rank of a version from the newest, as ROW_NUMBER counts.
Versions == {s.version : s \in snapshots}
Rank(v) == Cardinality({w \in Versions : v <= w})

ListKeepingOneLess(n) ==
    /\ pass[n].stage = "idle"
    /\ pass' = [pass EXCEPT ![n] =
                [stage |-> "deleting",
                 doomed |-> {v \in Versions : Rank(v) >= MaxSnapshots}]]
    /\ UNCHANGED <<logVars, version, snapshots, openings, call, readVars, emptied>>

ListExcess(n) ==
    /\ pass[n].stage = "idle"
    /\ pass' = [pass EXCEPT ![n] =
                [stage |-> "deleting",
                 doomed |-> {v \in Versions : Rank(v) > MaxSnapshots}]]
    /\ UNCHANGED <<logVars, version, snapshots, openings, call, readVars, emptied>>

\* A delete that fails is logged and skipped.
DeleteSnapshot(n) ==
    /\ \E v \in pass[n].doomed :
        /\ pass' = [pass EXCEPT ![n].doomed = @ \ {v}]
        /\ \/ snapshots' = {s \in snapshots : s.version # v}
           \/ UNCHANGED snapshots
    /\ UNCHANGED <<logVars, version, openings, call, readVars, emptied>>

\* rows without those that are aged and at or below the seq limit
Pruned(limit) ==
    {r \in rows : ~(r.upd <= aged /\ r.seq <= limit)}

PruneTo(n, limit) ==
    /\ pass[n].stage = "deleting" /\ pass[n].doomed = {}
    /\ rows' = Pruned(limit)
    /\ emptied' = (emptied \/ (rows # {} /\ rows' = {}))
    /\ openings' = IF rows' = rows THEN openings ELSE openings \cup
            {[from |-> IF rows' = {} THEN appended + 1 ELSE Least(Upds(rows')),
              to |-> appended]}
    /\ pass' = [pass EXCEPT ![n].stage = "idle"]
    /\ UNCHANGED <<appended, aged, version, snapshots, call, readVars>>

LastSeqs == {s.last_seq : s \in snapshots}
Oldest == IF snapshots = {} THEN 0 ELSE Least(LastSeqs)
Newest == IF snapshots = {} THEN 0 ELSE Greatest(LastSeqs)

PruneToNewest(n) == PruneTo(n, Newest)

\* seq <= (SELECT MIN(last_seq)); without a snapshot that is NULL, no row.
PruneUpdates(n) == PruneTo(n, Oldest)

\* The listing or the pruning statement fails, or the process ends.
PassFails(n) ==
    /\ pass[n].stage = "deleting"
    /\ pass' = [pass EXCEPT ![n] = [stage |-> "idle", doomed |-> {}]]
    /\ UNCHANGED <<logVars, version, snapshots, openings, call, readVars, emptied>>

(***************************************************************************)
(* GetAttributionUpdates, called with the cursor of the last answer.       *)
(***************************************************************************)
\* ORDER BY seq LIMIT: what is after the cursor, up to the row whose rank is
\* the limit.
Page == {r \in rows : /\ r.seq > cursor
                     /\ Cardinality(Seqs(rows) \cap (cursor + 1 .. r.seq)) <= PageSize}

GetAttributionByLimit ==
    /\ got' = got \cup Upds(Page)
    /\ cursor' = cursor + PageSize
    /\ UNCHANGED <<logVars, version, snapshots, openings, call, pass, emptied>>

GetAttributionUpdates ==
    /\ Page # {}
    /\ got' = got \cup Upds(Page)
    /\ cursor' = Greatest(Seqs(Page))
    /\ UNCHANGED <<logVars, version, snapshots, openings, call, pass, emptied>>

Next ==
    \/ AppendUpdate \/ Age \/ GetAttributionUpdates
    \/ \E a \in Author :
        \/ PublishSnapshot(a) \/ RestoreSnapshot(a)
        \/ PutLock(a) \/ PutCount(a) \/ PutCommit(a) \/ PutRollback(a)
    \/ \E n \in Node :
        \/ ListExcess(n) \/ DeleteSnapshot(n) \/ PruneUpdates(n) \/ PassFails(n)

Spec == Init /\ [][Next]_vars

-----------------------------------------------------------------------------
\* Versions are published in the order of the log: a later version never has
\* the smaller last_seq, though publishers race and appends go on while one of
\* them holds the lock.  ListSnapshots cuts the log at these numbers.  Once a
\* pass has emptied the log, AppendUpdate counts from 1 again and this ends.
VersionsFollowLog ==
    ~emptied => \A s, t \in snapshots :
                    s.version < t.version => s.last_seq <= t.last_seq

\* A pass that works from an old listing, beside another pass, publishers and
\* failing deletes, never takes one of the newest MaxSnapshots versions, the
\* one that export serves among them.
NewestSnapshotsAreKept ==
    \A v \in 1..version :
        v > version - MaxSnapshots => \E s \in snapshots : s.version = v

\* What was persisted after a snapshot was counted is still in the log as long
\* as the snapshot is there, so that it can be rolled forward.  Ends, too,
\* when the log was emptied: new rows are numbered like those that went.
LaterUpdatesAreKept ==
    ~emptied => \A s \in snapshots : s.counted + 1 .. appended \subseteq Upds(rows)

\* A reader that pages by the cursor it is given misses no row it has passed,
\* while rows are appended and pruned between its calls, until the log was
\* emptied.
PagesMissNothing ==
    ~emptied => \A r \in rows : r.seq <= cursor => r.upd \in got

\* What the comments of RunRetentionPass and of the column last_seq say: a row
\* that was deleted is covered by a retained snapshot, whose last_seq is the
\* highest update folded into it.
DeletedUpdatesAreCovered ==
    1..appended \subseteq Upds(rows) \cup UNION {s.body : s \in snapshots}
=============================================================================
