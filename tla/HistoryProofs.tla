---------------------------- MODULE HistoryProofs ----------------------------
(***************************************************************************)
(* Proofs about History: for any authors, retention loops and limits, and  *)
(* any interleaving of publishes, appends, prunes and reads, the newest    *)
(* versions stay, versions follow the log, and what came after a retained  *)
(* snapshot, or before a reader's cursor, is where it should be.           *)
(***************************************************************************)
EXTENDS History, FiniteSetTheorems, WellFoundedInduction, TLAPS

Row == [seq : Nat \ {0}, upd : Nat]

\* Rows are in the order in which they were persisted.
LogTypes ==
    /\ rows \subseteq Row /\ appended \in Nat /\ aged \in Nat /\ cursor \in Nat
    /\ emptied \in BOOLEAN
RowsInOrder ==
    /\ \A r \in rows : r.seq <= r.upd /\ r.upd <= appended
    /\ \A q, r \in rows : q.seq <= r.seq => q.upd <= r.upd

AnyCall == [stage : {"none", "asked", "locked", "counted"}, version : Nat,
            last_seq : Nat, body : SUBSET Int, counted : Nat]

SnapshotTypes ==
    /\ snapshots \subseteq [version : Nat, last_seq : Nat, body : SUBSET Int, counted : Nat]
    /\ openings \subseteq [from : Int, to : Int]
    /\ call \in [Author -> AnyCall]
    /\ version \in Nat
    /\ pass \in [Node -> [stage : {"idle", "deleting"}, doomed : SUBSET Nat]]

\* One author at a time holds the lock, and the next version.
Holds(a) == call[a].stage \in {"locked", "counted"}
OneLock == \A a, b \in Author : Holds(a) /\ Holds(b) => a = b
NextVersionIsHeld ==
    /\ \A a \in Author : Holds(a) => call[a].version = version + 1
    /\ \A s \in snapshots : s.version \in 1..version

\* What a listing doomed stays too old, however long ago it was made.
DoomedAreOld == \A n \in Node : \A v \in pass[n].doomed : v + MaxSnapshots <= version

VersionInv ==
    /\ SnapshotTypes /\ OneLock /\ NextVersionIsHeld /\ DoomedAreOld
    /\ NewestSnapshotsAreKept

\* A last_seq cuts the log between the updates that were counted, and the later
\* ones, which are all there.
Cuts(last_seq, counted) ==
    /\ last_seq <= MaxSeq
    /\ \A r \in rows : r.seq <= last_seq => r.upd <= counted
    /\ counted + 1 .. appended \subseteq Upds(rows)
SnapshotsCut == \A s \in snapshots : Cuts(s.last_seq, s.counted)
CallsCut ==
    \A a \in Author : call[a].stage = "counted" =>
        /\ Cuts(call[a].last_seq, call[a].counted)
        /\ \A s \in snapshots : s.last_seq <= call[a].last_seq
CutsFollowVersions ==
    \A s, t \in snapshots : s.version < t.version => s.last_seq <= t.last_seq
CursorIsInLog == cursor <= MaxSeq /\ (rows = {} => appended = 0)
PassedAreGot == \A r \in rows : r.seq <= cursor => r.upd \in got

LogInv ==
    /\ LogTypes /\ RowsInOrder
    /\ ~emptied => /\ SnapshotsCut /\ CallsCut /\ CutsFollowVersions
                   /\ CursorIsInLog /\ PassedAreGot

USE HistoryAssumption

\* The two invariants hold together: the second needs one lock at a time and the
\* next version to be held (PutSnapshot's FOR UPDATE).
THEOREM HistoryIsKept == Spec => [](VersionInv /\ LogInv)
\* Every set of natural numbers has a least member.
<1>a. \A S \in SUBSET Nat : S # {} => \E m \in S : \A n \in S : m <= n
  <2>. DEFINE Less == {p \in Nat \X Nat : p[1] < p[2]}
  <2>1. IsWellFoundedOn(Less, Nat)
    BY NatLessThanWellFounded DEF OpToRel
  <2>2. ASSUME NEW S \in SUBSET Nat, S # {} PROVE \E m \in S : \A n \in S : m <= n
    <3>. HIDE DEF Less
    <3>1. PICK m \in S : \A n \in S : <<n, m>> \notin Less
      BY <2>1, <2>2, WFMin
    <3>. USE DEF Less
    <3>2. ASSUME NEW n \in S PROVE m <= n
      <4>1. m \in Nat /\ n \in Nat /\ ~(n < m)
        BY <2>2, <3>1
      <4>. QED  BY <4>1
    <3>. QED  BY <3>2
  <2>. QED  BY <2>2
\* The first and the last of some rows are among them.
<1>b. ASSUME NEW R \in SUBSET Row, R # {}, NEW b \in Nat, \A r \in R : r.seq <= b
      PROVE  /\ \E r \in R : Greatest(Seqs(R)) = r.seq /\ \A q \in R : q.seq <= r.seq
             /\ Least(Upds(R)) \in Nat
  <2>. USE <1>b
  <2>1. /\ Seqs(R) \in SUBSET Nat /\ Seqs(R) # {} /\ \A n \in Seqs(R) : n <= b
        /\ Upds(R) \in SUBSET Nat /\ Upds(R) # {}
    BY DEF Seqs, Upds, Row
  <2>2. \E m \in Seqs(R) : \A n \in Seqs(R) : n <= m
    <3>. DEFINE Bounds == {m \in Nat : \A n \in Seqs(R) : n <= m}
    <3>1. PICK m \in Bounds : \A k \in Bounds : m <= k
      BY <2>1, <1>a
    <3>2. ASSUME m \notin Seqs(R) PROVE FALSE
      <4>1. PICK n \in Seqs(R) : n \in Nat
        BY <2>1
      <4>2. m - 1 \in Bounds
        BY <2>1, <3>1, <3>2, <4>1
      <4>. QED  BY <3>1, <4>2
    <3>. QED  BY <3>1, <3>2
  <2>3. Greatest(Seqs(R)) \in Seqs(R) /\ \A n \in Seqs(R) : n <= Greatest(Seqs(R))
    BY <2>2 DEF Greatest
  <2>4. \E m \in Upds(R) : \A n \in Upds(R) : m <= n
    BY <2>1, <1>a
  <2>5. Least(Upds(R)) \in Upds(R)
    BY <2>4 DEF Least
  <2>. QED  BY <2>1, <2>3, <2>5 DEF Seqs
\* MaxSeq is the seq of the last row, and bounds all.
<1>c. LogTypes /\ RowsInOrder =>
          /\ MaxSeq \in Nat /\ MaxSeq <= appended
          /\ \A r \in rows : r.seq <= MaxSeq
          /\ rows # {} => \E r \in rows : r.seq = MaxSeq
          /\ rows = {} => MaxSeq = 0
  <2>1. ASSUME LogTypes, RowsInOrder, rows # {}
        PROVE  \E r \in rows : MaxSeq = r.seq /\ \A q \in rows : q.seq <= r.seq
    <3>1. \A r \in rows : r.seq <= appended
      BY <2>1 DEF LogTypes, RowsInOrder, Row
    <3>. QED  BY <2>1, <3>1, <1>b DEF LogTypes, MaxSeq
  <2>2. LogTypes /\ rows = {} => MaxSeq = 0
    BY DEF MaxSeq
  <2>. QED  BY <2>1, <2>2 DEF LogTypes, RowsInOrder, Row
<1>1. Init => VersionInv /\ LogInv
  <2>. SUFFICES ASSUME Init PROVE VersionInv /\ LogInv
    OBVIOUS
  <2>1. NoCall \in AnyCall /\ NoCall.stage = "none"
    BY DEF NoCall, AnyCall
  <2>2. \A a \in Author : call[a] = NoCall
    BY DEF Init
  <2>3. SnapshotTypes
    BY <2>1 DEF Init, SnapshotTypes
  <2>4. OneLock /\ NextVersionIsHeld /\ DoomedAreOld /\ NewestSnapshotsAreKept
    BY <2>1, <2>2 DEF Init, OneLock, Holds, NextVersionIsHeld, DoomedAreOld,
                      NewestSnapshotsAreKept
  <2>5. LogTypes /\ RowsInOrder
    BY DEF Init, LogTypes, RowsInOrder
  <2>6. SnapshotsCut /\ CallsCut /\ CutsFollowVersions /\ CursorIsInLog /\ PassedAreGot
    BY <2>1, <2>2 DEF Init, SnapshotsCut, CallsCut, CutsFollowVersions, CursorIsInLog,
                      PassedAreGot, MaxSeq
  <2>. QED  BY <2>3, <2>4, <2>5, <2>6 DEF VersionInv, LogInv
\* A retention pass dooms by rank; no number comes back and none is skipped, so
\* what it doomed stays too old while versions are put.
<1>2. VersionInv /\ LogTypes /\ RowsInOrder /\ [Next]_vars => VersionInv'
  <2>. SUFFICES ASSUME VersionInv, LogTypes, RowsInOrder, [Next]_vars PROVE VersionInv'
    OBVIOUS
  <2>. USE DEF VersionInv
  \* Steps that put no snapshot: they delete what is doomed.
  <2>1. ASSUME SnapshotTypes', version' = version, snapshots' \subseteq snapshots,
               \A a \in Author : Holds(a)' => Holds(a) /\ call'[a].version = call[a].version,
               DoomedAreOld',
               \A s \in snapshots \ snapshots' : s.version + MaxSnapshots <= version
        PROVE  VersionInv'
    <3>1. OneLock' /\ NextVersionIsHeld'
      BY <2>1 DEF OneLock, NextVersionIsHeld
    <3>2. NewestSnapshotsAreKept'
      <4>1. ASSUME NEW v \in 1..version, v > version - MaxSnapshots
            PROVE  \E s \in snapshots' : s.version = v
        <5>1. PICK s \in snapshots : s.version = v
          BY <4>1 DEF NewestSnapshotsAreKept
        <5>2. ~(s.version + MaxSnapshots <= version)
          BY <4>1, <5>1 DEF SnapshotTypes
        <5>. QED  BY <2>1, <5>1, <5>2
      <4>. QED  BY <2>1, <4>1 DEF NewestSnapshotsAreKept
    <3>. QED  BY <2>1, <3>1, <3>2
  <2>2. ASSUME UNCHANGED <<version, snapshots, openings, call, pass>> PROVE VersionInv'
    BY <2>1, <2>2 DEF SnapshotTypes, DoomedAreOld, Holds
  <2>3. CASE AppendUpdate \/ Age \/ GetAttributionUpdates \/ UNCHANGED vars
    BY <2>2, <2>3 DEF AppendUpdate, Age, GetAttributionUpdates, vars
  \* Steps of a call before it commits.
  <2>4. ASSUME NEW a \in Author, NEW c \in AnyCall, call' = [call EXCEPT ![a] = c],
               c.stage \in {"locked", "counted"} =>
                  (Holds(a) \/ ~Locked)
                  /\ c.version = IF Holds(a) THEN call[a].version ELSE version + 1,
               UNCHANGED <<version, snapshots, openings, pass>>
        PROVE  VersionInv'
    <3>1. SnapshotTypes'
      BY <2>4 DEF SnapshotTypes
    <3>2. call'[a] = c /\ \A b \in Author : b # a => call'[b] = call[b]
      BY <2>4 DEF SnapshotTypes
    <3>3. OneLock'
      BY <2>4, <3>2 DEF OneLock, Holds, Locked
    <3>4. NextVersionIsHeld'
      BY <2>4, <3>2 DEF NextVersionIsHeld, Holds
    <3>5. DoomedAreOld' /\ NewestSnapshotsAreKept'
      BY <2>4 DEF DoomedAreOld, NewestSnapshotsAreKept
    <3>. QED  BY <3>1, <3>3, <3>4, <3>5
  <2>5. ASSUME NEW a \in Author, NEW body, Ask(a, body), body \subseteq Int PROVE VersionInv'
    <3>. DEFINE c == [call[a] EXCEPT !.stage = "asked", !.body = body]
    <3>1. call[a] \in AnyCall /\ call' = [call EXCEPT ![a] = c]
      BY <2>5 DEF Ask, SnapshotTypes
    <3>2. c \in AnyCall /\ c.stage = "asked"
      BY <2>5, <3>1 DEF AnyCall
    <3>. HIDE DEF c
    <3>. QED  BY <2>4, <2>5, <3>1, <3>2 DEF Ask
  <2>6. ASSUME NEW a \in Author, PublishSnapshot(a) PROVE VersionInv'
    <3>0. PICK o \in openings : \E to \in o.to .. appended : Ask(a, o.from .. to)
      BY <2>6 DEF PublishSnapshot
    <3>1. PICK to \in o.to .. appended : Ask(a, o.from .. to)
      BY <3>0
    <3>2. o.from .. to \subseteq Int
      BY <3>1 DEF SnapshotTypes
    <3>. QED  BY <2>5, <3>1, <3>2
  <2>7. ASSUME NEW a \in Author, RestoreSnapshot(a) PROVE VersionInv'
    BY <2>5, <2>7 DEF RestoreSnapshot, SnapshotTypes
  <2>8. ASSUME NEW a \in Author, PutLock(a) PROVE VersionInv'
    <3>. DEFINE c == [call[a] EXCEPT !.stage = "locked", !.version = version + 1]
    <3>1. call[a] \in AnyCall /\ version + 1 \in Nat /\ call' = [call EXCEPT ![a] = c]
      <4>1. call[a] \in AnyCall /\ version + 1 \in Nat
        BY DEF SnapshotTypes
      <4>. QED  BY <2>8, <4>1 DEF PutLock
    <3>2. c \in AnyCall /\ c.version = version + 1 /\ c.stage = "locked"
      BY <3>1 DEF AnyCall
    <3>3. ~Holds(a) /\ ~Locked
      BY <2>8 DEF PutLock, Holds
    <3>. HIDE DEF c
    <3>. QED  BY <2>4, <2>8, <3>1, <3>2, <3>3 DEF PutLock
  <2>9. ASSUME NEW a \in Author, PutCount(a) PROVE VersionInv'
    <3>. DEFINE c == [call[a] EXCEPT !.stage = "counted", !.last_seq = MaxSeq,
                                     !.counted = appended]
    <3>1. call[a] \in AnyCall /\ appended \in Nat /\ call' = [call EXCEPT ![a] = c]
      BY <2>9 DEF PutCount, SnapshotTypes, LogTypes
    <3>0. MaxSeq \in Nat
      BY <1>c
    <3>2. c \in AnyCall /\ c.version = call[a].version /\ Holds(a)
      BY <2>9, <3>0, <3>1 DEF AnyCall, PutCount, Holds
    <3>. HIDE DEF c
    <3>. QED  BY <2>4, <2>9, <3>1, <3>2 DEF PutCount
  <2>10. ASSUME NEW a \in Author, PutRollback(a) PROVE VersionInv'
    <3>1. NoCall \in AnyCall /\ NoCall.stage = "none"
      BY DEF NoCall, AnyCall
    <3>. QED  BY <2>4, <2>10, <3>1 DEF PutRollback
  \* The next version is put, and nothing doomed comes closer.
  <2>11. ASSUME NEW a \in Author, PutCommit(a) PROVE VersionInv'
    <3>. DEFINE c == call[a]
                new == [version |-> c.version, last_seq |-> c.last_seq, body |-> c.body,
                        counted |-> c.counted]
    <3>1. /\ c.stage = "counted" /\ c \in AnyCall
          /\ snapshots' = snapshots \cup {new}
          /\ version' = c.version
          /\ call' = [call EXCEPT ![a] = NoCall]
          /\ UNCHANGED <<openings, pass>>
      BY <2>11 DEF PutCommit, SnapshotTypes
    <3>2. c.version = version + 1 /\ \A b \in Author : Holds(b) => b = a
      BY <3>1 DEF NextVersionIsHeld, OneLock, Holds
    <3>3. /\ new \in [version : Nat, last_seq : Nat, body : SUBSET Int, counted : Nat]
          /\ new.version = version + 1
      BY <3>1, <3>2 DEF AnyCall
    <3>4. NoCall \in AnyCall /\ NoCall.stage = "none"
      BY DEF NoCall, AnyCall
    <3>. HIDE DEF c, new
    <3>5. SnapshotTypes'
      BY <3>1, <3>2, <3>3, <3>4 DEF SnapshotTypes
    <3>6. \A b \in Author : ~Holds(b)'
      BY <3>1, <3>2, <3>4 DEF Holds, SnapshotTypes
    <3>7. OneLock' /\ NextVersionIsHeld'
      BY <3>1, <3>2, <3>3, <3>6 DEF OneLock, NextVersionIsHeld, SnapshotTypes
    <3>8. DoomedAreOld'
      BY <3>1, <3>2 DEF DoomedAreOld, SnapshotTypes
    <3>9. NewestSnapshotsAreKept'
      <4>0. version' = version + 1 /\ version \in Nat
        BY <3>1, <3>2 DEF SnapshotTypes
      <4>1. ASSUME NEW v \in 1..version', v > version' - MaxSnapshots
            PROVE  \E s \in snapshots' : s.version = v
        <5>1. CASE v = version + 1
          BY <3>1, <3>3, <5>1
        <5>2. CASE v # version + 1
          <6>1. v \in 1..version /\ v > version - MaxSnapshots
            BY <4>0, <4>1, <5>2
          <6>. QED  BY <3>1, <6>1 DEF NewestSnapshotsAreKept
        <5>. QED  BY <5>1, <5>2
      <4>. QED  BY <4>1 DEF NewestSnapshotsAreKept
    <3>. QED  BY <3>5, <3>7, <3>8, <3>9
  \* There are only as many versions from v on as there are numbers.
  <2>12. ASSUME NEW n \in Node, ListExcess(n) PROVE VersionInv'
    <3>. DEFINE doomed == {v \in Versions : Rank(v) > MaxSnapshots}
    <3>1. /\ pass' = [pass EXCEPT ![n] = [stage |-> "deleting", doomed |-> doomed]]
          /\ UNCHANGED <<version, snapshots, openings, call>>
      BY <2>12 DEF ListExcess
    <3>2. Versions \subseteq 1..version /\ version \in Nat
      BY DEF Versions, NextVersionIsHeld, SnapshotTypes
    <3>3. ASSUME NEW v \in doomed PROVE v \in Nat /\ v + MaxSnapshots <= version
      <4>. DEFINE S == {w \in Versions : v <= w}
      <4>1. v \in Nat /\ v <= version /\ Cardinality(S) > MaxSnapshots
        BY <3>2, <3>3 DEF Rank
      <4>2. S \in SUBSET (v .. version)
        <5>1. \A w \in S : w \in v .. version
          BY <3>2, <4>1
        <5>. QED  BY <5>1
      <4>3. IsFiniteSet(v .. version) /\ Cardinality(v .. version) = version - v + 1
        BY <3>2, <4>1, FS_Interval
      <4>4. Cardinality(S) <= Cardinality(v .. version) /\ Cardinality(S) \in Nat
        BY <4>2, <4>3, FS_Subset, FS_CardinalityType
      <4>. HIDE DEF S
      <4>. QED  BY <3>2, <4>1, <4>3, <4>4
    <3>. HIDE DEF doomed
    <3>4. SnapshotTypes'
      BY <3>1, <3>3 DEF SnapshotTypes
    <3>5. DoomedAreOld'
      BY <3>1, <3>3 DEF DoomedAreOld, SnapshotTypes
    <3>. QED  BY <2>1, <3>1, <3>4, <3>5 DEF Holds
  <2>13. ASSUME NEW n \in Node, DeleteSnapshot(n) PROVE VersionInv'
    <3>1. PICK v \in pass[n].doomed :
            /\ pass' = [pass EXCEPT ![n] = [pass[n] EXCEPT !.doomed = pass[n].doomed \ {v}]]
            /\ snapshots' = {s \in snapshots : s.version # v} \/ UNCHANGED snapshots
            /\ UNCHANGED <<version, openings, call>>
      BY <2>13 DEF DeleteSnapshot
    <3>2. /\ v + MaxSnapshots <= version
          /\ snapshots' \subseteq snapshots
          /\ \A s \in snapshots \ snapshots' : s.version = v
      BY <3>1 DEF DoomedAreOld
    <3>3. /\ pass'[n] = [pass[n] EXCEPT !.doomed = pass[n].doomed \ {v}]
          /\ pass[n] \in [stage : {"idle", "deleting"}, doomed : SUBSET Nat]
          /\ \A m \in Node : m # n => pass'[m] = pass[m]
      BY <3>1 DEF SnapshotTypes
    <3>4. \A m \in Node : pass'[m].doomed \subseteq pass[m].doomed
      BY <3>3
    <3>5. SnapshotTypes' /\ DoomedAreOld'
      BY <3>1, <3>2, <3>3, <3>4 DEF SnapshotTypes, DoomedAreOld
    <3>. QED  BY <2>1, <3>1, <3>2, <3>5 DEF Holds
  <2>14. ASSUME NEW n \in Node, PruneUpdates(n) PROVE VersionInv'
    <3>1. /\ openings' = IF rows' = rows THEN openings ELSE openings \cup
                {[from |-> IF rows' = {} THEN appended + 1 ELSE Least(Upds(rows')),
                  to |-> appended]}
          /\ pass' = [pass EXCEPT ![n] = [pass[n] EXCEPT !.stage = "idle"]]
          /\ UNCHANGED <<version, snapshots, call>>
      BY <2>14 DEF PruneUpdates, PruneTo
    <3>2. openings' \subseteq [from : Int, to : Int]
      <4>1. appended \in Int /\ appended + 1 \in Int
        BY DEF LogTypes
      <4>2. rows' \subseteq rows
        BY <2>14 DEF PruneUpdates, PruneTo, Pruned
      <4>3. /\ rows' \in SUBSET Row /\ appended \in Nat
            /\ \A r \in rows' : r.seq <= appended
        BY <4>2 DEF LogTypes, RowsInOrder, Row
      <4>4. rows' # {} => Least(Upds(rows')) \in Nat
        BY <4>3, <1>b
      <4>5. (IF rows' = {} THEN appended + 1 ELSE Least(Upds(rows'))) \in Int
        BY <4>1, <4>4
      <4>. QED  BY <3>1, <4>1, <4>5 DEF SnapshotTypes
    <3>3. /\ pass'[n] = [pass[n] EXCEPT !.stage = "idle"]
          /\ pass[n] \in [stage : {"idle", "deleting"}, doomed : SUBSET Nat]
          /\ \A m \in Node : m # n => pass'[m] = pass[m]
      BY <3>1 DEF SnapshotTypes
    <3>4. \A m \in Node : pass'[m].doomed = pass[m].doomed
      BY <3>3
    <3>5. SnapshotTypes' /\ DoomedAreOld'
      BY <3>1, <3>2, <3>3, <3>4 DEF SnapshotTypes, DoomedAreOld
    <3>. QED  BY <2>1, <3>1, <3>5 DEF Holds
  <2>15. ASSUME NEW n \in Node, PassFails(n) PROVE VersionInv'
    <3>1. /\ pass' = [pass EXCEPT ![n] = [stage |-> "idle", doomed |-> {}]]
          /\ UNCHANGED <<version, snapshots, openings, call>>
      BY <2>15 DEF PassFails
    <3>2. SnapshotTypes' /\ DoomedAreOld'
      BY <3>1 DEF SnapshotTypes, DoomedAreOld
    <3>. QED  BY <2>1, <3>1, <3>2 DEF Holds
  <2>. QED
    BY <2>3, <2>6, <2>7, <2>8, <2>9, <2>10, <2>11, <2>12, <2>13, <2>14, <2>15 DEF Next
\* The log is in order, and whatever a step appends, prunes or reads, each
\* last_seq and the cursor divide it as they did.
<1>3. VersionInv /\ LogInv /\ [Next]_vars => LogInv'
  <2>. SUFFICES ASSUME VersionInv, LogInv, [Next]_vars PROVE LogInv'
    OBVIOUS
  <2>. USE DEF VersionInv, LogInv
  <2>0. /\ MaxSeq \in Nat /\ MaxSeq <= appended /\ appended \in Nat
        /\ \A r \in rows : r.seq <= MaxSeq
        /\ rows # {} => \E r \in rows : r.seq = MaxSeq
        /\ rows = {} => MaxSeq = 0
    BY <1>c DEF LogTypes
  <2>0p. (LogTypes /\ RowsInOrder =>
              /\ MaxSeq \in Nat /\ MaxSeq <= appended
              /\ \A r \in rows : r.seq <= MaxSeq
              /\ rows # {} => \E r \in rows : r.seq = MaxSeq
              /\ rows = {} => MaxSeq = 0)'
    BY <1>c, PTL
  \* The log stands still: snapshots may go, calls may end.
  <2>1. ASSUME UNCHANGED <<rows, appended, emptied>>, aged' \in Nat,
               UNCHANGED <<cursor, got>>, snapshots' \subseteq snapshots,
               \A a \in Author : call'[a].stage = "counted" =>
                   \/ call'[a] = call[a]
                   \/ call'[a].last_seq = MaxSeq /\ call'[a].counted = appended
        PROVE  LogInv'
    <3>1. LogTypes' /\ RowsInOrder' /\ MaxSeq' = MaxSeq
      BY <2>1 DEF LogTypes, RowsInOrder, MaxSeq
    <3>. SUFFICES ASSUME ~emptied'
                  PROVE  /\ SnapshotsCut' /\ CallsCut' /\ CutsFollowVersions'
                         /\ CursorIsInLog' /\ PassedAreGot'
      BY <3>1
    <3>2. \A n, c : Cuts(n, c)' <=> Cuts(n, c)
      BY <2>1, <3>1 DEF Cuts
    <3>3. Cuts(MaxSeq, appended)
      BY <2>0 DEF Cuts, RowsInOrder
    <3>4. \A s \in snapshots : s.last_seq <= MaxSeq
      BY <2>1 DEF SnapshotsCut, Cuts
    <3>5. SnapshotsCut' /\ CutsFollowVersions' /\ CursorIsInLog' /\ PassedAreGot'
      BY <2>1, <3>1, <3>2 DEF SnapshotsCut, CutsFollowVersions, CursorIsInLog, PassedAreGot
    <3>6. ASSUME NEW a \in Author, call'[a].stage = "counted"
          PROVE  /\ Cuts(call'[a].last_seq, call'[a].counted)
                 /\ \A s \in snapshots : s.last_seq <= call'[a].last_seq
      BY <2>1, <3>3, <3>4, <3>6 DEF CallsCut
    <3>7. CallsCut'
      <4>1. ASSUME NEW a \in Author, call'[a].stage = "counted", NEW n, n = call'[a].last_seq,
                   NEW c, c = call'[a].counted
            PROVE  Cuts(n, c)'
        BY <3>2, <3>6, <4>1
      <4>2. ASSUME NEW a \in Author, call'[a].stage = "counted"
            PROVE  Cuts(call[a].last_seq, call[a].counted)'
        <5>1. PICK n, c : n = call'[a].last_seq /\ c = call'[a].counted
          OBVIOUS
        <5>2. Cuts(n, c)'
          BY <4>1, <4>2, <5>1
        <5>. QED  BY <5>1, <5>2 DEF Cuts
      <4>. QED  BY <2>1, <3>6, <4>2 DEF CallsCut
    <3>. QED  BY <3>5, <3>7
  \* A new row is behind every cut and the cursor.
  <2>2. CASE AppendUpdate
    <3>. DEFINE row == [seq |-> MaxSeq + 1, upd |-> appended + 1]
    <3>1. /\ appended' = appended + 1
          /\ rows' = rows \cup {row}
          /\ UNCHANGED <<aged, version, snapshots, call, cursor, got, emptied>>
      BY <2>2 DEF AppendUpdate, readVars
    <3>2. row \in Row /\ row.seq = MaxSeq + 1 /\ row.upd = appended + 1
      BY <2>0 DEF Row
    <3>. HIDE DEF row
    <3>3. LogTypes'
      BY <2>0, <3>1, <3>2 DEF LogTypes
    <3>4. RowsInOrder'
      <4>1. \A r \in rows : r.seq \in Nat /\ r.upd \in Nat
        BY DEF LogTypes, Row
      <4>2. \A r \in rows' : r.seq <= r.upd /\ r.upd <= appended'
        BY <2>0, <3>1, <3>2, <4>1 DEF RowsInOrder
      <4>3. \A q, r \in rows' : q.seq <= r.seq => q.upd <= r.upd
        BY <2>0, <3>1, <3>2, <4>1 DEF RowsInOrder
      <4>. QED  BY <4>2, <4>3 DEF RowsInOrder
    <3>5. MaxSeq' \in Nat /\ MaxSeq < MaxSeq' /\ rows' # {}
      BY <2>0, <2>0p, <3>1, <3>2, <3>3, <3>4
    <3>. SUFFICES ASSUME ~emptied'
                  PROVE  /\ SnapshotsCut' /\ CallsCut' /\ CutsFollowVersions'
                         /\ CursorIsInLog' /\ PassedAreGot'
      BY <3>3, <3>4
    <3>6. ASSUME NEW n \in Nat, NEW c \in Nat, Cuts(n, c) PROVE Cuts(n, c)'
      <4>1. n <= MaxSeq'
        BY <2>0, <3>5, <3>6 DEF Cuts
      <4>2. \A r \in rows' : r.seq <= n => r.upd <= c
        BY <2>0, <3>1, <3>2, <3>6 DEF Cuts
      <4>3. c + 1 .. appended' \subseteq Upds(rows')
        <5>1. Upds(rows) \cup {appended + 1} \subseteq Upds(rows')
          BY <3>1, <3>2 DEF Upds
        <5>2. c + 1 .. appended' \subseteq (c + 1 .. appended) \cup {appended + 1}
          BY <2>0, <3>1
        <5>. QED  BY <3>6, <5>1, <5>2 DEF Cuts
      <4>. QED  BY <4>1, <4>2, <4>3 DEF Cuts
    <3>7. SnapshotsCut'
      BY <3>1, <3>6 DEF SnapshotsCut, SnapshotTypes
    <3>8. CallsCut'
      BY <3>1, <3>6 DEF CallsCut, SnapshotTypes, AnyCall
    <3>9. CutsFollowVersions' /\ CursorIsInLog'
      BY <2>0, <3>1, <3>5 DEF CutsFollowVersions, CursorIsInLog, LogTypes
    <3>10. PassedAreGot'
      BY <2>0, <3>1, <3>2 DEF PassedAreGot, CursorIsInLog, LogTypes
    <3>. QED  BY <3>7, <3>8, <3>9, <3>10
  <2>3. CASE Age
    BY <2>1, <2>3 DEF Age, readVars, LogTypes
  <2>4. ASSUME NEW a \in Author, PublishSnapshot(a) \/ RestoreSnapshot(a) PROVE LogInv'
    <3>1. PICK body : Ask(a, body)
      BY <2>4 DEF PublishSnapshot, RestoreSnapshot
    <3>2. \A b \in Author : call'[b].stage = "counted" => call'[b] = call[b]
      BY <3>1 DEF Ask, SnapshotTypes, AnyCall
    <3>. QED  BY <2>1, <3>1, <3>2 DEF Ask, logVars, readVars, LogTypes
  <2>5. ASSUME NEW a \in Author, PutLock(a) \/ PutRollback(a) PROVE LogInv'
    <3>1. \A b \in Author : call'[b].stage = "counted" => call'[b] = call[b]
      BY <2>5 DEF PutLock, PutRollback, NoCall, SnapshotTypes, AnyCall
    <3>. QED  BY <2>1, <2>5, <3>1 DEF PutLock, PutRollback, logVars, readVars, LogTypes
  <2>6. ASSUME NEW a \in Author, PutCount(a) PROVE LogInv'
    <3>1. call[a] \in AnyCall
          /\ call' = [call EXCEPT ![a] = [call[a] EXCEPT !.stage = "counted", !.last_seq = MaxSeq,
                                                         !.counted = appended]]
      BY <2>6 DEF PutCount, SnapshotTypes
    <3>2. /\ \A b \in Author : b # a => call'[b] = call[b]
          /\ call'[a].last_seq = MaxSeq /\ call'[a].counted = appended
      BY <3>1 DEF SnapshotTypes, AnyCall
    <3>. QED  BY <2>1, <2>6, <3>2 DEF PutCount, logVars, readVars, LogTypes
  \* The snapshot that is put cuts where its call did, behind all others.
  <2>7. ASSUME NEW a \in Author, PutCommit(a) PROVE LogInv'
    <3>. DEFINE c == call[a]
                new == [version |-> c.version, last_seq |-> c.last_seq, body |-> c.body,
                        counted |-> c.counted]
    <3>1. /\ c.stage = "counted"
          /\ snapshots' = snapshots \cup {new}
          /\ call' = [call EXCEPT ![a] = NoCall]
          /\ UNCHANGED <<rows, appended, aged, cursor, got, emptied>>
      BY <2>7 DEF PutCommit, logVars, readVars
    <3>2. /\ new.last_seq = c.last_seq /\ new.counted = c.counted
          /\ new.version = version + 1
          /\ \A b \in Author : Holds(b) => b = a
      BY <3>1 DEF NextVersionIsHeld, OneLock, Holds
    <3>3. \A s \in snapshots : s.version < new.version /\ ~(new.version < s.version)
      BY <3>2 DEF NextVersionIsHeld, SnapshotTypes
    <3>. HIDE DEF new
    <3>4. LogTypes' /\ RowsInOrder' /\ MaxSeq' = MaxSeq
      BY <3>1 DEF LogTypes, RowsInOrder, MaxSeq
    <3>. SUFFICES ASSUME ~emptied'
                  PROVE  /\ SnapshotsCut' /\ CallsCut' /\ CutsFollowVersions'
                         /\ CursorIsInLog' /\ PassedAreGot'
      BY <3>4
    <3>5. \A n, k : Cuts(n, k)' <=> Cuts(n, k)
      BY <3>1, <3>4 DEF Cuts
    <3>6. Cuts(new.last_seq, new.counted) /\ \A s \in snapshots : s.last_seq <= new.last_seq
      BY <3>1, <3>2 DEF CallsCut
    <3>7. \A s \in snapshots' : Cuts(s.last_seq, s.counted)
      BY <3>1, <3>6 DEF SnapshotsCut
    <3>8. SnapshotsCut'
      BY <3>5, <3>7 DEF SnapshotsCut
    <3>9. CallsCut'
      <4>1. \A b \in Author : call'[b].stage # "counted"
        BY <3>1, <3>2 DEF Holds, NoCall, SnapshotTypes
      <4>. QED  BY <4>1 DEF CallsCut
    <3>10. CutsFollowVersions'
      <4>1. ASSUME NEW s \in snapshots', NEW t \in snapshots', s.version < t.version
            PROVE  s.last_seq <= t.last_seq
        <5>1. CASE s \in snapshots /\ t \in snapshots
          BY <3>1, <4>1, <5>1 DEF CutsFollowVersions
        <5>2. CASE s \in snapshots /\ t = new
          BY <3>6, <5>2
        <5>3. s # new
          BY <3>1, <3>2, <3>3, <4>1 DEF SnapshotTypes
        <5>. QED  BY <3>1, <5>1, <5>2, <5>3
      <4>. QED  BY <4>1 DEF CutsFollowVersions
    <3>11. CursorIsInLog' /\ PassedAreGot'
      BY <3>1, <3>4 DEF CursorIsInLog, PassedAreGot
    <3>. QED  BY <3>8, <3>9, <3>10, <3>11
  <2>8. ASSUME NEW n \in Node, ListExcess(n) \/ DeleteSnapshot(n) \/ PassFails(n) PROVE LogInv'
    <3>1. snapshots' \subseteq snapshots
      BY <2>8 DEF ListExcess, DeleteSnapshot, PassFails
    <3>. QED
      BY <2>1, <2>8, <3>1
      DEF ListExcess, DeleteSnapshot, PassFails, logVars, readVars, LogTypes
  \* The rows that are pruned are in front of every cut, and a row behind one that
  \* stays stays.
  <2>9. ASSUME NEW n \in Node, PruneUpdates(n) PROVE LogInv'
    <3>0. /\ Oldest \in Nat /\ \A s \in snapshots : Oldest <= s.last_seq
          /\ snapshots = {} => Oldest = 0
          /\ snapshots # {} => \E s \in snapshots : Oldest = s.last_seq
      <4>1. CASE snapshots = {}
        BY <4>1 DEF Oldest
      <4>2. CASE snapshots # {}
        <5>1. LastSeqs \in SUBSET Nat /\ LastSeqs # {}
          BY <4>2 DEF LastSeqs, SnapshotTypes
        <5>2. \E m \in LastSeqs : \A k \in LastSeqs : m <= k
          BY <5>1, <1>a
        <5>3. Oldest \in LastSeqs /\ \A k \in LastSeqs : Oldest <= k
          BY <4>2, <5>2 DEF Oldest, Least
        <5>. QED  BY <4>2, <5>1, <5>3 DEF LastSeqs
      <4>. QED  BY <4>1, <4>2
    <3>1. /\ rows' = {r \in rows : ~(r.upd <= aged /\ r.seq <= Oldest)}
          /\ emptied' = (emptied \/ (rows # {} /\ rows' = {}))
          /\ UNCHANGED <<appended, aged, version, snapshots, call, cursor, got>>
      BY <2>9 DEF PruneUpdates, PruneTo, Pruned, readVars
    <3>2. LogTypes' /\ RowsInOrder'
      <4>1. emptied' \in BOOLEAN
        BY <3>1
      <4>2. rows' \subseteq rows
        BY <3>1
      <4>3. LogTypes'
        BY <3>1, <4>1, <4>2 DEF LogTypes
      <4>. QED  BY <3>1, <4>2, <4>3 DEF RowsInOrder
    <3>. SUFFICES ASSUME ~emptied'
                  PROVE  /\ SnapshotsCut' /\ CallsCut' /\ CutsFollowVersions'
                         /\ CursorIsInLog' /\ PassedAreGot'
      BY <3>2
    <3>3. ~emptied /\ (rows = {} \/ rows' # {})
      BY <3>1
    <3>4. MaxSeq' = MaxSeq /\ (rows' = {} => rows = {})
      <4>1. CASE rows = {}
        BY <3>1, <4>1 DEF MaxSeq
      <4>2. CASE rows # {}
        <5>1. PICK r \in rows : r.seq = MaxSeq
          BY <2>0, <4>2
        <5>2. PICK q \in rows' : TRUE
          BY <3>3, <4>2
        <5>3. q \in rows /\ ~(q.upd <= aged /\ q.seq <= Oldest)
          BY <3>1, <5>2
        <5>4. q.seq <= r.seq /\ q.upd <= r.upd
          BY <2>0, <5>1, <5>3 DEF RowsInOrder
        <5>5. r \in rows'
          <6>. HIDE DEF Oldest
          <6>1. /\ r.seq \in Nat /\ r.upd \in Nat /\ q.seq \in Nat /\ q.upd \in Nat
                /\ aged \in Nat /\ Oldest \in Nat
            BY <3>0, <5>1, <5>3 DEF LogTypes, Row
          <6>. QED  BY <3>1, <5>1, <5>3, <5>4, <6>1
        <5>6. MaxSeq' \in Nat /\ r.seq <= MaxSeq'
          BY <2>0p, <3>2, <5>5
        <5>7. PICK z \in rows' : z.seq = MaxSeq'
          BY <2>0p, <3>2, <5>5
        <5>8. z.seq <= MaxSeq
          BY <2>0, <3>1, <5>7
        <5>. QED  BY <2>0, <5>1, <5>5, <5>6, <5>7, <5>8
      <4>. QED  BY <4>1, <4>2
    \* What is counted after the oldest last_seq stays.
    <3>5. ASSUME NEW m \in Nat, NEW k \in Nat, Cuts(m, k), Oldest <= m PROVE Cuts(m, k)'
      <4>1. m <= MaxSeq' /\ \A r \in rows' : r.seq <= m => r.upd <= k
        BY <3>1, <3>4, <3>5 DEF Cuts
      <4>2. ASSUME NEW u \in k + 1 .. appended PROVE u \in Upds(rows')
        <5>1. PICK r \in rows : r.upd = u
          BY <3>5, <4>2 DEF Cuts, Upds
        <5>2. ~(r.seq <= Oldest)
          <6>1. r.seq \in Nat /\ ~(r.seq <= m)
            BY <3>5, <4>2, <5>1 DEF Cuts, LogTypes, Row
          <6>. QED  BY <3>0, <3>5, <6>1
        <5>3. r \in rows'
          BY <3>1, <5>1, <5>2
        <5>. QED  BY <5>1, <5>3 DEF Upds
      <4>. QED  BY <3>1, <4>1, <4>2 DEF Cuts
    <3>7. SnapshotsCut'
      <4>1. ASSUME NEW s \in snapshots PROVE Cuts(s.last_seq, s.counted)'
        <5>1. PICK m \in Nat, k \in Nat : m = s.last_seq /\ k = s.counted
          BY DEF SnapshotTypes
        <5>2. Cuts(m, k)'
          BY <3>0, <3>3, <3>5, <4>1, <5>1 DEF SnapshotsCut
        <5>. QED  BY <5>1, <5>2
      <4>. QED  BY <3>1, <4>1 DEF SnapshotsCut
    <3>8. CallsCut'
      <4>1. ASSUME NEW a \in Author, call[a].stage = "counted"
            PROVE  Cuts(call[a].last_seq, call[a].counted)'
        <5>1. PICK m \in Nat, k \in Nat : m = call[a].last_seq /\ k = call[a].counted
          BY DEF SnapshotTypes, AnyCall
        <5>2. Cuts(m, k) /\ \A s \in snapshots : s.last_seq <= m
          BY <3>3, <4>1, <5>1 DEF CallsCut
        <5>3. Oldest <= m
          BY <3>0, <5>2
        <5>4. Cuts(m, k)'
          BY <3>5, <5>2, <5>3
        <5>. QED  BY <3>1, <5>1, <5>4
      <4>. QED  BY <3>1, <4>1 DEF CallsCut
    <3>9. CutsFollowVersions' /\ CursorIsInLog' /\ PassedAreGot'
      BY <3>1, <3>3, <3>4 DEF CutsFollowVersions, CursorIsInLog, PassedAreGot
    <3>. QED  BY <3>7, <3>8, <3>9
  \* The page is what follows the cursor, without a gap.
  <2>10. CASE GetAttributionUpdates
    <3>1. /\ Page # {} /\ got' = got \cup Upds(Page) /\ cursor' = Greatest(Seqs(Page))
          /\ UNCHANGED <<rows, appended, aged, snapshots, call, emptied>>
      BY <2>10 DEF GetAttributionUpdates, logVars
    <3>2. /\ Page \in SUBSET Row /\ Page \subseteq rows
          /\ \A r \in Page : r.seq <= MaxSeq
      BY <2>0 DEF Page, LogTypes
    <3>3. PICK r \in Page : cursor' = r.seq
      BY <2>0, <3>1, <3>2, <1>b
    <3>4. /\ r \in rows /\ r.seq \in Nat /\ cursor \in Nat /\ cursor < r.seq
          /\ Cardinality(Seqs(rows) \cap (cursor + 1 .. r.seq)) <= PageSize
      BY <3>3 DEF Page, LogTypes, Row
    <3>5. LogTypes' /\ RowsInOrder' /\ MaxSeq' = MaxSeq
      BY <3>1, <3>3, <3>4 DEF LogTypes, RowsInOrder, MaxSeq
    <3>. SUFFICES ASSUME ~emptied'
                  PROVE  /\ SnapshotsCut' /\ CallsCut' /\ CutsFollowVersions'
                         /\ CursorIsInLog' /\ PassedAreGot'
      BY <3>5
    <3>6. SnapshotsCut' /\ CallsCut' /\ CutsFollowVersions' /\ CursorIsInLog'
      BY <2>0, <3>1, <3>3, <3>4, <3>5
      DEF SnapshotsCut, CallsCut, Cuts, CutsFollowVersions, CursorIsInLog
    <3>7. ASSUME NEW q \in rows, q.seq <= cursor' PROVE q.upd \in got'
      <4>1. CASE q.seq <= cursor
        BY <3>1, <4>1 DEF PassedAreGot
      <4>2. CASE ~(q.seq <= cursor)
        <5>1. q.seq \in Nat /\ q.seq <= r.seq
          BY <3>3, <3>7 DEF LogTypes, Row
        <5>. DEFINE Near == Seqs(rows) \cap (cursor + 1 .. q.seq)
                    Far == Seqs(rows) \cap (cursor + 1 .. r.seq)
        <5>2. IsFiniteSet(cursor + 1 .. r.seq)
          BY <3>4, FS_Interval
        <5>3. IsFiniteSet(Far) /\ Near \in SUBSET Far
          BY <3>4, <5>1, <5>2, FS_Subset
        <5>4. /\ Cardinality(Near) <= Cardinality(Far)
              /\ Cardinality(Near) \in Nat /\ Cardinality(Far) \in Nat
          BY <5>3, FS_Subset, FS_CardinalityType
        <5>5. Cardinality(Far) <= PageSize
          BY <3>4
        <5>6. Cardinality(Near) <= PageSize
          <6>. HIDE DEF Near, Far
          <6>. QED  BY <5>4, <5>5
        <5>7. q \in Page
          BY <3>4, <4>2, <5>1, <5>6 DEF Page
        <5>. QED  BY <3>1, <5>7 DEF Upds
      <4>. QED  BY <4>1, <4>2
    <3>. QED  BY <3>1, <3>6, <3>7 DEF PassedAreGot
  <2>11. CASE UNCHANGED vars
    BY <2>1, <2>11 DEF vars, LogTypes
  <2>. QED
    BY <2>2, <2>3, <2>4, <2>5, <2>6, <2>7, <2>8, <2>9, <2>10, <2>11 DEF Next
<1>4. VersionInv /\ LogInv /\ [Next]_vars => VersionInv' /\ LogInv'
  BY <1>2, <1>3 DEF LogInv
<1>. QED  BY <1>1, <1>4, PTL DEF Spec

\* RunRetentionPass deletes from a listing that others may have outdated, one
\* version at a time; the newest MaxSnapshots are never among what it deletes.
THEOREM NewestVersionsStay == Spec => []NewestSnapshotsAreKept
<1>1. VersionInv => NewestSnapshotsAreKept
  BY DEF VersionInv
<1>. QED  BY <1>1, HistoryIsKept, PTL

\* PutSnapshot reads MAX(seq) under the lock of the documents row: versions are in
\* the order of their last_seq, which ListSnapshots relies on to cut the log.
THEOREM VersionsInOrder == Spec => []VersionsFollowLog
<1>1. LogInv => VersionsFollowLog
  BY DEF LogInv, CutsFollowVersions, VersionsFollowLog
<1>. QED  BY <1>1, HistoryIsKept, PTL

\* PruneUpdates deletes up to the least last_seq of all: what was persisted after
\* a snapshot that is there was counted, is there too.
THEOREM SnapshotsRollForward == Spec => []LaterUpdatesAreKept
<1>1. LogInv => LaterUpdatesAreKept
  BY DEF LogInv, SnapshotsCut, Cuts, LaterUpdatesAreKept
<1>. QED  BY <1>1, HistoryIsKept, PTL

\* GetAttributionUpdates hands out pages in the order of seq: a reader that goes on
\* from the last one misses nothing, while rows are appended and pruned.
THEOREM ReadersMissNothing == Spec => []PagesMissNothing
<1>1. LogInv => PagesMissNothing
  BY DEF LogInv, PassedAreGot, PagesMissNothing
<1>. QED  BY <1>1, HistoryIsKept, PTL
=============================================================================
