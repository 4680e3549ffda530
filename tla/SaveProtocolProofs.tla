-------------------------- MODULE SaveProtocolProofs --------------------------
(***************************************************************************)
(* Proofs about SaveProtocol: types, that no edit is forgotten, and that   *)
(* "saved" is true of what the socket carried, for any number of edits,    *)
(* closed sockets and changes of role, whatever the server drops or fails  *)
(* to store.                                                               *)
(***************************************************************************)
EXTENDS SaveProtocol, SequenceTheorems, FiniteSetTheorems, TLAPS

\* Nothing is on the wire of a client whose socket is not open.  A new socket
\* starts an empty wire, so without this an edit could be lost with the old.
WireNeedsSocket == link # "open" => up = <<>>

SaveInv == TypeOK /\ WireNeedsSocket /\ NoEditIsForgotten

USE MaxEditsAssumption, SaveProtocolAssumption

-----------------------------------------------------------------------------
LEMMA JoinedBatches ==
    ASSUME NEW s \in Seq(Batch), NEW t \in Seq(Batch), NEW b \in Batch
    PROVE  /\ InBatches(<<>>) = {} /\ InBatches(<<b>>) = b
           /\ InBatches(s \o t) = InBatches(s) \cup InBatches(t)
           /\ Append(s, b) = s \o <<b>>
           /\ SubSeq(s \o t, Len(s) + 1, Len(s \o t)) = t
<1>1. InBatches(<<>>) = {} /\ InBatches(<<b>>) = b
  BY DEF InBatches
<1>2. InBatches(s \o t) = InBatches(s) \cup InBatches(t)
  <2>1. /\ DOMAIN (s \o t) = 1..(Len(s) + Len(t))
        /\ DOMAIN s = 1..Len(s) /\ DOMAIN t = 1..Len(t)
        /\ Len(s) \in Nat /\ Len(t) \in Nat
        /\ \A i \in 1..Len(s) : (s \o t)[i] = s[i]
        /\ \A i \in 1..Len(t) : (s \o t)[Len(s) + i] = t[i]
    BY ConcatProperties, LenProperties
  <2>2. \A i \in DOMAIN (s \o t) :
           \/ i \in DOMAIN s /\ (s \o t)[i] = s[i]
           \/ i - Len(s) \in DOMAIN t /\ (s \o t)[i] = t[i - Len(s)]
    BY <2>1, ConcatProperties
  <2>3. \A i \in DOMAIN t : Len(s) + i \in DOMAIN (s \o t)
    BY <2>1
  <2>4. DOMAIN s \subseteq DOMAIN (s \o t)
    BY <2>1
  <2>5. ASSUME NEW e PROVE e \in InBatches(s \o t) <=> e \in InBatches(s) \cup InBatches(t)
    <3>1. CASE e \in InBatches(s \o t)
      <4>1. PICK i \in DOMAIN (s \o t) : e \in (s \o t)[i]
        BY <3>1 DEF InBatches
      <4>. QED  BY <2>2, <4>1 DEF InBatches
    <3>2. CASE e \in InBatches(s)
      <4>1. PICK i \in DOMAIN s : e \in s[i]
        BY <3>2 DEF InBatches
      <4>. QED  BY <2>1, <2>4, <4>1 DEF InBatches
    <3>3. CASE e \in InBatches(t)
      <4>1. PICK i \in DOMAIN t : e \in t[i]
        BY <3>3 DEF InBatches
      <4>. QED  BY <2>1, <2>3, <4>1 DEF InBatches
    <3>. QED  BY <3>1, <3>2, <3>3
  <2>. QED  BY <2>5
<1>3. Append(s, b) = s \o <<b>>
  OBVIOUS
<1>4. SubSeq(s \o t, Len(s) + 1, Len(s \o t)) = t
  OBVIOUS
<1>. QED  BY <1>1, <1>2, <1>3, <1>4

\* A queue of batches holds edits, those of its first batch and of the others.
LEMMA QueuedBatches ==
    ASSUME NEW s \in Seq(Batch)
    PROVE  /\ InBatches(s) \subseteq Edit /\ InBatches(s) = UNION Batches(s)
           /\ s # <<>> => /\ Head(s) \in Batch /\ Tail(s) \in Seq(Batch)
                          /\ InBatches(s) = Head(s) \cup InBatches(Tail(s))
<1>1. \A i \in DOMAIN s : s[i] \subseteq Edit
  BY LenProperties, ElementOfSeq DEF Batch
<1>2. InBatches(s) \subseteq Edit /\ InBatches(s) = UNION Batches(s)
  BY <1>1 DEF InBatches, Batches
<1>3. ASSUME s # <<>>
      PROVE  /\ Head(s) \in Batch /\ Tail(s) \in Seq(Batch)
             /\ InBatches(s) = Head(s) \cup InBatches(Tail(s))
  <2>1. Head(s) \in Batch /\ Tail(s) \in Seq(Batch) /\ <<Head(s)>> \in Seq(Batch)
    BY <1>3, HeadTailProperties
  <2>2. s = <<Head(s)>> \o Tail(s)
    BY <1>3
  <2>3. InBatches(<<Head(s)>> \o Tail(s)) = InBatches(<<Head(s)>>) \cup InBatches(Tail(s))
    BY <2>1, JoinedBatches
  <2>4. InBatches(<<Head(s)>>) = Head(s)
    BY DEF InBatches
  <2>. QED  BY <2>1, <2>2, <2>3, <2>4
<1>. QED  BY <1>2, <1>3

\* Where an edit can be.
Somewhere ==
    durable \cup debounced \cup InBatches(outbox) \cup discarded \cup vanished
        \cup InBatches(up) \cup InBatches(taken) \cup UNION orphans

\* Every step hands an edit on or says where it ended: the client's callbacks,
\* the ways a socket ends, and what the server does with a batch.
THEOREM SaveInvariant == Spec => []SaveInv
<1>1. Init => SaveInv
  <2>. SUFFICES ASSUME Init PROVE SaveInv
    OBVIOUS
  <2>1. /\ 0 \in 0..MaxEdits /\ 0 \in 0..MaxCloses /\ 0 \in 0..MaxRoleChanges /\ 0 \in Nat
        /\ "token" \in Link
    BY DEF Link
  <2>2. TypeOK
    BY <2>1, EmptySeq, Zenon DEF Init, ClientInit, TypeOK, ClientTypeOK
  <2>3. Made = {}
    BY DEF Init, ClientInit, Made
  <2>. QED  BY <2>2, <2>3 DEF Init, SaveInv, WireNeedsSocket, NoEditIsForgotten
<1>2. SaveInv /\ UNCHANGED vars => SaveInv'
  BY DEF vars, clientVars, serverVars, SaveInv, TypeOK, ClientTypeOK, WireNeedsSocket,
         NoEditIsForgotten, Made, Held
\* The client's callbacks, with what they do to the wire.
<1>3. ASSUME SaveInv, Edits \/ Timers \/ Throws \/ Flush \/ Open \/ Receive
      PROVE  SaveInv'
  <2>. USE <1>3
  <2>. USE DEF SaveInv
  <2>1. CASE Edits
    <3>1. TypeOK' /\ WireNeedsSocket'
      BY <2>1 DEF Edits, LocalEdit, Recompute, SaveStateOf, TypeOK, ClientTypeOK, serverVars,
                  WireNeedsSocket, Edit
    <3>2. Somewhere' = Somewhere \cup {edits + 1} /\ edits' = edits + 1
      BY <2>1 DEF Edits, LocalEdit, serverVars, Somewhere
    <3>3. 1..(edits + 1) = 1..edits \cup {edits + 1}
      BY DEF TypeOK, ClientTypeOK
    <3>. QED  BY <3>1, <3>2, <3>3 DEF NoEditIsForgotten, Made, Held, Somewhere
  <2>2. CASE Timers \/ Throws
    <3>1. TypeOK' /\ WireNeedsSocket'
      BY <2>2 DEF Timers, Throws, ReconnectTimer, GotToken, NoToken, TokenThrows, SetState,
                  Recompute, SaveStateOf, TypeOK, ClientTypeOK, serverVars, WireNeedsSocket, Link
    <3>2. Somewhere' = Somewhere /\ edits' = edits
      BY <2>2 DEF Timers, Throws, ReconnectTimer, GotToken, NoToken, TokenThrows, serverVars,
                  Somewhere
    <3>. QED  BY <3>1, <3>2 DEF NoEditIsForgotten, Made, Held, Somewhere
  <2>3. CASE Receive
    <3>1. /\ down # <<>> /\ down' = Tail(down) /\ link = "open"
          /\ UNCHANGED <<up, taken, orphans, durable, vanished, unacked, canWrite, role,
                         closes, roleChanges, link, edits, shipped>>
      BY <2>3 DEF Receive, OnStep1, OnReadonly, OnAck
    <3>2. down' \in Seq({"step1", "readonly", "ack"})
      BY <3>1, HeadTailProperties DEF TypeOK
    <3>3. /\ ClientTypeOK' /\ Somewhere' = Somewhere
      <4>. USE DEF TypeOK, ClientTypeOK
      <4>1. CASE OnStep1
        <5>1. UNCHANGED <<readonly, outbox, debounced, timer, pendingSaves, discarded>>
          BY <4>1 DEF OnStep1
        <5>2. /\ synced' \in BOOLEAN
              /\ state' \in {"connecting", "syncing", "live", "readonly", "offline"}
              /\ saveState' \in {"saving", "saved", "offline"}
          BY <4>1 DEF OnStep1, SetState, Recompute, SaveStateOf
        <5>. QED  BY <3>1, <5>1, <5>2 DEF Somewhere
      <4>2. CASE OnReadonly
        <5>1. /\ readonly' = TRUE /\ outbox' = <<>> /\ debounced' = {} /\ timer' = FALSE
              /\ pendingSaves' = 0 /\ UNCHANGED synced
              /\ discarded' = discarded \cup debounced \cup InBatches(outbox)
          BY <4>2 DEF OnReadonly
        <5>2. /\ state' \in {"connecting", "syncing", "live", "readonly", "offline"}
              /\ saveState' \in {"saving", "saved", "offline"}
          BY <4>2 DEF OnReadonly, SetState, Recompute, SaveStateOf
        <5>3. InBatches(outbox) \subseteq Edit
          BY QueuedBatches DEF Batch
        <5>4. InBatches(outbox') = {} /\ outbox' \in Seq(SUBSET Edit)
          BY <5>1 DEF InBatches
        <5>. QED  BY <3>1, <5>1, <5>2, <5>3, <5>4 DEF Somewhere
      <4>3. CASE OnAck
        <5>1. UNCHANGED <<state, readonly, synced, outbox, debounced, timer, discarded>>
          BY <4>3 DEF OnAck
        <5>2. pendingSaves' \in Nat /\ saveState' \in {"saving", "saved", "offline"}
          BY <4>3 DEF OnAck, Recompute, SaveStateOf
        <5>. QED  BY <3>1, <5>1, <5>2 DEF Somewhere
      <4>. QED  BY <2>3, <4>1, <4>2, <4>3 DEF Receive
    <3>. QED
      BY <3>1, <3>2, <3>3 DEF TypeOK, WireNeedsSocket, NoEditIsForgotten, Made, Held, Somewhere
  <2>4. CASE Flush
    <3>1. /\ link # "stopped" /\ timer' = FALSE
          /\ UNCHANGED <<state, link, readonly, synced, edits, discarded, down, taken, orphans,
                         durable, vanished, unacked, canWrite, role, closes, roleChanges>>
          /\ up' = up \o SubSeq(shipped', Len(shipped) + 1, Len(shipped'))
      BY <2>4 DEF Flush, FlushUpdates
    <3>2. CASE readonly \/ debounced = {}
      <4>1. UNCHANGED <<outbox, debounced, pendingSaves, saveState, shipped>>
        BY <2>4, <3>2 DEF Flush, FlushUpdates
      <4>2. up' = up
        <5>1. up \in Seq(Batch) /\ shipped \in Seq(Batch)
          BY <1>3 DEF SaveInv, TypeOK, ClientTypeOK, Batch
        <5>2. ASSUME NEW q \in Seq(Batch) PROVE SubSeq(q, Len(q) + 1, Len(q)) = <<>> /\ q \o <<>> = q
          <6>1. q \o <<>> = q
            BY ConcatEmptySeq
          <6>2. Len(q) \in Nat
            BY LenProperties
          <6>3. ASSUME NEW n \in Nat PROVE n \in Int /\ n + 1 \in Int /\ n < n + 1
            OBVIOUS
          <6>. QED  BY <6>1, <6>2, <6>3, SubSeqEmpty
        <5>. QED  BY <3>1, <4>1, <5>1, <5>2
      <4>3. /\ UNCHANGED <<state, link, readonly, synced, outbox, debounced, pendingSaves, saveState,
                           edits, discarded, shipped, up, down, taken, orphans, durable, vanished,
                           unacked, canWrite, role, closes, roleChanges>>
            /\ timer' \in BOOLEAN
        BY <3>1, <4>1, <4>2
      <4>4. TypeOK'
        BY <4>3 DEF TypeOK, ClientTypeOK
      <4>5. WireNeedsSocket' /\ NoEditIsForgotten'
        BY <4>3 DEF WireNeedsSocket, NoEditIsForgotten, Made, Held
      <4>. QED  BY <4>4, <4>5
    <3>3. CASE ~(readonly \/ debounced = {})
      <4>. DEFINE b == <<debounced>>
      <4>1. /\ debounced' = {} /\ pendingSaves' = pendingSaves + 1 /\ Recompute
            /\ IF link = "open" THEN shipped' = shipped \o b /\ outbox' = outbox \o <<>>
                                ELSE outbox' = outbox \o b /\ shipped' = shipped \o <<>>
        <5>1. outbox \o <<>> = outbox /\ shipped \o <<>> = shipped
          BY DEF TypeOK, ClientTypeOK
        <5>. QED  BY <2>4, <3>1, <3>3, <5>1 DEF Flush, FlushUpdates, Send
      <4>2. /\ debounced \in Batch /\ b \in Seq(Batch) /\ <<>> \in Seq(Batch)
            /\ outbox \in Seq(Batch) /\ shipped \in Seq(Batch) /\ up \in Seq(Batch)
        BY DEF TypeOK, ClientTypeOK, Batch
      <4>3. InBatches(b) = debounced /\ InBatches(<<>>) = {}
        BY DEF InBatches
      <4>4. PICK toWire \in {b, <<>>}, kept \in {b, <<>>} :
               /\ shipped' = shipped \o toWire /\ outbox' = outbox \o kept
               /\ InBatches(toWire) \cup InBatches(kept) = debounced
               /\ link # "open" => toWire = <<>>
        BY <4>1, <4>3
      <4>5. up' = up \o toWire
        BY <3>1, <4>2, <4>4, JoinedBatches
      <4>. HIDE DEF b
      <4>6. toWire \in Seq(Batch) /\ kept \in Seq(Batch)
        BY <4>2, <4>4
      <4>7. /\ InBatches(up') = InBatches(up) \cup InBatches(toWire)
            /\ InBatches(outbox') = InBatches(outbox) \cup InBatches(kept)
            /\ up' \in Seq(Batch) /\ outbox' \in Seq(Batch) /\ shipped' \in Seq(Batch)
        BY <4>2, <4>4, <4>5, <4>6, JoinedBatches, ConcatProperties
      <4>8. saveState' \in {"saving", "saved", "offline"}
        BY <4>1 DEF Recompute, SaveStateOf
      <4>9. TypeOK'
        <5>0. pendingSaves' \in Nat /\ debounced' = {}
          BY <4>1 DEF TypeOK, ClientTypeOK
        <5>1. ClientTypeOK'
          BY <3>1, <4>7, <4>8, <5>0 DEF TypeOK, ClientTypeOK, Batch
        <5>. QED  BY <3>1, <4>7, <5>1 DEF TypeOK
      <4>10. WireNeedsSocket'
        BY <3>1, <4>2, <4>4, <4>5 DEF WireNeedsSocket
      <4>11. Somewhere' = Somewhere
        BY <3>1, <4>1, <4>4, <4>7 DEF Somewhere
      <4>. QED
        BY <3>1, <4>9, <4>10, <4>11 DEF NoEditIsForgotten, Made, Held, Somewhere
    <3>. QED  BY <3>2, <3>3
  <2>5. CASE Open
    <3>1. /\ link = "opening" /\ link' = "open" /\ readonly' = FALSE
          /\ up' = outbox \o Merged(debounced) /\ shipped' = up'
          /\ pendingSaves' = Len(outbox) + Len(Merged(debounced))
          /\ outbox' = <<>> /\ debounced' = {} /\ timer' = FALSE
          /\ state' = "syncing" /\ Recompute
          /\ down' \in {<<"step1">>, <<"step1", "readonly">>} /\ canWrite' = role
          /\ UNCHANGED <<synced, edits, discarded, taken, orphans, durable, vanished, unacked,
                         role, closes, roleChanges>>
      BY <2>5 DEF Open, OnOpen
    <3>. DEFINE d == Merged(debounced)
    <3>2. outbox \in Seq(Batch) /\ debounced \in Batch
      BY DEF TypeOK, ClientTypeOK, Batch
    <3>3. d \in Seq(Batch) /\ InBatches(d) = debounced
      <4>1. d \in Seq(Batch)
        BY <3>2 DEF Merged
      <4>2. CASE debounced = {}
        BY <4>1, <4>2 DEF Merged, InBatches
      <4>3. CASE debounced # {}
        BY <4>1, <4>3 DEF Merged, InBatches
      <4>. QED  BY <4>2, <4>3
    <3>4. /\ up' \in Seq(Batch) /\ InBatches(up') = InBatches(outbox) \cup debounced
      <4>1. up' = outbox \o d
        BY <3>1
      <4>. HIDE DEF d
      <4>. QED  BY <3>2, <3>3, <4>1, ConcatProperties, JoinedBatches
    <3>5. InBatches(outbox') = {} /\ outbox' \in Seq(SUBSET Edit) /\ InBatches(up) = {}
      BY <3>1 DEF InBatches, WireNeedsSocket
    <3>6. pendingSaves' \in Nat
      <4>1. Len(outbox) \in Nat /\ Len(Merged(debounced)) \in Nat
        BY <3>2, <3>3, LenProperties
      <4>. QED  BY <3>1, <4>1
    <3>7. saveState' \in {"saving", "saved", "offline"}
      BY <3>1 DEF Recompute, SaveStateOf
    <3>8. TypeOK' /\ WireNeedsSocket'
      <4>1. ClientTypeOK'
        BY <3>1, <3>4, <3>5, <3>6, <3>7 DEF TypeOK, ClientTypeOK, Batch, Link
      <4>2. /\ <<"step1">> \in Seq({"step1", "readonly", "ack"})
            /\ <<"step1", "readonly">> \in Seq({"step1", "readonly", "ack"})
        OBVIOUS
      <4>3. down' \in Seq({"step1", "readonly", "ack"})
        BY <3>1, <4>2
      <4>. QED  BY <3>1, <3>4, <4>1, <4>3 DEF TypeOK, WireNeedsSocket
    <3>9. Somewhere' = Somewhere
      BY <3>1, <3>4, <3>5 DEF Somewhere
    <3>. QED  BY <3>1, <3>8, <3>9 DEF NoEditIsForgotten, Made, Held, Somewhere
  <2>. QED  BY <2>1, <2>2, <2>3, <2>4, <2>5
\* The ways a socket ends: what the server had accepted stays with the session,
\* what was on the wire is given up.
<1>4. ASSUME SaveInv, (\E resync \in BOOLEAN : Close(resync)) \/ CloseTerminal \/ CloseForGood
      PROVE  SaveInv'
  <2>. USE <1>4
  <2>. USE DEF SaveInv
  <2>1. /\ outbox \in Seq(Batch) /\ up \in Seq(Batch) /\ taken \in Seq(Batch)
        /\ shipped \in Seq(Batch) /\ debounced \in Batch /\ orphans \subseteq Batch
    BY DEF TypeOK, ClientTypeOK, Batch
  <2>2. /\ InBatches(up) \subseteq Edit /\ InBatches(outbox) \subseteq Edit
        /\ Batches(taken) \subseteq Batch /\ Batches(up) \subseteq Batch
        /\ UNION Batches(taken) = InBatches(taken) /\ UNION Batches(up) = InBatches(up)
    BY <2>1, QueuedBatches DEF Batch
  <2>3. InBatches(<<>>) = {} /\ <<>> \in Seq(Batch)
    BY DEF InBatches
  <2>4. ASSUME Lose, link' # "open", closes' \in 0..MaxCloses, ClientTypeOK', UNCHANGED edits,
               debounced \cup InBatches(outbox) \cup discarded
                  \subseteq debounced' \cup InBatches(outbox') \cup discarded'
        PROVE  SaveInv'
    <3>1. /\ down' = <<>> /\ up' = <<>> /\ taken' = <<>> /\ unacked' = FALSE
          /\ orphans' = orphans \cup Batches(taken)
          /\ vanished' = vanished \cup InBatches(up)
          /\ UNCHANGED <<durable, canWrite, role, roleChanges>>
      BY <2>4 DEF Lose
    <3>2. TypeOK'
      <4>1. down' \in Seq({"step1", "readonly", "ack"})
        BY <3>1
      <4>2. orphans' \subseteq Batch /\ vanished' \subseteq Edit
        BY <2>1, <2>2, <3>1 DEF TypeOK
      <4>. QED  BY <2>3, <2>4, <3>1, <4>1, <4>2 DEF TypeOK
    <3>3. InBatches(up') = {} /\ InBatches(taken') = {}
      BY <2>3, <3>1
    <3>4. UNION orphans' = (UNION orphans) \cup InBatches(taken)
      <4>1. UNION (orphans \cup Batches(taken)) = (UNION orphans) \cup UNION Batches(taken)
        OBVIOUS
      <4>. QED  BY <2>2, <3>1, <4>1
    <3>5. Somewhere \subseteq Somewhere'
      BY <2>4, <3>1, <3>3, <3>4 DEF Somewhere
    <3>. QED
      BY <2>4, <3>1, <3>2, <3>5 DEF WireNeedsSocket, NoEditIsForgotten, Made, Held, Somewhere
  <2>5. ASSUME NEW resync \in BOOLEAN, Close(resync) PROVE SaveInv'
    <3>1. /\ closes' \in 0..MaxCloses /\ OnClose(resync) /\ Lose
      BY <2>5 DEF Close, TypeOK
    <3>2. /\ link' = "waiting" /\ shipped' = <<>> /\ UNCHANGED <<readonly, edits>>
          /\ SetState("offline")
      BY <3>1 DEF OnClose
    <3>3. /\ state' = "offline" /\ saveState' \in {"saving", "saved", "offline"}
      BY <3>2 DEF SetState, Recompute, SaveStateOf, TypeOK, ClientTypeOK
    <3>4. CASE resync
      <4>1. /\ discarded' = discarded \cup debounced \cup InBatches(outbox)
            /\ outbox' = <<>> /\ debounced' = {} /\ timer' = FALSE
            /\ pendingSaves' = 0 /\ synced' = FALSE
        BY <3>1, <3>4 DEF OnClose
      <4>2. ClientTypeOK'
        BY <2>1, <2>2, <2>3, <3>2, <3>3, <4>1 DEF TypeOK, ClientTypeOK, Link, Batch
      <4>. QED  BY <2>4, <3>1, <3>2, <4>1, <4>2
    <3>5. CASE ~resync
      <4>1. UNCHANGED <<discarded, outbox, debounced, timer, pendingSaves, synced>>
        BY <3>1, <3>5 DEF OnClose
      <4>2. ClientTypeOK'
        BY <2>3, <3>2, <3>3, <4>1 DEF TypeOK, ClientTypeOK, Link, Batch
      <4>3. InBatches(outbox') = InBatches(outbox)
        BY <4>1
      <4>. QED  BY <2>4, <3>1, <3>2, <4>1, <4>2, <4>3
    <3>. QED  BY <3>4, <3>5
  <2>6. CASE CloseTerminal
    <3>1. /\ closes' \in 0..MaxCloses /\ OnTerminalClose /\ Lose
      BY <2>6 DEF CloseTerminal, TypeOK
    <3>2. /\ link' = "terminal" /\ shipped' = <<>> /\ SetState("offline")
          /\ UNCHANGED <<readonly, synced, outbox, debounced, timer, pendingSaves, edits,
                         discarded>>
      BY <3>1 DEF OnTerminalClose
    <3>3. /\ state' = "offline" /\ saveState' \in {"saving", "saved", "offline"}
      BY <3>2 DEF SetState, Recompute, SaveStateOf, TypeOK, ClientTypeOK
    <3>4. ClientTypeOK' /\ InBatches(outbox') = InBatches(outbox)
      BY <2>3, <3>2, <3>3 DEF TypeOK, ClientTypeOK, Link, Batch
    <3>. QED  BY <2>4, <3>1, <3>2, <3>4
  <2>7. CASE CloseForGood
    <3>. DEFINE last == SubSeq(shipped', Len(shipped) + 1, Len(shipped'))
    <3>1. /\ Destroy /\ link' = "stopped" /\ timer' = FALSE
          /\ down' = <<>> /\ up' = <<>> /\ taken' = <<>> /\ unacked' = FALSE
          /\ orphans' = orphans \cup Batches(taken) \cup Batches(up) \cup Batches(last)
          /\ vanished' = vanished \cup InBatches(outbox')
          /\ UNCHANGED <<state, readonly, synced, edits, discarded, durable, canWrite, role,
                         closes, roleChanges>>
      BY <2>7 DEF CloseForGood, Destroy
    <3>2. PICK flushed \in {<<debounced>>, <<>>}, kept \in {<<debounced>>, <<>>} :
             /\ shipped' = shipped \o flushed /\ outbox' = outbox \o kept
             /\ debounced' \in Batch /\ pendingSaves' \in Nat
             /\ saveState' \in {"saving", "saved", "offline"}
             /\ debounced \subseteq debounced' \cup InBatches(flushed) \cup InBatches(kept)
      <4>1. /\ shipped \o <<>> = shipped /\ outbox \o <<>> = outbox
            /\ Append(shipped, debounced) = shipped \o <<debounced>>
            /\ Append(outbox, debounced) = outbox \o <<debounced>>
            /\ InBatches(<<debounced>>) = debounced
        BY <2>1, JoinedBatches
      <4>2. CASE readonly \/ debounced = {}
        <5>1. UNCHANGED <<outbox, debounced, pendingSaves, shipped, saveState>>
          BY <3>1, <4>2 DEF Destroy
        <5>. QED  BY <2>1, <4>1, <5>1 DEF TypeOK, ClientTypeOK
      <4>3. CASE ~(readonly \/ debounced = {})
        <5>1. /\ debounced' = {} /\ pendingSaves' = pendingSaves + 1 /\ Recompute
              /\ IF link = "open"
                 THEN shipped' = Append(shipped, debounced) /\ UNCHANGED outbox
                 ELSE outbox' = Append(outbox, debounced) /\ UNCHANGED shipped
          BY <3>1, <4>3 DEF Destroy
        <5>2. debounced' \in Batch /\ pendingSaves' \in Nat
          BY <5>1 DEF TypeOK, ClientTypeOK, Batch
        <5>3. saveState' \in {"saving", "saved", "offline"}
          BY <5>1 DEF Recompute, SaveStateOf
        <5>. QED  BY <4>1, <5>1, <5>2, <5>3
      <4>. QED  BY <4>2, <4>3
    <3>3. flushed \in Seq(Batch) /\ kept \in Seq(Batch)
      <4>1. <<debounced>> \in Seq(Batch)
        BY <2>1
      <4>. QED  BY <2>3, <4>1
    <3>4. /\ outbox' \in Seq(Batch) /\ shipped' \in Seq(Batch) /\ last = flushed
          /\ InBatches(outbox') = InBatches(outbox) \cup InBatches(kept)
      BY <2>1, <3>2, <3>3, JoinedBatches, ConcatProperties
    <3>5. /\ Batches(flushed) \subseteq Batch /\ UNION Batches(flushed) = InBatches(flushed)
          /\ InBatches(outbox') \subseteq Edit
      BY <3>3, <3>4, QueuedBatches DEF Batch
    <3>6. TypeOK'
      <4>1. ClientTypeOK'
        BY <3>1, <3>2, <3>4 DEF TypeOK, ClientTypeOK, Link, Batch
      <4>2. down' \in Seq({"step1", "readonly", "ack"})
        BY <3>1
      <4>3. orphans' \subseteq Batch /\ vanished' \subseteq Edit
        BY <2>1, <2>2, <3>1, <3>4, <3>5 DEF TypeOK
      <4>. QED  BY <2>3, <3>1, <4>1, <4>2, <4>3 DEF TypeOK
    <3>7. UNION orphans' = (UNION orphans) \cup InBatches(taken) \cup InBatches(up)
                              \cup InBatches(flushed)
      <4>1. UNION (orphans \cup Batches(taken) \cup Batches(up) \cup Batches(flushed))
               = (UNION orphans) \cup (UNION Batches(taken)) \cup (UNION Batches(up))
                    \cup UNION Batches(flushed)
        OBVIOUS
      <4>. QED  BY <2>2, <3>1, <3>4, <3>5, <4>1
    <3>8. Somewhere \subseteq Somewhere'
      BY <3>1, <3>2, <3>4, <3>7 DEF Somewhere
    <3>. QED
      BY <3>1, <3>6, <3>8 DEF WireNeedsSocket, NoEditIsForgotten, Made, Held, Somewhere
  <2>. QED  BY <2>5, <2>6, <2>7
\* The server reads, refuses, drops, persists or fails to; roles change.
<1>5. ASSUME SaveInv, Server \/ OrphanEnds \/ SetWriteAccess
      PROVE  SaveInv'
  <2>. USE <1>5
  <2>. USE DEF SaveInv
  <2>1. UNCHANGED clientVars /\ ClientTypeOK' /\ InBatches(outbox') = InBatches(outbox)
    <3>1. UNCHANGED clientVars
      BY DEF Server, OrphanEnds, SetWriteAccess, Accept, DropOnOverflow, Refuse, Persist, PersistFails
    <3>. QED  BY <3>1 DEF clientVars, TypeOK, ClientTypeOK
  <2>2. UNCHANGED <<edits, link, debounced, outbox, discarded>>
    BY <2>1 DEF clientVars
  <2>3. ASSUME TypeOK', WireNeedsSocket',
               durable \cup vanished \cup InBatches(up) \cup InBatches(taken) \cup UNION orphans
                  \subseteq durable' \cup vanished' \cup InBatches(up') \cup InBatches(taken')
                            \cup UNION orphans'
        PROVE  SaveInv'
    BY <2>1, <2>2, <2>3 DEF NoEditIsForgotten, Made, Held
  <2>4. \A f \in {"step1", "readonly", "ack"} :
           Append(down, f) \in Seq({"step1", "readonly", "ack"})
    BY AppendProperties DEF TypeOK
  <2>5. up # <<>> => /\ Head(up) \in Batch /\ Tail(up) \in Seq(Batch)
                     /\ InBatches(up) = Head(up) \cup InBatches(Tail(up))
                     /\ link = "open"
    BY QueuedBatches DEF TypeOK, WireNeedsSocket
  <2>6. taken # <<>> => /\ Head(taken) \in Batch /\ Tail(taken) \in Seq(Batch)
                        /\ InBatches(taken) = Head(taken) \cup InBatches(Tail(taken))
    BY QueuedBatches DEF TypeOK
  <2>7. CASE Accept
    <3>1. up # <<>> /\ up' = Tail(up) /\ taken' = taken \o <<Head(up)>>
      BY <2>5, <2>7, JoinedBatches DEF Accept, TypeOK
    <3>2. <<Head(up)>> \in Seq(Batch) /\ InBatches(<<Head(up)>>) = Head(up)
      BY <2>5, <3>1 DEF InBatches
    <3>3. taken' \in Seq(Batch) /\ InBatches(taken') = InBatches(taken) \cup Head(up)
      <4>. DEFINE b == <<Head(up)>>
      <4>1. b \in Seq(Batch) /\ InBatches(b) = Head(up) /\ taken' = taken \o b
        BY <3>1, <3>2
      <4>. HIDE DEF b
      <4>2. /\ taken \o b \in Seq(Batch)
            /\ InBatches(taken \o b) = InBatches(taken) \cup InBatches(b)
        BY <2>5, <3>1, <4>1, JoinedBatches, ConcatProperties DEF TypeOK
      <4>. QED  BY <4>1, <4>2
    <3>4. TypeOK' /\ WireNeedsSocket'
      BY <2>1, <2>2, <2>5, <2>7, <3>1, <3>3 DEF Accept, TypeOK, WireNeedsSocket
    <3>5. UNCHANGED <<durable, vanished, orphans>>
      BY <2>7 DEF Accept
    <3>. QED  BY <2>3, <2>5, <3>1, <3>3, <3>4, <3>5
  <2>8. CASE DropOnOverflow \/ Refuse
    <3>1. /\ up # <<>> /\ up' = Tail(up) /\ vanished' = vanished \cup Head(up)
          /\ UNCHANGED <<taken, orphans, durable, canWrite, role, closes, roleChanges>>
          /\ unacked' \in BOOLEAN /\ down' \in {down, Append(down, "readonly")}
      BY <2>8 DEF DropOnOverflow, Refuse, TypeOK
    <3>2. TypeOK' /\ WireNeedsSocket'
      BY <2>1, <2>2, <2>4, <2>5, <3>1 DEF TypeOK, WireNeedsSocket, Batch
    <3>. QED  BY <2>3, <2>5, <3>1, <3>2
  <2>9. CASE Persist \/ PersistFails
    <3>1. /\ taken # <<>> /\ taken' = Tail(taken)
          /\ UNCHANGED <<up, orphans, canWrite, role, closes, roleChanges>>
          /\ unacked' \in BOOLEAN /\ down' \in {down, Append(down, "ack")}
          /\ \/ durable' = durable \cup Head(taken) /\ UNCHANGED vanished
             \/ vanished' = vanished \cup Head(taken) /\ UNCHANGED durable
      BY <2>9 DEF Persist, PersistFails, TypeOK
    <3>2. TypeOK' /\ WireNeedsSocket'
      BY <2>1, <2>2, <2>4, <2>6, <3>1 DEF TypeOK, WireNeedsSocket, Batch
    <3>. QED  BY <2>3, <2>6, <3>1, <3>2
  <2>10. CASE OrphanEnds
    <3>1. PICK b \in orphans :
             /\ orphans' = orphans \ {b}
             /\ \/ durable' = durable \cup b /\ UNCHANGED vanished
                \/ vanished' = vanished \cup b /\ UNCHANGED durable
             /\ UNCHANGED <<up, down, taken, unacked, canWrite, role, closes, roleChanges>>
      BY <2>10 DEF OrphanEnds
    <3>2. TypeOK' /\ WireNeedsSocket'
      BY <2>1, <2>2, <3>1 DEF TypeOK, WireNeedsSocket, Batch
    <3>3. UNION orphans \subseteq b \cup UNION orphans'
      BY <3>1
    <3>. QED  BY <2>3, <3>1, <3>2, <3>3
  <2>11. CASE SetWriteAccess
    <3>1. /\ roleChanges' \in 0..MaxRoleChanges /\ role' \in BOOLEAN /\ canWrite' \in BOOLEAN
          /\ down' \in {down, Append(down, "readonly")}
          /\ UNCHANGED <<up, taken, orphans, durable, vanished, unacked, closes>>
      <4>1. /\ roleChanges < MaxRoleChanges /\ roleChanges' = roleChanges + 1 /\ role' = ~role
            /\ canWrite' = IF link = "open" THEN ~role ELSE canWrite
            /\ down' = IF link = "open" /\ role THEN Append(down, "readonly") ELSE down
            /\ UNCHANGED <<up, taken, orphans, durable, vanished, unacked, closes>>
        BY <2>11 DEF SetWriteAccess
      <4>2. role' \in BOOLEAN
        BY <4>1
      <4>3. canWrite' \in BOOLEAN
        BY <4>1 DEF TypeOK
      <4>4. roleChanges' \in 0..MaxRoleChanges
        BY <4>1 DEF TypeOK
      <4>. QED  BY <4>1, <4>2, <4>3, <4>4
    <3>2. TypeOK' /\ WireNeedsSocket'
      BY <2>1, <2>2, <2>4, <3>1 DEF TypeOK, WireNeedsSocket
    <3>. QED  BY <2>3, <3>1, <3>2
  <2>. QED  BY <2>7, <2>8, <2>9, <2>10, <2>11 DEF Server
<1>6. SaveInv /\ [Next]_vars => SaveInv'
  BY <1>2, <1>3, <1>4, <1>5 DEF Next
<1>. QED  BY <1>1, <1>6, PTL DEF Spec

\* sync-client.ts and conn.go hand an edit from the debounce set to the outbox or
\* the socket, from the wire to the session's channel and its loop: whatever the
\* order of callbacks, closes, resyncs, demotions and failures, an edit that is
\* nowhere vanished where the server refused, dropped or failed to store it, or
\* with its socket, never inside the client.
THEOREM EditsAreNeverForgotten == Spec => []NoEditIsForgotten
BY SaveInvariant, PTL DEF SaveInv

-----------------------------------------------------------------------------
Frame == {"step1", "readonly", "ack"}
Acks(frames) == Cardinality({i \in DOMAIN frames : frames[i] = "ack"})

\* What the count counts: the batches on the wire, those with the server and the
\* acks on their way.  It may be ahead of that, by what was dropped, refused or
\* not stored; while it is not, every batch of this socket is somewhere.
Awaited == Acks(down) + Len(taken) + Len(up)
AcksAreAwaited ==
    link = "open" /\ ~readonly =>
        /\ Awaited <= pendingSaves
        /\ pendingSaves = Awaited =>
              InBatches(shipped) \subseteq durable \cup InBatches(taken) \cup InBatches(up)

TakenNeedsSocket == link # "open" => taken = <<>>
LiveIsOpen == state = "live" => link \in {"open", "stopped"} /\ ~readonly
SavedIsCounted ==
    state = "live" /\ saveState = "saved" => pendingSaves = 0 /\ debounced = {} /\ outbox = <<>>

CountInv ==
    /\ AcksAreAwaited /\ TakenNeedsSocket /\ LiveIsOpen /\ SavedIsCounted
    /\ SavedMeansSentIsDurable

\* conn.go acks a batch only once it is persisted, and the client counts acks
\* instead of naming batches: drops, refusals, failed writes and demotions only
\* leave the count too high, so "saved" is never shown over a batch that was sent
\* on this socket and is not in the log.
THEOREM SavedIsTrueOfTheSocket == Spec => []SavedMeansSentIsDurable
\* Appending and taking a frame change the number of acks by at most one.
<1>0. ASSUME NEW d \in Seq(Frame)
      PROVE  /\ Acks(d) \in Nat /\ Acks(<<>>) = 0
             /\ \A f \in Frame : Acks(Append(d, f)) = Acks(d) + (IF f = "ack" THEN 1 ELSE 0)
             /\ d # <<>> => Acks(d) = Acks(Tail(d)) + (IF Head(d) = "ack" THEN 1 ELSE 0)
  <2>. DEFINE A(q) == {i \in DOMAIN q : q[i] = "ack"}
  <2>1. ASSUME NEW q \in Seq(Frame) PROVE IsFiniteSet(A(q)) /\ A(q) \subseteq 1..Len(q)
    <3>1. DOMAIN q = 1..Len(q) /\ Len(q) \in Nat
      BY LenProperties
    <3>2. IsFiniteSet(1..Len(q))
      BY <3>1, FS_Interval
    <3>. QED  BY <3>1, <3>2, FS_Subset
  <2>2. Acks(d) \in Nat
    BY <2>1, FS_CardinalityType DEF Acks
  <2>3. Acks(<<>>) = 0
    BY FS_EmptySet DEF Acks
  <2>4. ASSUME NEW f \in Frame
        PROVE  Acks(Append(d, f)) = Acks(d) + (IF f = "ack" THEN 1 ELSE 0)
    <3>1. /\ DOMAIN Append(d, f) = 1..(Len(d) + 1) /\ DOMAIN d = 1..Len(d) /\ Len(d) \in Nat
          /\ \A i \in 1..Len(d) : Append(d, f)[i] = d[i]
          /\ Append(d, f)[Len(d) + 1] = f
      OBVIOUS
    <3>2. A(Append(d, f)) = A(d) \cup (IF f = "ack" THEN {Len(d) + 1} ELSE {})
      BY <3>1
    <3>3. Len(d) + 1 \notin A(d)
      BY <3>1
    <3>4. Cardinality(A(d) \cup {Len(d) + 1}) = Cardinality(A(d)) + 1
      BY <2>1, <3>3, FS_AddElement
    <3>5. Acks(Append(d, f)) = Cardinality(A(Append(d, f))) /\ Acks(d) = Cardinality(A(d))
      BY DEF Acks
    <3>. HIDE DEF A
    <3>. QED  BY <2>2, <3>2, <3>4, <3>5
  <2>5. ASSUME d # <<>>
        PROVE  Acks(d) = Acks(Tail(d)) + (IF Head(d) = "ack" THEN 1 ELSE 0)
    <3>1. /\ Tail(d) \in Seq(Frame) /\ Len(Tail(d)) = Len(d) - 1 /\ Len(d) \in Nat \ {0}
          /\ DOMAIN Tail(d) = 1..(Len(d) - 1) /\ DOMAIN d = 1..Len(d)
          /\ \A i \in 1..(Len(d) - 1) : Tail(d)[i] = d[i + 1]
          /\ Head(d) = d[1]
      BY <2>5
    <3>. DEFINE later == A(d) \ {1}
                f == [i \in A(Tail(d)) |-> i + 1]
    <3>2. f \in Bijection(A(Tail(d)), later)
      <4>1. \A i \in A(Tail(d)) : i \in Nat /\ f[i] = i + 1 /\ f[i] \in later
        BY <3>1
      <4>2. \A i, j \in A(Tail(d)) : f[i] = f[j] => i = j
        BY <4>1
      <4>3. \A k \in later : \E i \in A(Tail(d)) : f[i] = k
        <5>1. ASSUME NEW k \in later PROVE k - 1 \in A(Tail(d)) /\ f[k - 1] = k
          BY <3>1, <5>1
        <5>. QED  BY <5>1
      <4>4. f \in [A(Tail(d)) -> later]
        BY <4>1
      <4>. HIDE DEF f, A
      <4>. QED  BY <4>2, <4>3, <4>4 DEF Bijection, Injection, Surjection, IsInjective
    <3>3. Cardinality(A(Tail(d))) = Cardinality(later) /\ IsFiniteSet(later)
      <4>1. IsFiniteSet(A(Tail(d))) /\ ExistsBijection(A(Tail(d)), later)
        BY <2>1, <3>1, <3>2 DEF ExistsBijection
      <4>. HIDE DEF A, later
      <4>. QED  BY <4>1, FS_Bijection
    <3>4. A(d) = IF Head(d) = "ack" THEN later \cup {1} ELSE later
      BY <3>1
    <3>5. Cardinality(later \cup {1}) = Cardinality(later) + 1
      BY <3>3, FS_AddElement
    <3>6. Cardinality(later) \in Nat
      BY <3>3, FS_CardinalityType
    <3>7. Acks(d) = Cardinality(A(d)) /\ Acks(Tail(d)) = Cardinality(A(Tail(d)))
      BY DEF Acks
    <3>. HIDE DEF later, f, A
    <3>. QED  BY <3>3, <3>4, <3>5, <3>6, <3>7
  <2>. QED  BY <2>2, <2>3, <2>4, <2>5
<1>1. Init => CountInv
  <2>. SUFFICES ASSUME Init PROVE CountInv
    OBVIOUS
  <2>. USE DEF Init, ClientInit
  <2>1. InBatches(<<>>) = {}
    BY DEF InBatches
  <2>2. state # "live" /\ link # "open" /\ taken = <<>>
    OBVIOUS
  <2>. QED
    BY <2>1, <2>2 DEF CountInv, AcksAreAwaited, TakenNeedsSocket, LiveIsOpen, SavedIsCounted,
                      SavedMeansSentIsDurable
<1>2. CountInv => SavedMeansSentIsDurable
  BY DEF CountInv
\* Every batch is awaited from the moment it is written to the socket until its
\* ack is counted, and what is lost in between stays awaited.
<1>3. SaveInv /\ SaveInv' /\ CountInv /\ [Next]_vars => CountInv'
  <2>. SUFFICES ASSUME SaveInv, SaveInv', CountInv, [Next]_vars PROVE CountInv'
    OBVIOUS
  <2>. USE DEF CountInv
  <2>1. /\ down \in Seq(Frame) /\ taken \in Seq(Batch) /\ up \in Seq(Batch)
        /\ shipped \in Seq(Batch) /\ outbox \in Seq(Batch) /\ debounced \in Batch
    BY DEF SaveInv, TypeOK, ClientTypeOK, Frame, Batch
  <2>1n. pendingSaves \in Nat /\ Acks(down) \in Nat /\ Len(taken) \in Nat /\ Len(up) \in Nat
    BY <2>1, <1>0, LenProperties DEF SaveInv, TypeOK, ClientTypeOK
  <2>2. down' \in Seq(Frame) /\ taken' \in Seq(Batch) /\ up' \in Seq(Batch)
    BY DEF SaveInv, TypeOK, Frame, Batch
  <2>2n. /\ pendingSaves' \in Nat
         /\ Acks(down') \in Nat /\ Len(taken') \in Nat /\ Len(up') \in Nat
    BY <2>2, <1>0, LenProperties DEF SaveInv, TypeOK, ClientTypeOK
  <2>3. InBatches(<<>>) = {}
    BY DEF InBatches
  \* On an open socket the indicator is right because the count is.
  <2>4. ASSUME link' = "open", AcksAreAwaited', LiveIsOpen', SavedIsCounted' PROVE CountInv'
    <3>1. ASSUME state' = "live", saveState' = "saved"
          PROVE  InBatches(shipped') \subseteq durable'
                 /\ debounced' \cup InBatches(outbox') = {}
      <4>1. pendingSaves' = 0 /\ debounced' = {} /\ outbox' = <<>> /\ ~readonly'
        BY <2>4, <3>1 DEF SavedIsCounted, LiveIsOpen
      <4>2. /\ Awaited' <= 0
            /\ Awaited' = 0 => InBatches(shipped')
                  \subseteq durable' \cup InBatches(taken') \cup InBatches(up')
        BY <2>4, <4>1 DEF AcksAreAwaited
      <4>3. Len(taken') = 0 /\ Len(up') = 0 /\ Awaited' = 0
        BY <2>2n, <4>2 DEF Awaited
      <4>4. taken' = <<>> /\ up' = <<>>
        BY <2>2, <4>3, EmptySeq
      <4>. QED  BY <2>3, <4>1, <4>2, <4>3, <4>4
    <3>2. SavedMeansSentIsDurable'
      BY <3>1 DEF SavedMeansSentIsDurable, Held
    <3>3. TakenNeedsSocket'
      BY <2>4 DEF TakenNeedsSocket
    <3>. QED  BY <2>4, <3>2, <3>3
  <2>5. ASSUME link' # "open", state' # "live", taken' = <<>> PROVE CountInv'
    BY <2>5 DEF AcksAreAwaited, TakenNeedsSocket, LiveIsOpen, SavedIsCounted,
                SavedMeansSentIsDurable
  \* The server's steps leave the client as it is.
  <2>6. ASSUME UNCHANGED clientVars, durable \subseteq durable', link = "open" \/ taken' = taken,
               AcksAreAwaited'
        PROVE  CountInv'
    <3>1. TakenNeedsSocket' /\ LiveIsOpen' /\ SavedIsCounted'
      BY <2>6 DEF clientVars, TakenNeedsSocket, LiveIsOpen, SavedIsCounted
    <3>2. SavedMeansSentIsDurable'
      BY <2>6 DEF clientVars, SavedMeansSentIsDurable, Held
    <3>. QED  BY <2>6, <3>1, <3>2
  <2>7. CASE Edits
    <3>1. /\ debounced' # {}
          /\ saveState' = SaveStateOf(state', pendingSaves', debounced', outbox')
          /\ UNCHANGED <<state, link, readonly, outbox, pendingSaves, shipped, up, down,
                         taken, durable>>
      BY <2>7 DEF Edits, LocalEdit, Recompute, serverVars
    <3>2. ~(state' = "live" /\ saveState' = "saved")
      BY <3>1 DEF SaveStateOf
    <3>. QED
      BY <3>1, <3>2 DEF AcksAreAwaited, Awaited, TakenNeedsSocket, LiveIsOpen, SavedIsCounted,
                        SavedMeansSentIsDurable
  <2>8. CASE Timers \/ Throws
    <3>1. link \in {"token", "waiting"} /\ link' # "open" /\ UNCHANGED taken
      BY <2>8 DEF Timers, Throws, ReconnectTimer, GotToken, NoToken, TokenThrows, serverVars
    <3>2. state # "live" /\ taken = <<>>
      BY <3>1 DEF LiveIsOpen, TakenNeedsSocket
    <3>3. state' # "live"
      BY <2>8, <3>2 DEF Timers, Throws, ReconnectTimer, GotToken, NoToken, TokenThrows, SetState
    <3>. QED  BY <2>5, <3>1, <3>2, <3>3
  <2>9. CASE Flush
    <3>0. /\ UNCHANGED <<state, link, readonly, down, taken, durable>>
          /\ up' = up \o SubSeq(shipped', Len(shipped) + 1, Len(shipped'))
      BY <2>9 DEF Flush, FlushUpdates
    <3>1. CASE readonly \/ debounced = {}
      <4>1. UNCHANGED <<outbox, debounced, pendingSaves, saveState, shipped>>
        BY <2>9, <3>1 DEF Flush, FlushUpdates
      <4>2. up' = up
        <5>1. SubSeq(shipped, Len(shipped) + 1, Len(shipped)) = <<>>
          BY <2>1
        <5>. QED  BY <2>1, <3>0, <4>1, <5>1
      <4>. QED
        BY <3>0, <4>1, <4>2 DEF AcksAreAwaited, Awaited, TakenNeedsSocket, LiveIsOpen,
                                SavedIsCounted, SavedMeansSentIsDurable, Held
    <3>2. CASE ~(readonly \/ debounced = {})
      <4>1. /\ pendingSaves' = pendingSaves + 1
            /\ saveState' = SaveStateOf(state', pendingSaves', debounced', outbox')
            /\ link = "open" => shipped' = shipped \o <<debounced>>
        BY <2>9, <3>0, <3>2 DEF Flush, FlushUpdates, Send, Recompute
      <4>2. ~(state' = "live" /\ saveState' = "saved")
        BY <2>1n, <4>1 DEF SaveStateOf
      <4>3. AcksAreAwaited'
        <5>1. CASE link = "open" /\ ~readonly
          <6>0. PICK b \in Seq(Batch) : b = <<debounced>> /\ InBatches(b) = debounced
            <7>1. <<debounced>> \in Seq(Batch) /\ InBatches(<<debounced>>) = debounced
              BY <2>1 DEF InBatches
            <7>. QED  BY <7>1
          <6>1. up' = up \o b /\ shipped' = shipped \o b
            <7>1. SubSeq(shipped \o b, Len(shipped) + 1, Len(shipped \o b)) = b
              BY <2>1, <6>0, JoinedBatches
            <7>. QED  BY <3>0, <4>1, <5>1, <6>0, <7>1
          <6>2. /\ InBatches(up') = InBatches(up) \cup debounced
                /\ InBatches(shipped') = InBatches(shipped) \cup debounced
            <7>1. /\ InBatches(up \o b) = InBatches(up) \cup InBatches(b)
                  /\ InBatches(shipped \o b) = InBatches(shipped) \cup InBatches(b)
              BY <2>1, JoinedBatches
            <7>. QED  BY <6>0, <6>1, <7>1
          <6>3. Len(up') = Len(up) + 1
            BY <2>1, <6>0, <6>1, ConcatProperties
          <6>4. Awaited' = Awaited + 1 /\ Awaited \in Nat
            <7>1. Acks(down') = Acks(down) /\ Len(taken') = Len(taken)
              BY <3>0
            <7>. QED  BY <2>1n, <6>3, <7>1 DEF Awaited
          <6>. QED  BY <2>1n, <3>0, <4>1, <5>1, <6>2, <6>4 DEF AcksAreAwaited
        <5>2. CASE ~(link = "open" /\ ~readonly)
          BY <3>0, <5>2 DEF AcksAreAwaited
        <5>. QED  BY <5>1, <5>2
      <4>. QED
        BY <3>0, <4>2, <4>3 DEF TakenNeedsSocket, LiveIsOpen, SavedIsCounted,
                                SavedMeansSentIsDurable
    <3>. QED  BY <3>1, <3>2
  <2>10. CASE Open
    <3>1. /\ link = "opening" /\ link' = "open" /\ state' = "syncing"
          /\ shipped' = outbox \o Merged(debounced) /\ up' = shipped'
          /\ pendingSaves' = Len(outbox) + Len(Merged(debounced))
          /\ down' = <<"step1">> \/ down' = <<"step1", "readonly">>
          /\ taken' = taken
      BY <2>10 DEF Open, OnOpen
    <3>2. Acks(down') = 0 /\ Len(taken') = 0
      <4>1. {i \in DOMAIN down' : down'[i] = "ack"} = {}
        BY <3>1
      <4>2. taken' = <<>>
        BY <3>1 DEF TakenNeedsSocket
      <4>. QED  BY <4>1, <4>2, FS_EmptySet DEF Acks
    <3>3. Len(up') = pendingSaves'
      <4>1. Merged(debounced) \in Seq(Batch)
        BY <2>1 DEF Merged
      <4>. QED  BY <2>1, <3>1, <4>1, ConcatProperties
    <3>4. AcksAreAwaited'
      BY <2>2n, <3>1, <3>2, <3>3 DEF AcksAreAwaited, Awaited
    <3>. QED  BY <2>4, <3>1, <3>4 DEF LiveIsOpen, SavedIsCounted
  <2>11. CASE Receive
    <3>0. down # <<>> /\ down' = Tail(down) /\ UNCHANGED <<up, taken, durable>>
      BY <2>11 DEF Receive
    <3>a. Acks(down) = Acks(down') + (IF Head(down) = "ack" THEN 1 ELSE 0)
      BY <2>1, <3>0, <1>0
    <3>1. CASE Head(down) = "step1" /\ OnStep1
      <4>1. /\ link = "open" /\ UNCHANGED <<link, readonly, outbox, debounced, pendingSaves, shipped>>
            /\ IF readonly THEN UNCHANGED <<state, saveState>> ELSE SetState("live")
        BY <3>1 DEF OnStep1
      <4>2. AcksAreAwaited'
        BY <2>1n, <2>2n, <3>0, <3>1, <3>a, <4>1 DEF AcksAreAwaited, Awaited
      <4>3. LiveIsOpen' /\ SavedIsCounted'
        BY <2>1n, <4>1 DEF LiveIsOpen, SavedIsCounted, SetState, Recompute, SaveStateOf
      <4>. QED  BY <2>4, <4>1, <4>2, <4>3
    <3>2. CASE OnReadonly
      <4>1. link' = "open" /\ readonly' /\ state' = "readonly"
        BY <3>2 DEF OnReadonly, SetState
      <4>. QED  BY <2>4, <4>1 DEF AcksAreAwaited, LiveIsOpen, SavedIsCounted
    <3>3. CASE Head(down) = "ack" /\ OnAck
      <4>0. UNCHANGED <<up, taken, durable>>
        BY <3>0
      <4>1. /\ link = "open" /\ UNCHANGED <<state, link, readonly, outbox, debounced, shipped>>
            /\ pendingSaves' = IF pendingSaves > 0 THEN pendingSaves - 1 ELSE 0
            /\ saveState' = SaveStateOf(state', pendingSaves', debounced', outbox')
        BY <3>3 DEF OnAck, Recompute
      <4>2. AcksAreAwaited'
        <5>1. Awaited = Awaited' + 1 /\ Awaited' \in Nat
          <6>1. Acks(down) = Acks(down') + 1
            BY <3>3, <3>a
          <6>2. /\ Len(taken') = Len(taken) /\ Len(up') = Len(up)
                /\ Acks(down') \in Nat /\ Len(taken) \in Nat /\ Len(up) \in Nat
            BY <2>1n, <2>2n, <4>0
          <6>3. ASSUME NEW a \in Nat, NEW b \in Nat, NEW d \in Nat
                PROVE  a + 1 + b + d = (a + b + d) + 1 /\ a + b + d \in Nat
            OBVIOUS
          <6>. QED  BY <6>1, <6>2, <6>3 DEF Awaited
        <5>2. PICK n \in Nat : n = Awaited' /\ n + 1 = Awaited
          BY <5>1
        <5>3. link = "open" /\ UNCHANGED readonly /\ UNCHANGED shipped
          BY <4>1
        <5>4. ASSUME ~readonly
              PROVE  n <= pendingSaves' /\ (pendingSaves' = n => pendingSaves = Awaited)
          <6>1. n + 1 <= pendingSaves
            BY <5>2, <5>3, <5>4 DEF AcksAreAwaited
          <6>2. pendingSaves' = pendingSaves - 1
            BY <2>1n, <4>1, <6>1
          <6>3. n <= pendingSaves' /\ (pendingSaves' = n => pendingSaves = n + 1)
            BY <2>1n, <6>1, <6>2
          <6>. QED  BY <5>2, <6>3
        <5>. QED  BY <4>0, <5>2, <5>3, <5>4 DEF AcksAreAwaited
      <4>3. LiveIsOpen' /\ SavedIsCounted'
        <5>1. ASSUME state' = "live", saveState' = "saved"
              PROVE  pendingSaves' = 0 /\ debounced' = {} /\ outbox' = <<>>
          <6>1. pendingSaves' > 0 \/ debounced' # {} \/ outbox' # <<>> => saveState' # "saved"
            BY <4>1, <5>1 DEF SaveStateOf
          <6>. QED  BY <2>2n, <5>1, <6>1
        <5>. QED  BY <4>1, <5>1 DEF LiveIsOpen, SavedIsCounted
      <4>. QED  BY <2>4, <4>1, <4>2, <4>3
    <3>. QED  BY <2>11, <3>1, <3>2, <3>3 DEF Receive
  <2>12. CASE (\E resync \in BOOLEAN : Close(resync)) \/ CloseTerminal
    <3>1. link' # "open" /\ state' = "offline" /\ taken' = <<>>
      BY <2>12 DEF Close, CloseTerminal, OnClose, OnTerminalClose, Lose, SetState
    <3>. QED  BY <2>5, <3>1
  \* What the indicator says when the owner leaves, it keeps.
  <2>13. CASE CloseForGood
    <3>1. /\ link' = "stopped" /\ taken' = <<>> /\ UNCHANGED <<state, readonly, durable>>
      BY <2>13 DEF CloseForGood, Destroy
    <3>2. CASE UNCHANGED <<outbox, debounced, pendingSaves, shipped, saveState>>
      BY <3>1, <3>2 DEF AcksAreAwaited, TakenNeedsSocket, LiveIsOpen, SavedIsCounted,
                        SavedMeansSentIsDurable, Held
    <3>3. CASE /\ pendingSaves' = pendingSaves + 1
               /\ saveState' = SaveStateOf(state', pendingSaves', debounced', outbox')
      <4>1. ~(state' = "live" /\ saveState' = "saved")
        BY <2>1n, <3>3 DEF SaveStateOf
      <4>. QED
        BY <3>1, <4>1 DEF AcksAreAwaited, TakenNeedsSocket, LiveIsOpen, SavedIsCounted,
                          SavedMeansSentIsDurable
    <3>. QED  BY <2>13, <3>2, <3>3 DEF CloseForGood, Destroy, Recompute
  <2>14. CASE Accept
    <3>1. /\ up # <<>> /\ up' = Tail(up) /\ taken' = Append(taken, Head(up))
          /\ UNCHANGED clientVars /\ UNCHANGED <<down, durable>>
      BY <2>14 DEF Accept
    <3>2. /\ Head(up) \in Batch /\ InBatches(up) = Head(up) \cup InBatches(up')
          /\ Len(up') = Len(up) - 1 /\ Len(taken') = Len(taken) + 1
      BY <2>1, <3>1, QueuedBatches
    <3>3. InBatches(taken') = InBatches(taken) \cup Head(up)
      <4>1. PICK b \in Seq(Batch) : b = <<Head(up)>> /\ InBatches(b) = Head(up)
        <5>1. <<Head(up)>> \in Seq(Batch) /\ InBatches(<<Head(up)>>) = Head(up)
          BY <3>2 DEF InBatches
        <5>. QED  BY <5>1
      <4>2. taken' = taken \o b
        BY <2>1, <3>1, <3>2, <4>1
      <4>3. InBatches(taken \o b) = InBatches(taken) \cup InBatches(b)
        BY <2>1, JoinedBatches
      <4>. QED  BY <4>1, <4>2, <4>3
    <3>4. Awaited' = Awaited
      BY <2>1n, <3>1, <3>2 DEF Awaited
    <3>5. AcksAreAwaited' /\ link = "open"
      BY <3>1, <3>2, <3>3, <3>4 DEF AcksAreAwaited, clientVars, SaveInv, WireNeedsSocket
    <3>. QED  BY <2>6, <3>1, <3>5
  \* A batch without an ack stays in the count.
  <2>15. ASSUME UNCHANGED clientVars, durable \subseteq durable', link = "open",
                Awaited' = Awaited - 1
         PROVE  CountInv'
    <3>1. AcksAreAwaited'
      <4>1. Awaited \in Nat
        BY <2>1n DEF Awaited
      <4>. QED  BY <2>1n, <2>15, <4>1 DEF AcksAreAwaited, clientVars
    <3>. QED  BY <2>6, <2>15, <3>1
  <2>16. CASE DropOnOverflow \/ Refuse
    <3>1. /\ up # <<>> /\ up' = Tail(up) /\ UNCHANGED clientVars /\ UNCHANGED <<taken, durable>>
          /\ down' = down \/ down' = Append(down, "readonly")
      BY <2>16 DEF DropOnOverflow, Refuse
    <3>2. Acks(down') = Acks(down)
      <4>1. "readonly" \in Frame
        BY DEF Frame
      <4>2. Acks(Append(down, "readonly")) = Acks(down)
        <5>1. Acks(Append(down, "readonly")) = Acks(down) + 0
          BY <2>1, <4>1, <1>0
        <5>. QED  BY <2>1n, <5>1
      <4>. QED  BY <3>1, <4>2
    <3>3. Len(up') = Len(up) - 1
      BY <2>1, <3>1
    <3>4. Awaited' = Awaited - 1
      BY <2>1n, <3>1, <3>2, <3>3 DEF Awaited
    <3>. QED  BY <2>15, <3>1, <3>4 DEF SaveInv, WireNeedsSocket
  <2>17. CASE Persist
    <3>1. /\ taken # <<>> /\ taken' = Tail(taken) /\ durable' = durable \cup Head(taken)
          /\ down' = Append(down, "ack") /\ UNCHANGED clientVars /\ UNCHANGED up
      BY <2>17 DEF Persist
    <3>2. /\ InBatches(taken) = Head(taken) \cup InBatches(taken')
          /\ Len(taken') = Len(taken) - 1
      BY <2>1, <3>1, QueuedBatches
    <3>3. Acks(down') = Acks(down) + 1
      <4>1. "ack" \in Frame
        BY DEF Frame
      <4>2. Acks(Append(down, "ack")) = Acks(down) + 1
        BY <2>1, <4>1, <1>0
      <4>. QED  BY <3>1, <4>2
    <3>4. Awaited' = Awaited
      BY <2>1n, <3>1, <3>2, <3>3 DEF Awaited
    <3>5. AcksAreAwaited' /\ link = "open"
      BY <3>1, <3>2, <3>4 DEF AcksAreAwaited, clientVars, TakenNeedsSocket
    <3>. QED  BY <2>6, <3>1, <3>5
  <2>18. CASE PersistFails
    <3>1. /\ taken # <<>> /\ taken' = Tail(taken) /\ durable \subseteq durable'
          /\ UNCHANGED clientVars /\ UNCHANGED <<up, down>>
      BY <2>18 DEF PersistFails
    <3>2. Len(taken') = Len(taken) - 1
      BY <2>1, <3>1
    <3>3. Awaited' = Awaited - 1
      BY <2>1n, <3>1, <3>2 DEF Awaited
    <3>. QED  BY <2>15, <3>1, <3>3 DEF TakenNeedsSocket
  <2>19. CASE OrphanEnds \/ UNCHANGED vars
    <3>1. /\ UNCHANGED clientVars /\ UNCHANGED <<up, down, taken>> /\ durable \subseteq durable'
      BY <2>19 DEF OrphanEnds, vars, serverVars
    <3>2. AcksAreAwaited'
      BY <3>1 DEF AcksAreAwaited, Awaited, clientVars
    <3>. QED  BY <2>6, <3>1, <3>2
  <2>20. CASE SetWriteAccess
    <3>1. /\ UNCHANGED clientVars /\ UNCHANGED <<up, taken, durable>>
          /\ down' = down \/ down' = Append(down, "readonly")
      BY <2>20 DEF SetWriteAccess
    <3>2. Acks(down') = Acks(down)
      <4>1. "readonly" \in Frame
        BY DEF Frame
      <4>2. Acks(Append(down, "readonly")) = Acks(down)
        <5>1. Acks(Append(down, "readonly")) = Acks(down) + 0
          BY <2>1, <4>1, <1>0
        <5>. QED  BY <2>1n, <5>1
      <4>. QED  BY <3>1, <4>2
    <3>3. AcksAreAwaited'
      BY <3>1, <3>2 DEF AcksAreAwaited, Awaited, clientVars
    <3>. QED  BY <2>6, <3>1, <3>3
  <2>. QED
    BY <2>7, <2>8, <2>9, <2>10, <2>11, <2>12, <2>13, <2>14, <2>16, <2>17, <2>18, <2>19, <2>20
    DEF Next, Server
<1>. QED  BY <1>1, <1>2, <1>3, SaveInvariant, PTL DEF Spec
=============================================================================
