----------------------------- MODULE DurableLog -----------------------------
(***************************************************************************)
(* What the server promises a document's clients, without sessions, queues *)
(* or pumps: a log of updates that only grows, never holds one twice, and  *)
(* outlives the process; and clients that are told (by a replay, a         *)
(* broadcast or an ack) only of what is in the log and are never untold.   *)
(* This is the promise between two retention passes, which delete rows     *)
(* (retention.go 96-136): History has those, and what they leave.          *)
(***************************************************************************)
EXTENDS Naturals, Sequences

CONSTANTS Client, Update

VARIABLES
    log,  \* the updates persisted, in order
    told  \* for each client, the updates it has been told of

Logged == {log[i] : i \in DOMAIN log}

Init ==
    /\ log = <<>>
    /\ told = [c \in Client |-> {}]

Persist ==
    /\ \E u \in Update \ Logged : log' = Append(log, u)
    /\ UNCHANGED told

Tell ==
    /\ \E c \in Client, u \in Logged : told' = [told EXCEPT ![c] = @ \cup {u}]
    /\ UNCHANGED log

Next == Persist \/ Tell

Spec == Init /\ [][Next]_<<log, told>>
=============================================================================
