------------------------------- MODULE Calls -------------------------------
(***************************************************************************)
(* The lists the web app shows and the calls it makes to change them       *)
(* (app/lib/api over fetch).  Calls overlap: the server serves them, and   *)
(* their answers arrive, in any order; one may be refused, and one may be  *)
(* served although the page only sees a failure.  The panels (Comments,    *)
(* ShareDialog, Dashboard) say what is sent and what an answer does.       *)
(***************************************************************************)
EXTENDS Naturals, FiniteSets, Sequences, SequencesExt

CONSTANTS
    MaxCalls,   \* bounds on the calls a page makes
    MaxAtOnce,  \* and on those in flight together
    Existing    \* ids of the rows that are there when the page opens

CallsAssumption ==
    /\ MaxCalls \in Nat /\ MaxAtOnce \in Nat
    /\ Existing \subseteq Nat \ {0} /\ Existing # {} /\ IsFiniteSet(Existing)
    /\ Existing \cap 1..MaxCalls = {}

VARIABLES
    calls,    \* calls whose answer the page has not handled yet
    sent,     \* how many were made; the n-th creates the row with id n
    rows,     \* per table, the rows in the database
    list,     \* per table, the list the page shows
    unsure    \* history: tables whose list may be off, see Settled

callVars == <<calls, sent, rows, list, unsure>>

Table == {"comments", "access", "invites", "requests", "links", "documents"}
Op == {"list", "create", "change", "remove", "renew", "approve", "ask"}
Id == Existing \cup 1..MaxCalls
Row == [id : Id, st : {"open", "closed", "low", "high"}]
Call == [n : 1..MaxCalls, op : Op, table : Table, row : Row, tag : 0..MaxCalls,
         alone : BOOLEAN, state : {"sent", "served", "failed"}, answer : Seq(Row)]

CallsTypeOK ==
    /\ calls \subseteq Call /\ sent \in 0..MaxCalls
    /\ rows \in [Table -> SUBSET Row] /\ list \in [Table -> Seq(Row)]
    /\ unsure \subseteq Table

\* A page starts with empty lists and fetches them.
CallsInit(initial) ==
    /\ calls = {} /\ sent = 0 /\ unsure = Table
    /\ rows = initial
    /\ list = [t \in Table |-> <<>>]

Empty == [t \in Table |-> {}]
NoRow == [id |-> CHOOSE i \in Existing : TRUE, st |-> "open"]

(***************************************************************************)
(* What a call is about.  "renew" replaces a row by a new one, as resending*)
(* an invite does; "approve" also gives access; "ask" changes nothing the  *)
(* page shows.  An access row is upserted.                                 *)
(***************************************************************************)
Alters(op) == op \notin {"list", "ask"}
Tables(op, table) == IF op = "approve" THEN {table, "access"} ELSE {table}

Served(c, t) ==
    LET others == {r \in rows[t] : r.id # c.row.id}
    IN IF t \notin Tables(c.op, c.table) \/ ~Alters(c.op) THEN rows[t]
       ELSE IF t # c.table THEN rows[t] \cup {[id |-> c.n, st |-> "high"]}
       ELSE CASE c.op \in {"create", "change"} -> others \cup {c.row}
              [] c.op = "renew" -> others \cup {[c.row EXCEPT !.id = c.n]}
              [] OTHER          -> others

\* A listing says every row; Dashboard takes a page of what its query finds of them.
AnswerOf(c) ==
    CASE c.op = "list"  -> SetToSeq(rows[c.table])
      [] c.op = "renew" -> <<[c.row EXCEPT !.id = c.n]>>
      [] OTHER          -> <<c.row>>

\* A call about a row that is gone is refused, but for the upsert of access.
CanServe(c) ==
    \/ c.op \in {"list", "create", "ask"} \/ (c.op = "change" /\ c.table = "access")
    \/ \E r \in rows[c.table] : r.id = c.row.id

(***************************************************************************)
(* Sending.  `kept` are the calls in flight besides the new one.           *)
(***************************************************************************)
RowOf(op, row) == IF op = "create" THEN [row EXCEPT !.id = sent + 1] ELSE row

NewCall(op, table, row, tag, alone) ==
    [n |-> sent + 1, op |-> op, table |-> table, row |-> RowOf(op, row), tag |-> tag,
     alone |-> alone, state |-> "sent", answer |-> <<>>]

SendWith(kept, op, table, row, tag) ==
    /\ sent < MaxCalls /\ Cardinality(kept) < MaxAtOnce
    /\ sent' = sent + 1
    /\ calls' = {[c EXCEPT !.alone = @ /\ Tables(c.op, c.table) \cap Tables(op, table) = {}]
                   : c \in kept}
                \cup {NewCall(op, table, row, tag, \A c \in kept : table \notin Tables(c.op, c.table))}

Overlaps(kept, op, table, row) ==
    UNION {Tables(op, table) \cap Tables(c.op, c.table) :
             c \in {d \in kept : \/ Alters(op) # Alters(d.op)
                                 \/ Alters(op) /\ RowOf(op, row).id = d.row.id}}

Send(op, table, row, tag) ==
    /\ SendWith(calls, op, table, row, tag)
    /\ unsure' = unsure \cup Overlaps(calls, op, table, row)
                        \cup (Tables(op, table) \ {table})
    /\ UNCHANGED <<rows, list>>

Serve(c) ==
    /\ c.state = "sent" /\ CanServe(c)
    /\ rows' = [t \in Table |-> Served(c, t)]
    /\ \/ /\ calls' = (calls \ {c}) \cup
                      {[c EXCEPT !.state = "served", !.answer = AnswerOf(c)]}
          /\ UNCHANGED unsure
       \/ /\ calls' = (calls \ {c}) \cup {[c EXCEPT !.state = "failed"]}
          /\ unsure' = IF Alters(c.op) THEN unsure \cup Tables(c.op, c.table) ELSE unsure
    /\ UNCHANGED <<sent, list>>

Refuse(c) ==
    /\ c.state = "sent"
    /\ calls' = (calls \ {c}) \cup {[c EXCEPT !.state = "failed"]}
    /\ UNCHANGED <<sent, rows, list, unsure>>

\* The page handles an answer: `new` is the list it shows then.
Sure(c) == IF c.op = "list" /\ c.alone /\ c.state = "served" THEN {c.table} ELSE {}

Handled(c, new) ==
    /\ calls' = calls \ {c}
    /\ list' = [list EXCEPT ![c.table] = new]
    /\ unsure' = unsure \ Sure(c)
    /\ UNCHANGED <<sent, rows>>

\* ... and at once makes the next call.
HandledThen(c, new, op, table) ==
    /\ SendWith(calls \ {c}, op, table, NoRow, c.tag)
    /\ list' = [list EXCEPT ![c.table] = new]
    /\ unsure' = (unsure \ Sure(c)) \cup Overlaps(calls \ {c}, op, table, NoRow)
    /\ UNCHANGED rows

Ignored(c) ==
    /\ calls' = calls \ {c}
    /\ UNCHANGED <<sent, rows, list, unsure>>

\* prev.map and prev.filter by id.  What is at the places K stays, in order:
\* SelectSeq by counting and not by recursion, so that the lists can be reasoned about.
Nth(K, k) == CHOOSE i \in K : Cardinality({j \in K : j < i}) = k - 1
Kept(l, K) == [k \in 1..Cardinality(K) |-> l[Nth(K, k)]]

Replaced(l, row) == [i \in DOMAIN l |-> IF l[i].id = row.id THEN row ELSE l[i]]
Without(l, id) == Kept(l, {i \in DOMAIN l : l[i].id # id})

(***************************************************************************)
(* When no call is in flight, a list shows each row of the database once   *)
(* and as it is, however the page's own calls overlapped and failed.  The  *)
(* exceptions are the tables in `unsure`: since they were last fetched     *)
(* alone, a fetch and a change overlapped, or two changes of one row, or a *)
(* change was made whose answer was lost or that the page does not show.   *)
(***************************************************************************)
Shows(l, rs) == Len(l) = Cardinality(rs) /\ {l[i] : i \in DOMAIN l} = rs
Settled(table) ==
    calls = {} /\ table \notin unsure => Shows(list[table], rows[table])
=============================================================================
