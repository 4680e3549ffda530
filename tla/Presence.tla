------------------------------ MODULE Presence ------------------------------
(***************************************************************************)
(* Who sees whom in a document: the awareness states of y-protocols        *)
(* (external), as packages/client/src/sync-client.ts sends and receives    *)
(* them, the node relays them (internal/sync: conn.go, hub.go,             *)
(* awareness.go) and the presence dock lists them (app/lib/presence.ts).   *)
(*                                                                         *)
(* Each client numbers its states with a clock that only it raises, but    *)
(* for the removals a node makes up when a connection ends.  A client      *)
(* takes a frame about another one only when its clock is newer than the   *)
(* one it knows.  What a state says is left out.                           *)
(***************************************************************************)
EXTENDS Naturals, FiniteSets, Sequences

CONSTANTS
    Client,
    MaxLinks,     \* bounds on the connections made,
    MaxRenewals,  \* on how often a state is renewed,
    MaxFaults,    \* and on lost connections and peers timed out
    Waiting       \* capacity of the session's awareness channel

ASSUME PresenceAssumption ==
    /\ MaxLinks \in Nat \ {0} /\ MaxRenewals \in Nat
    /\ MaxFaults \in Nat /\ Waiting \in Nat

VARIABLES
    clock,    \* clock[c][p]: what c knows of p's clock; clock[c][c] is its own
    shown,    \* shown[c]: the clients whose state c has
    gone,     \* clients whose page was closed
    link,     \* the connection a client uses, 0 when offline
    made,     \* how many were made
    outbox,   \* frames that wait for a connection
    down,     \* frames on their way to a client
    open,     \* connections the node still holds
    memory,   \* memory[k][p]: the last clock of p that came over connection k
    channel,  \* the session's awareness channel
    renewals, faults,
    news,     \* history: per client, its clock when a connection came or went or
              \* it was removed, and the newest state of it relayed since
    missed    \* history: missed[c]: clients, the end of one of whose connections
              \* was not relayed to c, or might not have reached it

presenceVars == <<clock, shown, gone, link, made, outbox, down, open, memory, channel,
                  renewals, faults, news, missed>>

Conn == Client \X (1..MaxLinks)
Frame == [clock : [Client -> Nat],   \* 0 for the clients it is not about
          here : BOOLEAN]            \* it brings states, or removes them

PresenceTypeOK ==
    /\ clock \in [Client -> [Client -> Nat]]
    /\ shown \in [Client -> SUBSET Client]
    /\ gone \subseteq Client /\ missed \in [Client -> SUBSET Client]
    /\ link \in [Client -> 0..MaxLinks] /\ made \in 0..MaxLinks
    /\ outbox \in [Client -> Seq(Frame)] /\ down \in [Client -> Seq(Frame)]
    /\ open \subseteq Conn /\ memory \in [Conn -> [Client -> Nat]]
    /\ channel \in Seq([from : Conn, frame : Frame])
    /\ renewals \in 0..MaxRenewals /\ faults \in 0..MaxFaults
    /\ news \in [Client -> [mark : Nat, heard : Nat]]

Nobody == [p \in Client |-> 0]

\* A page gives its user a name before it connects, which takes clock 1.
PresenceInit ==
    /\ clock = [c \in Client |-> [Nobody EXCEPT ![c] = 1]]
    /\ shown = [c \in Client |-> {c}]
    /\ gone = {} /\ missed = [c \in Client |-> {}]
    /\ link = [c \in Client |-> 0] /\ made = 0
    /\ outbox = [c \in Client |-> <<>>] /\ down = [c \in Client |-> <<>>]
    /\ open = {} /\ memory = [k \in Conn |-> Nobody]
    /\ channel = <<>>
    /\ renewals = 0 /\ faults = 0
    /\ news = [c \in Client |-> [mark |-> 1, heard |-> 0]]

bounds == <<renewals, faults>>
nodeVars == <<open, memory, channel>>
linkVars == <<link, made>>

About(f) == {p \in Client : f.clock[p] # 0}
Only(p, n, here) == [clock |-> [Nobody EXCEPT ![p] = n], here |-> here]
Here(c) == <<c, link[c]>>

\* The clients a frame from connection k is relayed to; those that have left a
\* connection the node still holds are not there to read it.
Hears(d, k) == link[d] # 0 /\ Here(d) # k
Relayed(k, f) == [d \in Client |-> IF Hears(d, k) THEN Append(down[d], f) ELSE down[d]]

Disturbed(ps) ==
    [p \in Client |-> IF p \in ps THEN [mark |-> clock[p][p], heard |-> 0] ELSE news[p]]

Fault == faults < MaxFaults /\ faults' = faults + 1

(***************************************************************************)
(* Sending.  The connection remembers the clocks, then hands the frame to  *)
(* the loop, or drops it when the channel is full.                         *)
(***************************************************************************)
Remembered(k, f) ==
    [memory EXCEPT ![k] = [p \in Client |-> IF p \in About(f) THEN f.clock[p] ELSE @[p]]]

Queued(k, fs) ==
    LET room == Waiting - Len(channel)
    IN channel \o [i \in 1..(IF room < Len(fs) THEN room ELSE Len(fs)) |->
                     [from |-> k, frame |-> fs[i]]]

Send(c, f) ==
    IF link[c] = 0
    THEN /\ outbox' = [outbox EXCEPT ![c] = Append(@, f)]
         /\ UNCHANGED nodeVars
    ELSE /\ memory' = Remembered(Here(c), f)
         /\ channel' = Queued(Here(c), <<f>>)
         /\ UNCHANGED <<outbox, open>>

LoopRelays ==
    /\ channel # <<>>
    /\ channel' = Tail(channel)
    /\ LET k == Head(channel).from
           f == Head(channel).frame
       IN /\ down' = Relayed(k, f)
          /\ news' = IF f.here
                     THEN [p \in Client |-> IF f.clock[p] <= news[p].heard THEN news[p]
                                            ELSE [news[p] EXCEPT !.heard = f.clock[p]]]
                     ELSE Disturbed(About(f))
    /\ UNCHANGED <<clock, shown, gone, linkVars, outbox, open, memory, bounds, missed>>

(***************************************************************************)
(* Clients.                                                                *)
(***************************************************************************)

\* Typing, a move of the cursor, or the 15 s timer of y-protocols.
Renew(c) ==
    /\ c \notin gone
    /\ renewals < MaxRenewals /\ renewals' = renewals + 1
    /\ clock' = [clock EXCEPT ![c][c] = @ + 1]
    /\ Send(c, Only(c, clock[c][c] + 1, TRUE))
    /\ UNCHANGED <<shown, gone, linkVars, down, faults, news, missed>>

\* No news of p for 30 s: one of them was offline, the timers of its page were
\* held back, or frames were dropped.  The client tells the others.
Forget(c, p) ==
    /\ c \notin gone /\ p # c /\ p \in shown[c]
    /\ Fault
    /\ shown' = [shown EXCEPT ![c] = @ \ {p}]
    /\ Send(c, Only(p, clock[c][p], FALSE))
    /\ news' = Disturbed({p})
    /\ UNCHANGED <<clock, gone, linkVars, down, renewals, missed>>

\* The state, then what waited.
Connect(c) ==
    /\ c \notin gone /\ link[c] = 0 /\ made < MaxLinks
    /\ LET k == <<c, made + 1>>
           fs == <<Only(c, clock[c][c], TRUE)>> \o outbox[c]
           last(p) == {i \in DOMAIN fs : p \in About(fs[i])}
       IN /\ made' = made + 1 /\ link' = [link EXCEPT ![c] = made + 1]
          /\ open' = open \cup {k}
          /\ memory' = [memory EXCEPT ![k] = [p \in Client |->
               IF last(p) = {} THEN 0
               ELSE fs[CHOOSE i \in last(p) : \A j \in last(p) : j <= i].clock[p]]]
          /\ channel' = Queued(k, fs)
    /\ outbox' = [outbox EXCEPT ![c] = <<>>]
    /\ news' = Disturbed(Client)
    /\ UNCHANGED <<clock, shown, gone, down, bounds, missed>>

\* The client sees its socket closed; the node may not have noticed yet.
Lose(c) ==
    /\ link[c] # 0 /\ Fault
    /\ link' = [link EXCEPT ![c] = 0] /\ down' = [down EXCEPT ![c] = <<>>]
    /\ news' = Disturbed(Client) /\ missed' = [missed EXCEPT ![c] = Client]
    /\ UNCHANGED <<clock, shown, gone, made, outbox, nodeVars, renewals>>

\* destroy().
ClosePage(c) ==
    /\ c \notin gone /\ gone' = gone \cup {c}
    /\ clock' = [clock EXCEPT ![c][c] = @ + 1]
    /\ shown' = [shown EXCEPT ![c] = @ \ {c}]
    /\ Send(c, Only(c, clock[c][c] + 1, FALSE))
    /\ link' = [link EXCEPT ![c] = 0] /\ down' = [down EXCEPT ![c] = <<>>]
    /\ UNCHANGED <<made, bounds, news, missed>>

\* applyAwarenessUpdate.  A client that is told it has left only raises its
\* clock; the provider, which is the origin of the change, sends nothing.
Takes(c, f) ==
    {p \in About(f) : \/ clock[c][p] < f.clock[p]
                      \/ clock[c][p] = f.clock[p] /\ ~f.here /\ p \in shown[c]}

Deliver(c) ==
    /\ down[c] # <<>> /\ down' = [down EXCEPT ![c] = Tail(@)]
    /\ LET f == Head(down[c])
           taken == Takes(c, f)
       IN /\ clock' = [clock EXCEPT ![c] = [p \in Client |->
               IF p \notin taken THEN @[p]
               ELSE IF p = c /\ ~f.here THEN f.clock[p] + 1 ELSE f.clock[p]]]
          /\ shown' = [shown EXCEPT ![c] = IF f.here THEN @ \cup taken ELSE @ \ (taken \ {c})]
    /\ UNCHANGED <<gone, linkVars, outbox, nodeVars, bounds, news, missed>>

(***************************************************************************)
(* The node ends a connection: it makes up a removal of every client it    *)
(* remembers from it, and sends it past the channel.                       *)
(***************************************************************************)
\* Mutant: a removal that wins over the next state, too.
RemovalAhead(k) ==
    [clock |-> [p \in Client |-> IF memory[k][p] = 0 THEN 0 ELSE memory[k][p] + 2], here |-> FALSE]

Removal(k) ==
    [clock |-> [p \in Client |-> IF memory[k][p] = 0 THEN 0 ELSE memory[k][p] + 1], here |-> FALSE]

\* Mutant: nobody is told.
DroppedSilently(k) ==
    /\ k \in open /\ open' = open \ {k}
    /\ IF link[k[1]] = k[2] THEN Fault ELSE UNCHANGED faults
    /\ LET f == Removal(k)
           me == k[1]
       IN /\ down' = IF link[me] = k[2] THEN [down EXCEPT ![me] = <<>>] ELSE down
          /\ link' = IF link[me] = k[2] THEN [link EXCEPT ![me] = 0] ELSE link
          /\ missed' = [d \in Client |-> IF d = me /\ link[me] = k[2] THEN Client
                          ELSE IF Hears(d, k) THEN missed[d] ELSE missed[d] \cup {me}]
          /\ news' = IF link[me] = k[2] THEN Disturbed(Client) ELSE Disturbed(About(f))
    /\ UNCHANGED <<clock, shown, gone, made, outbox, memory, channel, renewals>>

Dropped(k) ==
    /\ k \in open /\ open' = open \ {k}
    /\ IF link[k[1]] = k[2] THEN Fault ELSE UNCHANGED faults
    /\ LET f == Removal(k)
           me == k[1]
       IN /\ down' = IF link[me] = k[2] THEN [Relayed(k, f) EXCEPT ![me] = <<>>] ELSE Relayed(k, f)
          /\ link' = IF link[me] = k[2] THEN [link EXCEPT ![me] = 0] ELSE link
          /\ missed' = [d \in Client |-> IF d = me /\ link[me] = k[2] THEN Client
                          ELSE IF Hears(d, k) THEN missed[d] ELSE missed[d] \cup {me}]
          /\ news' = IF link[me] = k[2] THEN Disturbed(Client) ELSE Disturbed(About(f))
    /\ UNCHANGED <<clock, shown, gone, made, outbox, memory, channel, renewals>>

PresenceNext ==
    \/ \E c \in Client : Renew(c) \/ Connect(c) \/ Lose(c) \/ ClosePage(c) \/ Deliver(c)
    \/ \E c, p \in Client : Forget(c, p)
    \/ LoopRelays
    \/ \E k \in open : Dropped(k)

PresenceSpec == PresenceInit /\ [][PresenceNext]_presenceVars

(***************************************************************************)
(* Properties.                                                             *)
(***************************************************************************)
AllFrames ==
    (UNION {{outbox[c][i] : i \in DOMAIN outbox[c]} \cup {down[c][i] : i \in DOMAIN down[c]}
              : c \in Client})
    \cup {channel[i].frame : i \in DOMAIN channel}

\* Nobody is ever ahead of a client by more than one: a clock that came with a
\* state is one the client has given it, and the one a node makes up is the
\* next.  So two new states are enough to be seen again after a removal.
ClocksStayClose ==
    \A p \in Client :
      /\ \A c \in Client : clock[c][p] <= clock[p][p] + 1
      /\ \A k \in open : memory[k][p] <= clock[p][p]
      /\ \A f \in AllFrames : f.clock[p] <= clock[p][p] + (IF f.here THEN 0 ELSE 1)

\* A client is shown to everyone connected once two of its states were relayed
\* and received after connections came and went or somebody removed it.
TwoStatesAreEnough ==
    \A c, p \in Client :
      /\ c # p /\ link[c] # 0 /\ link[p] # 0 /\ down[c] = <<>>
      /\ news[p].heard >= news[p].mark + 2 /\ channel = <<>>
      => p \in shown[c]

\* Nobody is shown a client that has gone, but who was not connected when one
\* of its connections ended: the last removal is newer than any state of it
\* that is still under way, although it overtakes what waits in the channel.
NoGhosts ==
    \A c \in Client, p \in gone :
      /\ link[c] # 0 /\ p \notin missed[c]
      /\ down[c] = <<>> /\ channel = <<>> /\ \A k \in open : k[1] # p
      => p \notin shown[c]
=============================================================================
