----------------------------- MODULE Dashboard -----------------------------
(***************************************************************************)
(* The dashboard (app/page.tsx): the documents of a tab and a search, and  *)
(* what can be done with them.  A row is a document: "closed" when it is   *)
(* shared with the user, "low" or "high", two titles, when he owns it; the *)
(* search finds the title "high".                                          *)
(***************************************************************************)
EXTENDS Calls

CONSTANTS
    PageSize,           \* `limit' of listDocuments, 50
    MaxQueries,         \* bounds on changes of the tab and of the search,
    MaxDocumentCalls    \* and on the calls about documents

DashAssumption == PageSize \in Nat

VARIABLES
    user,       \* "loading", "in", "out", or "stuck" when fetchMe threw
    tab, search,          \* as chosen, as typed (FALSE: nothing)
    query,                \* the search after the debounce
    key,                  \* docsState.key: what the list was fetched for
    failed,               \* docsState.failed
    wanted,               \* the call whose answer is still wanted, 0 for none
    creating, menu,
    stash,                \* the import waits in sessionStorage
    cut,                  \* history: the list on the screen was cut at PageSize
    queries

dashVars == <<user, tab, search, query, key, failed, wanted, creating, menu, stash, cut,
              queries>>

Key == [tab : {"all", "owned", "shared"}, search : BOOLEAN]
NoKey == [tab |-> "none", search |-> FALSE]
docsKey == [tab |-> tab, search |-> query]

DashTypeOK ==
    /\ user \in {"loading", "in", "out", "stuck"}
    /\ docsKey \in Key /\ search \in BOOLEAN /\ key \in Key \cup {NoKey}
    /\ failed \in BOOLEAN /\ creating \in BOOLEAN /\ stash \in BOOLEAN /\ cut \in BOOLEAN
    /\ wanted \in 0..MaxCalls /\ menu \in Id \cup {0} /\ queries \in 0..MaxQueries

DashIdle ==
    /\ user = "loading" /\ tab = "all" /\ search = FALSE /\ query = FALSE
    /\ key = NoKey /\ failed = FALSE /\ wanted = 0
    /\ creating = FALSE /\ menu = 0 /\ stash = FALSE /\ cut = FALSE /\ queries = 0

DashInit ==
    /\ \E st \in [Existing -> {"closed", "low"}] :
         CallsInit([Empty EXCEPT !["documents"] = {[id |-> i, st |-> st[i]] : i \in Existing}])
    /\ DashIdle

documents == list["documents"]
CallDocuments(op, row, tag) ==
    sent < MaxDocumentCalls /\ Send(op, "documents", row, tag)

\* The query behind a list (store.ListDocuments): scope and title.
Matches(k, r) ==
    /\ k.tab = "owned" => r.st # "closed"
    /\ k.tab = "shared" => r.st = "closed"
    /\ k.search => r.st = "high"

\* The list effect runs after the render in which the key, or the user, became
\* another one; its cleanup makes the page forget the call before.
ListEffect(k) ==
    /\ CallDocuments("list", NoRow, 0)
    /\ wanted' = sent + 1

FetchMe ==
    /\ user = "loading" /\ user' \in {"in", "out", "stuck"}
    /\ IF user' = "in" THEN ListEffect(docsKey) ELSE UNCHANGED <<callVars, wanted>>
    /\ UNCHANGED <<tab, search, query, key, failed, creating, menu, stash, cut, queries>>

SetTab(t) ==
    /\ user = "in" /\ menu = 0 /\ t # tab /\ queries < MaxQueries
    /\ tab' = t /\ queries' = queries + 1
    /\ ListEffect(docsKey')
    /\ UNCHANGED <<user, search, query, key, failed, creating, menu, stash, cut>>

TypeSearch ==
    /\ user = "in" /\ menu = 0 /\ queries < MaxQueries
    /\ search' = ~search /\ queries' = queries + 1
    /\ UNCHANGED <<callVars, user, tab, query, key, failed, wanted, creating, menu, stash,
                   cut>>

Debounced ==
    /\ user = "in" /\ query # search /\ query' = search
    /\ ListEffect(docsKey')
    /\ UNCHANGED <<user, tab, search, key, failed, creating, menu, stash, cut, queries>>

\* What the query of the wanted call finds among the rows it was served from, of
\* which the server sends PageSize; which, goes by the time of the last change.
Matching(l) == {i \in DOMAIN l : Matches(docsKey, l[i])}

Pages(l) ==
    {K \in SUBSET Matching(l) :
       Cardinality(K) = Min({PageSize, Cardinality(Matching(l))})}

TakeDocuments(c) ==
    \E K \in Pages(c.answer) :
      Handled(c, Kept(c.answer, K)) /\ cut' = (K # Matching(c.answer))

\* Mutant: every answer is taken, and for the key it was asked for.
DocumentsListedLate(c) ==
    /\ c.op = "list" /\ c.state # "sent"
    /\ key' \in IF c.n = wanted THEN {docsKey} ELSE Key \ {docsKey}
    /\ failed' = (c.state = "failed") /\ UNCHANGED wanted
    /\ IF c.state = "served" THEN TakeDocuments(c) ELSE Handled(c, documents) /\ UNCHANGED cut
    /\ UNCHANGED <<user, tab, search, query, creating, menu, stash, queries>>

DocumentsListed(c) ==
    /\ c.op = "list" /\ c.state # "sent"
    /\ IF c.n # wanted THEN Ignored(c) /\ UNCHANGED <<key, failed, wanted, cut>>
       ELSE /\ key' = docsKey /\ failed' = (c.state = "failed") /\ wanted' = 0
            /\ IF c.state = "served" THEN TakeDocuments(c)
               ELSE /\ Handled(c, IF key = docsKey THEN documents ELSE <<>>)
                    /\ UNCHANGED cut
    /\ UNCHANGED <<user, tab, search, query, creating, menu, stash, queries>>

(***************************************************************************)
(* The menu of a document; what it does ends with the menu closed, whoever *)
(* it is open for by then.                                                 *)
(***************************************************************************)
ShownDocuments == IF key = docsKey THEN documents ELSE <<>>

ToggleMenu(i) ==
    /\ user = "in"
    /\ IF menu = 0 THEN menu' = ShownDocuments[i].id ELSE menu' = 0
    /\ UNCHANGED <<callVars, user, tab, search, query, key, failed, wanted, creating, stash,
                   cut, queries>>

OnDelete(i) ==
    /\ user = "in" /\ menu = ShownDocuments[i].id /\ ShownDocuments[i].st # "closed"
    /\ CallDocuments("remove", ShownDocuments[i], 0)
    /\ UNCHANGED dashVars

OnRename(i) ==
    /\ user = "in" /\ menu = ShownDocuments[i].id /\ ShownDocuments[i].st = "low"
    /\ CallDocuments("change", [ShownDocuments[i] EXCEPT !.st = "high"], 0)
    /\ UNCHANGED dashVars

DocumentChanged(c) ==
    /\ c.op \in {"remove", "change"} /\ c.state # "sent"
    /\ IF c.state = "failed" THEN Ignored(c)
       ELSE Handled(c, IF c.op = "remove" THEN Without(documents, c.row.id)
                       ELSE Replaced(documents, c.row))
    /\ menu' = 0
    /\ UNCHANGED <<user, tab, search, query, key, failed, wanted, creating, stash, cut, queries>>

\* "New document" and "Import .md" wait for `creating`; "Create your first one"
\* does not.  A created document is opened, and the dashboard is gone.
OnCreate(import) ==
    /\ user = "in" /\ menu = 0
    /\ creating => ~import /\ key = docsKey /\ documents = <<>> /\ ~failed /\ ~query
                   /\ tab # "shared"
    /\ CallDocuments("create", [NoRow EXCEPT !.st = "low"], IF import THEN 1 ELSE 0)
    /\ creating' = TRUE
    /\ UNCHANGED <<user, tab, search, query, key, failed, wanted, menu, stash, cut, queries>>

DocumentCreated(c) ==
    /\ c.op = "create" /\ c.state # "sent"
    /\ Ignored(c)
    /\ IF c.state = "failed" THEN creating' = FALSE /\ UNCHANGED <<user, stash>>
       ELSE user' = "out" /\ stash' = (stash \/ c.tag = 1) /\ UNCHANGED creating
    /\ UNCHANGED <<tab, search, query, key, failed, wanted, menu, cut, queries>>

DashNext ==
    \/ FetchMe \/ TypeSearch \/ Debounced
    \/ \E t \in {"all", "owned", "shared"} : SetTab(t)
    \/ \E i \in DOMAIN ShownDocuments : ToggleMenu(i) \/ OnDelete(i) \/ OnRename(i)
    \/ \E import \in BOOLEAN : OnCreate(import)
    \/ \E c \in calls : (Serve(c) \/ Refuse(c)) /\ UNCHANGED dashVars
    \/ \E c \in calls :
         /\ user = "in"
         /\ DocumentsListed(c) \/ DocumentChanged(c) \/ DocumentCreated(c)

DashSpec == DashInit /\ [][DashNext]_<<callVars, dashVars>>

\* "Searching documents..." is over once no fetch of the list is under way:
\* however tabs and searches alternate and whatever fails, no answer that came
\* late or for another key is left on the screen or keeps the list hidden.
SearchEnds ==
    user = "in" /\ (\A c \in calls : c.op # "list") => key = docsKey

\* The documents on the screen are those the tab and the search find, each once
\* and as it is, in the sense of Settled; of more than PageSize, only some are.
DashSettled ==
    (/\ user = "in" /\ key = docsKey /\ ~failed /\ ~query
     /\ calls = {} /\ "documents" \notin unsure)
    => LET found == {r \in rows["documents"] : Matches(docsKey, r)}
           onScreen == {documents[i] : i \in DOMAIN documents}
       IN Shows(documents, IF cut THEN onScreen \cap found ELSE found)
=============================================================================
