------------------------------ MODULE Session ------------------------------
(***************************************************************************)
(* Staying signed in (apps/web/app/lib/auth.ts with POST /auth/refresh and *)
(* /auth/logout of internal/auth/handler.go).  Each tab keeps an access    *)
(* token in memory; the tabs share the session cookie.                     *)
(*                                                                         *)
(* The n-th grant of the identity provider is its access token and its     *)
(* refresh token; the provider takes the refresh token of the latest grant *)
(* only, and replaces it when it is used.  0 stands for no grant.  A call  *)
(* of the server to the provider may fail.  The cookie's own lifetime,     *)
(* which each refresh renews, does not end here.                           *)
(***************************************************************************)
EXTENDS Naturals, FiniteSets

CONSTANTS
    Tab,
    MaxGrants, MaxFlights   \* bounds on the grants and on the calls made

SessionAssumption == MaxGrants \in Nat /\ MaxFlights \in Nat

VARIABLES
    cookie,    \* the grant in the session cookie
    latest,    \* the grant the provider refreshes, 0 when it has ended
    issued,    \* grants so far
    near,      \* grants up to this one expire within 30 s: clients refresh
    expired,   \* grants up to this one have expired
    session,   \* per tab, the grant whose access token it holds
    flights,   \* calls of refresh() and signOut() under way
    flown,     \* how many were made
    out,       \* history: signed out, and not in again since
    failing,   \* history: a call to the provider failed since the last login
    muddled    \* history: calls overlapped or got lost, see below

sessionVars == <<cookie, latest, issued, near, expired, session, flights, flown, out, failing,
                 muddled>>

Grant == 0..MaxGrants

\* What an answer does to the cookie: nothing, clear it, or set the grant.
Effect == {"none", "clear", "set"}

SessionTypeOK ==
    /\ {cookie, latest, issued, near, expired} \subseteq Grant
    /\ expired <= near /\ near <= issued
    /\ session \in [Tab -> Grant]
    /\ flights \subseteq [n : 1..MaxFlights, tab : Tab, op : {"refresh", "logout"},
                          cookie : Grant, state : {"sent", "served"},
                          effect : Effect, grant : Grant]
    /\ flown \in 0..MaxFlights
    /\ out \subseteq Tab /\ failing \in BOOLEAN /\ muddled \in BOOLEAN

\* The user has signed in once and opens the tabs.
SessionIdle ==
    /\ cookie = 1 /\ latest = 1 /\ issued = 1 /\ near = 0 /\ expired = 0
    /\ session = [t \in Tab |-> 0]
    /\ flights = {} /\ flown = 0 /\ out = {}
    /\ failing = FALSE /\ muddled = FALSE

SessionInit == SessionIdle

grants == <<latest, issued, near, expired>>

(***************************************************************************)
(* The tabs.                                                               *)
(***************************************************************************)
Fly(tab, op) ==
    /\ flown < MaxFlights /\ flown' = flown + 1
    /\ flights' = flights \cup
         {[n |-> flown + 1, tab |-> tab, op |-> op, cookie |-> cookie, state |-> "sent",
           effect |-> "none", grant |-> 0]}
    /\ muddled' = (muddled \/ \E f \in flights : f.tab # tab \/ f.op # op)

\* A call of the API needs a token and the one at hand is as good as expired.
NeedsToken(tab) == session[tab] <= near

\* Mutant: each call of a tab starts a refresh of its own.
RefreshForEach(tab) ==
    /\ NeedsToken(tab)
    /\ Fly(tab, "refresh")
    /\ UNCHANGED <<cookie, grants, session, out, failing>>

\* All calls of a tab wait for the one refresh under way.
Refresh(tab) ==
    /\ NeedsToken(tab)
    /\ ~\E f \in flights : f.tab = tab /\ f.op = "refresh"
    /\ Fly(tab, "refresh")
    /\ UNCHANGED <<cookie, grants, session, out, failing>>

SignOut(tab) ==
    /\ Fly(tab, "logout")
    /\ UNCHANGED <<cookie, grants, session, out, failing>>

(***************************************************************************)
(* The server.                                                             *)
(***************************************************************************)
Answer(f, effect, grant) ==
    flights' = (flights \ {f}) \cup
      {[f EXCEPT !.state = "served", !.effect = effect, !.grant = grant]}

\* The provider takes the grant and replaces it.
Renewed(f) ==
    /\ f.cookie = latest /\ issued < MaxGrants
    /\ issued' = issued + 1 /\ latest' = issued + 1
    /\ UNCHANGED <<near, expired>>

\* Without a cookie 401; with a grant that is valid, that one again; with one
\* that has expired a new one, or 401 and the cookie cleared: when the provider
\* refuses the grant, and when the call to it fails, before or after it took it.
ServeRefresh(f) ==
    /\ f.op = "refresh" /\ f.state = "sent"
    /\ \/ f.cookie = 0 /\ Answer(f, "none", 0) /\ UNCHANGED <<grants, failing>>
       \/ f.cookie > expired /\ Answer(f, "set", f.cookie) /\ UNCHANGED <<grants, failing>>
       \/ /\ f.cookie \in 1..expired /\ Renewed(f)
          /\ Answer(f, "set", issued') /\ UNCHANGED failing
       \/ /\ f.cookie \in 1..expired /\ f.cookie # latest
          /\ Answer(f, "clear", 0) /\ UNCHANGED <<grants, failing>>
       \/ /\ f.cookie \in 1..expired
          /\ Renewed(f) \/ UNCHANGED grants
          /\ Answer(f, "clear", 0) /\ failing' = TRUE
    /\ UNCHANGED <<cookie, session, flown, out, muddled>>

ServeLogout(f) ==
    /\ f.op = "logout" /\ f.state = "sent"
    /\ Answer(f, "clear", 0)
    /\ UNCHANGED <<cookie, grants, session, flown, out, failing, muddled>>

(***************************************************************************)
(* Answers.  The browser takes the cookie, then the page the token.        *)
(***************************************************************************)
TakeCookie(f) ==
    cookie' = CASE f.effect = "none" -> cookie
                [] f.effect = "clear" -> 0
                [] f.effect = "set" -> f.grant

RefreshAnswered(f) ==
    /\ f.op = "refresh" /\ f.state = "served"
    /\ TakeCookie(f)
    /\ session' = [session EXCEPT ![f.tab] = f.grant]
    /\ flights' = flights \ {f}
    /\ UNCHANGED <<grants, flown, out, failing, muddled>>

\* The fetch throws: the session stays what it was.
RefreshLost(f) ==
    /\ f.op = "refresh" /\ flights' = flights \ {f}
    /\ muddled' = (muddled \/ f.state = "served")
    /\ UNCHANGED <<cookie, grants, session, flown, out, failing>>

SignedOut(f) ==
    /\ f.op = "logout" /\ f.state = "served"
    /\ TakeCookie(f)
    /\ session' = [session EXCEPT ![f.tab] = 0]
    /\ out' = out \cup {f.tab} /\ flights' = flights \ {f}
    /\ UNCHANGED <<grants, flown, failing, muddled>>

\* signOut() takes no notice of a failure.
SignOutLost(f) ==
    /\ f.op = "logout" /\ flights' = flights \ {f}
    /\ session' = [session EXCEPT ![f.tab] = 0]
    /\ out' = out \cup {f.tab} /\ muddled' = TRUE
    /\ UNCHANGED <<cookie, grants, flown, failing>>

(***************************************************************************)
(* Time, and the identity provider.                                        *)
(***************************************************************************)
TimePasses ==
    /\ \/ near < issued /\ near' = issued /\ UNCHANGED expired
       \/ expired < near /\ expired' = near /\ UNCHANGED near
    /\ UNCHANGED <<cookie, latest, issued, session, flights, flown, out, failing, muddled>>

ProviderEnds ==
    /\ latest # 0 /\ latest' = 0
    /\ UNCHANGED <<cookie, issued, near, expired, session, flights, flown, out, failing, muddled>>

\* The login leaves the page, which starts anew; the callback sets the cookie.
Login(tab) ==
    /\ flights = {} /\ issued < MaxGrants
    /\ issued' = issued + 1 /\ latest' = issued + 1 /\ cookie' = issued + 1
    /\ session' = [session EXCEPT ![tab] = 0]
    /\ out' = {} /\ failing' = FALSE /\ muddled' = FALSE
    /\ UNCHANGED <<near, expired, flights, flown>>

SessionNext ==
    \/ \E tab \in Tab : Refresh(tab) \/ SignOut(tab) \/ Login(tab)
    \/ \E f \in flights :
         \/ ServeRefresh(f) \/ ServeLogout(f)
         \/ RefreshAnswered(f) \/ RefreshLost(f) \/ SignedOut(f) \/ SignOutLost(f)
    \/ TimePasses \/ ProviderEnds

SessionSpec == SessionInit /\ [][SessionNext]_sessionVars

(***************************************************************************)
(* Properties.  Their exceptions are in `muddled`: calls of two tabs, or a *)
(* refresh and a sign-out, overlapped, or an answer was lost.              *)
(***************************************************************************)

\* Nobody is signed out by using the app: the cookie holds the grant the
\* provider refreshes, until he signs out or the provider ends the session, or
\* a call to the provider fails while it is to renew an expired grant; that
\* takes the cookie away, and only that (handler.go, 210-224).
StaysSignedIn ==
    flights = {} /\ ~muddled /\ out = {} /\ latest # 0
      => cookie = latest \/ (failing /\ cookie = 0)

\* Who signed out is signed out: the cookie is gone and stays away, and so does
\* the token of the tab.
SignOutSticks ==
    out # {} /\ ~muddled => cookie = 0 /\ \A t \in out : session[t] = 0
=============================================================================
