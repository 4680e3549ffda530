---------------------------- MODULE BrowserProofs ----------------------------
(***************************************************************************)
(* Proofs about Browser: for any number of tabs, pages, rows and calls.    *)
(* A scene leaves the variables of the others alone, so the step that      *)
(* keeps an invariant is, but for one scene, a stuttering step.            *)
(***************************************************************************)
EXTENDS Browser, FiniteSetTheorems, SequenceTheorems, WellFoundedInduction, TLAPS

-----------------------------------------------------------------------------
(***************************************************************************)
(* The session of the tabs.  Unless calls overlapped or got lost, all      *)
(* calls in flight are sign-outs of one tab, or there is one refresh; that *)
(* one was sent with the cookie there is, and its answer brings the grant  *)
(* the provider has, or nothing to who signed out meanwhile.               *)
(***************************************************************************)
Flight == [n : Nat, tab : Tab, op : {"refresh", "logout"}, cookie : Nat,
           state : {"sent", "served"}, effect : G!Effect, grant : Nat]

SessionTypes ==
    /\ cookie \in Nat /\ latest \in Nat /\ issued \in Nat
    /\ near \in Nat /\ expired \in Nat
    /\ session \in [Tab -> Nat] /\ flights \subseteq Flight /\ flown \in Nat
    /\ out \subseteq Tab /\ failing \in BOOLEAN /\ muddled \in BOOLEAN

SignOutsClear == \A f \in flights : f.op = "logout" /\ f.state = "served" => f.effect = "clear"

OneKindOfFlight ==
    ~muddled => \A f, g \in flights :
        f.tab = g.tab /\ f.op = g.op /\ (f.op = "refresh" => f = g)

RefreshIsOfThisCookie ==
    ~muddled => \A f \in flights :
        f.op = "refresh" /\ f.state = "sent" => f.cookie = cookie

AnswersBringTheGrant ==
    ~muddled => \A f \in flights : f.op = "refresh" /\ f.state = "served" =>
        IF out # {} THEN f.effect = "none" /\ f.grant = 0
        ELSE latest # 0 => \/ f.effect = "set" /\ f.grant = latest
                           \/ failing /\ (f.effect = "clear" \/ (f.effect = "none" /\ cookie = 0))

CookieIsTheGrant ==
    ~muddled /\ out = {} /\ latest # 0
        /\ (\A f \in flights : f.op = "refresh" => f.state = "sent")
      => cookie = latest \/ (failing /\ cookie = 0)

SessionInv ==
    /\ SessionTypes /\ SignOutsClear /\ OneKindOfFlight /\ RefreshIsOfThisCookie
    /\ AnswersBringTheGrant /\ CookieIsTheGrant /\ G!SignOutSticks

\* Signed in until one signs out, and then out, for any number of tabs, grants
\* and calls: the session cookie of auth.ts is the grant the provider refreshes,
\* unless calls overlapped, an answer was lost, or the provider failed to answer
\* when the grant was to be renewed, which leaves no cookie at all.
THEOREM UsersStaySignedIn == BrowserSpec => []SessionsAreKept
<1>1. BrowserInit => SessionInv
  <2>. SUFFICES ASSUME BrowserInit PROVE SessionInv
    OBVIOUS
  <2>1. G!SessionIdle
    BY Zenon DEF BrowserInit, G!SessionInit
  <2>. QED
    BY <2>1 DEF G!SessionIdle, SessionInv, SessionTypes, SignOutsClear, OneKindOfFlight,
         RefreshIsOfThisCookie, AnswersBringTheGrant, CookieIsTheGrant, G!SignOutSticks
<1>2. SessionInv /\ [BrowserNext]_browserVars => SessionInv'
  <2>. SUFFICES ASSUME SessionInv, [BrowserNext]_browserVars PROVE SessionInv'
    OBVIOUS
  <2>1. CASE UNCHANGED sessionVars
    BY <2>1 DEF sessionVars, SessionInv, SessionTypes, SignOutsClear, OneKindOfFlight,
         RefreshIsOfThisCookie, AnswersBringTheGrant, CookieIsTheGrant, G!SignOutSticks
  <2>2. G!SessionNext \/ UNCHANGED sessionVars
    BY Zenon DEF BrowserNext, browserVars, EditorScene, CommentsScene, ShareScene, LinksScene,
           DashboardScene, VersionsScene, AnchorsScene, SessionScene, ToolsScene
  <2>. USE DEF SessionInv
  \* Alone in flight, with the cookie there is.
  <2>3. ASSUME NEW t \in Tab, G!Refresh(t) PROVE SessionInv'
    <3>1. PICK f \in Flight : f.op = "refresh" /\ f.tab = t /\ f.state = "sent"
                              /\ f.cookie = cookie /\ flights' = flights \cup {f}
      <4>. DEFINE g == [n |-> flown + 1, tab |-> t, op |-> "refresh", cookie |-> cookie,
                        state |-> "sent", effect |-> "none", grant |-> 0]
      <4>1. g \in Flight
        BY DEF SessionTypes, Flight, G!Effect
      <4>2. flights' = flights \cup {g}
        BY <2>3, Zenon DEF G!Refresh, G!Fly
      <4>. QED  BY <4>1, <4>2
    <3>2. /\ muddled' = (muddled \/ \E g \in flights : g.tab # t \/ g.op # "refresh")
          /\ flown' = flown + 1 /\ UNCHANGED <<cookie, latest, issued, near, expired, session, out, failing>>
      BY <2>3 DEF G!Refresh, G!Fly, G!grants
    <3>3. ~muddled' => flights = {}
      BY <2>3, <3>2 DEF G!Refresh
    <3>4. SessionTypes'
      BY <3>1, <3>2 DEF SessionTypes
    <3>5. SignOutsClear'
      BY <3>1 DEF SignOutsClear
    <3>6. (OneKindOfFlight /\ RefreshIsOfThisCookie /\ AnswersBringTheGrant)'
      BY <3>1, <3>2, <3>3 DEF OneKindOfFlight, RefreshIsOfThisCookie, AnswersBringTheGrant
    <3>7. (CookieIsTheGrant /\ G!SignOutSticks)'
      BY <3>2, <3>3 DEF CookieIsTheGrant, G!SignOutSticks
    <3>. QED  BY <3>4, <3>5, <3>6, <3>7
  <2>4. ASSUME NEW t \in Tab, G!SignOut(t) PROVE SessionInv'
    <3>1. PICK f \in Flight : f.op = "logout" /\ f.tab = t /\ f.state = "sent"
                              /\ flights' = flights \cup {f}
      <4>. DEFINE g == [n |-> flown + 1, tab |-> t, op |-> "logout", cookie |-> cookie,
                        state |-> "sent", effect |-> "none", grant |-> 0]
      <4>1. g \in Flight
        BY DEF SessionTypes, Flight, G!Effect
      <4>2. flights' = flights \cup {g}
        BY <2>4, Zenon DEF G!SignOut, G!Fly
      <4>. QED  BY <4>1, <4>2
    <3>2. /\ muddled' = (muddled \/ \E g \in flights : g.tab # t \/ g.op # "logout")
          /\ flown' = flown + 1 /\ UNCHANGED <<cookie, latest, issued, near, expired, session, out, failing>>
      BY <2>4 DEF G!SignOut, G!Fly, G!grants
    <3>3. ~muddled' => ~muddled /\ \A g \in flights' : g.tab = t /\ g.op = "logout"
      BY <3>1, <3>2
    <3>4. SessionTypes'
      BY <3>1, <3>2 DEF SessionTypes
    <3>5. SignOutsClear'
      BY <3>1 DEF SignOutsClear
    <3>6. (OneKindOfFlight /\ RefreshIsOfThisCookie /\ AnswersBringTheGrant)'
      BY <3>3 DEF OneKindOfFlight, RefreshIsOfThisCookie, AnswersBringTheGrant
    <3>7. (CookieIsTheGrant /\ G!SignOutSticks)'
      BY <3>1, <3>2, <3>3 DEF CookieIsTheGrant, G!SignOutSticks
    <3>. QED  BY <3>4, <3>5, <3>6, <3>7
  <2>5. ASSUME NEW t \in Tab, G!Login(t) PROVE SessionInv'
    <3>1. /\ flights = {} /\ cookie' = latest' /\ issued' = issued + 1 /\ latest' = issued + 1
          /\ session' = [session EXCEPT ![t] = 0] /\ out' = {} /\ muddled' = FALSE /\ failing' = FALSE
          /\ UNCHANGED <<near, expired, flights, flown>>
      BY <2>5 DEF G!Login
    <3>2. SessionTypes'
      <4>1. issued' \in Nat /\ latest' \in Nat /\ cookie' \in Nat
        BY <3>1 DEF SessionTypes
      <4>2. session' \in [Tab -> Nat]
        BY <3>1 DEF SessionTypes
      <4>3. out' \subseteq Tab /\ muddled' \in BOOLEAN /\ failing' \in BOOLEAN
        BY <3>1
      <4>. QED  BY <3>1, <4>1, <4>2, <4>3 DEF SessionTypes
    <3>3. (SignOutsClear /\ OneKindOfFlight /\ RefreshIsOfThisCookie /\ AnswersBringTheGrant)'
      BY <3>1 DEF SignOutsClear, OneKindOfFlight, RefreshIsOfThisCookie, AnswersBringTheGrant
    <3>4. (CookieIsTheGrant /\ G!SignOutSticks)'
      BY <3>1 DEF CookieIsTheGrant, G!SignOutSticks
    <3>. QED  BY <3>2, <3>3, <3>4
  <2>6. ASSUME NEW f \in flights, G!ServeRefresh(f) PROVE SessionInv'
    <3>1. f \in Flight /\ f.op = "refresh" /\ f.state = "sent"
      BY <2>6 DEF G!ServeRefresh, SessionTypes
    <3>2. UNCHANGED <<cookie, near, expired, session, flown, out, muddled>>
      BY <2>6 DEF G!ServeRefresh, G!Renewed, G!grants
    <3>3. PICK g : /\ flights' = (flights \ {f}) \cup {g}
                   /\ g \in Flight /\ g.op = "refresh" /\ g.tab = f.tab /\ g.state = "served"
                   /\ \/ /\ f.cookie = 0 /\ g.effect = "none" /\ g.grant = 0
                         /\ UNCHANGED <<latest, issued, failing>>
                      \/ /\ f.cookie # 0 /\ g.effect = "set" /\ g.grant = f.cookie
                         /\ UNCHANGED <<latest, issued, failing>>
                      \/ /\ f.cookie # 0 /\ f.cookie = latest
                         /\ issued' = issued + 1 /\ latest' = issued + 1
                         /\ g.effect = "set" /\ g.grant = latest' /\ failing' = failing
                      \/ /\ f.cookie # 0 /\ f.cookie # latest
                         /\ UNCHANGED <<latest, issued, failing>>
                      \/ /\ f.cookie # 0 /\ g.effect = "clear" /\ failing' = TRUE
                         /\ \/ f.cookie = latest /\ issued' = issued + 1 /\ latest' = issued + 1
                            \/ UNCHANGED <<latest, issued>>
      <4>. DEFINE answer(effect, grant) ==
                    [f EXCEPT !.state = "served", !.effect = effect, !.grant = grant]
      <4>1. ASSUME NEW effect \in G!Effect, NEW grant \in Nat, G!Answer(f, effect, grant)
            PROVE  /\ flights' = (flights \ {f}) \cup {answer(effect, grant)}
                   /\ answer(effect, grant) \in Flight /\ answer(effect, grant).op = "refresh"
                   /\ answer(effect, grant).tab = f.tab /\ answer(effect, grant).state = "served"
                   /\ answer(effect, grant).effect = effect
                   /\ answer(effect, grant).grant = grant
        BY <3>1, <4>1 DEF G!Answer, Flight
      <4>. HIDE DEF answer
      <4>2. CASE f.cookie = 0 /\ G!Answer(f, "none", 0) /\ UNCHANGED <<G!grants, failing>>
        BY <4>1, <4>2 DEF G!Effect, G!grants
      <4>3. CASE f.cookie > expired /\ G!Answer(f, "set", f.cookie) /\ UNCHANGED <<G!grants, failing>>
        <5>1. f.cookie \in Nat /\ f.cookie # 0
          BY <3>1, <4>3 DEF Flight, SessionTypes
        <5>. QED  BY <4>1, <4>3, <5>1 DEF G!Effect, G!grants
      <4>4. CASE f.cookie \in 1..expired /\ G!Renewed(f) /\ G!Answer(f, "set", issued')
                 /\ failing' = failing
        <5>1. /\ f.cookie # 0 /\ f.cookie = latest /\ issued + 1 \in Nat
              /\ issued' = issued + 1 /\ latest' = issued + 1
          BY <4>4 DEF SessionTypes, G!Renewed
        <5>2. G!Answer(f, "set", issued + 1)
          BY <4>4, <5>1
        <5>. QED  BY <4>1, <4>4, <5>1, <5>2 DEF G!Effect
      <4>5. CASE /\ f.cookie \in 1..expired /\ f.cookie # latest
                 /\ G!Answer(f, "clear", 0) /\ UNCHANGED <<G!grants, failing>>
        <5>1. f.cookie # 0
          BY <4>5 DEF SessionTypes
        <5>. QED  BY <4>1, <4>5, <5>1 DEF G!Effect, G!grants
      <4>6. CASE /\ f.cookie \in 1..expired /\ (G!Renewed(f) \/ UNCHANGED G!grants)
                 /\ G!Answer(f, "clear", 0) /\ failing' = TRUE
        <5>1. f.cookie # 0
          BY <4>6 DEF SessionTypes
        <5>2. \/ f.cookie = latest /\ issued' = issued + 1 /\ latest' = issued + 1
              \/ UNCHANGED <<latest, issued>>
          BY <4>6 DEF G!Renewed, G!grants
        <5>3. G!Answer(f, "clear", 0) /\ "clear" \in G!Effect /\ 0 \in Nat
          BY <4>6 DEF G!Effect
        <5>4. PICK g : /\ flights' = (flights \ {f}) \cup {g} /\ g \in Flight
                       /\ g.op = "refresh" /\ g.tab = f.tab /\ g.state = "served"
                       /\ g.effect = "clear"
          BY <4>1, <5>3
        <5>. QED  BY <4>6, <5>1, <5>2, <5>4
      <4>. QED  BY <2>6, <4>2, <4>3, <4>4, <4>5, <4>6 DEF G!ServeRefresh
    <3>4. SessionTypes'
      <4>1. latest' \in Nat /\ issued' \in Nat
        BY <3>3 DEF SessionTypes
      <4>2. failing' \in BOOLEAN
        BY <3>3 DEF SessionTypes
      <4>. QED  BY <3>2, <3>3, <4>1, <4>2 DEF SessionTypes
    <3>5. SignOutsClear'
      BY <3>3 DEF SignOutsClear
    <3>6. ~muddled => flights' = {g} /\ f.cookie = cookie
      BY <3>1, <3>3 DEF OneKindOfFlight, RefreshIsOfThisCookie
    <3>7. ~muddled /\ out = {} /\ latest # 0 => cookie = latest \/ (failing /\ cookie = 0)
      BY <3>1 DEF CookieIsTheGrant, OneKindOfFlight
    <3>8. ~muddled /\ out # {} => cookie = 0
      BY DEF G!SignOutSticks
    <3>9. (OneKindOfFlight /\ RefreshIsOfThisCookie /\ CookieIsTheGrant /\ G!SignOutSticks)'
      BY <3>2, <3>3, <3>6 DEF OneKindOfFlight, RefreshIsOfThisCookie, CookieIsTheGrant,
                              G!SignOutSticks
    <3>10. AnswersBringTheGrant'
      BY <3>2, <3>3, <3>6, <3>7, <3>8 DEF AnswersBringTheGrant
    <3>. QED  BY <3>4, <3>5, <3>9, <3>10
  <2>7. ASSUME NEW f \in flights, G!ServeLogout(f) PROVE SessionInv'
    <3>1. PICK g \in Flight : /\ flights' = (flights \ {f}) \cup {g}
                              /\ g.op = "logout" /\ g.tab = f.tab /\ g.effect = "clear"
      <4>. DEFINE g == [f EXCEPT !.state = "served", !.effect = "clear", !.grant = 0]
      <4>1. f \in Flight /\ f.op = "logout" /\ flights' = (flights \ {f}) \cup {g}
        BY <2>7, Zenon DEF G!ServeLogout, G!Answer, SessionTypes
      <4>2. /\ g \in Flight /\ g.op = "logout" /\ g.tab = f.tab /\ g.effect = "clear"
        BY <4>1 DEF Flight, G!Effect
      <4>. QED  BY <4>1, <4>2
    <3>2. /\ f.op = "logout"
          /\ UNCHANGED <<cookie, latest, issued, near, expired, session, flown, out, failing, muddled>>
      BY <2>7 DEF G!ServeLogout, G!grants
    <3>3. SessionTypes'
      BY <3>1, <3>2 DEF SessionTypes
    <3>4. ~muddled => \A h \in flights' : h.tab = f.tab /\ h.op = "logout"
      BY <3>1, <3>2 DEF OneKindOfFlight
    <3>5. (SignOutsClear /\ OneKindOfFlight /\ RefreshIsOfThisCookie /\ AnswersBringTheGrant)'
      BY <3>1, <3>2, <3>4 DEF SignOutsClear, OneKindOfFlight, RefreshIsOfThisCookie,
                              AnswersBringTheGrant
    <3>6. (CookieIsTheGrant /\ G!SignOutSticks)'
      BY <3>2 DEF OneKindOfFlight, CookieIsTheGrant, G!SignOutSticks
    <3>. QED  BY <3>3, <3>5, <3>6
  \* What a flight that ends leaves behind.
  <2>8. ASSUME NEW f \in flights, flights' = flights \ {f}, muddled' \in BOOLEAN,
               muddled => muddled', UNCHANGED <<latest, issued, near, expired, flown>>
        PROVE  /\ SignOutsClear' /\ OneKindOfFlight' /\ f \in Flight
               /\ ~muddled' /\ f.op = "refresh" => flights' = {}
               /\ ~muddled' /\ f.op = "logout" => \A g \in flights' : g.op = "logout"
    BY <2>8 DEF SessionTypes, SignOutsClear, OneKindOfFlight
  <2>9. ASSUME NEW f \in flights, G!RefreshAnswered(f) PROVE SessionInv'
    <3>1. /\ f.op = "refresh" /\ f.state = "served" /\ flights' = flights \ {f}
          /\ session' = [session EXCEPT ![f.tab] = f.grant]
          /\ G!TakeCookie(f)
          /\ UNCHANGED <<latest, issued, near, expired, flown, out, failing, muddled>>
      BY <2>9 DEF G!RefreshAnswered, G!grants
    <3>2. /\ SignOutsClear' /\ OneKindOfFlight' /\ f \in Flight
          /\ ~muddled' => flights' = {}
      BY <2>8, <3>1 DEF SessionTypes
    <3>3. cookie' \in Nat
      BY <3>1, <3>2 DEF G!TakeCookie, Flight, G!Effect, SessionTypes
    <3>4. SessionTypes'
      BY <3>1, <3>2, <3>3 DEF SessionTypes, Flight
    <3>5. (RefreshIsOfThisCookie /\ AnswersBringTheGrant)'
      BY <3>2 DEF RefreshIsOfThisCookie, AnswersBringTheGrant
    <3>6. ~muddled /\ out = {} /\ latest # 0 => cookie' = latest \/ (failing /\ cookie' = 0)
      BY <3>1 DEF AnswersBringTheGrant, G!TakeCookie
    <3>7. ~muddled /\ out # {} => cookie' = cookie /\ f.grant = 0
      BY <3>1 DEF AnswersBringTheGrant, G!TakeCookie
    <3>8. CookieIsTheGrant'
      BY <3>1, <3>6 DEF CookieIsTheGrant
    <3>9. G!SignOutSticks'
      BY <3>1, <3>7 DEF G!SignOutSticks, SessionTypes
    <3>. QED  BY <3>2, <3>4, <3>5, <3>8, <3>9
  <2>10. ASSUME NEW f \in flights, G!RefreshLost(f) PROVE SessionInv'
    <3>1. /\ f.op = "refresh" /\ flights' = flights \ {f} /\ muddled' = (muddled \/ f.state = "served")
          /\ UNCHANGED <<cookie, latest, issued, near, expired, session, flown, out, failing>>
      BY <2>10 DEF G!RefreshLost, G!grants
    <3>2. /\ SignOutsClear' /\ OneKindOfFlight' /\ f \in Flight
          /\ ~muddled' => flights' = {}
      BY <2>8, <3>1 DEF SessionTypes
    <3>3. SessionTypes'
      BY <3>1 DEF SessionTypes
    <3>4. (RefreshIsOfThisCookie /\ AnswersBringTheGrant)'
      BY <3>2 DEF RefreshIsOfThisCookie, AnswersBringTheGrant
    <3>5. ~muddled' => \A g \in flights : g.op = "refresh" => g.state = "sent"
      BY <3>1, <3>2 DEF Flight
    <3>6. (CookieIsTheGrant /\ G!SignOutSticks)'
      BY <3>1, <3>5 DEF CookieIsTheGrant, G!SignOutSticks
    <3>. QED  BY <3>2, <3>3, <3>4, <3>6
  <2>11. ASSUME NEW f \in flights, G!SignedOut(f) PROVE SessionInv'
    <3>1. /\ f.op = "logout" /\ f.state = "served" /\ flights' = flights \ {f}
          /\ session' = [session EXCEPT ![f.tab] = 0] /\ out' = out \cup {f.tab}
          /\ G!TakeCookie(f) /\ UNCHANGED <<latest, issued, near, expired, flown, failing, muddled>>
      BY <2>11 DEF G!SignedOut, G!grants
    <3>2. /\ SignOutsClear' /\ OneKindOfFlight' /\ f \in Flight
          /\ ~muddled' => \A g \in flights' : g.op = "logout"
      BY <2>8, <3>1 DEF SessionTypes
    <3>3. cookie' = 0 /\ f.tab \in Tab
      BY <3>1, <3>2 DEF SignOutsClear, G!TakeCookie, Flight
    <3>4. SessionTypes'
      BY <3>1, <3>3 DEF SessionTypes
    <3>5. (RefreshIsOfThisCookie /\ AnswersBringTheGrant)'
      BY <3>2 DEF RefreshIsOfThisCookie, AnswersBringTheGrant
    <3>6. (CookieIsTheGrant /\ G!SignOutSticks)'
      BY <3>1, <3>3 DEF CookieIsTheGrant, G!SignOutSticks, SessionTypes
    <3>. QED  BY <3>2, <3>4, <3>5, <3>6
  <2>12. ASSUME NEW f \in flights, G!SignOutLost(f) PROVE SessionInv'
    <3>1. /\ flights' = flights \ {f} /\ muddled' = TRUE
          /\ session' = [session EXCEPT ![f.tab] = 0] /\ out' = out \cup {f.tab}
          /\ UNCHANGED <<cookie, latest, issued, near, expired, flown, failing>>
      BY <2>12 DEF G!SignOutLost, G!grants
    <3>2. SignOutsClear' /\ f \in Flight
      BY <2>8, <3>1
    <3>3. SessionTypes'
      BY <3>1, <3>2 DEF SessionTypes, Flight
    <3>4. (OneKindOfFlight /\ RefreshIsOfThisCookie /\ AnswersBringTheGrant)'
      BY <3>1 DEF OneKindOfFlight, RefreshIsOfThisCookie, AnswersBringTheGrant
    <3>5. (CookieIsTheGrant /\ G!SignOutSticks)'
      BY <3>1 DEF CookieIsTheGrant, G!SignOutSticks
    <3>. QED  BY <3>2, <3>3, <3>4, <3>5
  <2>13. CASE G!TimePasses \/ G!ProviderEnds
    <3>1. /\ near' \in Nat /\ expired' \in Nat /\ latest' \in {latest, 0}
          /\ UNCHANGED <<cookie, issued, session, flights, flown, out, failing, muddled>>
      BY <2>13 DEF G!TimePasses, G!ProviderEnds, SessionTypes
    <3>2. SessionTypes'
      BY <3>1 DEF SessionTypes
    <3>3. (SignOutsClear /\ OneKindOfFlight /\ RefreshIsOfThisCookie /\ AnswersBringTheGrant)'
      BY <3>1 DEF SignOutsClear, OneKindOfFlight, RefreshIsOfThisCookie, AnswersBringTheGrant
    <3>4. (CookieIsTheGrant /\ G!SignOutSticks)'
      BY <3>1 DEF CookieIsTheGrant, G!SignOutSticks
    <3>. QED  BY <3>2, <3>3, <3>4
  <2>. QED
    BY <2>1, <2>2, <2>3, <2>4, <2>5, <2>6, <2>7, <2>9, <2>10, <2>11, <2>12, <2>13
       DEF G!SessionNext
<1>3. SessionInv => SessionsAreKept
  BY DEF SessionInv, SessionsAreKept, G!StaysSignedIn, CookieIsTheGrant
<1>. QED  BY <1>1, <1>2, <1>3, PTL DEF BrowserSpec
-----------------------------------------------------------------------------
(***************************************************************************)
(* The page of a document.  What was removed here and not yet saved names  *)
(* nothing of others that is in the text, in the draft, or in what the     *)
(* draft is about to be; and between two renders the draft is the text     *)
(* that was rendered, if there is one.                                     *)
(***************************************************************************)
PeersStay(pieces) == pieces \cap removed \cap PeerEdit = {}
PeersAreNotRemoved ==
    PeersStay(text) /\ PeersStay(draft) /\ ("draft" \in due => PeersStay(shown.text))

DraftFollows ==
    /\ guest => due = {}
    /\ ~guest /\ page # "none" /\ "draft" \notin due /\ shown.text # {}
         => draft \in {{}, shown.text}

EditorInv == PeersAreNotRemoved /\ DraftFollows

\* Accepting a recovered draft (page.tsx 621-657) takes nothing out that others
\* wrote and the user saw, for any texts, visits and lost connections.
THEOREM RecoveryKeepsPeers == BrowserSpec => PeersSurviveRecovery
<1>. USE BrowserAssumption DEF E!EditorAssumption, BrowserAssumption
<1>1. BrowserInit => EditorInv
  <2>. SUFFICES ASSUME BrowserInit PROVE EditorInv
    OBVIOUS
  <2>1. E!EditorInit
    BY Zenon DEF BrowserInit, EditorIdle
  <2>. QED
    BY <2>1 DEF E!EditorInit, EditorInv, PeersAreNotRemoved, PeersStay, DraftFollows
<1>2. EditorInv /\ [BrowserNext]_browserVars => EditorInv' /\ [E!PeersSurvive]_editorVars
  <2>. SUFFICES ASSUME EditorInv, [BrowserNext]_browserVars
                PROVE  EditorInv' /\ [E!PeersSurvive]_editorVars
    OBVIOUS
  <2>1. E!EditorNext \/ UNCHANGED editorVars
    BY Zenon DEF BrowserNext, browserVars, EditorScene, CommentsScene, ShareScene, LinksScene,
           DashboardScene, VersionsScene, AnchorsScene, SessionScene, ToolsScene
  <2>2. CASE UNCHANGED editorVars
    BY <2>2 DEF editorVars, EditorInv, PeersAreNotRemoved, PeersStay, DraftFollows
  <2>. USE DEF EditorInv
  \* Steps that only forget what was removed, and render nothing.
  <2>3. ASSUME UNCHANGED <<guest, shown, due, draft>>, removed' \subseteq removed,
               PeersStay(text)', page' # "none" => page # "none",
               page' # page \/ text' = text \/ text \cap PeerEdit \subseteq text'
        PROVE  EditorInv' /\ E!PeersSurvive
    <3>1. PeersAreNotRemoved'
      BY <2>3 DEF PeersAreNotRemoved, PeersStay
    <3>2. DraftFollows'
      BY <2>3 DEF DraftFollows
    <3>3. E!PeersSurvive
      BY <2>3 DEF E!PeersSurvive
    <3>. QED  BY <3>1, <3>2, <3>3
  <2>4. ASSUME NEW g \in BOOLEAN, E!OpenPage(g) PROVE EditorInv' /\ E!PeersSurvive
    BY <2>4 DEF E!OpenPage, E!NoCells, E!stored, E!PeersSurvive, PeersAreNotRemoved, PeersStay,
                DraftFollows
  <2>5. CASE E!LoadEditor \/ E!LoadPublic
    <3>1. UNCHANGED <<guest, shown, due, draft, removed, text>> /\ page # "none"
      BY <2>5 DEF E!LoadEditor, E!LoadPublic, E!doc, E!view, E!stored
    <3>. QED  BY <2>3, <3>1 DEF PeersAreNotRemoved, PeersStay
  <2>6. CASE E!Leave
    <3>1. page # "none" /\ page' = "none" /\ removed' = {} /\ due' = {} /\ UNCHANGED <<guest, draft>>
      BY <2>6 DEF E!Leave
    <3>. QED  BY <3>1 DEF E!PeersSurvive, PeersAreNotRemoved, PeersStay, DraftFollows
  <2>7. ASSUME NEW w \in left, E!AnswerAfterLeave(w) PROVE EditorInv' /\ E!PeersSurvive
    <3>1. UNCHANGED <<guest, shown, due, draft, removed, text, page>>
      BY <2>7 DEF E!AnswerAfterLeave, E!doc, E!view, E!stored
    <3>. QED  BY <2>3, <3>1 DEF PeersAreNotRemoved, PeersStay
  <2>8. CASE E!Connect \/ E!Drop \/ E!GoLive \/ E!GoReadonly \/ E!Persist
    <3>1. UNCHANGED <<guest, shown, due, draft, text, page>> /\ removed' \in {removed, {}}
      BY <2>8 DEF E!Connect, E!Drop, E!GoLive, E!GoReadonly, E!Persist, E!mount, E!view, E!stored
    <3>. QED  BY <2>3, <3>1 DEF PeersAreNotRemoved, PeersStay
  <2>9. CASE E!Receive
    <3>1. UNCHANGED <<guest, shown, due, draft, removed, page>> /\ text' = text \cup (server \ removed)
      BY <2>9 DEF E!Receive, E!mount, E!view, E!stored
    <3>. QED  BY <2>3, <3>1 DEF PeersAreNotRemoved, PeersStay
  <2>10. ASSUME NEW e \in LocalEdit, E!Type(e) PROVE EditorInv' /\ E!PeersSurvive
    <3>1. UNCHANGED <<guest, shown, due, draft, removed, page>> /\ text' = text \cup {e}
      BY <2>10 DEF E!Type, E!mount, E!view, E!stored
    <3>. QED  BY <2>3, <3>1 DEF PeersAreNotRemoved, PeersStay
  <2>11. ASSUME NEW e \in PeerEdit, E!PeerTypes(e) PROVE EditorInv' /\ E!PeersSurvive
    <3>1. UNCHANGED <<guest, shown, due, draft, removed, text, page>>
      BY <2>11 DEF E!PeerTypes, E!mount, E!doc, E!view
    <3>. QED  BY <2>3, <3>1 DEF PeersAreNotRemoved, PeersStay
  \* A render is of the text there is.
  <2>12. CASE E!Render
    <3>1. /\ due = {} /\ UNCHANGED <<guest, draft, removed, text, page>>
          /\ shown'.text = text
          /\ guest => due' = {}
          /\ ~guest /\ "draft" \notin due' => shown.text = shown'.text
      BY <2>12 DEF E!Render, E!Cells, E!mount, E!doc, E!stored
    <3>2. PeersAreNotRemoved'
      BY <3>1 DEF PeersAreNotRemoved, PeersStay
    <3>3. DraftFollows'
      BY <3>1 DEF DraftFollows
    <3>4. E!PeersSurvive
      BY <3>1 DEF E!PeersSurvive
    <3>. QED  BY <3>2, <3>3, <3>4
  <2>13. ASSUME NEW accept \in BOOLEAN, E!RunEffects(accept) PROVE EditorInv' /\ E!PeersSurvive
    <3>. DEFINE kept == E!DraftEffect
    <3>1. /\ ~guest /\ due # {} /\ due' = {} /\ UNCHANGED <<guest, shown, page>>
      BY <2>13 DEF E!RunEffects, E!mount, DraftFollows
    <3>2. PeersStay(kept)
      BY DEF E!DraftEffect, PeersAreNotRemoved, PeersStay
    <3>3. page # "none" /\ shown.text # {} => kept \in {{}, shown.text}
      BY <3>1 DEF E!DraftEffect, DraftFollows
    <3>4. CASE accept
      <4>1. /\ kept # {} /\ text' = kept /\ draft' = kept
            /\ removed' = removed \cup (text \ text')
        BY <2>13, <3>4 DEF E!RunEffects, E!Offered
      <4>2. PeersAreNotRemoved'
        BY <3>1, <3>2, <4>1 DEF PeersAreNotRemoved, PeersStay
      <4>3. DraftFollows'
        BY <3>1, <3>3, <4>1 DEF DraftFollows
      <4>4. E!PeersSurvive
        BY <3>3, <4>1 DEF E!PeersSurvive
      <4>. QED  BY <4>2, <4>3, <4>4
    <3>5. CASE ~accept
      <4>1. /\ text' = text \/ (text' = {Import} /\ text = {})
            /\ draft' \in {{}, kept} /\ removed' = removed
        BY <2>13, <3>5 DEF E!RunEffects, E!ImportEffect
      <4>2. PeersAreNotRemoved'
        BY <3>1, <3>2, <4>1 DEF PeersAreNotRemoved, PeersStay
      <4>3. DraftFollows'
        BY <3>1, <3>3, <4>1 DEF DraftFollows
      <4>4. E!PeersSurvive
        BY <4>1 DEF E!PeersSurvive
      <4>. QED  BY <4>2, <4>3, <4>4
    <3>. QED  BY <3>4, <3>5
  <2>. QED
    BY <2>1, <2>2, <2>4, <2>5, <2>6, <2>7, <2>8, <2>9, <2>10, <2>11, <2>12, <2>13
       DEF E!EditorNext
<1>3. BrowserSpec => [][E!PeersSurvive]_editorVars
  BY <1>1, <1>2, PTL DEF BrowserSpec
<1>. QED  BY <1>3 DEF PeersSurviveRecovery

\* What is shown is still there, and the effect of the last render left in
\* storage what it should, or the prompt took it and the text is another one.
DraftIsDone ==
    IF shown.save = "saved" THEN draft = {}
    ELSE shown.text # {} => draft = shown.text \/ (due = {} /\ shown.text # text)

UnsavedInv ==
    /\ guest => due = {}
    /\ page # "none" /\ ~guest => shown.text \subseteq text /\ ("draft" \in due \/ DraftIsDone)

\* What is typed and not saved is in the browser's storage, and nothing that is
\* saved, once the effects of the last render ran (page.tsx 621-657), for any
\* texts, visits, prompts and lost connections.
THEOREM DraftsHoldTheUnsaved == BrowserSpec => []DraftIsTheUnsavedText
<1>1. BrowserInit => UnsavedInv
  <2>. SUFFICES ASSUME BrowserInit PROVE UnsavedInv
    OBVIOUS
  <2>1. E!EditorInit
    BY Zenon DEF BrowserInit, EditorIdle
  <2>. QED  BY <2>1 DEF E!EditorInit, UnsavedInv
<1>2. UnsavedInv /\ [BrowserNext]_browserVars => UnsavedInv'
  <2>. SUFFICES ASSUME UnsavedInv, [BrowserNext]_browserVars PROVE UnsavedInv'
    OBVIOUS
  <2>1. E!EditorNext \/ UNCHANGED editorVars
    BY Zenon DEF BrowserNext, browserVars, EditorScene, CommentsScene, ShareScene, LinksScene,
           DashboardScene, VersionsScene, AnchorsScene, SessionScene, ToolsScene
  <2>. USE DEF UnsavedInv, DraftIsDone
  \* Steps that render nothing: the text that differs from the one shown only grows.
  <2>2. ASSUME UNCHANGED <<guest, shown, due, draft>>, text \subseteq text',
               page' # "none" => page # "none"
        PROVE  UnsavedInv'
    BY <2>2
  <2>3. CASE UNCHANGED editorVars
    BY <2>2, <2>3 DEF editorVars
  <2>4. ASSUME NEW g \in BOOLEAN, E!OpenPage(g) PROVE UnsavedInv'
    BY <2>4 DEF E!OpenPage, E!NoCells
  <2>5. CASE E!LoadEditor \/ E!LoadPublic
    <3>1. UNCHANGED <<guest, shown, due, draft, text>> /\ page # "none"
      BY <2>5 DEF E!LoadEditor, E!LoadPublic, E!doc, E!view, E!stored
    <3>. QED  BY <2>2, <3>1
  <2>6. CASE E!Leave
    <3>1. page' = "none" /\ due' = {}
      BY <2>6 DEF E!Leave
    <3>. QED  BY <3>1
  <2>7. ASSUME NEW w \in left, E!AnswerAfterLeave(w) PROVE UnsavedInv'
    <3>1. UNCHANGED <<guest, shown, due, draft, text, page>>
      BY <2>7 DEF E!AnswerAfterLeave, E!doc, E!view, E!stored
    <3>. QED  BY <2>2, <3>1
  <2>8. CASE E!Connect \/ E!Drop \/ E!GoLive \/ E!GoReadonly \/ E!Persist \/ E!Receive
    <3>1. UNCHANGED <<guest, shown, due, draft, page>> /\ text \subseteq text'
      BY <2>8 DEF E!Connect, E!Drop, E!GoLive, E!GoReadonly, E!Persist, E!Receive, E!mount,
                  E!view, E!stored
    <3>. QED  BY <2>2, <3>1
  <2>9. ASSUME NEW e, E!Type(e) \/ E!PeerTypes(e) PROVE UnsavedInv'
    <3>1. UNCHANGED <<guest, shown, due, draft, page>> /\ text \subseteq text'
      BY <2>9 DEF E!Type, E!PeerTypes, E!mount, E!doc, E!view, E!stored
    <3>. QED  BY <2>2, <3>1
  \* Nothing to write: neither the text nor the state changed with the render.
  <2>10. CASE E!Render
    <3>1. /\ due = {} /\ UNCHANGED <<guest, draft, text, page>> /\ shown'.text = text
          /\ page # "none" /\ (guest => due' = {})
          /\ ~guest /\ "draft" \notin due' => shown.text = shown'.text /\ shown.save = shown'.save
      BY <2>10 DEF E!Render, E!Cells, E!mount, E!doc, E!stored
    <3>. QED  BY <3>1
  <2>11. ASSUME NEW accept \in BOOLEAN, E!RunEffects(accept) PROVE UnsavedInv'
    <3>. DEFINE kept == E!DraftEffect
    <3>1. ~guest /\ due # {} /\ due' = {} /\ UNCHANGED <<guest, shown, page>>
      BY <2>11 DEF E!RunEffects, E!mount
    <3>. SUFFICES ASSUME page # "none"
                  PROVE  shown'.text \subseteq text' /\ DraftIsDone'
      BY <3>1
    <3>2. /\ shown.save = "saved" => kept = {}
          /\ shown.save # "saved" /\ shown.text # {} => kept = shown.text
      BY <3>1 DEF E!DraftEffect
    <3>. HIDE DEF kept
    <3>3. CASE accept
      <4>1. kept # {} /\ text' = kept /\ draft' = kept
        BY <2>11, <3>3 DEF E!RunEffects, E!Offered, kept
      <4>. QED  BY <3>1, <3>2, <4>1
    <3>4. CASE ~accept
      <4>1. /\ text' = text \/ text = {}
            /\ draft' = kept \/ (draft' = {} /\ kept # text')
        BY <2>11, <3>4 DEF E!RunEffects, E!ImportEffect, E!Offered, kept
      <4>. QED  BY <3>1, <3>2, <4>1
    <3>. QED  BY <3>3, <3>4
  <2>. QED
    BY <2>1, <2>3, <2>4, <2>5, <2>6, <2>7, <2>8, <2>9, <2>10, <2>11 DEF E!EditorNext
<1>3. UnsavedInv => DraftIsTheUnsavedText
  BY DEF UnsavedInv, DraftIsDone, DraftIsTheUnsavedText, E!DraftIsTheUnsavedText, E!Cells
<1>. QED  BY <1>1, <1>2, <1>3, PTL DEF BrowserSpec
-----------------------------------------------------------------------------
(***************************************************************************)
(* The dialogs of Versions.  A call keeps its fields while it is served    *)
(* and answered, so that an export under way is always found among them.   *)
(***************************************************************************)
AskFields == {"n", "op", "by", "arg", "tag", "state", "answer"}
AskShapes == \A a \in asks : DOMAIN a = AskFields
Exporting(s) == \E a \in s : a.op \in {"publish", "export"} /\ a.by # "button"

ExportInv ==
    /\ AskShapes
    /\ DOMAIN export = {"open", "shows", "busy", "printing", "status"}
    /\ V!ExportEnds

\* What a call adds to those that are kept, and what serving one makes of it.
LEMMA AsksMoveOn ==
    /\ \A kept, op, by, arg, tag : V!Ask(kept, op, by, arg, tag) =>
         \E b : /\ asks' = kept \cup {b} /\ DOMAIN b = AskFields
                /\ b.op = op /\ b.by = by /\ b.arg = arg /\ b.tag = tag /\ b.state = "sent"
    /\ \A a \in asks : DOMAIN a = AskFields /\ (V!ServeAsk(a) \/ V!RefuseAsk(a)) =>
         \E b : /\ asks' = (asks \ {a}) \cup {b} /\ DOMAIN b = AskFields
                /\ b.op = a.op /\ b.by = a.by /\ b.arg = a.arg /\ b.tag = a.tag
                /\ \/ b.state = "served" /\ b.answer = V!Answer(a)
                   \/ b.state = "failed"
<1>1. ASSUME NEW kept, NEW op, NEW by, NEW arg, NEW tag, V!Ask(kept, op, by, arg, tag)
      PROVE  \E b : /\ asks' = kept \cup {b} /\ DOMAIN b = AskFields
                    /\ b.op = op /\ b.by = by /\ b.arg = arg /\ b.tag = tag /\ b.state = "sent"
  <2>. DEFINE b == [n |-> V!Slot(kept), op |-> op, by |-> by, arg |-> arg, tag |-> tag,
                    state |-> "sent", answer |-> 0]
  <2>1. /\ DOMAIN b = AskFields
        /\ b.op = op /\ b.by = by /\ b.arg = arg /\ b.tag = tag /\ b.state = "sent"
    BY DEF AskFields
  <2>2. asks' = kept \cup {b}
    BY <1>1 DEF V!Ask
  <2>. QED  BY <2>1, <2>2
<1>2. ASSUME NEW a \in asks, DOMAIN a = AskFields, V!ServeAsk(a) \/ V!RefuseAsk(a)
      PROVE  \E b : /\ asks' = (asks \ {a}) \cup {b} /\ DOMAIN b = AskFields
                    /\ b.op = a.op /\ b.by = a.by /\ b.arg = a.arg /\ b.tag = a.tag
                    /\ \/ b.state = "served" /\ b.answer = V!Answer(a)
                       \/ b.state = "failed"
  <2>. DEFINE done == [a EXCEPT !.state = "served", !.answer = V!Answer(a)]
              lost == [a EXCEPT !.state = "failed"]
  <2>1. /\ DOMAIN done = AskFields
        /\ done.op = a.op /\ done.by = a.by /\ done.arg = a.arg /\ done.tag = a.tag
        /\ done.state = "served" /\ done.answer = V!Answer(a)
    BY <1>2 DEF AskFields
  <2>2. /\ DOMAIN lost = AskFields /\ lost.state = "failed"
        /\ lost.op = a.op /\ lost.by = a.by /\ lost.arg = a.arg /\ lost.tag = a.tag
    BY <1>2 DEF AskFields
  <2>3. asks' \in {(asks \ {a}) \cup {done}, (asks \ {a}) \cup {lost}}
    BY <1>2 DEF V!ServeAsk, V!RefuseAsk
  <2>. QED  BY <2>1, <2>2, <2>3
<1>. QED  BY <1>1, <1>2

\* The dashboard: the list is the one of the tab and the search, or the call
\* that fetches it is in flight.
CallFields == {"n", "op", "table", "row", "tag", "alone", "state", "answer"}
CallShapes == \A c \in calls : DOMAIN c = CallFields
Searching(s) == \E c \in s : c.op = "list" /\ c.n = wanted

DashInv ==
    IF scene = "dashboard" THEN CallShapes /\ (user = "in" => key = docsKey \/ Searching(calls))
    ELSE user = "loading"

\* Nobody waits in vain for a search (app/page.tsx 53-79) or for an export
\* (ExportModal.tsx 49-134), for any number of documents, calls and versions.
THEOREM NobodyWaitsInVain == BrowserSpec => []WaitingEnds
<1>1. BrowserInit => DashInv /\ ExportInv
  <2>. SUFFICES ASSUME BrowserInit PROVE DashInv /\ ExportInv
    OBVIOUS
  <2>1. scene = "dashboard" => calls = {}
    BY DEF BrowserInit, DashInit, CallsInit
  <2>2. DashIdle
    BY Zenon DEF BrowserInit, DashInit
  <2>3. PICK h, e, u : V!VersionsStart(h, e, u)
    BY Zenon DEF BrowserInit, V!VersionsInit, VersionsIdle, V!VersionsIdle
  <2>4. DashInv
    BY <2>1, <2>2 DEF DashInv, DashIdle, CallShapes
  <2>5. ExportInv
    BY <2>3 DEF V!VersionsStart, ExportInv, AskShapes, V!ExportEnds
  <2>. QED  BY <2>4, <2>5
<1>2. DashInv /\ [BrowserNext]_browserVars => DashInv'
  <2>. SUFFICES ASSUME DashInv, [BrowserNext]_browserVars PROVE DashInv'
    OBVIOUS
  <2>1. CASE scene # "dashboard" \/ UNCHANGED browserVars
    <3>1. scene' = scene /\ (UNCHANGED user \/ scene = "dashboard")
      BY <2>1, Zenon DEF BrowserNext, browserVars, dashVars, EditorScene, CommentsScene, ShareScene,
           LinksScene, DashboardScene, VersionsScene, AnchorsScene, SessionScene, ToolsScene
    <3>2. CASE UNCHANGED browserVars
      BY <3>2 DEF DashInv, browserVars, dashVars, callVars, CallShapes, Searching, docsKey
    <3>. QED  BY <2>1, <3>1, <3>2 DEF DashInv
  <2>2. CASE scene = "dashboard" /\ ~UNCHANGED browserVars
    <3>1. DashNext /\ scene' = scene
      BY <2>2, Zenon DEF BrowserNext, EditorScene, CommentsScene, ShareScene, LinksScene,
           DashboardScene, VersionsScene, AnchorsScene, SessionScene, ToolsScene
    <3>2. CallShapes /\ (user = "in" => key = docsKey \/ Searching(calls))
      BY <2>2 DEF DashInv
    <3>. SUFFICES CallShapes' /\ (user' = "in" => key' = docsKey' \/ Searching(calls)')
      BY <2>2, <3>1 DEF DashInv
    \* A call is sent.
    <3>3. ASSUME NEW op, NEW row, NEW tag, CallDocuments(op, row, tag)
          PROVE  /\ CallShapes'
                 /\ wanted' = wanted /\ Searching(calls) => Searching(calls)'
                 /\ op = "list" /\ wanted' = sent + 1 => Searching(calls)'
      <4>. DEFINE new == NewCall(op, "documents", row, tag,
                                   \A c \in calls : "documents" \notin Tables(c.op, c.table))
                  moved(c) == [c EXCEPT !.alone =
                                 @ /\ Tables(c.op, c.table) \cap Tables(op, "documents") = {}]
      <4>1. calls' = {moved(c) : c \in calls} \cup {new}
        BY <3>3 DEF CallDocuments, Send, SendWith
      <4>2. DOMAIN new = CallFields /\ new.op = op /\ new.n = sent + 1
        BY DEF NewCall, CallFields
      <4>3. \A c \in calls : DOMAIN moved(c) = CallFields /\ moved(c).op = c.op /\ moved(c).n = c.n
        BY <3>2 DEF CallShapes, CallFields
      <4>. HIDE DEF new, moved
      <4>. QED  BY <4>1, <4>2, <4>3 DEF CallShapes, Searching
    <3>4. ASSUME NEW k, ListEffect(k) PROVE CallShapes' /\ Searching(calls)'
      BY <3>3, <3>4 DEF ListEffect
    <3>5. CASE FetchMe
      BY <3>2, <3>4, <3>5 DEF FetchMe, callVars, CallShapes
    <3>6. CASE TypeSearch
      BY <3>2, <3>6 DEF TypeSearch, callVars, CallShapes, Searching, docsKey
    <3>7. CASE Debounced \/ \E t \in {"all", "owned", "shared"} : SetTab(t)
      BY <3>4, <3>7 DEF Debounced, SetTab
    <3>8. CASE \E i \in DOMAIN ShownDocuments : ToggleMenu(i) \/ OnDelete(i) \/ OnRename(i)
      <4>1. UNCHANGED <<user, tab, query, key, wanted>>
        BY <3>8 DEF ToggleMenu, OnDelete, OnRename, dashVars
      <4>2. UNCHANGED calls \/ \E op, row, tag : CallDocuments(op, row, tag)
        BY <3>8, Zenon DEF ToggleMenu, OnDelete, OnRename, callVars
      <4>. QED  BY <3>2, <3>3, <4>1, <4>2 DEF CallShapes, Searching, docsKey
    <3>9. ASSUME NEW imported \in BOOLEAN, OnCreate(imported) PROVE CallShapes' /\ (user' = "in" => key' = docsKey' \/ Searching(calls)')
      <4>1. UNCHANGED <<user, tab, query, key, wanted>>
        BY <3>9 DEF OnCreate
      <4>2. \E op, row, tag : CallDocuments(op, row, tag)
        BY <3>9, Zenon DEF OnCreate
      <4>. QED  BY <3>2, <3>3, <4>1, <4>2 DEF docsKey
    <3>10. ASSUME NEW c \in calls, Serve(c) \/ Refuse(c), UNCHANGED dashVars
           PROVE  CallShapes' /\ (user' = "in" => key' = docsKey' \/ Searching(calls)')
      <4>. DEFINE done == [c EXCEPT !.state = "served", !.answer = AnswerOf(c)]
                  lost == [c EXCEPT !.state = "failed"]
      <4>1. /\ DOMAIN done = CallFields /\ done.op = c.op /\ done.n = c.n
            /\ DOMAIN lost = CallFields /\ lost.op = c.op /\ lost.n = c.n
        BY <3>2 DEF CallShapes, CallFields
      <4>2. calls' \in {(calls \ {c}) \cup {done}, (calls \ {c}) \cup {lost}}
        BY <3>10 DEF Serve, Refuse
      <4>. HIDE DEF done, lost
      <4>3. CallShapes' /\ (Searching(calls) => Searching(calls)')
        BY <3>2, <3>10, <4>1, <4>2 DEF CallShapes, Searching, dashVars
      <4>. QED  BY <3>2, <3>10, <4>3 DEF dashVars, docsKey
    <3>11. ASSUME NEW c \in calls, DocumentsListed(c)
           PROVE  CallShapes' /\ (user' = "in" => key' = docsKey' \/ Searching(calls)')
      <4>1. calls' = calls \ {c} /\ UNCHANGED <<user, tab, query>>
        BY <3>11 DEF DocumentsListed, TakeDocuments, Ignored, Handled
      <4>2. \/ c.n # wanted /\ UNCHANGED <<key, wanted>>
            \/ key' = docsKey
        BY <3>11 DEF DocumentsListed
      <4>. QED  BY <3>2, <4>1, <4>2 DEF CallShapes, Searching, docsKey
    <3>12. ASSUME NEW c \in calls, DocumentChanged(c) \/ DocumentCreated(c)
           PROVE  CallShapes' /\ (user' = "in" => key' = docsKey' \/ Searching(calls)')
      <4>1. calls' = calls \ {c} /\ UNCHANGED <<tab, query, key, wanted>> /\ user' \in {user, "out"}
        BY <3>12 DEF DocumentChanged, DocumentCreated, Ignored, Handled
      <4>2. c.op # "list"
        BY <3>12 DEF DocumentChanged, DocumentCreated
      <4>. QED  BY <3>2, <4>1, <4>2 DEF CallShapes, Searching, docsKey
    <3>. QED
      BY <3>1, <3>5, <3>6, <3>7, <3>8, <3>9, <3>10, <3>11, <3>12, Zenon DEF DashNext
  <2>. QED  BY <2>1, <2>2
<1>3. ExportInv /\ [BrowserNext]_browserVars => ExportInv'
  <2>. SUFFICES ASSUME ExportInv, [BrowserNext]_browserVars PROVE ExportInv'
    OBVIOUS
  <2>1. V!VersionsNext \/ UNCHANGED versionVars
    BY Zenon DEF BrowserNext, browserVars, EditorScene, CommentsScene, ShareScene, LinksScene,
           DashboardScene, VersionsScene, AnchorsScene, SessionScene, ToolsScene
  <2>2. CASE UNCHANGED versionVars
    BY <2>2 DEF versionVars, ExportInv, AskShapes, V!ExportEnds
  \* A step that ends no export.
  <2>3. ASSUME UNCHANGED threw, DOMAIN export' = DOMAIN export,
               export'.busy = export.busy, export'.printing = export.printing,
               AskShapes', Exporting(asks) => Exporting(asks)'
        PROVE  ExportInv'
    BY <2>3 DEF ExportInv, V!ExportEnds, Exporting
  <2>4. ASSUME NEW kept \in SUBSET asks, NEW op, NEW by, NEW arg, NEW tag,
               V!Ask(kept, op, by, arg, tag)
        PROVE  /\ AskShapes'
               /\ Exporting(kept) => Exporting(asks)'
               /\ op \in {"publish", "export"} /\ by # "button" => Exporting(asks)'
    <3>1. PICK b : /\ asks' = kept \cup {b} /\ DOMAIN b = AskFields
                   /\ b.op = op /\ b.by = by
      BY <2>4, AsksMoveOn
    <3>. QED  BY <3>1 DEF ExportInv, AskShapes, Exporting
  <2>5. ASSUME NEW a \in asks, asks' = asks \ {a}
        PROVE  /\ AskShapes'
               /\ ~(a.op \in {"publish", "export"} /\ a.by # "button")
                    => (Exporting(asks) => Exporting(asks)')
    BY <2>5 DEF ExportInv, AskShapes, Exporting
  <2>6. CASE UNCHANGED <<asks, threw, export>>
    BY <2>3, <2>6 DEF ExportInv, AskShapes, Exporting
  \* The export dialog opens and asks for the status.
  <2>7. CASE V!OpenExport \/ V!CloseExport \/ V!RefreshStatus
    <3>1. /\ UNCHANGED threw /\ DOMAIN export' = DOMAIN export
          /\ export'.busy = export.busy /\ export'.printing = export.printing
      BY <2>7 DEF V!OpenExport, V!CloseExport, V!RefreshStatus, ExportInv
    <3>2. UNCHANGED asks \/ \E op, by, arg, tag : V!Ask(asks, op, by, arg, tag)
      BY <2>7, Zenon DEF V!OpenExport, V!CloseExport, V!RefreshStatus
    <3>3. AskShapes' /\ (Exporting(asks) => Exporting(asks)')
      BY <2>4, <3>2 DEF ExportInv, AskShapes, Exporting
    <3>. QED  BY <2>3, <3>1, <3>3
  \* Another dialog, or a token, asks for something.
  <2>8. ASSUME NEW op, NEW by, NEW arg, NEW tag, V!Ask(asks, op, by, arg, tag),
               UNCHANGED <<threw, export>>
        PROVE  ExportInv'
    BY <2>3, <2>4, <2>8
  <2>9. CASE V!PrintPage \/ V!ExportPDF
    <3>1. UNCHANGED asks /\ DOMAIN export' = DOMAIN export
      BY <2>9 DEF V!PrintPage, V!ExportPDF, V!NotBusy, V!notExport
    <3>2. \/ export'.busy = ""
          \/ export'.busy = "pdf" /\ export'.printing
      BY <2>9 DEF V!PrintPage, V!ExportPDF, V!NotBusy, ExportInv
    <3>. QED  BY <3>1, <3>2 DEF ExportInv, AskShapes, V!ExportEnds
  <2>10. ASSUME NEW a \in asks, V!ServeAsk(a) \/ V!RefuseAsk(a) PROVE ExportInv'
    <3>1. DOMAIN a = AskFields
      BY DEF ExportInv, AskShapes
    <3>2. PICK b : /\ asks' = (asks \ {a}) \cup {b} /\ DOMAIN b = AskFields
                   /\ b.op = a.op /\ b.by = a.by
      BY <2>10, <3>1, AsksMoveOn
    <3>3. AskShapes' /\ (Exporting(asks) => Exporting(asks)')
      BY <3>2 DEF ExportInv, AskShapes, Exporting
    <3>4. UNCHANGED <<threw, export>>
      BY <2>10 DEF V!ServeAsk, V!RefuseAsk
    <3>. QED  BY <2>3, <3>3, <3>4
  \* Answers that end no export.
  <2>11. ASSUME NEW a \in asks,
                \/ V!HistoryListed(a) \/ V!HistoryBodyOpened(a) \/ V!SnapshotChosen(a)
                \/ V!Restored(a) \/ V!Published(a) \/ V!StatusAnswered(a)
         PROVE  ExportInv'
    <3>1. ~(a.op \in {"publish", "export"} /\ a.by # "button")
      BY <2>11 DEF V!HistoryListed, V!HistoryBodyOpened, V!SnapshotChosen, V!Restored, V!Published,
                   V!StatusAnswered, V!Answered
    <3>2. \/ asks' = asks \ {a}
          \/ \E op, by, arg, tag : V!Ask(asks \ {a}, op, by, arg, tag)
      BY <2>11, Zenon DEF V!HistoryListed, V!HistoryBodyOpened, V!SnapshotChosen, V!Restored,
                   V!Published, V!StatusAnswered, V!DropAsk
    <3>3. /\ UNCHANGED threw /\ DOMAIN export' = DOMAIN export
          /\ export'.busy = export.busy /\ export'.printing = export.printing
      <4>1. UNCHANGED threw /\ (UNCHANGED export \/ V!StatusAnswered(a))
        BY <2>11, Zenon DEF V!HistoryListed, V!HistoryBodyOpened, V!SnapshotChosen, V!Restored,
             V!Published, V!StatusAnswered, V!notHistory
      <4>2. CASE V!StatusAnswered(a)
        BY <4>1, <4>2 DEF V!StatusAnswered, ExportInv
      <4>. QED  BY <4>1, <4>2
    <3>4. Exporting(asks) => Exporting(asks \ {a})
      BY <3>1 DEF Exporting
    <3>5. asks \ {a} \in SUBSET asks
      OBVIOUS
    <3>6. AskShapes' /\ (Exporting(asks) => Exporting(asks)')
      BY <2>4, <2>5, <3>1, <3>2, <3>4, <3>5
    <3>. QED  BY <2>3, <3>3, <3>6
  \* The calls of an export, one after the other.
  <2>12. ASSUME NEW a \in asks, V!TokenAnswered(a) PROVE ExportInv'
    <3>1. UNCHANGED threw /\ a.op = "token"
      BY <2>12 DEF V!TokenAnswered, V!Answered
    <3>2. CASE a.state = "failed"
      BY <2>3, <2>5, <2>12, <3>1, <3>2 DEF V!TokenAnswered, V!DropAsk
    <3>3. CASE a.state # "failed"
      <4>1. \/ V!Ask(asks \ {a}, "publish", "first", content, 0)
            \/ V!Ask(asks \ {a}, "export", "latest", 0, 0)
        BY <2>12, <3>3 DEF V!TokenAnswered
      <4>2. AskShapes' /\ Exporting(asks)'
        <5>1. asks \ {a} \in SUBSET asks
          OBVIOUS
        <5>2. CASE V!Ask(asks \ {a}, "publish", "first", content, 0)
          BY <2>4, <5>1, <5>2
        <5>3. CASE V!Ask(asks \ {a}, "export", "latest", 0, 0)
          BY <2>4, <5>1, <5>3
        <5>. QED  BY <4>1, <5>2, <5>3
      <4>3. DOMAIN export' = DOMAIN export /\ export'.busy \in {"markdown", "publish-markdown"}
        BY <2>12, <3>3 DEF V!TokenAnswered, ExportInv
      <4>. QED  BY <4>2, <4>3 DEF ExportInv, V!ExportEnds, Exporting
    <3>. QED  BY <3>2, <3>3
  <2>13. ASSUME NEW a \in asks, V!ExportPublished(a) PROVE ExportInv'
    <3>1. CASE a.state = "served"
      <4>1. V!Ask(asks \ {a}, "export", a.by, 0, 0) /\ UNCHANGED <<threw, export>>
            /\ a.by # "button"
        BY <2>13, <3>1 DEF V!ExportPublished, V!Answered
      <4>2. AskShapes' /\ Exporting(asks)'
        BY <2>4, <4>1
      <4>. QED  BY <2>3, <4>1, <4>2
    <3>2. CASE a.state # "served"
      <4>1. asks' = asks \ {a} /\ DOMAIN export' = DOMAIN export /\ export'.busy = ""
        BY <2>13, <3>2 DEF V!ExportPublished, V!NotBusy, V!DropAsk, ExportInv
      <4>. QED  BY <2>5, <4>1 DEF ExportInv, V!ExportEnds
    <3>. QED  BY <3>1, <3>2
  <2>14. ASSUME NEW a \in asks, V!Exported(a) PROVE ExportInv'
    <3>1. AskShapes' /\ DOMAIN export' = DOMAIN export
      BY <2>4, <2>5, <2>14 DEF V!Exported, V!NotBusy, V!DropAsk, ExportInv
    <3>2. \/ V!Ask(asks \ {a}, "publish", "retry", content, 0) /\ UNCHANGED export
          \/ UNCHANGED export /\ threw' = (export.busy # "")
          \/ export' = [V!NotBusy EXCEPT !.status = "loading"]
          \/ export' = V!NotBusy
      BY <2>14, Zenon DEF V!Exported
    <3>3. \/ export'.busy = ""
          \/ UNCHANGED export /\ (threw' \/ Exporting(asks)')
          \/ UNCHANGED export /\ export.busy = ""
      <4>1. CASE V!Ask(asks \ {a}, "publish", "retry", content, 0) /\ UNCHANGED export
        <5>1. asks \ {a} \in SUBSET asks
          OBVIOUS
        <5>2. Exporting(asks)'
          BY <2>4, <4>1, <5>1
        <5>. QED  BY <4>1, <5>2
      <4>2. CASE \/ export' = [V!NotBusy EXCEPT !.status = "loading"]
                 \/ export' = V!NotBusy
        BY <4>2 DEF V!NotBusy, ExportInv
      <4>3. CASE UNCHANGED export /\ threw' = (export.busy # "")
        BY <4>3
      <4>. QED  BY <3>2, <4>1, <4>2, <4>3
    <3>. QED  BY <3>1, <3>3 DEF ExportInv, V!ExportEnds, Exporting
  <2>15. CASE V!Edit \/ V!CloseHistory \/ V!FlashEnds
    <3>1. UNCHANGED <<asks, threw, export>>
      BY <2>15 DEF V!Edit, V!CloseHistory, V!FlashEnds, V!notHistory
    <3>. QED  BY <2>6, <3>1
  <2>16. CASE \/ V!OpenHistory \/ V!RestoreSelectedSnapshot \/ V!PublishSnapshot
              \/ \E index \in 1..history.listed : V!ChooseSnapshot(index)
              \/ \E by \in {"latest", "first"} : V!ExportMarkdown(by)
    <3>1. UNCHANGED <<threw, export>> /\ \E op, by, arg, tag : V!Ask(asks, op, by, arg, tag)
      BY <2>16, Zenon DEF V!OpenHistory, V!RestoreSelectedSnapshot, V!PublishSnapshot,
                          V!ChooseSnapshot, V!ExportMarkdown, V!notHistory, V!notExport
    <3>. QED  BY <2>8, <3>1
  <2>. QED
    BY <2>1, <2>2, <2>7, <2>9, <2>10, <2>11, <2>12, <2>13, <2>14, <2>15, <2>16, Zenon
       DEF V!VersionsNext
<1>4. DashInv /\ ExportInv => WaitingEnds
  BY DEF DashInv, ExportInv, WaitingEnds, SearchEnds, Searching
<1>. QED  BY <1>1, <1>2, <1>3, <1>4, PTL DEF BrowserSpec
-----------------------------------------------------------------------------
(***************************************************************************)
(* The history dialog.  An opening has one call under way, its list or its *)
(* body, and the dialog loads until that is answered.  What is shown, and  *)
(* what calls for a body will show, is the selection or came before it.    *)
(***************************************************************************)
HistoryFields == {"open", "shows", "loading", "listed", "selected", "shown", "restoring"}
OfHistory(a) == a.by \in {"open", "choose"}
OtherBy == {"button", "effect", "refresh", "latest", "first", "retry"}
ForBody(a) == a.op = "body" /\ OfHistory(a)

HistoryTypes ==
    /\ DOMAIN history = HistoryFields /\ history.shows \in Nat /\ history.listed \in Nat
    /\ history.open \in BOOLEAN /\ history.loading \in BOOLEAN
    /\ \E R : versions \in Seq(R)
    /\ \A a \in asks : DOMAIN a = AskFields /\ a.state \in {"sent", "served", "failed"}

AsksOfHistory ==
    \A a \in asks :
      /\ a.by = "choose" => a.op = "body"
      /\ a.by = "open" => a.op \in {"list", "body"} /\ a.tag \in Nat /\ a.tag <= history.shows
      /\ a.by = "open" /\ a.op = "list" /\ a.state = "served" => a.answer \in Nat
      /\ ForBody(a) /\ a.state = "served" => a.answer = a.arg

OneAskAnOpening ==
    /\ \A a, b \in asks : a.by = "open" /\ b.by = "open" /\ a.tag = b.tag => a = b
    /\ ~history.open => history.loading
    /\ ~history.loading => \A a \in asks : a.by = "open" => a.tag # history.shows
    /\ \A a \in asks : a.by = "open" /\ a.op = "body" /\ a.tag = history.shows
                         => a.arg = history.selected

BodiesAreKnown ==
    /\ \A a \in asks : a.by = "choose" => a.arg = history.selected \/ a.arg \in late
    /\ history.shown # 0 => history.shown = history.selected \/ history.shown \in late

HistoryInv ==
    /\ HistoryTypes /\ AsksOfHistory /\ OneAskAnOpening /\ BodiesAreKnown

\* The blame that is on the screen, or on its way, is not older than the click.
BlameInv ==
    /\ changes \in Nat /\ logged \in Nat
    /\ DOMAIN blame = {"active", "since", "map", "loading", "answer"}
    /\ blame.active \in BOOLEAN /\ blame.since \in Nat /\ blame.since <= logged
    /\ blame.loading # "no" => blame.map = <<>>
    /\ ~blame.active => blame.map = <<>> /\ blame.loading = "no"
    /\ blame.loading = "served" => blame.answer >= A!Smaller(blame.since, BlamePage)
    /\ A!BlameIsFresh

\* For any number of versions, openings, calls and edits: the history dialog shows
\* the version that was chosen last, or one whose body was on the screen or under
\* way at that moment, and no older one (HistoryPanel.tsx 35-100); the blame has
\* the rows that were in the log when it was switched on, as far as one call
\* brings them (d/[id]/page.tsx 584-602).
THEOREM ShownIsAskedFor == BrowserSpec => []ShownIsWhatWasAsked
<1>. USE BrowserAssumption DEF A!AnchorsAssumption, BrowserAssumption
<1>1. BrowserInit => HistoryInv /\ BlameInv
  <2>. SUFFICES ASSUME BrowserInit PROVE HistoryInv /\ BlameInv
    OBVIOUS
  <2>1. PICK h, e, u : h \in Nat /\ V!VersionsStart(h, e, u)
    <3>1. MaxShows \in Nat
      BY DEF V!VersionsAssumption
    <3>2. \/ V!VersionsStart(0, 0, 0) \/ V!VersionsStart(0, MaxShows, 2)
          \/ V!VersionsStart(MaxShows, MaxShows - 1, 0)
      BY Zenon DEF BrowserInit, V!VersionsInit, VersionsIdle, V!VersionsIdle
    <3>. QED  BY <3>1, <3>2
  <2>2. \E R : versions \in Seq(R)
    <3>1. versions \in {<<>>, <<0>>, <<0, V!Opaque>>}
      BY Zenon DEF BrowserInit, V!VersionsInit, VersionsIdle
    <3>2. /\ <<>> \in Seq({0, V!Opaque}) /\ <<0>> \in Seq({0, V!Opaque})
          /\ <<0, V!Opaque>> \in Seq({0, V!Opaque})
      OBVIOUS
    <3>. QED  BY <3>1, <3>2
  <2>3. A!AnchorIdle
    BY Zenon DEF BrowserInit, A!AnchorInit, AnchorsIdle
  <2>4. HistoryInv
    <3>1. /\ asks = {}
          /\ history = [open |-> FALSE, shows |-> h, loading |-> TRUE, listed |-> 0,
                        selected |-> 0, shown |-> 0, restoring |-> FALSE]
      BY <2>1 DEF V!VersionsStart
    <3>2. /\ DOMAIN history = HistoryFields /\ history.shows = h /\ history.listed = 0
          /\ history.open = FALSE /\ history.loading = TRUE /\ history.shown = 0
      BY <3>1 DEF HistoryFields
    <3>3. HistoryTypes
      <4>1. h \in Nat
        BY <2>1
      <4>2. \A a \in asks : DOMAIN a = AskFields /\ a.state \in {"sent", "served", "failed"}
        BY <3>1
      <4>. QED  BY <2>2, <3>1, <3>2, <4>1, <4>2 DEF HistoryTypes
    <3>. QED
      BY <3>1, <3>2, <3>3 DEF HistoryInv, AsksOfHistory, OneAskAnOpening, BodiesAreKnown
  <2>5. BlameInv
    BY <2>3 DEF A!AnchorIdle, BlameInv, A!BlameIsFresh
  <2>. QED  BY <2>4, <2>5
<1>2. HistoryInv /\ [BrowserNext]_browserVars => HistoryInv'
  <2>. SUFFICES ASSUME HistoryInv, [BrowserNext]_browserVars PROVE HistoryInv'
    OBVIOUS
  <2>. USE DEF HistoryInv
  <2>1. V!VersionsNext \/ UNCHANGED versionVars
    BY Zenon DEF BrowserNext, browserVars, EditorScene, CommentsScene, ShareScene, LinksScene,
           DashboardScene, VersionsScene, AnchorsScene, SessionScene, ToolsScene
  \* What the calls do to the types.
  <2>2. ASSUME NEW kept \in SUBSET asks, NEW op, NEW by, NEW arg, NEW tag,
               V!Ask(kept, op, by, arg, tag)
        PROVE  \E b : /\ asks' = kept \cup {b} /\ DOMAIN b = AskFields
                      /\ b.op = op /\ b.by = by /\ b.arg = arg /\ b.tag = tag /\ b.state = "sent"
    BY <2>2, AsksMoveOn
  <2>3. ASSUME DOMAIN history' = HistoryFields, history'.shows \in Nat, history'.listed \in Nat,
               history'.open \in BOOLEAN, history'.loading \in BOOLEAN,
               \E R : versions' \in Seq(R), NEW kept \in SUBSET asks,
               \/ asks' = kept
               \/ \E b : asks' = kept \cup {b} /\ DOMAIN b = AskFields
                            /\ b.state \in {"sent", "served", "failed"}
        PROVE  HistoryTypes'
    BY <2>3 DEF HistoryTypes
  \* A step the history dialog does not notice.
  <2>4. ASSUME HistoryTypes', UNCHANGED late,
               history'.open = history.open, history'.shows = history.shows,
               history'.loading = history.loading, history'.listed = history.listed,
               history'.selected = history.selected, history'.shown = history.shown,
               \A a \in asks' : OfHistory(a) => a \in asks,
               \A a \in asks : OfHistory(a) => a \in asks'
        PROVE  HistoryInv'
    <3>1. AsksOfHistory'
      BY <2>4 DEF AsksOfHistory, OfHistory, ForBody
    <3>2. OneAskAnOpening'
      BY <2>4 DEF OneAskAnOpening, OfHistory
    <3>3. BodiesAreKnown'
      BY <2>4 DEF BodiesAreKnown, OfHistory
    <3>. QED  BY <2>4, <3>1, <3>2, <3>3
  <2>5. CASE UNCHANGED <<versions, asks, history, late>>
    <3>1. HistoryTypes'
      BY <2>5 DEF HistoryTypes
    <3>. QED  BY <2>4, <2>5, <3>1
  <2>6. CASE V!Edit \/ V!FlashEnds \/ V!CloseExport \/ V!ExportPDF \/ V!PrintPage
    BY <2>5, <2>6 DEF V!Edit, V!FlashEnds, V!CloseExport, V!ExportPDF, V!PrintPage, V!notExport
  \* Other calls: asked for, or answered and perhaps followed by the next.
  <2>7. ASSUME UNCHANGED <<versions, history, late>>, NEW kept \in SUBSET asks,
               \A a \in asks \ kept : ~OfHistory(a),
               \/ asks' = kept
               \/ \E op, by, arg, tag :
                    V!Ask(kept, op, by, arg, tag) /\ by \in OtherBy
        PROVE  HistoryInv'
    <3>1. asks' = kept \/ \E b : /\ asks' = kept \cup {b} /\ DOMAIN b = AskFields
                                 /\ b.state = "sent" /\ ~OfHistory(b)
      BY <2>2, <2>7 DEF OfHistory, OtherBy
    <3>2. HistoryTypes'
      BY <2>3, <2>7, <3>1 DEF HistoryTypes
    <3>. QED  BY <2>4, <2>7, <3>1, <3>2
  <2>8. CASE \/ V!PublishSnapshot \/ V!OpenExport \/ V!RefreshStatus
             \/ \E by \in {"latest", "first"} : V!ExportMarkdown(by)
    <3>1. UNCHANGED <<versions, history, late>>
      BY <2>8 DEF V!PublishSnapshot, V!OpenExport, V!RefreshStatus, V!ExportMarkdown, V!notExport
    <3>2. \E op, by, arg, tag : V!Ask(asks, op, by, arg, tag) /\ by \in OtherBy
      BY <2>8, Zenon DEF OtherBy, V!PublishSnapshot, V!OpenExport, V!RefreshStatus, V!ExportMarkdown
    <3>3. asks \in SUBSET asks
      OBVIOUS
    <3>. QED  BY <2>7, <3>1, <3>2, <3>3
  <2>9. ASSUME NEW a \in asks,
               \/ V!Published(a) \/ V!StatusAnswered(a) \/ V!TokenAnswered(a)
               \/ V!ExportPublished(a) \/ V!Exported(a)
        PROVE  HistoryInv'
    <3>1. UNCHANGED <<versions, history, late>>
      BY <2>9 DEF V!Published, V!StatusAnswered, V!TokenAnswered, V!ExportPublished, V!Exported,
                  V!notExport
    <3>2. ~OfHistory(a)
      BY <2>9 DEF V!Published, V!StatusAnswered, V!TokenAnswered, V!ExportPublished, V!Exported,
                  V!Answered, OfHistory
    <3>3. \/ asks' = asks \ {a}
          \/ \E op, by, arg, tag :
               V!Ask(asks \ {a}, op, by, arg, tag) /\ by \in OtherBy
      BY <2>9, Zenon DEF V!Published, V!StatusAnswered, V!TokenAnswered, V!ExportPublished,
                         V!Exported, V!DropAsk, V!Answered, OtherBy
    <3>4. asks \ {a} \in SUBSET asks /\ \A b \in asks \ (asks \ {a}) : ~OfHistory(b)
      BY <3>2
    <3>. QED  BY <2>7, <3>1, <3>3, <3>4
  \* The server.
  <2>10. ASSUME NEW a \in asks, V!ServeAsk(a) \/ V!RefuseAsk(a) PROVE HistoryInv'
    <3>1. DOMAIN a = AskFields
      BY DEF HistoryTypes
    <3>2. PICK b : /\ asks' = (asks \ {a}) \cup {b} /\ DOMAIN b = AskFields
                   /\ b.op = a.op /\ b.by = a.by /\ b.arg = a.arg /\ b.tag = a.tag
                   /\ \/ b.state = "served" /\ b.answer = V!Answer(a)
                      \/ b.state = "failed"
      BY <2>10, <3>1, AsksMoveOn
    <3>3. UNCHANGED <<history, late>> /\ a.state = "sent"
      BY <2>10 DEF V!ServeAsk, V!RefuseAsk
    <3>4. \/ UNCHANGED versions
          \/ (a.op \in {"publish", "restore"} /\ \E v : versions' = Append(versions, v))
      BY <2>10 DEF V!ServeAsk, V!RefuseAsk
    <3>5. Len(versions) \in Nat /\ \E R : versions' \in Seq(R)
      <4>1. PICK R : versions \in Seq(R)
        BY DEF HistoryTypes
      <4>2. ASSUME NEW v, versions' = Append(versions, v)
            PROVE  versions' \in Seq(R \cup {v})
        <5>1. versions \in Seq(R \cup {v})
          BY <4>1
        <5>. QED  BY <4>2, <5>1
      <4>3. Len(versions) \in Nat
        BY <4>1
      <4>4. CASE UNCHANGED versions
        BY <4>1, <4>3, <4>4
      <4>. QED  BY <3>4, <4>2, <4>3, <4>4
    <3>6. HistoryTypes'
      BY <2>3, <3>2, <3>3, <3>5 DEF HistoryTypes
    <3>7. CASE ~OfHistory(a)
      <4>1. ~OfHistory(b)
        BY <3>2, <3>7 DEF OfHistory
      <4>. QED  BY <2>4, <3>2, <3>3, <3>5, <3>6, <3>7, <4>1
    <3>8. CASE OfHistory(a)
      <4>1. UNCHANGED versions /\ OfHistory(b) /\ (ForBody(b) <=> ForBody(a))
        BY <3>2, <3>4, <3>8 DEF OfHistory, AsksOfHistory, ForBody
      <4>2. b.state = "served" => b.answer = IF a.op = "list" THEN Len(versions) ELSE a.arg
        BY <3>2, <3>8, <4>1 DEF V!Answer, AsksOfHistory, OfHistory
      <4>3. AsksOfHistory'
        BY <3>2, <3>3, <3>5, <3>8, <4>1, <4>2 DEF AsksOfHistory, OfHistory, ForBody
      <4>4. OneAskAnOpening'
        BY <3>2, <3>3 DEF OneAskAnOpening
      <4>5. BodiesAreKnown'
        BY <3>2, <3>3 DEF BodiesAreKnown
      <4>. QED  BY <3>6, <4>3, <4>4, <4>5
    <3>. QED  BY <3>7, <3>8
  \* The dialog closes, by itself or after a restore.
  <2>11. ASSUME HistoryTypes', UNCHANGED <<versions, late>>, asks' \subseteq asks,
                \A a \in asks : OfHistory(a) => a \in asks',
                history'.open = FALSE, history'.loading = TRUE, history'.shows = history.shows,
                history'.listed = history.listed, history'.selected = history.selected,
                history'.shown = history.shown
         PROVE  HistoryInv'
    <3>1. AsksOfHistory'
      BY <2>11 DEF AsksOfHistory
    <3>2. OneAskAnOpening'
      BY <2>11 DEF OneAskAnOpening
    <3>3. BodiesAreKnown'
      BY <2>11 DEF BodiesAreKnown
    <3>. QED  BY <2>11, <3>1, <3>2, <3>3
  <2>12. CASE V!CloseHistory
    <3>1. UNCHANGED <<versions, late, asks>>
      BY <2>12 DEF V!CloseHistory, V!notHistory
    <3>2. /\ DOMAIN history' = HistoryFields /\ history'.open = FALSE /\ history'.loading = TRUE
          /\ history'.shows = history.shows /\ history'.listed = history.listed
          /\ history'.selected = history.selected /\ history'.shown = history.shown
      BY <2>12 DEF V!CloseHistory, HistoryTypes, HistoryFields
    <3>3. HistoryTypes'
      BY <3>1, <3>2 DEF HistoryTypes
    <3>. QED  BY <2>11, <3>1, <3>2, <3>3
  <2>13. ASSUME NEW a \in asks, V!Restored(a) PROVE HistoryInv'
    <3>1. UNCHANGED <<versions, late>> /\ asks' = asks \ {a} /\ ~OfHistory(a)
      BY <2>13 DEF V!Restored, V!notHistory, V!DropAsk, V!Answered, OfHistory
    <3>2. /\ DOMAIN history' = HistoryFields
          /\ history'.open = (history.open /\ a.state = "failed")
          /\ history'.loading = (history.loading \/ (history.open /\ a.state = "served"))
          /\ history'.shows = history.shows /\ history'.listed = history.listed
          /\ history'.selected = history.selected /\ history'.shown = history.shown
      BY <2>13 DEF V!Restored, HistoryTypes, HistoryFields
    <3>3. a.state \in {"served", "failed"}
      BY <2>13 DEF V!Restored, V!Answered, HistoryTypes
    <3>4. \/ history'.open = history.open /\ history'.loading = history.loading
          \/ history'.open = FALSE /\ history'.loading = TRUE
      BY <3>2, <3>3 DEF HistoryTypes, OneAskAnOpening
    <3>5. HistoryTypes'
      BY <3>1, <3>2, <3>4 DEF HistoryTypes
    <3>. QED  BY <2>4, <2>11, <3>1, <3>2, <3>4, <3>5
  <2>14. CASE V!RestoreSelectedSnapshot
    <3>1. UNCHANGED <<versions, late>> /\ V!Ask(asks, "restore", "button", history.selected, 0)
      BY <2>14 DEF V!RestoreSelectedSnapshot, V!notHistory
    <3>2. PICK b : /\ asks' = asks \cup {b} /\ DOMAIN b = AskFields
                   /\ b.by = "button" /\ b.state = "sent"
      BY <2>2, <3>1
    <3>3. /\ DOMAIN history' = HistoryFields /\ history'.open = history.open
          /\ history'.loading = history.loading
          /\ history'.shows = history.shows /\ history'.listed = history.listed
          /\ history'.selected = history.selected /\ history'.shown = history.shown
      BY <2>14 DEF V!RestoreSelectedSnapshot, HistoryTypes, HistoryFields
    <3>4. HistoryTypes'
      BY <3>1, <3>2, <3>3 DEF HistoryTypes
    <3>. QED  BY <2>4, <3>1, <3>2, <3>3, <3>4 DEF OfHistory
  \* The dialog opens.
  <2>15. CASE V!OpenHistory
    <3>1. /\ ~history.open /\ V!Ask(asks, "list", "open", 0, history.shows + 1)
          /\ UNCHANGED <<versions, late>>
      BY <2>15 DEF V!OpenHistory, V!Uncovered, V!notHistory
    <3>2. PICK b : /\ asks' = asks \cup {b} /\ DOMAIN b = AskFields /\ b.op = "list"
                   /\ b.by = "open" /\ b.tag = history.shows + 1 /\ b.state = "sent"
      BY <2>2, <3>1
    <3>3. /\ DOMAIN history' = HistoryFields /\ history'.open = TRUE
          /\ history'.shows = history.shows + 1
          /\ history'.loading = history.loading /\ history'.listed = history.listed
          /\ history'.selected = history.selected /\ history'.shown = history.shown
      BY <2>15 DEF V!OpenHistory, HistoryTypes, HistoryFields
    <3>4. HistoryTypes'
      <4>1. UNCHANGED versions
        BY <3>1
      <4>2. /\ history'.shows \in Nat /\ history'.listed \in Nat
            /\ history'.open \in BOOLEAN /\ history'.loading \in BOOLEAN
        <5>1. history.shows + 1 \in Nat /\ history.listed \in Nat /\ history.loading \in BOOLEAN
          BY DEF HistoryTypes
        <5>2. history'.open \in BOOLEAN
          BY <3>3
        <5>. QED  BY <3>3, <5>1, <5>2
      <4>3. \A a \in asks' : DOMAIN a = AskFields /\ a.state \in {"sent", "served", "failed"}
        BY <3>2 DEF HistoryTypes
      <4>. QED  BY <3>3, <4>1, <4>2, <4>3 DEF HistoryTypes
    <3>5. AsksOfHistory'
      BY <3>2, <3>3 DEF AsksOfHistory, ForBody, HistoryTypes
    <3>6. \A a \in asks : a.by = "open" => a.tag # b.tag
      BY <3>2 DEF AsksOfHistory, HistoryTypes
    <3>7. OneAskAnOpening'
      BY <3>1, <3>2, <3>3, <3>6 DEF OneAskAnOpening
    <3>8. BodiesAreKnown'
      BY <3>1, <3>2, <3>3 DEF BodiesAreKnown
    <3>. QED  BY <3>4, <3>5, <3>7, <3>8
  \* A version is chosen, and its body comes.
  <2>16. ASSUME NEW index \in 1..history.listed, V!ChooseSnapshot(index) PROVE HistoryInv'
    <3>1. /\ ~history.loading /\ V!Ask(asks, "body", "choose", index, 0) /\ UNCHANGED versions
          /\ late' = V!Coming
      BY <2>16 DEF V!ChooseSnapshot, V!notHistory
    <3>2. PICK b : /\ asks' = asks \cup {b} /\ DOMAIN b = AskFields /\ b.op = "body"
                   /\ b.by = "choose" /\ b.arg = index /\ b.state = "sent"
      BY <2>2, <3>1
    <3>3. /\ DOMAIN history' = HistoryFields /\ history'.open = history.open
          /\ history'.shows = history.shows
          /\ history'.loading = history.loading /\ history'.listed = history.listed
          /\ history'.selected = index /\ history'.shown = 0
      BY <2>16 DEF V!ChooseSnapshot, HistoryTypes, HistoryFields
    <3>4. HistoryTypes'
      BY <3>1, <3>2, <3>3 DEF HistoryTypes
    <3>5. AsksOfHistory'
      BY <3>2, <3>3 DEF AsksOfHistory, ForBody
    <3>6. OneAskAnOpening'
      BY <3>1, <3>2, <3>3 DEF OneAskAnOpening
    <3>7. BodiesAreKnown'
      BY <3>1, <3>2, <3>3 DEF BodiesAreKnown, V!Coming
    <3>. QED  BY <3>4, <3>5, <3>6, <3>7
  <2>17. ASSUME NEW a \in asks, V!SnapshotChosen(a) PROVE HistoryInv'
    <3>1. /\ asks' = asks \ {a} /\ UNCHANGED <<versions, late>>
          /\ a.op = "body" /\ a.by = "choose" /\ a.state # "sent"
      BY <2>17 DEF V!SnapshotChosen, V!DropAsk, V!Answered, V!notHistory
    <3>2. /\ DOMAIN history' = HistoryFields /\ history'.open = history.open
          /\ history'.shows = history.shows
          /\ history'.loading = history.loading /\ history'.listed = history.listed
          /\ history'.selected = history.selected
          /\ history'.shown = IF a.state = "served" THEN a.answer ELSE history.shown
      BY <2>17 DEF V!SnapshotChosen, HistoryTypes, HistoryFields
    <3>3. HistoryTypes'
      BY <3>1, <3>2 DEF HistoryTypes
    <3>4. AsksOfHistory'
      BY <3>1, <3>2 DEF AsksOfHistory
    <3>5. OneAskAnOpening'
      BY <3>1, <3>2 DEF OneAskAnOpening
    <3>6. a.state = "served" => a.answer = a.arg
      BY <3>1 DEF AsksOfHistory, ForBody, OfHistory
    <3>7. BodiesAreKnown'
      BY <3>1, <3>2, <3>6 DEF BodiesAreKnown
    <3>. QED  BY <3>3, <3>4, <3>5, <3>7
  \* The list of an opening comes, and then its body.
  <2>18. ASSUME NEW a \in asks, V!HistoryListed(a) PROVE HistoryInv'
    <3>. DEFINE listed == [history EXCEPT !.listed = a.answer, !.selected = a.answer]
    <3>1. UNCHANGED versions /\ a.op = "list" /\ a.by = "open" /\ a.state # "sent"
      BY <2>18 DEF V!HistoryListed, V!Answered, V!notHistory
    <3>2. /\ a.tag \in Nat /\ a.tag <= history.shows
          /\ a.state = "served" => a.answer \in Nat
      BY <3>1 DEF AsksOfHistory
    <3>3. CASE ~V!Alive(a)
      <4>1. asks' = asks \ {a} /\ UNCHANGED <<history, late>>
        BY <2>18, <3>3, Zenon DEF V!HistoryListed, V!DropAsk
      <4>2. HistoryTypes'
        BY <3>1, <4>1 DEF HistoryTypes
      <4>3. AsksOfHistory' /\ OneAskAnOpening' /\ BodiesAreKnown'
        BY <3>1, <4>1 DEF AsksOfHistory, OneAskAnOpening, BodiesAreKnown
      <4>. QED  BY <4>2, <4>3
    <3>4. CASE V!Alive(a)
      <4>1. /\ a.tag = history.shows /\ history.loading
            /\ \A b \in asks : b.by = "open" /\ b.tag = history.shows => b = a
        BY <3>1, <3>4 DEF V!Alive, OneAskAnOpening
      <4>2. CASE a.state = "served" /\ a.answer > 0
        <5>1. /\ V!Ask(asks \ {a}, "body", "open", a.answer, a.tag) /\ history' = listed
              /\ late' = V!Coming \cup {history.shown}
          BY <2>18, <3>4, <4>2 DEF V!HistoryListed
        <5>2. asks \ {a} \in SUBSET asks
          OBVIOUS
        <5>3. PICK b : /\ asks' = (asks \ {a}) \cup {b} /\ DOMAIN b = AskFields /\ b.op = "body"
                       /\ b.by = "open" /\ b.arg = a.answer /\ b.tag = a.tag /\ b.state = "sent"
          BY <2>2, <5>1, <5>2
        <5>4. /\ DOMAIN history' = HistoryFields /\ history'.open = history.open
              /\ history'.shows = history.shows
              /\ history'.loading = history.loading /\ history'.listed = a.answer
              /\ history'.selected = a.answer /\ history'.shown = history.shown
          BY <5>1 DEF HistoryTypes, HistoryFields
        <5>5. HistoryTypes'
          BY <3>1, <3>2, <4>2, <5>3, <5>4 DEF HistoryTypes
        <5>6. AsksOfHistory'
          BY <3>2, <5>3, <5>4 DEF AsksOfHistory, ForBody
        <5>7. OneAskAnOpening'
          BY <4>1, <5>3, <5>4 DEF OneAskAnOpening
        <5>8. BodiesAreKnown'
          BY <5>1, <5>3, <5>4 DEF BodiesAreKnown, V!Coming
        <5>. QED  BY <5>5, <5>6, <5>7, <5>8
      <4>3. CASE a.state = "served" /\ a.answer = 0
        <5>1. /\ asks' = asks \ {a} /\ late' = V!Coming
              /\ history' = [listed EXCEPT !.shown = 0, !.loading = FALSE]
          BY <2>18, <3>4, <4>3 DEF V!HistoryListed, V!DropAsk
        <5>2. DOMAIN listed = HistoryFields /\ listed.open = history.open
              /\ listed.shows = history.shows /\ listed.listed = 0 /\ listed.selected = 0
          BY <4>3 DEF HistoryTypes, HistoryFields
        <5>. HIDE DEF listed
        <5>3. /\ DOMAIN history' = HistoryFields /\ history'.open = history.open
              /\ history'.shows = history.shows /\ history'.loading = FALSE
              /\ history'.listed = 0 /\ history'.selected = 0 /\ history'.shown = 0
          BY <5>1, <5>2 DEF HistoryFields
        <5>4. HistoryTypes'
          BY <3>1, <5>1, <5>3 DEF HistoryTypes
        <5>5. AsksOfHistory'
          BY <5>1, <5>3 DEF AsksOfHistory
        <5>6. OneAskAnOpening'
          BY <3>4, <4>1, <5>1, <5>3 DEF OneAskAnOpening, V!Alive
        <5>7. BodiesAreKnown'
          BY <5>1, <5>3 DEF BodiesAreKnown, V!Coming
        <5>. QED  BY <5>4, <5>5, <5>6, <5>7
      <4>4. CASE a.state = "failed"
        <5>1. /\ asks' = asks \ {a} /\ UNCHANGED late
              /\ history' = [history EXCEPT !.loading = FALSE]
          BY <2>18, <3>4, <4>4 DEF V!HistoryListed, V!DropAsk
        <5>2. /\ DOMAIN history' = HistoryFields /\ history'.open = history.open
              /\ history'.shows = history.shows /\ history'.loading = FALSE
              /\ history'.listed = history.listed /\ history'.selected = history.selected
              /\ history'.shown = history.shown
          BY <5>1 DEF HistoryTypes, HistoryFields
        <5>3. HistoryTypes'
          BY <3>1, <5>1, <5>2 DEF HistoryTypes
        <5>4. AsksOfHistory' /\ BodiesAreKnown'
          BY <3>1, <5>1, <5>2 DEF AsksOfHistory, BodiesAreKnown
        <5>5. OneAskAnOpening'
          BY <3>4, <4>1, <5>1, <5>2 DEF OneAskAnOpening, V!Alive
        <5>. QED  BY <5>3, <5>4, <5>5
      <4>5. a.state = "failed" \/ (a.state = "served" /\ (a.answer > 0 \/ a.answer = 0))
        BY <3>1, <3>2 DEF HistoryTypes
      <4>. QED  BY <4>2, <4>3, <4>4, <4>5
    <3>. QED  BY <3>3, <3>4
  \* The body of an opening comes.
  <2>19. ASSUME NEW a \in asks, V!HistoryBodyOpened(a) PROVE HistoryInv'
    <3>1. /\ UNCHANGED <<versions, late>> /\ asks' = asks \ {a}
          /\ a.op = "body" /\ a.by = "open" /\ a.state # "sent"
      BY <2>19 DEF V!HistoryBodyOpened, V!Answered, V!DropAsk, V!notHistory
    <3>2. CASE ~V!Alive(a)
      <4>1. UNCHANGED history
        BY <2>19, <3>2, Zenon DEF V!HistoryBodyOpened
      <4>. QED
        BY <3>1, <4>1 DEF HistoryTypes, AsksOfHistory, OneAskAnOpening, BodiesAreKnown
    <3>3. CASE V!Alive(a)
      <4>1. /\ a.tag = history.shows
            /\ \A b \in asks : b.by = "open" /\ b.tag = history.shows => b = a
        BY <3>1, <3>3 DEF V!Alive, OneAskAnOpening
      <4>2. /\ DOMAIN history' = HistoryFields /\ history'.open = history.open
            /\ history'.shows = history.shows /\ history'.loading = FALSE
            /\ history'.listed = history.listed /\ history'.selected = history.selected
            /\ history'.shown = IF a.state = "failed" THEN history.shown ELSE a.answer
        BY <2>19, <3>3 DEF V!HistoryBodyOpened, HistoryTypes, HistoryFields
      <4>3. HistoryTypes'
        BY <3>1, <4>2 DEF HistoryTypes
      <4>4. AsksOfHistory'
        BY <3>1, <4>2 DEF AsksOfHistory
      <4>5. OneAskAnOpening'
        BY <3>1, <3>3, <4>1, <4>2 DEF OneAskAnOpening, V!Alive
      <4>6. a.state # "failed" => a.answer = history.selected
        BY <3>1, <4>1 DEF HistoryTypes, AsksOfHistory, OneAskAnOpening, ForBody, OfHistory
      <4>7. BodiesAreKnown'
        BY <3>1, <4>2, <4>6 DEF BodiesAreKnown
      <4>. QED  BY <4>3, <4>4, <4>5, <4>7
    <3>. QED  BY <3>2, <3>3
  <2>. QED
    BY <2>1, <2>5, <2>6, <2>8, <2>9, <2>10, <2>12, <2>13, <2>14, <2>15, <2>16, <2>17, <2>18,
       <2>19, Zenon DEF V!VersionsNext, versionVars
<1>3. BlameInv /\ [BrowserNext]_browserVars => BlameInv'
  <2>. SUFFICES ASSUME BlameInv, [BrowserNext]_browserVars PROVE BlameInv'
    OBVIOUS
  <2>1. A!AnchorNext \/ UNCHANGED anchorVars
    BY Zenon DEF BrowserNext, browserVars, EditorScene, CommentsScene, ShareScene, LinksScene,
           DashboardScene, VersionsScene, AnchorsScene, SessionScene, ToolsScene
  <2>2. CASE UNCHANGED blame /\ changes' \in {changes, changes + 1} /\ logged' \in {logged, logged + 1}
    BY <2>2 DEF BlameInv, A!BlameIsFresh
  <2>3. CASE A!PeopleType
    BY <2>2, <2>3, Zenon DEF A!PeopleType, A!Insert, A!Delete
  <2>4. CASE A!CommentMade \/ A!ImageStep
    BY <2>2, <2>4, Zenon DEF A!CommentMade, A!BuildCommentAnchorDraft, A!ImageStep,
         A!BecomeReadOnly, A!PickImages, A!UploadImages, A!UploadAnswered
  <2>5. CASE A!ToggleBlame
    <3>1. blame.loading = "no" /\ UNCHANGED <<changes, logged>>
      BY <2>5 DEF A!ToggleBlame, A!notBlame
    <3>2. CASE blame.active
      BY <2>5, <3>1, <3>2 DEF A!ToggleBlame, BlameInv, A!BlameIsFresh
    <3>3. CASE ~blame.active
      BY <2>5, <3>1, <3>3 DEF A!ToggleBlame, BlameInv, A!BlameIsFresh
    <3>. QED  BY <3>2, <3>3
  <2>6. CASE A!ServeBlame
    <3>1. UNCHANGED <<changes, logged>> /\ blame.loading = "sent"
      BY <2>6 DEF A!ServeBlame, A!notBlame
    <3>2. BlamePage \in Nat
      OBVIOUS
    <3>3. A!Smaller(logged, BlamePage) >= A!Smaller(blame.since, BlamePage)
      BY <3>2 DEF A!Smaller, BlameInv
    <3>4. /\ DOMAIN blame' = DOMAIN blame /\ UNCHANGED <<blame.active, blame.since, blame.map>>
          /\ \/ blame'.loading = "served" /\ blame'.answer = A!Smaller(logged, BlamePage)
             \/ blame'.loading = "failed"
      BY <2>6 DEF A!ServeBlame, BlameInv
    <3>. QED  BY <3>1, <3>3, <3>4 DEF BlameInv, A!BlameIsFresh
  <2>7. CASE A!BlameAnswered
    BY <2>7 DEF A!BlameAnswered, A!notBlame, BlameInv, A!BlameIsFresh
  <2>8. CASE UNCHANGED anchorVars \/ A!EditLogged
    BY <2>2, <2>8, Zenon DEF anchorVars, A!EditLogged
  <2>. QED
    BY <2>1, <2>3, <2>4, <2>5, <2>6, <2>7, <2>8, Zenon DEF A!AnchorNext, A!BlameStep
<1>4. HistoryInv /\ BlameInv => ShownIsWhatWasAsked
  <2>. SUFFICES ASSUME HistoryInv, BlameInv PROVE ShownIsWhatWasAsked
    OBVIOUS
  <2>1. V!HistoryShowsItsSelection
    BY DEF V!HistoryShowsItsSelection, HistoryInv, BodiesAreKnown
  <2>. QED  BY <2>1 DEF BlameInv, ShownIsWhatWasAsked
<1>. QED  BY <1>1, <1>2, <1>3, <1>4, PTL DEF BrowserSpec
-----------------------------------------------------------------------------
(***************************************************************************)
(* The popup of a comment.  Of every create under way it is known what was *)
(* typed for it, and that the popup still has that text, has been emptied, *)
(* or was used since.                                                      *)
(***************************************************************************)
WriteShapes == \A w \in writes : DOMAIN w = {"n", "text", "touched"}

CallsAreNumbered ==
    /\ sent \in Nat
    /\ \A c \in calls : DOMAIN c = CallFields /\ c.n \in Nat /\ c.n <= sent
    /\ \A c, d \in calls : c.n = d.n => c = d

Written(c) == \E w \in writes : w.n = c.n /\ (w.touched = TRUE \/ body \in {None, w.text})
CreatesAreWritten == \A c \in calls : c.op = "create" => Written(c)

CommentInv ==
    scene = "comments" => WriteShapes /\ CallsAreNumbered /\ CreatesAreWritten

\* Text typed for a comment is cancelled, becomes one, or is cleared by the answer
\* that made an earlier text one (page.tsx 410-430), for any texts and any number
\* of calls that overlap and fail.
THEOREM TypedTextIsKept == BrowserSpec => TypedCommentSurvives
<1>1. BrowserInit => CommentInv
  <2>. SUFFICES ASSUME BrowserInit, scene = "comments"
                PROVE  WriteShapes /\ CallsAreNumbered /\ CreatesAreWritten
    BY DEF CommentInv
  <2>1. CommentsInit
    BY Zenon DEF BrowserInit
  <2>. QED
    BY <2>1 DEF CommentsInit, CallsInit, CommentsIdle, WriteShapes, CallsAreNumbered,
                CreatesAreWritten
<1>2. CommentInv /\ [BrowserNext]_browserVars
        => CommentInv' /\ [TypedTextSurvives]_<<callVars, commentVars>>
  <2>. SUFFICES ASSUME CommentInv, [BrowserNext]_browserVars
                PROVE  CommentInv' /\ [TypedTextSurvives]_<<callVars, commentVars>>
    OBVIOUS
  <2>1. CASE UNCHANGED browserVars
    BY <2>1 DEF browserVars, callVars, commentVars, CommentInv, WriteShapes, CallsAreNumbered,
                CreatesAreWritten, Written
  <2>2. CASE scene # "comments" /\ ~UNCHANGED browserVars
    <3>1. scene' = scene /\ UNCHANGED body
      BY <2>2, Zenon DEF BrowserNext, commentVars, EditorScene, CommentsScene, ShareScene,
           LinksScene, DashboardScene, VersionsScene, AnchorsScene, SessionScene, ToolsScene
    <3>. QED  BY <2>2, <3>1 DEF CommentInv, TypedTextSurvives
  <2>3. CASE scene = "comments" /\ ~UNCHANGED browserVars
    <3>1. CommentsNext
      BY <2>3, Zenon DEF BrowserNext, EditorScene, CommentsScene, ShareScene, LinksScene,
           DashboardScene, VersionsScene, AnchorsScene, SessionScene, ToolsScene
    <3>2. WriteShapes /\ CallsAreNumbered /\ CreatesAreWritten
      BY <2>3 DEF CommentInv
    <3>. DEFINE Goal == /\ WriteShapes' /\ CallsAreNumbered' /\ CreatesAreWritten'
                        /\ TypedTextSurvives
    <3>. SUFFICES Goal
      BY DEF CommentInv
    \* What becomes of the texts under way.
    <3>3. ASSUME writes' = Touch
          PROVE  WriteShapes' /\ \A c : Written(c) => Written(c)'
      <4>. DEFINE touched(w) == [w EXCEPT !.touched = TRUE]
      <4>1. \A w \in writes : /\ DOMAIN touched(w) = {"n", "text", "touched"}
                              /\ touched(w).n = w.n /\ touched(w).touched = TRUE
        BY <3>2 DEF WriteShapes
      <4>2. writes' = {touched(w) : w \in writes}
        BY <3>3 DEF Touch
      <4>. HIDE DEF touched
      <4>. QED  BY <4>1, <4>2 DEF WriteShapes, Written
    \* A call is sent.
    <3>4. ASSUME NEW op, NEW row, CallComments(op, row)
          PROVE  /\ CallsAreNumbered'
                 /\ \A c \in calls' : \/ c.op = op /\ c.n = sent + 1
                                      \/ \E d \in calls : c.op = d.op /\ c.n = d.n
      <4>. DEFINE new == NewCall(op, "comments", row, 0,
                                   \A c \in calls : "comments" \notin Tables(c.op, c.table))
                  moved(c) == [c EXCEPT !.alone =
                                 @ /\ Tables(c.op, c.table) \cap Tables(op, "comments") = {}]
      <4>1. calls' = {moved(c) : c \in calls} \cup {new} /\ sent' = sent + 1
        BY <3>4 DEF CallComments, Send, SendWith
      <4>2. DOMAIN new = CallFields /\ new.op = op /\ new.n = sent + 1
        BY DEF NewCall, CallFields
      <4>3. \A c \in calls : DOMAIN moved(c) = CallFields /\ moved(c).op = c.op /\ moved(c).n = c.n
        BY <3>2 DEF CallsAreNumbered, CallFields
      <4>. HIDE DEF new, moved
      <4>4. sent + 1 \in Nat /\ \A c \in calls : c.n # sent + 1 /\ c.n <= sent + 1
        BY <3>2 DEF CallsAreNumbered
      <4>5. CallsAreNumbered'
        BY <3>2, <4>1, <4>2, <4>3, <4>4 DEF CallsAreNumbered
      <4>. QED  BY <4>1, <4>2, <4>3, <4>5
    \* Steps that leave the popup, and send no text.
    <3>5. ASSUME UNCHANGED <<body, writes>>,
                 CallsAreNumbered',
                 \A c \in calls' : c.op = "create" => \E d \in calls : c.op = d.op /\ c.n = d.n
          PROVE  Goal
      BY <3>2, <3>5 DEF WriteShapes, CreatesAreWritten, Written, TypedTextSurvives
    <3>6. ASSUME UNCHANGED <<body, writes>>, NEW op, op # "create",
                 \/ UNCHANGED callVars \/ \E row : CallComments(op, row)
          PROVE  Goal
      <4>1. CallsAreNumbered'
        BY <3>2, <3>4, <3>6 DEF CallsAreNumbered, callVars
      <4>2. \A c \in calls' : c.op = "create" => \E d \in calls : c.op = d.op /\ c.n = d.n
        BY <3>4, <3>6 DEF callVars
      <4>. QED  BY <3>5, <3>6, <4>1, <4>2
    <3>7. CASE Prefetch \/ ToggleCommentsPanel
      BY <3>6, <3>7 DEF Prefetch, ToggleCommentsPanel, commentVars, callVars, callVars
    <3>8. CASE \/ ClickOutside \/ OpenContextMenu \/ CancelDelete
               \/ \E id \in Id : SelectComment(id)
      BY <3>6, <3>8 DEF ClickOutside, OpenContextMenu, CancelDelete, SelectComment,
                        callVars, callVars
    <3>9. CASE \/ \E i \in DOMAIN comments : ResolveReviewComment(i) \/ AskToDelete(i)
               \/ DeleteReviewComment
      BY <3>6, <3>9 DEF ResolveReviewComment, AskToDelete, DeleteReviewComment,
                        commentVars, callVars, callVars
    <3>10. ASSUME NEW c \in calls, Serve(c) \/ Refuse(c), UNCHANGED commentVars PROVE Goal
      <4>. DEFINE done == [c EXCEPT !.state = "served", !.answer = AnswerOf(c)]
                  lost == [c EXCEPT !.state = "failed"]
      <4>1. /\ DOMAIN done = CallFields /\ done.op = c.op /\ done.n = c.n
            /\ DOMAIN lost = CallFields /\ lost.op = c.op /\ lost.n = c.n
        BY <3>2 DEF CallsAreNumbered, CallFields
      <4>2. /\ calls' \in {(calls \ {c}) \cup {done}, (calls \ {c}) \cup {lost}}
            /\ UNCHANGED sent
        BY <3>10 DEF Serve, Refuse
      <4>. HIDE DEF done, lost
      <4>3. CallsAreNumbered'
        BY <3>2, <4>1, <4>2 DEF CallsAreNumbered
      <4>4. \A d \in calls' : d.op = "create" => \E e \in calls : d.op = e.op /\ d.n = e.n
        BY <4>1, <4>2
      <4>. QED  BY <3>5, <3>10, <4>3, <4>4 DEF commentVars
    <3>11. ASSUME NEW c \in calls,
                  CommentsListed(c) \/ CommentResolved(c) \/ CommentDeleted(c)
           PROVE  Goal
      <4>1. calls' = calls \ {c} /\ UNCHANGED <<sent, body, writes>>
        BY <3>11 DEF CommentsListed, CommentResolved, CommentDeleted, Handled, Ignored,
                     commentVars
      <4>2. CallsAreNumbered'
        BY <3>2, <4>1 DEF CallsAreNumbered
      <4>. QED  BY <3>5, <4>1, <4>2
    <3>12. CASE PickFromMenu
      <4>1. UNCHANGED <<calls, sent, body>> /\ writes' \in {writes, Touch}
        BY <3>12 DEF PickFromMenu, callVars
      <4>2. WriteShapes' /\ \A c : Written(c) => Written(c)'
        BY <3>2, <3>3, <4>1 DEF WriteShapes, Written
      <4>. QED  BY <3>2, <4>1, <4>2 DEF CallsAreNumbered, CreatesAreWritten, TypedTextSurvives
    <3>13. CASE CancelPopup \/ \E t \in Text : WriteBody(t)
      <4>1. /\ UNCHANGED <<calls, sent>> /\ writes' = Touch
            /\ \/ overlay = "popup" /\ body' = None
               \/ body' \in Text
        BY <3>13 DEF CancelPopup, WriteBody, callVars
      <4>2. WriteShapes' /\ \A c : Written(c) => Written(c)'
        BY <3>3, <4>1
      <4>3. None \notin Text
        BY BrowserAssumption DEF BrowserAssumption, PanelsAssumption, CommentsAssumption
      <4>. QED
        BY <3>2, <4>1, <4>2, <4>3 DEF CallsAreNumbered, CreatesAreWritten, TypedTextSurvives
    <3>14. CASE CreateReviewComment
      <4>. DEFINE w == [n |-> sent + 1, text |-> body, touched |-> FALSE]
      <4>1. /\ CallComments("create", NoRow) /\ UNCHANGED body
            /\ writes' = Touch \cup {w}
        BY <3>14 DEF CreateReviewComment
      <4>2. /\ CallsAreNumbered'
            /\ \A c \in calls' : \/ c.op = "create" /\ c.n = sent + 1
                                 \/ \E d \in calls : c.op = d.op /\ c.n = d.n
        BY <3>4, <4>1
      <4>3. DOMAIN w = {"n", "text", "touched"} /\ w.n = sent + 1 /\ w.text = body
        OBVIOUS
      <4>. DEFINE touched(v) == [v EXCEPT !.touched = TRUE]
      <4>4. \A v \in writes : /\ DOMAIN touched(v) = {"n", "text", "touched"}
                              /\ touched(v).n = v.n /\ touched(v).touched = TRUE
        BY <3>2 DEF WriteShapes
      <4>5. writes' = {touched(v) : v \in writes} \cup {w}
        BY <4>1 DEF Touch
      <4>. HIDE DEF touched, w
      <4>6. WriteShapes'
        BY <4>3, <4>4, <4>5 DEF WriteShapes
      <4>7. \A c : Written(c) \/ c.n = sent + 1 => Written(c)'
        BY <4>1, <4>3, <4>4, <4>5 DEF Written
      <4>8. CreatesAreWritten'
        BY <3>2, <4>2, <4>7 DEF CreatesAreWritten, Written
      <4>. QED  BY <4>1, <4>2, <4>6, <4>8 DEF TypedTextSurvives
    <3>15. ASSUME NEW c \in calls, CommentCreated(c) PROVE Goal
      <4>1. /\ c.op = "create" /\ calls' = calls \ {c} /\ UNCHANGED sent
            /\ writes' = {w \in writes : w.n # c.n}
            /\ \/ UNCHANGED body
               \/ /\ body' = None
                  /\ stored' = stored \cup {w.text : w \in {v \in writes : v.n = c.n}}
        BY <3>15 DEF CommentCreated, Handled, Ignored
      <4>2. WriteShapes' /\ CallsAreNumbered'
        BY <3>2, <4>1 DEF WriteShapes, CallsAreNumbered
      <4>3. CreatesAreWritten'
        BY <3>2, <4>1 DEF CreatesAreWritten, CallsAreNumbered, Written
      <4>4. PICK w \in writes : w.n = c.n /\ (w.touched = TRUE \/ body \in {None, w.text})
        BY <3>2, <4>1 DEF CreatesAreWritten, Written
      <4>5. TypedTextSurvives
        BY <4>1, <4>4 DEF TypedTextSurvives
      <4>. QED  BY <4>2, <4>3, <4>5
    <3>. HIDE DEF Goal
    <3>. QED
      BY <3>1, <3>7, <3>8, <3>9, <3>10, <3>11, <3>12, <3>13, <3>14, <3>15, Zenon
         DEF CommentsNext
  <2>. QED  BY <2>1, <2>2, <2>3
<1>3. BrowserSpec => [][TypedTextSurvives]_<<callVars, commentVars>>
  BY <1>1, <1>2, PTL DEF BrowserSpec
<1>. QED  BY <1>3 DEF TypedCommentSurvives
-----------------------------------------------------------------------------
(***************************************************************************)
(* What points into the text.  A text is a sequence of items of which some *)
(* are deleted; an edit moves places and offsets in a way that the lemmas  *)
(* say once for inserts and deletes of any size.  An anchor names items, so*)
(* its range holds what was chosen; an upload remembers an offset, which   *)
(* an edit behind its placeholder leaves alone.                            *)
(***************************************************************************)
TextRow == [id : Nat, dead : BOOLEAN]

\* A text the ids of whose items are below n and are not used twice.
TextIs(t, n) ==
    /\ t \in Seq(TextRow) /\ n \in Nat \ {0}
    /\ \A p \in DOMAIN t : t[p].id \in 1..(n - 1)
    /\ \A p, q \in DOMAIN t : t[p].id = t[q].id => p = q

\* Both texts are as long as that and have the same items at the offsets before o.
SameUpTo(s, t, o) ==
    /\ o <= A!Size(s) /\ o <= A!Size(t)
    /\ \A p \in A!Live(s) : A!Before(s, p) < o =>
          p \in A!Live(t) /\ t[p].id = s[p].id /\ A!Before(t, p) = A!Before(s, p)

\* Offsets keep the order of the places, and every offset within the text is
\* that of one of its items.
LEMMA OffsetsOfPlaces ==
    ASSUME NEW t \in Seq(TextRow)
    PROVE  /\ \A a \in 1..(Len(t) + 1) : A!Before(t, a) \in Nat
           /\ \A a, b \in 1..(Len(t) + 1) : a <= b => A!Before(t, a) <= A!Before(t, b)
           /\ \A p \in A!Live(t), a \in 1..(Len(t) + 1) :
                 p \in 1..Len(t) /\ (p < a => A!Before(t, p) < A!Before(t, a))
           /\ \A p \in A!Live(t) : A!Before(t, p + 1) = A!Before(t, p) + 1
           /\ A!Size(t) \in Nat /\ A!Size(t) = A!Before(t, Len(t) + 1)
           /\ \A o \in Nat : /\ A!Place(t, o) \in 1..(Len(t) + 1)
                             /\ IF o < A!Size(t)
                                THEN /\ A!Place(t, o) \in A!Live(t)
                                     /\ A!Before(t, A!Place(t, o)) = o
                                ELSE A!Place(t, o) = Len(t) + 1
<1>. DEFINE N == Len(t)
            Ahead(a) == {q \in A!Live(t) : q < a}
<1>1. \A X : A!Cardinality(X) = Cardinality(X)
  BY Zenon DEF A!Cardinality, Cardinality
<1>2. N \in Nat /\ DOMAIN t = 1..N
  BY LenProperties
<1>3. A!Live(t) \subseteq 1..N
  BY <1>2 DEF A!Live
<1>4. IsFiniteSet(A!Live(t))
  <2>1. IsFiniteSet(1..N)
    BY <1>2, FS_Interval
  <2>. QED  BY <1>3, <2>1, FS_Subset
<1>. HIDE DEF N
<1>5. ASSUME NEW a \in 1..(N + 1) PROVE IsFiniteSet(Ahead(a)) /\ Cardinality(Ahead(a)) \in Nat
  <2>1. Ahead(a) \subseteq A!Live(t)
    OBVIOUS
  <2>. QED  BY <1>4, <2>1, FS_Subset, FS_CardinalityType
<1>6. ASSUME NEW a \in 1..(N + 1), NEW b \in 1..(N + 1), a <= b
      PROVE  Cardinality(Ahead(a)) <= Cardinality(Ahead(b))
  <2>1. Ahead(a) \subseteq Ahead(b)
    BY <1>2, <1>3, <1>6
  <2>. QED  BY <1>5, <2>1, FS_Subset
<1>7. ASSUME NEW a \in 1..N
      PROVE  Cardinality(Ahead(a + 1)) =
                IF a \in A!Live(t) THEN Cardinality(Ahead(a)) + 1 ELSE Cardinality(Ahead(a))
  <2>1. a \in 1..(N + 1)
    BY <1>2
  <2>2. CASE a \in A!Live(t)
    <3>1. Ahead(a + 1) = Ahead(a) \cup {a} /\ a \notin Ahead(a)
      BY <1>2, <1>3, <2>2
    <3>. QED  BY <1>5, <2>1, <2>2, <3>1, FS_AddElement
  <2>3. CASE a \notin A!Live(t)
    <3>1. Ahead(a + 1) = Ahead(a)
      BY <1>2, <1>3, <2>3
    <3>. QED  BY <2>3, <3>1
  <2>. QED  BY <2>2, <2>3
<1>8. ASSUME NEW p \in A!Live(t), NEW a \in 1..(N + 1), p < a
      PROVE  Cardinality(Ahead(p)) < Cardinality(Ahead(a))
  <2>1. p \in 1..N /\ p \in 1..(N + 1) /\ p + 1 \in 1..(N + 1) /\ p + 1 <= a
    BY <1>2, <1>3, <1>8
  <2>2. Cardinality(Ahead(p + 1)) = Cardinality(Ahead(p)) + 1
    BY <1>7, <2>1
  <2>3. Cardinality(Ahead(p + 1)) <= Cardinality(Ahead(a))
    BY <1>6, <2>1
  <2>4. Cardinality(Ahead(p)) \in Nat /\ Cardinality(Ahead(p + 1)) \in Nat
        /\ Cardinality(Ahead(a)) \in Nat
    BY <1>5, <2>1
  <2>. QED  BY <2>2, <2>3, <2>4
<1>9. A!Live(t) = Ahead(N + 1) /\ {} = Ahead(1) /\ Cardinality({}) = 0
  BY <1>2, <1>3, FS_EmptySet
<1>10. ASSUME NEW o \in Nat, o < Cardinality(Ahead(N + 1))
       PROVE  \E p \in A!Live(t) : Cardinality(Ahead(p)) = o
  <2>. DEFINE Past == {a \in 1..(N + 1) : o < Cardinality(Ahead(a))}
  <2>1. N + 1 \in Past
    BY <1>2, <1>10
  <2>2. Past \subseteq Nat
    BY <1>2
  <2>3. PICK a \in Past : \A b \in Past : a <= b
    <3>. DEFINE Less == OpToRel(<, Nat)
    <3>1. IsWellFoundedOn(Less, Nat)
      BY NatLessThanWellFounded
    <3>. HIDE DEF Less, Past
    <3>2. PICK a \in Past : \A b \in Past : <<b, a>> \notin Less
      BY <2>1, <2>2, <3>1, WFMin
    <3>3. \A b \in Past : ~(b < a)
      BY <2>2, <3>2 DEF Less, OpToRel
    <3>. QED  BY <2>2, <3>3
  <2>4. a \in 1..(N + 1) /\ o < Cardinality(Ahead(a)) /\ a # 1
    <3>1. a \in 1..(N + 1) /\ o < Cardinality(Ahead(a))
      OBVIOUS
    <3>2. Ahead(1) = {} /\ Cardinality({}) = 0
      BY <1>9
    <3>. HIDE DEF Ahead
    <3>. QED  BY <3>1, <3>2
  <2>5. a - 1 \in 1..N /\ a - 1 \in 1..(N + 1) /\ (a - 1) + 1 = a
    BY <1>2, <2>4
  <2>6. a - 1 \notin Past
    BY <2>3, <2>5
  <2>7. ~(o < Cardinality(Ahead(a - 1)))
    BY <2>5, <2>6
  <2>8. Cardinality(Ahead(a)) = IF a - 1 \in A!Live(t) THEN Cardinality(Ahead(a - 1)) + 1
                                 ELSE Cardinality(Ahead(a - 1))
    BY <1>7, <2>5
  <2>9. Cardinality(Ahead(a - 1)) \in Nat
    BY <1>5, <2>5
  <2>. HIDE DEF Ahead
  <2>10. a - 1 \in A!Live(t) /\ Cardinality(Ahead(a - 1)) = o
    BY <2>4, <2>7, <2>8, <2>9
  <2>. QED  BY <2>10
<1>11. ASSUME NEW a PROVE A!Before(t, a) = Cardinality(Ahead(a))
  <2>1. A!Before(t, a) = A!Cardinality(Ahead(a))
    BY Zenon DEF A!Before
  <2>. HIDE DEF Ahead
  <2>. QED  BY <1>1, <2>1
<1>12. A!Size(t) = Cardinality(Ahead(N + 1))
  <2>1. A!Size(t) = A!Cardinality(A!Live(t))
    BY Zenon DEF A!Size
  <2>. HIDE DEF Ahead
  <2>. QED  BY <1>1, <1>9, <2>1
<1>. HIDE DEF Ahead
<1>13. ASSUME NEW o \in Nat
       PROVE  /\ A!Place(t, o) \in 1..(N + 1)
              /\ IF o < A!Size(t)
                 THEN A!Place(t, o) \in A!Live(t) /\ A!Before(t, A!Place(t, o)) = o
                 ELSE A!Place(t, o) = N + 1
  <2>1. CASE o < A!Size(t)
    <3>1. A!Place(t, o) = CHOOSE p \in A!Live(t) : A!Before(t, p) = o
      BY <2>1 DEF A!Place
    <3>2. \E p \in A!Live(t) : A!Before(t, p) = o
      BY <1>10, <1>11, <1>12, <2>1
    <3>3. A!Place(t, o) \in A!Live(t) /\ A!Before(t, A!Place(t, o)) = o
      BY <3>1, <3>2
    <3>. QED  BY <1>2, <1>3, <2>1, <3>3
  <2>2. CASE ~(o < A!Size(t))
    BY <1>2, <2>2 DEF A!Place, N
  <2>. QED  BY <2>1, <2>2
<1>14. ASSUME NEW p \in A!Live(t) PROVE A!Before(t, p + 1) = A!Before(t, p) + 1
  BY <1>3, <1>7, <1>11
<1>15. A!Size(t) \in Nat
  <2>1. N + 1 \in 1..(N + 1)
    BY <1>2
  <2>. QED  BY <1>5, <1>12, <2>1
<1>. QED  BY <1>2, <1>3, <1>5, <1>6, <1>8, <1>11, <1>12, <1>13, <1>14, <1>15 DEF N

\* An insert moves what is behind it and nothing else.
LEMMA InsertedText ==
    ASSUME NEW t, NEW n, TextIs(t, n), NEW p \in 1..(Len(t) + 1), NEW new \in Seq(TextRow),
           \A i \in 1..Len(new) : new[i] = A!Item(n + i - 1),
           NEW s, s = A!Inserted(t, p, new)
    PROVE  /\ TextIs(s, n + Len(new)) /\ Len(s) = Len(t) + Len(new)
           /\ \A q \in 1..Len(t) : s[IF q < p THEN q ELSE q + Len(new)] = t[q]
           /\ \A i \in 1..Len(new) : p + i - 1 \in A!Live(s) /\ s[p + i - 1] = new[i]
           /\ A!Before(s, p) = A!Before(t, p) /\ SameUpTo(t, s, A!Before(t, p))
           /\ A!Ids(s, A!Live(s)) = A!Ids(t, A!Live(t)) \cup (n..(n + Len(new) - 1))
<1>. DEFINE N == Len(t)
            front == SubSeq(t, 1, p - 1)
            back == SubSeq(t, p, N)
<1>1. /\ t \in Seq(TextRow) /\ N \in Nat /\ DOMAIN t = 1..N /\ Len(new) \in Nat
      /\ \A i \in 1..N : t[i] \in TextRow
  BY LenProperties, ElementOfSeq DEF TextIs
<1>2. /\ front \in Seq(TextRow) /\ Len(front) = p - 1
      /\ \A i \in 1..(p - 1) : front[i] = t[i]
  <2>1. 1 \in Int /\ p - 1 \in Int /\ \A i \in 1..(p - 1) : t[i] \in TextRow
    BY <1>1
  <2>. QED  BY <1>1, <2>1, SubSeqProperties
<1>3. /\ back \in Seq(TextRow) /\ Len(back) = N - p + 1
      /\ \A i \in 1..(N - p + 1) : back[i] = t[p + i - 1]
  <2>1. p \in Int /\ N \in Int /\ \A i \in p..N : t[i] \in TextRow
    BY <1>1
  <2>. QED  BY <1>1, <2>1, SubSeqProperties
<1>4. A!Inserted(t, p, new) = front \o new \o back
  BY DEF A!Inserted
<1>. DEFINE two == front \o new
<1>. HIDE DEF front, back, N
<1>5. /\ two \in Seq(TextRow) /\ Len(two) = p - 1 + Len(new)
      /\ \A i \in 1..(p - 1) : two[i] = t[i]
      /\ \A i \in 1..Len(new) : two[p + i - 1] = new[i]
  <2>1. /\ two \in Seq(TextRow) /\ Len(two) = Len(front) + Len(new)
        /\ \A i \in 1..(Len(front) + Len(new)) :
              two[i] = IF i <= Len(front) THEN front[i] ELSE new[i - Len(front)]
    BY <1>2, ConcatProperties
  <2>. HIDE DEF two
  <2>2. ASSUME NEW i \in 1..(p - 1) PROVE two[i] = t[i]
    <3>1. i \in 1..(Len(front) + Len(new)) /\ i <= Len(front)
      BY <1>1, <1>2
    <3>. QED  BY <1>2, <2>1, <3>1
  <2>3. ASSUME NEW i \in 1..Len(new) PROVE two[p + i - 1] = new[i]
    <3>1. /\ p + i - 1 \in 1..(Len(front) + Len(new)) /\ ~(p + i - 1 <= Len(front))
          /\ (p + i - 1) - Len(front) = i
      BY <1>1, <1>2
    <3>. QED  BY <2>1, <3>1
  <2>. QED  BY <1>2, <2>1, <2>2, <2>3
<1>. DEFINE whole == two \o back
<1>6. whole = s
  BY <1>4
<1>. HIDE DEF two
<1>7. /\ whole \in Seq(TextRow) /\ Len(whole) = Len(two) + Len(back)
      /\ \A i \in 1..(Len(two) + Len(back)) :
            whole[i] = IF i <= Len(two) THEN two[i] ELSE back[i - Len(two)]
  <2>1. two \in Seq(TextRow) /\ back \in Seq(TextRow)
    BY <1>3, <1>5
  <2>. QED  BY <2>1, ConcatProperties
<1>. HIDE DEF whole
<1>8. Len(whole) = N + Len(new)
  BY <1>1, <1>3, <1>5, <1>7
<1>9. ASSUME NEW q \in 1..N PROVE whole[IF q < p THEN q ELSE q + Len(new)] = t[q]
  <2>1. CASE q < p
    <3>1. q \in 1..(p - 1) /\ q \in 1..(Len(two) + Len(back)) /\ q <= Len(two)
      BY <1>1, <1>3, <1>5, <2>1
    <3>. QED  BY <1>5, <1>7, <2>1, <3>1
  <2>2. CASE ~(q < p)
    <3>1. /\ q + Len(new) \in 1..(Len(two) + Len(back)) /\ ~(q + Len(new) <= Len(two))
          /\ (q + Len(new)) - Len(two) = q - p + 1 /\ q - p + 1 \in 1..(N - p + 1)
          /\ p + (q - p + 1) - 1 = q
      BY <1>1, <1>3, <1>5, <2>2
    <3>2. whole[q + Len(new)] = back[q - p + 1] /\ back[q - p + 1] = t[q]
      BY <1>3, <1>7, <3>1
    <3>. QED  BY <2>2, <3>2
  <2>. QED  BY <2>1, <2>2
<1>10. ASSUME NEW q \in 1..Len(new) PROVE whole[p + q - 1] = new[q]
  <2>1. p + q - 1 \in 1..(Len(two) + Len(back)) /\ p + q - 1 <= Len(two)
    BY <1>1, <1>3, <1>5
  <2>. QED  BY <1>5, <1>7, <2>1
<1>. DEFINE k == Len(new)
            move(q) == IF q < p THEN q ELSE q + k
<1>11. /\ s \in Seq(TextRow) /\ Len(s) = N + k /\ DOMAIN s = 1..(N + k) /\ k \in Nat
       /\ \A q \in 1..N : s[move(q)] = t[q]
       /\ \A i \in 1..k : s[p + i - 1] = new[i]
  <2>1. s \in Seq(TextRow) /\ Len(s) = N + k
    BY <1>6, <1>7, <1>8
  <2>. QED  BY <1>1, <1>6, <1>9, <1>10, <2>1, LenProperties
<1>12. p \in 1..(N + 1)
  BY DEF N
<1>. HIDE DEF N, k
<1>13. ASSUME NEW i \in 1..k PROVE new[i].id = n + i - 1 /\ ~new[i].dead
  <2>1. new[i] = A!Item(n + i - 1)
    BY DEF k
  <2>. QED  BY <2>1 DEF A!Item
<1>14. \A q \in 1..N : move(q) \in 1..(N + k) /\ (move(q) < p <=> q < p)
  BY <1>1, <1>11, <1>12
<1>15. \A q, r \in 1..N : move(q) = move(r) => q = r
  BY <1>1, <1>11
<1>16. ASSUME NEW q \in 1..(N + k)
       PROVE  (\E r \in 1..N : q = move(r)) \/ (\E i \in 1..k : q = p + i - 1)
  <2>1. CASE q < p
    <3>1. q \in 1..N /\ q = move(q)
      BY <1>1, <1>12, <2>1
    <3>. QED  BY <3>1
  <2>2. CASE p <= q /\ q < p + k
    <3>1. q - p + 1 \in 1..k /\ q = p + (q - p + 1) - 1
      BY <1>1, <1>11, <1>12, <2>2
    <3>. QED  BY <3>1
  <2>3. CASE p + k <= q
    <3>1. q - k \in 1..N /\ q = move(q - k)
      BY <1>1, <1>11, <1>12, <2>3
    <3>. QED  BY <3>1
  <2>. QED  BY <1>1, <1>11, <1>12, <2>1, <2>2, <2>3
<1>. HIDE DEF move
<1>17. /\ n \in Nat \ {0} /\ \A q \in 1..N : t[q].id \in 1..(n - 1)
       /\ \A q, r \in 1..N : t[q].id = t[r].id => q = r
  BY <1>1 DEF TextIs
<1>18. TextIs(s, n + k)
  <2>1. ASSUME NEW q \in 1..(N + k) PROVE s[q].id \in 1..(n + k - 1)
    <3>1. CASE \E r \in 1..N : q = move(r)
      BY <1>11, <1>17, <3>1
    <3>2. CASE \E i \in 1..k : q = p + i - 1
      <4>1. PICK i \in 1..k : q = p + i - 1
        BY <3>2
      <4>2. s[q].id = n + i - 1
        BY <1>11, <1>13, <4>1
      <4>. QED  BY <1>11, <1>17, <4>2
    <3>. QED  BY <1>16, <3>1, <3>2
  <2>2. ASSUME NEW q \in 1..(N + k), NEW r \in 1..(N + k), s[q].id = s[r].id PROVE q = r
    <3>1. ASSUME NEW x \in 1..N, NEW i \in 1..k PROVE s[move(x)].id # s[p + i - 1].id
      <4>1. s[move(x)].id \in 1..(n - 1) /\ s[p + i - 1].id = n + i - 1
        BY <1>11, <1>13, <1>17
      <4>. QED  BY <1>11, <1>17, <4>1
    <3>2. CASE \E x, y \in 1..N : q = move(x) /\ r = move(y)
      <4>1. PICK x, y \in 1..N : q = move(x) /\ r = move(y)
        BY <3>2
      <4>. QED  BY <1>11, <1>17, <2>2, <4>1
    <3>3. CASE \E i, j \in 1..k : q = p + i - 1 /\ r = p + j - 1
      <4>1. PICK i, j \in 1..k : q = p + i - 1 /\ r = p + j - 1
        BY <3>3
      <4>2. s[q].id = n + i - 1 /\ s[r].id = n + j - 1
        BY <1>11, <1>13, <4>1
      <4>3. i = j
        <5>1. n + i - 1 = n + j - 1
          BY <2>2, <4>2
        <5>. QED  BY <1>17, <5>1
      <4>. QED  BY <4>1, <4>3
    <3>. QED  BY <1>16, <2>2, <3>1, <3>2, <3>3
  <2>. QED  BY <1>11, <1>17, <2>1, <2>2 DEF TextIs
<1>19. /\ \A q \in 1..N : move(q) \in A!Live(s) <=> q \in A!Live(t)
       /\ \A i \in 1..k : p + i - 1 \in A!Live(s)
       /\ A!Live(s) \subseteq 1..(N + k) /\ A!Live(t) \subseteq 1..N
  <2>1. A!Live(s) \subseteq 1..(N + k) /\ A!Live(t) \subseteq 1..N
    BY <1>1, <1>11 DEF A!Live
  <2>2. \A q \in 1..N : move(q) \in A!Live(s) <=> q \in A!Live(t)
    BY <1>1, <1>11, <1>14 DEF A!Live
  <2>3. ASSUME NEW i \in 1..k PROVE p + i - 1 \in A!Live(s)
    <3>1. p + i - 1 \in 1..(N + k)
      BY <1>1, <1>11, <1>12
    <3>. QED  BY <1>11, <1>13, <3>1 DEF A!Live
  <2>. QED  BY <2>1, <2>2, <2>3
<1>20. ASSUME NEW a \in 1..(N + 1), a <= p PROVE A!Before(s, a) = A!Before(t, a)
  <2>1. {q \in A!Live(s) : q < a} = {q \in A!Live(t) : q < a}
    <3>1. \A q \in 1..(N + k) : q < a => q \in 1..N /\ move(q) = q
      BY <1>1, <1>11, <1>12, <1>20 DEF move
    <3>2. \A q \in 1..N : q < a => q \in 1..(N + k) /\ move(q) = q
      BY <1>1, <1>11, <1>12, <1>20 DEF move
    <3>. QED  BY <1>19, <3>1, <3>2
  <2>. QED  BY <2>1, Zenon DEF A!Before
<1>21. SameUpTo(t, s, A!Before(t, p))
  <2>1. ASSUME NEW q \in A!Live(t), A!Before(t, q) < A!Before(t, p) PROVE q < p
    <3>1. q \in 1..N /\ q \in 1..(N + 1)
      BY <1>1, <1>19
    <3>2. /\ A!Before(t, q) \in Nat /\ A!Before(t, p) \in Nat
          /\ p <= q => A!Before(t, p) <= A!Before(t, q)
      BY <1>1, <1>12, <3>1, OffsetsOfPlaces DEF N
    <3>. QED  BY <1>1, <1>12, <2>1, <3>1, <3>2
  <2>2. ASSUME NEW q \in A!Live(t), q < p
        PROVE  q \in A!Live(s) /\ s[q].id = t[q].id /\ A!Before(s, q) = A!Before(t, q)
    <3>1. q \in 1..N /\ q \in 1..(N + 1) /\ q <= p /\ move(q) = q
      BY <1>1, <1>12, <1>19, <2>2 DEF move
    <3>. QED  BY <1>11, <1>19, <1>20, <3>1
  <2>3. A!Before(t, p) <= A!Size(t) /\ A!Before(s, p) <= A!Size(s)
    <3>1. /\ N + 1 \in 1..(N + 1) /\ p <= N + 1
          /\ p \in 1..(N + k + 1) /\ N + k + 1 \in 1..(N + k + 1) /\ p <= N + k + 1
      BY <1>1, <1>11, <1>12
    <3>2. A!Before(t, p) <= A!Before(t, N + 1) /\ A!Size(t) = A!Before(t, N + 1)
      BY <1>1, <1>12, <3>1, OffsetsOfPlaces DEF N
    <3>3. A!Before(s, p) <= A!Before(s, N + k + 1) /\ A!Size(s) = A!Before(s, N + k + 1)
      BY <1>11, <3>1, OffsetsOfPlaces
    <3>. QED  BY <3>2, <3>3
  <2>4. A!Before(s, p) = A!Before(t, p)
    BY <1>12, <1>20
  <2>. QED  BY <2>1, <2>2, <2>3, <2>4 DEF SameUpTo
<1>22. A!Ids(s, A!Live(s)) = A!Ids(t, A!Live(t)) \cup (n..(n + k - 1))
  <2>1. /\ A!Ids(s, A!Live(s)) = {s[q].id : q \in A!Live(s)}
        /\ A!Ids(t, A!Live(t)) = {t[q].id : q \in A!Live(t)}
    BY Zenon DEF A!Ids
  <2>2. ASSUME NEW q \in A!Live(s)
        PROVE  s[q].id \in {t[r].id : r \in A!Live(t)} \cup (n..(n + k - 1))
    <3>1. CASE \E r \in 1..N : q = move(r)
      BY <1>11, <1>19, <3>1
    <3>2. CASE \E i \in 1..k : q = p + i - 1
      <4>1. PICK i \in 1..k : q = p + i - 1
        BY <3>2
      <4>2. s[q].id = n + i - 1
        BY <1>11, <1>13, <4>1
      <4>. QED  BY <1>11, <1>17, <4>2
    <3>. QED  BY <1>16, <1>19, <3>1, <3>2
  <2>3. ASSUME NEW q \in A!Live(t) PROVE t[q].id \in {s[r].id : r \in A!Live(s)}
    BY <1>11, <1>19
  <2>4. ASSUME NEW x \in n..(n + k - 1) PROVE x \in {s[r].id : r \in A!Live(s)}
    <3>1. x - n + 1 \in 1..k /\ n + (x - n + 1) - 1 = x
      BY <1>11, <1>17
    <3>2. /\ p + (x - n + 1) - 1 \in A!Live(s)
          /\ s[p + (x - n + 1) - 1].id = x
      BY <1>11, <1>13, <1>19, <3>1
    <3>. QED  BY <3>2
  <2>. QED  BY <2>1, <2>2, <2>3, <2>4
<1>23. A!Before(s, p) = A!Before(t, p)
  BY <1>12, <1>20
<1>. QED  BY <1>11, <1>18, <1>19, <1>21, <1>22, <1>23 DEF N, k, move

\* What is deleted leaves the text before it as it is, and tombstones behind.
LEMMA DeletedText ==
    ASSUME NEW t, NEW n, TextIs(t, n), NEW s \in [DOMAIN t -> TextRow],
           NEW o \in Nat, o <= A!Size(t),
           \A q \in DOMAIN t : s[q].id = t[q].id /\ (t[q].dead => s[q].dead),
           \A q \in A!Live(t) : s[q].dead => o <= A!Before(t, q)
    PROVE  TextIs(s, n) /\ Len(s) = Len(t) /\ SameUpTo(t, s, o)
<1>. DEFINE N == Len(t)
<1>1. t \in Seq(TextRow) /\ N \in Nat /\ DOMAIN t = 1..N
  BY LenProperties DEF TextIs
<1>. HIDE DEF N
<1>2. s \in Seq(TextRow) /\ Len(s) = N /\ DOMAIN s = 1..N
  <2>1. s = [q \in 1..N |-> s[q]] /\ \A q \in 1..N : s[q] \in TextRow
    BY <1>1
  <2>2. s \in Seq(TextRow)
    BY <1>1, <2>1, IsASeq
  <2>. QED  BY <1>1, <2>2, LenProperties
<1>3. TextIs(s, n)
  BY <1>1, <1>2 DEF TextIs
<1>4. A!Live(s) \subseteq A!Live(t) /\ A!Live(t) \subseteq 1..N
  BY <1>1, <1>2 DEF A!Live
<1>5. ASSUME NEW q \in A!Live(t), A!Before(t, q) < o PROVE q \in A!Live(s)
  <2>1. q \in 1..N /\ q \in 1..(N + 1)
    BY <1>1, <1>4
  <2>2. A!Before(t, q) \in Nat
    BY <1>1, <2>1, OffsetsOfPlaces DEF N
  <2>3. ~s[q].dead
    BY <1>5, <2>2
  <2>. QED  BY <1>2, <2>1, <2>3 DEF A!Live
<1>6. ASSUME NEW p \in A!Live(t), A!Before(t, p) < o PROVE A!Before(s, p) = A!Before(t, p)
  <2>1. {q \in A!Live(s) : q < p} = {q \in A!Live(t) : q < p}
    <3>1. ASSUME NEW q \in A!Live(t), q < p PROVE q \in A!Live(s)
      <4>1. /\ p \in 1..N /\ q \in 1..N /\ p \in 1..(N + 1) /\ q \in 1..(N + 1)
        BY <1>1, <1>4
      <4>2. /\ A!Before(t, q) < A!Before(t, p)
            /\ A!Before(t, q) \in Nat /\ A!Before(t, p) \in Nat
        BY <1>1, <3>1, <4>1, OffsetsOfPlaces DEF N
      <4>3. A!Before(t, q) < o
        BY <1>6, <4>2
      <4>. QED  BY <1>5, <4>3
    <3>. QED  BY <1>4, <3>1
  <2>. QED  BY <2>1, Zenon DEF A!Before
<1>7. o <= A!Size(s)
  <2>1. A!Size(s) \in Nat /\ A!Size(t) \in Nat
    BY <1>1, <1>2, OffsetsOfPlaces
  <2>2. CASE o > 0
    <3>1. o - 1 \in Nat /\ o - 1 < A!Size(t)
      BY <2>1, <2>2
    <3>. DEFINE p == A!Place(t, o - 1)
    <3>2. p \in A!Live(t) /\ A!Before(t, p) = o - 1
      BY <1>1, <3>1, OffsetsOfPlaces
    <3>. HIDE DEF p
    <3>3. p \in A!Live(s) /\ A!Before(s, p) = o - 1
      BY <1>5, <1>6, <2>2, <3>2
    <3>4. p \in 1..N /\ p < N + 1 /\ N + 1 \in 1..(N + 1)
      BY <1>1, <1>4, <3>2
    <3>5. A!Before(s, p) < A!Before(s, N + 1) /\ A!Size(s) = A!Before(s, N + 1)
      BY <1>2, <3>3, <3>4, OffsetsOfPlaces
    <3>. QED  BY <2>1, <3>1, <3>3, <3>5
  <2>. QED  BY <2>1, <2>2
<1>8. SameUpTo(t, s, o)
  BY <1>1, <1>2, <1>4, <1>5, <1>6, <1>7 DEF SameUpTo
<1>. QED  BY <1>2, <1>3, <1>8 DEF N

\* The end of an upload: what it deletes, and the part of the text it leaves alone.
UploadRow == [batch : Nat, at : Nat, left : Int, marks : SUBSET Nat, moved : BOOLEAN]

LEMMA EndOfUpload ==
    ASSUME TextIs(items, fresh), NEW u \in UploadRow, NEW image \in BOOLEAN,
           NEW after, after = A!Ended(u, image)
    PROVE  /\ TextIs(after, fresh + 1)
           /\ SameUpTo(items, after, A!Before(items, A!Place(items, u.at)))
           /\ A!Ids(after, A!Live(after)) \subseteq 1..fresh
           /\ A!Ids(items, A!Live(items)) \ A!Ids(after, A!Live(after))
                 = {items[p].id : p \in {q \in A!Live(items) :
                                          A!Before(items, q) \in u.at..(u.at + 1)}}
<1>. DEFINE N == Len(items)
            o == A!Before(items, A!Place(items, u.at))
            rest == A!Cut(items, u.at, u.at + A!PlaceholderSize)
<1>1. /\ items \in Seq(TextRow) /\ N \in Nat /\ DOMAIN items = 1..N /\ u.at \in Nat
      /\ \A p \in 1..N : items[p] \in TextRow
  BY LenProperties, ElementOfSeq DEF TextIs, UploadRow
<1>2. A!PlaceholderSize = 2 /\ u.at + 2 - 1 = u.at + 1
  BY <1>1 DEF A!PlaceholderSize
<1>3. rest = A!Cut(items, u.at, u.at + 2)
  BY <1>2
<1>. HIDE DEF N, rest
<1>4. /\ rest \in [DOMAIN items -> TextRow]
      /\ \A p \in 1..N : /\ rest[p].id = items[p].id
                         /\ rest[p].dead <=> items[p].dead \/ A!Before(items, p) \in u.at..(u.at + 1)
  <2>1. ASSUME NEW t, NEW a, NEW b
        PROVE  A!Cut(t, a, b) = [p \in DOMAIN t |->
                  [t[p] EXCEPT !.dead = @ \/ A!Before(t, p) \in a..(b - 1)]]
    BY Zenon DEF A!Cut
  <2>2. ASSUME NEW r \in TextRow, NEW b
        PROVE  LET c == [r EXCEPT !.dead = @ \/ b]
               IN  c \in TextRow /\ c.id = r.id /\ (c.dead <=> r.dead \/ b)
    <3>. DEFINE d == r.dead \/ b
                c == [r EXCEPT !.dead = d]
    <3>1. d \in BOOLEAN
      BY Zenon
    <3>. HIDE DEF d
    <3>2. c \in TextRow /\ c.id = r.id /\ c.dead = d
      BY <3>1 DEF TextRow
    <3>. HIDE DEF c
    <3>3. c = [r EXCEPT !.dead = @ \/ b]
      BY DEF c, d
    <3>. QED  BY <3>2, <3>3, Zenon DEF d
  <2>3. ASSUME NEW p \in 1..N
        PROVE  /\ rest[p] \in TextRow /\ rest[p].id = items[p].id
               /\ rest[p].dead <=> items[p].dead \/ A!Before(items, p) \in u.at..(u.at + 1)
    <3>. DEFINE in == A!Before(items, p) \in u.at..(u.at + 2 - 1)
                c == [items[p] EXCEPT !.dead = @ \/ in]
    <3>1. rest[p] = c
      BY <1>1, <1>3, <2>1
    <3>2. items[p] \in TextRow
      BY <1>1
    <3>3. c \in TextRow /\ c.id = items[p].id /\ (c.dead <=> items[p].dead \/ in)
      <4>. HIDE DEF in
      <4>. QED  BY <2>2, <3>2, Zenon
    <3>. HIDE DEF c
    <3>4. in <=> A!Before(items, p) \in u.at..(u.at + 1)
      BY <1>2
    <3>. HIDE DEF in
    <3>. QED  BY <3>1, <3>3, <3>4, Zenon
  <2>4. rest = [p \in DOMAIN items |-> rest[p]]
    BY <1>3, <2>1
  <2>. QED  BY <1>1, <2>3, <2>4
<1>5. /\ o \in Nat /\ o <= u.at /\ o <= A!Size(items) /\ A!Live(items) \subseteq 1..N
      /\ \A p \in 1..(N + 1) : A!Before(items, p) \in Nat
  <2>1. A!Live(items) \subseteq 1..N
    BY <1>1 DEF A!Live
  <2>2. /\ A!Place(items, u.at) \in 1..(N + 1)
        /\ IF u.at < A!Size(items) THEN o = u.at ELSE A!Place(items, u.at) = N + 1
        /\ A!Size(items) \in Nat /\ A!Size(items) = A!Before(items, N + 1)
        /\ \A p \in 1..(N + 1) : A!Before(items, p) \in Nat
    BY <1>1, OffsetsOfPlaces DEF N
  <2>. QED  BY <1>1, <2>1, <2>2
<1>6. TextIs(rest, fresh) /\ Len(rest) = N /\ SameUpTo(items, rest, o)
  <2>1. \A q \in DOMAIN items : rest[q].id = items[q].id /\ (items[q].dead => rest[q].dead)
    BY <1>1, <1>4
  <2>2. ASSUME NEW q \in A!Live(items), rest[q].dead PROVE o <= A!Before(items, q)
    <3>1. q \in 1..N /\ q \in 1..(N + 1) /\ ~items[q].dead
      BY <1>1, <1>5 DEF A!Live
    <3>2. A!Before(items, q) \in u.at..(u.at + 1) /\ A!Before(items, q) \in Nat
      BY <1>4, <1>5, <2>2, <3>1
    <3>. QED  BY <1>1, <1>5, <3>2
  <2>. HIDE DEF o
  <2>. QED  BY <1>4, <1>5, <2>1, <2>2, DeletedText DEF N
<1>7. A!Live(rest) = {p \in A!Live(items) : A!Before(items, p) \notin u.at..(u.at + 1)}
  <2>1. DOMAIN rest = 1..N
    BY <1>1, <1>4
  <2>. QED  BY <1>1, <1>4, <2>1 DEF A!Live
<1>8. /\ A!Ids(items, A!Live(items)) = {items[p].id : p \in A!Live(items)}
      /\ A!Ids(rest, A!Live(rest)) = {rest[p].id : p \in A!Live(rest)}
  BY Zenon DEF A!Ids
<1>9. /\ A!Ids(items, A!Live(items)) \ A!Ids(rest, A!Live(rest))
            = {items[p].id : p \in {q \in A!Live(items) :
                                      A!Before(items, q) \in u.at..(u.at + 1)}}
      /\ A!Ids(items, A!Live(items)) \subseteq 1..(fresh - 1)
      /\ A!Ids(rest, A!Live(rest)) \subseteq 1..(fresh - 1)
  <2>1. \A p, q \in A!Live(items) : items[p].id = items[q].id => p = q
    BY <1>1, <1>5 DEF TextIs
  <2>2. \A p \in A!Live(items) : rest[p].id = items[p].id /\ items[p].id \in 1..(fresh - 1)
    BY <1>1, <1>4, <1>5 DEF TextIs
  <2>. QED  BY <1>7, <1>8, <2>1, <2>2
<1>10. fresh \in Nat \ {0}
  BY DEF TextIs
<1>11. CASE ~image
  <2>1. after = rest
    BY <1>11 DEF A!Ended, rest
  <2>2. TextIs(rest, fresh + 1)
    BY <1>6, <1>10 DEF TextIs
  <2>3. A!Ids(rest, A!Live(rest)) \subseteq 1..fresh
    BY <1>9, <1>10
  <2>. QED  BY <1>6, <1>9, <2>1, <2>2, <2>3
<1>12. CASE image
  <2>. DEFINE P == A!Place(rest, u.at)
              new == <<A!Item(fresh)>>
  <2>1. rest \in Seq(TextRow) /\ o <= A!Size(rest)
    BY <1>6 DEF TextIs, SameUpTo
  <2>2. P \in 1..(Len(rest) + 1) /\ A!Before(rest, P) \in Nat /\ o <= A!Before(rest, P)
    <3>1. /\ P \in 1..(Len(rest) + 1)
          /\ IF u.at < A!Size(rest) THEN A!Before(rest, P) = u.at ELSE P = Len(rest) + 1
          /\ A!Size(rest) \in Nat /\ A!Size(rest) = A!Before(rest, Len(rest) + 1)
      BY <1>1, <2>1, OffsetsOfPlaces
    <3>. QED  BY <1>1, <1>5, <2>1, <3>1
  <2>3. new \in Seq(TextRow) /\ Len(new) = 1 /\ new[1] = A!Item(fresh)
    BY <1>10 DEF A!Item, TextRow
  <2>4. after = A!Inserted(rest, P, new)
    BY <1>12 DEF A!Ended, rest
  <2>. HIDE DEF P, new, o
  <2>5. \A i \in 1..Len(new) : new[i] = A!Item(fresh + i - 1)
    BY <1>10, <2>3
  <2>6. /\ TextIs(after, fresh + Len(new)) /\ SameUpTo(rest, after, A!Before(rest, P))
        /\ A!Ids(after, A!Live(after)) =
              A!Ids(rest, A!Live(rest)) \cup (fresh..(fresh + Len(new) - 1))
    <3>1. TextIs(rest, fresh) /\ P \in 1..(Len(rest) + 1) /\ new \in Seq(TextRow)
      BY <1>6, <2>2, <2>3
    <3>2. TextIs(after, fresh + Len(new))
      BY <2>4, <2>5, <3>1, InsertedText
    <3>3. SameUpTo(rest, after, A!Before(rest, P))
      BY <2>4, <2>5, <3>1, InsertedText
    <3>4. A!Ids(after, A!Live(after)) =
              A!Ids(rest, A!Live(rest)) \cup (fresh..(fresh + Len(new) - 1))
      BY <2>4, <2>5, <3>1, InsertedText
    <3>. QED  BY <3>2, <3>3, <3>4
  <2>7. TextIs(after, fresh + 1) /\ A!Ids(after, A!Live(after)) = A!Ids(rest, A!Live(rest)) \cup {fresh}
    BY <1>10, <2>3, <2>6
  <2>8. SameUpTo(items, after, o)
    <3>1. A!Size(after) \in Nat /\ A!Size(rest) \in Nat
      BY <2>1, <2>7, OffsetsOfPlaces DEF TextIs
    <3>2. o <= A!Size(after)
      BY <1>5, <2>2, <2>6, <3>1 DEF SameUpTo
    <3>3. ASSUME NEW p \in A!Live(items), A!Before(items, p) < o
          PROVE  p \in A!Live(after) /\ after[p].id = items[p].id
                 /\ A!Before(after, p) = A!Before(items, p)
      <4>1. /\ p \in A!Live(rest) /\ rest[p].id = items[p].id
            /\ A!Before(rest, p) = A!Before(items, p)
        BY <1>6, <3>3 DEF SameUpTo
      <4>2. p \in 1..(N + 1)
        BY <1>1, <1>5
      <4>3. A!Before(rest, p) < A!Before(rest, P)
        BY <1>5, <2>2, <3>3, <4>1, <4>2
      <4>. QED  BY <2>6, <4>1, <4>3 DEF SameUpTo
    <3>. QED  BY <1>6, <3>2, <3>3 DEF SameUpTo
  <2>9. /\ A!Ids(after, A!Live(after)) \subseteq 1..fresh
        /\ A!Ids(items, A!Live(items)) \ A!Ids(after, A!Live(after))
              = A!Ids(items, A!Live(items)) \ A!Ids(rest, A!Live(rest))
    <3>1. fresh \notin A!Ids(items, A!Live(items))
      BY <1>9, <1>10
    <3>. QED  BY <1>9, <1>10, <2>7, <3>1
  <2>. QED  BY <1>9, <2>7, <2>8, <2>9 DEF o
<1>. QED  BY <1>11, <1>12

-----------------------------------------------------------------------------
\* A relative position, resolved: the place of its item, or the end.
StandsAt(rel, place) ==
    IF rel = A!End THEN place = Len(items) + 1
    ELSE place \in DOMAIN items /\ items[place].id = rel

\* Of the items there were when the comment was made, its range covers those
\* that were chosen, whatever has become of them.
ChosenAreARange ==
    \E from, to \in 1..(Len(items) + 1) :
        /\ StandsAt(anchor.start, from) /\ StandsAt(anchor.end, to) /\ from <= to
        /\ anchor.chosen \subseteq anchor.old
        /\ anchor.old \subseteq {items[p].id : p \in DOMAIN items}
        /\ \A p \in DOMAIN items :
              items[p].id \in anchor.old => (items[p].id \in anchor.chosen <=> p \in from..(to - 1))

\* The placeholder of an upload is at the offset the upload remembers.
MarkedIn(t, u) ==
    \E p, q \in A!Live(t) :
        /\ A!Before(t, p) = u.at /\ A!Before(t, q) = u.at + 1
        /\ u.marks = {t[p].id, t[q].id}

\* An upload after one of its files, in the text t.
GoesOn(u, f, t) ==
    /\ f \in UploadRow /\ f.batch = u.batch /\ A!Cardinality(f.marks) = 2
    /\ ~f.moved => MarkedIn(t, f)

UploadOK(u) ==
    /\ u \in UploadRow /\ u.batch <= batches /\ A!Cardinality(u.marks) = 2
    /\ ~u.moved => MarkedIn(items, u)

UploadsOK ==
    /\ batches \in Nat /\ (pickedAt = <<>> \/ \E o \in Nat : pickedAt = <<o>>)
    /\ \A u \in uploads : UploadOK(u)
    /\ \A u, v \in uploads : u.batch = v.batch => u = v

AnchorInv ==
    /\ TextIs(items, fresh)
    /\ anchor = <<>> \/ ChosenAreARange
    /\ UploadsOK
    /\ used = "image" => anchor = <<>>
    /\ used # "image" => uploads = {}

\* In any text, after any edits of people and uploads: the anchor of a comment
\* delimits what was chosen, and an upload nobody came before remembers where
\* its placeholder is.
LEMMA AnchorInvariant == BrowserSpec => []AnchorInv
<1>1. BrowserInit => AnchorInv
  <2>. SUFFICES ASSUME BrowserInit PROVE AnchorInv
    OBVIOUS
  <2>1. A!AnchorIdle
    BY Zenon DEF BrowserInit, A!AnchorInit, AnchorsIdle
  <2>2. Length \in Nat
    BY BrowserAssumption DEF A!AnchorsAssumption
  <2>. DEFINE row(i) == [id |-> i, dead |-> FALSE]
              start == [i \in 1..Length |-> row(i)]
  <2>3. \A i \in 1..Length : row(i) \in TextRow /\ row(i).id = i
    BY <2>2 DEF TextRow
  <2>. HIDE DEF row
  <2>4. start \in Seq(TextRow) /\ DOMAIN start = 1..Length /\ \A i \in 1..Length : start[i].id = i
    BY <2>2, <2>3, IsASeq
  <2>5. /\ items = start /\ fresh = Length + 1 /\ anchor = <<>>
        /\ uploads = {} /\ batches = 0 /\ pickedAt = <<>>
    BY <2>1 DEF A!AnchorIdle, row
  <2>. HIDE DEF start
  <2>6. TextIs(items, fresh)
    BY <2>2, <2>4, <2>5 DEF TextIs
  <2>. QED  BY <2>5, <2>6 DEF AnchorInv, UploadsOK
<1>2. AnchorInv /\ [BrowserNext]_browserVars => AnchorInv'
  <2>. SUFFICES ASSUME AnchorInv, [BrowserNext]_browserVars PROVE AnchorInv'
    OBVIOUS
  <2>. DEFINE N == Len(items)
  <2>1. /\ TextIs(items, fresh) /\ items \in Seq(TextRow) /\ N \in Nat /\ DOMAIN items = 1..N
        /\ fresh \in Nat \ {0} /\ A!Live(items) \subseteq 1..N
    BY LenProperties DEF AnchorInv, TextIs, A!Live
  <2>. HIDE DEF N
  <2>2. A!AnchorNext \/ UNCHANGED anchorVars
    BY Zenon DEF BrowserNext, browserVars, EditorScene, CommentsScene, ShareScene, LinksScene,
           DashboardScene, VersionsScene, AnchorsScene, SessionScene, ToolsScene
  \* What neither edits the text nor ...
  <2>3. ASSUME UNCHANGED <<items, anchor>>
        PROVE  ChosenAreARange => ChosenAreARange'
    <3>1. \A rel, place : StandsAt(rel, place) = StandsAt(rel, place)'
      BY <2>3 DEF StandsAt
    <3>. QED  BY <2>3, <3>1 DEF ChosenAreARange
  <2>4. ASSUME UNCHANGED <<items, uploads, batches>>,
               pickedAt' = pickedAt \/ pickedAt' = <<>> \/ \E o \in Nat : pickedAt' = <<o>>
        PROVE  UploadsOK'
    <3>1. \A u : MarkedIn(items', u) = MarkedIn(items, u)
      BY <2>4 DEF MarkedIn
    <3>2. \A u : UploadOK(u)' = UploadOK(u)
      BY <2>4, <3>1 DEF UploadOK
    <3>3. batches' \in Nat /\ (pickedAt' = <<>> \/ \E o \in Nat : pickedAt' = <<o>>)
      BY <2>4 DEF AnchorInv, UploadsOK
    <3>. QED  BY <2>4, <3>2, <3>3 DEF AnchorInv, UploadsOK
  <2>5. CASE UNCHANGED <<items, fresh, anchor, uploads, batches, pickedAt, used>>
    <3>1. ChosenAreARange => ChosenAreARange'
      BY <2>3, <2>5
    <3>2. UploadsOK'
      BY <2>4, <2>5
    <3>. QED  BY <2>5, <3>1, <3>2 DEF AnchorInv
  \* Uploads that an edit behind them, or before them, leaves as they are.
  <2>. DEFINE asMoved(u, P) ==
                  [u EXCEPT !.moved = @ \/ A!Before(items, P) < u.at + A!Cardinality(u.marks)]
  <2>6. \A P : A!Moved(P) = {asMoved(u, P) : u \in uploads}
    BY Zenon DEF A!Moved
  <2>. HIDE DEF asMoved
  <2>7. ASSUME NEW P \in 1..(N + 1), SameUpTo(items, items', A!Before(items, P)),
               NEW v \in A!Moved(P)
        PROVE  \E u \in uploads :
                 /\ v.batch = u.batch /\ v.at = u.at /\ v.left = u.left /\ v.marks = u.marks
                 /\ v = asMoved(u, P)
                 /\ v \in UploadRow /\ A!Cardinality(v.marks) = 2 /\ (~v.moved => MarkedIn(items', v))
    <3>1. PICK u \in uploads : v = asMoved(u, P)
      BY <2>7, <2>6
    <3>. DEFINE m == u.moved \/ A!Before(items, P) < u.at + A!Cardinality(u.marks)
    <3>2. m \in BOOLEAN
      BY Zenon
    <3>3. v = [u EXCEPT !.moved = m]
      BY <3>1, Zenon DEF asMoved
    <3>4. UploadOK(u) /\ u \in UploadRow
      BY DEF AnchorInv, UploadsOK, UploadOK
    <3>. HIDE DEF m
    <3>5. /\ v.batch = u.batch /\ v.at = u.at /\ v.left = u.left /\ v.marks = u.marks
          /\ v.moved = m /\ v \in UploadRow
      BY <3>2, <3>3, <3>4 DEF UploadRow
    <3>6. ASSUME ~m PROVE MarkedIn(items', v)
      <4>1. A!Before(items, P) \in Nat
        BY <2>1, OffsetsOfPlaces DEF N
      <4>2. ~u.moved /\ ~(A!Before(items, P) < u.at + 2) /\ u.at \in Nat
        BY <3>4, <3>6 DEF m, UploadOK, UploadRow
      <4>3. PICK p, q \in A!Live(items) :
               /\ A!Before(items, p) = u.at /\ A!Before(items, q) = u.at + 1
               /\ u.marks = {items[p].id, items[q].id}
        BY <3>4, <4>2 DEF UploadOK, MarkedIn
      <4>4. /\ p \in A!Live(items') /\ items'[p].id = items[p].id
            /\ A!Before(items', p) = A!Before(items, p)
        BY <2>7, <4>1, <4>2, <4>3 DEF SameUpTo
      <4>5. /\ q \in A!Live(items') /\ items'[q].id = items[q].id
            /\ A!Before(items', q) = A!Before(items, q)
        BY <2>7, <4>1, <4>2, <4>3 DEF SameUpTo
      <4>. QED  BY <3>5, <4>3, <4>4, <4>5 DEF MarkedIn
    <3>. QED  BY <3>1, <3>4, <3>5, <3>6 DEF UploadOK
  <2>8. ASSUME NEW P \in 1..(N + 1), SameUpTo(items, items', A!Before(items, P)),
               NEW v \in A!Moved(P), NEW w \in A!Moved(P), v.batch = w.batch
        PROVE  v = w
    <3>1. \A y \in A!Moved(P) : \E u \in uploads : y.batch = u.batch /\ y = asMoved(u, P)
      BY <2>7, <2>8
    <3>2. PICK u \in uploads : v.batch = u.batch /\ v = asMoved(u, P)
        BY <3>1
    <3>3. PICK x \in uploads : w.batch = x.batch /\ w = asMoved(x, P)
        BY <3>1
    <3>4. u = x
        BY <2>8, <3>2, <3>3 DEF AnchorInv, UploadsOK
    <3>. QED  BY <3>2, <3>3, <3>4, Zenon
  <2>9. ASSUME NEW P \in 1..(N + 1), SameUpTo(items, items', A!Before(items, P)),
               batches' = batches, uploads' = A!Moved(P), pickedAt' = pickedAt
        PROVE  UploadsOK' /\ (uploads = {} => uploads' = {})
    <3>1. ASSUME NEW v \in A!Moved(P) PROVE UploadOK(v)'
      <4>1. PICK u \in uploads : v.batch = u.batch
              /\ v \in UploadRow /\ A!Cardinality(v.marks) = 2 /\ (~v.moved => MarkedIn(items', v))
        BY <2>7, <2>9
      <4>2. u.batch <= batches
        BY DEF AnchorInv, UploadsOK, UploadOK
      <4>. QED  BY <2>9, <4>1, <4>2 DEF UploadOK
    <3>2. uploads = {} => A!Moved(P) = {}
      BY DEF A!Moved
    <3>3. batches' \in Nat /\ (pickedAt' = <<>> \/ \E o \in Nat : pickedAt' = <<o>>)
      BY <2>9 DEF AnchorInv, UploadsOK
    <3>4. \A v, w \in A!Moved(P) : v.batch = w.batch => v = w
      BY <2>9, <2>8
    <3>. QED  BY <2>9, <3>1, <3>4, <3>2, <3>3 DEF UploadsOK
  <2>10. ASSUME used' = used, NEW p \in 1..(N + 1), A!Insert(p) PROVE AnchorInv'
    <3>. DEFINE new == <<A!Item(fresh)>>
                move(q) == IF q < p THEN q ELSE q + 1
    <3>1. items' = A!Inserted(items, p, new) /\ UNCHANGED <<anchor, batches, pickedAt>>
          /\ fresh' = fresh + 1 /\ uploads' = A!Moved(p)
      BY <2>10 DEF A!Insert
    <3>2. new \in Seq(TextRow) /\ Len(new) = 1 /\ new[1] = A!Item(fresh) /\ new[1].id = fresh
      BY <2>1 DEF A!Item, TextRow
    <3>. HIDE DEF new, move
    <3>3. \A i \in 1..Len(new) : new[i] = A!Item(fresh + i - 1)
      BY <2>1, <3>2
    <3>4. /\ TextIs(items', fresh + Len(new)) /\ Len(items') = Len(items) + Len(new)
          /\ SameUpTo(items, items', A!Before(items, p))
          /\ \A q \in 1..Len(items) : items'[IF q < p THEN q ELSE q + Len(new)] = items[q]
          /\ \A i \in 1..Len(new) : items'[p + i - 1] = new[i]
      <4>. DEFINE after == A!Inserted(items, p, new)
      <4>1. TextIs(items, fresh) /\ p \in 1..(Len(items) + 1) /\ new \in Seq(TextRow)
        BY <2>1, <3>2 DEF N
      <4>2. TextIs(after, fresh + Len(new)) /\ Len(after) = Len(items) + Len(new)
        BY <3>3, <4>1, InsertedText
      <4>3. SameUpTo(items, after, A!Before(items, p))
        BY <3>3, <4>1, InsertedText
      <4>4. /\ \A q \in 1..Len(items) : after[IF q < p THEN q ELSE q + Len(new)] = items[q]
            /\ \A i \in 1..Len(new) : after[p + i - 1] = new[i]
        BY <3>3, <4>1, InsertedText
      <4>. HIDE DEF after
      <4>5. items' = after
        BY <3>1 DEF after
      <4>. QED  BY <4>2, <4>3, <4>4, <4>5
    <3>5. /\ TextIs(items', fresh') /\ Len(items') = N + 1 /\ DOMAIN items' = 1..(N + 1)
          /\ \A q \in 1..N : items'[move(q)] = items[q]
          /\ items'[p].id = fresh
      <4>1. TextIs(items', fresh') /\ Len(items') = N + 1
        BY <3>1, <3>2, <3>4 DEF N
      <4>2. DOMAIN items' = 1..(N + 1)
        BY <4>1, LenProperties DEF TextIs
      <4>3. \A q \in 1..N : items'[move(q)] = items[q]
        BY <3>2, <3>4 DEF move, N
      <4>4. p + 1 - 1 = p
        BY <2>1
      <4>. QED  BY <3>2, <3>4, <4>1, <4>2, <4>3, <4>4
    <3>6. UploadsOK' /\ (uploads = {} => uploads' = {})
      BY <2>9, <3>1, <3>4
    <3>7. ASSUME ChosenAreARange PROVE ChosenAreARange'
      <4>1. PICK from, to \in 1..(N + 1) :
               /\ StandsAt(anchor.start, from) /\ StandsAt(anchor.end, to) /\ from <= to
               /\ anchor.chosen \subseteq anchor.old
               /\ anchor.old \subseteq {items[q].id : q \in DOMAIN items}
               /\ \A q \in DOMAIN items : items[q].id \in anchor.old =>
                     (items[q].id \in anchor.chosen <=> q \in from..(to - 1))
        BY <3>7 DEF ChosenAreARange, N
      <4>2. move(from) \in 1..(N + 2) /\ move(to) \in 1..(N + 2) /\ move(from) <= move(to)
        BY <2>1, <4>1 DEF move
      <4>3. \A rel, place : StandsAt(rel, place) => StandsAt(rel, move(place))'
        BY <2>1, <3>5 DEF StandsAt, N, move
      <4>4. \A q \in 1..N : q \in from..(to - 1) <=> move(q) \in move(from)..(move(to) - 1)
        BY <2>1, <4>1 DEF move
      <4>5. anchor.old \subseteq {items'[q].id : q \in DOMAIN items'}
        <5>1. \A q \in 1..N : move(q) \in 1..(N + 1)
          BY <2>1 DEF move
        <5>. QED  BY <2>1, <3>5, <4>1, <5>1
      <4>6. fresh \notin anchor.old
        BY <2>1, <4>1 DEF TextIs
      <4>7. ASSUME NEW q \in 1..(N + 1), items'[q].id \in anchor.old
            PROVE  items'[q].id \in anchor.chosen <=> q \in move(from)..(move(to) - 1)
        <5>1. q # p
          BY <3>5, <4>6, <4>7
        <5>2. \E r \in 1..N : q = move(r)
          <6>1. CASE q < p
            <7>1. q \in 1..N /\ q = move(q)
              BY <2>1, <6>1 DEF move
            <7>. QED  BY <7>1
          <6>2. CASE p < q
            <7>1. q - 1 \in 1..N /\ q = move(q - 1)
              BY <2>1, <6>2 DEF move
            <7>. QED  BY <7>1
          <6>. QED  BY <2>1, <5>1, <6>1, <6>2
        <5>3. PICK r \in 1..N : q = move(r)
          BY <5>2
        <5>. QED  BY <2>1, <3>5, <4>1, <4>4, <4>7, <5>3
      <4>8. Len(items') + 1 = N + 2
        BY <2>1, <3>5
      <4>. QED  BY <3>1, <3>5, <4>1, <4>2, <4>3, <4>5, <4>7, <4>8 DEF ChosenAreARange
    <3>. QED  BY <2>10, <3>1, <3>5, <3>6, <3>7 DEF AnchorInv
  <2>11. ASSUME used' = used, NEW p \in DOMAIN items, A!Delete(p) PROVE AnchorInv'
    <3>1. /\ p \in A!Live(items) /\ uploads' = A!Moved(p)
          /\ items' = [items EXCEPT ![p].dead = TRUE]
          /\ UNCHANGED <<fresh, anchor, batches, pickedAt>>
      BY <2>11 DEF A!Delete
    <3>2. /\ items' \in [DOMAIN items -> TextRow]
          /\ \A q \in DOMAIN items : items'[q].id = items[q].id /\ (items[q].dead => items'[q].dead)
          /\ \A q \in A!Live(items) : items'[q].dead => q = p
      <4>1. \A q \in DOMAIN items : items[q] \in TextRow
        BY <2>1, ElementOfSeq DEF N
      <4>. QED  BY <3>1, <4>1 DEF TextRow, A!Live
    <3>3. p \in 1..N /\ p \in 1..(N + 1)
      BY <2>1
    <3>4. A!Before(items, p) \in Nat /\ A!Before(items, p) <= A!Size(items)
      <4>1. N + 1 \in 1..(N + 1) /\ p <= N + 1
        BY <2>1, <3>3
      <4>. QED  BY <2>1, <3>3, <4>1, OffsetsOfPlaces DEF N
    <3>5. \A q \in A!Live(items) : items'[q].dead => A!Before(items, p) <= A!Before(items, q)
      BY <3>2, <3>4
    <3>6. /\ TextIs(items', fresh) /\ Len(items') = Len(items)
          /\ SameUpTo(items, items', A!Before(items, p))
      BY <2>1, <3>2, <3>4, <3>5, DeletedText
    <3>7. UploadsOK' /\ (uploads = {} => uploads' = {})
      BY <2>9, <3>1, <3>3, <3>6
    <3>8. ChosenAreARange => ChosenAreARange'
      BY <3>1, <3>2, <3>6 DEF ChosenAreARange, StandsAt
    <3>. QED  BY <2>11, <3>1, <3>6, <3>7, <3>8 DEF AnchorInv
  <2>12. ASSUME used = "comment", used' = used,
                NEW from \in 0..A!Size(items), NEW to \in from..A!Size(items),
                A!BuildCommentAnchorDraft(from, to)
         PROVE  AnchorInv'
    <3>. DEFINE live == A!Live(items)
                at(o) == A!Place(items, o)
                drawn == [start |-> A!RelativeAt(from), end |-> A!RelativeAt(to),
                          chosen |-> A!Between(from, to), old |-> A!Ids(items, live)]
    <3>1. UNCHANGED <<items, fresh, uploads, batches, pickedAt>> /\ anchor' = drawn
      BY <2>12 DEF A!BuildCommentAnchorDraft
    <3>2. /\ drawn.start = A!RelativeAt(from) /\ drawn.end = A!RelativeAt(to)
          /\ drawn.chosen = A!Between(from, to) /\ drawn.old = A!Ids(items, live)
      OBVIOUS
    <3>. HIDE DEF drawn
    <3>3. /\ \A a \in 1..(N + 1) : A!Before(items, a) \in Nat
          /\ \A a, b \in 1..(N + 1) : a <= b => A!Before(items, a) <= A!Before(items, b)
          /\ \A p \in live, a \in 1..(N + 1) :
                p \in 1..N /\ (p < a => A!Before(items, p) < A!Before(items, a))
          /\ A!Size(items) \in Nat /\ A!Size(items) = A!Before(items, N + 1)
      BY <2>1, OffsetsOfPlaces DEF N
    <3>4. \A o \in Nat : /\ at(o) \in 1..(N + 1)
                           /\ IF o < A!Size(items)
                              THEN at(o) \in live /\ A!Before(items, at(o)) = o
                              ELSE at(o) = N + 1
      BY <2>1, OffsetsOfPlaces DEF N
    <3>5. live \subseteq 1..N
      BY <2>1
    <3>. HIDE DEF live, at
    <3>6. from \in Nat /\ to \in Nat /\ from <= to /\ to <= A!Size(items)
      BY <3>3
    <3>7. ASSUME NEW o \in Nat, o <= A!Size(items)
          PROVE  A!Before(items, at(o)) = o /\ StandsAt(A!RelativeAt(o), at(o))
      <4>1. CASE o < A!Size(items)
        <5>1. A!RelativeAt(o) = items[at(o)].id
          BY <4>1 DEF A!RelativeAt, at
        <5>2. at(o) \in live /\ at(o) \in 1..N /\ A!Before(items, at(o)) = o
          BY <3>5, <3>4, <4>1
        <5>3. items[at(o)].id # A!End
          BY <2>1, <5>2 DEF TextIs, A!End
        <5>. QED  BY <2>1, <5>1, <5>2, <5>3 DEF StandsAt
      <4>2. CASE ~(o < A!Size(items))
        <5>1. at(o) = N + 1 /\ A!RelativeAt(o) = A!End /\ o = A!Size(items)
          <6>1. at(o) = N + 1
            BY <3>4, <4>2
          <6>2. A!RelativeAt(o) = A!End
            BY <4>2 DEF A!RelativeAt
          <6>3. o = A!Size(items)
            BY <3>3, <3>7, <4>2
          <6>. QED  BY <6>1, <6>2, <6>3
        <5>. QED  BY <3>3, <5>1 DEF StandsAt, N
      <4>. QED  BY <4>1, <4>2
    <3>8. /\ at(from) \in 1..(N + 1) /\ A!Before(items, at(from)) = from
          /\ StandsAt(A!RelativeAt(from), at(from))
          /\ at(to) \in 1..(N + 1) /\ A!Before(items, at(to)) = to
          /\ StandsAt(A!RelativeAt(to), at(to))
      BY <3>6, <3>7, <3>4
    <3>9. at(from) <= at(to)
      <4>1. CASE from = to
        BY <2>1, <3>8, <4>1
      <4>2. CASE from < to /\ at(to) < at(from)
        <5>1. at(to) \in live
          BY <2>1, <3>6, <3>8, <3>4, <4>2
        <5>. QED  BY <3>3, <3>6, <3>8, <4>2, <5>1
      <4>. QED  BY <2>1, <3>6, <3>8, <4>1, <4>2
    <3>10. ASSUME NEW p \in live
           PROVE  A!Before(items, p) \in from..(to - 1) <=> p \in at(from)..(at(to) - 1)
      <4>1. p \in 1..N /\ p \in 1..(N + 1) /\ A!Before(items, p) \in Nat
        BY <2>1, <3>3, <3>5
      <4>2. \A a \in 1..(N + 1) : A!Before(items, a) <= A!Before(items, p) <=> a <= p
        BY <2>1, <3>3, <4>1
      <4>3. /\ from <= A!Before(items, p) <=> at(from) <= p
            /\ to <= A!Before(items, p) <=> at(to) <= p
        BY <3>8, <4>2
      <4>. QED  BY <2>1, <3>6, <3>8, <4>1, <4>3
    <3>11. /\ drawn.chosen \subseteq drawn.old
           /\ drawn.old \subseteq {items[p].id : p \in DOMAIN items}
           /\ \A p \in DOMAIN items : items[p].id \in drawn.old => p \in live
           /\ \A p \in live : items[p].id \in drawn.chosen <=> A!Before(items, p) \in from..(to - 1)
      <4>1. live \subseteq DOMAIN items
        BY <2>1, <3>3
      <4>2. /\ drawn.old = {items[p].id : p \in live}
            /\ drawn.chosen = {items[p].id : p \in {q \in live : A!Before(items, q) \in from..(to - 1)}}
        BY <3>2 DEF A!Ids, A!Between, live
      <4>3. \A p, q \in DOMAIN items : items[p].id = items[q].id => p = q
        BY <2>1 DEF TextIs
      <4>. QED  BY <4>1, <4>2, <4>3
    <3>12. ChosenAreARange'
      <4>1. /\ StandsAt(drawn.start, at(from)) /\ StandsAt(drawn.end, at(to))
            /\ \A p \in DOMAIN items : items[p].id \in drawn.old =>
                  (items[p].id \in drawn.chosen <=> p \in at(from)..(at(to) - 1))
        BY <3>2, <3>8, <3>10, <3>11
      <4>2. \A rel, place : StandsAt(rel, place)' = StandsAt(rel, place)
        BY <3>1 DEF StandsAt
      <4>. QED  BY <3>1, <3>8, <3>9, <3>11, <4>1, <4>2 DEF ChosenAreARange, N
    <3>13. UploadsOK'
      BY <2>4, <3>1
    <3>. QED  BY <2>1, <2>12, <3>1, <3>12, <3>13 DEF AnchorInv
  \* The placeholder of the next file, and what it leaves alone.
  <2>13. ASSUME NEW u \in UploadRow, NEW s, NEW n, TextIs(s, n),
                items' = A!Inserted(s, A!Place(s, u.at), A!Placeholder(n)),
                NEW f, f = A!NextFile(u, s, n)
         PROVE  /\ TextIs(items', n + 2)
                /\ SameUpTo(s, items', A!Before(s, A!Place(s, u.at)))
                /\ GoesOn(u, f, items')
    <3>. DEFINE P == A!Place(s, u.at)
                new == A!Placeholder(n)
    <3>1. s \in Seq(TextRow) /\ n \in Nat \ {0} /\ u.at \in Nat
      BY <2>13 DEF TextIs, UploadRow
    <3>2. /\ new \in Seq(TextRow) /\ Len(new) = 2
          /\ new[1] = A!Item(n) /\ new[2] = A!Item(n + 1)
      BY <3>1 DEF A!Placeholder, A!Item, TextRow
    <3>3. /\ P \in 1..(Len(s) + 1) /\ A!Size(s) \in Nat
          /\ A!Size(s) = A!Before(s, Len(s) + 1)
          /\ IF u.at < A!Size(s) THEN A!Before(s, P) = u.at ELSE P = Len(s) + 1
      BY <3>1, OffsetsOfPlaces
    <3>4. items' = A!Inserted(s, P, new)
      BY <2>13
    <3>. DEFINE m == u.at > A!Size(s)
                marks == {n, n + 1}
    <3>5. f = [u EXCEPT !.left = @ - 1, !.marks = marks, !.moved = m]
      BY <2>13, Zenon DEF A!NextFile
    <3>. HIDE DEF P, new
    <3>6. /\ f \in UploadRow /\ f.batch = u.batch /\ f.at = u.at /\ f.marks = {n, n + 1}
          /\ f.moved <=> u.at > A!Size(s)
      <4>1. m \in BOOLEAN /\ marks \in SUBSET Nat /\ u.left - 1 \in Int
        BY <3>1 DEF UploadRow
      <4>. HIDE DEF m, marks
      <4>2. /\ f \in UploadRow /\ f.batch = u.batch /\ f.at = u.at /\ f.marks = marks
            /\ f.moved = m
        BY <3>5, <4>1 DEF UploadRow
      <4>. QED  BY <4>2 DEF m, marks
    <3>7. A!Cardinality({n, n + 1}) = 2
      <4>1. \A X : A!Cardinality(X) = Cardinality(X)
        BY Zenon DEF A!Cardinality, Cardinality
      <4>2. {n, n + 1} = n..(n + 1)
        BY <3>1
      <4>3. Cardinality(n..(n + 1)) = 2
        BY <3>1, FS_Interval
      <4>. QED  BY <4>1, <4>2, <4>3
    <3>8. \A i \in 1..Len(new) : new[i] = A!Item(n + i - 1)
      BY <3>1, <3>2
    <3>9. /\ TextIs(items', n + Len(new))
          /\ A!Before(items', P) = A!Before(s, P) /\ SameUpTo(s, items', A!Before(s, P))
          /\ \A i \in 1..Len(new) : P + i - 1 \in A!Live(items') /\ items'[P + i - 1] = new[i]
      <4>. DEFINE after == A!Inserted(s, P, new)
      <4>1. TextIs(after, n + Len(new))
        BY <2>13, <3>2, <3>3, <3>8, InsertedText
      <4>2. /\ A!Before(after, P) = A!Before(s, P)
            /\ SameUpTo(s, after, A!Before(s, P))
        BY <2>13, <3>2, <3>3, <3>8, InsertedText
      <4>3. TextIs(s, n) /\ P \in 1..(Len(s) + 1) /\ new \in Seq(TextRow)
        BY <2>13, <3>2, <3>3
      <4>4. \A i \in 1..Len(new) : P + i - 1 \in A!Live(after) /\ after[P + i - 1] = new[i]
        BY <3>8, <4>3, InsertedText
      <4>. HIDE DEF after
      <4>5. items' = after
        BY <3>4 DEF after
      <4>. QED  BY <4>1, <4>2, <4>4, <4>5
    <3>10. TextIs(items', n + 2)
      BY <3>2, <3>9
    <3>11. ASSUME ~f.moved PROVE MarkedIn(items', f)
      <4>1. A!Before(s, P) = u.at
        BY <3>1, <3>3, <3>6, <3>11
      <4>2. /\ P \in A!Live(items') /\ items'[P] = A!Item(n)
            /\ P + 1 \in A!Live(items') /\ items'[P + 1] = A!Item(n + 1)
        <5>1. 1 \in 1..Len(new) /\ 2 \in 1..Len(new) /\ P + 1 - 1 = P /\ P + 2 - 1 = P + 1
          BY <3>2, <3>3
        <5>. QED  BY <3>2, <3>9, <5>1
      <4>3. A!Before(items', P) = u.at /\ A!Before(items', P + 1) = u.at + 1
        <5>1. items' \in Seq(TextRow)
          BY <3>10 DEF TextIs
        <5>. QED  BY <3>9, <4>1, <4>2, <5>1, OffsetsOfPlaces
      <4>4. items'[P].id = n /\ items'[P + 1].id = n + 1
        BY <4>2 DEF A!Item
      <4>. QED  BY <3>6, <4>2, <4>3, <4>4 DEF MarkedIn
    <3>12. GoesOn(u, f, items')
      BY <3>6, <3>7, <3>11 DEF GoesOn
    <3>. QED  BY <3>9, <3>10, <3>12 DEF P
  \* An edit of an upload: the others move, it ends or goes on.
  <2>14. ASSUME NEW u \in UploadRow, NEW P \in 1..(N + 1),
                SameUpTo(items, items', A!Before(items, P)), NEW F,
                uploads' = A!Others(u, P) \cup F,
                \A f, g \in F : f = g,
                \A f \in F : GoesOn(u, f, items'),
                batches' \in Nat, batches <= batches', u.batch <= batches',
                pickedAt' = <<>> \/ \E o \in Nat : pickedAt' = <<o>>
         PROVE  UploadsOK'
    <3>1. batches \in Nat
      BY DEF AnchorInv, UploadsOK
    <3>2. ASSUME NEW v \in A!Others(u, P)
          PROVE  v \in A!Moved(P) /\ v.batch # u.batch /\ UploadOK(v)'
      <4>1. v \in A!Moved(P) /\ v.batch # u.batch
        BY DEF A!Others
      <4>2. PICK x \in uploads : v.batch = x.batch
              /\ v \in UploadRow /\ A!Cardinality(v.marks) = 2 /\ (~v.moved => MarkedIn(items', v))
        BY <2>7, <2>14, <4>1
      <4>3. x.batch <= batches /\ x.batch \in Nat
        BY DEF AnchorInv, UploadsOK, UploadOK, UploadRow
      <4>4. v.batch <= batches'
        BY <2>14, <3>1, <4>2, <4>3
      <4>. QED  BY <4>1, <4>2, <4>4 DEF UploadOK
    <3>3. ASSUME NEW f \in F PROVE UploadOK(f)' /\ f.batch = u.batch
      BY <2>14 DEF UploadOK, GoesOn
    <3>4. \A v, w \in uploads' : v.batch = w.batch => v = w
      <4>1. \A v, w \in A!Others(u, P) : v.batch = w.batch => v = w
        BY <2>14, <2>8, <3>2
      <4>. QED  BY <2>14, <3>2, <3>3, <4>1
    <3>. QED  BY <2>14, <3>2, <3>3, <3>4 DEF UploadsOK
  <2>15. ASSUME used = "image", used' = used, NEW files \in 1..MaxFiles, A!UploadImages(files)
         PROVE  AnchorInv'
    <3>1. anchor' = anchor /\ anchor = <<>> /\ pickedAt # <<>> /\ pickedAt' = <<>>
      BY <2>15 DEF A!UploadImages, AnchorInv
    <3>2. CASE readOnly
      <4>1. UNCHANGED <<items, fresh, uploads, batches>>
        BY <2>15, <3>2 DEF A!UploadImages
      <4>2. UploadsOK'
        BY <2>4, <3>1, <4>1
      <4>. QED  BY <2>1, <2>15, <3>1, <4>1, <4>2 DEF AnchorInv
    <3>3. CASE ~readOnly
      <4>1. PICK o \in Nat : pickedAt[1] = o
        BY <3>1 DEF AnchorInv, UploadsOK
      <4>. DEFINE P == A!Place(items, o)
                  u == [batch |-> batches + 1, at |-> o, left |-> files,
                        marks |-> {}, moved |-> FALSE]
                  f == A!NextFile(u, items, fresh)
      <4>2. /\ items' = A!Inserted(items, P, A!Placeholder(fresh))
            /\ uploads' = A!Others(u, P) \cup {f}
            /\ fresh' = fresh + 2 /\ batches' = batches + 1
        BY <2>15, <3>3, <4>1 DEF A!UploadImages, A!PlaceholderSize
      <4>3. batches \in Nat /\ MaxFiles \in Nat
        BY BrowserAssumption DEF AnchorInv, UploadsOK, A!AnchorsAssumption
      <4>4. u \in UploadRow /\ u.at = o /\ u.batch = batches + 1
        BY <4>3 DEF UploadRow
      <4>. HIDE DEF u
      <4>5. P \in 1..(N + 1)
        BY <2>1, OffsetsOfPlaces DEF N
      <4>6. items' = A!Inserted(items, A!Place(items, u.at), A!Placeholder(fresh))
        BY <4>2, <4>4
      <4>. HIDE DEF f
      <4>7. f = A!NextFile(u, items, fresh)
        BY DEF f
      <4>8. /\ TextIs(items', fresh + 2) /\ SameUpTo(items, items', A!Before(items, P))
            /\ GoesOn(u, f, items')
        <5>1. SameUpTo(items, items', A!Before(items, A!Place(items, u.at)))
          BY <2>1, <2>13, <4>4, <4>6, <4>7
        <5>2. TextIs(items', fresh + 2)
          BY <2>1, <2>13, <4>4, <4>6, <4>7
        <5>3. GoesOn(u, f, items')
          BY <2>1, <2>13, <4>4, <4>6, <4>7
        <5>. QED  BY <4>4, <5>1, <5>2, <5>3
      <4>. HIDE DEF P
      <4>9. UploadsOK'
        <5>1. batches' \in Nat /\ batches <= batches' /\ u.batch <= batches'
          BY <4>2, <4>3, <4>4
        <5>. DEFINE F == {f}
        <5>2. \A g, h \in F : g = h
          OBVIOUS
        <5>3. \A g \in F : GoesOn(u, g, items')
          BY <4>8
        <5>4. uploads' = A!Others(u, P) \cup F
          BY <4>2
        <5>. HIDE DEF F
        <5>. QED  BY <2>14, <3>1, <4>4, <4>5, <4>8, <5>1, <5>2, <5>3, <5>4
      <4>. QED  BY <2>15, <3>1, <4>2, <4>8, <4>9 DEF AnchorInv
    <3>. QED  BY <3>2, <3>3
  <2>16. ASSUME used = "image", used' = used, NEW u \in uploads, NEW image \in BOOLEAN,
                A!UploadAnswered(u, image)
         PROVE  AnchorInv'
    <3>. DEFINE P == A!Place(items, u.at)
                o == A!Before(items, P)
                end == A!Ended(u, image)
                Q == A!Place(end, u.at)
                f == A!NextFile(u, end, fresh + 1)
                F == IF u.left = 0 \/ readOnly THEN {} ELSE {f}
    <3>1. /\ uploads' = A!Others(u, P) \cup F
          /\ \/ readOnly /\ items' = items
             \/ ~readOnly /\ u.left = 0 /\ items' = end
             \/ ~readOnly /\ u.left # 0 /\ items' = A!Inserted(end, Q, A!Placeholder(fresh + 1))
          /\ fresh' = fresh + 3 /\ UNCHANGED <<anchor, batches, pickedAt>>
      <4>1. uploads' = A!Others(u, P) \cup F
        BY <2>16, Zenon DEF A!UploadAnswered
      <4>2. items' = CASE readOnly -> items
                       [] ~readOnly /\ u.left = 0 -> end
                       [] ~readOnly /\ u.left # 0 -> A!Inserted(end, Q, A!Placeholder(fresh + 1))
        BY <2>16, Zenon DEF A!UploadAnswered
      <4>3. readOnly \/ (~readOnly /\ u.left = 0) \/ (~readOnly /\ u.left # 0)
        OBVIOUS
      <4>4. fresh' = fresh + 3 /\ UNCHANGED <<anchor, batches, pickedAt>>
        BY <2>16 DEF A!UploadAnswered
      <4>. HIDE DEF F, f, end, o, P, Q
      <4>5. ASSUME ~readOnly PROVE items' = IF u.left = 0 THEN end
                                            ELSE A!Inserted(end, Q, A!Placeholder(fresh + 1))
        BY <4>2, <4>5
      <4>6. readOnly => items' = items
        BY <4>2
      <4>. QED  BY <4>1, <4>3, <4>4, <4>5, <4>6
    <3>2. u \in UploadRow /\ u.at \in Nat /\ u.batch <= batches /\ batches \in Nat
          /\ (pickedAt = <<>> \/ \E x \in Nat : pickedAt = <<x>>)
      BY DEF AnchorInv, UploadsOK, UploadOK, UploadRow
    <3>. HIDE DEF end, f
    <3>3. /\ P \in 1..(N + 1) /\ o \in Nat /\ o <= u.at /\ o <= A!Size(items)
          /\ \A p \in 1..(N + 1) : A!Before(items, p) \in Nat
      <4>1. /\ P \in 1..(N + 1)
            /\ IF u.at < A!Size(items) THEN o = u.at ELSE P = N + 1
            /\ A!Size(items) \in Nat /\ A!Size(items) = A!Before(items, N + 1)
            /\ \A p \in 1..(N + 1) : A!Before(items, p) \in Nat
        BY <2>1, <3>2, OffsetsOfPlaces DEF N
      <4>. QED  BY <3>2, <4>1
    <3>. HIDE DEF P
    <3>4. TextIs(end, fresh + 1) /\ SameUpTo(items, end, o)
      <4>1. TextIs(end, fresh + 1)
        BY <2>1, <3>2, EndOfUpload DEF end
      <4>2. SameUpTo(items, end, o)
        BY <2>1, <3>2, EndOfUpload DEF end, P
      <4>. QED  BY <4>1, <4>2
    <3>. HIDE DEF o
    <3>5. batches' \in Nat /\ batches <= batches' /\ u.batch <= batches'
          /\ (pickedAt' = <<>> \/ \E x \in Nat : pickedAt' = <<x>>)
      BY <3>1, <3>2
    <3>6. CASE readOnly
      <4>1. TextIs(items', fresh')
        BY <2>1, <3>1, <3>6 DEF TextIs
      <4>2. SameUpTo(items, items', o)
        BY <3>1, <3>3, <3>6 DEF SameUpTo
      <4>3. F = {}
        BY <3>6
      <4>4. UploadsOK'
        <5>1. (\A g, h \in F : g = h) /\ \A g \in F : GoesOn(u, g, items')
          BY <4>3
        <5>. HIDE DEF F
        <5>. QED  BY <2>14, <3>1, <3>2, <3>3, <3>5, <4>2, <5>1 DEF o
      <4>. QED  BY <2>16, <3>1, <4>1, <4>4 DEF AnchorInv
    <3>7. CASE ~readOnly /\ u.left = 0
      <4>1. TextIs(items', fresh')
        BY <2>1, <3>1, <3>4, <3>7 DEF TextIs
      <4>2. SameUpTo(items, items', o)
        BY <3>1, <3>4, <3>7
      <4>3. F = {}
        BY <3>7
      <4>4. UploadsOK'
        <5>1. (\A g, h \in F : g = h) /\ \A g \in F : GoesOn(u, g, items')
          BY <4>3
        <5>. HIDE DEF F
        <5>. QED  BY <2>14, <3>1, <3>2, <3>3, <3>5, <4>2, <5>1 DEF o
      <4>. QED  BY <2>16, <3>1, <4>1, <4>4 DEF AnchorInv
    <3>8. CASE ~readOnly /\ u.left # 0
      <4>1. items' = A!Inserted(end, A!Place(end, u.at), A!Placeholder(fresh + 1))
        BY <3>1, <3>8
      <4>2. /\ TextIs(items', fresh + 1 + 2) /\ SameUpTo(end, items', A!Before(end, Q))
            /\ GoesOn(u, f, items')
        <5>1. f = A!NextFile(u, end, fresh + 1)
          BY DEF f
        <5>2. TextIs(items', fresh + 1 + 2) /\ SameUpTo(end, items', A!Before(end, Q))
          BY <2>13, <3>2, <3>4, <4>1, <5>1
        <5>3. GoesOn(u, f, items')
          BY <2>13, <3>2, <3>4, <4>1, <5>1
        <5>. QED  BY <5>2, <5>3
      <4>3. TextIs(items', fresh')
        BY <2>1, <3>1, <4>2
      <4>4. end \in Seq(TextRow) /\ items' \in Seq(TextRow)
        BY <3>4, <4>2 DEF TextIs
      <4>5. A!Before(end, Q) \in Nat /\ o <= A!Before(end, Q) /\ A!Size(items') \in Nat
        <5>1. /\ Q \in 1..(Len(end) + 1) /\ A!Before(end, Q) \in Nat
              /\ IF u.at < A!Size(end) THEN A!Before(end, Q) = u.at ELSE Q = Len(end) + 1
              /\ A!Size(end) = A!Before(end, Len(end) + 1)
          BY <3>2, <4>4, OffsetsOfPlaces
        <5>2. o <= A!Size(end)
          BY <3>4 DEF SameUpTo
        <5>3. A!Size(items') \in Nat
          BY <4>4, OffsetsOfPlaces
        <5>. QED  BY <3>3, <5>1, <5>2, <5>3
      <4>. HIDE DEF Q
      <4>6. SameUpTo(items, items', o)
        <5>1. o <= A!Size(items')
          BY <3>3, <4>2, <4>5 DEF SameUpTo
        <5>2. ASSUME NEW p \in A!Live(items), A!Before(items, p) < o
              PROVE  p \in A!Live(items') /\ items'[p].id = items[p].id
                     /\ A!Before(items', p) = A!Before(items, p)
          <6>1. /\ p \in A!Live(end) /\ end[p].id = items[p].id
                /\ A!Before(end, p) = A!Before(items, p)
            BY <3>4, <5>2 DEF SameUpTo
          <6>2. p \in 1..(N + 1)
            BY <2>1
          <6>3. A!Before(end, p) < A!Before(end, Q)
            BY <3>3, <4>5, <5>2, <6>1, <6>2
          <6>. QED  BY <4>2, <6>1, <6>3 DEF SameUpTo
        <5>. QED  BY <3>3, <5>1, <5>2 DEF SameUpTo
      <4>7. F = {f}
        BY <3>8
      <4>8. UploadsOK'
        <5>1. \A g, h \in F : g = h
          BY <4>7
        <5>2. \A g \in F : GoesOn(u, g, items')
          BY <4>2, <4>7
        <5>. HIDE DEF F
        <5>. QED  BY <2>14, <3>1, <3>2, <3>3, <3>5, <4>6, <5>1, <5>2 DEF o
      <4>. QED  BY <2>16, <3>1, <4>3, <4>8 DEF AnchorInv
    <3>. QED  BY <3>1, <3>6, <3>7, <3>8
  <2>17. ASSUME A!AnchorNext
         PROVE  /\ used' = used
                /\ \/ \E p \in 1..(Len(items) + 1) : A!Insert(p)
                   \/ \E p \in DOMAIN items : A!Delete(p)
                   \/ /\ used = "comment"
                      /\ \E from \in 0..A!Size(items) : \E to \in from..A!Size(items) :
                            A!BuildCommentAnchorDraft(from, to)
                   \/ used = "image" /\ A!BecomeReadOnly
                   \/ used = "image" /\ \E offset \in 0..A!Size(items) : A!PickImages(offset)
                   \/ used = "image" /\ \E files \in 1..MaxFiles : A!UploadImages(files)
                   \/ /\ used = "image"
                      /\ \E u \in uploads, image \in BOOLEAN : A!UploadAnswered(u, image)
                   \/ A!BlameStep
    BY <2>17, Zenon DEF A!AnchorNext, A!PeopleType, A!CommentMade, A!ImageStep
  <2>18. ASSUME used' = used, A!BecomeReadOnly \/ A!BlameStep PROVE AnchorInv'
    <3>1. UNCHANGED <<items, fresh, anchor, uploads, batches, pickedAt>>
      BY <2>18 DEF A!BecomeReadOnly, A!BlameStep, A!ToggleBlame, A!ServeBlame, A!BlameAnswered, A!EditLogged, A!notBlame
    <3>. QED  BY <2>5, <2>18, <3>1
  <2>19. ASSUME used' = used, NEW offset \in 0..A!Size(items), A!PickImages(offset)
         PROVE  AnchorInv'
    <3>1. UNCHANGED <<items, fresh, anchor, uploads, batches>> /\ pickedAt' = <<offset>>
      BY <2>19 DEF A!PickImages
    <3>2. A!Size(items) \in Nat
      BY <2>1, OffsetsOfPlaces
    <3>3. UploadsOK'
      BY <2>4, <3>1, <3>2
    <3>4. ChosenAreARange => ChosenAreARange'
      BY <2>3, <3>1
    <3>. QED  BY <2>19, <3>1, <3>3, <3>4 DEF AnchorInv
  <2>20. CASE UNCHANGED anchorVars
    BY <2>5, <2>20 DEF anchorVars
  <2>. QED
    BY <2>2, <2>10, <2>11, <2>12, <2>15, <2>16, <2>17, <2>18, <2>19, <2>20 DEF N
<1>. QED  BY <1>1, <1>2, PTL DEF BrowserSpec

\* A comment stays on the text it was made on, in a text of any length and after
\* any number of edits around it and within (commentAnchors.ts).
THEOREM CommentsStayOnTheirText == BrowserSpec => []CommentsFollowTheirText
<1>1. AnchorInv => CommentsFollowTheirText
  <2>. SUFFICES ASSUME AnchorInv, anchor # <<>>
       PROVE  A!ResolveCommentAnchor \cap anchor.old
                = anchor.chosen \cap A!Ids(items, A!Live(items))
    BY DEF CommentsFollowTheirText, A!CommentsFollowTheirText
  <2>. DEFINE N == Len(items)
              live == A!Live(items)
  <2>1. TextIs(items, fresh) /\ items \in Seq(TextRow) /\ N \in Nat /\ DOMAIN items = 1..N
        /\ ChosenAreARange
    BY LenProperties DEF AnchorInv, TextIs
  <2>2. PICK from, to \in 1..(N + 1) :
           /\ StandsAt(anchor.start, from) /\ StandsAt(anchor.end, to) /\ from <= to
           /\ anchor.chosen \subseteq anchor.old
           /\ \A q \in DOMAIN items : items[q].id \in anchor.old =>
                 (items[q].id \in anchor.chosen <=> q \in from..(to - 1))
    BY <2>1 DEF ChosenAreARange
  <2>3. /\ \A a \in 1..(N + 1) : A!Before(items, a) \in Nat
        /\ \A a, b \in 1..(N + 1) : a <= b => A!Before(items, a) <= A!Before(items, b)
        /\ \A p \in live, a \in 1..(N + 1) : p < a => A!Before(items, p) < A!Before(items, a)
        /\ A!Size(items) = A!Before(items, N + 1)
    BY <2>1, OffsetsOfPlaces
  <2>4. live \subseteq 1..N
    BY <2>1 DEF A!Live
  <2>. HIDE DEF N, live
  <2>5. ASSUME NEW rel, NEW place \in 1..(N + 1), StandsAt(rel, place)
        PROVE  A!ResolveRelativeIndex(rel) = A!Before(items, place)
    <3>1. CASE rel = A!End
      BY <2>3, <2>5, <3>1 DEF StandsAt, A!ResolveRelativeIndex, N
    <3>2. CASE rel # A!End
      <4>1. place = CHOOSE p \in DOMAIN items : items[p].id = rel
        BY <2>1, <2>5, <3>2 DEF StandsAt, TextIs
      <4>. QED  BY <3>2, <4>1, Zenon DEF A!ResolveRelativeIndex
    <3>. QED  BY <3>1, <3>2
  <2>. DEFINE f == A!Before(items, from)
              g == A!Before(items, to)
  <2>6. A!ResolveRelativeIndex(anchor.start) = f /\ A!ResolveRelativeIndex(anchor.end) = g
    BY <2>2, <2>5
  <2>7. f \in Nat /\ g \in Nat /\ f <= g
    BY <2>2, <2>3
  <2>8. A!ResolveCommentAnchor = A!Between(f, g)
    <3>. HIDE DEF f, g
    <3>1. A!Smaller(f, g) = f /\ (IF f < g THEN g ELSE f) = g
      BY <2>7 DEF A!Smaller
    <3>. QED  BY <2>6, <3>1, Zenon DEF A!ResolveCommentAnchor
  <2>9. ASSUME NEW p \in live PROVE A!Before(items, p) \in f..(g - 1) <=> p \in from..(to - 1)
    <3>1. p \in 1..N /\ p \in 1..(N + 1) /\ A!Before(items, p) \in Nat
      BY <2>1, <2>3, <2>4
    <3>2. \A a \in 1..(N + 1) : A!Before(items, a) <= A!Before(items, p) <=> a <= p
      BY <2>1, <2>3, <3>1
    <3>3. (f <= A!Before(items, p) <=> from <= p) /\ (g <= A!Before(items, p) <=> to <= p)
      BY <2>2, <3>2
    <3>. HIDE DEF f, g
    <3>. QED  BY <2>1, <2>2, <2>7, <3>1, <3>3
  <2>. HIDE DEF f, g
  <2>10. A!Between(f, g) = {items[p].id : p \in {q \in live : A!Before(items, q) \in f..(g - 1)}}
         /\ A!Ids(items, A!Live(items)) = {items[p].id : p \in live}
    BY DEF A!Ids, A!Between, live
  <2>. QED  BY <2>1, <2>2, <2>8, <2>9, <2>10, <2>4
<1>. QED  BY <1>1, AnchorInvariant, PTL

\* The end of an upload deletes its own placeholder and nothing else, in a text
\* of any length and with any number of batches and files, but for the uploads
\* whose offset was known to be wrong (EditorAssets.tsx 48-89).
THEOREM UploadsStayInPlace == BrowserSpec => UploadsTouchOnlyTheirPlaceholder
<1>1. AnchorInv /\ [BrowserNext]_browserVars => [A!EndsOnlyItsPlaceholder]_anchorVars
  <2>. SUFFICES ASSUME AnchorInv, [BrowserNext]_browserVars, ~UNCHANGED anchorVars,
                       NEW u \in uploads, u \notin uploads', ~u.moved, ~readOnly,
                       ~\E v \in uploads' : v.batch = u.batch /\ v.left = u.left
                PROVE  A!Ids(items, A!Live(items)) \ A!Ids(items', A!Live(items')) = u.marks
    BY Zenon DEF A!EndsOnlyItsPlaceholder
  <2>1. A!AnchorNext
    BY Zenon DEF BrowserNext, browserVars, EditorScene, CommentsScene, ShareScene, LinksScene,
           DashboardScene, VersionsScene, AnchorsScene, SessionScene, ToolsScene
  <2>2. TextIs(items, fresh) /\ UploadOK(u) /\ u \in UploadRow /\ batches \in Nat
    BY DEF AnchorInv, UploadsOK, UploadOK
  \* An edit elsewhere keeps the upload, with the same file under way.
  <2>3. ASSUME NEW P PROVE \E v \in A!Moved(P) : v.batch = u.batch /\ v.left = u.left
    <3>. DEFINE m == u.moved \/ A!Before(items, P) < u.at + A!Cardinality(u.marks)
                v == [u EXCEPT !.moved = @ \/ A!Before(items, P) < u.at + A!Cardinality(u.marks)]
    <3>1. v \in A!Moved(P)
      BY Zenon DEF A!Moved
    <3>2. v = [u EXCEPT !.moved = m]
      BY Zenon
    <3>. HIDE DEF m, v
    <3>3. v.batch = u.batch /\ v.left = u.left
      BY <2>2, <3>2 DEF UploadRow
    <3>. QED  BY <3>1, <3>3
  <2>4. ASSUME NEW P, uploads' = A!Moved(P) PROVE FALSE
    BY <2>3, <2>4
  <2>5. ASSUME NEW w, NEW P, A!Others(w, P) \subseteq uploads' PROVE w.batch = u.batch
    BY <2>3, <2>5 DEF A!Others
  <2>6. ASSUME NEW p, A!Insert(p) \/ A!Delete(p) PROVE FALSE
    <3>1. uploads' = A!Moved(p)
      BY <2>6 DEF A!Insert, A!Delete
    <3>. QED  BY <2>4, <3>1
  <2>7. ASSUME NEW files, A!UploadImages(files) PROVE FALSE
    <3>. DEFINE at == A!Place(items, pickedAt[1])
                w == [batch |-> batches + 1, at |-> pickedAt[1], left |-> files,
                      marks |-> {}, moved |-> FALSE]
    <3>1. A!Others(w, at) \subseteq uploads'
      BY <2>7, Zenon DEF A!UploadImages
    <3>2. w.batch = batches + 1
      OBVIOUS
    <3>. HIDE DEF w, at
    <3>3. u.batch <= batches /\ u.batch \in Nat
      BY <2>2 DEF UploadOK, UploadRow
    <3>. QED  BY <2>2, <2>5, <3>1, <3>2, <3>3
  <2>8. ASSUME NEW w \in uploads, NEW image \in BOOLEAN, A!UploadAnswered(w, image)
        PROVE  A!Ids(items, A!Live(items)) \ A!Ids(items', A!Live(items')) = u.marks
    <3>1. w = u
      <4>1. A!Others(w, A!Place(items, w.at)) \subseteq uploads'
        BY <2>8, Zenon DEF A!UploadAnswered
      <4>2. w.batch = u.batch
        BY <2>5, <4>1
      <4>. QED  BY <4>2 DEF AnchorInv, UploadsOK
    <3>. DEFINE end == A!Ended(u, image)
                Q == A!Place(end, u.at)
                old == A!Ids(items, A!Live(items))
                kept == A!Ids(end, A!Live(end))
                now == A!Ids(items', A!Live(items'))
    <3>2. items' = CASE readOnly -> items
                     [] ~readOnly /\ u.left = 0 -> end
                     [] ~readOnly /\ u.left # 0 -> A!Inserted(end, Q, A!Placeholder(fresh + 1))
      BY <2>8, <3>1, Zenon DEF A!UploadAnswered
    <3>3. TextIs(end, fresh + 1)
      BY <2>2, EndOfUpload
    <3>4. old \ kept = {items[p].id : p \in {q \in A!Live(items) :
                                               A!Before(items, q) \in u.at..(u.at + 1)}}
      BY <2>2, EndOfUpload
    <3>. HIDE DEF end, Q
    <3>5. old \ kept = u.marks
      <4>1. PICK p, q \in A!Live(items) :
               /\ A!Before(items, p) = u.at /\ A!Before(items, q) = u.at + 1
               /\ u.marks = {items[p].id, items[q].id}
        BY <2>2 DEF UploadOK, MarkedIn
      <4>2. items \in Seq(TextRow) /\ Len(items) \in Nat /\ u.at \in Nat
            /\ A!Live(items) \subseteq 1..Len(items)
        BY <2>2, LenProperties DEF TextIs, UploadRow, A!Live
      <4>3. \A r, s \in A!Live(items) : A!Before(items, r) = A!Before(items, s) => r = s
        <5>1. ASSUME NEW r \in A!Live(items), NEW s \in A!Live(items), r < s
              PROVE  A!Before(items, r) # A!Before(items, s)
          <6>1. s \in 1..(Len(items) + 1) /\ r \in 1..(Len(items) + 1)
            BY <4>2
          <6>2. A!Before(items, r) < A!Before(items, s)
                /\ A!Before(items, r) \in Nat /\ A!Before(items, s) \in Nat
            BY <4>2, <5>1, <6>1, OffsetsOfPlaces
          <6>. QED  BY <6>2
        <5>. QED  BY <4>2, <5>1
      <4>4. {r \in A!Live(items) : A!Before(items, r) \in u.at..(u.at + 1)} = {p, q}
        <5>1. \A r \in A!Live(items) :
                 A!Before(items, r) \in u.at..(u.at + 1) <=> r = p \/ r = q
          BY <4>1, <4>2, <4>3
        <5>. QED  BY <5>1
      <4>. QED  BY <3>4, <4>1, <4>4
    <3>6. now \cap old = kept \cap old
      <4>1. CASE u.left = 0
        BY <3>2, <4>1
      <4>2. CASE u.left # 0
        <5>. DEFINE new == A!Placeholder(fresh + 1)
        <5>1. items' = A!Inserted(end, Q, new)
          BY <3>2, <4>2
        <5>2. fresh \in Nat \ {0} /\ u.at \in Nat /\ end \in Seq(TextRow)
          BY <2>2, <3>3 DEF TextIs, UploadRow
        <5>3. /\ new \in Seq(TextRow) /\ Len(new) = 2
              /\ new[1] = A!Item(fresh + 1) /\ new[2] = A!Item(fresh + 2)
          BY <5>2 DEF A!Placeholder, A!Item, TextRow
        <5>4. Q \in 1..(Len(end) + 1)
          BY <5>2, OffsetsOfPlaces DEF Q
        <5>. HIDE DEF new
        <5>5. \A i \in 1..Len(new) : new[i] = A!Item(fresh + 1 + i - 1)
          BY <5>2, <5>3
        <5>6. TextIs(end, fresh + 1) /\ Q \in 1..(Len(end) + 1) /\ new \in Seq(TextRow)
          BY <3>3, <5>3, <5>4
        <5>7. now = kept \cup ((fresh + 1)..(fresh + 1 + Len(new) - 1))
          BY <5>1, <5>5, <5>6, InsertedText
        <5>8. \A i \in old : i \in 1..(fresh - 1)
          <6>1. \A p \in A!Live(items) : items[p].id \in 1..(fresh - 1)
            BY <2>2 DEF TextIs, A!Live
          <6>. QED  BY <6>1 DEF A!Ids
        <5>. HIDE DEF now, kept, old
        <5>. QED  BY <5>2, <5>3, <5>7, <5>8
      <4>. QED  BY <4>1, <4>2
    <3>. HIDE DEF now, kept, old
    <3>7. old \ now = u.marks
      BY <3>5, <3>6
    <3>. QED  BY <3>7 DEF old, now
  <2>9. ASSUME NEW offset, A!BecomeReadOnly \/ A!BlameStep \/ A!PickImages(offset) PROVE FALSE
    BY <2>9 DEF A!BecomeReadOnly, A!PickImages, A!BlameStep, A!ToggleBlame, A!ServeBlame, A!BlameAnswered, A!EditLogged, A!notBlame
  <2>10. ASSUME NEW from, NEW to, A!BuildCommentAnchorDraft(from, to) PROVE FALSE
    BY <2>10 DEF A!BuildCommentAnchorDraft
  <2>. QED
    BY <2>1, <2>6, <2>7, <2>8, <2>9, <2>10, Zenon
       DEF A!AnchorNext, A!PeopleType, A!CommentMade, A!ImageStep
<1>. QED  BY <1>1, AnchorInvariant, PTL DEF BrowserSpec, UploadsTouchOnlyTheirPlaceholder
-----------------------------------------------------------------------------
(***************************************************************************)
(* Proofs about the panels of Browser: once all calls are answered, their  *)
(* lists show the rows of the database, for any number of rows and calls   *)
(* and however these overlap.  The invariant speaks of the calls cs under  *)
(* way, the number n of those made, the rows rs, the lists ls and the      *)
(* tables un whose list may be off, and not of the variables: answering a  *)
(* call and sending the next one is then two steps, each of which keeps it.*)
(***************************************************************************)
PanelRow == [id : Nat, st : {"open", "closed", "low", "high"}]
PanelCall == [n : Nat, op : Op, table : Table, row : PanelRow, tag : Nat, alone : BOOLEAN,
              state : {"sent", "served", "failed"}, answer : Seq(PanelRow)]

\* A list of exactly these rows, each once; ids are not used twice.
UniqueIds(l) == \A i, j \in DOMAIN l : l[i].id = l[j].id => i = j
Lists(l, rs) == {l[i] : i \in DOMAIN l} = rs /\ UniqueIds(l)

CallsTyped(cs, n, rs, ls) ==
    /\ n \in 0..MaxCalls
    /\ cs \subseteq PanelCall
    /\ \A c \in cs : c.n \in 1..n
    /\ \A c, d \in cs : c.n = d.n => c = d
    /\ ls \in [Table -> Seq(PanelRow)]
    /\ rs \in [Table -> SUBSET PanelRow]
    /\ \A t \in Table : IsFiniteSet(rs[t]) /\ \A r, s \in rs[t] : r.id = s.id => r = s

\* An id that a call is yet to create is nowhere else.
ToCome(i, cs, n) == i \in (n + 1)..MaxCalls \/ \E c \in cs : c.state = "sent" /\ c.n = i

NewIdsAreNew(cs, n, rs, ls) ==
    /\ \A t \in Table : \A r \in rs[t] : ~ToCome(r.id, cs, n)
    /\ \A t \in Table : \A i \in DOMAIN ls[t] : ~ToCome(ls[t][i].id, cs, n)
    /\ \A c \in cs : /\ \A i \in DOMAIN c.answer : ~ToCome(c.answer[i].id, cs, n)
                     /\ IF c.op = "create" THEN c.row.id = c.n ELSE ~ToCome(c.row.id, cs, n)

Changes(c, t) == Alters(c.op) /\ t \in Tables(c.op, c.table)
Made(c) == IF c.op = "renew" THEN [c.row EXCEPT !.id = c.n] ELSE c.row

\* What a change leaves of the rows R, or of the rows on a list.
Updated(R, c) ==
    {r \in R : r.id # c.row.id}
      \cup (IF c.op \in {"create", "change", "renew"} THEN {Made(c)} ELSE {})

\* What an answer says.
AnswersAreTrue(cs, rs) ==
    /\ \A c \in cs : c.op \in {"create", "renew"} /\ c.state = "served" => c.answer = <<Made(c)>>
    /\ \A c \in cs : c.op = "list" /\ c.alone =>
         /\ \A d \in cs : c.table \in Tables(d.op, d.table) => d = c
         /\ c.state = "served" => Lists(c.answer, rs[c.table])

\* The calls under way that change a list which is not off: each is about a row
\* of its own, and none overlaps a fetch.
ChangesAreApart(cs, ls, un) ==
    \A t \in Table \ un :
      /\ \A c \in cs : Changes(c, t) =>
           /\ c.table = t
           /\ \A d \in cs : d.op # "list" \/ d.table # t
           /\ \A d \in cs : Changes(d, t) /\ d # c =>
                c.row.id # d.row.id /\ (d.op = "renew" => c.row.id # d.n)
           /\ c.op \in {"create", "renew"} => \A i \in DOMAIN ls[t] : ls[t][i].id # c.n
           /\ c.op = "change" => \E i \in DOMAIN ls[t] : ls[t][i].id = c.row.id
      /\ UniqueIds(ls[t])

FetchesAreTrue(cs, rs, un) ==
    \A c \in cs : c.op = "list" /\ c.table \notin un /\ c.state = "served" =>
        Lists(c.answer, rs[c.table])

\* The list l that a served call makes of a list, for a panel about the key k that
\* leaves out none of the rows W.
Makes(c, l, old, k, W) ==
    \/ /\ c.op = "list"
       /\ \/ k = NoKey /\ l = c.answer
          \/ \E K \in SUBSET DOMAIN c.answer :
               /\ l = Kept(c.answer, K)
               /\ \A i \in K : Matches(k, c.answer[i])
               /\ \A i \in DOMAIN c.answer \ K : c.answer[i] \in W => ~Matches(k, c.answer[i])
    \/ c.op = "create" /\ l = c.answer \o old
    \/ c.op = "renew" /\ l = c.answer \o Without(old, c.row.id)
    \/ c.op = "change" /\ l = Replaced(old, c.row)
    \/ c.op \in {"remove", "approve"} /\ l = Without(old, c.row.id)

CallsInv(cs, n, rs, ls, un) ==
    /\ CallsTyped(cs, n, rs, ls) /\ NewIdsAreNew(cs, n, rs, ls)
    /\ AnswersAreTrue(cs, rs) /\ ChangesAreApart(cs, ls, un) /\ FetchesAreTrue(cs, rs, un)

\* The list, but for the rows that served changes are about, and what these have
\* made, is rows the panel k is about, and all of those in W.
Done(cs, t) == {c \in cs : Changes(c, t) /\ c.state = "served"}

OnList(cs, l, t, k, r) ==
    \/ (\E i \in DOMAIN l : l[i] = r) /\ \A c \in Done(cs, t) : c.row.id # r.id
    \/ \E c \in Done(cs, t) :
         c.op \in {"create", "change", "renew"} /\ r = Made(c) /\ Matches(k, r)

FollowsRows(cs, rs, l, t, k, W) ==
    /\ \A i \in DOMAIN l : Matches(k, l[i])
    /\ \A c \in cs : c.op = "change" /\ c.table = t => Matches(k, c.row)
    /\ \A r \in PanelRow :
         /\ OnList(cs, l, t, k, r) => r \in rs[t] /\ Matches(k, r)
         /\ r \in W /\ r \in rs[t] /\ Matches(k, r) => OnList(cs, l, t, k, r)

Following(cs, rs, ls, un, k, W) ==
    \A t \in Table \ un : FollowsRows(cs, rs, ls[t], t, k, W)

\* Keeping what is at some places of a list is a list of just that, in which
\* each place is found once.
LEMMA KeptRows ==
    ASSUME NEW S, NEW l \in Seq(S), NEW K \in SUBSET DOMAIN l
    PROVE  /\ Kept(l, K) \in Seq(S)
           /\ \A r : (\E k \in DOMAIN Kept(l, K) : Kept(l, K)[k] = r) <=> \E i \in K : l[i] = r
           /\ UniqueIds(l) => UniqueIds(Kept(l, K))
<1>. DEFINE below(i) == {j \in K : j < i}
            rank == [i \in K |-> Cardinality(below(i))]
            N == Cardinality(K)
<1>1. /\ Len(l) \in Nat /\ DOMAIN l = 1..Len(l) /\ l \in [1..Len(l) -> S]
      /\ K \subseteq 1..Len(l)
  BY LenProperties
<1>2. IsFiniteSet(K) /\ N \in Nat
  <2>1. IsFiniteSet(1..Len(l))
    BY <1>1, FS_Interval
  <2>2. IsFiniteSet(K)
    BY <1>1, <2>1, FS_Subset
  <2>. QED  BY <2>2, FS_CardinalityType
<1>3. \A i \in K : IsFiniteSet(below(i)) /\ rank[i] \in 0..(N - 1)
  <2>. SUFFICES ASSUME NEW i \in K PROVE IsFiniteSet(below(i)) /\ rank[i] \in 0..(N - 1)
    OBVIOUS
  <2>1. below(i) \in SUBSET K /\ below(i) # K
    BY <1>1
  <2>2. /\ IsFiniteSet(below(i)) /\ Cardinality(below(i)) <= N
        /\ Cardinality(below(i)) # N
    BY <1>2, <2>1, FS_Subset
  <2>3. Cardinality(below(i)) \in Nat
    BY <2>2, FS_CardinalityType
  <2>4. rank[i] = Cardinality(below(i))
    OBVIOUS
  <2>. HIDE DEF below, rank, N
  <2>. QED  BY <1>2, <2>2, <2>3, <2>4
<1>4. \A i, j \in K : i < j => rank[i] < rank[j]
  <2>. SUFFICES ASSUME NEW i \in K, NEW j \in K, i < j PROVE rank[i] < rank[j]
    OBVIOUS
  <2>1. below(i) \in SUBSET below(j) /\ below(i) # below(j)
    BY <1>1
  <2>2. Cardinality(below(i)) <= Cardinality(below(j)) /\ Cardinality(below(i)) # Cardinality(below(j))
    BY <1>3, <2>1, FS_Subset
  <2>3. Cardinality(below(i)) \in Nat /\ Cardinality(below(j)) \in Nat
    BY <1>3, FS_CardinalityType
  <2>4. rank[i] = Cardinality(below(i)) /\ rank[j] = Cardinality(below(j))
    OBVIOUS
  <2>. HIDE DEF below, rank
  <2>. QED  BY <2>2, <2>3, <2>4
<1>5. \A i, j \in K : rank[i] = rank[j] => i = j
  <2>. SUFFICES ASSUME NEW i \in K, NEW j \in K, rank[i] = rank[j] PROVE i = j
    OBVIOUS
  <2>. HIDE DEF rank, N
  <2>1. i \in Nat /\ j \in Nat
    BY <1>1
  <2>2. /\ rank[i] \in 0..(N - 1) /\ rank[j] \in 0..(N - 1)
        /\ (i < j => rank[i] < rank[j]) /\ (j < i => rank[j] < rank[i])
    BY <1>3, <1>4
  <2>. QED  BY <1>2, <2>1, <2>2
<1>6. \A k \in 1..N : \E i \in K : rank[i] = k - 1
  <2>1. rank \in Injection(K, 0..(N - 1))
    BY <1>3, <1>5 DEF Injection, IsInjective
  <2>2. IsFiniteSet(0..(N - 1)) /\ Cardinality(0..(N - 1)) = N
    <3>1. 0 \in Int /\ N - 1 \in Int /\ (N - 1) - 0 + 1 = N /\ (0 > N - 1 <=> N = 0)
      <4>. HIDE DEF N
      <4>. QED  BY <1>2
    <3>. HIDE DEF N
    <3>. QED  BY <3>1, FS_Interval
  <2>3. rank \in Surjection(K, 0..(N - 1))
    BY <2>1, <2>2, FS_Injection
  <2>. HIDE DEF rank, N
  <2>. QED  BY <1>2, <2>3 DEF Surjection
<1>. DEFINE f == [k \in 1..N |-> Nth(K, k)]
<1>7. \A k \in 1..N : Nth(K, k) \in K /\ rank[Nth(K, k)] = k - 1
  BY <1>6 DEF Nth
<1>8. Kept(l, K) = [k \in 1..N |-> l[Nth(K, k)]]
  BY DEF Kept
<1>. HIDE DEF rank, N
<1>9. Kept(l, K) \in Seq(S)
  BY <1>1, <1>2, <1>7, <1>8
<1>10. \A i \in K : \E k \in 1..N : f[k] = i
  <2>. SUFFICES ASSUME NEW i \in K PROVE \E k \in 1..N : f[k] = i
    OBVIOUS
  <2>1. rank[i] \in 0..(N - 1)
    BY <1>3
  <2>2. \A r \in 0..(N - 1) : r + 1 \in 1..N /\ (r + 1) - 1 = r
    BY <1>2
  <2>3. PICK k \in 1..N : k - 1 = rank[i]
    BY <2>1, <2>2
  <2>4. Nth(K, k) \in K /\ rank[Nth(K, k)] = rank[i]
    BY <1>7, <2>3
  <2>5. f[k] = i
    BY <1>5, <2>4
  <2>. QED  BY <2>5
<1>11. \A j, k \in 1..N : f[j] = f[k] => j = k
  BY <1>2, <1>7
<1>12. /\ DOMAIN Kept(l, K) = 1..N
       /\ \A k \in 1..N : f[k] \in K /\ Kept(l, K)[k] = l[f[k]]
  BY <1>7, <1>8
<1>. HIDE DEF f
<1>13. \A r : (\E k \in DOMAIN Kept(l, K) : Kept(l, K)[k] = r) <=> \E i \in K : l[i] = r
  BY <1>10, <1>12
<1>14. UniqueIds(l) => UniqueIds(Kept(l, K))
  BY <1>11, <1>12 DEF UniqueIds
<1>. QED  BY <1>9, <1>13, <1>14

\* The server serves a call or refuses it.
LEMMA Serving ==
    ASSUME CallsInv(calls, sent, rows, list, unsure), NEW c \in calls, Serve(c) \/ Refuse(c)
    PROVE  /\ CallsInv(calls', sent', rows', list', unsure')
           /\ \A k, W : Following(calls, rows, list, unsure, k, W)
                => Following(calls', rows', list', unsure', k, W)
           /\ \A i : ToCome(i, calls', sent') => ToCome(i, calls, sent)
           /\ \A d \in calls' : \E e \in calls : d.op = e.op /\ d.table = e.table /\ d.tag = e.tag
           /\ unsure \subseteq unsure' /\ UNCHANGED <<sent, list>>
<1>1. /\ CallsTyped(calls, sent, rows, list) /\ NewIdsAreNew(calls, sent, rows, list)
      /\ AnswersAreTrue(calls, rows) /\ ChangesAreApart(calls, list, unsure)
      /\ FetchesAreTrue(calls, rows, unsure)
  BY DEF CallsInv
<1>2. /\ calls \subseteq PanelCall /\ c \in PanelCall /\ c.state = "sent"
      /\ UNCHANGED <<sent, list>> /\ unsure \subseteq unsure'
  BY <1>1 DEF CallsTyped, Serve, Refuse
<1>3. /\ c.n \in Nat /\ c.op \in Op /\ c.table \in Table /\ c.row \in PanelRow
      /\ c.row.id \in Nat /\ c.row.st \in {"open", "closed", "low", "high"}
  BY <1>2 DEF PanelCall, PanelRow
<1>4. /\ AnswerOf(c) \in Seq(PanelRow) /\ Made(c) \in PanelRow
      /\ c.op = "list" => Lists(AnswerOf(c), rows[c.table])
      /\ c.op = "renew" => AnswerOf(c) = <<Made(c)>>
      /\ c.op \notin {"list", "renew"} => AnswerOf(c) = <<c.row>>
  <2>1. Made(c) \in PanelRow
    BY <1>3 DEF Made, PanelRow
  <2>2. CASE c.op = "list"
    <3>. DEFINE rs == rows[c.table]
    <3>1. rs \in SUBSET PanelRow /\ IsFiniteSet(rs) /\ \A r, s \in rs : r.id = s.id => r = s
      BY <1>1, <1>3 DEF CallsTyped
    <3>. HIDE DEF rs
    <3>2. SetToSeq(rs) \in Seq(rs) /\ Lists(SetToSeq(rs), rs)
      <4>1. Cardinality(rs) \in Nat /\ ExistsBijection(1..Cardinality(rs), rs)
        BY <3>1, FS_CardinalityType
      <4>2. PICK g : g \in Bijection(1..Cardinality(rs), rs)
        BY <4>1 DEF ExistsBijection
      <4>3. g \in [1..Cardinality(rs) -> rs] /\ IsInjective(g)
        BY <4>2 DEF Bijection, Injection
      <4>. DEFINE f == SetToSeq(rs)
      <4>4. f \in [1..Cardinality(rs) -> rs] /\ IsInjective(f)
        BY <4>3 DEF SetToSeq
      <4>. HIDE DEF f
      <4>5. f \in Injection(1..Cardinality(rs), rs)
        BY <4>4 DEF Injection
      <4>6. IsFiniteSet(1..Cardinality(rs)) /\ Cardinality(1..Cardinality(rs)) = Cardinality(rs)
        <5>1. 1 \in Int /\ Cardinality(rs) \in Int
              /\ (IF 1 > Cardinality(rs) THEN 0 ELSE Cardinality(rs) - 1 + 1) = Cardinality(rs)
          BY <4>1
        <5>. QED  BY <5>1, FS_Interval
      <4>7. f \in Surjection(1..Cardinality(rs), rs)
        BY <3>1, <4>5, <4>6, FS_Injection
      <4>8. f \in Seq(rs) /\ DOMAIN f = 1..Cardinality(rs)
        BY <4>1, <4>4
      <4>9. {f[i] : i \in DOMAIN f} = rs
        BY <4>4, <4>7, <4>8 DEF Surjection
      <4>10. UniqueIds(f)
        BY <3>1, <4>4, <4>8 DEF UniqueIds, IsInjective
      <4>. QED  BY <4>8, <4>9, <4>10 DEF Lists, f
    <3>. QED  BY <2>1, <2>2, <3>1, <3>2 DEF AnswerOf, rs
  <2>3. CASE c.op # "list"
    BY <1>3, <2>1, <2>3 DEF AnswerOf, Made
  <2>. QED  BY <2>2, <2>3
<1>5. PICK d :
        /\ calls' = (calls \ {c}) \cup {d}
        /\ d \in PanelCall /\ d.n = c.n /\ d.op = c.op /\ d.table = c.table
        /\ d.row = c.row /\ d.tag = c.tag /\ d.alone = c.alone
        /\ \/ d.state = "served" /\ d.answer = AnswerOf(c)
              /\ rows' = [t \in Table |-> Served(c, t)]
           \/ d.state = "failed" /\ d.answer = c.answer
              /\ \/ UNCHANGED rows
                 \/ /\ rows' = [t \in Table |-> Served(c, t)]
                    /\ Alters(c.op) => Tables(c.op, c.table) \subseteq unsure'
  <2>. DEFINE s == [c EXCEPT !.state = "served", !.answer = AnswerOf(c)]
              f == [c EXCEPT !.state = "failed"]
  <2>1. /\ s \in PanelCall /\ s.n = c.n /\ s.op = c.op /\ s.table = c.table /\ s.row = c.row
        /\ s.tag = c.tag /\ s.alone = c.alone /\ s.state = "served" /\ s.answer = AnswerOf(c)
    BY <1>2, <1>4 DEF PanelCall
  <2>2. /\ f \in PanelCall /\ f.n = c.n /\ f.op = c.op /\ f.table = c.table /\ f.row = c.row
        /\ f.tag = c.tag /\ f.alone = c.alone /\ f.state = "failed" /\ f.answer = c.answer
    BY <1>2 DEF PanelCall
  <2>3. \/ calls' = (calls \ {c}) \cup {s} /\ rows' = [t \in Table |-> Served(c, t)]
        \/ /\ calls' = (calls \ {c}) \cup {f}
           /\ \/ UNCHANGED rows
              \/ /\ rows' = [t \in Table |-> Served(c, t)]
                 /\ Alters(c.op) => Tables(c.op, c.table) \subseteq unsure'
    BY DEF Serve, Refuse
  <2>. HIDE DEF s, f
  <2>. QED  BY <2>1, <2>2, <2>3
<1>6. \A t \in Table :
        /\ ~Changes(c, t) => rows'[t] = rows[t]
        /\ Changes(c, t) => \/ rows'[t] = rows[t] /\ (d.state = "served" => t # c.table)
                            \/ t = c.table /\ rows'[t] = Updated(rows[t], c)
                            \/ t # c.table /\ rows'[t] = rows[t] \cup {[id |-> c.n, st |-> "high"]}
        /\ Changes(c, t) /\ d.state = "failed" /\ t \notin unsure' => rows'[t] = rows[t]
  <2>. SUFFICES ASSUME NEW t \in Table
                PROVE  /\ ~Changes(c, t) => rows'[t] = rows[t]
                       /\ Changes(c, t) => 
                            \/ rows'[t] = rows[t] /\ (d.state = "served" => t # c.table)
                            \/ t = c.table /\ rows'[t] = Updated(rows[t], c)
                            \/ t # c.table /\ rows'[t] = rows[t] \cup {[id |-> c.n, st |-> "high"]}
                       /\ Changes(c, t) /\ d.state = "failed" /\ t \notin unsure' => rows'[t] = rows[t]
    OBVIOUS
  <2>1. /\ ~Changes(c, t) => Served(c, t) = rows[t]
        /\ Changes(c, t) /\ t = c.table => Served(c, t) = Updated(rows[t], c)
        /\ Changes(c, t) /\ t # c.table => Served(c, t) = rows[t] \cup {[id |-> c.n, st |-> "high"]}
    BY <1>3 DEF Served, Changes, Updated, Made, Alters, Op
  <2>. QED  BY <1>5, <2>1 DEF Changes

<1>. DEFINE was(e) == IF e = d THEN c ELSE e
<1>7. /\ \A e \in calls' :
           /\ was(e) \in calls /\ was(e).n = e.n /\ was(e).op = e.op /\ was(e).table = e.table
           /\ was(e).row = e.row /\ was(e).tag = e.tag /\ was(e).alone = e.alone
           /\ e # d => was(e) = e /\ e # c
           /\ e.state = "sent" => was(e) = e
           /\ \A t : Changes(e, t) <=> Changes(was(e), t)
      /\ \A e, f \in calls' : was(e) = was(f) => e = f
  BY <1>5 DEF Changes
<1>8. /\ \A i : ToCome(i, calls', sent') => ToCome(i, calls, sent)
      /\ ToCome(c.n, calls, sent) /\ ~ToCome(c.n, calls', sent')
  BY <1>1, <1>2, <1>5, <1>7 DEF ToCome, CallsTyped
<1>9. \A t \in Table : /\ \A r \in rows'[t] : r \in rows[t] \/ r = Made(c) \/ r = [id |-> c.n, st |-> "high"]
                       /\ IsFiniteSet(rows'[t]) /\ \A r, s \in rows'[t] : r.id = s.id => r = s
  <2>. SUFFICES ASSUME NEW t \in Table
                PROVE /\ \A r \in rows'[t] : r \in rows[t] \/ r = Made(c) \/ r = [id |-> c.n, st |-> "high"]
                      /\ IsFiniteSet(rows'[t]) /\ \A r, s \in rows'[t] : r.id = s.id => r = s
    OBVIOUS
  <2>1. IsFiniteSet(rows[t]) /\ (\A r, s \in rows[t] : r.id = s.id => r = s)
        /\ \A r \in rows[t] : r.id # c.n
    BY <1>1, <1>8 DEF CallsTyped, NewIdsAreNew
  <2>2. CASE rows'[t] = rows[t]
    BY <2>1, <2>2
  <2>3. CASE rows'[t] = Updated(rows[t], c)
    <3>. DEFINE R == {r \in rows[t] : r.id # c.row.id}
    <3>1. IsFiniteSet(R) /\ IsFiniteSet(R \cup {Made(c)})
      <4>1. R \in SUBSET rows[t]
        OBVIOUS
      <4>. QED  BY <2>1, <4>1, FS_Subset, FS_AddElement
    <3>2. IsFiniteSet(rows'[t])
      BY <2>3, <3>1 DEF Updated
    <3>3. Made(c).id = c.row.id \/ Made(c).id = c.n
      BY <1>3 DEF Made, PanelRow
    <3>4. \A r \in rows'[t] : (r \in rows[t] /\ r.id # c.row.id) \/ r = Made(c)
      BY <2>3 DEF Updated
    <3>. QED  BY <2>1, <3>2, <3>3, <3>4
  <2>4. CASE rows'[t] = rows[t] \cup {[id |-> c.n, st |-> "high"]}
    <3>1. IsFiniteSet(rows[t] \cup {[id |-> c.n, st |-> "high"]})
      BY <2>1, FS_AddElement
    <3>. QED  BY <2>1, <2>4, <3>1
  <2>. QED  BY <1>6, <2>2, <2>3, <2>4
<1>10. CallsTyped(calls', sent', rows', list')
  <2>1. [id |-> c.n, st |-> "high"] \in PanelRow
    BY <1>3 DEF PanelRow
  <2>2. \A t \in Table : rows'[t] \in SUBSET PanelRow
    BY <1>1, <1>4, <1>9, <2>1 DEF CallsTyped
  <2>3. rows' \in [Table -> SUBSET PanelRow]
    <3>1. rows' = [t \in Table |-> rows'[t]]
      BY <1>1, <1>5 DEF CallsTyped
    <3>. QED  BY <2>2, <3>1
  <2>4. calls' \subseteq PanelCall
    BY <1>2, <1>5
  <2>5. /\ \A e \in calls' : e.n \in 1..sent
        /\ \A e, f \in calls' : e.n = f.n => e = f
    BY <1>1, <1>7 DEF CallsTyped
  <2>. QED  BY <1>1, <1>2, <1>9, <2>3, <2>4, <2>5 DEF CallsTyped
<1>11. NewIdsAreNew(calls', sent', rows', list')
  <2>1. /\ c.op = "create" => c.row.id = c.n
        /\ c.op # "create" => ~ToCome(c.row.id, calls, sent)
    BY <1>1 DEF NewIdsAreNew
  <2>2. ~ToCome(c.row.id, calls', sent') /\ ~ToCome(Made(c).id, calls', sent')
    BY <1>3, <1>8, <2>1 DEF Made, PanelRow
  <2>3. \A t \in Table : \A r \in rows'[t] : ~ToCome(r.id, calls', sent')
    <3>1. [id |-> c.n, st |-> "high"].id = c.n
      OBVIOUS
    <3>. QED  BY <1>1, <1>8, <1>9, <2>2, <3>1 DEF NewIdsAreNew
  <2>4. \A t \in Table : \A i \in DOMAIN list'[t] : ~ToCome(list'[t][i].id, calls', sent')
    BY <1>1, <1>2, <1>8 DEF NewIdsAreNew
  <2>5. ASSUME NEW e \in calls'
        PROVE  IF e.op = "create" THEN e.row.id = e.n ELSE ~ToCome(e.row.id, calls', sent')
    BY <1>1, <1>7, <1>8 DEF NewIdsAreNew
  <2>6. ASSUME NEW e \in calls', NEW i \in DOMAIN e.answer
        PROVE  ~ToCome(e.answer[i].id, calls', sent')
    <3>1. CASE e # d \/ d.answer = c.answer
      BY <1>1, <1>7, <1>8, <3>1 DEF NewIdsAreNew
    <3>2. CASE e = d /\ d.answer = AnswerOf(c)
      <4>1. CASE c.op = "list"
        <5>1. d.answer[i] \in rows[c.table]
          BY <1>4, <2>6, <3>2, <4>1 DEF Lists
        <5>. QED  BY <1>1, <1>3, <1>8, <3>2, <5>1 DEF NewIdsAreNew
      <4>2. CASE c.op # "list"
        BY <1>4, <2>2, <2>6, <3>2, <4>2
      <4>. QED  BY <4>1, <4>2
    <3>. QED  BY <1>5, <3>1, <3>2
  <2>. QED  BY <2>3, <2>4, <2>5, <2>6 DEF NewIdsAreNew
<1>12. AnswersAreTrue(calls', rows')
  <2>1. ASSUME NEW e \in calls', e.op \in {"create", "renew"}, e.state = "served"
        PROVE  e.answer = <<Made(e)>>
    <3>1. CASE e = d
      BY <1>4, <1>5, <2>1, <3>1 DEF Made
    <3>2. CASE e # d
      BY <1>1, <1>7, <2>1, <3>2 DEF AnswersAreTrue
    <3>. QED  BY <3>1, <3>2
  <2>2. ASSUME NEW e \in calls', e.op = "list", e.alone
        PROVE  /\ \A f \in calls' : e.table \in Tables(f.op, f.table) => f = e
               /\ e.state = "served" => Lists(e.answer, rows'[e.table])
    <3>1. \A f \in calls' : e.table \in Tables(f.op, f.table) => f = e
      BY <1>1, <1>7, <2>2 DEF AnswersAreTrue
    <3>2. e.table \in Table /\ ~Changes(c, e.table)
      <4>1. was(e).table \in Table
        BY <1>2, <1>7 DEF PanelCall
      <4>2. d \in calls' /\ was(d) = c
        BY <1>5
      <4>. QED  BY <1>5, <1>7, <2>2, <3>1, <4>1, <4>2 DEF Changes, Alters
    <3>3. rows'[e.table] = rows[e.table]
      BY <1>6, <3>2
    <3>4. CASE e = d
      BY <1>4, <1>5, <2>2, <3>1, <3>3, <3>4
    <3>5. CASE e # d
      BY <1>1, <1>7, <2>2, <3>3, <3>5 DEF AnswersAreTrue
    <3>. QED  BY <3>1, <3>4, <3>5
  <2>. QED  BY <2>1, <2>2 DEF AnswersAreTrue
<1>13. ChangesAreApart(calls', list', unsure')
  <2>. SUFFICES ASSUME NEW t \in Table \ unsure'
                PROVE  /\ \A e \in calls' : Changes(e, t) =>
                            /\ e.table = t
                            /\ \A f \in calls' : f.op # "list" \/ f.table # t
                            /\ \A f \in calls' : Changes(f, t) /\ f # e =>
                                 e.row.id # f.row.id /\ (f.op = "renew" => e.row.id # f.n)
                            /\ e.op \in {"create", "renew"} => \A i \in DOMAIN list[t] : list[t][i].id # e.n
                            /\ e.op = "change" => \E i \in DOMAIN list[t] : list[t][i].id = e.row.id
                       /\ UniqueIds(list[t])
    BY <1>2 DEF ChangesAreApart
  <2>1. t \in Table \ unsure
    BY <1>2
  <2>2. UniqueIds(list[t])
    BY <1>1, <2>1 DEF ChangesAreApart
  <2>3. ASSUME NEW e \in calls', Changes(e, t)
        PROVE  /\ e.table = t
               /\ \A f \in calls' : f.op # "list" \/ f.table # t
               /\ \A f \in calls' : Changes(f, t) /\ f # e =>
                    e.row.id # f.row.id /\ (f.op = "renew" => e.row.id # f.n)
               /\ e.op \in {"create", "renew"} => \A i \in DOMAIN list[t] : list[t][i].id # e.n
               /\ e.op = "change" => \E i \in DOMAIN list[t] : list[t][i].id = e.row.id
    <3>1. was(e) \in calls /\ Changes(was(e), t)
      BY <1>7, <2>3
    <3>2. /\ was(e).table = t
          /\ \A f \in calls : f.op # "list" \/ f.table # t
          /\ \A f \in calls : Changes(f, t) /\ f # was(e) =>
                    was(e).row.id # f.row.id /\ (f.op = "renew" => was(e).row.id # f.n)
          /\ was(e).op \in {"create", "renew"} => \A i \in DOMAIN list[t] : list[t][i].id # was(e).n
          /\ was(e).op = "change" => \E i \in DOMAIN list[t] : list[t][i].id = was(e).row.id
      BY <1>1, <2>1, <3>1 DEF ChangesAreApart
    <3>. HIDE DEF was
    <3>. QED  BY <1>7, <3>2
  <2>. QED  BY <2>2, <2>3
<1>14. FetchesAreTrue(calls', rows', unsure')
  <2>. SUFFICES ASSUME NEW e \in calls', e.op = "list", e.table \notin unsure', e.state = "served"
                PROVE  Lists(e.answer, rows'[e.table])
    BY DEF FetchesAreTrue
  <2>1. e.table \in Table \ unsure /\ was(e) \in calls /\ was(e).table = e.table /\ was(e).op = "list"
    BY <1>2, <1>7 DEF PanelCall
  <2>2. ~Changes(c, e.table)
    BY <1>1, <2>1 DEF ChangesAreApart
  <2>3. rows'[e.table] = rows[e.table]
    BY <1>6, <2>1, <2>2
  <2>4. CASE e = d
    BY <1>4, <1>5, <2>3, <2>4
  <2>5. CASE e # d
    BY <1>1, <1>7, <2>1, <2>3, <2>5 DEF FetchesAreTrue
  <2>. QED  BY <2>4, <2>5
<1>15. ASSUME NEW k, NEW W, Following(calls, rows, list, unsure, k, W)
       PROVE  Following(calls', rows', list', unsure', k, W)
  <2>. SUFFICES ASSUME NEW t \in Table \ unsure'
                PROVE  FollowsRows(calls', rows', list[t], t, k, W)
    BY <1>2 DEF Following
  <2>. DEFINE Old(r) == OnList(calls, list[t], t, k, r)
              New(r) == OnList(calls', list[t], t, k, r)
  <2>1. /\ \A i \in DOMAIN list[t] : Matches(k, list[t][i])
        /\ \A e \in calls : e.op = "change" /\ e.table = t => Matches(k, e.row)
        /\ \A r \in PanelRow : /\ Old(r) => r \in rows[t] /\ Matches(k, r)
                               /\ r \in W /\ r \in rows[t] /\ Matches(k, r) => Old(r)
    BY <1>2, <1>15 DEF Following, FollowsRows
  <2>2. \A e \in calls' : e.op = "change" /\ e.table = t => Matches(k, e.row)
    BY <1>7, <2>1
  <2>3. \A r \in PanelRow : /\ New(r) => r \in rows'[t] /\ Matches(k, r)
                            /\ r \in W /\ r \in rows'[t] /\ Matches(k, r) => New(r)
    <3>1. CASE Changes(c, t) /\ d.state = "served"
      <4>1. c.table = t
        BY <1>1, <1>2, <3>1 DEF ChangesAreApart
      <4>2. rows'[t] = Updated(rows[t], c)
        BY <1>6, <3>1, <4>1
      <4>3. \A e : e \in Done(calls', t) <=> e \in Done(calls, t) \/ e = d
        BY <1>2, <1>5, <3>1 DEF Done, Changes
      <4>4. ASSUME NEW e \in Done(calls, t) PROVE Made(e).id # c.row.id /\ e # d
        <5>1. e \in calls /\ Changes(e, t) /\ e # c /\ e \in PanelCall
          BY <1>2 DEF Done
        <5>2. c.row.id # e.row.id /\ (e.op = "renew" => c.row.id # e.n)
          BY <1>1, <1>2, <3>1, <5>1 DEF ChangesAreApart
        <5>3. Made(e).id = e.row.id \/ (e.op = "renew" /\ Made(e).id = e.n)
          BY <5>1 DEF Made, PanelCall, PanelRow
        <5>4. d.n # e.n
          BY <1>1, <1>5, <5>1 DEF CallsTyped
        <5>. QED  BY <5>2, <5>3, <5>4
      <4>5. Made(d) = Made(c) /\ d.row = c.row /\ d.op = c.op
        BY <1>5 DEF Made
      <4>6. ASSUME NEW r \in PanelRow
            PROVE  /\ New(r) => r \in rows'[t] /\ Matches(k, r)
                   /\ r \in W /\ r \in rows'[t] /\ Matches(k, r) => New(r)
        <5>1. New(r) <=>
                \/ /\ \E i \in DOMAIN list[t] : list[t][i] = r
                   /\ r.id # c.row.id /\ \A e \in Done(calls, t) : e.row.id # r.id
                \/ \E e \in Done(calls, t) :
                     e.op \in {"create", "change", "renew"} /\ r = Made(e) /\ Matches(k, r)
                \/ c.op \in {"create", "change", "renew"} /\ r = Made(c) /\ Matches(k, r)
          BY <4>3, <4>5 DEF OnList
        <5>2. New(r) <=> \/ r.id # c.row.id /\ Old(r)
                         \/ c.op \in {"create", "change", "renew"} /\ r = Made(c) /\ Matches(k, r)
          BY <4>4, <5>1 DEF OnList
        <5>3. r \in rows'[t] <=> \/ r \in rows[t] /\ r.id # c.row.id
                                 \/ c.op \in {"create", "change", "renew"} /\ r = Made(c)
          BY <4>2 DEF Updated
        <5>. HIDE DEF Old, New
        <5>. QED  BY <2>1, <5>2, <5>3
      <4>. QED  BY <4>6
    <3>2. CASE ~(Changes(c, t) /\ d.state = "served")
      <4>1. rows'[t] = rows[t]
        BY <1>5, <1>6, <3>2
      <4>2. Done(calls', t) = Done(calls, t)
        BY <1>2, <1>5, <3>2 DEF Done, Changes
      <4>. QED  BY <2>1, <4>1, <4>2 DEF OnList
    <3>. QED  BY <3>1, <3>2
  <2>. HIDE DEF Old
  <2>. QED  BY <2>1, <2>2, <2>3 DEF FollowsRows
<1>16. \A e \in calls' : \E f \in calls : e.op = f.op /\ e.table = f.table /\ e.tag = f.tag
  BY <1>7
<1>17. CallsInv(calls', sent', rows', list', unsure')
  BY <1>10, <1>11, <1>12, <1>13, <1>14 DEF CallsInv
<1>. QED  BY <1>2, <1>8, <1>15, <1>16, <1>17

\* The page makes a call: about a row of a list, about a new one, or none.
LEMMA Sending ==
    ASSUME NEW kept, NEW rs, NEW ls, NEW un, CallsInv(kept, sent, rs, ls, un),
           NEW op \in Op, NEW table \in Table, NEW row \in PanelRow, NEW tag \in Nat,
           SendWith(kept, op, table, row, tag),
           op # "create" => ~ToCome(row.id, kept, sent),
           NEW un2,
           un \cup Overlaps(kept, op, table, row) \cup (Tables(op, table) \ {table}) \subseteq un2,
           Alters(op) /\ op # "create" /\ table \notin un2
             => \/ \E i \in DOMAIN ls[table] : ls[table][i].id = row.id
                \/ op = "remove" /\ \A c \in kept : c.op # "renew"
    PROVE  /\ CallsInv(calls', sent', rs, ls, un2)
           /\ \A k, W : /\ Following(kept, rs, ls, un, k, W)
                        /\ op = "change" /\ table \notin un2 => Matches(k, row)
                        => Following(calls', rs, ls, un2, k, W)
           /\ \A i : ToCome(i, calls', sent') => ToCome(i, kept, sent)
           /\ \A d \in calls' : \/ d.op = op /\ d.table = table /\ d.tag = tag
                                \/ \E c \in kept : d.op = c.op /\ d.table = c.table /\ d.tag = c.tag
<1>1. /\ CallsTyped(kept, sent, rs, ls) /\ NewIdsAreNew(kept, sent, rs, ls)
      /\ AnswersAreTrue(kept, rs) /\ ChangesAreApart(kept, ls, un)
      /\ FetchesAreTrue(kept, rs, un)
  BY DEF CallsInv
<1>2. /\ kept \subseteq PanelCall /\ sent \in 0..MaxCalls /\ \A c \in kept : c.n \in 1..sent
      /\ \A c, d \in kept : c.n = d.n => c = d
  BY <1>1 DEF CallsTyped
<1>3. sent < MaxCalls /\ sent' = sent + 1
  BY DEF SendWith
<1>4. sent \in Nat /\ sent' \in 1..MaxCalls /\ sent' \notin 1..sent /\ sent' \in Nat
      /\ sent' \in (sent + 1)..MaxCalls /\ \A i \in 1..sent : i \in 1..sent' /\ i \in Nat
  <2>1. MaxCalls \in Nat
    BY BrowserAssumption DEF BrowserAssumption, PanelsAssumption, CallsAssumption
  <2>. QED  BY <1>2, <1>3, <2>1
<1>. DEFINE lone == \A c \in kept : table \notin Tables(c.op, c.table)
            new == NewCall(op, table, row, tag, lone)
            still(c) == c.alone /\ Tables(c.op, c.table) \cap Tables(op, table) = {}
            moved(c) == [c EXCEPT !.alone = still(c)]
<1>5. calls' = {moved(c) : c \in kept} \cup {new}
  BY DEF SendWith
<1>6. /\ new \in PanelCall /\ new.n = sent' /\ new.op = op /\ new.table = table /\ new.tag = tag
      /\ new.state = "sent" /\ new.answer = <<>> /\ new.alone = lone
      /\ IF op = "create" THEN new.row.id = sent' ELSE new.row = row
      /\ new.row = RowOf(op, row)
  <2>. HIDE DEF lone
  <2>1. RowOf(op, row) \in PanelRow
        /\ IF op = "create" THEN RowOf(op, row).id = sent' ELSE RowOf(op, row) = row
    BY <1>3, <1>4 DEF RowOf, PanelRow
  <2>2. lone \in BOOLEAN
    BY DEF lone
  <2>3. <<>> \in Seq(PanelRow)
    OBVIOUS
  <2>. QED  BY <1>3, <1>4, <2>1, <2>2, <2>3 DEF NewCall, PanelCall
<1>7. \A c \in kept : /\ moved(c) \in PanelCall /\ moved(c).n = c.n /\ moved(c).op = c.op
                      /\ moved(c).table = c.table /\ moved(c).row = c.row
                      /\ moved(c).tag = c.tag /\ moved(c).state = c.state
                      /\ moved(c).answer = c.answer /\ moved(c).alone = still(c)
  <2>1. \A c \in kept : still(c) \in BOOLEAN /\ c \in PanelCall
    BY <1>2
  <2>. HIDE DEF still
  <2>. QED  BY <2>1 DEF PanelCall

<1>. HIDE DEF new, moved
<1>8. \A d \in calls' : d = new \/ \E c \in kept : d = moved(c)
  BY <1>5
<1>9. \A i : ToCome(i, calls', sent') => ToCome(i, kept, sent)
  <2>. SUFFICES ASSUME NEW i, ToCome(i, calls', sent') PROVE ToCome(i, kept, sent)
    OBVIOUS
  <2>1. CASE i \in (sent' + 1)..MaxCalls
    <3>1. i \in (sent + 1)..MaxCalls
      BY <1>3, <1>4, <2>1
    <3>. QED  BY <3>1 DEF ToCome
  <2>2. CASE \E c \in calls' : c.state = "sent" /\ c.n = i
    BY <1>4, <1>6, <1>7, <1>8, <2>2 DEF ToCome
  <2>. QED  BY <2>1, <2>2 DEF ToCome
<1>10. CallsTyped(calls', sent', rs, ls)
  <2>1. calls' \subseteq PanelCall
    BY <1>6, <1>7, <1>8
  <2>2. \A d \in calls' : d.n \in 1..sent'
    BY <1>2, <1>4, <1>6, <1>7, <1>8
  <2>3. \A d, e \in calls' : d.n = e.n => d = e
    BY <1>2, <1>4, <1>6, <1>7, <1>8
  <2>4. sent' \in 0..MaxCalls
    BY <1>4
  <2>. QED  BY <1>1, <2>1, <2>2, <2>3, <2>4 DEF CallsTyped
<1>11. NewIdsAreNew(calls', sent', rs, ls)
  <2>1. ASSUME NEW d \in calls'
        PROVE  /\ \A i \in DOMAIN d.answer : ~ToCome(d.answer[i].id, calls', sent')
               /\ IF d.op = "create" THEN d.row.id = d.n ELSE ~ToCome(d.row.id, calls', sent')
    <3>1. CASE d = new
      BY <1>6, <1>9, <3>1
    <3>2. ASSUME NEW c \in kept, d = moved(c)
          PROVE  /\ \A i \in DOMAIN d.answer : ~ToCome(d.answer[i].id, calls', sent')
                 /\ IF d.op = "create" THEN d.row.id = d.n ELSE ~ToCome(d.row.id, calls', sent')
      BY <1>1, <1>7, <1>9, <3>2 DEF NewIdsAreNew
    <3>. QED  BY <1>8, <3>1, <3>2
  <2>. QED  BY <1>1, <1>9, <2>1 DEF NewIdsAreNew
<1>12. AnswersAreTrue(calls', rs)
  <2>1. ASSUME NEW d \in calls', d.op \in {"create", "renew"}, d.state = "served"
        PROVE  d.answer = <<Made(d)>>
    <3>1. PICK c \in kept : d = moved(c)
      BY <1>6, <1>8, <2>1
    <3>2. c.answer = <<Made(c)>>
      BY <1>1, <1>7, <2>1, <3>1 DEF AnswersAreTrue
    <3>. QED  BY <1>7, <3>1, <3>2 DEF Made
  <2>2. ASSUME NEW d \in calls', d.op = "list", d.alone
        PROVE  /\ \A e \in calls' : d.table \in Tables(e.op, e.table) => e = d
               /\ d.state = "served" => Lists(d.answer, rs[d.table])
    <3>1. CASE d = new
      <4>1. lone /\ d.table = table /\ d.state = "sent"
        BY <1>6, <2>2, <3>1
      <4>2. \A c \in kept : d.table \notin Tables(moved(c).op, moved(c).table)
        BY <1>7, <4>1
      <4>. HIDE DEF lone
      <4>. QED  BY <1>8, <3>1, <4>1, <4>2
    <3>2. ASSUME NEW c \in kept, d = moved(c)
          PROVE  /\ \A e \in calls' : d.table \in Tables(e.op, e.table) => e = d
                 /\ d.state = "served" => Lists(d.answer, rs[d.table])
      <4>1. c.alone /\ Tables(c.op, c.table) \cap Tables(op, table) = {} /\ c.op = "list"
            /\ c.table = d.table /\ c.state = d.state /\ c.answer = d.answer
        BY <1>7, <2>2, <3>2
      <4>2. d.table \notin Tables(op, table)
        BY <4>1 DEF Tables
      <4>3. \A e \in kept : d.table \in Tables(e.op, e.table) => e = c
        BY <1>1, <4>1 DEF AnswersAreTrue
      <4>4. \A e \in calls' : d.table \in Tables(e.op, e.table) => e = d
        BY <1>6, <1>7, <1>8, <3>2, <4>2, <4>3
      <4>. QED  BY <1>1, <4>1, <4>4 DEF AnswersAreTrue
    <3>. QED  BY <1>8, <3>1, <3>2
  <2>. QED  BY <2>1, <2>2 DEF AnswersAreTrue
<1>13. FetchesAreTrue(calls', rs, un2)
  <2>. SUFFICES ASSUME NEW d \in calls', d.op = "list", d.table \notin un2, d.state = "served"
                PROVE  Lists(d.answer, rs[d.table])
    BY DEF FetchesAreTrue
  <2>1. PICK c \in kept : d = moved(c)
    BY <1>6, <1>8
  <2>. QED  BY <1>1, <1>7, <2>1 DEF FetchesAreTrue
<1>14. \A t : Changes(new, t) <=> Alters(op) /\ t \in Tables(op, table)
  BY <1>6 DEF Changes
<1>15. \A c \in kept : \A t : Changes(moved(c), t) <=> Changes(c, t)
  BY <1>7 DEF Changes
<1>16. ChangesAreApart(calls', ls, un2)
  <2>. SUFFICES ASSUME NEW t \in Table \ un2
                PROVE  /\ \A e \in calls' : Changes(e, t) =>
                            /\ e.table = t
                            /\ \A f \in calls' : f.op # "list" \/ f.table # t
                            /\ \A f \in calls' : Changes(f, t) /\ f # e =>
                                 e.row.id # f.row.id /\ (f.op = "renew" => e.row.id # f.n)
                            /\ e.op \in {"create", "renew"} => \A i \in DOMAIN ls[t] : ls[t][i].id # e.n
                            /\ e.op = "change" => \E i \in DOMAIN ls[t] : ls[t][i].id = e.row.id
                       /\ UniqueIds(ls[t])
    BY DEF ChangesAreApart
  <2>1. t \in Table \ un
    OBVIOUS
  <2>2. /\ UniqueIds(ls[t])
        /\ \A e \in kept : Changes(e, t) =>
             /\ e.table = t
             /\ \A f \in kept : f.op # "list" \/ f.table # t
             /\ \A f \in kept : Changes(f, t) /\ f # e =>
                  e.row.id # f.row.id /\ (f.op = "renew" => e.row.id # f.n)
             /\ e.op \in {"create", "renew"} => \A i \in DOMAIN ls[t] : ls[t][i].id # e.n
             /\ e.op = "change" => \E i \in DOMAIN ls[t] : ls[t][i].id = e.row.id
    BY <1>1, <2>1 DEF ChangesAreApart
  \* What the new call does not overlap.
  <2>3. ASSUME NEW c \in kept, t \in Tables(op, table), t \in Tables(c.op, c.table)
        PROVE  /\ Alters(op) <=> Alters(c.op)
               /\ Alters(op) => RowOf(op, row).id # c.row.id
    BY <2>3 DEF Overlaps
  <2>4. t \in Tables(op, table) => t = table
    OBVIOUS
  <2>5. \A c \in kept : c.op = "list" => Tables(c.op, c.table) = {c.table} /\ ~Alters(c.op)
    BY DEF Tables, Alters
  <2>6. op = "list" => Tables(op, table) = {table} /\ ~Alters(op)
    BY DEF Tables, Alters
  <2>7. ASSUME NEW e \in calls', Changes(e, t)
        PROVE  e.table = t /\ \A f \in calls' : f.op # "list" \/ f.table # t
    <3>1. CASE e = new
      <4>1. t \in Tables(op, table) /\ t = table /\ Alters(op)
        BY <1>14, <2>4, <2>7, <3>1
      <4>2. \A c \in kept : c.op # "list" \/ c.table # t
        BY <2>3, <2>5, <4>1
      <4>. QED  BY <1>6, <1>7, <1>8, <2>6, <3>1, <4>1, <4>2
    <3>2. ASSUME NEW c \in kept, e = moved(c)
          PROVE  e.table = t /\ \A f \in calls' : f.op # "list" \/ f.table # t
      <4>1. Changes(c, t)
        BY <1>15, <2>7, <3>2
      <4>2. e.table = t /\ \A f \in kept : f.op # "list" \/ f.table # t
        BY <1>7, <2>2, <3>2, <4>1
      <4>3. op # "list" \/ table # t
        BY <2>3, <2>6, <4>1 DEF Changes
      <4>. QED  BY <1>6, <1>7, <1>8, <4>2, <4>3
    <3>. QED  BY <1>8, <3>1, <3>2
  <2>8. ASSUME NEW e \in calls', Changes(e, t)
        PROVE  /\ e.op \in {"create", "renew"} => \A i \in DOMAIN ls[t] : ls[t][i].id # e.n
               /\ e.op = "change" => \E i \in DOMAIN ls[t] : ls[t][i].id = e.row.id
    <3>1. CASE e = new
      <4>1. t = table /\ Alters(op)
        BY <1>14, <2>4, <2>8, <3>1
      <4>2. \A i \in DOMAIN ls[t] : ls[t][i].id # sent'
        BY <1>1, <1>4 DEF NewIdsAreNew, ToCome
      <4>. QED  BY <1>6, <3>1, <4>1, <4>2
    <3>2. ASSUME NEW c \in kept, e = moved(c)
          PROVE  /\ e.op \in {"create", "renew"} => \A i \in DOMAIN ls[t] : ls[t][i].id # e.n
                 /\ e.op = "change" => \E i \in DOMAIN ls[t] : ls[t][i].id = e.row.id
      <4>1. Changes(c, t)
        BY <1>15, <2>8, <3>2
      <4>. QED  BY <1>7, <2>2, <3>2, <4>1
    <3>. QED  BY <1>8, <3>1, <3>2
  <2>9. ASSUME NEW e \in calls', Changes(e, t), NEW f \in calls', Changes(f, t), f # e
        PROVE  e.row.id # f.row.id /\ (f.op = "renew" => e.row.id # f.n)
    <3>1. ASSUME NEW c \in kept, e = moved(c), NEW d \in kept, f = moved(d)
          PROVE  e.row.id # f.row.id /\ (f.op = "renew" => e.row.id # f.n)
      <4>1. Changes(c, t) /\ Changes(d, t) /\ c # d
        BY <1>15, <2>9, <3>1
      <4>2. c.row.id # d.row.id /\ (d.op = "renew" => c.row.id # d.n)
        BY <2>2, <4>1
      <4>. QED  BY <1>7, <3>1, <4>2
    <3>2. ASSUME NEW c \in kept, e = moved(c), f = new
          PROVE  e.row.id # f.row.id /\ (f.op = "renew" => e.row.id # f.n)
      <4>1. Changes(c, t) /\ Alters(op) /\ t \in Tables(op, table)
        BY <1>14, <1>15, <2>9, <3>2
      <4>2. RowOf(op, row).id # c.row.id
        BY <2>3, <4>1 DEF Changes
      <4>3. c.row.id # sent'
        BY <1>1, <1>2, <1>4 DEF NewIdsAreNew, ToCome
      <4>. QED  BY <1>6, <1>7, <3>2, <4>2, <4>3
    <3>3. ASSUME NEW d \in kept, f = moved(d), e = new
          PROVE  e.row.id # f.row.id /\ (f.op = "renew" => e.row.id # f.n)
      <4>1. Changes(d, t) /\ Alters(op) /\ t \in Tables(op, table) /\ t = table
        BY <1>14, <1>15, <2>4, <2>9, <3>3
      <4>2. RowOf(op, row).id # d.row.id
        BY <2>3, <4>1 DEF Changes
      <4>3. CASE op = "create"
        <5>1. sent' # d.n
          BY <1>2, <1>4
        <5>. QED  BY <1>6, <1>7, <3>3, <4>2, <4>3, <5>1
      <4>4. CASE op # "create" /\ d.op = "renew"
        <5>1. \A i \in DOMAIN ls[t] : ls[t][i].id # d.n
          BY <2>2, <4>1, <4>4
        <5>2. row.id # d.n
          BY <4>1, <4>4, <5>1
        <5>. QED  BY <1>6, <1>7, <3>3, <4>2, <4>4, <5>2
      <4>5. CASE op # "create" /\ d.op # "renew"
        BY <1>6, <1>7, <3>3, <4>2, <4>5
      <4>. QED  BY <4>3, <4>4, <4>5
    <3>. QED  BY <1>8, <2>9, <3>1, <3>2, <3>3
  <2>. QED  BY <2>2, <2>7, <2>8, <2>9
<1>17. ASSUME NEW k, NEW W, Following(kept, rs, ls, un, k, W),
              op = "change" /\ table \notin un2 => Matches(k, row)
       PROVE  Following(calls', rs, ls, un2, k, W)
  <2>. SUFFICES ASSUME NEW t \in Table \ un2
                PROVE  FollowsRows(calls', rs, ls[t], t, k, W)
    BY DEF Following
  <2>1. FollowsRows(kept, rs, ls[t], t, k, W)
    BY <1>17 DEF Following
  <2>2. \A e \in calls' : e.op = "change" /\ e.table = t => Matches(k, e.row)
    BY <1>6, <1>7, <1>8, <1>17, <2>1 DEF FollowsRows
  <2>3. \A c \in kept : moved(c) \in calls' /\ (moved(c) \in Done(calls', t) <=> c \in Done(kept, t))
    BY <1>5, <1>7, <1>15 DEF Done
  <2>4. \A d \in Done(calls', t) : \E c \in Done(kept, t) : d = moved(c)
    BY <1>6, <1>8, <2>3 DEF Done
  <2>5. \A c \in Done(kept, t) : c \in kept /\ Made(moved(c)) = Made(c) /\ moved(c).row = c.row
                                 /\ moved(c).op = c.op
    BY <1>7 DEF Made, Done
  <2>6. ASSUME NEW r \in PanelRow
        PROVE  OnList(calls', ls[t], t, k, r) <=> OnList(kept, ls[t], t, k, r)
    <3>1. (\A c \in Done(calls', t) : c.row.id # r.id)
            <=> \A c \in Done(kept, t) : c.row.id # r.id
      BY <2>3, <2>4, <2>5
    <3>2. (\E c \in Done(calls', t) :
             c.op \in {"create", "change", "renew"} /\ r = Made(c) /\ Matches(k, r))
            <=> \E c \in Done(kept, t) :
                  c.op \in {"create", "change", "renew"} /\ r = Made(c) /\ Matches(k, r)
      BY <2>3, <2>4, <2>5
    <3>. QED  BY <3>1, <3>2 DEF OnList
  <2>. QED  BY <2>1, <2>2, <2>6 DEF FollowsRows
<1>18. \A d \in calls' : \/ d.op = op /\ d.table = table /\ d.tag = tag
                         \/ \E c \in kept : d.op = c.op /\ d.table = c.table /\ d.tag = c.tag
  BY <1>6, <1>7, <1>8
<1>19. CallsInv(calls', sent', rs, ls, un2)
  BY <1>10, <1>11, <1>12, <1>13, <1>16 DEF CallsInv
<1>. QED  BY <1>9, <1>17, <1>18, <1>19

\* The page handles an answer, or leaves the list as it is.
LEMMA Answering ==
    ASSUME NEW cs, NEW n, NEW rs, NEW ls, NEW un, CallsInv(cs, n, rs, ls, un),
           NEW c \in cs, NEW l, NEW un2, NEW k2, NEW W2,
           \/ c.state = "served" /\ Makes(c, l, ls[c.table], k2, W2) /\ un2 = un \ Sure(c)
           \/ c.op = "list" /\ l = <<>> /\ un2 = un
           \/ l = ls[c.table] /\ un2 = un
    PROVE  /\ CallsInv(cs \ {c}, n, rs, [ls EXCEPT ![c.table] = l], un2)
           /\ \A k, W : \/ /\ c.state = "served" /\ c.op = "list" /\ Makes(c, l, ls[c.table], k2, W2)
                           /\ un2 = un \ Sure(c) /\ Table \ {c.table} \subseteq un
                        \/ /\ Following(cs, rs, ls, un, k, W) /\ k2 = k /\ W2 = W
                           /\ \/ /\ c.state = "served" /\ Makes(c, l, ls[c.table], k2, W2)
                                 /\ un2 = un \ Sure(c)
                                 /\ c.op \in {"create", "renew"} => Matches(k, Made(c))
                              \/ /\ l = ls[c.table] /\ un2 = un
                                 /\ c.state = "served" => ~Alters(c.op) \/ c.table \in un
                        => Following(cs \ {c}, rs, [ls EXCEPT ![c.table] = l], un2, k2, W2)
           /\ \A i : ToCome(i, cs \ {c}, n) => ToCome(i, cs, n)
<1>. DEFINE t == c.table
            old == ls[t]
            In(r, s) == \E i \in DOMAIN s : s[i] = r
<1>1. /\ CallsTyped(cs, n, rs, ls) /\ NewIdsAreNew(cs, n, rs, ls)
      /\ AnswersAreTrue(cs, rs) /\ ChangesAreApart(cs, ls, un)
      /\ FetchesAreTrue(cs, rs, un)
  BY DEF CallsInv
<1>2. /\ c \in PanelCall /\ t \in Table /\ old \in Seq(PanelRow) /\ c.answer \in Seq(PanelRow)
      /\ c.row \in PanelRow /\ c.row.id \in Nat /\ c.n \in Nat /\ Made(c) \in PanelRow
      /\ ls \in [Table -> Seq(PanelRow)] /\ c.op \in Op
  BY <1>1 DEF CallsTyped, PanelCall, Made, PanelRow
<1>3. \A i : ToCome(i, cs \ {c}, n) => ToCome(i, cs, n)
  BY DEF ToCome
\* The operators on lists.
<1>4. ASSUME NEW s \in Seq(PanelRow), NEW K \in SUBSET DOMAIN s
      PROVE  /\ Kept(s, K) \in Seq(PanelRow)
             /\ \A r : In(r, Kept(s, K)) <=> \E i \in K : s[i] = r
             /\ UniqueIds(s) => UniqueIds(Kept(s, K))
  BY KeptRows
<1>5. /\ Without(old, c.row.id) \in Seq(PanelRow)
      /\ \A r : In(r, Without(old, c.row.id)) <=> In(r, old) /\ r.id # c.row.id
      /\ UniqueIds(old) => UniqueIds(Without(old, c.row.id))
  <2>. DEFINE K == {i \in DOMAIN old : old[i].id # c.row.id}
  <2>1. Without(old, c.row.id) = Kept(old, K)
    BY DEF Without
  <2>2. K \in SUBSET DOMAIN old /\ \A r : (\E i \in K : old[i] = r) <=> In(r, old) /\ r.id # c.row.id
    OBVIOUS
  <2>. HIDE DEF K, old
  <2>3. /\ Kept(old, K) \in Seq(PanelRow)
        /\ \A r : In(r, Kept(old, K)) <=> \E i \in K : old[i] = r
        /\ UniqueIds(old) => UniqueIds(Kept(old, K))
    BY <1>2, <1>4, <2>2
  <2>. QED  BY <2>1, <2>2, <2>3
<1>6. LET v == Replaced(old, c.row)
      IN  /\ v \in Seq(PanelRow)
          /\ UniqueIds(old) => UniqueIds(v)
          /\ \A r : In(r, v) => In(r, old) \/ r = c.row
          /\ (\E i \in DOMAIN old : old[i].id = c.row.id)
               => \A r : In(r, v) <=> (In(r, old) /\ r.id # c.row.id) \/ r = c.row
  <2>. DEFINE v == Replaced(old, c.row)
  <2>1. /\ DOMAIN v = DOMAIN old /\ \A i \in DOMAIN old : v[i] \in PanelRow
        /\ \A i \in DOMAIN old : v[i] = IF old[i].id = c.row.id THEN c.row ELSE old[i]
    BY <1>2 DEF Replaced
  <2>2. v \in Seq(PanelRow)
    <3>1. v = [i \in 1..Len(old) |-> v[i]] /\ Len(old) \in Nat /\ DOMAIN old = 1..Len(old)
      BY <1>2, <2>1 DEF Replaced
    <3>. QED  BY <2>1, <3>1
  <2>. HIDE DEF v, old
  <2>3. UniqueIds(old) => UniqueIds(v)
    BY <2>1 DEF UniqueIds
  <2>. QED  BY <2>1, <2>2, <2>3 DEF v
<1>7. ASSUME NEW s \in Seq(PanelRow), NEW m \in PanelRow
      PROVE  /\ <<m>> \o s \in Seq(PanelRow)
             /\ \A r : In(r, <<m>> \o s) <=> r = m \/ In(r, s)
             /\ UniqueIds(s) /\ (\A r : In(r, s) => r.id # m.id) => UniqueIds(<<m>> \o s)
  <2>. DEFINE v == <<m>> \o s
  <2>1. /\ v \in Seq(PanelRow) /\ Len(s) \in Nat /\ DOMAIN s = 1..Len(s)
        /\ DOMAIN v = 1..(Len(s) + 1) /\ v[1] = m /\ \A i \in 1..Len(s) : v[i + 1] = s[i]
    OBVIOUS
  <2>2. \A i \in DOMAIN v : i = 1 \/ \E j \in DOMAIN s : i = j + 1 /\ v[i] = s[j]
    <3>1. \A i \in 1..(Len(s) + 1) : i = 1 \/ (i - 1 \in 1..Len(s) /\ i = (i - 1) + 1)
      BY <2>1
    <3>. QED  BY <2>1, <3>1
  <2>3. 1 \in DOMAIN v /\ \A j \in DOMAIN s : j + 1 \in DOMAIN v
    BY <2>1
  <2>. HIDE DEF v
  <2>4. \A r : In(r, v) <=> r = m \/ In(r, s)
    BY <2>1, <2>2, <2>3
  <2>5. ASSUME UniqueIds(s), \A r : In(r, s) => r.id # m.id PROVE UniqueIds(v)
    <3>1. \A k \in DOMAIN s : s[k].id # m.id
      BY <2>5
    <3>2. ASSUME NEW i \in DOMAIN v, NEW j \in DOMAIN v, v[i].id = v[j].id PROVE i = j
      <4>1. CASE i = 1 \/ j = 1
        BY <2>1, <2>2, <3>1, <3>2, <4>1
      <4>2. CASE i # 1 /\ j # 1
        <5>1. PICK a \in DOMAIN s, b \in DOMAIN s : i = a + 1 /\ v[i] = s[a] /\ j = b + 1 /\ v[j] = s[b]
          BY <2>2, <4>2
        <5>. QED  BY <2>5, <3>2, <5>1 DEF UniqueIds
      <4>. QED  BY <4>1, <4>2
    <3>. QED  BY <3>2 DEF UniqueIds
  <2>. QED  BY <2>1, <2>4, <2>5 DEF v

\* What the list becomes, as a set.
<1>8. ASSUME c.state = "served", c.op = "list", Makes(c, l, old, k2, W2)
      PROVE  /\ l \in Seq(PanelRow)
             /\ \A r : In(r, l) => In(r, c.answer) /\ Matches(k2, r)
             /\ \A r : r \in W2 /\ In(r, c.answer) /\ Matches(k2, r) => In(r, l)
             /\ UniqueIds(c.answer) => UniqueIds(l)
  <2>1. CASE k2 = NoKey /\ l = c.answer
    BY <1>2, <2>1 DEF Matches, NoKey
  <2>2. CASE \E K \in SUBSET DOMAIN c.answer :
               /\ l = Kept(c.answer, K)
               /\ \A i \in K : Matches(k2, c.answer[i])
               /\ \A i \in DOMAIN c.answer \ K : c.answer[i] \in W2 => ~Matches(k2, c.answer[i])
    <3>1. PICK K \in SUBSET DOMAIN c.answer :
               /\ l = Kept(c.answer, K)
               /\ \A i \in K : Matches(k2, c.answer[i])
               /\ \A i \in DOMAIN c.answer \ K : c.answer[i] \in W2 => ~Matches(k2, c.answer[i])
      BY <2>2
    <3>2. /\ Kept(c.answer, K) \in Seq(PanelRow)
          /\ \A r : In(r, Kept(c.answer, K)) <=> \E i \in K : c.answer[i] = r
          /\ UniqueIds(c.answer) => UniqueIds(Kept(c.answer, K))
      BY <1>2, <1>4
    <3>. PICK a : a = c.answer
      OBVIOUS
    <3>3. \A r : (\E i \in K : a[i] = r) => In(r, a) /\ Matches(k2, r)
      BY <3>1
    <3>4. \A r : r \in W2 /\ In(r, a) /\ Matches(k2, r) => \E i \in K : a[i] = r
      BY <3>1
    <3>. HIDE DEF In
    <3>. QED  BY <3>1, <3>2, <3>3, <3>4
  <2>. QED  BY <1>8, <2>1, <2>2 DEF Makes
<1>9. ASSUME c.state = "served", c.op # "list", Makes(c, l, old, k2, W2)
      PROVE  /\ l \in Seq(PanelRow) /\ \A r : In(r, l) => In(r, old) \/ r = Made(c)
             /\ t \notin un => /\ UniqueIds(l)
                               /\ \A r : In(r, l) <=> \/ In(r, old) /\ r.id # c.row.id
                                                      \/ c.op \in {"create", "change", "renew"}
                                                         /\ r = Made(c)
             /\ t \notin un => Changes(c, t)
  <2>1. /\ c.op \in {"create", "renew"} => c.answer = <<Made(c)>>
        /\ c.op = "create" => c.row.id = c.n
        /\ c.op # "renew" => Made(c) = c.row
        /\ Made(c).id = IF c.op = "renew" THEN c.n ELSE c.row.id
    BY <1>1, <1>2, <1>9 DEF AnswersAreTrue, NewIdsAreNew, Made, PanelRow
  <2>2. c.op # "ask" /\ Changes(c, t)
    BY <1>9 DEF Makes, Changes, Alters, Tables
  <2>3. t \notin un => /\ UniqueIds(old)
                       /\ c.op \in {"create", "renew"} => \A r : In(r, old) => r.id # c.n
                       /\ c.op = "change" => \E i \in DOMAIN old : old[i].id = c.row.id
    BY <1>1, <1>2, <2>2 DEF ChangesAreApart
  <2>. HIDE DEF old
  <2>4. CASE c.op = "create" /\ l = c.answer \o old
    <3>1. /\ <<Made(c)>> \o old \in Seq(PanelRow)
          /\ \A r : In(r, <<Made(c)>> \o old) <=> r = Made(c) \/ In(r, old)
          /\ UniqueIds(old) /\ (\A r : In(r, old) => r.id # Made(c).id)
               => UniqueIds(<<Made(c)>> \o old)
      BY <1>2, <1>7
    <3>2. l = <<Made(c)>> \o old
      BY <2>1, <2>4
    <3>. HIDE DEF In
    <3>. QED  BY <2>1, <2>2, <2>3, <2>4, <3>1, <3>2
  <2>5. CASE c.op = "renew" /\ l = c.answer \o Without(old, c.row.id)
    <3>. DEFINE w == Without(old, c.row.id)
    <3>1. w \in Seq(PanelRow) /\ (UniqueIds(old) => UniqueIds(w))
          /\ \A r : In(r, w) <=> In(r, old) /\ r.id # c.row.id
      BY <1>5
    <3>2. l = <<Made(c)>> \o w
      BY <2>1, <2>5
    <3>. HIDE DEF w
    <3>3. /\ <<Made(c)>> \o w \in Seq(PanelRow)
          /\ \A r : In(r, <<Made(c)>> \o w) <=> r = Made(c) \/ In(r, w)
          /\ UniqueIds(w) /\ (\A r : In(r, w) => r.id # Made(c).id) => UniqueIds(<<Made(c)>> \o w)
      BY <1>2, <1>7, <3>1
    <3>. HIDE DEF In
    <3>4. t \notin un => UniqueIds(l)
      BY <2>1, <2>3, <2>5, <3>1, <3>2, <3>3
    <3>. QED  BY <2>2, <2>5, <3>1, <3>2, <3>3, <3>4
  <2>6. CASE c.op = "change" /\ l = Replaced(old, c.row)
    BY <1>6, <2>1, <2>2, <2>3, <2>6
  <2>7. CASE c.op \in {"remove", "approve"} /\ l = Without(old, c.row.id)
    BY <1>5, <2>2, <2>3, <2>7
  <2>. QED  BY <1>9, <2>4, <2>5, <2>6, <2>7 DEF Makes, old
<1>. HIDE DEF In

\* Which tables are not off.
<1>10. /\ un \ {t} \subseteq un2 /\ un2 \subseteq un
       /\ t \in un /\ t \notin un2 => /\ c.op = "list" /\ c.alone /\ c.state = "served"
                                      /\ \A d \in cs \ {c} : t \notin Tables(d.op, d.table)
       /\ t \notin un /\ c.op = "list" => \A d \in cs : ~Changes(d, t)
       /\ \A u \in Table \ un : Changes(c, u) => u = t
  <2>1. Sure(c) \subseteq {t} /\ (Sure(c) # {} => c.op = "list" /\ c.alone /\ c.state = "served")
    BY DEF Sure
  <2>2. c.op = "list" /\ c.alone => \A d \in cs : t \in Tables(d.op, d.table) => d = c
    BY <1>1 DEF AnswersAreTrue
  <2>3. t \notin un /\ c.op = "list" => \A d \in cs : ~Changes(d, t)
    BY <1>1, <1>2 DEF ChangesAreApart
  <2>4. \A u \in Table \ un : Changes(c, u) => u = t
    BY <1>1 DEF ChangesAreApart
  <2>5. un2 = un \/ un2 = un \ Sure(c)
    OBVIOUS
  <2>. HIDE DEF t
  <2>. QED  BY <2>1, <2>2, <2>3, <2>4, <2>5
<1>11. /\ l \in Seq(PanelRow)
       /\ \A r : In(r, l) => ~ToCome(r.id, cs \ {c}, n)
       /\ t \notin un2 => UniqueIds(l)
       /\ t \notin un2 => \A d \in cs \ {c} : Changes(d, t) =>
            /\ t \notin un
            /\ d.op \in {"create", "renew"} => \A r : In(r, l) => r.id # d.n
            /\ d.op = "change" => \E r : In(r, l) /\ r.id = d.row.id
  <2>1. /\ \A r : In(r, old) => ~ToCome(r.id, cs \ {c}, n)
        /\ \A r : In(r, c.answer) => ~ToCome(r.id, cs \ {c}, n)
        /\ c.op # "create" => ~ToCome(c.row.id, cs \ {c}, n)
    BY <1>1, <1>2, <1>3 DEF NewIdsAreNew, In
  <2>2. t \notin un => UniqueIds(old) /\ \A d \in cs : Changes(d, t) =>
            /\ d.op \in {"create", "renew"} => \A r : In(r, old) => r.id # d.n
            /\ d.op = "change" => \E r : In(r, old) /\ r.id = d.row.id
            /\ \A e \in cs : Changes(e, t) /\ e # d => 
                 e.row.id # d.row.id /\ (d.op = "renew" => e.row.id # d.n)
    BY <1>1, <1>2 DEF ChangesAreApart, In
  <2>3. t \notin un2 => \A d \in cs \ {c} : Changes(d, t) => t \notin un
    BY <1>10 DEF Changes
  <2>4. CASE l = old /\ un2 = un
    BY <1>2, <2>1, <2>2, <2>4
  <2>5. CASE c.op = "list" /\ l = <<>> /\ un2 = un
    <3>1. l \in Seq(PanelRow) /\ UniqueIds(l) /\ \A r : ~In(r, l)
      BY <2>5 DEF UniqueIds, In
    <3>. QED  BY <1>10, <2>5, <3>1
  <2>6. CASE c.state = "served" /\ c.op = "list" /\ Makes(c, l, old, k2, W2) /\ un2 = un \ Sure(c)
    <3>1. t \notin un2 => UniqueIds(c.answer)
      <4>1. t \notin un2 => Lists(c.answer, rs[t])
        BY <1>1, <1>2, <1>10, <2>6 DEF FetchesAreTrue, AnswersAreTrue
      <4>. QED  BY <4>1 DEF Lists
    <3>2. t \notin un2 => \A d \in cs \ {c} : ~Changes(d, t)
      BY <1>10, <2>6 DEF Changes
    <3>. QED  BY <1>8, <2>1, <2>6, <3>1, <3>2
  <2>7. CASE c.state = "served" /\ c.op # "list" /\ Makes(c, l, old, k2, W2) /\ un2 = un \ Sure(c)
    <3>1. un2 = un
      BY <2>7 DEF Sure
    <3>2. ~ToCome(Made(c).id, cs \ {c}, n)
      <4>1. ~ToCome(c.n, cs \ {c}, n)
        BY <1>1, <2>7 DEF CallsTyped, ToCome
      <4>2. Made(c).id \in {c.n, c.row.id}
        BY <1>2 DEF Made, PanelRow
      <4>3. c.op = "create" => c.row.id = c.n
        BY <1>1 DEF NewIdsAreNew
      <4>. QED  BY <2>1, <4>1, <4>2, <4>3
    <3>3. \A r : In(r, l) => ~ToCome(r.id, cs \ {c}, n)
      BY <1>9, <2>1, <2>7, <3>2
    <3>4. ASSUME t \notin un2, NEW d \in cs \ {c}, Changes(d, t)
          PROVE  /\ d.op \in {"create", "renew"} => \A r : In(r, l) => r.id # d.n
                 /\ d.op = "change" => \E r : In(r, l) /\ r.id = d.row.id
      <4>1. Changes(c, t) /\ \A r : In(r, l) => In(r, old) \/ r = Made(c)
        BY <1>9, <2>7, <3>1, <3>4
      <4>2. /\ c.row.id # d.row.id /\ (d.op = "renew" => c.row.id # d.n)
            /\ d.row.id # c.row.id /\ (c.op = "renew" => d.row.id # c.n)
        BY <2>2, <3>1, <3>4, <4>1
      <4>3. c.n # d.n
        BY <1>1, <3>4 DEF CallsTyped
      <4>4. /\ Made(c).id = IF c.op = "renew" THEN c.n ELSE c.row.id
            /\ c.op = "create" => c.row.id = c.n
            /\ d.op = "create" => d.row.id = d.n
        BY <1>1, <1>2, <3>4 DEF Made, PanelRow, NewIdsAreNew
      <4>5. d.op \in {"create", "renew"} => Made(c).id # d.n
        BY <4>2, <4>3, <4>4
      <4>6. d.op \in {"create", "renew"} => \A r : In(r, l) => r.id # d.n
        BY <2>2, <3>1, <3>4, <4>1, <4>5
      <4>7. d.op = "change" => \E r : In(r, l) /\ r.id = d.row.id
        BY <1>9, <2>2, <2>7, <3>1, <3>4, <4>2
      <4>. QED  BY <4>6, <4>7
    <3>. QED  BY <1>9, <2>3, <2>7, <3>1, <3>3, <3>4
  <2>. HIDE DEF t
  <2>. QED  BY <2>4, <2>5, <2>6, <2>7 DEF t
<1>. DEFINE ls2 == [ls EXCEPT ![t] = l]
<1>12. /\ ls2 \in [Table -> Seq(PanelRow)] /\ ls2[t] = l
       /\ \A u \in Table : u # t => ls2[u] = ls[u]
  BY <1>2, <1>11
<1>. HIDE DEF ls2
<1>13. CallsInv(cs \ {c}, n, rs, ls2, un2)
  <2>1. CallsTyped(cs \ {c}, n, rs, ls2)
    BY <1>1, <1>12 DEF CallsTyped
  <2>2. NewIdsAreNew(cs \ {c}, n, rs, ls2)
    <3>1. ASSUME NEW u \in Table, NEW i \in DOMAIN ls2[u] PROVE ~ToCome(ls2[u][i].id, cs \ {c}, n)
      <4>1. CASE u = t
        BY <1>11, <1>12, <3>1, <4>1 DEF In
      <4>2. CASE u # t
        BY <1>1, <1>3, <1>12, <3>1, <4>2 DEF NewIdsAreNew
      <4>. QED  BY <4>1, <4>2
    <3>. QED  BY <1>1, <1>3, <3>1 DEF NewIdsAreNew
  <2>3. AnswersAreTrue(cs \ {c}, rs)
    BY <1>1 DEF AnswersAreTrue
  <2>4. ChangesAreApart(cs \ {c}, ls2, un2)
    <3>. SUFFICES ASSUME NEW u \in Table \ un2
                  PROVE  /\ \A e \in cs \ {c} : Changes(e, u) =>
                              /\ e.table = u
                              /\ \A f \in cs \ {c} : f.op # "list" \/ f.table # u
                              /\ \A f \in cs \ {c} : Changes(f, u) /\ f # e =>
                                   e.row.id # f.row.id /\ (f.op = "renew" => e.row.id # f.n)
                              /\ e.op \in {"create", "renew"} => \A i \in DOMAIN ls2[u] : ls2[u][i].id # e.n
                              /\ e.op = "change" => \E i \in DOMAIN ls2[u] : ls2[u][i].id = e.row.id
                         /\ UniqueIds(ls2[u])
      BY DEF ChangesAreApart
    <3>1. CASE u # t
      <4>1. u \in Table \ un /\ ls2[u] = ls[u]
        BY <1>10, <1>12, <3>1
      <4>. QED  BY <1>1, <4>1 DEF ChangesAreApart
    <3>2. CASE u = t
      <4>1. UniqueIds(ls2[u]) /\ ls2[u] = l
        BY <1>11, <1>12, <3>2
      <4>2. ASSUME NEW e \in cs \ {c}, Changes(e, u)
            PROVE  /\ e.op \in {"create", "renew"} => \A i \in DOMAIN ls2[u] : ls2[u][i].id # e.n
                   /\ e.op = "change" => \E i \in DOMAIN ls2[u] : ls2[u][i].id = e.row.id
                   /\ u \in Table \ un
        BY <1>11, <3>2, <4>1, <4>2 DEF In
      <4>3. ASSUME NEW e \in cs \ {c}, Changes(e, u)
            PROVE  /\ e.table = u
                   /\ \A f \in cs \ {c} : f.op # "list" \/ f.table # u
                   /\ \A f \in cs \ {c} : Changes(f, u) /\ f # e =>
                        e.row.id # f.row.id /\ (f.op = "renew" => e.row.id # f.n)
        BY <1>1, <4>2, <4>3 DEF ChangesAreApart
      <4>. QED  BY <4>1, <4>2, <4>3
    <3>. QED  BY <3>1, <3>2
  <2>5. FetchesAreTrue(cs \ {c}, rs, un2)
    <3>. SUFFICES ASSUME NEW e \in cs \ {c}, e.op = "list", e.table \notin un2, e.state = "served"
                  PROVE  Lists(e.answer, rs[e.table])
      BY DEF FetchesAreTrue
    <3>1. e.table \in Tables(e.op, e.table)
      BY DEF Tables
    <3>2. e.table \notin un
      BY <1>10, <3>1
    <3>. QED  BY <1>1, <3>2 DEF FetchesAreTrue
  <2>. QED  BY <2>1, <2>2, <2>3, <2>4, <2>5 DEF CallsInv

<1>14. ASSUME c.state = "served", c.op = "list", Makes(c, l, old, k2, W2), un2 = un \ Sure(c), t \notin un2
       PROVE  FollowsRows(cs \ {c}, rs, l, t, k2, W2)
  <2>1. Lists(c.answer, rs[t])
    BY <1>1, <1>2, <1>10, <1>14 DEF FetchesAreTrue, AnswersAreTrue
  <2>2. \A d \in cs \ {c} : ~Changes(d, t)
    BY <1>10, <1>14 DEF Changes
  <2>3. \A d \in cs \ {c} : ~(d.op = "change" /\ d.table = t)
    BY <2>2 DEF Changes, Alters, Tables
  <2>4. Done(cs \ {c}, t) = {}
    BY <2>2 DEF Done
  <2>5. \A r : In(r, c.answer) <=> r \in rs[t]
    BY <2>1 DEF Lists, In
  <2>6. /\ \A r : In(r, l) => r \in rs[t] /\ Matches(k2, r)
        /\ \A r : r \in W2 /\ r \in rs[t] /\ Matches(k2, r) => In(r, l)
    BY <1>8, <1>14, <2>5
  <2>7. \A i \in DOMAIN l : Matches(k2, l[i])
    BY <2>6 DEF In
  <2>8. \A r : OnList(cs \ {c}, l, t, k2, r) <=> In(r, l)
    BY <2>4 DEF OnList, In
  <2>. QED  BY <2>3, <2>6, <2>7, <2>8 DEF FollowsRows
<1>15. ASSUME NEW k, NEW W, c.state = "served", c.op # "list", Makes(c, l, old, k2, W2), t \notin un,
              FollowsRows(cs, rs, old, t, k, W),
              c.op \in {"create", "renew"} => Matches(k, Made(c))
       PROVE  FollowsRows(cs \ {c}, rs, l, t, k, W)
  <2>1. /\ \A i \in DOMAIN old : Matches(k, old[i])
        /\ \A d \in cs : d.op = "change" /\ d.table = t => Matches(k, d.row)
        /\ \A r \in PanelRow :
             /\ OnList(cs, old, t, k, r) => r \in rs[t] /\ Matches(k, r)
             /\ r \in W /\ r \in rs[t] /\ Matches(k, r) => OnList(cs, old, t, k, r)
    BY <1>15 DEF FollowsRows
  <2>2. Changes(c, t) /\ c \in Done(cs, t) /\ \A d : d \in Done(cs, t) <=> d = c \/ d \in Done(cs \ {c}, t)
    BY <1>9, <1>15 DEF Done
  <2>3. \A r : In(r, l) <=> \/ In(r, old) /\ r.id # c.row.id
                            \/ c.op \in {"create", "change", "renew"} /\ r = Made(c)
    BY <1>9, <1>15
  <2>4. c.op \in {"create", "change", "renew"} => Matches(k, Made(c))
    BY <1>15, <2>1 DEF Made
  <2>5. \A i \in DOMAIN l : Matches(k, l[i])
    BY <2>1, <2>3, <2>4 DEF In
  <2>6. ASSUME NEW d \in Done(cs \ {c}, t) PROVE d.row.id # Made(c).id
    <3>1. d \in cs /\ d # c /\ Changes(d, t)
      BY <2>6 DEF Done
    <3>2. d.row.id # c.row.id /\ (c.op = "renew" => d.row.id # c.n)
      BY <1>1, <1>2, <1>15, <2>2, <3>1 DEF ChangesAreApart
    <3>. QED  BY <1>2, <3>2 DEF Made, PanelRow
  <2>7. ASSUME NEW r \in PanelRow
        PROVE  OnList(cs \ {c}, l, t, k, r) <=> OnList(cs, old, t, k, r)
    <3>1. /\ OnList(cs, old, t, k, r)
               <=> \/ In(r, old) /\ \A d \in Done(cs, t) : d.row.id # r.id
                   \/ \E d \in Done(cs, t) :
                        d.op \in {"create", "change", "renew"} /\ r = Made(d) /\ Matches(k, r)
          /\ OnList(cs \ {c}, l, t, k, r)
               <=> \/ In(r, l) /\ \A d \in Done(cs \ {c}, t) : d.row.id # r.id
                   \/ \E d \in Done(cs \ {c}, t) :
                        d.op \in {"create", "change", "renew"} /\ r = Made(d) /\ Matches(k, r)
      BY DEF OnList, In
    <3>2. ASSUME OnList(cs, old, t, k, r) PROVE OnList(cs \ {c}, l, t, k, r)
      <4>1. CASE In(r, old) /\ \A d \in Done(cs, t) : d.row.id # r.id
        BY <2>2, <2>3, <3>1, <4>1
      <4>2. ASSUME NEW d \in Done(cs, t), d.op \in {"create", "change", "renew"}, r = Made(d),
                   Matches(k, r)
            PROVE  OnList(cs \ {c}, l, t, k, r)
        <5>1. CASE d = c
          BY <2>3, <2>6, <3>1, <4>2, <5>1
        <5>2. CASE d # c
          BY <2>2, <3>1, <4>2, <5>2
        <5>. QED  BY <5>1, <5>2
      <4>. QED  BY <3>1, <3>2, <4>1, <4>2
    <3>3. ASSUME OnList(cs \ {c}, l, t, k, r) PROVE OnList(cs, old, t, k, r)
      <4>1. CASE In(r, old) /\ r.id # c.row.id /\ \A d \in Done(cs \ {c}, t) : d.row.id # r.id
        BY <2>2, <3>1, <4>1
      <4>2. CASE c.op \in {"create", "change", "renew"} /\ r = Made(c)
        BY <2>2, <2>4, <3>1, <4>2
      <4>3. CASE \E d \in Done(cs \ {c}, t) :
                   d.op \in {"create", "change", "renew"} /\ r = Made(d) /\ Matches(k, r)
        BY <2>2, <3>1, <4>3
      <4>. QED  BY <2>3, <3>1, <3>3, <4>1, <4>2, <4>3
    <3>. QED  BY <3>2, <3>3
  <2>. QED  BY <2>1, <2>5, <2>7 DEF FollowsRows
<1>16. ASSUME NEW k, NEW W,
              \/ /\ c.state = "served" /\ c.op = "list" /\ Makes(c, l, old, k2, W2)
                 /\ un2 = un \ Sure(c) /\ Table \ {t} \subseteq un
              \/ /\ Following(cs, rs, ls, un, k, W) /\ k2 = k /\ W2 = W
                 /\ \/ /\ c.state = "served" /\ Makes(c, l, old, k2, W2)
                       /\ un2 = un \ Sure(c)
                       /\ c.op \in {"create", "renew"} => Matches(k, Made(c))
                    \/ /\ l = old /\ un2 = un
                       /\ c.state = "served" => ~Alters(c.op) \/ t \in un
       PROVE  Following(cs \ {c}, rs, ls2, un2, k2, W2)
  <2>. SUFFICES ASSUME NEW u \in Table \ un2
                PROVE  FollowsRows(cs \ {c}, rs, ls2[u], u, k2, W2)
    BY DEF Following
  <2>1. ASSUME u \notin un, Following(cs, rs, ls, un, k, W), k2 = k, W2 = W, ls2[u] = ls[u],
               c \notin Done(cs, u)
        PROVE  FollowsRows(cs \ {c}, rs, ls2[u], u, k2, W2)
    <3>1. FollowsRows(cs, rs, ls[u], u, k, W)
      BY <2>1 DEF Following
    <3>2. Done(cs \ {c}, u) = Done(cs, u)
      BY <2>1 DEF Done
    <3>. QED  BY <2>1, <3>1, <3>2 DEF FollowsRows, OnList
  <2>2. CASE u # t
    <3>1. u \notin un /\ ls2[u] = ls[u]
      BY <1>10, <1>12, <2>2
    <3>2. c \notin Done(cs, u)
      BY <1>10, <2>2, <3>1 DEF Done
    <3>3. Following(cs, rs, ls, un, k, W) /\ k2 = k /\ W2 = W
      BY <1>16, <2>2, <3>1
    <3>. QED  BY <2>1, <3>1, <3>2, <3>3
  <2>3. CASE u = t
    <3>1. CASE c.state = "served" /\ c.op = "list" /\ Makes(c, l, old, k2, W2) /\ un2 = un \ Sure(c)
      BY <1>12, <1>14, <2>3, <3>1
    <3>2. CASE /\ Following(cs, rs, ls, un, k, W) /\ k2 = k /\ W2 = W /\ c.op # "list"
               /\ c.state = "served" /\ Makes(c, l, old, k2, W2) /\ un2 = un \ Sure(c)
               /\ c.op \in {"create", "renew"} => Matches(k, Made(c))
      <4>1. u \in Table \ un
        BY <3>2 DEF Sure
      <4>2. FollowsRows(cs, rs, old, t, k, W)
        BY <2>3, <3>2, <4>1 DEF Following
      <4>. QED  BY <1>12, <1>15, <2>3, <3>2, <4>1, <4>2
    <3>3. CASE /\ Following(cs, rs, ls, un, k, W) /\ k2 = k /\ W2 = W /\ l = old /\ un2 = un
               /\ c.state = "served" => ~Alters(c.op) \/ t \in un
      <4>1. c \notin Done(cs, u) /\ u \notin un
        BY <2>3, <3>3 DEF Done, Changes
      <4>. QED  BY <1>12, <2>1, <2>3, <3>3, <4>1
    <3>. HIDE DEF t, old
    <3>. QED  BY <1>16, <3>1, <3>2, <3>3
  <2>. QED  BY <2>2, <2>3
<1>. QED  BY <1>3, <1>13, <1>16 DEF ls2

\* What each panel adds.
OpsOf ==
    [comments |-> {"list", "create", "change", "remove"},
     share |-> Op, links |-> {"list", "create", "remove"},
     dashboard |-> {"list", "create", "change", "remove"}]

TablesOf ==
    [comments |-> {"comments"}, share |-> {"access", "invites", "requests"},
     links |-> {"links"}, dashboard |-> {"documents"}]

\* A page of documents may leave any of them out.
Whole == IF cut THEN {} ELSE PanelRow

IsFollowed ==
    /\ scene = "links" => mounted
    /\ scene = "dashboard" => user = "in" /\ ~failed /\ ~key.search

PanelsInv ==
    scene \in DOMAIN TablesOf =>
      /\ CallsInv(calls, sent, rows, list, unsure)
      /\ IsFollowed => Following(calls, rows, list, unsure, key, Whole)
      /\ \A c \in calls : c.op \in OpsOf[scene] /\ c.table \in TablesOf[scene]
      /\ Table \ TablesOf[scene] \subseteq unsure
      /\ scene = "comments" => deleting \in Nat /\ ~ToCome(deleting, calls, sent)
      /\ scene = "share" => /\ opens \in Nat
                            /\ \A c \in calls : c.op = "create" => c.table \in unsure
      /\ scene = "links" => /\ mounts \in Nat
                            /\ mounted /\ "links" \notin unsure => \A c \in calls : c.tag = mounts
      /\ IF scene = "dashboard" THEN user = "loading" => "documents" \in unsure
         ELSE key = NoKey /\ ~cut

\* Comments, members, invites, requests, share links and documents: once all
\* calls are answered, the list on the screen is the one in the database, however
\* many rows there are and however the page's own calls overlapped and failed, but
\* for the overlaps that Calls names (page.tsx 396-453, ShareModal.tsx 41-169,
\* ShareLinksPanel 27-75, app/page.tsx 53-161).  Of more than PageSize documents
\* some are on the screen, each as it is, and they are of those the tab finds.
THEOREM ListsSettle == BrowserSpec => []SettledListsMatch
<1>. USE BrowserAssumption DEF BrowserAssumption, PanelsAssumption, CallsAssumption
<1>1. /\ NoRow \in PanelRow /\ NoRow.id \in Existing
      /\ \A i \in Existing : i \in Nat /\ i \notin 1..MaxCalls
  BY DEF NoRow, PanelRow
<1>2. BrowserInit => PanelsInv
  <2>. SUFFICES ASSUME BrowserInit, scene \in DOMAIN TablesOf PROVE PanelsInv
    BY DEF PanelsInv
  <2>1. PICK t \in Table, f \in [Existing -> {"open", "closed", "low", "high"}] :
          CallsInit([Empty EXCEPT ![t] = {[id |-> i, st |-> f[i]] : i \in Existing}])
    <3>1. ASSUME NEW s
          PROVE  [id : Existing, st : {s}] = {[id |-> i, st |-> s] : i \in Existing}
      <4>1. \A i \in Existing : [id |-> i, st |-> s] \in [id : Existing, st : {s}]
        OBVIOUS
      <4>2. \A r \in [id : Existing, st : {s}] : r.id \in Existing /\ r = [id |-> r.id, st |-> s]
        OBVIOUS
      <4>. QED  BY <4>1, <4>2
    <3>. DEFINE Start(t, s) == CallsInit([Empty EXCEPT ![t] = [id : Existing, st : {s}]])
    <3>2. \/ \E t \in Table : \E s \in {"open", "low"} : Start(t, s)
          \/ \E st \in [Existing -> {"closed", "low"}] :
               CallsInit([Empty EXCEPT !["documents"] = {[id |-> i, st |-> st[i]] : i \in Existing}])
      <4>1. CASE scene = "comments"
        <5>1. CommentsInit
          BY <4>1 DEF BrowserInit
        <5>. QED  BY <5>1 DEF CommentsInit, Table
      <4>2. CASE scene = "share"
        <5>1. ShareInit
          BY <4>2 DEF BrowserInit
        <5>. QED  BY <5>1 DEF ShareInit, Table
      <4>3. CASE scene = "links"
        <5>1. LinksInit
          BY <4>3 DEF BrowserInit
        <5>. QED  BY <5>1 DEF LinksInit, Table
      <4>4. CASE scene = "dashboard"
        <5>1. DashInit
          BY <4>4 DEF BrowserInit
        <5>. QED  BY <5>1, Zenon DEF DashInit
      <4>. QED  BY <4>1, <4>2, <4>3, <4>4 DEF TablesOf
    <3>3. CASE \E t \in Table : \E s \in {"open", "low"} : Start(t, s)
      <4>1. PICK t \in Table, s \in {"open", "low"} : Start(t, s)
        BY <3>3
      <4>. DEFINE f == [i \in Existing |-> s]
      <4>2. f \in [Existing -> {"open", "closed", "low", "high"}]
        OBVIOUS
      <4>3. {[id |-> i, st |-> s] : i \in Existing} = {[id |-> i, st |-> f[i]] : i \in Existing}
        OBVIOUS
      <4>4. Start(t, s) = CallsInit([Empty EXCEPT ![t] = {[id |-> i, st |-> f[i]] : i \in Existing}])
        BY <3>1, <4>3
      <4>. HIDE DEF f, Start
      <4>. QED  BY <4>1, <4>2, <4>4
    <3>4. CASE \E st \in [Existing -> {"closed", "low"}] :
                 CallsInit([Empty EXCEPT !["documents"] = {[id |-> i, st |-> st[i]] : i \in Existing}])
      <4>1. PICK st \in [Existing -> {"closed", "low"}] :
              CallsInit([Empty EXCEPT !["documents"] = {[id |-> i, st |-> st[i]] : i \in Existing}])
        BY <3>4
      <4>2. st \in [Existing -> {"open", "closed", "low", "high"}] /\ "documents" \in Table
        BY DEF Table
      <4>. QED  BY <4>1, <4>2
    <3>. QED  BY <3>2, <3>3, <3>4
  <2>. DEFINE new == {[id |-> i, st |-> f[i]] : i \in Existing}
  <2>2. /\ calls = {} /\ sent = 0 /\ unsure = Table /\ list = [u \in Table |-> <<>>]
        /\ rows = [u \in Table |-> IF u = t THEN new ELSE {}]
    BY <2>1 DEF CallsInit, Empty
  <2>3. /\ new \in SUBSET PanelRow /\ \A r \in new : r.id \in Existing
        /\ \A r, s \in new : r.id = s.id => r = s
    BY <1>1 DEF PanelRow
  <2>4. IsFiniteSet(new) /\ IsFiniteSet({})
    <3>. DEFINE g == [i \in Existing |-> [id |-> i, st |-> f[i]]]
    <3>1. g \in Surjection(Existing, new)
      BY DEF Surjection
    <3>. HIDE DEF g, new
    <3>. QED  BY <3>1, FS_Surjection, FS_EmptySet
  <2>. HIDE DEF new
  <2>5. CallsTyped(calls, sent, rows, list)
    <3>1. \A u \in Table : /\ rows[u] \in SUBSET PanelRow /\ IsFiniteSet(rows[u])
                           /\ \A r, s \in rows[u] : r.id = s.id => r = s
      BY <2>2, <2>3, <2>4
    <3>2. rows \in [Table -> SUBSET PanelRow] /\ list \in [Table -> Seq(PanelRow)]
      BY <2>2, <2>3
    <3>. QED  BY <2>2, <3>1, <3>2 DEF CallsTyped
  <2>6. \A i : ToCome(i, calls, sent) => i \in 1..MaxCalls
    BY <2>2 DEF ToCome
  <2>7. NewIdsAreNew(calls, sent, rows, list)
    BY <1>1, <2>2, <2>3, <2>6 DEF NewIdsAreNew
  <2>8. CallsInv(calls, sent, rows, list, unsure)
    BY <2>2, <2>5, <2>7 DEF CallsInv, AnswersAreTrue, ChangesAreApart, FetchesAreTrue
  <2>9. Following(calls, rows, list, unsure, key, Whole)
    BY <2>2 DEF Following
  <2>10. /\ scene = "comments" => deleting = 0
         /\ scene = "share" => opens = 0
         /\ scene = "links" => mounts = 0
         /\ scene # "dashboard" => key = NoKey /\ cut = FALSE
    BY Zenon DEF BrowserInit, CommentsInit, CommentsIdle, None, ShareInit, ShareIdle,
                 LinksInit, LinksIdle, DashIdle
  <2>. QED  BY <2>2, <2>6, <2>8, <2>9, <2>10 DEF PanelsInv, Table
<1>3. PanelsInv /\ [BrowserNext]_browserVars => PanelsInv'
  <2>. SUFFICES ASSUME PanelsInv, [BrowserNext]_browserVars PROVE PanelsInv'
    OBVIOUS
  <2>1. CASE UNCHANGED browserVars
    BY <2>1 DEF browserVars, callVars, commentVars, shareVars, linkVars, dashVars, PanelsInv,
                IsFollowed, Whole
  <2>2. scene' = scene
    BY <2>1, Zenon DEF BrowserNext, browserVars, EditorScene, CommentsScene, ShareScene,
         LinksScene, DashboardScene, VersionsScene, AnchorsScene, SessionScene, ToolsScene
  <2>3. CASE scene \notin DOMAIN TablesOf
    BY <2>2, <2>3 DEF PanelsInv
  <2>4. CASE scene \in DOMAIN TablesOf /\ ~UNCHANGED browserVars
    <3>1. /\ CallsInv(calls, sent, rows, list, unsure)
          /\ IsFollowed => Following(calls, rows, list, unsure, key, Whole)
          /\ \A c \in calls : c.op \in OpsOf[scene] /\ c.table \in TablesOf[scene]
          /\ Table \ TablesOf[scene] \subseteq unsure
      BY <2>4 DEF PanelsInv
    <3>2. /\ CallsTyped(calls, sent, rows, list) /\ calls \subseteq PanelCall
          /\ sent \in Nat /\ list \in [Table -> Seq(PanelRow)]
          /\ NewIdsAreNew(calls, sent, rows, list)
      BY <3>1 DEF CallsInv, CallsTyped
    <3>3. \A c \in calls : /\ c.op \in Op /\ c.table \in Table /\ c.tag \in Nat
                           /\ c.state \in {"sent", "served", "failed"}
      BY <3>2 DEF PanelCall
    <3>4. ~ToCome(NoRow.id, calls, sent) /\ \A i : i \in Existing => ~ToCome(i, calls, sent)
      BY <1>1, <3>2 DEF ToCome, CallsTyped
    \* A call is sent.
    <3>5. ASSUME NEW op \in Op, NEW table \in Table, NEW row \in PanelRow, NEW tag \in Nat,
                 Send(op, table, row, tag),
                 op # "create" => ~ToCome(row.id, calls, sent),
                 Alters(op) /\ op # "create" =>
                   \/ \E i \in DOMAIN list[table] : list[table][i].id = row.id
                   \/ op = "remove" /\ \A c \in calls : c.op # "renew"
          PROVE  /\ CallsInv(calls', sent', rows', list', unsure')
                 /\ \A k, W : /\ Following(calls, rows, list, unsure, k, W)
                              /\ op = "change" /\ table \notin unsure' => Matches(k, row)
                              => Following(calls', rows', list', unsure', k, W)
                 /\ \A i : ToCome(i, calls', sent') => ToCome(i, calls, sent)
                 /\ \A d \in calls' : \/ d.op = op /\ d.table = table /\ d.tag = tag
                                      \/ \E c \in calls : d.op = c.op /\ d.table = c.table /\ d.tag = c.tag
                 /\ unsure \subseteq unsure'
      <4>1. /\ SendWith(calls, op, table, row, tag) /\ rows' = rows /\ list' = list
            /\ unsure \cup Overlaps(calls, op, table, row) \cup (Tables(op, table) \ {table})
                 \subseteq unsure'
        BY <3>5 DEF Send
      <4>. HIDE DEF BrowserAssumption
      <4>2. /\ CallsInv(calls', sent', rows, list, unsure')
            /\ \A k, W : /\ Following(calls, rows, list, unsure, k, W)
                         /\ op = "change" /\ table \notin unsure' => Matches(k, row)
                         => Following(calls', rows, list, unsure', k, W)
            /\ \A i : ToCome(i, calls', sent') => ToCome(i, calls, sent)
            /\ \A d \in calls' : \/ d.op = op /\ d.table = table /\ d.tag = tag
                                 \/ \E c \in calls : d.op = c.op /\ d.table = c.table /\ d.tag = c.tag
        BY <3>1, <3>5, <4>1, Sending
      <4>. QED  BY <4>1, <4>2
    \* The page leaves its list as it is, and an answer aside.
    <3>6. ASSUME NEW c \in calls, Ignored(c)
          PROVE  /\ CallsInv(calls', sent', rows', list', unsure')
                 /\ \A k, W : /\ Following(calls, rows, list, unsure, k, W)
                              /\ c.state = "served" => ~Alters(c.op) \/ c.table \in unsure
                              => Following(calls', rows', list', unsure', k, W)
                 /\ \A i : ToCome(i, calls', sent') => ToCome(i, calls, sent)
                 /\ calls' \subseteq calls /\ unsure' = unsure
      <4>1. /\ calls' = calls \ {c} /\ UNCHANGED <<sent, rows, list, unsure>>
            /\ [list EXCEPT ![c.table] = list[c.table]] = list
        BY <3>2, <3>6 DEF Ignored
      <4>2. ASSUME NEW k, NEW W
            PROVE  /\ CallsInv(calls \ {c}, sent, rows, [list EXCEPT ![c.table] = list[c.table]], unsure)
                   /\ /\ Following(calls, rows, list, unsure, k, W)
                      /\ c.state = "served" => ~Alters(c.op) \/ c.table \in unsure
                      => Following(calls \ {c}, rows, [list EXCEPT ![c.table] = list[c.table]], unsure, k, W)
                   /\ \A i : ToCome(i, calls \ {c}, sent) => ToCome(i, calls, sent)
        BY <3>1, Answering
      <4>. QED  BY <4>1, <4>2
    \* The page shows what an answer makes of the list.
    <3>7. ASSUME NEW c \in calls, NEW l, NEW k2, NEW W2, Handled(c, l),
                 c.state = "served", Makes(c, l, list[c.table], k2, W2)
          PROVE  /\ CallsInv(calls', sent', rows', list', unsure')
                 /\ \A k, W : \/ c.op = "list" /\ Table \ {c.table} \subseteq unsure
                              \/ /\ Following(calls, rows, list, unsure, k, W) /\ k2 = k /\ W2 = W
                                 /\ c.op \in {"create", "renew"} => Matches(k, Made(c))
                              => Following(calls', rows', list', unsure', k2, W2)
                 /\ \A i : ToCome(i, calls', sent') => ToCome(i, calls, sent)
                 /\ calls' \subseteq calls /\ unsure \ {c.table} \subseteq unsure'
                 /\ \A d \in calls' : d.table \in unsure => d.table \in unsure'
      <4>1. /\ calls' = calls \ {c} /\ list' = [list EXCEPT ![c.table] = l]
            /\ unsure' = unsure \ Sure(c) /\ UNCHANGED <<sent, rows>>
        BY <3>7 DEF Handled
      <4>2. /\ CallsInv(calls \ {c}, sent, rows, [list EXCEPT ![c.table] = l], unsure \ Sure(c))
            /\ \A k, W : \/ c.op = "list" /\ Table \ {c.table} \subseteq unsure
                         \/ /\ Following(calls, rows, list, unsure, k, W) /\ k2 = k /\ W2 = W
                            /\ c.op \in {"create", "renew"} => Matches(k, Made(c))
                         => Following(calls \ {c}, rows, [list EXCEPT ![c.table] = l], unsure \ Sure(c), k2, W2)
            /\ \A i : ToCome(i, calls \ {c}, sent) => ToCome(i, calls, sent)
        BY <3>1, <3>7, Answering
      <4>3. ASSUME NEW d \in calls \ {c}, d.table \in unsure PROVE d.table \in unsure \ Sure(c)
        <5>1. CASE c.op = "list" /\ c.alone
          <6>1. \A e \in calls : c.table \in Tables(e.op, e.table) => e = c
            BY <3>1, <5>1 DEF CallsInv, AnswersAreTrue
          <6>2. d.table \in Tables(d.op, d.table)
            BY DEF Tables
          <6>. QED  BY <4>3, <6>1, <6>2 DEF Sure
        <5>. QED  BY <4>3, <5>1 DEF Sure
      <4>4. unsure \ {c.table} \subseteq unsure \ Sure(c)
        BY DEF Sure
      <4>. QED  BY <4>1, <4>2, <4>3, <4>4
    \* ... and asks for the next list.
    <3>8. ASSUME NEW c \in calls, NEW l, NEW table \in Table, HandledThen(c, l, "list", table),
                 c.state = "served",
                 \/ Makes(c, l, list[c.table], NoKey, PanelRow)
                 \/ l = list[c.table] /\ c.table \in unsure /\ c.op = "create"
          PROVE  /\ CallsInv(calls', sent', rows', list', unsure')
                 /\ Following(calls, rows, list, unsure, NoKey, PanelRow)
                      => Following(calls', rows', list', unsure', NoKey, PanelRow)
                 /\ \A d \in calls' : \/ d.op = "list" /\ d.table = table
                                      \/ \E e \in calls \ {c} : d.op = e.op /\ d.table = e.table
                 /\ unsure \ {c.table} \subseteq unsure'
                 /\ \A d \in calls \ {c} : d.table \in unsure => d.table \in unsure'
      <4>. DEFINE un == unsure \ Sure(c)
                  ls == [list EXCEPT ![c.table] = l]
      <4>1. /\ SendWith(calls \ {c}, "list", table, NoRow, c.tag)
            /\ list' = ls /\ unsure' = un \cup Overlaps(calls \ {c}, "list", table, NoRow)
            /\ rows' = rows
        BY <3>8 DEF HandledThen
      <4>2. Sure(c) \subseteq {c.table} /\ (c.op # "list" => Sure(c) = {})
        BY DEF Sure
      <4>3. \A r : Matches(NoKey, r)
        BY DEF Matches, NoKey
      <4>4. /\ CallsInv(calls \ {c}, sent, rows, ls, un)
            /\ Following(calls, rows, list, unsure, NoKey, PanelRow) => Following(calls \ {c}, rows, ls, un, NoKey, PanelRow)
            /\ \A i : ToCome(i, calls \ {c}, sent) => ToCome(i, calls, sent)
        BY <3>1, <3>8, <4>2, <4>3, Answering
      <4>5. /\ "list" \in Op /\ c.tag \in Nat /\ NoRow \in PanelRow /\ ~Alters("list")
            /\ ~ToCome(NoRow.id, calls \ {c}, sent)
            /\ un \cup Overlaps(calls \ {c}, "list", table, NoRow) \cup (Tables("list", table) \ {table})
                 \subseteq unsure'
        BY <1>1, <3>3, <3>4, <4>1, <4>4 DEF Op, Alters, Tables
      <4>. HIDE DEF un, ls
      <4>6. /\ CallsInv(calls', sent', rows, ls, unsure')
            /\ Following(calls \ {c}, rows, ls, un, NoKey, PanelRow) => Following(calls', rows, ls, unsure', NoKey, PanelRow)
            /\ \A d \in calls' : \/ d.op = "list" /\ d.table = table /\ d.tag = c.tag
                                 \/ \E e \in calls \ {c} : d.op = e.op /\ d.table = e.table /\ d.tag = e.tag
        <5>1. PICK op \in Op, tag \in Nat, row \in PanelRow, kept \in SUBSET calls :
                op = "list" /\ tag = c.tag /\ row = NoRow /\ kept = calls \ {c}
          BY <4>5
        <5>2. /\ SendWith(kept, op, table, row, tag)
              /\ un \cup Overlaps(kept, op, table, row) \cup (Tables(op, table) \ {table})
                   \subseteq unsure'
              /\ ~Alters(op) /\ ~ToCome(row.id, kept, sent)
              /\ CallsInv(kept, sent, rows, ls, un)
          BY <4>1, <4>4, <4>5, <5>1
        <5>3. /\ CallsInv(calls', sent', rows, ls, unsure')
              /\ \A k, W : /\ Following(kept, rows, ls, un, k, W)
                           /\ op = "change" /\ table \notin unsure' => Matches(k, row)
                           => Following(calls', rows, ls, unsure', k, W)
              /\ \A d \in calls' : \/ d.op = op /\ d.table = table /\ d.tag = tag
                                   \/ \E e \in kept : d.op = e.op /\ d.table = e.table /\ d.tag = e.tag
          BY <5>2, Sending
        <5>. QED  BY <5>1, <5>3
      <4>7. ASSUME NEW d \in calls \ {c}, d.table \in unsure PROVE d.table \in un
        <5>1. CASE c.op = "list" /\ c.alone
          <6>1. \A e \in calls : c.table \in Tables(e.op, e.table) => e = c
            BY <3>1, <5>1 DEF CallsInv, AnswersAreTrue
          <6>2. d.table \in Tables(d.op, d.table)
            BY DEF Tables
          <6>. QED  BY <4>7, <6>1, <6>2 DEF Sure, un
        <5>. QED  BY <4>7, <5>1 DEF Sure, un
      <4>8. unsure \ {c.table} \subseteq un
        BY <4>2 DEF un
      <4>. QED  BY <4>1, <4>4, <4>6, <4>7, <4>8
    <3>9. ASSUME NEW t \in Table, NEW i \in DOMAIN list[t]
          PROVE  /\ list[t][i] \in PanelRow /\ list[t][i].id \in Nat
                 /\ list[t][i].st \in {"open", "closed", "low", "high"}
                 /\ ~ToCome(list[t][i].id, calls, sent)
      <4>1. list[t] \in Seq(PanelRow)
        BY <3>2
      <4>2. list[t][i] \in PanelRow
        BY <4>1
      <4>. QED  BY <3>2, <4>2 DEF PanelRow, NewIdsAreNew
    <3>10. \A r : Matches(NoKey, r)
      BY DEF Matches, NoKey
    \* The comments.
    <3>11. CASE scene = "comments"
      <4>1. CommentsNext /\ key = NoKey /\ key' = NoKey /\ ~cut' /\ Whole = PanelRow /\ Whole' = PanelRow
        <5>1. CommentsScene
          BY <2>4, <3>11, Zenon DEF BrowserNext, EditorScene, CommentsScene, ShareScene,
               LinksScene, DashboardScene, VersionsScene, AnchorsScene, SessionScene, ToolsScene
        <5>2. key = NoKey /\ ~cut
          BY <2>4, <3>11 DEF PanelsInv
        <5>. QED  BY <5>1, <5>2 DEF CommentsScene, dashVars, Whole
      <4>2. /\ Following(calls, rows, list, unsure, NoKey, PanelRow)
            /\ \A c \in calls : c.op \in {"list", "create", "change", "remove"} /\ c.table = "comments"
            /\ Table \ {"comments"} \subseteq unsure /\ "comments" \in Table
            /\ deleting \in Nat /\ ~ToCome(deleting, calls, sent)
        BY <2>4, <3>1, <3>11, <4>1 DEF PanelsInv, IsFollowed, OpsOf, TablesOf, Table
      <4>. DEFINE Goal == /\ CallsInv(calls', sent', rows', list', unsure')
                          /\ Following(calls', rows', list', unsure', NoKey, PanelRow)
                          /\ \A c \in calls' : c.op \in {"list", "create", "change", "remove"}
                                               /\ c.table = "comments"
                          /\ Table \ {"comments"} \subseteq unsure'
                          /\ deleting' \in Nat /\ ~ToCome(deleting', calls', sent')
      <4>. SUFFICES Goal
        BY <2>2, <3>11, <4>1 DEF PanelsInv, OpsOf, TablesOf
      <4>3. ASSUME UNCHANGED callVars, deleting' \in Nat, ~ToCome(deleting', calls, sent) PROVE Goal
        BY <3>1, <4>2, <4>3 DEF callVars
      <4>4. ASSUME NEW op \in {"list", "create", "change", "remove"}, NEW row \in PanelRow,
                   CallComments(op, row), UNCHANGED deleting,
                   op # "create" => ~ToCome(row.id, calls, sent),
                   op = "change" => \E i \in DOMAIN comments : comments[i].id = row.id
            PROVE  Goal
        <5>1. Send(op, "comments", row, 0) /\ op \in Op /\ 0 \in Nat
          BY <4>4 DEF CallComments, Op
        <5>2. Alters(op) /\ op # "create" =>
                   \/ \E i \in DOMAIN list["comments"] : list["comments"][i].id = row.id
                   \/ op = "remove" /\ \A c \in calls : c.op # "renew"
          BY <4>2, <4>4 DEF Alters, comments
        <5>. QED  BY <3>5, <3>10, <4>2, <4>4, <5>1, <5>2
      <4>5. ASSUME NEW c \in calls, NEW l, c.state = "served", Handled(c, l),
                   Makes(c, l, comments, NoKey, PanelRow), deleting' \in {deleting, None}
            PROVE  Goal
        <5>1. list[c.table] = comments /\ c.table = "comments"
          BY <4>2 DEF comments
        <5>2. ~ToCome(0, calls, sent)
          BY <3>2 DEF ToCome, CallsTyped
        <5>3. Makes(c, l, list[c.table], NoKey, PanelRow)
          BY <4>5, <5>1
        <5>4. /\ CallsInv(calls', sent', rows', list', unsure')
              /\ Following(calls', rows', list', unsure', NoKey, PanelRow)
              /\ \A i : ToCome(i, calls', sent') => ToCome(i, calls, sent)
              /\ calls' \subseteq calls /\ unsure \ {c.table} \subseteq unsure'
          BY <3>7, <3>10, <4>2, <4>5, <5>3
        <5>. QED  BY <4>2, <4>5, <5>1, <5>2, <5>4 DEF None
      <4>6. ASSUME NEW c \in calls, c.state = "failed", Ignored(c), UNCHANGED deleting PROVE Goal
        BY <3>6, <4>2, <4>6
      <4>7. CASE Prefetch \/ ToggleCommentsPanel
        <5>1. UNCHANGED deleting /\ (UNCHANGED callVars \/ CallComments("list", NoRow))
          BY <4>7 DEF Prefetch, ToggleCommentsPanel, commentVars
        <5>. QED  BY <1>1, <3>4, <4>2, <4>3, <4>4, <5>1
      <4>8. CASE \/ ClickOutside \/ OpenContextMenu \/ PickFromMenu \/ CancelPopup
                 \/ \E id \in Id : SelectComment(id)
                 \/ \E s \in Text : WriteBody(s)
        BY <4>2, <4>3, <4>8 DEF ClickOutside, OpenContextMenu, PickFromMenu, CancelPopup,
                                SelectComment, WriteBody
      <4>9. CASE CancelDelete
        <5>1. ~ToCome(0, calls, sent)
          BY <3>2 DEF ToCome, CallsTyped
        <5>. QED  BY <4>3, <4>9, <5>1 DEF CancelDelete, None
      <4>10. ASSUME NEW i \in DOMAIN comments, AskToDelete(i) PROVE Goal
        BY <3>9, <4>2, <4>3, <4>10 DEF AskToDelete, comments
      <4>11. CASE CreateReviewComment
        BY <1>1, <4>4, <4>11 DEF CreateReviewComment
      <4>12. ASSUME NEW i \in DOMAIN comments, ResolveReviewComment(i) PROVE Goal
        <5>. DEFINE row == [id |-> comments[i].id, st |-> "closed"]
        <5>1. row \in PanelRow /\ row.id = comments[i].id /\ ~ToCome(row.id, calls, sent)
          BY <3>9, <4>2 DEF comments, PanelRow
        <5>2. CallComments("change", row) /\ UNCHANGED deleting
          BY <4>12 DEF ResolveReviewComment, commentVars
        <5>. HIDE DEF row
        <5>. QED  BY <4>4, <5>1, <5>2
      <4>13. CASE DeleteReviewComment
        <5>. DEFINE row == [id |-> deleting, st |-> "open"]
        <5>1. row \in PanelRow /\ ~ToCome(row.id, calls, sent)
          BY <4>2 DEF PanelRow
        <5>2. CallComments("remove", row) /\ UNCHANGED deleting
          BY <4>13 DEF DeleteReviewComment, commentVars
        <5>. HIDE DEF row
        <5>. QED  BY <4>4, <5>1, <5>2
      <4>14. ASSUME NEW c \in calls, Serve(c) \/ Refuse(c), UNCHANGED commentVars PROVE Goal
        <5>1. UNCHANGED deleting
          BY <4>14 DEF commentVars
        <5>2. /\ CallsInv(calls', sent', rows', list', unsure')
              /\ \A k, W : Following(calls, rows, list, unsure, k, W)
                   => Following(calls', rows', list', unsure', k, W)
              /\ \A i : ToCome(i, calls', sent') => ToCome(i, calls, sent)
              /\ \A d \in calls' : \E e \in calls : d.op = e.op /\ d.table = e.table /\ d.tag = e.tag
              /\ unsure \subseteq unsure'
          BY <3>1, <4>14, Serving
        <5>. QED  BY <4>2, <5>1, <5>2
      <4>15. ASSUME NEW c \in calls, CommentsListed(c) \/ CommentCreated(c)
                                     \/ CommentResolved(c) \/ CommentDeleted(c)
             PROVE  Goal
        <5>1. \/ c.state = "served" /\ deleting' \in {deleting, None}
                 /\ \E l : Handled(c, l) /\ Makes(c, l, comments, NoKey, PanelRow)
              \/ c.state = "failed" /\ Ignored(c) /\ UNCHANGED deleting
          <6>1. c.state \in {"sent", "served", "failed"}
            BY <3>3
          <6>2. CASE CommentsListed(c)
            BY <6>1, <6>2 DEF CommentsListed, commentVars, Makes
          <6>3. CASE CommentCreated(c)
            BY <6>1, <6>3 DEF CommentCreated, Makes
          <6>4. CASE CommentResolved(c)
            BY <6>1, <6>4 DEF CommentResolved, commentVars, Makes
          <6>5. CASE CommentDeleted(c)
            BY <6>1, <6>5 DEF CommentDeleted, Makes
          <6>. QED  BY <4>15, <6>2, <6>3, <6>4, <6>5
        <5>. QED  BY <4>5, <4>6, <5>1
      <4>. HIDE DEF Goal
      <4>. QED
        BY <4>1, <4>7, <4>8, <4>9, <4>10, <4>11, <4>12, <4>13, <4>14, <4>15 DEF CommentsNext
    \* The share dialog.
    <3>12. CASE scene = "share"
      <4>1. ShareNext /\ key = NoKey /\ key' = NoKey /\ ~cut' /\ Whole = PanelRow /\ Whole' = PanelRow
        <5>1. ShareScene
          BY <2>4, <3>12, Zenon DEF BrowserNext, EditorScene, CommentsScene, ShareScene,
               LinksScene, DashboardScene, VersionsScene, AnchorsScene, SessionScene, ToolsScene
        <5>2. key = NoKey /\ ~cut
          BY <2>4, <3>12 DEF PanelsInv
        <5>. QED  BY <5>1, <5>2 DEF ShareScene, dashVars, Whole
      <4>. DEFINE Tab3 == {"access", "invites", "requests"}
      <4>2. /\ Following(calls, rows, list, unsure, NoKey, PanelRow)
            /\ \A c \in calls : c.table \in Tab3
            /\ Table \ Tab3 \subseteq unsure /\ Tab3 \subseteq Table
            /\ opens \in Nat /\ \A c \in calls : c.op = "create" => c.table \in unsure
        BY <2>4, <3>1, <3>12, <4>1 DEF PanelsInv, IsFollowed, OpsOf, TablesOf, Table
      <4>. DEFINE Goal == /\ CallsInv(calls', sent', rows', list', unsure')
                          /\ Following(calls', rows', list', unsure', NoKey, PanelRow)
                          /\ \A c \in calls' : c.op \in Op /\ c.table \in Tab3
                          /\ Table \ Tab3 \subseteq unsure'
                          /\ opens' \in Nat
                          /\ \A c \in calls' : c.op = "create" => c.table \in unsure'
      <4>. SUFFICES Goal
        BY <2>2, <3>12, <4>1 DEF PanelsInv, OpsOf, TablesOf
      <4>3. ASSUME UNCHANGED callVars, opens' \in Nat PROVE Goal
        BY <3>1, <3>3, <4>2, <4>3 DEF callVars
      <4>4. ASSUME NEW op \in Op, op # "create", NEW table \in Tab3, NEW row \in PanelRow, NEW tag \in Nat,
                   Send(op, table, row, tag), opens' \in Nat,
                   ~ToCome(row.id, calls, sent),
                   Alters(op) => \E i \in DOMAIN list[table] : list[table][i].id = row.id
            PROVE  Goal
        <5>1. table \in Table
          BY <4>2
        <5>2. /\ CallsInv(calls', sent', rows', list', unsure')
              /\ Following(calls', rows', list', unsure', NoKey, PanelRow)
              /\ \A d \in calls' : \/ d.op = op /\ d.table = table /\ d.tag = tag
                                   \/ \E c \in calls : d.op = c.op /\ d.table = c.table /\ d.tag = c.tag
              /\ unsure \subseteq unsure'
          BY <3>5, <3>10, <4>2, <4>4, <5>1
        <5>. QED  BY <3>3, <4>2, <4>4, <5>2
      <4>5. ASSUME NEW c \in calls, NEW l, c.state = "served", Handled(c, l),
                   Makes(c, l, list[c.table], NoKey, PanelRow), opens' = opens
            PROVE  Goal
        <5>1. /\ CallsInv(calls', sent', rows', list', unsure')
              /\ Following(calls', rows', list', unsure', NoKey, PanelRow)
              /\ calls' \subseteq calls /\ unsure \ {c.table} \subseteq unsure'
              /\ \A d \in calls' : d.table \in unsure => d.table \in unsure'
          BY <3>7, <3>10, <4>2, <4>5
        <5>. QED  BY <3>3, <4>2, <4>5, <5>1
      <4>6. ASSUME NEW c \in calls, c.state = "failed" \/ ~Alters(c.op), Ignored(c), opens' = opens PROVE Goal
        <5>1. /\ CallsInv(calls', sent', rows', list', unsure')
              /\ Following(calls', rows', list', unsure', NoKey, PanelRow)
              /\ calls' \subseteq calls /\ unsure' = unsure
          BY <3>6, <4>2, <4>6
        <5>. QED  BY <3>3, <4>2, <4>6, <5>1
      <4>7. ASSUME NEW c \in calls, NEW l, NEW table \in Tab3, HandledThen(c, l, "list", table),
                   c.state = "served", opens' = opens,
                   Makes(c, l, list[c.table], NoKey, PanelRow) \/ (l = list[c.table] /\ c.op = "create")
            PROVE  Goal
        <5>1. table \in Table /\ (c.op = "create" => c.table \in unsure)
          BY <4>2
        <5>2. /\ CallsInv(calls', sent', rows', list', unsure')
              /\ Following(calls', rows', list', unsure', NoKey, PanelRow)
              /\ \A d \in calls' : \/ d.op = "list" /\ d.table = table
                                   \/ \E e \in calls \ {c} : d.op = e.op /\ d.table = e.table
              /\ unsure \ {c.table} \subseteq unsure'
              /\ \A d \in calls \ {c} : d.table \in unsure => d.table \in unsure'
          BY <3>8, <4>2, <4>7, <5>1
        <5>3. "list" \in Op
          BY DEF Op
        <5>. QED  BY <3>3, <4>2, <4>7, <5>2, <5>3
      <4>8. ASSUME NEW t \in Tab3, NEW r \in Shown(t)
            PROVE  /\ r \in PanelRow /\ r.id \in Nat /\ ~ToCome(r.id, calls, sent)
                   /\ \E i \in DOMAIN list[t] : list[t][i].id = r.id
        <5>1. PICK i \in DOMAIN list[t] : r = list[t][i]
          BY <4>8 DEF Shown
        <5>. QED  BY <3>9, <4>2, <5>1
      \* What is sent.
      <4>9. CASE OpenShare
        <5>1. opens' = opens + 1
          BY <4>9 DEF OpenShare
        <5>2. UNCHANGED callVars \/ Send("list", "access", NoRow, opens')
          BY <4>9 DEF OpenShare
        <5>3. opens' \in Nat /\ "list" \in Op /\ ~Alters("list")
          BY <4>2, <5>1 DEF Op, Alters
        <5>. QED  BY <1>1, <3>4, <4>3, <4>4, <5>2, <5>3
      <4>10. CASE CloseShare \/ TypeEmail
        BY <4>2, <4>3, <4>10 DEF CloseShare, TypeEmail
      <4>11. CASE SendInvite
        <5>. DEFINE row == [NoRow EXCEPT !.st = "high"]
        <5>1. PICK t \in {"access", "invites"} :
                SendWith(calls, "create", t, row, 0) /\ unsure' = unsure \cup {t}
          BY <4>11 DEF SendInvite
        <5>2. UNCHANGED <<rows, list, opens>>
          BY <4>11 DEF SendInvite
        <5>3. row \in PanelRow /\ "create" \in Op /\ t \in Tab3 /\ t \in Table /\ 0 \in Nat
          BY <1>1, <4>2 DEF PanelRow, Op
        <5>. HIDE DEF row
        <5>4. Tables("create", t) = {t}
          BY DEF Tables
        <5>5. unsure \cup Overlaps(calls, "create", t, row) \cup (Tables("create", t) \ {t}) \subseteq unsure'
          BY <5>1, <5>4 DEF Overlaps
        <5>6. PICK op \in Op, tag \in Nat : op = "create" /\ tag = 0
          BY <5>3
        <5>7. SendWith(calls, op, t, row, tag)
              /\ unsure \cup Overlaps(calls, op, t, row) \cup (Tables(op, t) \ {t}) \subseteq unsure'
          BY <5>1, <5>5, <5>6
        <5>8. /\ CallsInv(calls', sent', rows, list, unsure')
              /\ Following(calls', rows, list, unsure', NoKey, PanelRow)
              /\ \A d \in calls' : \/ d.op = op /\ d.table = t /\ d.tag = tag
                                   \/ \E c \in calls : d.op = c.op /\ d.table = c.table /\ d.tag = c.tag
          BY <3>1, <3>10, <4>2, <5>3, <5>6, <5>7, Sending
        <5>. QED  BY <3>3, <4>2, <5>1, <5>2, <5>3, <5>6, <5>8
      <4>12. CASE RefreshAccessList
        <5>1. Send("list", "access", NoRow, 0) /\ UNCHANGED opens /\ "list" \in Op /\ ~Alters("list")
          BY <4>12 DEF RefreshAccessList, Op, Alters
        <5>. QED  BY <1>1, <3>4, <4>2, <4>4, <5>1
      <4>13. ASSUME NEW r \in Shown("invites"), RevokeInvite(r) \/ ResendInvite(r) PROVE Goal
        <5>1. UNCHANGED opens /\ (Send("remove", "invites", r, 0) \/ Send("renew", "invites", r, 0))
              /\ {"remove", "renew"} \subseteq Op
          BY <4>13 DEF RevokeInvite, ResendInvite, shareVars, Op
        <5>. QED  BY <4>2, <4>4, <4>8, <5>1
      <4>14. ASSUME NEW r \in Shown("access"), NEW role \in {"low", "high"},
                    RevokeAccess(r) \/ UpdateAccessRole(r, role)
             PROVE  Goal
        <5>. DEFINE row == [r EXCEPT !.st = role]
        <5>1. UNCHANGED opens /\ (Send("remove", "access", r, 0) \/ Send("change", "access", row, 0))
              /\ {"remove", "change"} \subseteq Op
          BY <4>14 DEF RevokeAccess, UpdateAccessRole, Op
        <5>2. row \in PanelRow /\ row.id = r.id
          BY <4>8 DEF PanelRow
        <5>. HIDE DEF row
        <5>. QED  BY <4>2, <4>4, <4>8, <5>1, <5>2
      <4>15. ASSUME NEW r \in Shown("requests"), NEW op \in {"approve", "remove"},
                    ResolveAccessRequest(r, op)
             PROVE  Goal
        <5>1. UNCHANGED opens /\ Send(op, "requests", r, 0) /\ op \in Op /\ op # "create"
          BY <4>15 DEF ResolveAccessRequest, Op
        <5>. QED  BY <4>2, <4>4, <4>8, <5>1
      <4>16. CASE RequestEditAccess
        <5>1. Send("ask", "requests", NoRow, 0) /\ UNCHANGED opens /\ "ask" \in Op /\ ~Alters("ask")
          BY <4>16 DEF RequestEditAccess, Op, Alters
        <5>. QED  BY <1>1, <3>4, <4>2, <4>4, <5>1
      <4>17. ASSUME NEW c \in calls, Serve(c) \/ Refuse(c), UNCHANGED shareVars PROVE Goal
        <5>1. UNCHANGED opens
          BY <4>17 DEF shareVars
        <5>2. /\ CallsInv(calls', sent', rows', list', unsure')
              /\ \A k, W : Following(calls, rows, list, unsure, k, W)
                   => Following(calls', rows', list', unsure', k, W)
              /\ \A d \in calls' : \E e \in calls : d.op = e.op /\ d.table = e.table /\ d.tag = e.tag
              /\ unsure \subseteq unsure'
          BY <3>1, <4>17, Serving
        <5>. QED  BY <3>3, <4>2, <5>1, <5>2
      \* What is answered.
      <4>18. ASSUME NEW c \in calls, AccessListed(c) PROVE Goal
        <5>1. /\ c.op = "list" /\ c.table \in Tab3 /\ ~Alters(c.op) /\ opens' = opens
              /\ c.state \in {"served", "failed"}
          BY <3>3, <4>18 DEF AccessListed, Alters
        <5>2. \/ Ignored(c)
              \/ c.state = "served" /\ Handled(c, c.answer)
              \/ c.state = "served" /\ c.table \in {"access", "invites"}
                 /\ HandledThen(c, c.answer, "list", NextList[c.table])
          BY <4>18, <5>1 DEF AccessListed
        <5>3. Makes(c, c.answer, list[c.table], NoKey, PanelRow)
          BY <5>1 DEF Makes
        <5>4. CASE c.state = "served" /\ c.table \in {"access", "invites"}
                   /\ HandledThen(c, c.answer, "list", NextList[c.table])
          <6>1. PICK table \in Tab3 : table = NextList[c.table]
            BY <5>4 DEF NextList
          <6>2. HandledThen(c, c.answer, "list", table)
            BY <5>4, <6>1
          <6>. QED  BY <4>7, <5>1, <5>3, <5>4, <6>2
        <5>. QED  BY <4>5, <4>6, <5>1, <5>2, <5>3, <5>4
      <4>19. ASSUME NEW c \in calls, InviteSent(c) PROVE Goal
        <5>1. /\ c.op = "create" /\ opens' = opens /\ c.state \in {"served", "failed"}
              /\ IF c.state = "served" THEN HandledThen(c, list[c.table], "list", "access")
                 ELSE Ignored(c)
          BY <3>3, <4>19 DEF InviteSent
        <5>2. PICK l : l = list[c.table]
          OBVIOUS
        <5>3. PICK table \in Tab3 : table = "access"
          OBVIOUS
        <5>. HIDE DEF Goal
        <5>. QED  BY <4>6, <4>7, <5>1, <5>2, <5>3
      <4>20. ASSUME NEW c \in calls, InviteChanged(c) \/ AccessChanged(c) PROVE Goal
        <5>1. opens' = opens /\ c.state \in {"served", "failed"}
          BY <3>3, <4>20 DEF InviteChanged, AccessChanged, shareVars
        <5>2. c.state = "failed" => Ignored(c)
          BY <4>20 DEF InviteChanged, AccessChanged
        <5>3. c.state = "served" => \E l : Handled(c, l) /\ Makes(c, l, list[c.table], NoKey, PanelRow)
          BY <4>20 DEF InviteChanged, AccessChanged, Makes
        <5>. HIDE DEF Goal
        <5>. QED  BY <4>5, <4>6, <5>1, <5>2, <5>3
      <4>21. ASSUME NEW c \in calls, RequestResolved(c) PROVE Goal
        <5>1. opens' = opens /\ c.state \in {"served", "failed"} /\ c.table = "requests"
              /\ c.op \in {"approve", "remove"}
          BY <3>3, <4>21 DEF RequestResolved
        <5>2. PICK l : l = Without(list["requests"], c.row.id)
          OBVIOUS
        <5>5. PICK table \in Tab3 : table = "access"
          OBVIOUS
        <5>3. \/ c.state = "failed" /\ Ignored(c)
              \/ c.state = "served" /\ (Handled(c, l) \/ HandledThen(c, l, "list", table))
          BY <4>21, <5>1, <5>2, <5>5 DEF RequestResolved
        <5>4. Makes(c, l, list[c.table], NoKey, PanelRow)
          BY <5>1, <5>2 DEF Makes
        <5>. HIDE DEF Goal
        <5>. QED  BY <4>5, <4>6, <4>7, <5>1, <5>3, <5>4
      <4>22. ASSUME NEW c \in calls, AccessRequested(c) PROVE Goal
        BY <4>6, <4>22 DEF AccessRequested, Alters
      <4>. HIDE DEF Goal
      <4>23. CASE \E r \in Shown("access") :
                    RevokeAccess(r) \/ \E role \in {"low", "high"} : UpdateAccessRole(r, role)
        <5>1. PICK r \in Shown("access"), role \in {"low", "high"} :
                RevokeAccess(r) \/ UpdateAccessRole(r, role)
          BY <4>23
        <5>. QED  BY <4>14, <5>1
      <4>. QED
        BY <4>1, <4>9, <4>10, <4>11, <4>12, <4>13, <4>15, <4>16, <4>17, <4>18, <4>19, <4>20,
           <4>21, <4>22, <4>23 DEF ShareNext
    \* The share links.
    <3>13. CASE scene = "links"
      <4>1. LinksNext /\ key = NoKey /\ key' = NoKey /\ ~cut' /\ Whole = PanelRow /\ Whole' = PanelRow
        <5>1. LinksScene
          BY <2>4, <3>13, Zenon DEF BrowserNext, EditorScene, CommentsScene, ShareScene,
               LinksScene, DashboardScene, VersionsScene, AnchorsScene, SessionScene, ToolsScene
        <5>2. key = NoKey /\ ~cut
          BY <2>4, <3>13 DEF PanelsInv
        <5>. QED  BY <5>1, <5>2 DEF LinksScene, dashVars, Whole
      <4>2. /\ mounted => Following(calls, rows, list, unsure, NoKey, PanelRow)
            /\ \A c \in calls : c.op \in {"list", "create", "remove"} /\ c.table = "links"
            /\ Table \ {"links"} \subseteq unsure /\ "links" \in Table
            /\ mounts \in Nat
            /\ mounted /\ "links" \notin unsure => \A c \in calls : c.tag = mounts
        BY <2>4, <3>1, <3>13, <4>1 DEF PanelsInv, IsFollowed, OpsOf, TablesOf, Table
      <4>. DEFINE Goal == /\ CallsInv(calls', sent', rows', list', unsure')
                          /\ mounted' => Following(calls', rows', list', unsure', NoKey, PanelRow)
                          /\ \A c \in calls' : c.op \in {"list", "create", "remove"} /\ c.table = "links"
                          /\ Table \ {"links"} \subseteq unsure'
                          /\ mounts' \in Nat
                          /\ mounted' /\ "links" \notin unsure' => \A c \in calls' : c.tag = mounts'
      <4>. SUFFICES Goal
        BY <2>2, <3>13, <4>1 DEF PanelsInv, OpsOf, TablesOf, IsFollowed
      <4>3. CASE MountLinks
        <5>. DEFINE ls == [list EXCEPT !["links"] = <<>>]
        <5>1. /\ SendWith(calls, "list", "links", NoRow, mounts + 1)
              /\ list' = ls /\ unsure' = unsure \cup {"links"} /\ mounts' = mounts + 1
              /\ UNCHANGED rows
          BY <4>3 DEF MountLinks
        <5>2. /\ ls \in [Table -> Seq(PanelRow)] /\ Table \subseteq unsure'
              /\ \A t \in Table : \A i \in DOMAIN ls[t] : t # "links" /\ ls[t] = list[t]
          BY <3>2, <4>2, <5>1
        <5>. HIDE DEF ls
        <5>3. CallsInv(calls, sent, rows, ls, unsure')
          <6>1. CallsTyped(calls, sent, rows, ls)
            BY <3>2, <5>2 DEF CallsTyped
          <6>2. NewIdsAreNew(calls, sent, rows, ls)
            BY <3>2, <5>2 DEF NewIdsAreNew
          <6>. QED  BY <3>1, <3>3, <5>2, <6>1, <6>2
                    DEF CallsInv, ChangesAreApart, FetchesAreTrue
        <5>4. PICK op \in Op, table \in Table, row \in PanelRow, tag \in Nat :
                op = "list" /\ table = "links" /\ row = NoRow /\ tag = mounts + 1
          BY <1>1, <4>2 DEF Op
        <5>5. /\ SendWith(calls, op, table, row, tag)
              /\ ~Alters(op) /\ ~ToCome(row.id, calls, sent)
              /\ unsure' \cup Overlaps(calls, op, table, row) \cup (Tables(op, table) \ {table})
                   \subseteq unsure'
          BY <3>4, <5>1, <5>4 DEF Alters, Overlaps, Tables
        <5>6. /\ CallsInv(calls', sent', rows, ls, unsure')
              /\ \A d \in calls' : \/ d.op = op /\ d.table = table /\ d.tag = tag
                                   \/ \E c \in calls : d.op = c.op /\ d.table = c.table /\ d.tag = c.tag
          BY <5>3, <5>5, Sending
        <5>7. Following(calls', rows', list', unsure', NoKey, PanelRow)
          BY <5>2 DEF Following
        <5>. QED  BY <4>2, <5>1, <5>2, <5>4, <5>6, <5>7
      <4>4. CASE UnmountLinks
        BY <3>1, <4>2, <4>4 DEF UnmountLinks, callVars
      <4>5. ASSUME NEW op \in {"create", "remove"}, NEW row \in PanelRow,
                   Send(op, "links", row, mounts), UNCHANGED <<mounted, mounts>>, mounted,
                   op = "remove" => \E i \in DOMAIN links : links[i].id = row.id
                                                            /\ ~ToCome(row.id, calls, sent)
            PROVE  Goal
        <5>1. op \in Op
          BY DEF Op
        <5>2. /\ CallsInv(calls', sent', rows', list', unsure')
              /\ Following(calls', rows', list', unsure', NoKey, PanelRow)
              /\ \A d \in calls' : \/ d.op = op /\ d.table = "links" /\ d.tag = mounts
                                   \/ \E c \in calls : d.op = c.op /\ d.table = c.table /\ d.tag = c.tag
              /\ unsure \subseteq unsure'
          BY <3>5, <3>10, <4>2, <4>5, <5>1 DEF links
        <5>. QED  BY <4>2, <4>5, <5>2
      <4>6. CASE CreateLink
        <5>1. [NoRow EXCEPT !.st = "low"] \in PanelRow
          BY <1>1 DEF PanelRow
        <5>. QED  BY <4>5, <4>6, <5>1 DEF CreateLink
      <4>7. ASSUME NEW i \in DOMAIN links, RevokeLink(i) PROVE Goal
        <5>1. links[i] \in PanelRow /\ ~ToCome(links[i].id, calls, sent)
          BY <3>9, <4>2 DEF links
        <5>. QED  BY <4>5, <4>7, <5>1 DEF RevokeLink, linkVars
      <4>8. ASSUME NEW c \in calls, Serve(c) \/ Refuse(c), UNCHANGED linkVars PROVE Goal
        <5>1. UNCHANGED <<mounted, mounts>>
          BY <4>8 DEF linkVars
        <5>2. /\ CallsInv(calls', sent', rows', list', unsure')
              /\ \A k, W : Following(calls, rows, list, unsure, k, W)
                   => Following(calls', rows', list', unsure', k, W)
              /\ \A d \in calls' : \E e \in calls : d.op = e.op /\ d.table = e.table /\ d.tag = e.tag
              /\ unsure \subseteq unsure'
          BY <3>1, <4>8, Serving
        <5>. QED  BY <4>2, <5>1, <5>2
      <4>9. ASSUME NEW c \in calls, LinksAnswered(c) PROVE Goal
        <5>. DEFINE here == mounted /\ c.tag = mounts
        <5>1. UNCHANGED <<mounted, mounts>> /\ c.state \in {"served", "failed"}
              /\ (~here => ~mounted \/ c.table \in unsure)
          BY <3>3, <4>2, <4>9 DEF LinksAnswered
        <5>2. CASE Ignored(c) /\ (~here \/ c.state = "failed")
          <6>1. /\ CallsInv(calls', sent', rows', list', unsure')
                /\ mounted => Following(calls', rows', list', unsure', NoKey, PanelRow)
                /\ calls' \subseteq calls /\ unsure' = unsure
            BY <3>6, <4>2, <5>1, <5>2
          <6>. QED  BY <4>2, <5>1, <6>1
        <5>3. CASE here /\ c.state = "served"
          <6>1. PICK l : Handled(c, l) /\ Makes(c, l, list[c.table], NoKey, PanelRow)
            BY <4>2, <4>9, <5>3 DEF LinksAnswered, Makes, links
          <6>2. /\ CallsInv(calls', sent', rows', list', unsure')
                /\ Following(calls', rows', list', unsure', NoKey, PanelRow)
                /\ calls' \subseteq calls /\ unsure \ {c.table} \subseteq unsure'
                /\ \A d \in calls' : d.table \in unsure => d.table \in unsure'
            BY <3>7, <3>10, <4>2, <5>3, <6>1
          <6>. QED  BY <4>2, <5>1, <6>2
        <5>. QED  BY <4>9, <5>1, <5>2, <5>3 DEF LinksAnswered
      <4>. HIDE DEF Goal
      <4>. QED  BY <4>1, <4>3, <4>4, <4>6, <4>7, <4>8, <4>9 DEF LinksNext
    \* The documents.
    <3>14. CASE scene = "dashboard"
      <4>1. DashNext
        <5>1. DashboardScene
          BY <2>4, <3>14, Zenon DEF BrowserNext, EditorScene, CommentsScene, ShareScene,
               LinksScene, DashboardScene, VersionsScene, AnchorsScene, SessionScene, ToolsScene
        <5>. QED  BY <5>1 DEF DashboardScene
      <4>. DEFINE followed == user = "in" /\ ~failed /\ ~key.search
      <4>2. /\ followed => Following(calls, rows, list, unsure, key, Whole)
            /\ \A c \in calls : c.op \in {"list", "create", "change", "remove"} /\ c.table = "documents"
            /\ Table \ {"documents"} \subseteq unsure /\ "documents" \in Table
            /\ user = "loading" => "documents" \in unsure
        BY <2>4, <3>1, <3>14 DEF PanelsInv, IsFollowed, OpsOf, TablesOf, Table
      <4>. DEFINE Goal == /\ CallsInv(calls', sent', rows', list', unsure')
                          /\ followed' => Following(calls', rows', list', unsure', key', Whole')
                          /\ \A c \in calls' : c.op \in {"list", "create", "change", "remove"}
                                               /\ c.table = "documents"
                          /\ Table \ {"documents"} \subseteq unsure'
                          /\ user' = "loading" => "documents" \in unsure'
      <4>. SUFFICES Goal
        BY <2>2, <3>14 DEF PanelsInv, OpsOf, TablesOf, IsFollowed
      <4>3. ASSUME UNCHANGED callVars, UNCHANGED <<key, failed, cut>>, user' \in {user, "out", "stuck"} PROVE Goal
        BY <3>1, <4>2, <4>3 DEF callVars, Whole
      <4>4. ASSUME NEW op \in {"list", "create", "change", "remove"}, NEW row \in PanelRow, NEW tag \in Nat,
                   CallDocuments(op, row, tag), UNCHANGED <<key, failed, cut>>,
                   user' = user \/ (user = "loading" /\ user' = "in"),
                   op # "create" => ~ToCome(row.id, calls, sent),
                   op \in {"change", "remove"} => \E i \in DOMAIN documents : documents[i].id = row.id,
                   op = "change" /\ followed /\ "documents" \notin unsure => Matches(key, row)
            PROVE  Goal
        <5>1. Send(op, "documents", row, tag) /\ op \in Op
          BY <4>4 DEF CallDocuments, Op
        <5>2. Alters(op) /\ op # "create" =>
                   \/ \E i \in DOMAIN list["documents"] : list["documents"][i].id = row.id
                   \/ op = "remove" /\ \A c \in calls : c.op # "renew"
          BY <4>4 DEF Alters, documents
        <5>3. /\ CallsInv(calls', sent', rows', list', unsure')
              /\ \A k, W : /\ Following(calls, rows, list, unsure, k, W)
                           /\ op = "change" /\ "documents" \notin unsure' => Matches(k, row)
                           => Following(calls', rows', list', unsure', k, W)
              /\ \A d \in calls' : \/ d.op = op /\ d.table = "documents" /\ d.tag = tag
                                   \/ \E c \in calls : d.op = c.op /\ d.table = c.table /\ d.tag = c.tag
              /\ unsure \subseteq unsure'
          BY <3>5, <4>2, <4>4, <5>1, <5>2
        <5>4. CASE user' = user
          BY <4>2, <4>4, <5>3, <5>4 DEF Whole
        <5>5. CASE user = "loading" /\ user' = "in"
          <6>1. Following(calls', rows', list', unsure', key', Whole')
            BY <4>2, <5>3, <5>5 DEF Following
          <6>. QED  BY <4>2, <5>3, <5>5, <6>1
        <5>. QED  BY <4>4, <5>4, <5>5
      <4>5. ASSUME NEW c \in calls, c.state = "failed" \/ ~Alters(c.op) \/ user' = "out", Ignored(c),
                   UNCHANGED <<key, failed, cut>>, user' \in {user, "out"}
            PROVE  Goal
        <5>1. /\ CallsInv(calls', sent', rows', list', unsure')
              /\ c.state = "failed" \/ ~Alters(c.op) =>
                   \A k, W : Following(calls, rows, list, unsure, k, W)
                            => Following(calls', rows', list', unsure', k, W)
              /\ calls' \subseteq calls /\ unsure' = unsure
          BY <3>6, <4>5
        <5>. QED  BY <4>2, <4>5, <5>1 DEF Whole
      <4>6. ASSUME NEW i \in DOMAIN ShownDocuments
            PROVE  /\ ShownDocuments = documents /\ i \in DOMAIN documents /\ documents = list["documents"]
                   /\ documents[i] \in PanelRow /\ ~ToCome(documents[i].id, calls, sent)
        <5>1. ShownDocuments = documents
          BY <4>6 DEF ShownDocuments
        <5>. QED  BY <3>9, <4>2, <4>6, <5>1 DEF documents
      \* What is sent.
      <4>7. ASSUME NEW k, ListEffect(k), UNCHANGED <<key, failed, cut>>,
                   user' = user \/ (user = "loading" /\ user' = "in")
            PROVE  Goal
        BY <1>1, <3>4, <4>4, <4>7 DEF ListEffect
      <4>8. CASE FetchMe
        BY <4>3, <4>7, <4>8 DEF FetchMe
      <4>9. CASE Debounced \/ \E t \in {"all", "owned", "shared"} : SetTab(t)
        <5>1. UNCHANGED <<key, failed, cut, user>> /\ \E k : ListEffect(k)
          BY <4>9 DEF Debounced, SetTab
        <5>. QED  BY <4>7, <5>1
      <4>10. CASE TypeSearch \/ \E i \in DOMAIN ShownDocuments : ToggleMenu(i)
        BY <4>3, <4>10 DEF TypeSearch, ToggleMenu
      <4>11. ASSUME NEW i \in DOMAIN ShownDocuments, OnDelete(i) PROVE Goal
        <5>1. CallDocuments("remove", documents[i], 0) /\ UNCHANGED <<key, failed, cut, user>>
          BY <4>6, <4>11 DEF OnDelete, dashVars
        <5>. QED  BY <4>4, <4>6, <5>1
      <4>12. ASSUME NEW i \in DOMAIN ShownDocuments, OnRename(i) PROVE Goal
        <5>. DEFINE row == [documents[i] EXCEPT !.st = "high"]
        <5>1. /\ CallDocuments("change", row, 0) /\ UNCHANGED <<key, failed, cut, user>>
              /\ documents[i].st = "low"
          BY <4>6, <4>12 DEF OnRename, dashVars
        <5>2. row \in PanelRow /\ row.id = documents[i].id /\ row.st = "high"
          BY <4>6 DEF PanelRow
        <5>. HIDE DEF row
        <5>3. followed /\ "documents" \notin unsure => Matches(key, row)
          <6>1. followed /\ "documents" \notin unsure => Matches(key, documents[i])
            BY <4>2, <4>6 DEF Following, FollowsRows
          <6>. QED  BY <5>1, <5>2, <6>1 DEF Matches
        <5>. QED  BY <4>4, <4>6, <5>1, <5>2, <5>3
      <4>13. ASSUME NEW imp \in BOOLEAN, OnCreate(imp) PROVE Goal
        <5>1. [NoRow EXCEPT !.st = "low"] \in PanelRow
          BY <1>1 DEF PanelRow
        <5>2. PICK row \in PanelRow, tag \in Nat :
                CallDocuments("create", row, tag) /\ UNCHANGED <<key, failed, cut, user>>
          BY <4>13, <5>1 DEF OnCreate
        <5>. QED  BY <4>4, <5>2
      <4>14. ASSUME NEW c \in calls, Serve(c) \/ Refuse(c), UNCHANGED dashVars PROVE Goal
        <5>1. UNCHANGED <<key, failed, cut, user>>
          BY <4>14 DEF dashVars
        <5>2. /\ CallsInv(calls', sent', rows', list', unsure')
              /\ \A k, W : Following(calls, rows, list, unsure, k, W)
                   => Following(calls', rows', list', unsure', k, W)
              /\ \A d \in calls' : \E e \in calls : d.op = e.op /\ d.table = e.table /\ d.tag = e.tag
              /\ unsure \subseteq unsure'
          BY <3>1, <4>14, Serving
        <5>. QED  BY <4>2, <5>1, <5>2 DEF Whole
      \* What is answered.
      <4>15. ASSUME NEW c \in calls, DocumentsListed(c), user = "in" PROVE Goal
        <5>1. /\ c.op = "list" /\ ~Alters(c.op) /\ c.table = "documents"
              /\ c.state \in {"served", "failed"} /\ user' = user
          BY <3>3, <4>2, <4>15 DEF DocumentsListed, Alters
        <5>2. CASE c.n # wanted
          BY <4>5, <4>15, <5>1, <5>2 DEF DocumentsListed
        <5>3. CASE c.n = wanted /\ c.state = "served"
          <6>1. TakeDocuments(c) /\ key' = docsKey
            BY <4>15, <5>3 DEF DocumentsListed
          <6>2. PICK l, W : Handled(c, l) /\ W = Whole' /\ Makes(c, l, list[c.table], docsKey, W)
            <7>1. PICK K \in Pages(c.answer) :
                    Handled(c, Kept(c.answer, K)) /\ cut' = (K # Matching(c.answer))
              BY <6>1 DEF TakeDocuments
            <7>2. /\ K \in SUBSET DOMAIN c.answer
                  /\ \A i \in K : Matches(docsKey, c.answer[i])
                  /\ ~cut' => \A i \in DOMAIN c.answer \ K : ~Matches(docsKey, c.answer[i])
              BY <7>1 DEF Pages, Matching
            <7>3. PICK W : W = Whole'
              OBVIOUS
            <7>4. \A i \in DOMAIN c.answer \ K : c.answer[i] \in W => ~Matches(docsKey, c.answer[i])
              BY <7>2, <7>3 DEF Whole
            <7>. QED  BY <5>1, <7>1, <7>2, <7>3, <7>4 DEF Makes
          <6>3. /\ CallsInv(calls', sent', rows', list', unsure')
                /\ Following(calls', rows', list', unsure', docsKey, W)
                /\ calls' \subseteq calls /\ unsure \ {c.table} \subseteq unsure'
            BY <3>7, <4>2, <5>1, <5>3, <6>2
          <6>. QED  BY <4>2, <4>15, <5>1, <6>1, <6>2, <6>3
        <5>4. CASE c.n = wanted /\ c.state = "failed"
          <6>1. failed' = TRUE /\ \E l \in {list[c.table], <<>>} : Handled(c, l)
            BY <4>15, <5>1, <5>4 DEF DocumentsListed, documents
          <6>2. PICK l : (l = list[c.table] \/ l = <<>>) /\ Handled(c, l)
            BY <6>1
          <6>3. calls' = calls \ {c} /\ list' = [list EXCEPT ![c.table] = l]
                /\ unsure' = unsure /\ UNCHANGED <<sent, rows>>
            BY <5>4, <6>2 DEF Handled, Sure
          <6>4. CallsInv(calls \ {c}, sent, rows, [list EXCEPT ![c.table] = l], unsure)
            BY <3>1, <5>1, <6>2, Answering
          <6>. QED  BY <4>2, <4>15, <5>1, <6>1, <6>3, <6>4
        <5>. QED  BY <5>1, <5>2, <5>3, <5>4
      <4>16. ASSUME NEW c \in calls, DocumentChanged(c), user = "in" PROVE Goal
        <5>1. /\ c.op \in {"remove", "change"} /\ UNCHANGED <<key, failed, cut, user>>
              /\ c.state \in {"served", "failed"}
          BY <3>3, <4>16 DEF DocumentChanged
        <5>2. CASE c.state = "failed"
          BY <4>5, <4>16, <5>1, <5>2 DEF DocumentChanged
        <5>3. CASE c.state = "served"
          <6>1. PICK l : Handled(c, l) /\ Makes(c, l, list[c.table], key, Whole)
            BY <4>2, <4>16, <5>1, <5>3 DEF DocumentChanged, Makes, documents
          <6>2. /\ CallsInv(calls', sent', rows', list', unsure')
                /\ Following(calls, rows, list, unsure, key, Whole)
                     => Following(calls', rows', list', unsure', key, Whole)
                /\ calls' \subseteq calls /\ unsure \ {c.table} \subseteq unsure'
            BY <3>7, <5>1, <5>3, <6>1
          <6>3. Whole' = Whole
            BY <5>1 DEF Whole
          <6>. QED  BY <4>2, <4>16, <5>1, <6>2, <6>3
        <5>. QED  BY <5>1, <5>2, <5>3
      <4>17. ASSUME NEW c \in calls, DocumentCreated(c) PROVE Goal
        <5>1. c.state \in {"served", "failed"}
          BY <3>3, <4>17 DEF DocumentCreated
        <5>. QED  BY <4>5, <4>17, <5>1 DEF DocumentCreated
      <4>. HIDE DEF Goal
      <4>. QED  BY <4>1, <4>8, <4>9, <4>10, <4>11, <4>12, <4>13, <4>14, <4>15, <4>16, <4>17
                DEF DashNext
    <3>. QED  BY <2>4, <3>11, <3>12, <3>13, <3>14 DEF TablesOf
  <2>. QED  BY <2>1, <2>3, <2>4
<1>4. PanelsInv => SettledListsMatch
  <2>1. ASSUME NEW t \in Table, calls = {}, t \notin unsure, scene \in DOMAIN TablesOf, PanelsInv, IsFollowed
        PROVE  LET found == {r \in rows[t] : Matches(key, r)}
                   onScreen == {list[t][i] : i \in DOMAIN list[t]}
               IN Shows(list[t], IF cut THEN onScreen \cap found ELSE found)
    <3>. DEFINE found == {r \in rows[t] : Matches(key, r)}
                onScreen == {list[t][i] : i \in DOMAIN list[t]}
                wanting == IF cut THEN onScreen \cap found ELSE found
    <3>1. /\ CallsTyped(calls, sent, rows, list) /\ ChangesAreApart(calls, list, unsure)
          /\ FollowsRows(calls, rows, list[t], t, key, Whole)
      BY <2>1 DEF PanelsInv, CallsInv, Following
    <3>2. list[t] \in Seq(PanelRow) /\ rows[t] \in SUBSET PanelRow
      BY <3>1 DEF CallsTyped
    <3>3. \A i \in DOMAIN list[t] : list[t][i] \in PanelRow
      BY <3>2
    <3>4. \A r \in PanelRow : r \in wanting <=> \E i \in DOMAIN list[t] : list[t][i] = r
      <4>1. \A r : OnList(calls, list[t], t, key, r) <=> r \in onScreen
        BY <2>1 DEF OnList, Done
      <4>2. \A r \in PanelRow : /\ r \in onScreen => r \in found
                                /\ ~cut /\ r \in found => r \in onScreen
        BY <3>1, <4>1 DEF FollowsRows, Whole
      <4>3. \A r : r \in onScreen <=> \E i \in DOMAIN list[t] : list[t][i] = r
        OBVIOUS
      <4>. HIDE DEF onScreen, found
      <4>. QED  BY <4>2, <4>3
    <3>5. Lists(list[t], wanting)
      <4>1. UniqueIds(list[t])
        BY <2>1, <3>1 DEF ChangesAreApart
      <4>. HIDE DEF wanting
      <4>2. wanting \subseteq PanelRow
        BY <3>2 DEF wanting, found
      <4>. QED  BY <3>3, <3>4, <4>1, <4>2 DEF Lists
    <3>6. list[t] \in Seq(wanting)
      BY <3>2, <3>3, <3>4
    <3>7. ASSUME NEW l, NEW rs, l \in Seq(rs), Lists(l, rs) PROVE Shows(l, rs)
      <4>1. Len(l) \in Nat /\ DOMAIN l = 1..Len(l) /\ l \in [1..Len(l) -> rs]
        BY <3>7, LenProperties
      <4>2. {l[i] : i \in DOMAIN l} = rs
        BY <3>7 DEF Lists
      <4>3. l \in Bijection(1..Len(l), rs)
        BY <3>7, <4>1, <4>2 DEF Lists, UniqueIds, Bijection, Injection, Surjection, IsInjective
      <4>4. IsFiniteSet(1..Len(l)) /\ Cardinality(1..Len(l)) = Len(l)
        <5>1. 1 \in Int /\ Len(l) \in Int
              /\ (IF 1 > Len(l) THEN 0 ELSE Len(l) - 1 + 1) = Len(l)
          BY <4>1
        <5>. QED  BY <5>1, FS_Interval
      <4>5. Cardinality(rs) = Cardinality(1..Len(l))
        BY <4>3, <4>4, FS_Bijection DEF ExistsBijection
      <4>. QED  BY <4>2, <4>4, <4>5 DEF Shows
    <3>. QED  BY <3>5, <3>6, <3>7
  <2>2. ASSUME NEW t \in Table, calls = {}, t \notin unsure, PanelsInv, IsFollowed,
               scene \in {"comments", "share", "links"}
        PROVE  Shows(list[t], rows[t])
    <3>1. scene \in DOMAIN TablesOf /\ key = NoKey /\ ~cut
      BY <2>2 DEF PanelsInv, TablesOf
    <3>2. {r \in rows[t] : Matches(key, r)} = rows[t]
      BY <3>1 DEF Matches, NoKey
    <3>. QED  BY <2>1, <2>2, <3>1, <3>2
  <2>. SUFFICES ASSUME PanelsInv PROVE SettledListsMatch
    OBVIOUS
  <2>3. CASE scene = "comments"
    <3>1. IsFollowed /\ "comments" \in Table
      BY <2>3 DEF IsFollowed, Table
    <3>. QED  BY <2>2, <2>3, <3>1 DEF SettledListsMatch, Settled
  <2>4. CASE scene = "share"
    <3>1. IsFollowed /\ {"access", "invites", "requests"} \subseteq Table
      BY <2>4 DEF IsFollowed, Table
    <3>. QED  BY <2>2, <2>4, <3>1 DEF SettledListsMatch, ShareSettled, Settled
  <2>5. CASE scene = "links"
    <3>1. (mounted => IsFollowed) /\ "links" \in Table
      BY <2>5 DEF IsFollowed, Table
    <3>. QED  BY <2>2, <2>5, <3>1 DEF SettledListsMatch, LinksSettled, Settled
  <2>6. CASE scene = "dashboard"
    <3>1. ASSUME user = "in", key = docsKey, ~failed, ~query PROVE IsFollowed
      BY <2>6, <3>1 DEF IsFollowed, docsKey
    <3>2. "documents" \in Table /\ scene \in DOMAIN TablesOf
      BY <2>6 DEF Table, TablesOf
    <3>. QED  BY <2>1, <2>6, <3>1, <3>2 DEF SettledListsMatch, DashSettled, documents
  <2>7. CASE scene \notin {"comments", "share", "links", "dashboard"}
    BY <2>7 DEF SettledListsMatch
  <2>. QED  BY <2>3, <2>4, <2>5, <2>6, <2>7
<1>. QED  BY <1>2, <1>3, <1>4, PTL DEF BrowserSpec
=============================================================================
