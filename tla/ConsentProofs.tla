---------------------------- MODULE ConsentProofs ----------------------------
(* Theorems about Consent, for any accounts, tabs, registrations under way,  *)
(* instances, addresses, caps and lifetimes.                                 *)
EXTENDS Consent, FiniteSetTheorems, TLAPS

-----------------------------------------------------------------------------
(* The inductive invariant.                                                  *)

\* A row that the sweep does not take for stale.
StampedRow(id) == \E c \in clients : c.id = id /\ c.stamped

\* A tab at a client's page got there from the client that opened it; a tab
\* under way to Google or back is in a flow that has begun, and the state
\* cookie, if it is that flow's, returns to that client or to none.
TabOK(t) ==
  LET x == tab[t] IN
  /\ x.at \in {"authorize", "stamp", "page", "mark"} => x.client = x.asked /\ x.client \in Ids
  /\ x.at \in {"stamp", "page", "mark"} => x.user \in Users
  /\ x.at \in {"page", "mark"} => <<x.user, x.client>> \in shown
  /\ x.at \in {"page", "mark"} /\ x.stamped => StampedRow(x.client)
  /\ x.at \in {"google", "finishing"} => x.flow \in Flows /\ x.flow <= lastFlow
  /\ x.at = "finishing" => x.next \in {None, x.asked}
  /\ x.at = "google" /\ cookie # None /\ cookie.flow = x.flow
       => cookie.next \in {None, x.asked}

GrantsOK ==
  /\ \A g \in grants : g.kept => HasRow(g.client)
  /\ \A g \in grants \cup exchanges : <<g.user, g.client>> \in shown

ConsentInv == TypeOK /\ GrantsOK /\ \A t \in Tabs : TabOK(t)

\* The invariant is what the runs check, and more.
LEMMA InvImplies == ConsentInv => LandsWhereStarted /\ ApprovedAsShown /\ ConsentKeepsClient
  BY DEF ConsentInv, GrantsOK, TabOK, LandsWhereStarted, ApprovedAsShown,
         ConsentKeepsClient, StampedRow, HasRow, Row

\* Nobody has seen a page, and no tab is open.
LEMMA InitConsent == Init => ConsentInv
  <1> SUFFICES ASSUME Init PROVE ConsentInv
    OBVIOUS
  <1> USE ConsentAssumption
  <1>1. clients \subseteq Client /\ lastClient \in 0 .. MaxClients
    <2>1. CASE clients = {}
      <3>1. lastClient = 0
        BY <2>1, FS_EmptySet DEF Init
      <3> QED BY <2>1, <3>1
    <2>2. CASE clients # {}
      <3>1. PICK ip \in Ips : clients = {[id |-> 1, ip |-> ip, created |-> 0, stamped |-> FALSE]}
        BY <2>2 DEF Init
      <3>2. Cardinality(clients) = 1
        BY <3>1, FS_Singleton
      <3>3. lastClient = 1
        BY <3>2 DEF Init
      <3>4. [id |-> 1, ip |-> ip, created |-> 0, stamped |-> FALSE] \in Client
        BY DEF Client, Ids, Times
      <3> QED BY <3>1, <3>3, <3>4
    <2> QED BY <2>1, <2>2
  <1>2. Blank \in Tab
    BY DEF Blank, Tab, TabSteps
  <1>3. tab \in [Tabs -> Tab] /\ \A t \in Tabs : tab[t].at = "idle"
    BY <1>2 DEF Init, Blank
  <1>4. /\ clock \in Times /\ lastSweep \in [Instances -> Times \cup {None}]
        /\ pc \in [Reqs -> RegistrationSteps] /\ job \in [Reqs -> [ip : Ips, now : Times]]
        /\ lastFlow \in 0 .. MaxFlows /\ begun \in 0 .. MaxBegun
    BY DEF Init, Times, RegistrationSteps, NoJob
  <1>5. TypeOK
    BY <1>1, <1>3, <1>4 DEF Init, TypeOK
  <1>6. GrantsOK /\ \A t \in Tabs : TabOK(t)
    BY <1>3 DEF Init, GrantsOK, TabOK
  <1> QED BY <1>5, <1>6 DEF ConsentInv

-----------------------------------------------------------------------------
(* The table of clients.                                                     *)

\* Every row with a stamp stays, and so does every row in use.
KeepsClients ==
  /\ \A id \in Ids : StampedRow(id) => StampedRow(id)'
  /\ \A id \in Ids : HasRow(id) /\ InUse(id) => HasRow(id)'

\* A stamp takes no row away.
LEMMA StampKeeps ==
  ASSUME ConsentInv, NEW id \in Ids, Stamp(id)
  PROVE  clients' \subseteq Client /\ KeepsClients
  <1>1. clients \subseteq Client
    BY DEF ConsentInv, TypeOK
  <1>2. CASE clients' = clients
    BY <1>1, <1>2 DEF KeepsClients, StampedRow, HasRow, Row
  <1>3. CASE clients' = Stamped(id)
    <2>1. \A c \in Client : /\ [c EXCEPT !.stamped = TRUE] \in Client
                            /\ [c EXCEPT !.stamped = TRUE].id = c.id
                            /\ [c EXCEPT !.stamped = TRUE].stamped
      BY DEF Client
    <2>2. clients' = (clients \ Row(id)) \cup {[c EXCEPT !.stamped = TRUE] : c \in Row(id)}
      BY <1>3 DEF Stamped
    <2>3. ASSUME NEW c \in clients
          PROVE  \E d \in clients' : d.id = c.id /\ (c.stamped => d.stamped)
      <3>1. CASE c \in Row(id)
        <4>1. [c EXCEPT !.stamped = TRUE] \in clients'
          BY <2>2, <3>1
        <4>2. c \in Client
          BY <1>1
        <4> QED BY <2>1, <4>1, <4>2
      <3>2. CASE c \notin Row(id)
        BY <2>2, <3>2
      <3> QED BY <3>1, <3>2
    <2>4. clients' \subseteq Client
      BY <1>1, <2>1, <2>2 DEF Row
    <2> QED BY <2>3, <2>4 DEF KeepsClients, StampedRow, HasRow, Row
  <1> QED BY <1>2, <1>3, Zenon DEF Stamp

\* The sweep takes neither a stamped row nor one in use.
LEMMA SweepKeeps ==
  ASSUME NEW r \in Reqs, PurgeStaleClients(r)
  PROVE  KeepsClients /\ clients' \subseteq clients
  <1>1. clients' = {c \in clients : ~Stale(c, job[r].now)} \/ clients' = clients
    BY DEF PurgeStaleClients
  <1> QED BY <1>1 DEF KeepsClients, StampedRow, HasRow, Row, Stale

-----------------------------------------------------------------------------
(* Steps that leave the browser alone.                                       *)

\* They keep what is said of the tabs if they keep the rows that matter.
LEMMA BrowserAlone ==
  ASSUME ConsentInv, KeepsClients, UNCHANGED browser
  PROVE  \A t \in Tabs : TabOK(t)'
  <1> SUFFICES ASSUME NEW t \in Tabs PROVE TabOK(t)'
    OBVIOUS
  <1>1. TabOK(t)
    BY DEF ConsentInv
  <1>2. tab' = tab /\ cookie' = cookie /\ shown' = shown /\ lastFlow' = lastFlow
    BY DEF browser
  <1>3. tab[t].at \in {"page", "mark"} /\ tab[t].stamped => StampedRow(tab[t].client)'
    <2>1. ASSUME NEW id \in Ids, StampedRow(id)
          PROVE  \E c \in clients' : c.id = id /\ c.stamped
      BY <2>1 DEF KeepsClients, StampedRow
    <2>2. tab[t].at \in {"page", "mark"} /\ tab[t].stamped
            => tab[t].client \in Ids /\ StampedRow(tab[t].client)
      BY <1>1 DEF TabOK
    <2> QED BY <1>2, <2>1, <2>2 DEF StampedRow
  <1> QED BY <1>1, <1>2, <1>3 DEF TabOK

\* The part of TypeOK that is about the browser.
LEMMA BrowserTyped ==
  ASSUME ConsentInv, UNCHANGED browser
  PROVE  /\ cookie' \in StateCookie \cup {None} /\ session' \in Session \cup {None}
         /\ tab' \in [Tabs -> Tab] /\ lastFlow' \in 0 .. MaxFlows /\ shown' \subseteq Users \X Ids
         /\ \A t \in Tabs : tab'[t].at \in {"page", "mark"} =>
                              tab'[t].client \in Ids /\ tab'[t].user \in Users
  BY DEF ConsentInv, TypeOK, browser

\* Registering a client.
LEMMA RegistrationKeeps ==
  ASSUME ConsentInv, NEW r \in Reqs, RegistrationRequest(r)
  PROVE  ConsentInv'
  <1> USE ConsentAssumption
  <1>1. UNCHANGED browser /\ exchanges' = exchanges /\ clock' = clock /\ shown' = shown
    BY Zenon DEF RegistrationRequest, Register, PurgeExpired, PurgeStaleClients, CountIp,
                 CountAll, InsertClient, AbortRegistration, browser
  <1>2. grants' \subseteq grants
    BY DEF RegistrationRequest, Register, PurgeExpired, PurgeStaleClients, CountIp,
           CountAll, InsertClient, AbortRegistration
  <1>3. /\ clients' \subseteq Client /\ KeepsClients
        /\ lastClient' \in 0 .. MaxClients
    <2>0. clients \subseteq Client /\ lastClient \in 0 .. MaxClients /\ clock \in Times
          /\ job[r] \in [ip : Ips, now : Times]
      BY DEF ConsentInv, TypeOK
    <2>1. CASE InsertClient(r)
      <3>1. [id |-> lastClient + 1, ip |-> job[r].ip, created |-> clock, stamped |-> FALSE]
              \in Client
        BY <2>0, <2>1 DEF InsertClient, Client, Ids
      <3>2. clients \subseteq clients'
        BY <2>1 DEF InsertClient
      <3>3. \A id : StampedRow(id) => StampedRow(id)'
        BY <3>2 DEF StampedRow
      <3>4. \A id : HasRow(id) => HasRow(id)'
        BY <3>2 DEF HasRow, Row
      <3>5. KeepsClients
        BY <3>3, <3>4, Zenon DEF KeepsClients
      <3>6. MaxClients \in Nat
        BY DEF ConsentAssumption
      <3>7. lastClient' \in 0 .. MaxClients
        BY <2>0, <2>1, <3>6 DEF InsertClient
      <3>8. clients' \subseteq Client
        BY <2>0, <2>1, <3>1 DEF InsertClient
      <3> QED BY <3>5, <3>7, <3>8
    <2>2. CASE PurgeStaleClients(r)
      BY <2>0, <2>2, SweepKeeps DEF PurgeStaleClients
    <2>3. CASE ~InsertClient(r) /\ ~PurgeStaleClients(r)
      <3>1. clients' = clients /\ lastClient' = lastClient
        BY <2>3 DEF RegistrationRequest, Register, PurgeExpired, CountIp,
                    CountAll, AbortRegistration
      <3> QED BY <2>0, <3>1 DEF KeepsClients, StampedRow, HasRow, Row
    <2> QED BY <2>1, <2>2, <2>3
  <1>4. pc' \in [Reqs -> RegistrationSteps] /\ job' \in [Reqs -> [ip : Ips, now : Times]]
        /\ lastSweep' \in [Instances -> Times \cup {None}] /\ begun' \in 0 .. MaxBegun
    <2>0. /\ pc \in [Reqs -> RegistrationSteps] /\ job \in [Reqs -> [ip : Ips, now : Times]]
          /\ lastSweep \in [Instances -> Times \cup {None}] /\ begun \in 0 .. MaxBegun
          /\ clock \in Times /\ Unknown \in Ips /\ 0 \in Times /\ Host[r] \in Instances
      BY DEF ConsentInv, TypeOK, Times
    <2>1. ASSUME NEW from, NEW to \in RegistrationSteps, Step(r, from, to)
          PROVE  pc' \in [Reqs -> RegistrationSteps] /\ job' \in [Reqs -> [ip : Ips, now : Times]]
      <3>1. NoJob \in [ip : Ips, now : Times]
        BY <2>0 DEF NoJob
      <3> QED BY <2>0, <2>1, <3>1 DEF Step
    <2>2. CASE \E ip \in Ips : Register(r, ip)
      BY <2>0, <2>2 DEF Register, Begin, RegistrationSteps
    <2>3. CASE PurgeExpired(r) \/ PurgeStaleClients(r) \/ InsertClient(r) \/ AbortRegistration(r)
      <3>1. \E from : \E to \in RegistrationSteps : Step(r, from, to)
        BY <2>3, Zenon DEF PurgeExpired, PurgeStaleClients, InsertClient, AbortRegistration,
                    RegistrationSteps
      <3> QED BY <2>0, <2>1, <2>3, <3>1 DEF PurgeExpired, PurgeStaleClients, InsertClient,
                                      AbortRegistration
    <2>4. CASE CountIp(r) \/ CountAll(r)
      <3>1. \E from : \E to \in RegistrationSteps : Step(r, from, to)
        BY <2>4 DEF CountIp, CountAll, RegistrationSteps
      <3> QED BY <2>0, <2>1, <2>4, <3>1 DEF CountIp, CountAll
    <2> QED BY <2>2, <2>3, <2>4 DEF RegistrationRequest
  <1>5. GrantsOK'
    <2>1. \A g \in grants' : g.kept => HasRow(g.client)'
      <3> SUFFICES ASSUME NEW g \in grants', g.kept PROVE HasRow(g.client)'
        OBVIOUS
      <3>1. g \in grants /\ HasRow(g.client) /\ InUse(g.client)
        BY <1>2 DEF ConsentInv, GrantsOK, InUse
      <3>2. g.client \in Ids
        BY <3>1 DEF ConsentInv, TypeOK, Grant
      <3> QED BY <1>3, <3>1, <3>2 DEF KeepsClients
    <2> QED BY <1>1, <1>2, <2>1 DEF GrantsOK, ConsentInv
  <1>6. TypeOK'
    BY <1>1, <1>2, <1>3, <1>4, BrowserTyped DEF TypeOK, ConsentInv
  <1> QED BY <1>1, <1>3, <1>5, <1>6, BrowserAlone DEF ConsentInv

\* The exchange of a code, and time.
LEMMA ExchangeKeeps ==
  ASSUME ConsentInv, ConsumeCode \/ StoreTokens \/ Tick
  PROVE  ConsentInv'
  <1> USE ConsentAssumption
  <1>1. /\ UNCHANGED browser /\ UNCHANGED registration
        /\ clients' = clients /\ begun' = begun
    BY Zenon DEF ConsumeCode, StoreTokens, Tick
  <1>2. KeepsClients
    BY <1>1 DEF KeepsClients, StampedRow, HasRow, Row
  <1>3. /\ clock' \in Times
        /\ grants' \subseteq Grant /\ exchanges' \subseteq Grant /\ GrantsOK'
    <2>0. /\ grants \subseteq Grant /\ exchanges \subseteq Grant /\ GrantsOK /\ clock \in Times
          /\ shown' = shown /\ \A id : HasRow(id)' <=> HasRow(id)
      BY <1>1 DEF ConsentInv, TypeOK, browser, HasRow, Row
    <2>1. CASE Tick
      BY <2>0, <2>1 DEF Tick, Times, GrantsOK
    <2>2. CASE ConsumeCode
      <3>1. PICK g \in grants : /\ grants' = grants \ {g}
                                /\ exchanges' = exchanges \cup {g} /\ clock' = clock
        BY <2>2 DEF ConsumeCode
      <3> QED BY <2>0, <3>1 DEF GrantsOK
    <2>3. CASE StoreTokens
      <3>1. PICK g \in exchanges :
              /\ exchanges' = exchanges \ {g} /\ clock' = clock
              /\ grants' = grants \cup {[g EXCEPT !.kind = "token", !.expires = clock + TokenTTL,
                                                  !.kept = HasRow(g.client)]}
        BY <2>3 DEF StoreTokens
      <3> DEFINE n == [g EXCEPT !.kind = "token", !.expires = clock + TokenTTL,
                                !.kept = HasRow(g.client)]
      <3>2. HasRow(g.client) \in BOOLEAN
        BY DEF HasRow
      <3>3. g \in Grant /\ clock + TokenTTL \in Nat
        BY <2>0 DEF Times
      <3>4. n \in Grant /\ n.client = g.client /\ n.user = g.user /\ n.kept = HasRow(g.client)
        BY <3>2, <3>3 DEF Grant
      <3> HIDE DEF n
      <3>5. grants' = grants \cup {n}
        BY <3>1 DEF n
      <3>6. <<g.user, g.client>> \in shown
        BY <2>0 DEF GrantsOK
      <3> QED BY <2>0, <3>1, <3>4, <3>5, <3>6 DEF GrantsOK
    <2> QED BY <2>1, <2>2, <2>3
  <1>4. TypeOK'
    BY <1>1, <1>3, BrowserTyped DEF TypeOK, ConsentInv, registration
  <1> QED BY <1>1, <1>2, <1>3, <1>4, BrowserAlone DEF ConsentInv

-----------------------------------------------------------------------------
(* Steps of a tab.                                                           *)

\* What no tab changes but its own.
TabShows(t, x) == x \in Tab /\ Show(t, x)

\* The cookie stays, or goes, or is that of a flow that begins now.
CookieSafe ==
  /\ cookie' \in StateCookie \cup {None}
  /\ cookie' \in {cookie, None} \/ cookie'.flow = lastFlow + 1

\* The surroundings of a step of a tab.
Around ==
  /\ clients' \subseteq Client /\ KeepsClients
  /\ grants' \subseteq Grant /\ GrantsOK'
  /\ shown \subseteq shown' /\ shown' \subseteq Users \X Ids
  /\ CookieSafe
  /\ lastFlow' \in {lastFlow, lastFlow + 1} /\ lastFlow' \in 0 .. MaxFlows
  /\ session' \in Session \cup {None}
  /\ begun' \in 0 .. MaxBegun
  /\ UNCHANGED <<clock, exchanges, registration>>

\* A tab shows something else, the others what they showed.
LEMMA TabChanges ==
  ASSUME ConsentInv, NEW t \in Tabs, NEW x, TabShows(t, x)
  PROVE  /\ tab' \in [Tabs -> Tab] /\ tab'[t] = x
         /\ \A u \in Tabs \ {t} : tab'[u] = tab[u]
  BY DEF ConsentInv, TypeOK, TabShows, Show

\* What holds of the other tabs still holds: no flow of theirs is the new one.
LEMMA OtherTabs ==
  ASSUME ConsentInv, Around, NEW u \in Tabs, tab'[u] = tab[u]
  PROVE  TabOK(u)'
  <1>1. TabOK(u) /\ lastFlow \in Nat
    BY DEF ConsentInv, TypeOK
  <1>2. tab[u].at \in {"page", "mark"} /\ tab[u].stamped
          => \E c \in clients' : c.id = tab[u].client /\ c.stamped
    <2>1. ASSUME NEW id \in Ids, StampedRow(id)
          PROVE  \E c \in clients' : c.id = id /\ c.stamped
      BY <2>1 DEF Around, KeepsClients, StampedRow
    <2> QED BY <1>1, <2>1 DEF TabOK
  <1>3. tab[u].at \in {"google", "finishing"} =>
          /\ tab[u].flow \in Flows /\ tab[u].flow <= lastFlow'
          /\ tab[u].flow # lastFlow + 1
    BY <1>1 DEF TabOK, Around, Flows
  <1>4. tab[u].at = "google" /\ cookie' # None /\ cookie'.flow = tab[u].flow
          => cookie'.next \in {None, tab[u].asked}
    BY <1>1, <1>3 DEF TabOK, Around, CookieSafe
  <1>5. tab[u].at \in {"page", "mark"} => <<tab[u].user, tab[u].client>> \in shown'
    BY <1>1 DEF TabOK, Around
  <1> QED BY <1>1, <1>2, <1>3, <1>4, <1>5 DEF TabOK, StampedRow

\* So a step of a tab is all right if it is for the tab itself.
LEMMA TabStep ==
  ASSUME ConsentInv, NEW t \in Tabs, NEW x, TabShows(t, x), Around, TabOK(t)'
  PROVE  ConsentInv'
  <1>1. tab' \in [Tabs -> Tab] /\ \A u \in Tabs \ {t} : tab'[u] = tab[u]
    BY TabChanges
  <1>2. \A u \in Tabs : TabOK(u)'
    BY <1>1, OtherTabs
  <1>3. \A u \in Tabs : tab'[u].at \in {"page", "mark"} =>
                          tab'[u].client \in Ids /\ tab'[u].user \in Users
    BY <1>2 DEF TabOK
  <1>4. TypeOK'
    BY <1>1, <1>3 DEF ConsentInv, TypeOK, Around, CookieSafe, registration
  <1> QED BY <1>2, <1>4 DEF ConsentInv, Around

\* Most steps of a tab leave the tables alone.
LEMMA QuietAround ==
  ASSUME ConsentInv, clients' = clients, grants' = grants, exchanges' = exchanges,
         shown' = shown
  PROVE  /\ clients' \subseteq Client /\ KeepsClients
         /\ grants' \subseteq Grant /\ GrantsOK'
         /\ shown \subseteq shown' /\ shown' \subseteq Users \X Ids
  BY DEF ConsentInv, TypeOK, GrantsOK, KeepsClients, StampedRow, HasRow, Row

\* A sign-in begins in a flow of its own, for the client of the tab or none.
LEMMA SignInStarts ==
  ASSUME ConsentInv, NEW t \in Tabs, NEW next \in Ids \cup {None},
         next \in {None, tab[t].asked}, StartSignIn(t, next), begun' \in 0 .. MaxBegun,
         UNCHANGED <<clock, clients, grants, exchanges, session, shown, registration>>
  PROVE  ConsentInv'
  <1> DEFINE x == [Blank EXCEPT !.at = "google", !.flow = lastFlow + 1,
                                !.asked = tab[t].asked]
  <1>0. /\ lastFlow \in 0 .. MaxFlows /\ MaxFlows \in Nat /\ tab[t] \in Tab
        /\ clock \in Times /\ StateTTL \in Nat /\ session \in Session \cup {None}
    BY ConsentAssumption DEF ConsentInv, TypeOK
  <1>1. lastFlow + 1 \in Flows /\ lastFlow' = lastFlow + 1
    BY <1>0 DEF StartSignIn, Flows
  <1>2. x \in Tab /\ x.at = "google" /\ x.flow = lastFlow + 1 /\ x.asked = tab[t].asked
    BY <1>0, <1>1 DEF Blank, Tab, TabSteps
  <1>3. /\ cookie' \in StateCookie
        /\ cookie'.flow = lastFlow + 1 /\ cookie'.next = next
    BY <1>0, <1>1 DEF StartSignIn, StateCookie, Times
  <1>4. TabShows(t, x)
    BY <1>2 DEF StartSignIn, TabShows
  <1>5. tab'[t] = x
    BY <1>4, TabChanges
  <1> HIDE DEF x
  <1>6. TabOK(t)'
    <2>1. lastFlow' <= lastFlow'
      BY <1>0, <1>1
    <2> QED BY <1>1, <1>2, <1>3, <1>5, <2>1 DEF TabOK
  <1>7. Around
    <2>1. lastFlow' \in 0 .. MaxFlows
      BY <1>1, <1>0 DEF Flows
    <2>2. CookieSafe
      BY <1>3 DEF CookieSafe
    <2> QED BY <1>0, <1>1, <2>1, <2>2, QuietAround DEF Around
  <1> QED BY <1>4, <1>6, <1>7, TabStep

\* A tab that shows something else and leaves all but the cookies alone.
LEMMA QuietStep ==
  ASSUME ConsentInv, NEW t \in Tabs, NEW x, TabShows(t, x), TabOK(t)',
         UNCHANGED <<begun, clock, clients, grants, exchanges, lastFlow, shown, registration>>,
         cookie' \in {cookie, None}, session' \in Session \cup {None}
  PROVE  ConsentInv'
  <1>1. CookieSafe /\ lastFlow' \in 0 .. MaxFlows /\ begun' \in 0 .. MaxBegun
    BY DEF ConsentInv, TypeOK, CookieSafe
  <1>2. Around
    BY <1>1, QuietAround DEF Around
  <1> QED BY <1>2, TabStep

\* A blank tab promises nothing.
LEMMA BlankStep ==
  ASSUME ConsentInv, NEW t \in Tabs, Show(t, Blank),
         UNCHANGED <<begun, clock, clients, grants, exchanges, lastFlow, shown, registration>>,
         cookie' \in {cookie, None}, session' \in Session \cup {None}
  PROVE  ConsentInv'
  <1>1. TabShows(t, Blank) /\ Blank.at = "idle"
    BY ConsentAssumption DEF TabShows, Blank, Tab, TabSteps
  <1>2. tab'[t] = Blank
    BY <1>1, TabChanges
  <1>3. TabOK(t)'
    BY <1>1, <1>2 DEF TabOK
  <1> QED BY <1>1, <1>3, QuietStep

\* A session that is still good is that of an account.
LEMMA SignedUser ==
  ASSUME ConsentInv, Signed # None
  PROVE  Signed \in Users
  BY DEF ConsentInv, TypeOK, Signed, Valid, Session

\* Opening the authorization endpoint, and coming back to it from Google.
LEMMA OpenKeeps ==
  ASSUME ConsentInv, NEW t \in Tabs, NEW id \in Ids, OpenAuthorize(t, id)
  PROVE  ConsentInv'
  <1> DEFINE x == [Blank EXCEPT !.at = "authorize", !.asked = id, !.client = id]
  <1>1. x \in Tab /\ x.at = "authorize" /\ x.asked = id /\ x.client = id
    BY ConsentAssumption DEF Blank, Tab, TabSteps
  <1>2. TabShows(t, x)
    BY <1>1 DEF OpenAuthorize, TabShows
  <1>3. tab'[t] = x
    BY <1>2, TabChanges
  <1> HIDE DEF x
  <1>4. TabOK(t)'
    BY <1>1, <1>3 DEF TabOK
  <1>5. CookieSafe /\ lastFlow' \in 0 .. MaxFlows /\ session' \in Session \cup {None}
    BY DEF OpenAuthorize, ConsentInv, TypeOK, CookieSafe
  <1>6. begun' \in 0 .. MaxBegun
    BY ConsentAssumption DEF OpenAuthorize, Begin, ConsentInv, TypeOK
  <1>7. Around
    BY <1>5, <1>6, QuietAround DEF Around, OpenAuthorize
  <1> QED BY <1>2, <1>4, <1>7, TabStep

\* A sign-in outside any authorization returns to no client.
LEMMA ConnectKeeps ==
  ASSUME ConsentInv, NEW t \in Tabs, ConnectPage(t)
  PROVE  ConsentInv'
  <1>1. begun' \in 0 .. MaxBegun
    BY ConsentAssumption DEF ConnectPage, Begin, ConsentInv, TypeOK
  <1> QED BY <1>1, SignInStarts DEF ConnectPage

\* The authorization endpoint turns away, sends to Google, or goes on.
LEMMA AuthorizeKeeps ==
  ASSUME ConsentInv, NEW t \in Tabs, Authorize(t)
  PROVE  ConsentInv'
  <1>0. /\ tab[t] \in Tab /\ tab[t].at = "authorize" /\ TabOK(t)
        /\ session \in Session \cup {None} /\ begun \in 0 .. MaxBegun
        /\ UNCHANGED <<begun, clock, clients, grants, exchanges, session, shown, registration>>
    BY DEF ConsentInv, TypeOK, Authorize
  <1>1. CASE Show(t, Blank) /\ UNCHANGED <<cookie, lastFlow>>
    BY <1>0, <1>1, BlankStep
  <1>2. CASE StartSignIn(t, tab[t].client)
    BY <1>0, <1>2, SignInStarts DEF TabOK
  <1>3. CASE /\ Signed # None
             /\ Show(t, [tab[t] EXCEPT !.at = "stamp", !.user = Signed])
             /\ UNCHANGED <<cookie, lastFlow>>
    <2> DEFINE x == [tab[t] EXCEPT !.at = "stamp", !.user = Signed]
    <2>1. Signed \in Users
      BY <1>3, SignedUser
    <2>2. /\ x \in Tab /\ x.at = "stamp" /\ x.user = Signed
          /\ x.client = tab[t].client /\ x.asked = tab[t].asked
      BY <1>0, <2>1 DEF Tab, TabSteps
    <2>3. TabShows(t, x)
      BY <1>3, <2>2 DEF TabShows
    <2>4. tab'[t] = x
      BY <2>3, TabChanges
    <2> HIDE DEF x
    <2>5. TabOK(t)'
      BY <1>0, <2>1, <2>2, <2>4 DEF TabOK
    <2> QED BY <1>0, <1>3, <2>3, <2>5, QuietStep
  <1> QED BY <1>1, <1>2, <1>3 DEF Authorize

\* The answer of Google is taken in the flow it was asked for.
LEMMA CallbackKeeps ==
  ASSUME ConsentInv, NEW t \in Tabs, Callback(t)
  PROVE  ConsentInv'
  <1>0. /\ tab[t] \in Tab /\ tab[t].at = "google" /\ TabOK(t)
        /\ session' \in Session \cup {None} /\ cookie \in StateCookie \cup {None}
        /\ UNCHANGED <<begun, clock, clients, grants, exchanges, cookie, lastFlow,
                       shown, registration>>
    BY DEF ConsentInv, TypeOK, Callback
  <1>1. CASE Show(t, Blank)
    BY <1>0, <1>1, BlankStep
  <1>2. CASE /\ CookieMatches(t)
             /\ Show(t, [tab[t] EXCEPT !.at = "finishing", !.next = cookie.next])
    <2> DEFINE x == [tab[t] EXCEPT !.at = "finishing", !.next = cookie.next]
    <2>1. cookie # None /\ cookie.flow = tab[t].flow /\ cookie \in StateCookie
      BY <1>0, <1>2 DEF CookieMatches, Valid
    <2>2. cookie.next \in {None, tab[t].asked} /\ cookie.next \in Ids \cup {None}
      BY <1>0, <2>1 DEF TabOK, StateCookie
    <2>3. /\ x \in Tab /\ x.at = "finishing" /\ x.next = cookie.next
          /\ x.flow = tab[t].flow /\ x.asked = tab[t].asked
      BY <1>0, <2>2 DEF Tab, TabSteps
    <2>4. TabShows(t, x)
      BY <1>2, <2>3 DEF TabShows
    <2>5. tab'[t] = x
      BY <2>4, TabChanges
    <2> HIDE DEF x
    <2>6. TabOK(t)'
      BY <1>0, <2>2, <2>3, <2>5 DEF TabOK
    <2> QED BY <1>0, <2>4, <2>6, QuietStep
  <1> QED BY <1>1, <1>2 DEF Callback

\* The sign-in ends at the client the flow was for.
LEMMA FinishKeeps ==
  ASSUME ConsentInv, NEW t \in Tabs, FinishSignIn(t)
  PROVE  ConsentInv'
  <1>0. /\ tab[t] \in Tab /\ tab[t].at = "finishing" /\ TabOK(t)
        /\ UNCHANGED <<begun, clock, clients, grants, exchanges, lastFlow,
                       shown, registration>>
    BY DEF ConsentInv, TypeOK, FinishSignIn
  <1>1. cookie' \in {cookie, None} /\ session' \in Session \cup {None}
    <2>1. CASE UNCHANGED <<cookie, session>>
      BY <2>1 DEF ConsentInv, TypeOK
    <2>2. CASE /\ \E u \in Users : session' = [user |-> u, expires |-> clock + SessionTTL]
               /\ cookie' = None
      <3>1. clock + SessionTTL \in Nat
        BY ConsentAssumption DEF ConsentInv, TypeOK, Times
      <3> QED BY <2>2, <3>1 DEF Session
    <2> QED BY <2>1, <2>2 DEF FinishSignIn
  <1>2. CASE Show(t, Blank)
    BY <1>0, <1>1, <1>2, BlankStep
  <1>3. CASE /\ tab[t].next # None
             /\ Show(t, [Blank EXCEPT !.at = "authorize", !.asked = tab[t].asked,
                                      !.client = tab[t].next])
    <2> DEFINE x == [Blank EXCEPT !.at = "authorize", !.asked = tab[t].asked,
                                  !.client = tab[t].next]
    <2>1. tab[t].next = tab[t].asked /\ tab[t].next \in Ids
      BY <1>0, <1>3 DEF TabOK, Tab
    <2>2. x \in Tab /\ x.at = "authorize" /\ x.client = x.asked /\ x.client \in Ids
      BY <1>0, <2>1, ConsentAssumption DEF Blank, Tab, TabSteps
    <2>3. TabShows(t, x)
      BY <1>3, <2>2 DEF TabShows
    <2>4. tab'[t] = x
      BY <2>3, TabChanges
    <2> HIDE DEF x
    <2>5. TabOK(t)'
      BY <2>2, <2>4 DEF TabOK
    <2> QED BY <1>0, <1>1, <2>3, <2>5, QuietStep
  <1> QED BY <1>2, <1>3 DEF FinishSignIn

\* What is granted stays granted, for a client that has kept its row.
LEMMA GrantsKept ==
  ASSUME ConsentInv, KeepsClients, grants' = grants, exchanges' = exchanges,
         shown \subseteq shown'
  PROVE  grants' \subseteq Grant /\ GrantsOK'
  <1>1. ASSUME NEW g \in grants, g.kept
        PROVE  HasRow(g.client)'
    <2>1. g.client \in Ids /\ HasRow(g.client) /\ InUse(g.client)
      BY <1>1 DEF ConsentInv, TypeOK, Grant, GrantsOK, InUse
    <2> QED BY <2>1 DEF KeepsClients
  <1> QED BY <1>1 DEF GrantsOK, ConsentInv, TypeOK

\* The page is shown to whom it is made for; its stamp may find the row.
LEMMA ShowKeeps ==
  ASSUME ConsentInv, NEW t \in Tabs, ShowConsent(t)
  PROVE  ConsentInv'
  <1> DEFINE x == [tab[t] EXCEPT !.at = "page", !.expires = clock + PageTTL,
                     !.stamped = \E c \in clients' : c.id = tab[t].client /\ c.stamped]
  <1>0. /\ tab[t] \in Tab /\ tab[t].at = "stamp" /\ TabOK(t)
        /\ clock + PageTTL \in Nat
    BY ConsentAssumption DEF ConsentInv, TypeOK, ShowConsent, Times
  <1>1. tab[t].client = tab[t].asked /\ tab[t].client \in Ids /\ tab[t].user \in Users
    BY <1>0 DEF TabOK
  <1>2. clients' \subseteq Client /\ KeepsClients
    BY <1>1, StampKeeps DEF ShowConsent
  <1>3. /\ x \in Tab /\ x.at = "page" /\ x.client = tab[t].client
        /\ x.asked = tab[t].asked /\ x.user = tab[t].user
        /\ x.stamped = (\E c \in clients' : c.id = tab[t].client /\ c.stamped)
    BY <1>0 DEF Tab, TabSteps
  <1>4. TabShows(t, x)
    BY <1>3 DEF ShowConsent, TabShows
  <1>5. tab'[t] = x
    BY <1>4, TabChanges
  <1> HIDE DEF x
  <1>6. <<tab[t].user, tab[t].client>> \in shown' /\ shown \subseteq shown'
        /\ shown' \subseteq Users \X Ids
    BY <1>1 DEF ShowConsent, ConsentInv, TypeOK
  <1>7. TabOK(t)'
    BY <1>1, <1>3, <1>5, <1>6 DEF TabOK, StampedRow
  <1>8. Around
    <2>1. /\ lastFlow' = lastFlow /\ lastFlow' \in 0 .. MaxFlows /\ begun' \in 0 .. MaxBegun
          /\ session' \in Session \cup {None} /\ CookieSafe
          /\ UNCHANGED <<clock, exchanges, grants, registration>>
      BY DEF ShowConsent, ConsentInv, TypeOK, CookieSafe
    <2> QED BY <1>2, <1>6, <2>1, GrantsKept DEF Around
  <1> QED BY <1>4, <1>7, <1>8, TabStep

\* The code is for the account that was shown the page.
LEMMA ApproveKeeps ==
  ASSUME ConsentInv, NEW t \in Tabs, Approve(t)
  PROVE  ConsentInv'
  <1> DEFINE x == [tab[t] EXCEPT !.at = "mark"]
             g == [kind |-> "code", client |-> tab[t].client, user |-> Signed,
                   expires |-> clock + CodeTTL, kept |-> HasRow(tab[t].client)]
  <1>0. /\ tab[t] \in Tab /\ tab[t].at = "page" /\ TabOK(t)
        /\ clock + CodeTTL \in Nat /\ HasRow(tab[t].client) \in BOOLEAN
    BY ConsentAssumption DEF ConsentInv, TypeOK, Approve, Times, HasRow
  <1>1. /\ tab[t].client = tab[t].asked /\ tab[t].client \in Ids
        /\ tab[t].user \in Users /\ Signed = tab[t].user
        /\ <<Signed, tab[t].client>> \in shown
    BY <1>0 DEF TabOK, Approve, FormAccepted
  <1>2. /\ x \in Tab /\ x.at = "mark" /\ x.client = tab[t].client
        /\ x.asked = tab[t].asked /\ x.user = tab[t].user /\ x.stamped = tab[t].stamped
    BY <1>0 DEF Tab, TabSteps
  <1>3. TabShows(t, x)
    BY <1>2 DEF Approve, TabShows
  <1>4. tab'[t] = x
    BY <1>3, TabChanges
  <1>5. g \in Grant /\ g.user = Signed /\ g.client = tab[t].client
        /\ g.kept = HasRow(tab[t].client)
    BY <1>0, <1>1 DEF Grant
  <1>6. grants' = grants \cup {g}
    BY DEF Approve
  <1> HIDE DEF x, g
  <1>7. /\ UNCHANGED <<begun, clock, clients, exchanges, cookie, session, lastFlow,
                       shown, registration>>
        /\ \A id : HasRow(id)' <=> HasRow(id)
        /\ \A id : StampedRow(id)' <=> StampedRow(id)
    BY DEF Approve, HasRow, Row, StampedRow
  <1>8. TabOK(t)'
    BY <1>0, <1>1, <1>2, <1>4, <1>7 DEF TabOK, StampedRow
  <1>9. grants' \subseteq Grant /\ GrantsOK'
    BY <1>1, <1>5, <1>6, <1>7 DEF GrantsOK, ConsentInv, TypeOK
  <1>10. Around
    <2>1. /\ clients' \subseteq Client /\ shown' \subseteq Users \X Ids /\ CookieSafe
          /\ lastFlow' \in 0 .. MaxFlows /\ begun' \in 0 .. MaxBegun
          /\ session' \in Session \cup {None} /\ KeepsClients
      BY <1>7 DEF ConsentInv, TypeOK, CookieSafe, KeepsClients
    <2> QED BY <1>7, <1>9, <2>1 DEF Around
  <1> QED BY <1>3, <1>8, <1>10, TabStep

\* The second stamp.
LEMMA MarkKeeps ==
  ASSUME ConsentInv, NEW t \in Tabs, MarkAuthorized(t)
  PROVE  ConsentInv'
  <1>1. tab[t].client \in Ids
    BY DEF ConsentInv, TabOK, MarkAuthorized
  <1>2. clients' \subseteq Client /\ KeepsClients
    BY <1>1, StampKeeps DEF MarkAuthorized
  <1>3. TabShows(t, Blank) /\ Blank.at = "idle"
    BY ConsentAssumption DEF MarkAuthorized, TabShows, Blank, Tab, TabSteps
  <1>4. TabOK(t)'
    <2>1. tab'[t] = Blank
      BY <1>3, TabChanges
    <2> QED BY <1>3, <2>1 DEF TabOK
  <1>5. /\ lastFlow' = lastFlow /\ lastFlow' \in 0 .. MaxFlows /\ begun' \in 0 .. MaxBegun
        /\ session' \in Session \cup {None} /\ CookieSafe
        /\ shown' = shown /\ shown' \subseteq Users \X Ids
        /\ UNCHANGED <<clock, exchanges, grants, registration>>
    BY DEF MarkAuthorized, ConsentInv, TypeOK, CookieSafe
  <1>6. Around
    BY <1>2, <1>5, GrantsKept DEF Around
  <1> QED BY <1>3, <1>4, <1>6, TabStep

-----------------------------------------------------------------------------
(* The theorems.                                                             *)

\* Every step keeps the invariant.
LEMMA StepConsent == ConsentInv /\ [Next]_vars => ConsentInv'
  <1> SUFFICES ASSUME ConsentInv, [Next]_vars PROVE ConsentInv'
    OBVIOUS
  <1>1. CASE \E t \in Tabs : Browse(t)
    <2>1. PICK t \in Tabs : Browse(t)
      BY <1>1
    <2>2. CASE Leave(t)
      <3>1. session \in Session \cup {None}
        BY DEF ConsentInv, TypeOK
      <3> QED BY <2>2, <3>1, BlankStep DEF Leave
    <2> QED BY <2>1, <2>2, OpenKeeps, ConnectKeeps, AuthorizeKeeps, ShowKeeps, CallbackKeeps,
               FinishKeeps, ApproveKeeps, MarkKeeps DEF Browse
  <1>2. CASE UNCHANGED vars
    BY <1>2 DEF vars, ConsentInv, TypeOK, GrantsOK, TabOK, StampedRow, HasRow, Row
  <1> QED BY <1>1, <1>2, RegistrationKeeps, ExchangeKeeps DEF Next

\* What is inductive of consents, for every interleaving of tabs,
\* registrations, sweeps and failing stamps.
THEOREM ConsentInvariant == Spec => []ConsentInv
  BY InitConsent, StepConsent, PTL DEF Spec

\* The type invariant.
THEOREM TypeCorrect == Spec => []TypeOK
  <1>1. ConsentInv => TypeOK
    BY DEF ConsentInv
  <1> QED BY <1>1, ConsentInvariant, PTL

\* However many tabs share the state cookie, and however their sign-ins
\* overlap, each ends up at the consent page of the client that opened it.
THEOREM TabsLandWhereStarted == Spec => []LandsWhereStarted
  BY InvImplies, ConsentInvariant, PTL

\* A code or token is for an account that was shown the consent page of its
\* client, whoever signs in between the page and the decision.
THEOREM CodesAreApproved == Spec => []ApprovedAsShown
  BY InvImplies, ConsentInvariant, PTL

\* No sweep takes the row of a client from under a page that was stamped, or
\* from under a code or token whose client had it.
THEOREM ConsentsKeepClients == Spec => []ConsentKeepsClient
  BY InvImplies, ConsentInvariant, PTL


-----------------------------------------------------------------------------
(* The registration caps.                                                    *)

\* The registrations under way that were let through the count of their
\* address, and through the count of all.
PastIp(ip) == {r \in Reqs : pc[r] \in {"countAll", "insert"} /\ job[r].ip = ip}
PastAll == {r \in Reqs : pc[r] = "insert"}

RecentClients(ips) == {c \in clients : c.created >= Before(clock, CapWindow) /\ c.ip \in ips}

\* Whoever is past a count is yet to insert.
Bounded(ips, P, cap) == Recent(ips) + Cardinality(P) <= cap + Cardinality(Reqs) - 1

CapInv ==
  /\ IsFiniteSet(clients)
  /\ \A r \in Reqs : pc[r] # "idle" => job[r].now <= clock
  /\ \A ip \in Ips \ {Unknown} : Bounded({ip}, PastIp(ip), PerIp)
  /\ Bounded(Ips, PastAll, PerDay)

\* Counts of requests are numbers, at most all of them.
LEMMA RequestCounts ==
  ASSUME NEW P \in SUBSET Reqs
  PROVE  /\ IsFiniteSet(P) /\ Cardinality(P) \in Nat /\ Cardinality(Reqs) \in Nat \ {0}
         /\ Cardinality(P) <= Cardinality(Reqs)
  BY ConsentAssumption, FS_Subset, FS_CardinalityType, FS_EmptySet

LEMMA RecentIsCount ==
  ASSUME IsFiniteSet(clients), NEW ips
  PROVE  /\ Recent(ips) = Cardinality(RecentClients(ips)) /\ Recent(ips) \in Nat
         /\ IsFiniteSet(RecentClients(ips))
  <1>1. IsFiniteSet(RecentClients(ips))
    BY FS_Subset DEF RecentClients
  <1>2. Recent(ips) = Cardinality(RecentClients(ips))
    BY DEF Recent, CountSince, RecentClients
  <1> QED BY <1>1, <1>2, FS_CardinalityType

\* Steps that add no client and let nobody past a count.
LEMMA CapsEased ==
  ASSUME CapInv, IsFiniteSet(clients'),
         \A ips \in SUBSET Ips : Recent(ips)' <= Recent(ips),
         \A r \in Reqs : pc'[r] # "idle" => job'[r].now <= clock',
         \A ip \in Ips : PastIp(ip)' \subseteq PastIp(ip),
         PastAll' \subseteq PastAll
  PROVE  CapInv'
  <1>1. ASSUME NEW ips \in SUBSET Ips, NEW P \in SUBSET Reqs, NEW Q \in SUBSET P,
               NEW cap \in Nat, Bounded(ips, P, cap)
        PROVE  Recent(ips)' + Cardinality(Q) <= cap + Cardinality(Reqs) - 1
    <2>1. Recent(ips) \in Nat
      BY RecentIsCount DEF CapInv
    <2>2. Recent(ips)' \in Nat
      BY FS_Subset, FS_CardinalityType DEF Recent, CountSince
    <2>3. Cardinality(Q) <= Cardinality(P) /\ Cardinality(Q) \in Nat /\ Cardinality(P) \in Nat
      BY RequestCounts, FS_Subset
    <2> QED BY <1>1, <2>1, <2>2, <2>3, RequestCounts DEF Bounded
  <1>2. {PerIp, PerDay} \subseteq Nat
    BY ConsentAssumption
  <1>3. ASSUME NEW ip \in Ips \ {Unknown}
        PROVE  Bounded({ip}, PastIp(ip), PerIp)'
    BY <1>1, <1>2 DEF CapInv, Bounded, PastIp
  <1>4. Bounded(Ips, PastAll, PerDay)'
    BY <1>1, <1>2 DEF CapInv, Bounded, PastAll
  <1> QED BY <1>3, <1>4 DEF CapInv

\* A stamp changes a client in place.
LEMMA StampCounts ==
  ASSUME ConsentInv, IsFiniteSet(clients), NEW id, Stamp(id), clock' = clock
  PROVE  IsFiniteSet(clients') /\ \A ips \in SUBSET Ips : Recent(ips)' <= Recent(ips)
  <1> DEFINE g(c) == IF c \in Row(id) THEN [c EXCEPT !.stamped = TRUE] ELSE c
  <1>1. CASE clients' = clients
    BY <1>1, RecentIsCount DEF Recent, CountSince
  <1>2. CASE clients' = Stamped(id)
    <2>1. clients' = {g(c) : c \in clients}
      BY <1>2 DEF Stamped, Row
    <2>2. \A c \in clients : g(c).created = c.created /\ g(c).ip = c.ip
      BY DEF ConsentInv, TypeOK, Client
    <2> HIDE DEF g
    <2>3. ASSUME NEW S \in SUBSET clients
          PROVE  /\ IsFiniteSet({g(c) : c \in S})
                 /\ Cardinality({g(c) : c \in S}) <= Cardinality(S)
      <3> DEFINE f == [c \in S |-> g(c)]
      <3>1. f \in Surjection(S, {g(c) : c \in S})
        BY DEF Surjection
      <3>2. IsFiniteSet(S)
        BY FS_Subset
      <3> HIDE DEF f
      <3> QED BY <3>1, <3>2, FS_Surjection
    <2>4. IsFiniteSet(clients')
      BY <2>1, <2>3
    <2>5. ASSUME NEW ips \in SUBSET Ips
          PROVE  Recent(ips)' <= Recent(ips)
      <3>1. RecentClients(ips)' = {g(c) : c \in RecentClients(ips)}
        BY <2>1, <2>2 DEF RecentClients
      <3>2. Recent(ips)' = Cardinality(RecentClients(ips)')
        BY DEF Recent, CountSince, RecentClients
      <3>3. RecentClients(ips) \subseteq clients
        BY DEF RecentClients
      <3> QED BY <2>3, <3>1, <3>2, <3>3, RecentIsCount
    <2> QED BY <2>4, <2>5
  <1> QED BY <1>1, <1>2, Zenon DEF Stamp

\* Without a new client, and as time passes, no more are recent.
LEMMA FewerCounts ==
  ASSUME ConsentInv, IsFiniteSet(clients), clients' \subseteq clients,
         clock' \in Nat, clock' >= clock
  PROVE  IsFiniteSet(clients') /\ \A ips \in SUBSET Ips : Recent(ips)' <= Recent(ips)
  <1>1. clock \in Nat /\ CapWindow \in Nat /\ \A c \in clients : c.created \in Nat
    BY ConsentAssumption DEF ConsentInv, TypeOK, Client, Times
  <1>2. Before(clock', CapWindow) >= Before(clock, CapWindow)
        /\ Before(clock', CapWindow) \in Nat /\ Before(clock, CapWindow) \in Nat
    <2>1. \A a, b, w \in Nat : a <= b =>
            /\ Before(a, w) \in Nat /\ Before(b, w) \in Nat /\ Before(b, w) >= Before(a, w)
      BY DEF Before
    <2> QED BY <1>1, <2>1
  <1>3. ASSUME NEW ips \in SUBSET Ips
        PROVE  Recent(ips)' <= Recent(ips)
    <2>1. RecentClients(ips)' \subseteq RecentClients(ips)
      BY <1>1, <1>2 DEF RecentClients
    <2>2. Recent(ips)' = Cardinality(RecentClients(ips)')
      BY DEF Recent, CountSince, RecentClients
    <2> QED BY <2>1, <2>2, RecentIsCount, FS_Subset
  <1> QED BY <1>3, FS_Subset

\* A request elsewhere, or time: registrations stand where they stood.
LEMMA CapsElsewhere ==
  ASSUME ConsentInv, CapInv, pc' = pc, job' = job,
         clock' \in Nat, clock' >= clock,
         \/ clients' = clients
         \/ clock' = clock /\ \E id \in Ids : Stamp(id)
  PROVE  CapInv'
  <1>1. IsFiniteSet(clients') /\ \A ips \in SUBSET Ips : Recent(ips)' <= Recent(ips)
    BY StampCounts, FewerCounts DEF CapInv
  <1>2. \A r \in Reqs : pc'[r] # "idle" => job'[r].now <= clock'
    BY DEF CapInv, ConsentInv, TypeOK, Times
  <1>3. (\A ip \in Ips : PastIp(ip)' \subseteq PastIp(ip)) /\ PastAll' \subseteq PastAll
    BY DEF PastIp, PastAll
  <1> QED BY <1>1, <1>2, <1>3, CapsEased

\* A registration moves on, past no count, and inserts nothing.
LEMMA CapsBefore ==
  ASSUME ConsentInv, CapInv, NEW r \in Reqs, clock' = clock, clients' \subseteq clients,
         pc' = [pc EXCEPT ![r] = pc'[r]],
         job' = [job EXCEPT ![r] = job'[r]],
         pc'[r] \notin {"countAll", "insert"},
         pc'[r] # "idle" => job'[r].now <= clock
  PROVE  CapInv'
  <1>1. clock \in Nat
    BY DEF ConsentInv, TypeOK, Times
  <1>2. IsFiniteSet(clients') /\ \A ips \in SUBSET Ips : Recent(ips)' <= Recent(ips)
    BY <1>1, FewerCounts DEF CapInv
  <1>3. pc \in [Reqs -> RegistrationSteps] /\ job \in [Reqs -> [ip : Ips, now : Times]]
    BY DEF ConsentInv, TypeOK
  <1>4. \A x \in Reqs : x # r => pc'[x] = pc[x] /\ job'[x] = job[x]
    BY <1>3
  <1>5. \A x \in Reqs : pc'[x] # "idle" => job'[x].now <= clock'
    BY <1>4 DEF CapInv
  <1>6. (\A ip \in Ips : PastIp(ip)' \subseteq PastIp(ip)) /\ PastAll' \subseteq PastAll
    BY <1>4 DEF PastIp, PastAll
  <1> QED BY <1>2, <1>5, <1>6, CapsEased

\* What a registration counts is no less than what is recent.
LEMMA CountIsRecent ==
  ASSUME ConsentInv, CapInv, NEW r \in Reqs, pc[r] # "idle", NEW ips \in SUBSET Ips,
         NEW cap \in Nat, UnderCap(r, ips, cap)
  PROVE  Recent(ips) <= cap - 1
  <1> DEFINE C == {c \in clients : c.created >= Before(job[r].now, CapWindow) /\ c.ip \in ips}
  <1>1. /\ clock \in Nat /\ CapWindow \in Nat /\ \A c \in clients : c.created \in Nat
        /\ job[r].now \in Nat /\ job[r].now <= clock
    BY ConsentAssumption DEF ConsentInv, CapInv, TypeOK, Client, Times
  <1>2. /\ Before(job[r].now, CapWindow) \in Nat /\ Before(clock, CapWindow) \in Nat
        /\ Before(job[r].now, CapWindow) <= Before(clock, CapWindow)
    <2>1. \A a, b, w \in Nat : a <= b =>
            /\ Before(a, w) \in Nat /\ Before(b, w) \in Nat /\ Before(b, w) >= Before(a, w)
      BY DEF Before
    <2> QED BY <1>1, <2>1
  <1>3. RecentClients(ips) \subseteq C /\ IsFiniteSet(C)
    BY <1>1, <1>2, FS_Subset DEF RecentClients, CapInv
  <1>4. Cardinality(C) < cap
    BY DEF UnderCap, CountSince
  <1> HIDE DEF C
  <1>5. Cardinality(C) \in Nat /\ Recent(ips) \in Nat /\ Recent(ips) <= Cardinality(C)
    BY <1>3, FS_CardinalityType, FS_Subset, RecentIsCount DEF CapInv
  <1> QED BY <1>4, <1>5

\* A registration is let past the count of its address.
LEMMA CapsCountIp ==
  ASSUME ConsentInv, CapInv, NEW r \in Reqs, CountIp(r), pc'[r] = "countAll"
  PROVE  CapInv'
  <1>0. pc \in [Reqs -> RegistrationSteps] /\ job \in [Reqs -> [ip : Ips, now : Times]]
    BY DEF ConsentInv, TypeOK
  <1>1. /\ pc[r] = "countIp" /\ pc' = [pc EXCEPT ![r] = "countAll"] /\ job' = job
        /\ clients' = clients /\ clock' = clock
        /\ job[r].ip = Unknown \/ UnderCap(r, {job[r].ip}, PerIp)
    BY <1>0 DEF CountIp, Step
  <1>2. \A ips : Recent(ips)' = Recent(ips)
    BY <1>1 DEF Recent, CountSince
  <1>3. ASSUME NEW ip \in Ips \ {Unknown}
        PROVE  Bounded({ip}, PastIp(ip), PerIp)'
    <2>1. CASE ip = job[r].ip
      <3>1. Recent({ip}) <= PerIp - 1
        BY <1>1, <2>1, CountIsRecent, ConsentAssumption
      <3>2. PastIp(ip)' \in SUBSET Reqs
        BY DEF PastIp
      <3>3. Cardinality(PastIp(ip)') <= Cardinality(Reqs) /\ Cardinality(PastIp(ip)') \in Nat
            /\ Cardinality(Reqs) \in Nat
        BY <3>2, RequestCounts
      <3>4. Recent({ip}) \in Nat /\ PerIp \in Nat
        BY RecentIsCount, ConsentAssumption DEF CapInv
      <3> QED BY <1>2, <3>1, <3>3, <3>4 DEF Bounded
    <2>2. CASE ip # job[r].ip
      <3>1. PastIp(ip)' = PastIp(ip)
        BY <1>0, <1>1, <2>2 DEF PastIp
      <3> QED BY <1>2, <3>1 DEF CapInv, Bounded
    <2> QED BY <2>1, <2>2
  <1>4. PastAll' = PastAll
    BY <1>0, <1>1 DEF PastAll
  <1>5. Bounded(Ips, PastAll, PerDay)'
    BY <1>2, <1>4 DEF CapInv, Bounded
  <1>6. \A x \in Reqs : pc'[x] # "idle" => job'[x].now <= clock'
    BY <1>0, <1>1 DEF CapInv
  <1> QED BY <1>1, <1>3, <1>5, <1>6 DEF CapInv

\* It is let past the count of all.
LEMMA CapsCountAll ==
  ASSUME ConsentInv, CapInv, NEW r \in Reqs, CountAll(r), pc'[r] = "insert"
  PROVE  CapInv'
  <1>0. pc \in [Reqs -> RegistrationSteps] /\ job \in [Reqs -> [ip : Ips, now : Times]]
    BY DEF ConsentInv, TypeOK
  <1>1. /\ pc[r] = "countAll" /\ pc' = [pc EXCEPT ![r] = "insert"] /\ job' = job
        /\ clients' = clients /\ clock' = clock
        /\ UnderCap(r, Ips, PerDay)
    BY <1>0 DEF CountAll, Step
  <1>2. \A ips : Recent(ips)' = Recent(ips)
    BY <1>1 DEF Recent, CountSince
  <1>3. \A ip : PastIp(ip)' = PastIp(ip)
    BY <1>0, <1>1 DEF PastIp
  <1>4. Bounded(Ips, PastAll, PerDay)'
    <2>1. Recent(Ips) <= PerDay - 1
      BY <1>1, CountIsRecent, ConsentAssumption
    <2>2. PastAll' \in SUBSET Reqs
      BY DEF PastAll
    <2>3. Cardinality(PastAll') <= Cardinality(Reqs) /\ Cardinality(PastAll') \in Nat
          /\ Cardinality(Reqs) \in Nat
      BY <2>2, RequestCounts
    <2>4. Recent(Ips) \in Nat /\ PerDay \in Nat
      BY RecentIsCount, ConsentAssumption DEF CapInv
    <2> QED BY <1>2, <2>1, <2>3, <2>4 DEF Bounded
  <1>5. \A ip \in Ips \ {Unknown} : Bounded({ip}, PastIp(ip), PerIp)'
    BY <1>2, <1>3 DEF CapInv, Bounded
  <1>6. \A x \in Reqs : pc'[x] # "idle" => job'[x].now <= clock'
    BY <1>0, <1>1 DEF CapInv
  <1> QED BY <1>1, <1>4, <1>5, <1>6 DEF CapInv

\* It inserts its client: one more is recent, one fewer is on its way.
LEMMA CapsInsert ==
  ASSUME ConsentInv, CapInv, NEW r \in Reqs, InsertClient(r)
  PROVE  CapInv'
  <1>0. pc \in [Reqs -> RegistrationSteps] /\ job \in [Reqs -> [ip : Ips, now : Times]]
    BY DEF ConsentInv, TypeOK
  <1> DEFINE new == [id |-> lastClient + 1, ip |-> job[r].ip, created |-> clock, stamped |-> FALSE]
  <1>1. /\ pc[r] = "insert" /\ pc' = [pc EXCEPT ![r] = "idle"]
        /\ job' = [job EXCEPT ![r] = NoJob]
        /\ clients' = clients \cup {new} /\ clock' = clock
    BY DEF InsertClient, Step
  <1>2. IsFiniteSet(clients')
    BY <1>1, FS_AddElement DEF CapInv
  <1>3. \A x \in Reqs : pc'[x] # "idle" => job'[x].now <= clock'
    BY <1>0, <1>1 DEF CapInv
  <1>4. ASSUME NEW ips, NEW P \in SUBSET Reqs, r \in P, NEW cap \in Nat, Bounded(ips, P, cap)
        PROVE  Recent(ips)' + Cardinality(P \ {r}) <= cap + Cardinality(Reqs) - 1
    <2>1. RecentClients(ips)' \subseteq RecentClients(ips) \cup {new}
      BY <1>1 DEF RecentClients
    <2>2. /\ IsFiniteSet(RecentClients(ips)) /\ Recent(ips) = Cardinality(RecentClients(ips))
          /\ Recent(ips) \in Nat
      BY RecentIsCount DEF CapInv
    <2>3. IsFiniteSet(RecentClients(ips) \cup {new})
          /\ Cardinality(RecentClients(ips) \cup {new}) <= Recent(ips) + 1
      <3> HIDE DEF new
      <3> DEFINE R == RecentClients(ips)
      <3>1. IsFiniteSet(R) /\ Cardinality(R) \in Nat /\ Cardinality(R) = Recent(ips)
        BY <2>2
      <3> HIDE DEF R
      <3>2. /\ IsFiniteSet(R \cup {new})
            /\ Cardinality(R \cup {new}) = IF new \in R THEN Cardinality(R) ELSE Cardinality(R) + 1
        BY <3>1, FS_AddElement
      <3>3. IsFiniteSet(R \cup {new}) /\ Cardinality(R \cup {new}) <= Recent(ips) + 1
        BY <3>1, <3>2
      <3> QED BY <3>3 DEF R
    <2>4. Recent(ips)' = Cardinality(RecentClients(ips)')
      BY DEF Recent, CountSince, RecentClients
    <2>5. Recent(ips)' <= Recent(ips) + 1 /\ Recent(ips)' \in Nat
      <3>1. /\ Cardinality(RecentClients(ips)') <= Cardinality(RecentClients(ips) \cup {new})
            /\ IsFiniteSet(RecentClients(ips)')
        BY <2>1, <2>3, FS_Subset
      <3>2. Cardinality(RecentClients(ips)') \in Nat
            /\ Cardinality(RecentClients(ips) \cup {new}) \in Nat
        BY <2>3, <3>1, FS_CardinalityType
      <3> QED BY <2>2, <2>3, <2>4, <3>1, <3>2
    <2>6. Cardinality(P \ {r}) = Cardinality(P) - 1 /\ Cardinality(P) \in Nat
      BY <1>4, RequestCounts, FS_RemoveElement
    <2> QED BY <1>4, <2>2, <2>5, <2>6, RequestCounts DEF Bounded
  <1>5. ASSUME NEW ip \in Ips \ {Unknown}
        PROVE  Bounded({ip}, PastIp(ip), PerIp)'
    <2>1. CASE ip = job[r].ip
      <3>1. r \in PastIp(ip) /\ PastIp(ip) \in SUBSET Reqs /\ PastIp(ip)' = PastIp(ip) \ {r}
        BY <1>0, <1>1, <2>1 DEF PastIp
      <3>2. PerIp \in Nat /\ Bounded({ip}, PastIp(ip), PerIp)
        BY ConsentAssumption DEF CapInv
      <3> QED BY <1>4, <3>1, <3>2 DEF Bounded
    <2>2. CASE ip # job[r].ip
      <3>1. PastIp(ip)' = PastIp(ip)
        BY <1>0, <1>1, <2>2 DEF PastIp
      <3>2. Recent({ip})' = Recent({ip})
        <4>1. RecentClients({ip})' = RecentClients({ip})
          BY <1>1, <2>2 DEF RecentClients
        <4>2. Recent({ip})' = Cardinality(RecentClients({ip})')
          BY DEF Recent, CountSince, RecentClients
        <4> QED BY <4>1, <4>2, RecentIsCount DEF CapInv
      <3> QED BY <3>1, <3>2 DEF CapInv, Bounded
    <2> QED BY <2>1, <2>2
  <1>6. Bounded(Ips, PastAll, PerDay)'
    <2>1. r \in PastAll /\ PastAll \in SUBSET Reqs /\ PastAll' = PastAll \ {r}
      BY <1>0, <1>1 DEF PastAll
    <2>2. PerDay \in Nat /\ Bounded(Ips, PastAll, PerDay)
      BY ConsentAssumption DEF CapInv
    <2> QED BY <1>4, <2>1, <2>2 DEF Bounded
  <1> QED BY <1>2, <1>3, <1>5, <1>6 DEF CapInv

LEMMA InitCaps == Init => CapInv
  <1> SUFFICES ASSUME Init PROVE CapInv
    OBVIOUS
  <1>1. IsFiniteSet(clients) /\ Cardinality(clients) \in Nat /\ Cardinality(clients) <= 1
    <2>1. CASE clients = {}
      BY <2>1, FS_EmptySet
    <2>2. CASE clients # {}
      <3>1. \E c : clients = {c}
        BY <2>2 DEF Init
      <3>2. PICK c : clients = {c}
        BY <3>1
      <3>3. IsFiniteSet({c}) /\ Cardinality({c}) = 1
        BY FS_Singleton
      <3>4. IsFiniteSet(clients) /\ Cardinality(clients) = 1
        BY <3>2, <3>3, Zenon
      <3> QED BY <3>4
    <2> QED BY <2>1, <2>2
  <1>2. PastAll = {} /\ \A ip : PastIp(ip) = {}
    BY DEF Init, PastAll, PastIp
  <1>3. ASSUME NEW ips, NEW cap \in Nat \ {0}
        PROVE  Recent(ips) + 0 <= cap + Cardinality(Reqs) - 1
    <2>1. Recent(ips) = Cardinality(RecentClients(ips)) /\ Recent(ips) \in Nat
      BY <1>1, RecentIsCount
    <2>2. Cardinality(RecentClients(ips)) <= Cardinality(clients)
      BY <1>1, FS_Subset DEF RecentClients
    <2>3. Cardinality(Reqs) \in Nat \ {0}
      BY RequestCounts
    <2> QED BY <1>1, <2>1, <2>2, <2>3
  <1>4. PerIp \in Nat \ {0} /\ PerDay \in Nat \ {0}
    BY ConsentAssumption
  <1>5. \A ip \in Ips \ {Unknown} : Bounded({ip}, PastIp(ip), PerIp)
    BY <1>2, <1>3, <1>4, FS_EmptySet DEF Bounded
  <1>6. Bounded(Ips, PastAll, PerDay)
    BY <1>2, <1>3, <1>4, FS_EmptySet DEF Bounded
  <1>7. \A r \in Reqs : pc[r] = "idle"
    BY DEF Init
  <1> QED BY <1>1, <1>5, <1>6, <1>7 DEF CapInv

LEMMA CapsRequest ==
  ASSUME ConsentInv, CapInv, NEW r \in Reqs, RegistrationRequest(r)
  PROVE  CapInv'
  <1>0. /\ pc \in [Reqs -> RegistrationSteps] /\ job \in [Reqs -> [ip : Ips, now : Times]]
        /\ clock \in Nat /\ (pc[r] # "idle" => job[r].now <= clock)
    BY DEF ConsentInv, CapInv, TypeOK, Times
  <1>1. CASE \E ip \in Ips : Register(r, ip)
    <2>1. PICK ip \in Ips : Register(r, ip)
      BY <1>1
    <2>2. job' = [job EXCEPT ![r] = [ip |-> ip, now |-> clock]] /\ clients' = clients /\ clock' = clock
      BY <2>1 DEF Register
    <2>3. job'[r].now = clock /\ job' = [job EXCEPT ![r] = job'[r]]
      BY <1>0, <2>2
    <2>4. pc' = [pc EXCEPT ![r] = "purge"] \/ pc' = [pc EXCEPT ![r] = "countIp"]
      BY <2>1 DEF Register
    <2>5. pc' = [pc EXCEPT ![r] = pc'[r]] /\ pc'[r] \in {"purge", "countIp"}
      BY <1>0, <2>4
    <2>6. pc'[r] \notin {"countAll", "insert"} /\ job'[r].now <= clock
      BY <1>0, <2>3, <2>5
    <2> QED BY <2>2, <2>3, <2>5, <2>6, CapsBefore
  <1>2. ASSUME NEW from, NEW to, Step(r, from, to), to \notin {"countAll", "insert"},
               from # "idle", clients' \subseteq clients, clock' = clock
        PROVE  CapInv'
    <2>1. pc' = [pc EXCEPT ![r] = pc'[r]] /\ pc'[r] = to /\ pc[r] = from
      BY <1>0, <1>2 DEF Step
    <2>2. job' = [job EXCEPT ![r] = job'[r]] /\ (to # "idle" => job'[r] = job[r])
      BY <1>0, <1>2 DEF Step
    <2> QED BY <1>0, <1>2, <2>1, <2>2, CapsBefore
  <1>3. CASE PurgeExpired(r)
    BY <1>2, <1>3 DEF PurgeExpired
  <1>4. CASE PurgeStaleClients(r)
    BY <1>2, <1>4 DEF PurgeStaleClients
  <1>5. CASE AbortRegistration(r)
    BY <1>2, <1>5 DEF AbortRegistration
  <1>6. CASE CountIp(r)
    <2>1. CASE Step(r, "countIp", "countAll")
      BY <1>0, <1>6, <2>1, CapsCountIp DEF Step
    <2>2. CASE Step(r, "countIp", "idle")
      BY <1>2, <1>6, <2>2 DEF CountIp
    <2> QED BY <1>6, <2>1, <2>2 DEF CountIp
  <1>7. CASE CountAll(r)
    <2>1. CASE Step(r, "countAll", "insert")
      BY <1>0, <1>7, <2>1, CapsCountAll DEF Step
    <2>2. CASE Step(r, "countAll", "idle")
      BY <1>2, <1>7, <2>2 DEF CountAll
    <2> QED BY <1>7, <2>1, <2>2 DEF CountAll
  <1>8. CASE InsertClient(r)
    BY <1>8, CapsInsert
  <1> QED BY <1>1, <1>3, <1>4, <1>5, <1>6, <1>7, <1>8 DEF RegistrationRequest

LEMMA StepCaps == ConsentInv /\ CapInv /\ [Next]_vars => CapInv'
  <1> SUFFICES ASSUME ConsentInv, CapInv, [Next]_vars PROVE CapInv'
    OBVIOUS
  <1>0. clock \in Nat /\ tab \in [Tabs -> Tab]
    BY DEF ConsentInv, TypeOK, Times
  <1>1. CASE \E r \in Reqs : RegistrationRequest(r)
    BY <1>1, CapsRequest
  <1>2. CASE \E t \in Tabs : Browse(t)
    <2>1. PICK t \in Tabs : Browse(t)
      BY <1>2
    <2>2. clock' = clock /\ pc' = pc /\ job' = job
      BY <2>1 DEF Browse, OpenAuthorize, ConnectPage, Authorize, ShowConsent, Callback,
                  FinishSignIn, Approve, MarkAuthorized, Leave, registration
    <2>3. clients' = clients \/ \E id \in Ids : Stamp(id)
      <3>1. CASE ShowConsent(t)
        <4>1. tab[t].client \in Ids
          BY <3>1 DEF ShowConsent, ConsentInv, TabOK
        <4> QED BY <3>1, <4>1 DEF ShowConsent
      <3>2. CASE MarkAuthorized(t)
        <4>1. tab[t].client \in Ids
          BY <3>2 DEF MarkAuthorized, ConsentInv, TabOK
        <4> QED BY <3>2, <4>1 DEF MarkAuthorized
      <3>3. CASE ~ShowConsent(t) /\ ~MarkAuthorized(t)
        BY <2>1, <3>3 DEF Browse, OpenAuthorize, ConnectPage, Authorize, Callback,
                          FinishSignIn, Approve, Leave
      <3> QED BY <3>1, <3>2, <3>3
    <2> QED BY <1>0, <2>2, <2>3, CapsElsewhere
  <1>3. CASE ConsumeCode \/ StoreTokens
    <2>1. clock' = clock /\ pc' = pc /\ job' = job /\ clients' = clients
      BY <1>3 DEF ConsumeCode, StoreTokens, registration
    <2> QED BY <1>0, <2>1, CapsElsewhere
  <1>4. CASE Tick
    <2>1. clock' = clock + 1 /\ pc' = pc /\ job' = job /\ clients' = clients
      BY <1>4 DEF Tick, registration
    <2> QED BY <1>0, <2>1, CapsElsewhere
  <1>5. CASE UNCHANGED vars
    <2>1. clock' = clock /\ pc' = pc /\ job' = job /\ clients' = clients
      BY <1>5 DEF vars
    <2> QED BY <1>0, <2>1, CapsElsewhere
  <1> QED BY <1>1, <1>2, <1>3, <1>4, <1>5 DEF Next

\* Registrations under way together pass a cap by no more than the others
\* under way, whatever is swept, stamped or aborted meanwhile.
THEOREM RegistrationsStayBounded == Spec => []RegistrationsBounded
  <1>1. CapInv => RegistrationsBounded
    <2> SUFFICES ASSUME CapInv PROVE RegistrationsBounded
      OBVIOUS
    <2>1. ASSUME NEW ips \in SUBSET Ips, NEW P \in SUBSET Reqs, NEW cap \in Nat,
                 Bounded(ips, P, cap)
          PROVE  Recent(ips) <= cap + Cardinality(Reqs) - 1
      BY <2>1, RequestCounts, RecentIsCount DEF Bounded, CapInv
    <2>2. {PerIp, PerDay} \subseteq Nat
      BY ConsentAssumption
    <2>3. \A ip \in Ips \ {Unknown} : Recent({ip}) <= PerIp + Cardinality(Reqs) - 1
      BY <2>1, <2>2 DEF CapInv, PastIp
    <2>4. Recent(Ips) <= PerDay + Cardinality(Reqs) - 1
      BY <2>1, <2>2 DEF CapInv, PastAll
    <2> QED BY <2>3, <2>4 DEF RegistrationsBounded
  <1> QED BY <1>1, InitConsent, StepConsent, InitCaps, StepCaps, PTL DEF Spec

===============================================================================
