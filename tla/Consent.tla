------------------------------- MODULE Consent -------------------------------
(***************************************************************************)
(* How a client gets to ask for a code: dynamic registration with its caps *)
(* and its sweep, and the way of a browser tab through the authorization   *)
(* endpoint, the Google sign-in and the consent page (src/oauth.py,        *)
(* src/oauthroutes.py, src/webauth.py, the client table of oauthstore.py). *)
(*                                                                         *)
(* A request is a coroutine; each action below is what it does from one    *)
(* await to the next. Cookies and the consent form are signed, so their    *)
(* contents are what the server put there. Clients registered by URL have  *)
(* no row and are neither stamped nor swept; they are left out, as are     *)
(* requests refused for what they say (redirect URIs, grant types, PKCE).  *)
(***************************************************************************)
EXTENDS Naturals, FiniteSets

CONSTANTS
  Users,      \* Google accounts, those who sit at the browser
  Tabs,       \* tabs of the one browser: they share its cookies
  Reqs,       \* registration requests under way at the same time
  Instances, Host,   \* server processes, and which one serves a request
  Ips, Unknown,      \* addresses; the one the platform did not give us
  None,
  PerIp, PerDay,     \* DCR_MAX_PER_IP_PER_DAY, DCR_MAX_PER_DAY
  CapWindow,         \* the 24 hours the caps count over, in ticks
  StaleAfter,        \* STALE_CLIENT_SECONDS
  SweepEvery,        \* SWEEP_INTERVAL_SECONDS
  StateTTL, SessionTTL, PageTTL, CodeTTL, TokenTTL,
  StoreFaults,       \* whether the store may refuse a stamp
  MaxClients, MaxFlows, MaxGrants, MaxClock,
  MaxBegun           \* bounds of the model; the last: registrations and
                     \* tabs begun

ASSUME ConsentAssumption ==
  /\ Host \in [Reqs -> Instances]
  /\ Unknown \in Ips
  /\ None \notin Users \cup Nat
  /\ IsFiniteSet(Reqs) /\ Reqs # {}
  /\ {PerIp, PerDay, CapWindow, StaleAfter, SweepEvery, StateTTL, SessionTTL,
      PageTTL, CodeTTL, TokenTTL, MaxClients, MaxFlows, MaxGrants, MaxClock,
      MaxBegun} \subseteq Nat
  /\ MaxClients > 0 /\ PerIp > 0 /\ PerDay > 0
  /\ StoreFaults \in BOOLEAN

VARIABLES
  clock,
  clients,    \* rows of free_mcp_oauth_clients
  grants,     \* codes and tokens, as far as a client hangs on them
  exchanges,  \* codes consumed whose tokens are not stored yet
  lastSweep,  \* _SWEEP_STATE of each instance
  pc, job,    \* where each registration stands, and what it carries
  cookie,     \* the sign-in state cookie of the browser
  session,    \* its session cookie
  tab,        \* where each tab stands, and what it shows
  \* History.
  lastClient, lastFlow, begun,   \* ids given out, work begun
  shown       \* which account was shown the consent page of which client

vars == <<clock, clients, grants, exchanges, lastSweep, pc, job, cookie,
          session, tab, lastClient, lastFlow, begun, shown>>

browser == <<cookie, session, tab, lastFlow, shown>>
registration == <<lastSweep, pc, job, lastClient>>

-----------------------------------------------------------------------------
Ids == 1 .. MaxClients
Flows == 1 .. MaxFlows
Times == 0 .. MaxClock

Client == [id : Ids, ip : Ips, created : Times, stamped : BOOLEAN]

\* A stored code or token. kept: its client had a row when it was stored.
Grant == [kind : {"code", "token"}, client : Ids, user : Users,
          expires : Nat, kept : BOOLEAN]

RegistrationSteps == {"idle", "purge", "sweep", "countIp", "countAll", "insert"}

NoJob == [ip |-> Unknown, now |-> 0]

\* The signed state cookie: next is the client whose authorization the flow
\* returns to, or None.
StateCookie == [flow : Flows, next : Ids \cup {None}, expires : Nat]
Session == [user : Users, expires : Nat]

\* A tab. asked is history: the client that sent the user to this tab.
\*   authorize  about to GET the authorization endpoint for client
\*   stamp      row found, signed in as user; the stamp is next
\*   google     at Google, in a flow begun by this tab
\*   finishing  Google is asked about the answer; next read from the cookie
\*   page       the consent page of client is on screen
\*   mark       approved; the code is stored, the stamp is next
TabSteps == {"idle", "authorize", "stamp", "google", "finishing", "page", "mark"}
Tab == [at : TabSteps, asked : Ids \cup {None}, flow : Flows \cup {None},
        next : Ids \cup {None}, user : Users \cup {None},
        client : Ids \cup {None}, expires : Nat, stamped : BOOLEAN]
Blank == [at |-> "idle", asked |-> None, flow |-> None, next |-> None,
          user |-> None, client |-> None, expires |-> 0, stamped |-> FALSE]

TypeOK ==
  /\ clock \in Times
  /\ clients \subseteq Client
  /\ grants \subseteq Grant
  /\ exchanges \subseteq Grant
  /\ lastSweep \in [Instances -> Times \cup {None}]
  /\ pc \in [Reqs -> RegistrationSteps]
  /\ job \in [Reqs -> [ip : Ips, now : Times]]
  /\ cookie \in StateCookie \cup {None}
  /\ session \in Session \cup {None}
  /\ tab \in [Tabs -> Tab]
  /\ \A t \in Tabs : tab[t].at \in {"page", "mark"} =>
                       tab[t].client \in Ids /\ tab[t].user \in Users
  /\ lastClient \in 0 .. MaxClients
  /\ lastFlow \in 0 .. MaxFlows
  /\ begun \in 0 .. MaxBegun
  /\ shown \subseteq Users \X Ids

\* A client may have registered just before the model begins.
Init ==
  /\ clock = 0
  /\ clients \in {{}} \cup {{[id |-> 1, ip |-> ip, created |-> 0, stamped |-> FALSE]} :
                            ip \in Ips}
  /\ lastClient = Cardinality(clients)
  /\ grants = {}
  /\ exchanges = {}
  /\ lastSweep = [i \in Instances |-> None]
  /\ pc = [r \in Reqs |-> "idle"]
  /\ job = [r \in Reqs |-> NoJob]
  /\ cookie = None
  /\ session = None
  /\ tab = [t \in Tabs |-> Blank]
  /\ lastFlow = 0
  /\ begun = 0
  /\ shown = {}

-----------------------------------------------------------------------------
(* Statements on the tables.                                               *)

Row(id) == {c \in clients : c.id = id}
HasRow(id) == Row(id) # {}

\* _MARK_CLIENT_AUTHORIZED, or its failure, which is logged and ignored.
Stamped(id) == (clients \ Row(id)) \cup {[c EXCEPT !.stamped = TRUE] : c \in Row(id)}

Stamp(id) == clients' \in {Stamped(id)} \cup (IF StoreFaults THEN {clients} ELSE {})

\* _COUNT_CLIENTS and _COUNT_CLIENTS_BY_IP.
CountSince(since, ips) ==
  Cardinality({c \in clients : c.created >= since /\ c.ip \in ips})

\* Python's now - d, which may lie before the model began.
Before(now, d) == IF now >= d THEN now - d ELSE 0

\* Mutant: the cap itself is let through.
UnderCapInclusive(r, ips, cap) ==
  CountSince(Before(job[r].now, CapWindow), ips) <= cap

\* The caps, as a registration meets them.
UnderCap(r, ips, cap) == CountSince(Before(job[r].now, CapWindow), ips) < cap

\* Mutant: a client with an outstanding code only is not in use.
InUseByToken(id) == \E g \in grants : g.client = id /\ g.kind = "token"

\* _PURGE_STALE_CLIENTS
InUse(id) == \E g \in grants : g.client = id

\* Mutant: the sweep does not look at the stamp.
StaleStamped(c, now) == c.created + StaleAfter < now /\ ~InUse(c.id)

Stale(c, now) ==
  /\ c.created + StaleAfter < now
  /\ ~c.stamped
  /\ ~InUse(c.id)

-----------------------------------------------------------------------------
(* Registration.                                                           *)

Begin == begun < MaxBegun /\ begun' = begun + 1

Step(r, from, to) ==
  /\ pc[r] = from
  /\ pc' = [pc EXCEPT ![r] = to]
  /\ job' = IF to = "idle" THEN [job EXCEPT ![r] = NoJob] ELSE job

SweepDue(i, now) == lastSweep[i] = None \/ now >= lastSweep[i] + SweepEvery

\* register and _sweep: the sweep is stamped before its work.
Register(r, ip) ==
  /\ lastClient < MaxClients
  /\ pc[r] = "idle"
  /\ Begin
  /\ job' = [job EXCEPT ![r] = [ip |-> ip, now |-> clock]]
  /\ IF SweepDue(Host[r], clock)
     THEN /\ lastSweep' = [lastSweep EXCEPT ![Host[r]] = clock]
          /\ pc' = [pc EXCEPT ![r] = "purge"]
     ELSE /\ lastSweep' = lastSweep
          /\ pc' = [pc EXCEPT ![r] = "countIp"]
  /\ UNCHANGED <<clock, clients, grants, exchanges, lastClient, browser>>

\* purge_expired; a store that refuses ends the sweep, not the registration.
PurgeExpired(r) ==
  /\ \/ /\ Step(r, "purge", "sweep")
        /\ grants' = {g \in grants : g.expires >= job[r].now}
     \/ /\ Step(r, "purge", "countIp")
        /\ StoreFaults
        /\ grants' = grants
  /\ UNCHANGED <<begun, clock, clients, exchanges, lastSweep, lastClient, browser>>

PurgeStaleClients(r) ==
  /\ Step(r, "sweep", "countIp")
  /\ \/ clients' = {c \in clients : ~Stale(c, job[r].now)}
     \/ StoreFaults /\ clients' = clients
  /\ UNCHANGED <<begun, clock, grants, exchanges, lastSweep, lastClient, browser>>

\* _check_registration_caps: the address first, unless it is unknown.
CountIp(r) ==
  /\ Step(r, "countIp", IF job[r].ip = Unknown \/ UnderCap(r, {job[r].ip}, PerIp)
                        THEN "countAll" ELSE "idle")
  /\ UNCHANGED <<begun, clock, clients, grants, exchanges, lastSweep, lastClient, browser>>

CountAll(r) ==
  /\ Step(r, "countAll", IF UnderCap(r, Ips, PerDay) THEN "insert" ELSE "idle")
  /\ UNCHANGED <<begun, clock, clients, grants, exchanges, lastSweep, lastClient, browser>>

\* _INSERT_CLIENT; created_at is the database's own clock.
InsertClient(r) ==
  /\ Step(r, "insert", "idle")
  /\ lastClient < MaxClients
  /\ lastClient' = lastClient + 1
  /\ clients' = clients \cup {[id |-> lastClient + 1, ip |-> job[r].ip,
                               created |-> clock, stamped |-> FALSE]}
  /\ UNCHANGED <<begun, clock, grants, exchanges, lastSweep, browser>>

\* The store refuses, the body turns out invalid, the caller hangs up.
AbortRegistration(r) ==
  /\ pc[r] # "idle"
  /\ Step(r, pc[r], "idle")
  /\ UNCHANGED <<begun, clock, clients, grants, exchanges, lastSweep, lastClient, browser>>

-----------------------------------------------------------------------------
(* The browser.                                                            *)

Valid(c) == c # None /\ clock < c.expires

\* read_session
Signed == IF Valid(session) THEN session.user ELSE None

Show(t, new) == tab' = [tab EXCEPT ![t] = new]

\* A client sends its user to the authorization endpoint, in a tab.
OpenAuthorize(t, id) ==
  /\ tab[t].at = "idle"
  /\ id <= lastClient
  /\ Begin
  /\ Show(t, [Blank EXCEPT !.at = "authorize", !.asked = id, !.client = id])
  /\ UNCHANGED <<clock, clients, grants, exchanges, cookie, session, lastFlow,
                 shown, registration>>

\* connect_start: a fresh state, in the URL and in the cookie.
StartSignIn(t, next) ==
  /\ lastFlow < MaxFlows
  /\ lastFlow' = lastFlow + 1
  /\ cookie' = [flow |-> lastFlow + 1, next |-> next, expires |-> clock + StateTTL]
  /\ Show(t, [Blank EXCEPT !.at = "google", !.flow = lastFlow + 1,
                    !.asked = tab[t].asked])

\* /connect, with no client waiting.
ConnectPage(t) ==
  /\ tab[t].at = "idle"
  /\ Signed = None
  /\ Begin
  /\ StartSignIn(t, None)
  /\ UNCHANGED <<clock, clients, grants, exchanges, session, shown, registration>>

\* Mutant: the page is rendered for whoever asks.
AuthorizeUnsigned(t) ==
  /\ tab[t].at = "authorize"
  /\ HasRow(tab[t].client)
  /\ Show(t, [tab[t] EXCEPT !.at = "stamp", !.user = Signed])
  /\ UNCHANGED <<begun, clock, clients, grants, exchanges, cookie, session,
                 lastFlow, shown, registration>>

\* authorize (GET): an unknown client ends here; a user who is not signed in
\* goes to Google and comes back.
Authorize(t) ==
  /\ tab[t].at = "authorize"
  /\ \/ /\ ~HasRow(tab[t].client)
        /\ Show(t, Blank)
        /\ UNCHANGED <<cookie, lastFlow>>
     \/ /\ HasRow(tab[t].client)
        /\ Signed = None
        /\ StartSignIn(t, tab[t].client)
     \/ /\ HasRow(tab[t].client)
        /\ Signed # None
        /\ Show(t, [tab[t] EXCEPT !.at = "stamp", !.user = Signed])
        /\ UNCHANGED <<cookie, lastFlow>>
  /\ UNCHANGED <<begun, clock, clients, grants, exchanges, session, shown, registration>>

\* note_consent_shown, then the page, its form sealed for this user. stamped
\* is history: the stamp found the row.
ShowConsent(t) ==
  LET x == tab[t]
  IN /\ x.at = "stamp"
     /\ Stamp(x.client)
     /\ Show(t, [x EXCEPT !.at = "page", !.expires = clock + PageTTL,
                   !.stamped = \E c \in clients' : c.id = x.client /\ c.stamped])
     /\ shown' = shown \cup {<<x.user, x.client>>}
     /\ UNCHANGED <<begun, clock, grants, exchanges, cookie, session, lastFlow, registration>>

\* Mutant: any state cookie of ours will do.
AnyCookie(t) == Valid(cookie)

\* finish: the cookie must be the one of the flow that comes back.
CookieMatches(t) == Valid(cookie) /\ cookie.flow = tab[t].flow

Callback(t) ==
  /\ tab[t].at = "google"
  /\ \/ /\ CookieMatches(t)
        /\ Show(t, [tab[t] EXCEPT !.at = "finishing", !.next = cookie.next])
     \/ /\ ~CookieMatches(t)
        /\ Show(t, Blank)
  /\ UNCHANGED <<begun, clock, clients, grants, exchanges, cookie, session, lastFlow,
                 shown, registration>>

\* Google answers: who signed in, or that it will not exchange the code. The
\* response sets the session and drops the state cookie, whichever is there.
FinishSignIn(t) ==
  /\ tab[t].at = "finishing"
  /\ \/ \E u \in Users :
          /\ session' = [user |-> u, expires |-> clock + SessionTTL]
          /\ cookie' = None
          /\ Show(t, IF tab[t].next = None THEN Blank
                     ELSE [Blank EXCEPT !.at = "authorize", !.asked = tab[t].asked,
                                        !.client = tab[t].next])
     \/ /\ Show(t, Blank)
        /\ UNCHANGED <<cookie, session>>
  /\ UNCHANGED <<begun, clock, clients, grants, exchanges, lastFlow, shown, registration>>

-----------------------------------------------------------------------------
(* The decision, and the exchange that follows it.                         *)

\* Mutant: the form is taken from whoever is signed in.
FormAcceptedFromAnyone(t) == Signed # None /\ clock < tab[t].expires

\* csrf_ok and open_request: the form was made for who is signed in now.
FormAccepted(t) == Signed # None /\ Signed = tab[t].user /\ clock < tab[t].expires

\* authorize_decision: a code for who is signed in, and the client of the form.
Approve(t) ==
  /\ tab[t].at = "page"
  /\ FormAccepted(t)
  /\ Cardinality(grants \cup exchanges) < MaxGrants
  /\ grants' = grants \cup {[kind |-> "code", client |-> tab[t].client, user |-> Signed,
                             expires |-> clock + CodeTTL, kept |-> HasRow(tab[t].client)]}
  /\ Show(t, [tab[t] EXCEPT !.at = "mark"])
  /\ UNCHANGED <<begun, clock, clients, exchanges, cookie, session, lastFlow, shown, registration>>

MarkAuthorized(t) ==
  /\ tab[t].at = "mark"
  /\ Stamp(tab[t].client)
  /\ Show(t, Blank)
  /\ UNCHANGED <<begun, clock, grants, exchanges, cookie, session, lastFlow, shown, registration>>

\* The user declines, or is refused, or closes the tab, or a request dies.
Leave(t) ==
  /\ tab[t].at # "idle"
  /\ Show(t, Blank)
  /\ UNCHANGED <<begun, clock, clients, grants, exchanges, cookie, session, lastFlow,
                 shown, registration>>

\* The token endpoint, as far as the client's row is concerned: a client that
\* is there consumes a code, and stores tokens some awaits later.
ConsumeCode ==
  \E g \in grants :
    /\ g.kind = "code" /\ clock < g.expires /\ HasRow(g.client)
    /\ grants' = grants \ {g}
    /\ exchanges' = exchanges \cup {g}
    /\ UNCHANGED <<begun, clock, clients, browser, registration>>

StoreTokens ==
  \E g \in exchanges :
    /\ exchanges' = exchanges \ {g}
    /\ grants' = grants \cup {[g EXCEPT !.kind = "token", !.expires = clock + TokenTTL,
                                        !.kept = HasRow(g.client)]}
    /\ UNCHANGED <<begun, clock, clients, browser, registration>>

Tick ==
  /\ clock < MaxClock
  /\ clock' = clock + 1
  /\ UNCHANGED <<begun, clients, grants, exchanges, browser, registration>>

RegistrationRequest(r) ==
  \/ \E ip \in Ips : Register(r, ip)
  \/ PurgeExpired(r) \/ PurgeStaleClients(r) \/ CountIp(r) \/ CountAll(r)
  \/ InsertClient(r) \/ AbortRegistration(r)

Browse(t) ==
  \/ \E id \in Ids : OpenAuthorize(t, id)
  \/ ConnectPage(t) \/ Authorize(t) \/ ShowConsent(t)
  \/ Callback(t) \/ FinishSignIn(t) \/ Approve(t) \/ MarkAuthorized(t) \/ Leave(t)

Next ==
  \/ \E r \in Reqs : RegistrationRequest(r)
  \/ \E t \in Tabs : Browse(t)
  \/ ConsumeCode \/ StoreTokens \/ Tick

Spec == Init /\ [][Next]_vars

-----------------------------------------------------------------------------
(* Properties.                                                             *)

\* The caps are counted before the insert, in statements of their own, so
\* registrations under way together can pass them: by no more than the others
\* under way. The sweep never makes room, as it takes older rows only.
Recent(ips) == CountSince(Before(clock, CapWindow), ips)

RegistrationsBounded ==
  /\ \A ip \in Ips \ {Unknown} : Recent({ip}) <= PerIp + Cardinality(Reqs) - 1
  /\ Recent(Ips) <= PerDay + Cardinality(Reqs) - 1

\* A registration that a user has in front of them, or that has an unexpired
\* code or token, keeps its row, whatever is swept meanwhile and even when a
\* stamp failed: so an approval can always be exchanged. (Unless the row went
\* before its stamp or its grant arrived: stamped, kept.)
ConsentKeepsClient ==
  /\ \A t \in Tabs : tab[t].at \in {"page", "mark"} /\ tab[t].stamped
                       => HasRow(tab[t].client)
  /\ \A g \in grants : g.kept => HasRow(g.client)

\* A code is for an account that was shown the consent page of that very
\* client, though another account may sign in, in another tab, between the
\* page and the decision.
ApprovedAsShown ==
  \A g \in grants \cup exchanges : <<g.user, g.client>> \in shown

\* Each tab ends up at the consent page of the client that opened it, though
\* the tabs share one state cookie and their sign-ins overlap.
LandsWhereStarted ==
  \A t \in Tabs : tab[t].at \in {"stamp", "page", "mark"} => tab[t].client = tab[t].asked

\* "must not be deleted while the consent page is on screen" (authorize): the
\* row may go between its lookup and its stamp.
PageHasClient ==
  \A t \in Tabs : tab[t].at = "page" => HasRow(tab[t].client)

=============================================================================
