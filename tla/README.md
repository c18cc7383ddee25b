# TLA+ models of the free Google Flights MCP server

This directory holds TLA+ models of the server in `src/`, the TLC configurations
that check them on small instances, and theorems about them that TLAPS checks for
every instance. The reference for every definition is the Python source (and the
SQL it sends); `PROJECT.json` gives, for each definition, the lines it stands for.

## The system

The server is an ASGI application, deployed as short-lived serverless instances in
front of a Postgres database (sign-in, accounts), a Redis counter store (usage) and
a search backend. Everything that must survive an instance is a row or a counter;
everything else is a dictionary of one process. A request is a coroutine, and each
statement it sends is a transaction of its own, so between two awaits of one
request anything may happen in another, on the same instance or elsewhere.

| Component | State | Operations | Talks to | Modelled by |
|---|---|---|---|---|
| Token endpoint (`oauth.py`, `oauthstore.py`, `oauthroutes.py`) | codes, tokens, replay memory per process | approve, exchange, refresh, replay, detect reuse, revoke, delete account, purge | Postgres, account rows | `OAuthTokens` |
| Client registration (`oauth.py`, `oauthstore.py`) | clients, sweep clock per process | register, check caps, sweep, stamp | Postgres | `Consent` |
| Google sign-in, authorization and consent pages (`webauth.py`, `oauth.py`, `oauthroutes.py`) | signed cookies, sealed form | start, callback, session, decide | Google, the clients | `Consent`, partly |
| Resource gate, discovery, anonymous gate (`oauth.py`, `discovery.py`, `anon_gate.py`, `api/index.py`) | none | validate, challenge, pass, refuse | tokens, counters | `Door` |
| Fair use and hard limit (`fair_use.py`, `hard_limit.py`, `stores.py`, `server.py`) | counters per client, day, month and ten-minute slot | identify, admit, refuse, record | Redis, the search | `FairUse`, partly |
| Search fan-out (`fanout.py`, `lambda_client.py`, `server.py`) | none across calls | plan, sample, execute, retry, merge | the backend | `Search` |
| Result selection (`server.py`) | none | dedupe, select, account for, report | - | `Search`, partly |
| Counter stores and metrics (`stores.py`, `telemetry.py`) | buckets, hashes, log file | bump, read, expire, replay | Redis, the log | `Counters`, partly |
| Account rows and mail (`freeusers.py`, `maillist.py`) | accounts, usage days, mail stamps | sign in, sync, claim, send, release, opt out, delete | Postgres, the mail provider | `MailLane`, partly |
| Caller classification (`policy.py`) | the loaded feed, per process | load once, classify, decide | a published feed | `FairUse`, its loading |
| Metadata documents (`cimd.py`) | cache per process | load, expire | the client's host | - |
| Rate limiter (`ratelimit.py`) | hits per key, per process | allow, prune | - | - |
| Backend clients, settings, presentation, migrations | none | - | - | where the models touch them |

### What makes each part correct, and what is hard about it

* **Token endpoint.** A code is used once; a token descends from an approval of its
  user for its client; a client is never left without a working refresh token by a
  crash; a revoked line is dead; a retry of a lost response is answered with the
  pair it lost. Hard: each of these is a sequence of separate statements, requests
  interleave, a request may die at any await, the replay memory is lost with its
  instance, the response may be lost.
* **Registration and consent.** The caps hold; a client a human has in front of
  them, or that holds a grant, is never swept; a tab ends at the client it was
  opened for; a code is for who approved it. Hard: the caps are counted before the
  insert; the sweep runs inside other requests and its stamp may fail; tabs share
  their cookies.
* **The door.** Whatever a request looks like, it is charged to whom it belongs;
  whoever may come in is let in. Hard: four layers look at the request on their own
  and await a store in between, and deployments stack them differently.
* **Fair use.** A client spends at most its cap; a refused loop is escalated and
  the escalation ends by itself. Hard: usage is read before the spend and written
  after it; the clock rolls over in between; store failures are swallowed.
* **Search.** The searches made represent what was asked; the answer accounts for
  every one of them and says what is missing; the call ends. Hard: searches finish
  in any order, fail one by one, are capped by sampling and hidden by a limit.
* **Counters.** The breakdowns agree with each other and with the log; nothing is
  counted twice; the route histogram is bounded. Hard: pipelines whose answer is
  lost, instances that do not know of each other, days that end, restarts.
* **Mail lane.** One welcome per account, paced cap notes up to a daily ceiling,
  nothing claimed after an opt-out. Hard: claims, sends and releases are separate
  steps in background tasks racing deletion and a new sign-in.

The `hazards` of `PROJECT.json` list these at their lines, each with the properties
that cover it or the reason why none does.

## Modules

| Module | What it is |
|---|---|
| `GrantLifecycle` | abstract: what one user approval may go through (none, offered, active, ended) |
| `OAuthTokens`, `MCOAuthTokens`, `OAuthTokensProofs` | the token endpoint, statement by statement |
| `Consent`, `MCConsent`, `ConsentProofs` | registration, its caps and sweep; sign-in, consent page and decision |
| `Door`, `MCDoor`, `DoorProofs` | the layers between an HTTP request and a tool |
| `FairUse`, `MCFairUse`, `FairUseProofs` | caps, counters, refusals and the 429 |
| `Search`, `MCSearch`, `SearchProofs` | one tool call from its arguments to its answer |
| `Counters`, `MCCounters`, `CountersProofs` | the two counter stores, the log and its replay |
| `MailLane`, `MCMailLane`, `MailLaneProofs` | account rows and the mail they receive |
| `Sums` | lemmas about sums and about slots of time, for the proofs |

The `MC` modules give TLC what a `.cfg` cannot write (functions, records, symmetry).
The modules meet at narrow interfaces rather than in one product, whose states TLC
could not enumerate: `Door` takes from `OAuthTokens` only that a token turns from
live to dead at some time, and from `FairUse` only that a key is at its cap or not;
`FairUse` hands `Search` a number of backend calls (`Caps`) and takes from it how
many it made; `Consent` keeps of the tokens what the sweep looks at (who has a
grant, and until when).

### OAuthTokens

`codes`, `tokens` and `accounts` are the tables of `oauthstore.py` and
`freeusers.py`; `replay[i]` is `_REPLAY` of instance `i`; `pc[r]` and `job[r]` are
where a request stands and its locals. `held` is every token that has reached a
client: the tokens a client can present. The history variables (`consents`,
`grants`, `revoked`, `withdrawn`) are written and read by no code; the properties
compare the tables with them.

An action is what runs from one await to the next. Refreshing is
`Refresh` (the token is read and found good), `PutAccess`, `PutRefresh` (two
INSERTs), `Rotate` (the UPDATE commits) and `Answer` (back in the coroutine: the
pair is remembered and the response leaves, perhaps to be lost). A refresh whose
token is not usable is `RefreshMisses`, `TakeReplay`, `DetectReuse`, `EndFamily`.
Exchanging is `ExchangeCode` (DELETE ... RETURNING), `PutAccess`, `PutRefresh`,
`Answer`. Logging out is `Revoke` then `EndFamily` or `EndToken`; deleting an
account is `DeleteAccount` then `DeleteRow`; approving is `Approve` then
`RecordUser`. `Abort` ends a request at any await, `Restart` ends an instance with
its requests and its memory, `Tick` lets time pass, `PurgeExpired` is the part of
the registration sweep that touches these tables.

What is abstracted: random values are fresh identities and the store's hashes are
the identities themselves; a request that is refused before it changes anything
(client authentication, PKCE, redirect URI, scope, resource, a token of another
client) is not a step, except that a refused code is consumed (`RefuseCode`); the
value of `now` a request carries is the time of its first statement on the token
tables; the sweep of stale clients and the way to an approval are in `Consent`.

### GrantLifecycle

The promise to the user, per approval, without tokens, clients or clocks: an
approval is offered once, starts a line of tokens at most once, and a line that has
ended never comes back. `OAuthTokens` implements it under the mapping `Phase`: an
approval is active while a row of its family exists or a request is about to write
one.

### Consent

`clients` is the registration table, `lastSweep` the `_SWEEP_STATE` of each
instance, `grants` the codes and tokens as far as a client hangs on them. A
registration is `Register` (which stamps a due sweep before its work),
`PurgeExpired`, `PurgeStaleClients` (each may fail, which ends the sweep and not the
registration), `CountIp`, `CountAll` and `InsertClient`: a statement each. `cookie` and `session` are the two cookies of the browser, shared
by its `tab`s; a tab carries what is in its address bar and on its page. The way of
a tab is `OpenAuthorize` (a client sends its user there), `Authorize` (row found?
signed in?), `Callback` and `FinishSignIn` around the exchange with Google,
`ShowConsent` (the stamp, then the page with its sealed form), `Approve` and
`MarkAuthorized`. `ConsumeCode` and `StoreTokens` are what the token endpoint does
to a client's claim on its row.

What is abstracted: signatures are ideal, so cookies and forms hold what the server
put there; the ID token and its checks are part of the one step in which Google
answers, for any account, or not at all; clients registered by URL have no row and
are left out, as is everything refused for what it says. `stamped` and `kept`
remember whether a stamp or a grant found its row, `shown` who was shown what.

### Door

A slot is a request being served: `stage` says which layer has it, `job` what it
carries. `Gate` is the OAuth gate up to its first await, `Lookup` and `LookupFails`
its token lookup, `HardLimit` and `AnonCap401` the two caps, `Handshake` and
`ToolCall` what the MCP library and the tool handler make of the body, `Search` the
charge. Around it tokens are issued and expire, days and hours end, the feed of
gateway ranges loads, instances restart. `config` is the deployment: `api/index.py`
with sign-in configured and `FREE_ANON_MODE` challenge or open, without sign-in, and
`python -m src`, which installs the hard limit only.

What is abstracted: a body is what the layers tell apart (batch or not, the kinds of
methods in it, and its size: "large" is past `MAX_DISCOVERY_BODY` but still read
whole, "huge" is cut off at `MAX_SNIFF_BYTES`; a body past both that arrives in a single
ASGI message is read whole all the same and counts as "large"); a counter that has reached the
highest threshold it is compared with stays there (`Counted`); how much a search
costs, warnings and wording are left out. `sound` remembers that a request's token
was good, and the store answered, ever since it arrived.

### FairUse

`used[c]` holds the day and month counters of caller `c` (`fair_use_keys`),
`refusals[c][a]` its ten-minute slots by age, `feed[i]` what instance `i` knows of
the published gateway addresses; `pc[r]` and `job[r]` are a tool call and what it
carries. The counters are named after the time they are written at; `Rollover` and
`Age` in `Tick` are those names changing. `served`, `recent` and `wait` are history:
the calls that were answered, the refusals that were sent and the Retry-After that
was given.

A call is `Arrive` (`HardLimitMiddleware` reads the refusals and lets it in or not)
or `HardLimit` (the 429), `StartLoad` and `FinishLoad` if it is the one that loads
the feed, `Enter` otherwise (both identify the caller and read its usage in
`Decide`), `Refuse`, or the search, ended by `Answer`, `HotelFails` or `Abort`.
Flights and hotels share the path; they differ in what they may spend (`Grants`)
and in what is recorded when the backend fails.

What is abstracted: a caller is its key, and of the kinds of key the model keeps whether
it stands for many people; how far the daily budget and the caller's tier lower the
fan-out is any value those functions can return (`TierCaps`, `FanoutCaps`); a request
that finds the load of the feed under way goes on without it, as one does within the
cool-down that the load began with (300 seconds): to wait at the lock of `policy.py:148`
a load would have to outlast it, its time-out being 10; the time a record carries is the
time of its write; the counters only the metrics page reads are in `Counters`; the
wording and the warning levels are left out.

### Search

One call at a time: calls share nothing but what `FairUse` and `Counters` model.
`Combos`, `Sample`, `Capped` and `EffectiveLimit` are planning, as operators over
the arguments; `tasks[i]` is the search of the i-th combination. `Acquire` is the
semaphore, `Answered`, `Stumbles`, `Refused` and `Retry` the attempts of one search,
which holds its place throughout; `FinishFlights` records the spend and makes the
answer with `Selected`, `ByDestination`, `Status` and `FirstLine`; `FinishHotel` is
the one search of a hotel call; `Cancel` the caller that goes away.

What is abstracted: a row is its link, its price and its duration; dates are
numbers; the backoff has no length; stay filters, the card and wording are left
out. `Sample` leaves out the backfill of `evenly_sample` for collapsed picks:
`SampleIsEven` says that none collapse, and `SamplesAreEven` proves it.

### Counters

`store` is one record per store: Redis (`Shared`) or the memory of an instance,
each with totals, hours, days, the fair-use days and the day's routes. `lines` is the
log. With Redis, a call is `RecordShared` (the line, the decision whether its route
is new and the pipeline on its way), `Execute` (Redis runs it whole), then `Answered`
or `Unanswered` before or after `Execute`; in memory it is `RecordMemory`. `Expire`
is the keys' time to live, `ReadWindow` the pruning of a read, `Restart` a recycled
instance that replays its file into a memory store and never into Redis.

`Series` and `Snapshot` are what `/metrics/calls` and `/metrics` answer from it: the
hours asked for, their sum, the breakdown by tool over as many whole days, the totals
since the start, and whether the page admits that writes failed.

What is abstracted: tiers, tools and groups are written with the same fields under
more keys; refusal counters are in `FairUse`; a log line is the sum of its hour.

### MailLane

`rows` is `free_mcp_users`, `usage` the days of `free_mcp_user_days`, `contacts` the
audience at the provider; `pc[t]` and `job[t]` are a background task and its locals:
a hand-off after a first sign-in (`FetchToken`, `LookUpContact`, `CreateContact`,
`ReadRow`, `ClaimWelcome`, `PostWelcome`, `ReleaseWelcome`), a usage task after a
tool call (`BumpUsage`, `ReadSignals`, `ReadAccount`, `CountLane`, `ClaimNote`,
`PostNote`, `ReleaseNote`) or a deletion (`DeleteUsage`, `DeleteRow`). The claim of a
note is two steps because its count reads the snapshot the statement began with and
its row conditions are checked again under the row lock. `Post` may be taken, lost
without an answer, or declined. The lookup of the sync may be answered with 200, with
404, with 400 whatever there is to find, or not usefully at all, and any new account
may be known to the provider already, subscribed or not. `sent`, `births` and `undone`
(how often a post of the sync undid an unsubscribe) are history.

The contact sync promises never to subscribe an address again that has unsubscribed.
The code does so in two ways: it posts after a 400 (`maillist.py:183`), and its post is
an upsert that may follow an unsubscribe made since the lookup. `NeverResubscribes`
states the promise and is violated; `ResubscribedOncePerRow` states what is left of it,
and is what a careless change would break: there is one post per first sign-in, so
whoever unsubscribes after it is left alone, however often the account is used or signs
in, and however syncs of an account that was deleted and came back overlap.

What is abstracted: columns no step reads; addresses are verified and both notes
switched on; a task ends on the day it began.

## Runs

The properties a run checks are listed with it; each is preceded in its module by a
comment that says which promise of the code it is.

| Run | Instance | Checks | Shows |
|---|---|---|---|
| `tokens_sequential` | two clients with an approval each, one request at a time, crashes and lost responses included | `TypeOK`, `RevokedFamilyIsDead`, `OneUsableRefresh`, `AccountGoneMeansSignedOut`, `Provenance`, `DeliveredToOwner`, `ImplementsGrantLifecycle` | without concurrency, revocation and deletion are complete, a client holds one working refresh token per family and none of another client's; the refinement |
| `tokens_concurrent` | two requests on one instance | `ReplayIsFaithful`, `CodeSingleUse`, `NeverStranded`, `RotationIsFinal` | what still holds under every interleaving, abort and restart |
| `consent` | two registrations and two tabs of one browser, two accounts, failing stamps | `TypeOK`, `RegistrationsBounded`, `ConsentKeepsClient`, `ApprovedAsShown`, `LandsWhereStarted` | concurrent registrations pass a cap by one at most; the sweep spares who is in use; tabs and accounts do not mix |
| `door` | four deployments, two requests at a time, three kinds of address, a good and a foreign token | `TypeOK`, `AccountsOnly`, `WelcomeKept` | no search is charged to an address where accounts are required; whoever may come in is let in |
| `fairuse_sequential` | a direct caller and a gateway, one call each at a time, failing feed loads | `TypeOK`, `CapHolds`, `SearchesAreCharged` | the caps hold, across midnight and month, and what is answered is charged |
| `fairuse_loops` | a caller looping with two calls at a time, flights and hotels; two slots of two ticks, six ticks a day | `OvershootBounded`, `EscalatedOnTheLastHour`, `LoopsAreEscalated`, `EscalationEnds` | concurrent calls overshoot by less than one full fan-out each; the rolling hour is an hour, cannot be dodged, and lets go |
| `search` | eleven requests, six kinds of answer, caps 1 to 3 with a `MAX_AUTO_LIMIT` of 2, two searches and two attempts at a time | `TypeOK`, `EverySearchRepresented`, `ReasonsAreTrue`, `CoverageIsTold`, `SampleIsEven`, `RunEnds` | the plan is an even sample; the answer shows and accounts for every search however they end; the call ends |
| `counters` | Redis behind two instances, two instances with a log file, two without | `TypeOK`, `RoutesBounded`, `CountersMatchLog` | the route histogram stays near its cap; every breakdown agrees with the log |
| `mail_lane` | three accounts, old or new, two tasks at a time that may die or get no answer | `TypeOK`, `Paced`, `LaneCeiling`, `ResubscribedOncePerRow`, `OptOutWins` | mail is paced and bounded; an opt-out that came first wins; a first sign-in undoes an unsubscribe at the provider once at most |
| `logout_races_refresh` | two requests | `NothingLiveAfterRevocation`, violated | a refresh under way writes a live access token into a family already revoked |
| `optout_not_copied` | one account, one task | `OptedOutEverywhere`, violated | the sync finds the address unsubscribed at the provider, and the welcome is sent |
| `resubscribed_after_400` | one account, one task | `NeverResubscribes`, violated | an unsubscribed address whose lookup is answered with 400 is posted, and is subscribed again |

The violated runs state what a comment, a docstring or a test of the source says;
`findings` in `PROJECT.json` quotes it.

### Bounds, and why they are enough

* **`tokens_*`**: one user, `CodeTTL = AccessTTL = Grace = 1`, `RefreshTTL = 2`, a
  replay memory of one entry: codes, access tokens and the replay window can expire
  while a refresh token lives, everything can expire by clock 2, and the second
  rotation already meets a full memory. `MaxId = 8` is an approval, its exchange and
  two refreshes, the least that lets two refreshes of one token compete or a rotated
  token come back after a further rotation. `MaxGrants` bounds approvals, `MaxClock`
  the ticks.
* **`consent`**: two requests are the least that count before either inserts, with
  `PerIp = 1` and `PerDay = 2` both caps are met; two tabs and two flows the least
  that overwrite each other's cookie; two accounts the least that change between page
  and decision. Every lifetime is one tick (a token's two), so everything can expire
  by `MaxClock = 3`, between any two steps. `MaxClients`, `MaxFlows`, `MaxGrants` and
  `MaxBegun` (registrations and tabs begun together) bound the history. One instance:
  a second one sweeps more often, no differently. `StoreFaults` lets stamps and
  purges fail.
* **`door`**: two requests, so that one can use up what the other was admitted on;
  `AnonCap = 1`, `UserCap = 2`, `HardAfter = 1`: every threshold is one or two calls
  away. The requests are every way to send a call and every way not to: alone, in a
  batch, oversized, not posted, with a forged identity header, on the alias, with
  no token, a good one, one of the other product.
* **`fairuse_*`**: a day is two or six ticks and a month two days, so that windows
  and searches straddle midnight and the end of the month; the initial clock is the
  first or the last tick of a month. The caps are a little above one fan-out, so the
  last call of a day or a month has less left than it wants. `MaxServed` and
  `MaxRefusals` bound only what faults would let grow for ever: they lie above what
  the checked properties allow, so nothing is hidden by them.
* **`search`**: ranges longer than the cap, several destinations, a limit below the
  number of searches, a return date inside the range, invalid arguments of each kind;
  answers with and without rows, with and without a status, incomplete ones and one
  that cannot be parsed. With `MAX_AUTO_LIMIT` at 2, a cap of 2 lets the limit follow
  the searches and a cap of 3 lets them outgrow it. With caps up to 3 and 2 places, searches wait, run and fail
  next to each other.
* **`counters`**: hours 1 to 4 with days of two hours: the first hour of the model is
  the last of a day, and two more days begin. `Retention = 2`, `DayTtl = 3`: every key
  can expire, and a window is one hour or two, its breakdown one day (`ToolDays`).
  `RouteCap = 2` and five routes: two instances can fill a day twice over.
  `MaxEvents = 5` bounds hours, calls, faults and restarts together.
* **`mail_lane`**: three accounts for a lane of one note a day; two tasks; days 2 and 3
  with gaps of one day and `Week = 2`: a note the day after the welcome, another the day
  after that note and a claim given back the day after an earlier one all happen, and no
  task spans two days (`MailIsPaced` is proved for any gaps); `MonthCap = 3` so that the
  monthly branch is met as well as the daily one; `MaxJobs = 3` tasks begun in all, so
  that an account can be deleted and signed in again while a task of its former row is
  under way. New accounts are known to the provider in any way, settled ones as
  unsubscribed (`SettledContacts`): nothing reads the contact of a settled account
  before it is deleted and signs in again, and unsubscribed is the case a post would
  undo. The two violated runs take all three.

Deadlock is checked except in `consent` and the three runs of `MailLane`, where
the work that can be begun is bounded and the model stops when it and the clock are
used up. Symmetry is used only where accounts, tasks, requests, slots or routes are
interchangeable, and never with a liveness property.

### Fairness

* `EscalationEnds` (`fairuse_loops`) assumes `WF_vars(Tick)`: time passes. No request
  is assumed to end.
* `RunEnds` (`search`) assumes that some search of the call progresses while one can,
  and that the handler goes on once all are through: every request to the backend has
  a timeout and every pause an end (`lambda_client.py`), and the event loop runs what
  is ready. The backend may still fail every attempt.

The other components promise nothing that must eventually happen: their requests and
tasks may die at any await, and `Abort`, `Leave` or `Restart` let them.

### Limits of single properties

* `OneUsableRefresh` and `RevokedFamilyIsDead` are claims about requests served one at
  a time: with two, refreshes of the same token both answer with a live pair (the
  result of `rotate_token` is not looked at), and a late refresh writes into a revoked
  family. `AccountGoneMeansSignedOut` is checked with `StoreFaults = FALSE`: when the
  store refuses the token deletion, `connect_delete` logs it and deletes the account.
* `SearchesAreCharged` is a claim about flights: a failed hotel search raises before
  its record.
* `Paced` and part of `OptOutWins` speak of accounts that were not deleted: a row
  inserted again starts anew, and a task of the former row may still release a stamp.
* `EverySearchRepresented`, and that a destination with a fare of its own is `ok`, hold
  if `MAX_AUTO_LIMIT` (60) has room for a row of every search (`RoomForAll`). The cap on
  the searches of a call is 15 unless the environment says otherwise, and
  `settings.py:342` does not clamp it; beyond 60 the destination is `not_in_limit`.
* `LaneCeiling` holds on a day on which no row was deleted, as a deleted row takes its
  stamp out of the count.

### What the code does that its texts do not say

Three of these have a run and a finding. The others were met while modelling; they are
stated as definitions no run checks, or simply here:

* With both fair-use caps at 0, "switched off, not [...] exhausted" (`fair_use.py:826`),
  no call is refused and none has a search: `remaining` is 0 all the same, and becomes
  the cap of the plan (`server.py:1703`). `AdmittedCallsSearch` is a theorem for a cap
  that is switched on; with every cap of `fairuse_sequential.cfg` at 0 TLC refutes it at
  the first call.
* `NoTokenAfterDeletion` (`OAuthTokens`): a code approved before the account is
  deleted survives and can be exchanged.
* `HonestRetrySpared` (`OAuthTokens`): a retry that arrives between the committed
  rotation and the moment it is remembered is taken for reuse.
* "A cap is only a cap if the last call of the day cannot overshoot it"
  (`server.py:1698`): calls of one caller that run together spend the same remainder;
  `OvershootBounded` says by how much.
* `PooledNeverEscalated` (`FairUse`): a gateway's call during the load of the feed
  counts as a direct caller's, and can lead to a 429; in `Door` it can get a 401.
* `RetryAfterIsHonoured` (`FairUse`): a caller that waits until midnight as told can
  get another 429, when its refusals are younger than an hour.
* `NoFlightsIsAFact` (`Search`): a search answered with no rows and the status
  "degraded" is reported as `no_flights` for its destination when another destination
  has rows.
* `RowsListedOnce` (`Search`): with several lengths of stay the rows of a destination
  are listed once for every combination of the same destination and date.
* `PageHasClient` (`Consent`): the row may be swept between its lookup and its stamp,
  so a consent page can be on screen whose client is gone.
* `python -m src` installs the hard limit and no gate, though its comment says it has
  the middleware of the deployed entry point (`__main__.py`): the configuration
  `main` of `Door`, to which its properties about accounts do not apply.
* A route that another instance counts already may be new to this one and be left out
  once the day is full (`stores.py:936` reads as if a member, once counted, always were).

### Mutants

Each property of a passing run has a mutant: a definition with a plausible bug
(a code read and not deleted, a claim that ignores the opt-out, a charge to the
address instead of the account, a stride rounded down) under which TLC finds it
violated in the run's own configuration.

## Theorems

The proofs assume nothing but the `ASSUME` of the module they are about and what a
theorem states. TLC evaluates those assumptions in every run.

### OAuthTokens

`OAuthTokensProofs` proves, for any sets of users, clients, instances and requests
and any lifetimes, from `ConstantsAssumption` alone:

* `TypeCorrect`, `CodesAreSingleUse`, `TokensKeepProvenance`,
  `ClientsAreNeverStranded`, `ReplaysAreFaithful`, `TokensReachTheirOwner`:
  the invariants of the runs;
* `RotationsAreFinal`: the action property;
* `TokensImplementGrantLifecycle`: the refinement, initial states and every step.

For requests served one at a time (`Alone`: there is one request), it proves

* `RevokedFamiliesStayDead`: what a request has yet to write is of a family that has
  not ended, and what it is about to end was begun (`EndedForGood`);
* `OneRefreshWorks`: of a family, one refresh token at most is good and within
  somebody's reach, held, remembered or about to be answered; while its successor is
  made, it is the one that the request will rotate out (`OneFit`);
* `DeletedAccountsAreSignedOut`: the row of an account is deleted when its tokens are
  gone (`NothingLeft`), if the store does not fail as well.

Those hypotheses are the ones of the run `tokens_sequential`; with two requests the
properties are false (see below, and the run `logout_races_refresh`).

None of the invariants is inductive. `NeverStranded` needs to know that a request
at `rotate` has its successor in the table (`RotationPrepared`), that the successor
lives as long as the token it replaces (`LifetimeBounded`, `job.now <= clock`), and
that nobody else can rotate or revoke that successor first. The last is the heart
of `IInv`: a pair in the making is known to nobody (`PairsPrivate`) until `Answer`
hands it out, so no other request presents it, no memory offers it, and a logout of
a single token can only be of an access token (`RevokesAccessOnly`).
`ReplayIsFaithful` needs what the rows of a pair carry while the request still runs
(`PairsStored`). Single use of codes rests on codes being a subset of what was
approved, and on fresh identities (`MintedSoFar`, `Approvals`).

The steps fall into two groups. Those that mint and store nothing only take away
rows and memories, and never a successor without the token it succeeds; `Recedes`
says so, `RecedingSteps` shows fifteen actions to be such steps, and `RecedesKeeps`
shows once that they keep `IInv`. The others have a lemma each. The refinement
follows from `FamiliesOnlyEnd`: only the exchange of its code brings a family to
life.

### Consent

`ConsentProofs` proves all five properties of the run, for any number of tabs,
accounts, registrations and instances and any lifetimes.

* `LandsWhereStarted` and `ApprovedAsShown` follow from `ConsentInv`. It says of a tab
  (`TabOK`) that its flow is one already given out, so that a new flow never has its
  number, and that the cookie, if it is of this flow, names the client that opened the
  tab or none. So a cookie that matches at the callback is the right one, however
  often others overwrote it.
* `ConsentKeepsClient` follows from the rows: `StampedRow` says that the row of a
  stamped page is stamped, and `Stale` spares those; `GrantsOK` says that a grant
  whose client had a row still has it, which `InUse` sees to.
* `RegistrationsBounded` is not inductive: a registration past its counts will insert
  whatever happened since. `CapInv` adds to the recent rows the registrations past
  the count, and bounds the sum. A registration that passes a count has just seen
  less than the cap (its window reaches back at least as far as the one of the
  property, as its `now` is not later than the clock: `CountIsRecent`), and the
  others past it are at most all but itself. An insert moves one from the second to
  the first. It needs every cap to be positive, which `_cap` (`oauth.py:386`) sees to.

### Door

`DoorProofs` proves all three properties of the run, for any deployments, slots,
tokens, accounts and caps. `DoorInv` says of each slot past the gate, stage by stage,
who its request belongs to (`Identified`), that only a body with a call in it reaches
a search, and that a token is valid while `sound` says so (`SoundIsValid`).
`AccountsOnly` adds that no counter of an address moves (`NoneForAddresses`), because
past a closed gate there is no request without a subject unless it only looks around
(`ClosedCallers`). `WelcomeKept` has a lemma for each layer that can answer.

### FairUse

`FairUseProofs` proves, for any callers, requests, instances, caps, slots, days and
months, from `ConstantsAssumption` and what each theorem assumes:

* `TypeCorrect`: types, and that a call never carries more than a full fan-out;
* `CapsHold`: if callers wait for their answers (`OneAtATime`) and the counters can
  be read, `CapHolds` is invariant, whatever writes are lost. `CapHolds` alone is
  not inductive: the step that charges a search must know that it still fits.
  `CapInv` adds that a caller has one call under way (`OneCallEach`) and that what
  a searching call may spend fits under the caps it was admitted with (`Fits`).
  `RemainingFits` and `GrantsFit` say so of the rules, `EasedStep` covers every
  step that starts nothing and charges nothing, midnight among them;
* `AdmittedCallsAreServed`: with a cap switched on, no admitted call is left without
  a search;
* `FlightsAreCharged`: where no write is lost and no hotel is searched, what was
  answered is what was counted. A hotel
  search whose backend fails is charged to nobody (`HotelFails`), hence the second;
* `OvershootIsBounded`: calls of one client that run together pass a cap by less than
  a full fan-out for each of them but one, if the counters can be read. The property
  adds what is spent to what the searching calls may still spend, and is inductive as
  it stands: a call that is admitted saw less than the cap, and the others hold a
  fan-out each at most (`Slack`); a search that is charged moves its part from the
  second to the first;
* `EscalationLooksBackAnHour`, without any hypothesis, and `LoopsGetTheirs`, if the
  store answers and the 429 is not switched off: both say of the step that decides
  about the 429 that the slots it adds up are those of the last hour. The invariant
  `Tallied` relates the slots, counted as the code does, to refusals by the tick: the
  sum of the current slot and the k before it is the sum of the ticks these reach back
  (`Window`), or less if a write was lost. A tick of the clock shifts both, and moves
  the ticks into another slot exactly when the slot ends.

### Search

`SearchProofs` proves, for any requests, caps, answers and limits, that every variable
keeps its type and no more searches run than the semaphore lets (`TypeCorrect`), and
the properties of a plan and of an answer:

* `CoverageTold` and `ReasonsTrue` from `SearchInv`: the tasks are those of the plan
  (`TasksOK`), everything in the plan was asked for (`PlannedOK`), and a reply is the
  one of the tasks as they are, which no longer change (`AnsweredOK`);
* `SearchesAreRepresented`: the limit is at least the number of searches
  (`LimitShape`) if these are within `MAX_AUTO_LIMIT` (`RoomForAll`), each search has at most
  one best row (`CheaperIsStrict`), so the best rows are no more than the limit
  (`FewBests`) and `Top` takes all of them (`TopOfFew`).

* `SamplesAreEven`, for a range of any size and any cap: a rounded quotient is within
  one half of the quotient (`RoundNear`), so two neighbours of the sample are `p` or
  `p + 1` apart, `p` being the whole part of the quotient of the lengths (`SampleGaps`);
  the last one is a whole quotient, which rounding leaves alone (`RoundWhole`). That
  `p` is positive is why the backfill of `evenly_sample` has nothing to fill.

`RoundBound` and `SampleShape` show that the sample stays within the plan.

### MailLane

`MailLaneProofs` proves all five properties of the run, for any number of accounts
and tasks (one at least), any gaps (between notes, a day at least) and any caps.
`MailInv` says of an account with its first row that one hand-off at most is under way
(`Single`), and that it has received nothing while it runs (`Young`); of one that never
had a row, that it has no usage, no mail and no task (`Unborn`). `OptOutStands` reads
off the claims what they look at, and needs `Young` for the welcome, which does not look
at the opt-out.

* `OncePerFirstSignIn` proves `ResubscribedOncePerRow`, which is not inductive, from
  `Sparing`: the unsubscribes that posts have undone, and the hand-offs that may still
  post (`Unposting`), are together no more than the account's first sign-ins. Only a
  first sign-in begins a hand-off (`ReachUnposted`), and a post moves one from the
  second to the first at most.
* `TypeCorrect` needs a bound on what a usage row counts: the passes begun, less those
  that have yet to write (`Counted`).
* `MailIsPaced`: of an account that was never deleted, the row shows every message it
  received, or shows none because it is long ago (`Recorded`); a claim is of today,
  there is one at a time, and it is far enough from every message (`Claimed`). So what
  is sent on a claim keeps its distance, however long ago the claim was read
  (`Steady`).
* `LaneKeepsItsCeiling`: the accounts stamped today and the tasks that have counted and
  will claim are together no more than the ceiling and the other tasks (`LaneFits`): a
  task counts the lane before it is one of the latter, and a claim moves one from the
  second to the first. On a day without a deletion every note sent is one of the
  former (`Today`).

### Counters

`CountersProofs` proves all three properties of the run, for any deployments,
instances, tasks, routes, calls, lengths of the day and retentions that
`CountersAssumption` admits. Their hypotheses are that constant sets are finite, and
that keys are kept longer than the day they count; the code keeps them for 35 days.

* `CountersAgreeWithTheLog` follows from `Shares` (Redis), `Replays` (memory) and
  `Admits`. `Shares` says that every hour and day Redis has not let expire is what it
  should have: the log, less what is under way and what was lost (`Counted`). Every
  step but one leaves `Counted` as it is: a record adds a line and owes it, a lost
  pipeline is owed by `missed` and no longer by its task, a restart moves what its
  tasks owe there in one go. Only `Execute` changes it, by the call it counts. What is
  read back lies within what is kept (`WithinReach`), and days are the sums of their
  hours (`SumGrouped`), whence the breakdowns agree with each other.
* `RoutesStayBounded`. The property is far from inductive: what ends up in the
  histogram was let through by an instance that had not heard the day was full. The
  invariant `Excess` keeps accounts. A route is *astray* when an instance has sent it
  and Redis does not list it, and either no pipeline will bring it or one will though
  the day is full for its instance; an answer has *told* when it says that the
  histogram is beyond its cap, and its instance has yet to hear it. What is
  listed beyond the cap, and what is astray, is at most the faults, one `|Tasks|` for
  every instance that is full and for every life that is over, and the answers that
  have told. A pipeline that is executed beyond the cap tells, or was astray
  (`ExecuteDay`); an instance that becomes full pays with a life for the answers it
  need not hear any more and for the routes it has under way, which are different
  tasks (`Filling`). `Known` relates what an instance knows to what is listed: it
  gives the exact cap when there was one life. `Few` takes over when Redis has dropped
  the day: then only what was under way by then is listed.

One `|Tasks|` less would be too few as soon as three calls run together: one can be
under way beyond the cap while two answers are still to be heard.

### Sums

The properties above add up counters with `SumFunctionOnSet` (community modules), a
fold in an order nobody chose. Its equation is a recursion over subsets, which the
provers cannot unfold for every set, and the induction theorems of the library take an
operator. `Sums` argues by a smallest counterexample instead: of a collection of
subsets of a finite set one has no other below it (`SmallestSet`), so the functions
that add agree (`AddsUnique`), there is one (`AddsExists`), and the sum is its value
(`SumIsAdded`). From there on it is algebra: taking out any element, splitting,
bounding, renaming, grouping, shifting by a tick, and the quotient and remainder
that `DayOf` and the slots are made of.

### Model-checked only

Every invariant and action property of the passing runs is a theorem. What is left to
the runs is `EscalationEnds` and `RunEnds`, which are liveness: the provers have no
ENABLED, and each needs an induction over what is left to do.

## Not modelled

* **Rate limiter** (`ratelimit.py`): one table of one process, touched by one
  synchronous function; nothing interleaves with it and its bound is one comparison.
* **Metadata documents** (`cimd.py`): a cache of a document whose checks are predicates
  of one value.
* **Classification into tiers** (`policy.py`): a function of one value; the loading of
  the feed it reads is in `FairUse`.
* **ID token checks, PKCE, redirect URIs, form sealing**: predicates of one request; in
  the models they are the ideal they implement, or a refusal that changes nothing.
* **Presentation, settings, templates, schemas, backend parsing**: no state, and what
  they promise is wording.

## Plan

Done: `OAuthTokens` with `GrantLifecycle`, `FairUse`, `Consent`, `Door`, `Search`,
`Counters` and `MailLane`, and the proofs of every safety and action property of
their runs. What is left, in this order:

1. The step lemmas of `EscalationEnds`: that each tick brings the oldest refusal closer
   to its end.
2. The limiter and the document cache, if they come to be shared between instances.
