----------------------------- MODULE OAuthTokens -----------------------------
(***************************************************************************)
(* The token endpoint of the OAuth authorization server (src/oauth.py), on *)
(* the tables of src/oauthstore.py: exchanging a code, refreshing,         *)
(* answering a lost refresh response from memory, detecting the reuse of a *)
(* rotated refresh token, revoking, and deleting an account.               *)
(*                                                                         *)
(* A request is a coroutine that reaches the store one statement at a      *)
(* time, each on a connection of its own, so any other request may run     *)
(* between two of its statements. Each action below is what happens from   *)
(* one await to the next. A request may die at any await: the store        *)
(* refused, the caller hung up, the instance was recycled.                 *)
(*                                                                         *)
(* Codes, tokens and families are identified by the fresh values the code  *)
(* mints for them (256 random bits, taken to be distinct); the store keys  *)
(* rows by a hash, which is as good as the value itself. Scope, resource,  *)
(* redirect URI and PKCE only ever refuse a request; RefuseCode and the    *)
(* steps that leave everything unchanged stand for those refusals.         *)
(***************************************************************************)
EXTENDS Naturals, FiniteSets

CONSTANTS
  Users,        \* Google accounts (user_sub)
  Clients,      \* registered OAuth clients
  Instances,    \* server processes; each has its own replay memory
  Reqs,         \* HTTP requests being served at the same time
  Host,         \* Host[r]: the instance that serves request r
  None,         \* no client, no user
  CodeTTL, AccessTTL, RefreshTTL, Grace,   \* lifetimes, in clock ticks
  ReplayMax,    \* _REPLAY_MAX
  StoreFaults,  \* whether the store may refuse a statement whose failure
                \* the code swallows
  MaxId, MaxGrants, MaxClock   \* bounds of the model: values minted,
                               \* approvals given, clock ticks

ASSUME ConstantsAssumption ==
  /\ Host \in [Reqs -> Instances]
  /\ None \notin Users \cup Clients
  /\ {CodeTTL, AccessTTL, RefreshTTL, Grace, MaxId, MaxGrants, MaxClock} \subseteq Nat
  /\ ReplayMax \in Nat \ {0}
  /\ StoreFaults \in BOOLEAN

VARIABLES
  clock,     \* time.time(), the same on every instance
  lastId,    \* the last random value minted
  accounts,  \* rows of free_mcp_users
  codes,     \* rows of free_mcp_oauth_codes
  tokens,    \* rows of free_mcp_oauth_tokens
  replay,    \* replay[i]: _REPLAY of instance i
  pc, job,   \* where each request stands and what it carries
  held,      \* the tokens that have reached a client
  \* History: what the properties compare the tables with.
  consents,  \* every code a user ever approved
  grants,    \* which family each exchanged code started
  revoked,   \* families deleted by revoke_family
  withdrawn  \* codes approved by an account that was deleted since

vars == <<clock, lastId, accounts, codes, tokens, replay, pc, job, held,
          consents, grants, revoked, withdrawn>>

store == <<accounts, codes, tokens>>
history == <<consents, grants, revoked, withdrawn>>

-----------------------------------------------------------------------------
Ids == 1 .. MaxId

AuthCode == [id : Ids, client : Clients, user : Users, expires : Nat]

TokenRecord == [id : Ids, kind : {"access", "refresh"}, client : Clients,
                user : Users, family : Ids, expires : Nat, revoked : BOOLEAN]

\* What _REPLAY keeps of one rotation, under the hash of the rotated token.
Rotation == [id : Ids, deadline : Nat, client : Clients,
             access : Ids, refresh : Ids]

Delivery == [id : Ids, kind : {"access", "refresh"}, client : Clients]

\* The locals of a request. 0 stands for a value it does not have; old = 0
\* throughout a code exchange.
Job == [client : Clients \cup {None}, user : Users \cup {None},
        family : Ids \cup {0}, old : Ids \cup {0},
        access : Ids \cup {0}, refresh : Ids \cup {0}, now : Nat]

NoJob == [client |-> None, user |-> None, family |-> 0, old |-> 0,
          access |-> 0, refresh |-> 0, now |-> 0]

Steps == {"idle", "recordUser", "putAccess", "putRefresh", "rotate", "answer",
          "missed", "reuse", "reuseDetected", "loggingOut", "revokeToken",
          "deleteRow"}

\* Steps at which a request holds a freshly minted pair.
Minting == {"putAccess", "putRefresh", "rotate", "answer"}

\* A request carries what its next step uses.
Carries(j, step) ==
  /\ step \in Minting => /\ j.client # None /\ j.user # None
                         /\ {j.family, j.access, j.refresh} \subseteq Ids
  /\ step \in Minting \cup {"missed"} => j.client # None
  /\ step \in {"rotate", "missed", "reuse"} => j.old \in Ids
  /\ step \in {"loggingOut", "reuseDetected"} => j.family \in Ids
  /\ step \in {"recordUser", "deleteRow"} => j.user # None

TypeOK ==
  /\ clock \in Nat
  /\ lastId \in 0 .. MaxId
  /\ accounts \subseteq Users
  /\ codes \subseteq AuthCode
  /\ tokens \subseteq TokenRecord
  /\ replay \in [Instances -> SUBSET Rotation]
  /\ pc \in [Reqs -> Steps]
  /\ job \in [Reqs -> Job]
  /\ \A r \in Reqs : Carries(job[r], pc[r])
  /\ held \subseteq Delivery
  /\ consents \subseteq AuthCode
  /\ grants \subseteq [code : Ids, family : Ids]
  /\ revoked \subseteq Ids
  /\ withdrawn \subseteq Ids

Init ==
  /\ clock = 0
  /\ lastId = 0
  /\ accounts = Users
  /\ codes = {}
  /\ tokens = {}
  /\ replay = [i \in Instances |-> {}]
  /\ pc = [r \in Reqs |-> "idle"]
  /\ job = [r \in Reqs |-> NoJob]
  /\ held = {}
  /\ consents = {}
  /\ grants = {}
  /\ revoked = {}
  /\ withdrawn = {}

-----------------------------------------------------------------------------
(* The store: one operator per statement.                                  *)

\* get_token: the row, unless it is rotated out or expired.
GetToken(id, kind) ==
  {t \in tokens : t.id = id /\ t.kind = kind /\ ~t.revoked /\ clock < t.expires}

\* get_token_any: the row, whatever has happened to it.
GetTokenAny(id, kind) == {t \in tokens : t.id = id /\ t.kind = kind}

\* Mutant: the code is read but never deleted.
ConsumeCodeBySelect(k) ==
  /\ k \in codes
  /\ codes' = codes

\* DELETE ... RETURNING: whoever removes the row has consumed the code.
ConsumeCode(k) ==
  /\ k \in codes
  /\ codes' = codes \ {k}

\* Mutant: the UPDATE never matches a row.
RotateTokenMissesRow(id) == tokens' = tokens

\* Mutant: the rotated row is also cut short to the replay window.
RotateTokenCutsShort(id) ==
  tokens' = {IF t.id = id THEN [t EXCEPT !.revoked = TRUE, !.expires = clock + Grace] ELSE t :
             t \in tokens}

\* rotate_token: stamped, not deleted.
RotateToken(id) ==
  tokens' = {IF t.id = id THEN [t EXCEPT !.revoked = TRUE] ELSE t : t \in tokens}

\* Mutant: rows that were rotated out are left.
RevokeFamilyKeepsRotated(f) == tokens' = {t \in tokens : t.family # f \/ t.revoked}

RevokeFamily(f) == tokens' = {t \in tokens : t.family # f}

\* Mutant: only the refresh tokens go.
RevokeForUserKeepsAccess(u) == tokens' = {t \in tokens : t.user # u \/ t.kind = "access"}

RevokeForUser(u) == tokens' = {t \in tokens : t.user # u}

-----------------------------------------------------------------------------
(* The replay memory of one instance.                                      *)

\* _remember_rotation. A full memory first drops what has expired and, when
\* that frees nothing, everything.
RememberRotation(memory, entry, now) ==
  LET fresh == {e \in memory : now < e.deadline}
      kept  == IF Cardinality(memory) < ReplayMax THEN memory
               ELSE IF Cardinality(fresh) < ReplayMax THEN fresh ELSE {}
  IN {e \in kept : e.id # entry.id} \cup {entry}

\* Mutant: whoever presents the rotated token is answered.
ReplayableToAnyone(memory, id, client, now) ==
  {e \in memory : e.id = id /\ now < e.deadline}

\* _take_replay: the entries that may be answered with. The caller removes
\* the entry whether or not it may.
Replayable(memory, id, client, now) ==
  {e \in memory : e.id = id /\ now < e.deadline /\ e.client = client}

-----------------------------------------------------------------------------
(* Requests.                                                               *)

Goto(r, step) == pc' = [pc EXCEPT ![r] = step]

Finish(r) ==
  /\ pc' = [pc EXCEPT ![r] = "idle"]
  /\ job' = [job EXCEPT ![r] = NoJob]

\* The response carries the pair; it may never arrive.
Deliver(client, access, refresh) ==
  \/ held' = held \cup {[id |-> access, kind |-> "access", client |-> client],
                        [id |-> refresh, kind |-> "refresh", client |-> client]}
  \/ held' = held

\* authorize_decision, approved: issue_code stores the code ...
Approve(r, u, c) ==
  LET code == [id |-> lastId + 1, client |-> c, user |-> u,
               expires |-> clock + CodeTTL]
  IN /\ pc[r] = "idle"
     /\ lastId + 1 <= MaxId /\ Cardinality(consents) < MaxGrants
     /\ lastId' = lastId + 1
     /\ codes' = codes \cup {code}
     /\ consents' = consents \cup {code}
     /\ Goto(r, "recordUser")
     /\ job' = [job EXCEPT ![r] = [NoJob EXCEPT !.user = u]]
     /\ UNCHANGED <<clock, accounts, tokens, replay, held, grants, revoked, withdrawn>>

\* ... and _remember upserts the account row after it.
RecordUser(r) ==
  /\ pc[r] = "recordUser"
  /\ accounts' = accounts \cup {job[r].user}
  /\ Finish(r)
  /\ UNCHANGED <<clock, lastId, codes, tokens, replay, held, history>>

\* A code presented by the wrong client, with the wrong verifier or redirect
\* URI, or after it expired: it is gone all the same.
RefuseCode(k) ==
  /\ ConsumeCode(k)
  /\ UNCHANGED <<clock, lastId, accounts, tokens, replay, pc, job, held, history>>

\* _authorization_code_grant up to the first INSERT: the code is consumed and
\* the two tokens of a new family are minted.
ExchangeCode(r, c, k) ==
  /\ pc[r] = "idle"
  /\ ConsumeCode(k)
  /\ clock < k.expires
  /\ k.client = c
  /\ lastId + 3 <= MaxId
  /\ lastId' = lastId + 3
  /\ grants' = grants \cup {[code |-> k.id, family |-> lastId + 1]}
  /\ Goto(r, "putAccess")
  /\ job' = [job EXCEPT ![r] =
               [client |-> c, user |-> k.user, family |-> lastId + 1, old |-> 0,
                access |-> lastId + 2, refresh |-> lastId + 3, now |-> clock]]
  /\ UNCHANGED <<clock, accounts, tokens, replay, held, consents, revoked, withdrawn>>

\* The row _issue_tokens writes for the job of a request.
Minted(j, kind, id, ttl) ==
  [id |-> id, kind |-> kind, client |-> j.client, user |-> j.user,
   family |-> j.family, expires |-> j.now + ttl, revoked |-> FALSE]

PutAccess(r) ==
  /\ pc[r] = "putAccess"
  /\ tokens' = tokens \cup {Minted(job[r], "access", job[r].access, AccessTTL)}
  /\ Goto(r, "putRefresh")
  /\ UNCHANGED <<clock, lastId, accounts, codes, replay, job, held, history>>

\* Mutant: the pair is remembered before the old token is rotated out.
PutRefreshRemembersEarly(r) ==
  LET j == job[r]
      entry == [id |-> j.old, deadline |-> j.now + Grace, client |-> j.client,
                access |-> j.access, refresh |-> j.refresh]
  IN /\ pc[r] = "putRefresh"
     /\ tokens' = tokens \cup {Minted(j, "refresh", j.refresh, RefreshTTL)}
     /\ replay' = IF j.old = 0 THEN replay
                  ELSE [replay EXCEPT ![Host[r]] = RememberRotation(@, entry, j.now)]
     /\ Goto(r, IF j.old = 0 THEN "answer" ELSE "rotate")
     /\ UNCHANGED <<clock, lastId, accounts, codes, job, held, history>>

\* A code exchange answers next; a refresh still has to rotate.
PutRefresh(r) ==
  /\ pc[r] = "putRefresh"
  /\ tokens' = tokens \cup {Minted(job[r], "refresh", job[r].refresh, RefreshTTL)}
  /\ Goto(r, IF job[r].old = 0 THEN "answer" ELSE "rotate")
  /\ UNCHANGED <<clock, lastId, accounts, codes, replay, job, held, history>>

\* Mutant: nobody asks whose token it is.
RefreshForAnyClient(r, c, id) ==
  /\ pc[r] = "idle"
  /\ lastId + 2 <= MaxId
  /\ \E t \in GetToken(id, "refresh") :
       job' = [job EXCEPT ![r] =
                 [client |-> c, user |-> t.user, family |-> t.family, old |-> id,
                  access |-> lastId + 1, refresh |-> lastId + 2, now |-> clock]]
  /\ lastId' = lastId + 2
  /\ Goto(r, "putAccess")
  /\ UNCHANGED <<clock, store, replay, held, history>>

\* Mutant: the old token is rotated out before its successors are written.
RefreshRotatesFirst(r, c, id) ==
  /\ pc[r] = "idle"
  /\ lastId + 2 <= MaxId
  /\ \E t \in GetToken(id, "refresh") :
       /\ t.client = c
       /\ job' = [job EXCEPT ![r] =
                    [client |-> c, user |-> t.user, family |-> t.family, old |-> id,
                     access |-> lastId + 1, refresh |-> lastId + 2, now |-> clock]]
  /\ RotateToken(id)
  /\ lastId' = lastId + 2
  /\ Goto(r, "putAccess")
  /\ UNCHANGED <<clock, accounts, codes, replay, held, history>>

\* _refresh_token_grant, the token is good: mint its successors. A token of
\* another client is refused and nothing changes.
Refresh(r, c, id) ==
  /\ pc[r] = "idle"
  /\ lastId + 2 <= MaxId
  /\ \E t \in GetToken(id, "refresh") :
       /\ t.client = c
       /\ job' = [job EXCEPT ![r] =
                    [client |-> c, user |-> t.user, family |-> t.family, old |-> id,
                     access |-> lastId + 1, refresh |-> lastId + 2, now |-> clock]]
  /\ lastId' = lastId + 2
  /\ Goto(r, "putAccess")
  /\ UNCHANGED <<clock, store, replay, held, history>>

\* The UPDATE commits; the coroutine has yet to hear of it.
Rotate(r) ==
  /\ pc[r] = "rotate"
  /\ RotateToken(job[r].old)
  /\ Goto(r, "answer")
  /\ UNCHANGED <<clock, lastId, accounts, codes, replay, job, held, history>>

\* Back in the coroutine: a refresh remembers the pair, and the response goes.
Answer(r) ==
  LET j == job[r]
      entry == [id |-> j.old, deadline |-> j.now + Grace, client |-> j.client,
                access |-> j.access, refresh |-> j.refresh]
  IN /\ pc[r] = "answer"
     /\ replay' = IF j.old = 0 THEN replay
                  ELSE [replay EXCEPT ![Host[r]] = RememberRotation(@, entry, j.now)]
     /\ Deliver(j.client, j.access, j.refresh)
     /\ Finish(r)
     /\ UNCHANGED <<clock, lastId, store, history>>

\* _refresh_token_grant, get_token found nothing usable.
RefreshMisses(r, c, id) ==
  /\ pc[r] = "idle"
  /\ GetToken(id, "refresh") = {}
  /\ Goto(r, "missed")
  /\ job' = [job EXCEPT ![r] = [NoJob EXCEPT !.client = c, !.old = id, !.now = clock]]
  /\ UNCHANGED <<clock, lastId, store, replay, held, history>>

\* The retry of a response that was lost is answered, once; anything else
\* goes on to reuse detection.
TakeReplay(r) ==
  LET j == job[r]
      found == Replayable(replay[Host[r]], j.old, j.client, j.now)
  IN /\ pc[r] = "missed"
     /\ replay' = [replay EXCEPT ![Host[r]] = {e \in @ : e.id # j.old}]
     /\ \/ /\ \E e \in found : Deliver(j.client, e.access, e.refresh)
           /\ Finish(r)
        \/ /\ found = {}
           /\ Goto(r, "reuse")
           /\ UNCHANGED <<job, held>>
     /\ UNCHANGED <<clock, lastId, store, history>>

\* Mutant: the family to revoke is not taken from the row.
DetectReuseForgetsFamily(r) ==
  LET stale == {t \in GetTokenAny(job[r].old, "refresh") : t.revoked}
  IN /\ pc[r] = "reuse"
     /\ IF stale = {} THEN Finish(r) ELSE Goto(r, "reuseDetected") /\ UNCHANGED job
     /\ UNCHANGED <<clock, lastId, store, replay, held, history>>

\* _detect_reuse reads the row; only one that was rotated out is a reuse.
DetectReuse(r) ==
  LET stale == {t \in GetTokenAny(job[r].old, "refresh") : t.revoked}
  IN /\ pc[r] = "reuse"
     /\ \/ /\ \E t \in stale : job' = [job EXCEPT ![r].family = t.family]
           /\ Goto(r, "reuseDetected")
        \/ /\ stale = {}
           /\ Finish(r)
     /\ UNCHANGED <<clock, lastId, store, replay, held, history>>

\* revoke: whose token it is is read first. A token of another client is left
\* alone, and nothing changes.
Revoke(r, c, id, kind) ==
  LET rows == GetTokenAny(id, kind)
  IN /\ pc[r] = "idle"
     /\ \/ \E t \in rows :
             /\ t.client = c
             /\ kind = "refresh"
             /\ Goto(r, "loggingOut")
             /\ job' = [job EXCEPT ![r] = [NoJob EXCEPT !.client = c, !.family = t.family]]
        \/ /\ \A t \in rows : t.client = c /\ kind = "access"
           /\ Goto(r, "revokeToken")
           /\ job' = [job EXCEPT ![r] = [NoJob EXCEPT !.client = c, !.old = id]]
     /\ UNCHANGED <<clock, lastId, store, replay, held, history>>

\* revoke_family, for a logout or a detected reuse.
EndFamily(r) ==
  /\ pc[r] \in {"loggingOut", "reuseDetected"}
  /\ RevokeFamily(job[r].family)
  /\ revoked' = revoked \cup {job[r].family}
  /\ Finish(r)
  /\ UNCHANGED <<clock, lastId, accounts, codes, replay, held, consents, grants,
                 withdrawn>>

\* revoke_token, for an access token or one that is not there.
EndToken(r) ==
  /\ pc[r] = "revokeToken"
  /\ tokens' = {t \in tokens : t.id # job[r].old}
  /\ Finish(r)
  /\ UNCHANGED <<clock, lastId, accounts, codes, replay, held, history>>

\* connect_delete: the tokens first. If the store refuses, that is logged and
\* the deletion goes on.
DeleteAccount(r, u) ==
  /\ pc[r] = "idle"
  /\ \/ RevokeForUser(u)
     \/ StoreFaults /\ UNCHANGED tokens
  /\ Goto(r, "deleteRow")
  /\ job' = [job EXCEPT ![r] = [NoJob EXCEPT !.user = u]]
  /\ UNCHANGED <<clock, lastId, accounts, codes, replay, held, history>>

\* ... then the account row.
DeleteRow(r) ==
  /\ pc[r] = "deleteRow"
  /\ accounts' = accounts \ {job[r].user}
  /\ withdrawn' = withdrawn \cup {k.id : k \in {c \in consents : c.user = job[r].user}}
  /\ Finish(r)
  /\ UNCHANGED <<clock, lastId, codes, tokens, replay, held, consents, grants, revoked>>

-----------------------------------------------------------------------------
(* The environment.                                                        *)

\* purge_expired, run by a registration.
PurgeExpired ==
  /\ tokens' = {t \in tokens : t.expires >= clock}
  /\ codes' = {k \in codes : k.expires >= clock}
  /\ UNCHANGED <<clock, lastId, accounts, replay, pc, job, held, history>>

\* Mutant: an exchange that dies puts its code back.
AbortReturnsCode(r) ==
  /\ pc[r] # "idle"
  /\ Finish(r)
  /\ codes' = codes \cup
       {k \in consents : /\ pc[r] = "putAccess" /\ job[r].old = 0
                         /\ [code |-> k.id, family |-> job[r].family] \in grants}
  /\ UNCHANGED <<clock, lastId, accounts, tokens, replay, held, history>>

\* A request dies between two awaits.
Abort(r) ==
  /\ pc[r] # "idle"
  /\ Finish(r)
  /\ UNCHANGED <<clock, lastId, store, replay, held, history>>

\* An instance is recycled: its requests and its memory are gone.
Restart(i) ==
  /\ pc' = [r \in Reqs |-> IF Host[r] = i THEN "idle" ELSE pc[r]]
  /\ job' = [r \in Reqs |-> IF Host[r] = i THEN NoJob ELSE job[r]]
  /\ replay' = [replay EXCEPT ![i] = {}]
  /\ UNCHANGED <<clock, lastId, store, held, history>>

Tick ==
  /\ clock < MaxClock
  /\ clock' = clock + 1
  /\ UNCHANGED <<lastId, store, replay, pc, job, held, history>>

-----------------------------------------------------------------------------
\* A client may present any token that has reached some client.
TokenRequest(r) ==
  \E c \in Clients :
    \/ \E k \in codes : ExchangeCode(r, c, k)
    \/ \E h \in held : Refresh(r, c, h.id) \/ RefreshMisses(r, c, h.id)
                         \/ Revoke(r, c, h.id, h.kind)

Continue(r) ==
  \/ RecordUser(r) \/ PutAccess(r) \/ PutRefresh(r) \/ Rotate(r) \/ Answer(r)
  \/ TakeReplay(r) \/ DetectReuse(r) \/ EndFamily(r) \/ EndToken(r)
  \/ DeleteRow(r)

AccountRequest(r) ==
  \E u \in Users : DeleteAccount(r, u) \/ \E c \in Clients : Approve(r, u, c)

Next ==
  \/ \E r \in Reqs : TokenRequest(r) \/ AccountRequest(r) \/ Continue(r) \/ Abort(r)
  \/ \E k \in codes : RefuseCode(k)
  \/ \E i \in Instances : Restart(i)
  \/ PurgeExpired
  \/ Tick

Spec == Init /\ [][Next]_vars

-----------------------------------------------------------------------------
(* Properties.                                                             *)

Usable(t) == ~t.revoked /\ clock < t.expires

\* What validate_access_token accepts.
LiveAccess(t) == t.kind = "access" /\ Usable(t)

\* "Two concurrent exchanges of the same code race on one row and exactly one
\* of them gets a result" (oauthstore.py): however exchanges interleave, die
\* or are repeated, a code starts at most one family of tokens, and a code
\* that started one is not in the table to start another.
CodeSingleUse ==
  /\ \A g, h \in grants : g.code = h.code => g = h
  /\ \A g \in grants, k \in codes : g.code # k.id

\* Every token, through any number of rotations, carries the client and the
\* user of the approval its family began with.
Provenance ==
  \A t \in tokens : \E g \in grants, k \in consents :
    /\ g.family = t.family
    /\ g.code = k.id
    /\ t.client = k.client
    /\ t.user = k.user

\* "A crash in between leaves the user with a token that still works rather
\* than none at all" (_refresh_token_grant): a refresh token is rotated out
\* only while a successor that lives at least as long is in the table, and no
\* crash, purge or concurrent refresh takes the successor before it.
NeverStranded ==
  \A o \in tokens : o.kind = "refresh" /\ o.revoked =>
    \E s \in tokens : /\ s.kind = "refresh" /\ ~s.revoked
                      /\ s.family = o.family
                      /\ s.expires >= o.expires

\* The pair a lost response is answered with is the one its rotation made:
\* whatever is left of it in the table belongs to the client that asked and
\* to the family of the rotated token, and the token really is rotated out.
ReplayIsFaithful ==
  \A i \in Instances : \A e \in replay[i] : \A s, o \in tokens :
    s.id \in {e.access, e.refresh} /\ o.id = e.id =>
      o.revoked /\ s.family = o.family /\ s.client = e.client

\* A token reaches no client but the one it was issued to, by an answer or by
\* a replay of one.
DeliveredToOwner ==
  \A h \in held, t \in tokens : t.id = h.id => t.client = h.client

\* A rotation is final: a row stamped revoked_at keeps its stamp for as long
\* as it exists, and a row that left the table never comes back.
RotationIsFinal ==
  [][/\ \A o \in tokens, n \in tokens' : o.id = n.id =>
          n = o \/ n = [o EXCEPT !.revoked = TRUE]
     /\ \A n \in tokens' : (\A o \in tokens : o.id # n.id) => n.id \notin {h.id : h \in held}]_vars

\* Served one request at a time: once revoke_family has run, by a logout or a
\* detected reuse, no token of the family exists again.
RevokedFamilyIsDead == \A t \in tokens : t.family \notin revoked

\* Served one request at a time: however many responses are lost and however
\* often a refresh is retried, the clients hold at most one refresh token of
\* a family that still works.
OneUsableRefresh ==
  \A s, t \in tokens :
    /\ s.kind = "refresh" /\ t.kind = "refresh" /\ s.family = t.family
    /\ Usable(s) /\ Usable(t)
    /\ {s.id, t.id} \subseteq {h.id : h \in held}
    => s = t

\* "Tokens first ... the other order would leave live tokens pointing at an
\* account that no longer exists" (connect_delete): when the account row
\* goes, no live token of the account is left in the table.
AccountGoneMeansSignedOut ==
  [][\A u \in accounts \ accounts' : \A t \in tokens' : t.user = u => ~LiveAccess(t)]_vars

\* "Every client has been signed out" (the page connect_delete answers with):
\* no token is written for an approval given before the account was deleted.
NoTokenAfterDeletion ==
  [][\A t \in tokens' \ tokens : \A g \in grants :
       g.family = t.family => g.code \notin withdrawn]_vars

\* "A client that logs out cannot leave a live access token behind" (revoke);
\* "every token descended from that one authorization is deleted"
\* (_detect_reuse): no live access token belongs to a revoked family.
NothingLiveAfterRevocation ==
  \A t \in tokens : LiveAccess(t) => t.family \notin revoked

\* "The honest retry -- a client asking again for a response it never
\* received -- is caught before this function runs" (_detect_reuse): a family
\* is not about to be revoked for a retry, by the same client, on the same
\* instance, inside the window, of a rotation that has not answered yet.
HonestRetrySpared ==
  \A r, q \in Reqs :
    pc[r] = "reuseDetected" /\ pc[q] = "answer" =>
      ~(/\ job[q].old = job[r].old /\ job[q].client = job[r].client
        /\ Host[q] = Host[r] /\ clock < job[q].now + Grace)

-----------------------------------------------------------------------------
(* The promise to the user, per approval: see GrantLifecycle.              *)

\* Steps of a request that will still write a token.
Issuing == {"putAccess", "putRefresh"}

\* A family is alive while it has a row, rotated out or not, or a request is
\* about to write one.
Alive(f) ==
  \/ \E t \in tokens : t.family = f
  \/ \E r \in Reqs : pc[r] \in Issuing /\ job[r].family = f

Phase(c) ==
  IF \A k \in consents : k.id # c THEN "none"
  ELSE IF \E k \in codes : k.id = c THEN "offered"
  ELSE IF \E g \in grants : g.code = c /\ Alive(g.family) THEN "active"
  ELSE "ended"

Lifecycle == INSTANCE GrantLifecycle
               WITH Grants <- Ids, phase <- [c \in Ids |-> Phase(c)]

\* An approval is offered once, starts tokens at most once, and once the last
\* token of its line is gone and none is being written, no retry, replay or
\* late request brings the line back.
ImplementsGrantLifecycle == Lifecycle!Spec

=============================================================================
