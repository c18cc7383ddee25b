-------------------------------- MODULE Door --------------------------------
(***************************************************************************)
(* What stands between an HTTP request to /mcp and the tools, from the     *)
(* outside in, as api/index.py stacks it:                                  *)
(*                                                                         *)
(*   - OAuthResourceGate (src/oauth.py) removes the identity headers a     *)
(*     client sent, answers a caller without a token with a challenge      *)
(*     unless it only looks around (src/discovery.py), and puts the owner  *)
(*     of a valid token into the request;                                  *)
(*   - HardLimitMiddleware (src/hard_limit.py) answers 429 to a caller     *)
(*     that loops through refusals;                                        *)
(*   - AnonCapMiddleware (src/anon_gate.py) challenges an anonymous caller *)
(*     whose allowance is used up;                                         *)
(*   - the tool layer (src/server.py) counts and refuses by itself.        *)
(*                                                                         *)
(* `python -m src` installs the second one only. Every layer looks at the  *)
(* request on its own, and awaits a store between one and the next, so     *)
(* that tokens expire, counters move and feeds load in between. How much a *)
(* search costs, and the hours and days of the counters, are in FairUse.   *)
(***************************************************************************)
EXTENDS Naturals

CONSTANTS
  Clients,    \* addresses that requests come from, each with a
  ClientKind, \* "direct", "gateway", "config" or "local" (nothing to key on)
  Accounts, Tokens,
  Owner,      \* Owner[t]: the account token t is issued to
  Elsewhere,  \* tokens issued for the other product's resource
  Requests,   \* what clients may send, see Request
  Configs,    \* the deployments, see Config
  Slots,      \* requests being served at the same time
  UserCap, AnonCap,  \* searches a day, signed in and anonymous
  HardAfter,  \* fair_use_hard_after
  None

Kinds == {"direct", "gateway", "config", "local"}

\* size: "large" is beyond MAX_DISCOVERY_BODY and still read whole (up to
\* MAX_SNIFF_BYTES, or any size in a single ASGI message); "huge" is cut off
\* while it is read. methods is {} when the body is no JSON-RPC.
Body == [batch : BOOLEAN, methods : SUBSET {"look", "call", "odd"},
         size : {"small", "large", "huge"}]

\* claim: the x-fp-oauth-* headers the client sent itself.
Request ==
  [from : Clients, path : {"/mcp", "/mcp/oauth"}, post : BOOLEAN, body : Body,
   token : Tokens \cup {None}, claim : Accounts \cup {None}]

\* signin: build_free_oauth returned something; mode: FREE_ANON_MODE.
Config == [entry : {"vercel", "main"}, signin : BOOLEAN, mode : {"challenge", "open"}]

ASSUME DoorAssumption ==
  /\ ClientKind \in [Clients -> Kinds]
  /\ Owner \in [Tokens -> Accounts]
  /\ Elsewhere \subseteq Tokens
  /\ Requests \subseteq Request
  /\ Configs \subseteq Config
  /\ {UserCap, AnonCap, HardAfter} \subseteq Nat \ {0}
  /\ AnonCap <= UserCap
  /\ None \notin Accounts \cup Tokens \cup Clients
  /\ Accounts \cap Clients = {}

VARIABLES
  config,   \* how this deployment is set up; it does not change
  token,    \* token[t]: "unissued", "live" or "dead" (expired or revoked)
  used,     \* used[k]: searches counted today against key k
  refused,  \* refused[k]: refusals counted against key k in the last hour
  feed,     \* whether this instance has loaded the gateways' ranges
  stage,    \* where the request of each slot stands
  job       \* what it carries

vars == <<config, token, used, refused, feed, stage, job>>

Keys == Accounts \cup Clients

\* sound is history: the token has been good, and the store has answered,
\* since the request arrived.
Job == [req : Requests, subject : Accounts \cup {None}, key : Keys \cup {None},
        sound : BOOLEAN,
        answer : {None, "served", "rejected", "limited", "challenge", "invalid",
                  "not found", "too many"}]

\* None is a value of its own.
ASSUME NoneAssumption == None \notin Job

-----------------------------------------------------------------------------
(* Reading a request.                                                      *)

\* Mutant: one discovery call makes a batch a discovery batch.
SomeDiscovery(b) == b.size = "small" /\ "look" \in b.methods

\* is_discovery_payload: served whole or challenged whole.
IsDiscovery(b) == b.size = "small" /\ b.methods = {"look"}

\* discovery_probe
Looking(q) == q.post /\ IsDiscovery(q.body)

\* _method: of a single call that could be read.
Billable(q) ==
  q.post /\ ~q.body.batch /\ q.body.size # "huge" /\ q.body.methods = {"call"}

\* The counting key of identify(); None: not counted, never refused.
KeyOf(q, subject) ==
  IF subject # None THEN subject
  ELSE IF ClientKind[q.from] = "local" THEN None ELSE q.from

\* ... and its kind: a gateway is only known by ranges that are loaded.
KindOf(q, subject, loaded) ==
  IF subject # None THEN "signed_in"
  ELSE IF ClientKind[q.from] = "gateway" /\ ~loaded THEN "direct"
  ELSE ClientKind[q.from]

\* anon_caps and caps_for: no anonymous tier in challenge mode.
Cap(kind) ==
  IF kind = "signed_in" \/ config.mode = "challenge" THEN UserCap ELSE AnonCap

\* The bound of the model: nothing tells a counter that is beyond the highest
\* threshold it is compared with from one that has reached it.
Counted(n, threshold) == IF n < threshold THEN n + 1 ELSE n

\* FairUseState.blocked
Blocked(key, kind) == used[key] >= Cap(kind)

\* validate_access_token: unknown, expired, revoked or for another resource.
Valid(t) == token[t] = "live" /\ t \notin Elsewhere

-----------------------------------------------------------------------------
Init ==
  /\ config \in Configs
  /\ token = [t \in Tokens |-> "unissued"]
  /\ used = [k \in Keys |-> 0]
  /\ refused = [k \in Keys |-> 0]
  /\ feed = FALSE
  /\ stage = [s \in Slots |-> "idle"]
  /\ job = [s \in Slots |-> None]

Answer(s, what) ==
  /\ stage' = [stage EXCEPT ![s] = "done"]
  /\ job' = [job EXCEPT ![s].answer = what]

Pass(s, to) == stage' = [stage EXCEPT ![s] = to] /\ UNCHANGED job

\* The gate, up to its first await.
Gate(s, q) ==
  LET alias == q.path = "/mcp/oauth"
      \* strip_identity_headers; python -m src has no gate.
      subject == IF config.entry = "main" THEN q.claim ELSE None
      new(to, answer) ==
        /\ stage' = [stage EXCEPT ![s] = to]
        /\ job' = [job EXCEPT ![s] =
                     [req |-> q, subject |-> subject, key |-> None,
                      sound |-> q.token # None /\ Valid(q.token), answer |-> answer]]
  IN
  /\ stage[s] = "idle"
  /\ CASE config.entry = "main" ->
            IF alias THEN new("done", "not found") ELSE new("hard", None)
       [] config.entry = "vercel" /\ ~config.signin ->
            IF alias THEN new("done", "not found") ELSE new("hard", None)
       [] config.entry = "vercel" /\ config.signin ->
            CASE q.token # None -> new("lookup", None)
              [] q.token = None /\ ~alias /\ (config.mode = "open" \/ Looking(q)) ->
                   new("hard", None)
              [] OTHER -> new("done", "challenge")
  /\ UNCHANGED <<config, token, used, refused, feed>>

\* The token is looked up; its owner goes into the request.
Lookup(s) ==
  /\ stage[s] = "lookup"
  /\ IF Valid(job[s].req.token)
     THEN /\ stage' = [stage EXCEPT ![s] = "hard"]
          /\ job' = [job EXCEPT ![s].subject = Owner[job[s].req.token]]
     ELSE Answer(s, "invalid")
  /\ UNCHANGED <<config, token, used, refused, feed>>

\* "There is no way to serve the request without the lookup."
LookupFails(s) ==
  /\ stage[s] = "lookup"
  /\ stage' = [stage EXCEPT ![s] = "done"]
  /\ job' = [job EXCEPT ![s].answer = "invalid", ![s].sound = FALSE]
  /\ UNCHANGED <<config, token, used, refused, feed>>

\* HardLimitMiddleware. A gateway's refusals are not counted.
HardLimit(s) ==
  LET q    == job[s].req
      key  == KeyOf(q, job[s].subject)
      kind == KindOf(q, job[s].subject, feed)
  IN
  /\ stage[s] = "hard"
  /\ IF Billable(q) /\ key # None /\ kind # "gateway" /\ refused[key] >= HardAfter
     THEN Answer(s, "too many")
     ELSE Pass(s, IF config.entry = "vercel" /\ config.signin THEN "anon" ELSE "tool")
  /\ UNCHANGED <<config, token, used, refused, feed>>

\* Mutant: the taster cap is held against every request of a direct caller.
ChallengeAll(s) ==
  LET q == job[s].req  key == KeyOf(q, job[s].subject) IN
  /\ stage[s] = "anon"
  /\ IF KindOf(q, job[s].subject, feed) = "direct" /\ Blocked(key, "direct")
     THEN Answer(s, "challenge")
     ELSE Pass(s, "tool")
  /\ UNCHANGED <<config, token, used, refused, feed>>

\* AnonCapMiddleware challenges a direct caller only.
AnonCap401(s) ==
  LET q == job[s].req  key == KeyOf(q, job[s].subject) IN
  /\ stage[s] = "anon"
  /\ IF /\ Billable(q)
        /\ KindOf(q, job[s].subject, feed) = "direct"
        /\ Blocked(key, "direct")
     THEN Answer(s, "challenge")
     ELSE Pass(s, "tool")
  /\ UNCHANGED <<config, token, used, refused, feed>>

\* The MCP library: nothing to call. It may not take batches.
Handshake(s) ==
  /\ stage[s] = "tool"
  /\ \/ "call" \notin job[s].req.body.methods /\ Answer(s, "served")
     \/ ~job[s].req.post /\ Answer(s, "served")
     \/ job[s].req.body.batch /\ Answer(s, "rejected")
  /\ UNCHANGED <<config, token, used, refused, feed>>

\* Mutant: the caller is identified again for the charge, by its address.
ToolCallByAddress(s) ==
  LET q == job[s].req  key == KeyOf(q, job[s].subject) IN
  /\ stage[s] = "tool"
  /\ q.post /\ "call" \in q.body.methods
  /\ key # None => ~Blocked(key, KindOf(q, job[s].subject, feed))
  /\ stage' = [stage EXCEPT ![s] = "search"]
  /\ job' = [job EXCEPT ![s].key = KeyOf(q, None)]
  /\ UNCHANGED <<config, token, used, refused, feed>>

\* The tool layer, which waits for the feed first; a load may fail.
ToolCall(s) ==
  LET q == job[s].req  key == KeyOf(q, job[s].subject) IN
  /\ stage[s] = "tool"
  /\ q.post /\ "call" \in q.body.methods
  /\ \E loaded \in {feed, TRUE} :
       LET kind == KindOf(q, job[s].subject, loaded) IN
       /\ feed' = loaded
       /\ IF key # None /\ Blocked(key, kind)
          THEN /\ Answer(s, "limited")
               /\ refused' = IF kind = "gateway" THEN refused
                             ELSE [refused EXCEPT ![key] = Counted(@, HardAfter)]
          ELSE /\ stage' = [stage EXCEPT ![s] = "search"]
               /\ job' = [job EXCEPT ![s].key = key]
               /\ UNCHANGED refused
  /\ UNCHANGED <<config, token, used>>

Search(s) ==
  /\ stage[s] = "search"
  /\ Answer(s, "served")
  /\ used' = IF job[s].key = None THEN used ELSE
              LET key == job[s].key
                  cap == Cap(IF key \in Accounts THEN "signed_in" ELSE "direct")
              IN [used EXCEPT ![key] = Counted(@, cap)]
  /\ UNCHANGED <<config, token, refused, feed>>

\* The caller takes its answer, or goes away before.
Leave(s) ==
  /\ stage[s] # "idle"
  /\ stage' = [stage EXCEPT ![s] = "idle"]
  /\ job' = [job EXCEPT ![s] = None]
  /\ UNCHANGED <<config, token, used, refused, feed>>

-----------------------------------------------------------------------------
(* Around it.                                                              *)

SignIn(t) ==
  /\ token[t] = "unissued"
  /\ token' = [token EXCEPT ![t] = "live"]
  /\ UNCHANGED <<config, used, refused, feed, stage, job>>

\* Expired, rotated out or revoked: OAuthTokens.
Expire(t) ==
  /\ token[t] = "live"
  /\ token' = [token EXCEPT ![t] = "dead"]
  /\ job' = [s \in Slots |->
               IF stage[s] # "idle" /\ job[s].req.token = t
               THEN [job[s] EXCEPT !.sound = FALSE] ELSE job[s]]
  /\ UNCHANGED <<config, used, refused, feed, stage>>

NewDay ==
  /\ used' = [k \in Keys |-> 0]
  /\ UNCHANGED <<config, token, refused, feed, stage, job>>

NewHour ==
  /\ refused' = [k \in Keys |-> 0]
  /\ UNCHANGED <<config, token, used, feed, stage, job>>

Restart ==
  /\ feed' = FALSE
  /\ stage' = [s \in Slots |-> "idle"]
  /\ job' = [s \in Slots |-> None]
  /\ UNCHANGED <<config, token, used, refused>>

Next ==
  \/ \E s \in Slots :
       \/ \E q \in Requests : Gate(s, q)
       \/ Lookup(s) \/ LookupFails(s) \/ HardLimit(s) \/ AnonCap401(s)
       \/ Handshake(s) \/ ToolCall(s) \/ Search(s) \/ Leave(s)
  \/ \E t \in Tokens : SignIn(t) \/ Expire(t)
  \/ NewDay \/ NewHour \/ Restart

Spec == Init /\ [][Next]_vars

-----------------------------------------------------------------------------
(* Properties.                                                             *)

\* Types; a slot carries a request exactly while it is taken, a lookup is for
\* a token, and a request past the gate is counted under a name that goes with its caller.
TypeOK ==
  /\ config \in Config
  /\ token \in [Tokens -> {"unissued", "live", "dead"}]
  /\ used \in [Keys -> 0 .. UserCap]
  /\ refused \in [Keys -> 0 .. HardAfter]
  /\ feed \in BOOLEAN
  /\ stage \in [Slots -> {"idle", "lookup", "hard", "anon", "tool", "search", "done"}]
  /\ job \in [Slots -> Job \cup {None}]
  /\ \A s \in Slots :
       /\ (stage[s] = "idle") <=> (job[s] = None)
       /\ stage[s] = "lookup" => job[s].req.token # None
       /\ stage[s] = "search" => job[s].key = KeyOf(job[s].req, job[s].subject)

\* "Every served call on the free server belongs to a Google account"
\* (api/index.py): with sign-in configured and FREE_ANON_MODE not open, no
\* search is made or counted for an address, and the account it is counted
\* against is the owner of the token the request carried, whatever the path,
\* the shape of the body or the headers of the request.
AccountsOnly ==
  config.entry = "vercel" /\ config.signin /\ config.mode = "challenge" =>
    /\ \A c \in Clients : used[c] = 0 /\ refused[c] = 0
    /\ \A s \in Slots : stage[s] = "search" =>
         /\ job[s].req.token \in Tokens \ Elsewhere
         /\ job[s].key = Owner[job[s].req.token]

\* Who may come in is let in. A caller without a token that only looks around
\* on /mcp is served in every mode, however often its address was refused
\* ("initialize and tools/list are never refused here"). One with a good
\* token is refused for what its own account has used up, and never for its
\* address: signing in is the way out of every refusal before it.
WelcomeKept ==
  [][\A s \in Slots :
       stage[s] # "done" /\ stage'[s] = "done" =>
         LET j == job'[s]  q == j.req IN
         /\ config.entry = "vercel" /\ q.path = "/mcp" /\ q.token = None /\ Looking(q)
              => j.answer \in {"served", "rejected"}
         /\ config.entry = "vercel" /\ config.signin /\ j.sound
              => \/ j.answer \in {"served", "rejected"}
                 \/ j.answer = "limited" /\ used[Owner[q.token]] >= UserCap
                 \/ j.answer = "too many" /\ refused[Owner[q.token]] >= HardAfter]_vars

=============================================================================
