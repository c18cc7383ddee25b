------------------------------ MODULE DoorProofs ------------------------------
(* Theorems about Door, for any addresses, accounts, tokens, requests,     *)
(* deployments, caps and number of requests served at the same time.       *)
EXTENDS Door, TLAPS

-----------------------------------------------------------------------------
(* Reading a request.                                                      *)

\* A request that only looks around is neither a call nor billable.
LEMMA LookingIsNoCall ==
  ASSUME NEW q, Looking(q)
  PROVE  "call" \notin q.body.methods /\ ~Billable(q)
  BY DEF Looking, IsDiscovery, Billable

\* The name a caller is counted under is a key, or none.
LEMMA KeyType ==
  ASSUME NEW q \in Requests, NEW subject \in Accounts \cup {None}
  PROVE  KeyOf(q, subject) \in Keys \cup {None}
  BY DoorAssumption DEF KeyOf, Keys, Request

\* Whoever is signed in is counted under the account, as signed in.
LEMMA AccountKey ==
  ASSUME NEW q, NEW a \in Accounts, NEW loaded
  PROVE  KeyOf(q, a) = a /\ KindOf(q, a, loaded) = "signed_in"
  BY DoorAssumption DEF KeyOf, KindOf

\* A cap is a positive number, and none is above the cap of an account.
LEMMA CapRange ==
  ASSUME NEW kind
  PROVE  Cap(kind) \in Nat /\ Cap(kind) <= UserCap
  BY DoorAssumption DEF Cap

\* A counter stays within the threshold it is counted up to.
LEMMA CountedRange ==
  ASSUME NEW top \in Nat, NEW bound \in Nat, bound <= top, NEW n \in 0 .. top
  PROVE  Counted(n, bound) \in 0 .. top
  BY DEF Counted

-----------------------------------------------------------------------------
(* Types.                                                                  *)

Stages == {"idle", "lookup", "hard", "anon", "tool", "search", "done"}

\* The conjunct of TypeOK that speaks of one slot.
SlotOK(s) ==
  /\ stage[s] \in Stages
  /\ job[s] \in Job \cup {None}
  /\ (stage[s] = "idle") <=> (job[s] = None)
  /\ stage[s] = "lookup" => job[s].req.token # None
  /\ stage[s] = "search" => job[s].key = KeyOf(job[s].req, job[s].subject)

\* The conjuncts that speak of all of them.
Rest ==
  /\ config \in Config
  /\ token \in [Tokens -> {"unissued", "live", "dead"}]
  /\ used \in [Keys -> 0 .. UserCap]
  /\ refused \in [Keys -> 0 .. HardAfter]
  /\ feed \in BOOLEAN
  /\ stage = [s \in Slots |-> stage[s]] /\ job = [s \in Slots |-> job[s]]

\* Slot by slot.
LEMMA TypeBySlot == TypeOK <=> Rest /\ \A s \in Slots : SlotOK(s)
  <1>1. TypeOK => Rest /\ \A s \in Slots : SlotOK(s)
    BY DEF TypeOK, Rest, SlotOK, Stages
  <1>2. Rest /\ (\A s \in Slots : SlotOK(s)) => TypeOK
    BY DEF TypeOK, Rest, SlotOK, Stages
  <1> QED BY <1>1, <1>2

\* ... and back, after a step.
LEMMA TypeAgain == Rest' /\ (\A s \in Slots : SlotOK(s)') => TypeOK'
  BY DEF TypeOK, Rest, SlotOK, Stages

\* A slot that a step leaves alone stays as it is.
LEMMA OtherSlots ==
  ASSUME NEW s \in Slots, SlotOK(s), stage'[s] = stage[s], job'[s] = job[s]
  PROVE  SlotOK(s)'
  BY DEF SlotOK

\* Answering a request, or passing it on, keeps its slot well typed.
LEMMA AnswerTyped ==
  ASSUME TypeOK, NEW s \in Slots, stage[s] # "idle",
         NEW what \in {"served", "rejected", "limited", "challenge", "invalid",
                       "not found", "too many"},
         Answer(s, what)
  PROVE  /\ stage' = [t \in Slots |-> stage'[t]] /\ job' = [t \in Slots |-> job'[t]]
         /\ \A t \in Slots : SlotOK(t)'
  <1>1. job[s] \in Job
    BY DEF TypeOK
  <1>2. [job[s] EXCEPT !.answer = what] \in Job
    BY <1>1 DEF Job
  <1>3. stage'[s] = "done" /\ job'[s] = [job[s] EXCEPT !.answer = what]
    BY DEF Answer, TypeOK
  <1>4. SlotOK(s)'
    BY <1>2, <1>3, NoneAssumption DEF SlotOK, Stages
  <1>5. ASSUME NEW t \in Slots, t # s PROVE SlotOK(t)'
    <2>1. stage'[t] = stage[t] /\ job'[t] = job[t]
      BY <1>5 DEF Answer, TypeOK
    <2> QED BY <2>1, TypeBySlot, OtherSlots
  <1> QED BY <1>4, <1>5 DEF Answer, TypeOK

\* ... and so does passing it on.
LEMMA PassTyped ==
  ASSUME TypeOK, NEW s \in Slots, stage[s] # "idle",
         NEW to \in {"hard", "anon", "tool"}, Pass(s, to)
  PROVE  /\ stage' = [t \in Slots |-> stage'[t]] /\ job' = [t \in Slots |-> job'[t]]
         /\ \A t \in Slots : SlotOK(t)'
  <1>1. stage'[s] = to /\ job' = job /\ \A t \in Slots \ {s} : stage'[t] = stage[t]
    BY DEF Pass, TypeOK
  <1>2. SlotOK(s)'
    BY <1>1, TypeBySlot DEF SlotOK, Stages
  <1>3. \A t \in Slots \ {s} : SlotOK(t)'
    BY <1>1, TypeBySlot, OtherSlots
  <1> QED BY <1>1, <1>2, <1>3 DEF Pass, TypeOK

\* The deployment starts well typed.
LEMMA TypeInit == Init => TypeOK
  <1> SUFFICES ASSUME Init PROVE TypeOK
    OBVIOUS
  <1>1. 0 \in 0 .. UserCap /\ 0 \in 0 .. HardAfter
    BY DoorAssumption
  <1>2. config \in Config
    BY DoorAssumption DEF Init
  <1> QED BY <1>1, <1>2 DEF Init, TypeOK

\* What the gate makes of a request.
GateJob(q, answer) ==
  [req |-> q, subject |-> IF config.entry = "main" THEN q.claim ELSE None,
   key |-> None, sound |-> q.token # None /\ Valid(q.token), answer |-> answer]

GoesTo(s, q, to, answer) ==
  /\ stage' = [stage EXCEPT ![s] = to]
  /\ job' = [job EXCEPT ![s] = GateJob(q, answer)]

\* The gate closes the alias where there is no sign-in; where there is, it
\* looks a token up, and lets a caller without one in only on /mcp, to look
\* around or on an open deployment.
LEMMA GateOutcome ==
  ASSUME TypeOK, NEW s \in Slots, NEW q \in Requests, Gate(s, q)
  PROVE  LET alias == q.path = "/mcp/oauth"
             plain == config.entry = "main" \/ ~config.signin
         IN \/ GoesTo(s, q, "done", "not found") /\ plain /\ alias
            \/ GoesTo(s, q, "hard", None) /\ plain
            \/ GoesTo(s, q, "lookup", None) /\ ~plain /\ q.token # None
            \/ /\ GoesTo(s, q, "hard", None) /\ ~plain /\ q.token = None
               /\ config.mode = "open" \/ Looking(q)
            \/ /\ GoesTo(s, q, "done", "challenge") /\ ~plain /\ q.token = None
               /\ alias \/ ~Looking(q)
  <1>1. config.entry \in {"vercel", "main"} /\ config.signin \in BOOLEAN
    BY DEF TypeOK, Config
  <1>2. CASE config.entry = "main"
    BY <1>2, Zenon DEF Gate, GoesTo, GateJob
  <1>3. CASE config.entry = "vercel" /\ ~config.signin
    BY <1>3, Zenon DEF Gate, GoesTo, GateJob
  <1>4. CASE config.entry = "vercel" /\ config.signin
    <2>1. config.entry # "main"
      BY <1>4
    <2>2. CASE q.token # None
      BY <1>4, <2>1, <2>2, Zenon DEF Gate, GoesTo, GateJob
    <2>3. CASE q.token = None /\ q.path # "/mcp/oauth" /\ (config.mode = "open" \/ Looking(q))
      BY <1>4, <2>1, <2>3, Zenon DEF Gate, GoesTo, GateJob
    <2>4. CASE q.token = None /\ ~(q.path # "/mcp/oauth" /\ (config.mode = "open" \/ Looking(q)))
      BY <1>4, <2>1, <2>4, Zenon DEF Gate, GoesTo, GateJob
    <2> QED BY <2>2, <2>3, <2>4
  <1> QED BY <1>1, <1>2, <1>3, <1>4

\* A request comes in with the fields of a job.
LEMMA GateTyped ==
  ASSUME TypeOK, NEW s \in Slots, NEW q \in Requests, Gate(s, q)
  PROVE  TypeOK'
  <1>1. PICK to \in {"lookup", "hard", "done"}, a \in {None, "not found", "challenge"} :
          GoesTo(s, q, to, a) /\ (to = "lookup" => q.token # None)
    BY GateOutcome
  <1>2. GateJob(q, a) \in Job /\ GateJob(q, a).req = q
    <2>1. q.token \in Tokens \cup {None} /\ q.claim \in Accounts \cup {None}
      BY DoorAssumption DEF Request
    <2>2. (q.token # None /\ Valid(q.token)) \in BOOLEAN
      OBVIOUS
    <2> QED BY <2>1, <2>2 DEF Job, GateJob
  <1>3. /\ stage'[s] = to /\ job'[s] = GateJob(q, a)
        /\ stage' = [stage EXCEPT ![s] = to] /\ job' = [job EXCEPT ![s] = GateJob(q, a)]
    BY <1>1 DEF GoesTo, TypeOK
  <1>4. SlotOK(s)'
    BY <1>1, <1>2, <1>3, NoneAssumption DEF SlotOK, Stages
  <1>5. ASSUME NEW t \in Slots, t # s PROVE SlotOK(t)'
    <2>1. stage'[t] = stage[t] /\ job'[t] = job[t]
      BY <1>3, <1>5 DEF TypeOK
    <2> QED BY <2>1, TypeBySlot, OtherSlots
  <1>6. Rest'
    BY <1>3 DEF Gate, TypeOK, Rest
  <1> QED BY <1>4, <1>5, <1>6, TypeAgain

\* The lookup answers, or names an account.
LEMMA LookupTyped ==
  ASSUME TypeOK, NEW s \in Slots, Lookup(s) \/ LookupFails(s)
  PROVE  TypeOK'
  <1>1. job[s] \in Job /\ job[s] # None /\ stage[s] = "lookup"
    BY DEF Lookup, LookupFails, TypeOK
  <1>2. Rest' /\ \A t \in Slots : SlotOK(t)'
    <2>1. CASE Lookup(s) /\ ~Valid(job[s].req.token)
      <3>1. Answer(s, "invalid")
        BY <2>1 DEF Lookup
      <3>2. UNCHANGED <<config, token, used, refused, feed>>
        BY <2>1 DEF Lookup
      <3> QED BY <1>1, <3>1, <3>2, AnswerTyped DEF TypeOK, Rest
    <2>2. ASSUME NEW new \in Job, NEW to \in {"hard", "done"},
                 stage' = [stage EXCEPT ![s] = to], job' = [job EXCEPT ![s] = new],
                 UNCHANGED <<config, token, used, refused, feed>>
          PROVE  Rest' /\ \A t \in Slots : SlotOK(t)'
      <3>1. SlotOK(s)'
        BY <2>2, NoneAssumption DEF SlotOK, Stages, TypeOK
      <3>2. ASSUME NEW t \in Slots, t # s PROVE SlotOK(t)'
        <4>1. stage'[t] = stage[t] /\ job'[t] = job[t]
          BY <2>2, <3>2 DEF TypeOK
        <4> QED BY <4>1, TypeBySlot, OtherSlots
      <3>3. Rest'
        BY <2>2 DEF Rest, TypeOK
      <3> QED BY <3>1, <3>2, <3>3
    <2>3. CASE Lookup(s) /\ Valid(job[s].req.token)
      <3>1. Owner[job[s].req.token] \in Accounts
        <4>1. job[s].req.token \in Tokens \cup {None}
          BY <1>1, DoorAssumption DEF Job, Request
        <4>2. job[s].req.token # None
          BY <1>1 DEF TypeOK
        <4> QED BY <4>1, <4>2, DoorAssumption
      <3>2. [job[s] EXCEPT !.subject = Owner[job[s].req.token]] \in Job
        BY <1>1, <3>1 DEF Job
      <3> QED BY <2>2, <2>3, <3>2 DEF Lookup, TypeOK
    <2>4. CASE LookupFails(s)
      <3>1. [job[s] EXCEPT !.answer = "invalid", !.sound = FALSE] \in Job
        BY <1>1 DEF Job
      <3>2. job' = [job EXCEPT ![s] = [job[s] EXCEPT !.answer = "invalid", !.sound = FALSE]]
        BY <2>4 DEF LookupFails, TypeOK
      <3> QED BY <2>2, <2>4, <3>1, <3>2 DEF LookupFails
    <2> QED BY <2>1, <2>3, <2>4
  <1> QED BY <1>2, TypeAgain

\* The hard limit and the anonymous cap answer a request or pass it on.
LEMMA LimitsTyped ==
  ASSUME TypeOK, NEW s \in Slots, HardLimit(s) \/ AnonCap401(s) \/ Handshake(s)
  PROVE  TypeOK'
  <1>1. stage[s] # "idle"
    BY DEF HardLimit, AnonCap401, Handshake
  <1>2. \/ \E to \in {"hard", "anon", "tool"} : Pass(s, to)
        \/ \E what \in {"served", "rejected", "too many", "challenge"} : Answer(s, what)
    BY Zenon DEF HardLimit, AnonCap401, Handshake
  <1>3. UNCHANGED <<config, token, used, refused, feed>>
    BY DEF HardLimit, AnonCap401, Handshake
  <1> QED BY <1>1, <1>2, <1>3, PassTyped, AnswerTyped, TypeAgain DEF Rest, TypeOK

\* The refusal or the search a tool call comes to.
LEMMA ToolCallTyped ==
  ASSUME TypeOK, NEW s \in Slots, ToolCall(s)
  PROVE  TypeOK'
  <1> DEFINE q == job[s].req
             key == KeyOf(q, job[s].subject)
  <1>1. job[s] \in Job /\ stage[s] = "tool"
    BY DEF ToolCall, TypeOK
  <1>2. key \in Keys \cup {None}
    BY <1>1, KeyType DEF Job
  <1>3. PICK loaded \in {feed, TRUE} :
          /\ feed' = loaded
          /\ IF key # None /\ Blocked(key, KindOf(q, job[s].subject, loaded))
             THEN /\ Answer(s, "limited")
                  /\ refused' = IF KindOf(q, job[s].subject, loaded) = "gateway" THEN refused
                                ELSE [refused EXCEPT ![key] = Counted(@, HardAfter)]
             ELSE /\ stage' = [stage EXCEPT ![s] = "search"]
                  /\ job' = [job EXCEPT ![s].key = key]
                  /\ UNCHANGED refused
    BY Zenon DEF ToolCall
  <1>4. feed' \in BOOLEAN /\ UNCHANGED <<config, token, used>>
    BY <1>3 DEF ToolCall, TypeOK
  <1>5. CASE key # None /\ Blocked(key, KindOf(q, job[s].subject, loaded))
    <2>1. Answer(s, "limited")
      BY <1>3, <1>5
    <2>2. \A k \in Keys : Counted(refused[k], HardAfter) \in 0 .. HardAfter
      BY CountedRange, DoorAssumption DEF TypeOK
    <2>3. refused' \in [Keys -> 0 .. HardAfter]
      BY <1>2, <1>3, <1>5, <2>2 DEF TypeOK
    <2> QED BY <1>1, <1>4, <2>1, <2>3, AnswerTyped, TypeAgain DEF Rest, TypeOK
  <1>6. CASE ~(key # None /\ Blocked(key, KindOf(q, job[s].subject, loaded)))
    <2>1. /\ stage' = [stage EXCEPT ![s] = "search"]
          /\ job' = [job EXCEPT ![s].key = key]
          /\ UNCHANGED refused
      BY <1>3, <1>6
    <2>2. job'[s] = [job[s] EXCEPT !.key = key] /\ job'[s] \in Job
      BY <1>1, <1>2, <2>1 DEF Job, TypeOK
    <2>3. job'[s].key = KeyOf(job'[s].req, job'[s].subject)
      BY <1>1, <2>2 DEF Job
    <2>4. SlotOK(s)'
      BY <2>1, <2>2, <2>3, NoneAssumption DEF SlotOK, Stages, TypeOK
    <2>5. ASSUME NEW t \in Slots, t # s PROVE SlotOK(t)'
      <3>1. stage'[t] = stage[t] /\ job'[t] = job[t]
        BY <2>1, <2>5 DEF TypeOK
      <3> QED BY <3>1, TypeBySlot, OtherSlots
    <2> QED BY <1>4, <2>1, <2>4, <2>5, TypeAgain DEF Rest, TypeOK
  <1> QED BY <1>5, <1>6

\* A search is charged to a key, up to its cap.
LEMMA SearchTyped ==
  ASSUME TypeOK, NEW s \in Slots, Search(s)
  PROVE  TypeOK'
  <1>1. stage[s] = "search" /\ job[s] \in Job
    BY DEF Search, TypeOK
  <1>2. used' \in [Keys -> 0 .. UserCap]
    <2>1. CASE job[s].key = None
      BY <2>1 DEF Search, TypeOK
    <2>2. CASE job[s].key # None
      <3>1. job[s].key \in Keys
        BY <1>1, <2>2 DEF Job
      <3>2. PICK kind : used' = [used EXCEPT ![job[s].key] = Counted(@, Cap(kind))]
        BY <2>2, Zenon DEF Search
      <3>3. Counted(used[job[s].key], Cap(kind)) \in 0 .. UserCap
        BY <3>1, CapRange, CountedRange, DoorAssumption DEF TypeOK
      <3> QED BY <3>1, <3>2, <3>3 DEF TypeOK
    <2> QED BY <2>1, <2>2
  <1> QED BY <1>1, <1>2, AnswerTyped, TypeAgain DEF Search, Rest, TypeOK

\* Everything around the requests, and their end.
LEMMA SurroundingsTyped ==
  ASSUME TypeOK,
         \/ \E s \in Slots : Leave(s)
         \/ \E t \in Tokens : SignIn(t) \/ Expire(t)
         \/ NewDay \/ NewHour \/ Restart \/ UNCHANGED vars
  PROVE  TypeOK'
  <1>1. ASSUME NEW s \in Slots, Leave(s) PROVE TypeOK'
    <2>1. ASSUME NEW t \in Slots PROVE SlotOK(t)'
      <3>1. CASE t = s
        BY <1>1, <3>1 DEF Leave, SlotOK, Stages, TypeOK
      <3>2. CASE t # s
        <4>1. stage'[t] = stage[t] /\ job'[t] = job[t]
          BY <1>1, <3>2 DEF Leave, TypeOK
        <4> QED BY <4>1, TypeBySlot, OtherSlots
      <3> QED BY <3>1, <3>2
    <2> QED BY <1>1, <2>1, TypeAgain DEF Leave, Rest, TypeOK
  <1>2. ASSUME NEW t \in Tokens, SignIn(t) PROVE TypeOK'
    BY <1>2 DEF SignIn, TypeOK
  <1>3. ASSUME NEW t \in Tokens, Expire(t) PROVE TypeOK'
    <2>1. ASSUME NEW s \in Slots PROVE SlotOK(s)'
      <3>1. stage'[s] = stage[s]
        BY <1>3 DEF Expire
      <3>2. CASE stage[s] # "idle" /\ job[s].req.token = t
        <4>1. job[s] \in Job
          BY <3>2 DEF TypeOK
        <4>2. job'[s] = [job[s] EXCEPT !.sound = FALSE] /\ job'[s] \in Job
          BY <1>3, <3>2, <4>1 DEF Expire, Job
        <4>3. /\ job'[s].key = job[s].key /\ job'[s].req = job[s].req
              /\ job'[s].subject = job[s].subject
          BY <4>1, <4>2 DEF Job
        <4> QED BY <3>1, <3>2, <4>2, <4>3, NoneAssumption DEF SlotOK, Stages, TypeOK
      <3>3. CASE ~(stage[s] # "idle" /\ job[s].req.token = t)
        <4>1. job'[s] = job[s]
          BY <1>3, <3>3 DEF Expire
        <4> QED BY <3>1, <4>1, TypeBySlot, OtherSlots
      <3> QED BY <3>2, <3>3
    <2> QED BY <1>3, <2>1, TypeAgain DEF Expire, Rest, TypeOK
  <1>4. CASE NewDay \/ NewHour
    <2>1. 0 \in 0 .. UserCap /\ 0 \in 0 .. HardAfter
      BY DoorAssumption
    <2> QED BY <1>4, <2>1 DEF NewDay, NewHour, TypeOK
  <1>5. CASE Restart
    BY <1>5 DEF Restart, TypeOK
  <1>6. CASE UNCHANGED vars
    BY <1>6 DEF vars, TypeOK
  <1> QED BY <1>1, <1>2, <1>3, <1>4, <1>5, <1>6

\* The type invariant, for every deployment.
THEOREM TypeCorrect == Spec => []TypeOK
  <1>1. TypeOK /\ [Next]_vars => TypeOK'
    BY GateTyped, LookupTyped, LimitsTyped, ToolCallTyped, SearchTyped,
       SurroundingsTyped DEF Next
  <1> QED BY <1>1, TypeInit, PTL DEF Spec

-----------------------------------------------------------------------------
(* Who is behind a request that has passed the gate.                       *)

Inside == {"hard", "anon", "tool", "search"}

\* On a deployment with sign-in, a request that came in with a token is that
\* of its owner, and one without only looks around unless anyone may call.
Identified(s) ==
  stage[s] \in Inside =>
    /\ job[s].req.token # None =>
         job[s].req.token \notin Elsewhere /\ job[s].subject = Owner[job[s].req.token]
    /\ job[s].req.token = None /\ config.mode = "challenge" => Looking(job[s].req)

\* No request is searched for that has nothing to call.
Calls(s) == stage[s] = "search" => "call" \in job[s].req.body.methods

\* A token that has been good since the request arrived is good.
SoundIsValid(s) ==
  stage[s] # "idle" /\ job[s].sound => job[s].req.token # None /\ Valid(job[s].req.token)

DoorInv ==
  /\ TypeOK
  /\ \A s \in Slots :
       /\ config.entry = "vercel" /\ config.signin => Identified(s)
       /\ Calls(s)
       /\ SoundIsValid(s)

\* At the start no request is under way.
LEMMA InitDoor == Init => DoorInv
  <1> SUFFICES ASSUME Init PROVE DoorInv
    OBVIOUS
  <1>1. \A s \in Slots : stage[s] = "idle"
    BY DEF Init
  <1> QED BY <1>1, TypeInit DEF DoorInv, Identified, Calls, SoundIsValid, Inside

\* The gate lets nobody in without a token who wants more than to look around,
\* unless the deployment is open.
LEMMA GateIdentifies ==
  ASSUME DoorInv, NEW s \in Slots, NEW q \in Requests, Gate(s, q)
  PROVE  /\ config.entry = "vercel" /\ config.signin => Identified(s)'
         /\ Calls(s)' /\ SoundIsValid(s)'
  <1> USE DEF DoorInv
  <1>1. UNCHANGED <<config, token, used, refused, feed>>
    BY DEF Gate
  <1>2. PICK to \in {"lookup", "hard", "done"}, a \in {None, "not found", "challenge"} :
          /\ GoesTo(s, q, to, a)
          /\ config.entry = "vercel" /\ config.signin /\ to = "hard" =>
               q.token = None /\ (config.mode = "open" \/ Looking(q))
    BY GateOutcome
  <1>3. GateJob(q, a).req = q /\ GateJob(q, a).sound = (q.token # None /\ Valid(q.token))
    BY DEF GateJob
  <1>4. stage'[s] = to /\ job'[s].req = q
        /\ job'[s].sound = (q.token # None /\ Valid(q.token))
    BY <1>2, <1>3 DEF GoesTo, TypeOK
  <1>5. config.entry = "vercel" /\ config.signin => Identified(s)'
    <2>1. config' = config
      BY <1>1
    <2>2. CASE to = "hard"
      BY <1>2, <1>4, <2>1, <2>2 DEF Identified, Inside, Looking, IsDiscovery
    <2>3. CASE to # "hard"
      BY <1>4, <2>3 DEF Identified, Inside
    <2> QED BY <2>2, <2>3
  <1>6. SoundIsValid(s)'
    BY <1>1, <1>4 DEF SoundIsValid, Valid
  <1> QED BY <1>4, <1>5, <1>6 DEF Calls

\* A slot that a step leaves alone, while no token expires.
LEMMA OtherSlotsKept ==
  ASSUME DoorInv, NEW t \in Slots, stage'[t] = stage[t], job'[t] = job[t],
         config' = config, \A k \in Tokens : token[k] = "live" => token'[k] = "live"
  PROVE  /\ config.entry = "vercel" /\ config.signin => Identified(t)'
         /\ Calls(t)' /\ SoundIsValid(t)'
  <1>1. stage[t] # "idle" => job[t].req.token \in Tokens \cup {None}
    BY DoorAssumption DEF DoorInv, TypeOK, Job, Request
  <1>2. SoundIsValid(t)'
    BY <1>1 DEF DoorInv, SoundIsValid, Valid
  <1>3. Looking(job[t].req)' <=> Looking(job'[t].req)
    BY DEF Looking, IsDiscovery
  <1> QED BY <1>2, <1>3 DEF DoorInv, Identified, Calls, Looking, IsDiscovery

\* Past the gate a request stays what it was found to be.
LEMMA LaterStages ==
  ASSUME DoorInv, NEW s \in Slots, stage[s] \in Inside, stage'[s] \in Inside \cup {"done"},
         job'[s].req = job[s].req, job'[s].subject = job[s].subject,
         job'[s].sound = job[s].sound,
         stage'[s] = "search" => "call" \in job[s].req.body.methods,
         UNCHANGED <<config, token>>
  PROVE  /\ config.entry = "vercel" /\ config.signin => Identified(s)'
         /\ Calls(s)' /\ SoundIsValid(s)'
  <1>1. config' = config /\ token' = token
    OBVIOUS
  <1>2. config.entry = "vercel" /\ config.signin => Identified(s)'
    BY <1>1 DEF DoorInv, Identified, Inside, Looking, IsDiscovery
  <1>3. Calls(s)'
    BY DEF Calls
  <1>4. SoundIsValid(s)'
    BY <1>1 DEF DoorInv, SoundIsValid, Valid, Inside
  <1> QED BY <1>2, <1>3, <1>4

\* What the steps past the gate do to the slots.
LEMMA LaterSteps ==
  ASSUME TypeOK, NEW s \in Slots,
         HardLimit(s) \/ AnonCap401(s) \/ Handshake(s) \/ ToolCall(s) \/ Search(s)
  PROVE  /\ stage[s] \in Inside /\ stage'[s] \in Inside \cup {"done"}
         /\ job'[s].req = job[s].req /\ job'[s].subject = job[s].subject
         /\ job'[s].sound = job[s].sound
         /\ stage'[s] = "search" => "call" \in job[s].req.body.methods
         /\ \A t \in Slots \ {s} : stage'[t] = stage[t] /\ job'[t] = job[t]
         /\ UNCHANGED <<config, token>>
  <1>1. stage[s] \in Inside /\ job[s] \in Job
    BY DEF HardLimit, AnonCap401, Handshake, ToolCall, Search, Inside, TypeOK
  <1>2. UNCHANGED <<config, token>>
    BY DEF HardLimit, AnonCap401, Handshake, ToolCall, Search
  <1>3. \/ \E to \in {"hard", "anon", "tool"} : Pass(s, to)
        \/ \E what : Answer(s, what)
        \/ /\ "call" \in job[s].req.body.methods
           /\ stage' = [stage EXCEPT ![s] = "search"]
           /\ job' = [job EXCEPT ![s].key = KeyOf(job[s].req, job[s].subject)]
    BY Zenon DEF HardLimit, AnonCap401, Handshake, ToolCall, Search
  <1>4. CASE \E to \in {"hard", "anon", "tool"} : Pass(s, to)
    BY <1>1, <1>2, <1>4 DEF Pass, TypeOK, Inside
  <1>5. CASE \E what : Answer(s, what)
    <2>1. PICK what : Answer(s, what)
      BY <1>5
    <2>2. stage'[s] = "done" /\ job'[s] = [job[s] EXCEPT !.answer = what]
      BY <2>1 DEF Answer, TypeOK
    <2>3. /\ job'[s].req = job[s].req /\ job'[s].subject = job[s].subject
          /\ job'[s].sound = job[s].sound
      BY <1>1, <2>2 DEF Job
    <2> QED BY <1>1, <1>2, <2>1, <2>2, <2>3 DEF Answer, TypeOK
  <1>6. CASE /\ "call" \in job[s].req.body.methods
             /\ stage' = [stage EXCEPT ![s] = "search"]
             /\ job' = [job EXCEPT ![s].key = KeyOf(job[s].req, job[s].subject)]
    <2>1. stage'[s] = "search"
          /\ job'[s] = [job[s] EXCEPT !.key = KeyOf(job[s].req, job[s].subject)]
      BY <1>6 DEF TypeOK
    <2>2. /\ job'[s].req = job[s].req /\ job'[s].subject = job[s].subject
          /\ job'[s].sound = job[s].sound
      BY <1>1, <2>1 DEF Job
    <2> QED BY <1>1, <1>2, <1>6, <2>1, <2>2 DEF TypeOK, Inside
  <1> QED BY <1>3, <1>4, <1>5, <1>6

\* The lookup puts the owner of the token into the request, and nobody else.
LEMMA LookupIdentifies ==
  ASSUME DoorInv, NEW s \in Slots, Lookup(s) \/ LookupFails(s)
  PROVE  /\ config.entry = "vercel" /\ config.signin => Identified(s)'
         /\ Calls(s)' /\ SoundIsValid(s)'
         /\ \A t \in Slots \ {s} : stage'[t] = stage[t] /\ job'[t] = job[t]
         /\ UNCHANGED <<config, token>>
  <1>1. job[s] \in Job /\ stage[s] = "lookup" /\ job[s].req.token # None
    BY DEF DoorInv, TypeOK, Lookup, LookupFails
  <1>2. UNCHANGED <<config, token>>
    BY DEF Lookup, LookupFails
  <1>3. CASE Lookup(s) /\ Valid(job[s].req.token)
    <2>1. stage'[s] = "hard"
          /\ job'[s] = [job[s] EXCEPT !.subject = Owner[job[s].req.token]]
          /\ \A t \in Slots \ {s} : stage'[t] = stage[t] /\ job'[t] = job[t]
      BY <1>3 DEF Lookup, DoorInv, TypeOK
    <2>2. job'[s].req = job[s].req /\ job'[s].sound = job[s].sound
          /\ job'[s].subject = Owner[job[s].req.token]
      BY <1>1, <2>1 DEF Job
    <2> QED BY <1>1, <1>2, <1>3, <2>1, <2>2
            DEF DoorInv, Identified, Calls, SoundIsValid, Valid, Inside
  <1>4. CASE (Lookup(s) /\ ~Valid(job[s].req.token)) \/ LookupFails(s)
    <2>1. /\ stage'[s] = "done"
          /\ \/ job'[s] = [job[s] EXCEPT !.answer = "invalid"] /\ ~Valid(job[s].req.token)
             \/ job'[s] = [job[s] EXCEPT !.answer = "invalid", !.sound = FALSE]
          /\ \A t \in Slots \ {s} : stage'[t] = stage[t] /\ job'[t] = job[t]
      BY <1>4 DEF Lookup, LookupFails, Answer, DoorInv, TypeOK
    <2>2. job'[s].sound = FALSE
      BY <1>1, <2>1 DEF DoorInv, SoundIsValid, Job
    <2> QED BY <1>2, <2>1, <2>2 DEF Identified, Calls, SoundIsValid, Inside
  <1> QED BY <1>3, <1>4

\* Around the requests a token expires, and the requests that carry it are no
\* longer sound.
LEMMA SurroundingsKeep ==
  ASSUME DoorInv, NEW s \in Slots,
         \/ \E t \in Slots : Leave(t)
         \/ \E t \in Tokens : SignIn(t) \/ Expire(t)
         \/ NewDay \/ NewHour \/ Restart \/ UNCHANGED vars
  PROVE  /\ config.entry = "vercel" /\ config.signin => Identified(s)'
         /\ Calls(s)' /\ SoundIsValid(s)' /\ config' = config
  <1>1. config' = config
    BY DEF Leave, SignIn, Expire, NewDay, NewHour, Restart, vars
  <1>2. CASE stage'[s] = "idle"
    BY <1>1, <1>2 DEF Identified, Calls, SoundIsValid, Inside
  <1>3. CASE stage'[s] # "idle" /\ ~\E t \in Tokens : Expire(t)
    <2>1. stage'[s] = stage[s] /\ job'[s] = job[s]
      BY <1>3 DEF Leave, SignIn, NewDay, NewHour, Restart, vars, DoorInv, TypeOK
    <2>2. \A k \in Tokens : token[k] = "live" => token'[k] = "live"
      BY <1>3 DEF Leave, SignIn, NewDay, NewHour, Restart, vars, DoorInv, TypeOK
    <2> QED BY <1>1, <2>1, <2>2, OtherSlotsKept
  <1>4. CASE stage'[s] # "idle" /\ \E t \in Tokens : Expire(t)
    <2>1. PICK t \in Tokens : Expire(t)
      BY <1>4
    <2>2. stage' = stage /\ token' = [token EXCEPT ![t] = "dead"] /\ job[s] \in Job
      BY <1>4, <2>1 DEF Expire, DoorInv, TypeOK
    <2>3. /\ job'[s].req = job[s].req /\ job'[s].subject = job[s].subject
          /\ job'[s].sound => job[s].sound /\ job[s].req.token # t
      <3>1. CASE job[s].req.token = t
        <4>1. job'[s] = [job[s] EXCEPT !.sound = FALSE]
          BY <1>4, <2>1, <2>2, <3>1 DEF Expire
        <4> QED BY <2>2, <4>1 DEF Job
      <3>2. CASE job[s].req.token # t
        BY <2>1, <3>2 DEF Expire
      <3> QED BY <3>1, <3>2
    <2>4. job[s].req.token \in Tokens \cup {None}
      BY <2>2, DoorAssumption DEF Job, Request
    <2>5. SoundIsValid(s)'
      BY <1>4, <2>2, <2>3, <2>4 DEF DoorInv, SoundIsValid, Valid, TypeOK
    <2>6. config.entry = "vercel" /\ config.signin => Identified(s)'
      BY <1>1, <2>2, <2>3 DEF DoorInv, Identified, Looking, IsDiscovery
    <2> QED BY <1>1, <2>2, <2>3, <2>5, <2>6 DEF DoorInv, Calls
  <1> QED BY <1>2, <1>3, <1>4

\* Every step keeps the invariant.
LEMMA StepDoor == DoorInv /\ [Next]_vars => DoorInv'
  <1> SUFFICES ASSUME DoorInv, [Next]_vars
               PROVE  DoorInv'
    OBVIOUS
  <1>1. TypeOK'
    BY GateTyped, LookupTyped, LimitsTyped, ToolCallTyped, SearchTyped,
       SurroundingsTyped DEF Next, DoorInv
  <1>2. ASSUME NEW t \in Slots
        PROVE  /\ config.entry = "vercel" /\ config.signin => Identified(t)'
               /\ Calls(t)' /\ SoundIsValid(t)' /\ config' = config
    <2>1. ASSUME NEW s \in Slots, NEW q \in Requests, Gate(s, q) PROVE <1>2!2
      <3>1. config' = config /\ token' = token
        BY <2>1 DEF Gate
      <3>2. CASE t = s
        BY <2>1, <3>1, <3>2, GateIdentifies
      <3>3. CASE t # s
        <4>1. PICK to, a : GoesTo(s, q, to, a)
          BY <2>1, GateOutcome DEF DoorInv
        <4>2. stage'[t] = stage[t] /\ job'[t] = job[t]
          BY <3>3, <4>1 DEF GoesTo, DoorInv, TypeOK
        <4> QED BY <3>1, <4>2, OtherSlotsKept
      <3> QED BY <3>2, <3>3
    <2>2. ASSUME NEW s \in Slots, Lookup(s) \/ LookupFails(s) PROVE <1>2!2
      BY <2>2, LookupIdentifies, OtherSlotsKept
    <2>3. ASSUME NEW s \in Slots,
                 HardLimit(s) \/ AnonCap401(s) \/ Handshake(s) \/ ToolCall(s) \/ Search(s)
          PROVE  <1>2!2
      BY <2>3, LaterSteps, LaterStages, OtherSlotsKept DEF DoorInv
    <2>4. CASE \/ \E s \in Slots : Leave(s)
               \/ \E k \in Tokens : SignIn(k) \/ Expire(k)
               \/ NewDay \/ NewHour \/ Restart \/ UNCHANGED vars
      BY <2>4, SurroundingsKeep
    <2> QED BY <2>1, <2>2, <2>3, <2>4 DEF Next
  <1>3. config' = config
    <2>1. ASSUME NEW s \in Slots, NEW q \in Requests, Gate(s, q) PROVE config' = config
      BY <2>1 DEF Gate
    <2> QED BY <2>1 DEF Next, vars, Lookup, LookupFails, HardLimit, AnonCap401, Handshake,
              ToolCall, Search, Leave, SignIn, Expire, NewDay, NewHour, Restart
  <1> QED BY <1>1, <1>2, <1>3 DEF DoorInv

\* Whose call a request is, from the gate to its answer, for every deployment.
THEOREM DoorInvariant == Spec => []DoorInv
  BY InitDoor, StepDoor, PTL DEF Spec

-----------------------------------------------------------------------------
(* Accounts only.                                                          *)

Closed == config.entry = "vercel" /\ config.signin /\ config.mode = "challenge"

\* Where accounts are required, a request with something to call is that of
\* the owner of its token.
LEMMA ClosedCallers ==
  ASSUME DoorInv, Closed, NEW s \in Slots, stage[s] \in Inside,
         "call" \in job[s].req.body.methods
  PROVE  /\ job[s].req.token \in Tokens \ Elsewhere
         /\ job[s].subject = Owner[job[s].req.token]
         /\ Owner[job[s].req.token] \in Accounts
         /\ KeyOf(job[s].req, job[s].subject) = Owner[job[s].req.token]
  <1>1. Identified(s) /\ job[s] \in Job
    BY DEF DoorInv, Closed, TypeOK, Inside
  <1>2. ~Looking(job[s].req)
    BY LookingIsNoCall
  <1>3. job[s].req.token # None
    BY <1>1, <1>2 DEF Identified, Closed
  <1>4. job[s].req.token \in Tokens
    BY <1>1, <1>3, DoorAssumption DEF Job, Request
  <1>5. job[s].req.token \notin Elsewhere /\ job[s].subject = Owner[job[s].req.token]
    BY <1>1, <1>3 DEF Identified
  <1> QED BY <1>4, <1>5, AccountKey, DoorAssumption

\* Nothing is counted for an address where accounts are required.
NoneForAddresses == Closed => \A c \in Clients : used[c] = 0 /\ refused[c] = 0

\* ... and no step changes that.
LEMMA ClosedStep == DoorInv /\ NoneForAddresses /\ [Next]_vars => NoneForAddresses'
  <1> SUFFICES ASSUME DoorInv, NoneForAddresses, [Next]_vars, Closed',
                      NEW c \in Clients
               PROVE  used'[c] = 0 /\ refused'[c] = 0
    BY DEF NoneForAddresses
  <1>1. config' = config
    <2>1. ASSUME NEW s \in Slots, NEW q \in Requests, Gate(s, q) PROVE config' = config
      BY <2>1 DEF Gate
    <2> QED BY <2>1 DEF Next, vars, Lookup, LookupFails, HardLimit, AnonCap401, Handshake,
              ToolCall, Search, Leave, SignIn, Expire, NewDay, NewHour, Restart
  <1>2. Closed /\ used[c] = 0 /\ refused[c] = 0
    BY <1>1 DEF Closed, NoneForAddresses
  <1>3. c \in Keys /\ c \notin Accounts
    BY DoorAssumption DEF Keys
  <1>4. ASSUME NEW s \in Slots, ToolCall(s) PROVE used'[c] = 0 /\ refused'[c] = 0
    <2>1. stage[s] \in Inside /\ "call" \in job[s].req.body.methods
      BY <1>4 DEF ToolCall, Inside
    <2>2. KeyOf(job[s].req, job[s].subject) \in Accounts
      BY <1>2, <2>1, ClosedCallers
    <2>3. PICK n : refused' \in {refused, [refused EXCEPT
                                  ![KeyOf(job[s].req, job[s].subject)] = n]}
      <3>1. \/ refused' = refused
            \/ refused' = [refused EXCEPT ![KeyOf(job[s].req, job[s].subject)]
                             = Counted(@, HardAfter)]
        BY <1>4, Zenon DEF ToolCall
      <3> QED BY <3>1
    <2> QED BY <1>2, <1>3, <1>4, <2>2, <2>3 DEF ToolCall, DoorInv, TypeOK
  <1>5. ASSUME NEW s \in Slots, Search(s) PROVE used'[c] = 0 /\ refused'[c] = 0
    <2>1. stage[s] = "search" /\ "call" \in job[s].req.body.methods
      BY <1>5 DEF Search, DoorInv, Calls
    <2>2. job[s].key = KeyOf(job[s].req, job[s].subject)
      BY <2>1 DEF DoorInv, TypeOK
    <2>3. job[s].key \in Accounts
      BY <1>2, <2>1, <2>2, ClosedCallers DEF Inside
    <2>4. PICK n : used' \in {used, [used EXCEPT ![job[s].key] = n]}
      <3>1. \/ used' = used
            \/ \E kind : used' = [used EXCEPT ![job[s].key] = Counted(@, Cap(kind))]
        BY <1>5, Zenon DEF Search
      <3> QED BY <3>1
    <2> QED BY <1>2, <1>3, <1>5, <2>3, <2>4 DEF Search, DoorInv, TypeOK
  <1>6. ASSUME NEW s \in Slots, NEW q \in Requests, Gate(s, q)
        PROVE  UNCHANGED <<used, refused>>
    BY <1>6 DEF Gate
  <1>7. CASE NewDay \/ NewHour
    BY <1>2, <1>3, <1>7 DEF NewDay, NewHour
  <1>8. CASE UNCHANGED <<used, refused>>
    BY <1>2, <1>8
  <1> QED BY <1>4, <1>5, <1>6, <1>7, <1>8 DEF Next, vars, Lookup, LookupFails, HardLimit,
            AnonCap401, Handshake, Leave, SignIn, Expire, Restart

\* "Every served call on the free server belongs to a Google account": where
\* accounts are required, whatever arrives in whatever order, every search is
\* made for and counted against the owner of the token it came with.
THEOREM CallsBelongToAccounts == Spec => []AccountsOnly
  <1>1. Init => NoneForAddresses
    BY DEF Init, NoneForAddresses, Keys
  <1>2. DoorInv /\ NoneForAddresses => AccountsOnly
    <2> SUFFICES ASSUME DoorInv, NoneForAddresses, Closed
                 PROVE  /\ \A c \in Clients : used[c] = 0 /\ refused[c] = 0
                        /\ \A s \in Slots : stage[s] = "search" =>
                             /\ job[s].req.token \in Tokens \ Elsewhere
                             /\ job[s].key = Owner[job[s].req.token]
      BY DEF AccountsOnly, Closed
    <2>1. ASSUME NEW s \in Slots, stage[s] = "search"
          PROVE  /\ job[s].req.token \in Tokens \ Elsewhere
                 /\ job[s].key = Owner[job[s].req.token]
      <3>1. "call" \in job[s].req.body.methods
        BY <2>1 DEF DoorInv, Calls
      <3>2. job[s].key = KeyOf(job[s].req, job[s].subject)
        BY <2>1 DEF DoorInv, TypeOK
      <3> QED BY <2>1, <3>1, <3>2, ClosedCallers DEF Inside
    <2> QED BY <2>1 DEF NoneForAddresses
  <1> QED BY <1>1, <1>2, ClosedStep, DoorInvariant, PTL DEF Spec

-----------------------------------------------------------------------------
(* Who may come in is let in.                                              *)

\* What WelcomeKept says of one slot.
Welcomed(s) ==
  stage[s] # "done" /\ stage'[s] = "done" =>
    LET j == job'[s]  q == j.req IN
    /\ config.entry = "vercel" /\ q.path = "/mcp" /\ q.token = None /\ Looking(q)
         => j.answer \in {"served", "rejected"}
    /\ config.entry = "vercel" /\ config.signin /\ j.sound
         => \/ j.answer \in {"served", "rejected"}
            \/ j.answer = "limited" /\ used[Owner[q.token]] >= UserCap
            \/ j.answer = "too many" /\ refused[Owner[q.token]] >= HardAfter

\* A request that was sound when it came is counted and judged as its account.
LEMMA SoundCallers ==
  ASSUME DoorInv, config.entry = "vercel", config.signin, NEW s \in Slots,
         stage[s] \in Inside, job[s].sound
  PROVE  LET a == Owner[job[s].req.token] IN
         /\ a \in Accounts /\ a # None
         /\ KeyOf(job[s].req, job[s].subject) = a
         /\ \A loaded : KindOf(job[s].req, job[s].subject, loaded) = "signed_in"
  <1>1. Identified(s) /\ job[s] \in Job /\ job[s].req.token # None
    BY DEF DoorInv, TypeOK, Inside, SoundIsValid
  <1>2. job[s].req.token \in Tokens
    BY <1>1, DoorAssumption DEF Job, Request
  <1>3. job[s].subject = Owner[job[s].req.token] /\ Owner[job[s].req.token] \in Accounts
    BY <1>1, <1>2, DoorAssumption DEF Identified
  <1> QED BY <1>3, AccountKey, DoorAssumption

\* An answered request keeps all but its answer.
LEMMA AnswerGives ==
  ASSUME DoorInv, NEW s \in Slots, stage[s] \notin {"idle", "done"}, NEW what, Answer(s, what)
  PROVE  /\ job'[s].answer = what /\ job'[s].req = job[s].req
         /\ job'[s].sound = job[s].sound
         /\ \A t \in Slots \ {s} : stage'[t] = stage[t]
  <1>1. job[s] \in Job /\ job'[s] = [job[s] EXCEPT !.answer = what]
    BY DEF Answer, DoorInv, TypeOK
  <1> QED BY <1>1 DEF Job, Answer, DoorInv, TypeOK

\* The gate turns away nobody who may look around, and nobody with a token.
LEMMA WelcomeAtTheGate ==
  ASSUME DoorInv, NEW s \in Slots, NEW q \in Requests, Gate(s, q)
  PROVE  \A t \in Slots : Welcomed(t)
  <1>1. PICK to, a : GoesTo(s, q, to, a)
    BY GateOutcome DEF DoorInv
  <1>2. \A t \in Slots \ {s} : stage'[t] = stage[t]
    BY <1>1 DEF GoesTo, DoorInv, TypeOK
  <1>3. ASSUME stage'[s] = "done", config.entry = "vercel"
        PROVE  /\ job'[s].req = q /\ job'[s].sound = (q.token # None /\ Valid(q.token))
               /\ ~(q.path = "/mcp" /\ q.token = None /\ Looking(q))
               /\ config.signin => ~job'[s].sound
    <2>1. PICK a2 \in {"not found", "challenge"} :
            /\ GoesTo(s, q, "done", a2)
            /\ q.path = "/mcp/oauth" \/ ~Looking(q)
            /\ config.signin => q.token = None
      <3>1. \A to2, a3 : GoesTo(s, q, to2, a3) => to2 = "done"
        BY <1>3 DEF GoesTo, DoorInv, TypeOK
      <3>2. DoorInv => TypeOK
        BY DEF DoorInv
      <3> QED BY <1>3, <3>1, <3>2, GateOutcome
    <2>2. job'[s] = GateJob(q, a2)
      BY <2>1 DEF GoesTo, DoorInv, TypeOK
    <2>3. /\ GateJob(q, a2).req = q
          /\ GateJob(q, a2).sound = (q.token # None /\ Valid(q.token))
      BY DEF GateJob
    <2> QED BY <2>1, <2>2, <2>3
  <1> QED BY <1>2, <1>3 DEF Welcomed

\* The lookup turns away only a token that is not sound.
LEMMA WelcomeAtTheLookup ==
  ASSUME DoorInv, NEW s \in Slots, Lookup(s) \/ LookupFails(s)
  PROVE  \A t \in Slots : Welcomed(t)
  <1>1. job[s] \in Job /\ stage[s] = "lookup" /\ job[s].req.token # None
    BY DEF DoorInv, TypeOK, Lookup, LookupFails
  <1>2. \A t \in Slots \ {s} : stage'[t] = stage[t]
    BY LookupIdentifies
  <1>3. ASSUME stage'[s] = "done"
        PROVE  job'[s].req = job[s].req /\ job'[s].sound = FALSE
    <2>1. CASE LookupFails(s)
      <3>1. job'[s] = [job[s] EXCEPT !.answer = "invalid", !.sound = FALSE]
        BY <2>1 DEF LookupFails, DoorInv, TypeOK
      <3> QED BY <1>1, <3>1 DEF Job
    <2>2. CASE Lookup(s)
      <3>1. ~Valid(job[s].req.token) /\ Answer(s, "invalid")
        BY <1>3, <2>2 DEF Lookup, DoorInv, TypeOK
      <3>2. job[s].sound = FALSE
        BY <1>1, <3>1 DEF DoorInv, SoundIsValid, Job
      <3> QED BY <1>1, <3>1, <3>2, AnswerGives
    <2> QED BY <2>1, <2>2
  <1> QED BY <1>1, <1>2, <1>3 DEF Welcomed

\* An answer that refuses is to a call, and to one who is sound only for what
\* the account has used up.
Justified(s, what) ==
  LET q == job[s].req IN
  /\ what \in {"too many", "challenge", "limited"} => ~Looking(q)
  /\ config.entry = "vercel" /\ config.signin /\ job[s].sound =>
       /\ what # "challenge"
       /\ what = "too many" => refused[Owner[q.token]] >= HardAfter
       /\ what = "limited" => used[Owner[q.token]] >= UserCap

\* Past the gate, every answer that refuses is to a call, and to one who is
\* sound only for what the account has used up.
LEMMA WelcomePastTheGate ==
  ASSUME DoorInv, NEW s \in Slots,
         HardLimit(s) \/ AnonCap401(s) \/ Handshake(s) \/ ToolCall(s) \/ Search(s)
  PROVE  \A t \in Slots : Welcomed(t)
  <1> DEFINE q == job[s].req
             key == KeyOf(q, job[s].subject)
             refusal == {"too many", "challenge", "limited"}
  <1>1. stage[s] \in Inside /\ \A t \in Slots \ {s} : stage'[t] = stage[t]
    BY LaterSteps DEF DoorInv
  <1>2. ASSUME stage'[s] = "done"
        PROVE  \E what \in {"served", "rejected"} \cup refusal :
                 Answer(s, what) /\ Justified(s, what)
    <2>0. \A to \in {"anon", "tool"} : ~Pass(s, to)
      BY <1>2 DEF Pass, DoorInv, TypeOK
    <2>1. CASE HardLimit(s)
      <3>1. Billable(q) /\ refused[key] >= HardAfter /\ Answer(s, "too many")
        BY <2>0, <2>1, Zenon DEF HardLimit
      <3>2. Justified(s, "too many")
        BY <1>1, <3>1, LookingIsNoCall, SoundCallers DEF Justified
      <3> QED BY <3>1, <3>2
    <2>2. CASE AnonCap401(s)
      <3>1. /\ Billable(q) /\ Answer(s, "challenge")
            /\ KindOf(q, job[s].subject, feed) = "direct"
        BY <2>0, <2>2, Zenon DEF AnonCap401
      <3>2. Justified(s, "challenge")
        BY <1>1, <3>1, LookingIsNoCall, SoundCallers DEF Justified
      <3> QED BY <3>1, <3>2
    <2>3. CASE Handshake(s) \/ Search(s)
      <3>1. \E what \in {"served", "rejected"} : Answer(s, what)
        BY <2>3, Zenon DEF Handshake, Search
      <3>2. Justified(s, "served") /\ Justified(s, "rejected")
        BY DEF Justified
      <3> QED BY <3>1, <3>2
    <2>4. CASE ToolCall(s)
      <3>1. "call" \in q.body.methods
        BY <2>4 DEF ToolCall
      <3>2. PICK loaded : Answer(s, "limited") /\ Blocked(key, KindOf(q, job[s].subject, loaded))
        <4>1. ~(stage' = [stage EXCEPT ![s] = "search"])
          BY <1>2 DEF DoorInv, TypeOK
        <4> QED BY <2>4, <4>1, Zenon DEF ToolCall
      <3>3. ASSUME config.entry = "vercel", config.signin, job[s].sound
            PROVE  used[Owner[q.token]] >= UserCap
        BY <1>1, <3>2, <3>3, SoundCallers DEF Blocked, Cap
      <3>4. Justified(s, "limited")
        BY <3>1, <3>3, LookingIsNoCall DEF Justified
      <3> QED BY <3>2, <3>4
    <2> QED BY <2>1, <2>2, <2>3, <2>4
  <1>3. Welcomed(s)
    <2>1. CASE stage'[s] # "done"
      BY <2>1 DEF Welcomed
    <2>2. CASE stage'[s] = "done"
      <3>1. PICK what \in {"served", "rejected"} \cup refusal :
              Answer(s, what) /\ Justified(s, what)
        BY <1>2, <2>2
      <3>2. job'[s].answer = what /\ job'[s].req = q /\ job'[s].sound = job[s].sound
        BY <1>1, <3>1, AnswerGives DEF Inside
      <3> QED BY <3>1, <3>2 DEF Welcomed, Justified
    <2> QED BY <2>1, <2>2
  <1> QED BY <1>1, <1>3 DEF Welcomed

\* "initialize and tools/list are never refused here", and signing in is the
\* way out of every refusal: for any number of requests at the same time.
THEOREM WelcomeIsKept == Spec => WelcomeKept
  <1>1. DoorInv /\ [Next]_vars => [\A s \in Slots : Welcomed(s)]_vars
    <2> SUFFICES ASSUME DoorInv, [Next]_vars, NEW t \in Slots
                 PROVE  Welcomed(t) \/ UNCHANGED vars
      OBVIOUS
    <2>1. stage'[t] \in {stage[t], "idle"} => Welcomed(t)
      BY DEF Welcomed
    <2>2. CASE \E s \in Slots : Leave(s)
      <3>1. PICK s \in Slots : stage' = [stage EXCEPT ![s] = "idle"]
        BY <2>2, Zenon DEF Leave
      <3>2. stage \in [Slots -> {"idle", "lookup", "hard", "anon", "tool", "search", "done"}]
        BY DEF DoorInv, TypeOK
      <3>3. stage'[t] \in {stage[t], "idle"}
        BY <3>1, <3>2
      <3> QED BY <2>1, <3>3
    <2>3. CASE \/ \E k \in Tokens : SignIn(k) \/ Expire(k)
               \/ NewDay \/ NewHour
      <3>1. stage' = stage
        BY <2>3, Zenon DEF SignIn, Expire, NewDay, NewHour
      <3> QED BY <2>1, <3>1
    <2>4. CASE Restart
      BY <2>1, <2>4 DEF Restart
    <2> QED BY <2>2, <2>3, <2>4, WelcomeAtTheGate, WelcomeAtTheLookup, WelcomePastTheGate DEF Next
  <1>2. [\A s \in Slots : Welcomed(s)]_vars
          => [\A s \in Slots :
       stage[s] # "done" /\ stage'[s] = "done" =>
         LET j == job'[s]  q == j.req IN
         /\ config.entry = "vercel" /\ q.path = "/mcp" /\ q.token = None /\ Looking(q)
              => j.answer \in {"served", "rejected"}
         /\ config.entry = "vercel" /\ config.signin /\ j.sound
              => \/ j.answer \in {"served", "rejected"}
                 \/ j.answer = "limited" /\ used[Owner[q.token]] >= UserCap
                 \/ j.answer = "too many" /\ refused[Owner[q.token]] >= HardAfter]_vars
    BY DEF Welcomed
  <1> QED BY <1>1, <1>2, DoorInvariant, PTL DEF Spec, WelcomeKept

===============================================================================
