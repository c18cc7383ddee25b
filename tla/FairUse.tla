------------------------------- MODULE FairUse -------------------------------
(***************************************************************************)
(* Fair use: the day and month caps on backend calls of one caller         *)
(* (src/fair_use.py, the tool handlers of src/server.py), the counters     *)
(* they are read from (src/stores.py through src/telemetry.py), and the    *)
(* 429 a caller earns that ignores its refusals (src/hard_limit.py).       *)
(*                                                                         *)
(* The counters live in one store behind all instances. A tool call reads  *)
(* its caller's refusals at the gate, its usage before the search, and     *)
(* adds what it spent after the search: three round trips, with anything   *)
(* in between. The counter a number goes to is named after the time of the *)
(* write, so a call that straddles midnight is charged to the new day.     *)
(*                                                                         *)
(* A caller is the key that identify() computes for it; a request with     *)
(* nothing to key on is neither counted nor refused, and not modelled. The *)
(* counters that only /metrics reads are left out. How far a plan may fan  *)
(* out under the daily budget and the caller's tier depends on everybody's *)
(* traffic, and is any of the values those two functions return.           *)
(***************************************************************************)
EXTENDS Integers, FiniteSets, FiniteSetsExt

CONSTANTS
  Clients,            \* counting keys
  Pooled,             \* those whose address only the connector feed knows
  Requests,           \* tool calls being served at the same time
  Instances, Host,    \* Host[r]: the instance that serves request r
  Tools,              \* which tools are called: "flights", "hotels"
  Wanted,             \* the numbers of combinations a call may expand to
  FullCap,            \* max_backend_calls_per_tool_call
  DayCap, MonthCap, GatewayDayCap, GatewayMonthCap,   \* 0: switched off
  HardAfter,          \* fair_use_hard_after; 0: no 429
  RefusalSlots,       \* FAIR_USE_REFUSAL_SLOTS
  SlotTicks, DayTicks, MonthTicks,   \* ticks in a refusal slot, day, month
  Faults,             \* store accesses that may fail: "read", "write"
  FeedMayFail,        \* whether loading the connector feed may fail
  OneAtATime,         \* whether a caller waits for each of its answers
  None,               \* no Retry-After to wait out
  MaxServed, MaxRefusals   \* bounds of the model: calls of a caller in a
                           \* month, its refusals in a slot

ASSUME ConstantsAssumption ==
  /\ Pooled \subseteq Clients
  /\ IsFiniteSet(Requests) /\ Requests # {}
  /\ Host \in [Requests -> Instances]
  /\ Tools \subseteq {"flights", "hotels"}
  /\ Wanted \subseteq Nat \ {0}
  /\ FullCap \in Nat \ {0}
  /\ {DayCap, MonthCap, GatewayDayCap, GatewayMonthCap} \subseteq Nat
  /\ HardAfter \in Nat
  /\ {RefusalSlots, SlotTicks, DayTicks, MonthTicks} \subseteq Nat \ {0}
  /\ DayTicks % SlotTicks = 0 /\ MonthTicks % DayTicks = 0
  /\ Faults \subseteq {"read", "write"}
  /\ FeedMayFail \in BOOLEAN /\ OneAtATime \in BOOLEAN
  /\ None \notin Nat
  /\ {MaxServed, MaxRefusals} \subseteq Nat

VARIABLES
  clock,     \* ticks since the month began, modulo the month
  used,      \* used[c][p]: backend calls counted for c this day, this month
  refusals,  \* refusals[c][a]: those counted a refusal slots ago
  feed,      \* the connector feed on each instance
  pc, job,   \* where each request stands and what it carries
  \* History: what the properties compare the counters with.
  served,    \* backend calls of c that were answered this month
  recent,    \* recent[c][a]: refusals of c sent a ticks ago
  wait       \* what is left of the Retry-After c was last given

vars == <<clock, used, refusals, feed, pc, job, served, recent, wait>>

-----------------------------------------------------------------------------
Periods == {"day", "month"}
Kinds == {"direct", "pooled"}   \* pooled: GATEWAY_KINDS; direct: the others

\* A slot older than the window is kept for its time to live.
SlotAges == 0 .. RefusalSlots
Hour == RefusalSlots * SlotTicks
TickAges == 0 .. Hour - 1

Job == [client : Clients, tool : Tools, want : Wanted, kind : Kinds, grant : Nat]

Steps == {"idle", "hardLimit", "enter", "loadFeed", "refuse", "search"}

NoUse == [p \in Periods |-> 0]

TypeOK ==
  /\ clock \in 0 .. MonthTicks - 1
  /\ used \in [Clients -> [Periods -> Nat]]
  /\ refusals \in [Clients -> [SlotAges -> Nat]]
  /\ feed \in [Instances -> {"unloaded", "loading", "cooling", "loaded"}]
  /\ pc \in [Requests -> Steps]
  /\ job \in [Requests -> Job \cup {None}]
  /\ \A r \in Requests : pc[r] # "idle" => job[r] \in Job /\ job[r].grant <= FullCap
  /\ served \in [Clients -> Nat]
  /\ recent \in [Clients -> [TickAges -> Nat]]
  /\ wait \in [Clients -> 0 .. Hour \cup {None}]

Init ==
  /\ clock \in {0, MonthTicks - 1}
  /\ used = [c \in Clients |-> NoUse]
  /\ refusals = [c \in Clients |-> [a \in SlotAges |-> 0]]
  /\ feed = [i \in Instances |-> "unloaded"]
  /\ pc = [r \in Requests |-> "idle"]
  /\ job = [r \in Requests |-> None]
  /\ served = [c \in Clients |-> 0]
  /\ recent = [c \in Clients |-> [a \in TickAges |-> 0]]
  /\ wait = [c \in Clients |-> None]

-----------------------------------------------------------------------------
(* The rules.                                                              *)

Lesser(a, b) == IF a <= b THEN a ELSE b

\* identify: a gateway is told by its address, once its range is known. A
\* gateway known without the feed is as good as one whose feed is loaded.
Kind(c, i) == IF c \in Pooled /\ feed[i] = "loaded" THEN "pooled" ELSE "direct"

\* caps_for, with the anonymous tier equal to the ordinary one.
CapsFor(kind) ==
  [p \in Periods |->
     LET own     == IF p = "day" THEN DayCap ELSE MonthCap
         gateway == IF p = "day" THEN GatewayDayCap ELSE GatewayMonthCap
     IN IF kind = "pooled" /\ gateway > 0 THEN gateway ELSE own]

\* The limits that are switched on, as what is left under each.
Limits(kind, u) ==
  {IF u[p] >= CapsFor(kind)[p] THEN 0 ELSE CapsFor(kind)[p] - u[p] :
     p \in {q \in Periods : CapsFor(kind)[q] > 0}}

Remaining(kind, u) == IF Limits(kind, u) = {} THEN 0 ELSE Min(Limits(kind, u))

Blocked(kind, u) ==
  Remaining(kind, u) = 0 /\ \E p \in Periods : CapsFor(kind)[p] > 0

Third(n) == IF n < 3 THEN 1 ELSE n \div 3

\* decide: what a tier that is served may fan out to. A call of a blocked tier
\* is answered before its usage is read, and counts nothing here.
TierCaps == {FullCap, Third(FullCap)}

\* cap_for_budget: as the day's budget is spent, all of it, a third, then one.
FanoutCaps == TierCaps \cup {Third(c) : c \in TierCaps} \cup {1}

\* Mutant: the cap of the fan-out is replaced, not lowered.
GrantsAllThatRemains(j, kind, u) ==
  IF j.tool = "hotels" THEN {1} ELSE {Lesser(j.want, Remaining(kind, u))}

\* Mutant: the last call of the day fans out in full.
GrantsInFull(j, kind, u) ==
  IF j.tool = "hotels" THEN {1} ELSE {Lesser(j.want, f) : f \in FanoutCaps}

\* The backend calls a call may make: its plan, sampled down to the cap; a
\* hotel search is always exactly one.
Grants(j, kind, u) ==
  IF j.tool = "hotels" THEN {1}
  ELSE {Lesser(j.want, Lesser(f, Remaining(kind, u))) : f \in FanoutCaps}

\* Mutant: one slot too many.
RefusalKeysAndOne == 0 .. RefusalSlots

\* Mutant: the slot that is still filling is left out.
CompleteRefusalKeys == 1 .. RefusalSlots - 1

\* fair_use_refusals: the refusals in the slots of the rolling hour.
RefusalKeys == 0 .. RefusalSlots - 1
RefusalCount(c) == SumFunctionOnSet(refusals[c], RefusalKeys)

\* retry_after_seconds, in ticks: the end of the day, within the hour.
RetryAfter == Lesser(Hour, DayTicks - (clock % DayTicks))

\* A pooled key is never escalated: it may be many people.
Escalated(kind, n) == HardAfter > 0 /\ kind # "pooled" /\ n >= HardAfter

\* A store that does not answer is read as zero.
Reads(value, zero) == {value} \cup (IF "read" \in Faults THEN {zero} ELSE {})

-----------------------------------------------------------------------------
(* One tool call.                                                          *)

UnderWay(c) == {r \in Requests : pc[r] # "idle" /\ job[r].client = c}

MayCall(c) ==
  /\ OneAtATime => UnderWay(c) = {}
  /\ served[c] < MaxServed
  /\ refusals[c][0] < MaxRefusals

\* HardLimitMiddleware: the refusals are read, and the call goes in or gets a
\* 429. The gate does not load the feed, so it may take a gateway for a
\* direct caller.
Arrive(r) ==
  \E c \in Clients, tool \in Tools, want \in Wanted :
  \E n \in Reads(RefusalCount(c), 0) :
    LET kind    == Kind(c, Host[r])
        limited == Escalated(kind, n)
    IN
    /\ pc[r] = "idle"
    /\ MayCall(c)
    /\ pc' = [pc EXCEPT ![r] = IF limited THEN "hardLimit" ELSE "enter"]
    /\ job' = [job EXCEPT ![r] = [client |-> c, tool |-> tool, want |-> want,
                                  kind |-> kind, grant |-> 0]]
    /\ wait' = IF limited THEN wait ELSE [wait EXCEPT ![c] = None]
    /\ UNCHANGED <<clock, used, refusals, feed, served, recent>>

\* record_hard_block and the 429. Nothing is counted against the caller.
HardLimit(r) ==
  /\ pc[r] = "hardLimit"
  /\ pc' = [pc EXCEPT ![r] = "idle"]
  /\ job' = [job EXCEPT ![r] = None]
  /\ wait' = [wait EXCEPT ![job[r].client] = RetryAfter]
  /\ UNCHANGED <<clock, used, refusals, feed, served, recent>>

\* ensure_openai_ranges starts a load unless one is done, under way or failed
\* a moment ago; in those cases it returns at once.
StartLoad(r) ==
  /\ pc[r] = "enter"
  /\ feed[Host[r]] = "unloaded"
  /\ feed' = [feed EXCEPT ![Host[r]] = "loading"]
  /\ pc' = [pc EXCEPT ![r] = "loadFeed"]
  /\ UNCHANGED <<clock, used, refusals, job, served, recent, wait>>

\* The caller is identified, its usage read, and the call refused or let
\* through with what it may spend.
Decide(r, kind) ==
  LET c == job[r].client IN
  \E u \in Reads(used[c], NoUse) :
    \/ /\ Blocked(kind, u)
       /\ pc' = [pc EXCEPT ![r] = "refuse"]
       /\ job' = [job EXCEPT ![r].kind = kind]
    \/ /\ ~Blocked(kind, u)
       /\ pc' = [pc EXCEPT ![r] = "search"]
       /\ \E g \in Grants(job[r], kind, u) :
            job' = [job EXCEPT ![r].kind = kind, ![r].grant = g]

Enter(r) ==
  /\ pc[r] = "enter"
  /\ feed[Host[r]] # "unloaded"
  /\ Decide(r, Kind(job[r].client, Host[r]))
  /\ UNCHANGED <<clock, used, refusals, feed, served, recent, wait>>

FinishLoad(r) ==
  /\ pc[r] = "loadFeed"
  /\ \E outcome \in {"loaded"} \cup (IF FeedMayFail THEN {"cooling"} ELSE {}) :
       /\ feed' = [feed EXCEPT ![Host[r]] = outcome]
       /\ Decide(r, IF job[r].client \in Pooled /\ outcome = "loaded"
                    THEN "pooled" ELSE "direct")
  /\ UNCHANGED <<clock, used, refusals, served, recent, wait>>

\* bump, for a refusal: counted in the slot of now, unless the key stands for
\* many people.
CountRefusal(c, kind) ==
  IF kind = "pooled" THEN UNCHANGED refusals
  ELSE \/ refusals' = [refusals EXCEPT ![c][0] = @ + 1]
       \/ "write" \in Faults /\ UNCHANGED refusals

Refuse(r) ==
  LET c == job[r].client IN
  /\ pc[r] = "refuse"
  /\ CountRefusal(c, job[r].kind)
  /\ recent' = IF job[r].kind = "pooled" THEN recent
               ELSE [recent EXCEPT ![c][0] = @ + 1]
  /\ pc' = [pc EXCEPT ![r] = "idle"]
  /\ job' = [job EXCEPT ![r] = None]
  /\ UNCHANGED <<clock, used, feed, served, wait>>

\* bump, for a search: charged to the day and the month of now.
Charge(c, n) ==
  \/ used' = [used EXCEPT ![c] = [p \in Periods |-> @[p] + n]]
  \/ "write" \in Faults /\ UNCHANGED used

\* Mutant: a fan-out that failed altogether is not charged.
AnswerForgetsOutage(r) ==
  LET c == job[r].client IN
  /\ pc[r] = "search"
  /\ \/ Charge(c, job[r].grant)
     \/ UNCHANGED used
  /\ served' = [served EXCEPT ![c] = @ + job[r].grant]
  /\ pc' = [pc EXCEPT ![r] = "idle"]
  /\ job' = [job EXCEPT ![r] = None]
  /\ UNCHANGED <<clock, refusals, feed, recent, wait>>

\* A fan-out is charged in full, however many of its searches failed.
Answer(r) ==
  LET c == job[r].client IN
  /\ pc[r] = "search"
  /\ Charge(c, job[r].grant)
  /\ served' = [served EXCEPT ![c] = @ + job[r].grant]
  /\ pc' = [pc EXCEPT ![r] = "idle"]
  /\ job' = [job EXCEPT ![r] = None]
  /\ UNCHANGED <<clock, refusals, feed, recent, wait>>

\* A hotel search whose backend call fails is answered with an error, and
\* nothing is recorded.
HotelFails(r) ==
  /\ pc[r] = "search"
  /\ job[r].tool = "hotels"
  /\ served' = [served EXCEPT ![job[r].client] = @ + 1]
  /\ pc' = [pc EXCEPT ![r] = "idle"]
  /\ job' = [job EXCEPT ![r] = None]
  /\ UNCHANGED <<clock, used, refusals, feed, recent, wait>>

\* A call ends at any await: cancelled, or answered with an error before it
\* searched (a plan that cannot be made, a spent budget). A load that is cut
\* short counts as an attempt.
Abort(r) ==
  /\ pc[r] # "idle"
  /\ feed' = IF pc[r] = "loadFeed" THEN [feed EXCEPT ![Host[r]] = "cooling"]
             ELSE feed
  /\ pc' = [pc EXCEPT ![r] = "idle"]
  /\ job' = [job EXCEPT ![r] = None]
  /\ UNCHANGED <<clock, used, refusals, served, recent, wait>>

-----------------------------------------------------------------------------
(* Around it.                                                              *)

\* An instance is recycled with its requests and its copy of the feed.
Restart(i) ==
  LET gone == {r \in Requests : Host[r] = i} IN
  /\ feed[i] # "unloaded"
  /\ feed' = [feed EXCEPT ![i] = "unloaded"]
  /\ pc' = [r \in Requests |-> IF r \in gone THEN "idle" ELSE pc[r]]
  /\ job' = [r \in Requests |-> IF r \in gone THEN None ELSE job[r]]
  /\ UNCHANGED <<clock, used, refusals, served, recent, wait>>

\* The counters of the new day, month and slot have names of their own, and
\* start at nothing.
Rollover(now) ==
  used' = [c \in Clients |->
             [used[c] EXCEPT !["day"] = IF now % DayTicks = 0 THEN 0 ELSE @,
                             !["month"] = IF now = 0 THEN 0 ELSE @]]

\* Mutant: the key of a counter does not name its slot.
AgeUnslotted(count) == count

\* A slot later, everything is a slot older.
Age(count) == [a \in DOMAIN count |-> IF a = 0 THEN 0 ELSE count[a - 1]]

\* A tick is longer than the cool-down of the feed.
Tick ==
  LET now == (clock + 1) % MonthTicks IN
  /\ clock' = now
  /\ Rollover(now)
  /\ refusals' = IF now % SlotTicks = 0
                 THEN [c \in Clients |-> Age(refusals[c])] ELSE refusals
  /\ feed' = [i \in Instances |-> IF feed[i] = "cooling" THEN "unloaded" ELSE feed[i]]
  /\ served' = IF now = 0 THEN [c \in Clients |-> 0] ELSE served
  /\ recent' = [c \in Clients |-> Age(recent[c])]
  /\ wait' = [c \in Clients |-> IF wait[c] \in {0, None} THEN wait[c] ELSE wait[c] - 1]
  /\ UNCHANGED <<pc, job>>

Next ==
  \/ \E r \in Requests :
       \/ Arrive(r) \/ HardLimit(r)
       \/ StartLoad(r) \/ FinishLoad(r) \/ Enter(r)
       \/ Refuse(r) \/ Answer(r) \/ HotelFails(r)
       \/ Abort(r)
  \/ \E i \in Instances : Restart(i)
  \/ Tick

Spec == Init /\ [][Next]_vars

\* Time passes; nobody promises that a request ends.
FairSpec == Spec /\ WF_vars(Tick)

-----------------------------------------------------------------------------
(* Properties.                                                             *)

KindsOf(c) == IF c \in Pooled THEN Kinds ELSE {"direct"}

\* What each request of c that is searching may still spend.
Held(c) ==
  [r \in Requests |-> IF pc[r] = "search" /\ job[r].client = c THEN job[r].grant ELSE 0]
InFlight(c) == SumFunctionOnSet(Held(c), Requests)

\* n is within the cap of c for the period, raised by slack; of a gateway's
\* two caps, the one in force depends on whether the feed was loaded.
WithinCap(c, p, n, slack) ==
  (\A k \in KindsOf(c) : CapsFor(k)[p] > 0)
    => \E k \in KindsOf(c) : n <= CapsFor(k)[p] + slack

\* The comment above min(cap, fair_use.remaining) in the handlers: "A cap is
\* only a cap if the last call of the day cannot overshoot it". True of a
\* caller that waits for each of its answers, also when a search straddles
\* midnight and is charged to a day it was not admitted in; not of one that
\* makes two calls at the same time.
CapHolds ==
  \A c \in Clients, p \in Periods : WithinCap(c, p, used[c][p], 0)

\* What calls made at the same time can spend beyond the cap: each but the
\* last admitted, one full fan-out.
OvershootBounded ==
  \A c \in Clients, p \in Periods :
    WithinCap(c, p, used[c][p] + InFlight(c), (Cardinality(Requests) - 1) * FullCap)

\* A call that is not refused has at least one search to make, however close
\* it is to either limit: a limit that lowers the plan refuses the call once
\* nothing is left under it. (It takes a cap that is switched on: with both
\* at 0 no call is refused, and none has a search, though FairUseState says
\* of a cap of 0 that it is "switched off, not that it is exhausted".)
AdmittedCallsSearch ==
  \A r \in Requests : pc[r] = "search" => job[r].grant > 0

\* Every backend call that was answered is counted against its caller, the
\* failed ones included: they were paid for. (A call cancelled half way is
\* not answered, and not in this.)
SearchesAreCharged ==
  "write" \notin Faults => \A c \in Clients : used[c]["month"] = served[c]

RecentRefusals(c, ages) == SumFunctionOnSet(recent[c], ages)

\* fair_use_refusal_keys: the window is "never more than the last 60"
\* minutes: nobody gets a 429 for refusals that are older than an hour.
EscalatedOnTheLastHour ==
  [][\A r \in Requests :
       pc[r] = "idle" /\ pc'[r] = "hardLimit"
         => RecentRefusals(job'[r].client, TickAges) >= HardAfter]_vars

\* ... and "at least the last 50": a caller refused that often within all but
\* the last slot of the hour gets one. Slots cannot be used to dodge it.
LoopsAreEscalated ==
  [][\A r \in Requests :
       pc[r] = "idle" /\ pc'[r] = "enter" /\ job'[r].kind = "direct"
         => RecentRefusals(job'[r].client, 0 .. (RefusalSlots - 1) * SlotTicks)
              < HardAfter]_vars

\* record_hard_block: "The escalation has to be able to end on its own." A
\* caller that goes on hammering is still let in again and again.
EscalationEnds ==
  \A c \in Clients : []<>(RefusalCount(c) < HardAfter)

\* hard_limit.py: "a pooled key never has a refusal written against it", so a
\* gateway never gets a 429.
PooledNeverEscalated ==
  \A r \in Requests : pc[r] = "hardLimit" => job[r].client \notin Pooled

\* retry_after_seconds names "the moment worth naming": a caller that stays
\* away as long as its 429 said does not get another one on its return.
RetryAfterIsHonoured ==
  [][\A r \in Requests :
       pc[r] = "idle" /\ pc'[r] = "hardLimit" => wait[job'[r].client] # 0]_vars

==============================================================================
