---------------------------- MODULE FairUseProofs ----------------------------
(* Theorems about FairUse, for any callers, requests, instances, caps and  *)
(* lengths of the day and the month.                                       *)
EXTENDS FairUse, Sums, TLAPS

-----------------------------------------------------------------------------
(* Arithmetic.                                                             *)

\* The clock and the distance to midnight, whatever the lengths are.
LEMMA ModuloRange ==
  ASSUME NEW n \in Nat \ {0}, NEW m \in Nat
  PROVE  m % n \in 0 .. n - 1
  BY SMT

\* The rolling hour is at least a tick long.
LEMMA HourPositive == Hour \in Nat /\ Hour >= 1 /\ TickAges \subseteq Nat
  <1>1. /\ RefusalSlots \in Nat /\ RefusalSlots >= 1
        /\ SlotTicks \in Nat /\ SlotTicks >= 1
    BY ConstantsAssumption
  <1>2. Hour \in Nat /\ Hour >= 1
    BY <1>1 DEF Hour
  <1> QED BY <1>2 DEF TickAges

\* A Retry-After never names more than the hour.
LEMMA RetryAfterRange ==
  ASSUME clock \in 0 .. MonthTicks - 1
  PROVE  RetryAfter \in 0 .. Hour
  <1>1. DayTicks \in Nat \ {0} /\ MonthTicks \in Nat \ {0}
    BY ConstantsAssumption
  <1>2. clock \in Nat
    BY <1>1
  <1>3. clock % DayTicks \in 0 .. DayTicks - 1
    BY <1>1, <1>2, ModuloRange
  <1>4. DayTicks - (clock % DayTicks) \in Nat
    BY <1>1, <1>3
  <1> QED BY <1>4, HourPositive DEF RetryAfter, Lesser

-----------------------------------------------------------------------------
(* The rules.                                                              *)

\* Caps are numbers, for every kind of key.
LEMMA CapsType ==
  ASSUME NEW kind
  PROVE  CapsFor(kind) \in [Periods -> Nat]
  BY ConstantsAssumption DEF CapsFor, Periods

\* What remains is a number, and where there is any of it, it fits under
\* every cap that is switched on.
LEMMA RemainingFits ==
  ASSUME NEW kind, NEW u \in [Periods -> Nat]
  PROVE  /\ Remaining(kind, u) \in Nat
         /\ \A p \in Periods :
              CapsFor(kind)[p] > 0 /\ Remaining(kind, u) > 0
                => u[p] + Remaining(kind, u) <= CapsFor(kind)[p]
  <1> DEFINE caps == CapsFor(kind)
             left(p) == IF u[p] >= caps[p] THEN 0 ELSE caps[p] - u[p]
             on == {p \in Periods : caps[p] > 0}
  <1>1. caps \in [Periods -> Nat]
    BY CapsType
  <1>2. \A p \in Periods : left(p) \in Nat
    BY <1>1
  <1>3. Limits(kind, u) = {left(p) : p \in on}
    BY DEF Limits
  <1>4. CASE on = {}
    <2>1. Remaining(kind, u) = 0
      BY <1>3, <1>4 DEF Remaining
    <2> QED BY <2>1
  <1>5. CASE on # {}
    <2>1. \E q \in on : \A p \in on : left(q) <= left(p)
      <3> HIDE DEF left
      <3>1. on \subseteq {"day", "month"}
        BY DEF Periods
      <3>2. left("day") \in Nat /\ left("month") \in Nat
        BY <1>2 DEF Periods
      <3> QED BY <3>1, <3>2, <1>5
    <2>2. \E n \in Limits(kind, u) : \A k \in Limits(kind, u) : n <= k
      BY <1>3, <2>1
    <2>3. /\ Min(Limits(kind, u)) \in Limits(kind, u)
          /\ \A k \in Limits(kind, u) : Min(Limits(kind, u)) <= k
      BY <2>2 DEF Min
    <2>4. Remaining(kind, u) = Min(Limits(kind, u))
      BY <2>2 DEF Remaining
    <2>5. PICK q \in on : Remaining(kind, u) = left(q)
      BY <1>3, <2>3, <2>4
    <2>6. Remaining(kind, u) \in Nat
      BY <1>2, <2>5
    <2>7. ASSUME NEW p \in Periods, caps[p] > 0, Remaining(kind, u) > 0
          PROVE  u[p] + Remaining(kind, u) <= caps[p]
      <3>1. Remaining(kind, u) <= left(p)
        BY <1>3, <2>3, <2>4, <2>7
      <3>2. left(p) > 0
        BY <1>2, <2>6, <2>7, <3>1
      <3>3. left(p) = caps[p] - u[p]
        BY <3>2
      <3> QED BY <1>1, <2>6, <3>1, <3>3
    <2> QED BY <2>6, <2>7
  <1> QED BY <1>4, <1>5

\* The fan-out caps lie between one and the full cap.
LEMMA FanoutRange == \A f \in FanoutCaps : f \in 1 .. FullCap
  <1>1. FullCap \in Nat /\ FullCap >= 1
    BY ConstantsAssumption
  <1>2. \A n \in Nat : n >= 1 => Third(n) \in 1 .. n
    BY DEF Third
  <1>3. Third(FullCap) \in 1 .. FullCap
    BY <1>1, <1>2
  <1>4. Third(Third(FullCap)) \in 1 .. FullCap
    BY <1>1, <1>2, <1>3
  <1> QED BY <1>1, <1>3, <1>4 DEF FanoutCaps, TierCaps

\* A call that is let through may spend what a fan-out allows, at most what
\* remains, and something as soon as some cap is switched on.
LEMMA GrantsFit ==
  ASSUME NEW j, j.want \in Wanted, NEW kind, NEW u \in [Periods -> Nat],
         ~Blocked(kind, u), NEW g \in Grants(j, kind, u)
  PROVE  /\ g \in Nat /\ g <= FullCap
         /\ \A p \in Periods : CapsFor(kind)[p] > 0
              => u[p] + g <= CapsFor(kind)[p]
         /\ (\E p \in Periods : CapsFor(kind)[p] > 0) => g > 0
  <1> DEFINE left == Remaining(kind, u)
  <1>1. left \in Nat
    BY RemainingFits
  <1>2. CapsFor(kind) \in [Periods -> Nat]
    BY CapsType
  <1>3. FullCap \in Nat /\ FullCap >= 1 /\ j.want \in Nat /\ j.want >= 1
    <2>1. j.want \in Nat \ {0} /\ FullCap \in Nat \ {0}
      BY ConstantsAssumption
    <2> QED BY <2>1
  <1>4. g \in Nat /\ g <= FullCap /\ (left > 0 => g > 0 /\ g <= left)
    <2>1. CASE j.tool = "hotels"
      BY <2>1, <1>1, <1>3 DEF Grants
    <2>2. CASE j.tool # "hotels"
      <3>1. PICK f \in FanoutCaps : g = Lesser(j.want, Lesser(f, left))
        BY <2>2 DEF Grants
      <3>2. f \in 1 .. FullCap
        BY FanoutRange
      <3> QED BY <3>1, <3>2, <1>1, <1>3 DEF Lesser
    <2> QED BY <2>1, <2>2
  <1>5. (\E p \in Periods : CapsFor(kind)[p] > 0) => left > 0
    BY <1>1 DEF Blocked
  <1>6. ASSUME NEW p \in Periods, CapsFor(kind)[p] > 0
        PROVE  u[p] + g <= CapsFor(kind)[p]
    <2>1. left > 0
      BY <1>5, <1>6
    <2>2. u[p] + left <= CapsFor(kind)[p]
      BY <2>1, <1>6, RemainingFits
    <2>3. u[p] \in Nat /\ CapsFor(kind)[p] \in Nat
      BY <1>2
    <2> QED BY <1>1, <1>4, <2>1, <2>2, <2>3
  <1> QED BY <1>4, <1>5, <1>6

-----------------------------------------------------------------------------
(* Types.                                                                  *)

LEMMA ReadsType ==
  ASSUME TypeOK, NEW c \in Clients, NEW u \in Reads(used[c], NoUse)
  PROVE  u \in [Periods -> Nat]
  BY DEF TypeOK, Reads, NoUse

\* What deciding on a call does to the call.
LEMMA DecideType ==
  ASSUME TypeOK, NEW r \in Requests, pc[r] # "idle",
         NEW kind \in Kinds, Decide(r, kind)
  PROVE  /\ pc' \in [Requests -> Steps]
         /\ job' \in [Requests -> Job \cup {None}]
         /\ \A s \in Requests : pc'[s] # "idle"
                                  => job'[s] \in Job /\ job'[s].grant <= FullCap
  <1>1. job[r] \in Job /\ job[r].client \in Clients /\ job[r].want \in Wanted
    BY DEF TypeOK, Job
  <1>2. PICK u \in Reads(used[job[r].client], NoUse) :
          \/ /\ Blocked(kind, u)
             /\ pc' = [pc EXCEPT ![r] = "refuse"]
             /\ job' = [job EXCEPT ![r].kind = kind]
          \/ /\ ~Blocked(kind, u)
             /\ pc' = [pc EXCEPT ![r] = "search"]
             /\ \E g \in Grants(job[r], kind, u) :
                  job' = [job EXCEPT ![r].kind = kind, ![r].grant = g]
    BY DEF Decide
  <1>3. u \in [Periods -> Nat]
    BY <1>1, ReadsType
  <1>4. CASE Blocked(kind, u)
    <2>1. pc' = [pc EXCEPT ![r] = "refuse"] /\ job' = [job EXCEPT ![r].kind = kind]
      BY <1>2, <1>4
    <2>2. job'[r] \in Job /\ job'[r].grant <= FullCap
      BY <2>1, <1>1 DEF TypeOK, Job
    <2> QED BY <2>1, <2>2 DEF TypeOK, Steps
  <1>5. CASE ~Blocked(kind, u)
    <2>1. PICK g \in Grants(job[r], kind, u) :
            job' = [job EXCEPT ![r].kind = kind, ![r].grant = g]
      BY <1>2, <1>5
    <2>2. pc' = [pc EXCEPT ![r] = "search"]
      BY <1>2, <1>5
    <2>3. g \in Nat /\ g <= FullCap
      BY <1>1, <1>3, <1>5, GrantsFit
    <2>4. job'[r] \in Job /\ job'[r].grant <= FullCap
      BY <2>1, <2>3, <1>1 DEF TypeOK, Job
    <2> QED BY <2>1, <2>2, <2>4 DEF TypeOK, Steps
  <1> QED BY <1>4, <1>5

LEMMA TypeInit == Init => TypeOK
  <1> SUFFICES ASSUME Init PROVE TypeOK
    OBVIOUS
  <1>1. MonthTicks \in Nat /\ MonthTicks >= 1
    BY ConstantsAssumption
  <1>2. clock \in 0 .. MonthTicks - 1
    BY <1>1 DEF Init
  <1> QED BY <1>2 DEF Init, TypeOK, NoUse, Steps

\* Counting one more, and growing older.
LEMMA CountOneType ==
  ASSUME NEW S, NEW f \in [Clients -> [S -> Nat]], NEW c \in Clients, NEW a \in S
  PROVE  [f EXCEPT ![c][a] = @ + 1] \in [Clients -> [S -> Nat]]
  <1>1. f[c] \in [S -> Nat]
    OBVIOUS
  <1>2. f[c][a] + 1 \in Nat
    BY <1>1
  <1>3. [f[c] EXCEPT ![a] = f[c][a] + 1] \in [S -> Nat]
    BY <1>1, <1>2
  <1> QED BY <1>3

LEMMA ChargeType ==
  ASSUME NEW u \in [Clients -> [Periods -> Nat]], NEW c \in Clients, NEW n \in Nat
  PROVE  [u EXCEPT ![c] = [p \in Periods |-> @[p] + n]] \in [Clients -> [Periods -> Nat]]
  <1>1. u[c] \in [Periods -> Nat]
    OBVIOUS
  <1>2. [p \in Periods |-> u[c][p] + n] \in [Periods -> Nat]
    BY <1>1
  <1> QED BY <1>2

\* A request that leaves.
LEMMA LeavesType ==
  ASSUME TypeOK, NEW r \in Requests,
         pc' = [pc EXCEPT ![r] = "idle"], job' = [job EXCEPT ![r] = None]
  PROVE  /\ pc' \in [Requests -> Steps]
         /\ job' \in [Requests -> Job \cup {None}]
         /\ \A s \in Requests : pc'[s] # "idle"
                                  => job'[s] \in Job /\ job'[s].grant <= FullCap
  BY DEF TypeOK, Steps

LEMMA TypeStep == TypeOK /\ [Next]_vars => TypeOK'
  <1> SUFFICES ASSUME TypeOK, [Next]_vars PROVE TypeOK'
    OBVIOUS
  <1> USE DEF TypeOK
  <1>1. ASSUME NEW r \in Requests, Arrive(r) PROVE TypeOK'
    <2>1. PICK c \in Clients, tool \in Tools, want \in Wanted :
            /\ pc' \in {[pc EXCEPT ![r] = "hardLimit"], [pc EXCEPT ![r] = "enter"]}
            /\ job' = [job EXCEPT ![r] =
                         [client |-> c, tool |-> tool, want |-> want,
                          kind |-> Kind(c, Host[r]), grant |-> 0]]
            /\ wait' \in {wait, [wait EXCEPT ![c] = None]}
            /\ UNCHANGED <<clock, used, refusals, feed, served, recent>>
      BY <1>1 DEF Arrive
    <2>2. job'[r] \in Job /\ job'[r].grant <= FullCap
      BY <2>1, ConstantsAssumption DEF Job, Kind, Kinds
    <2>3. wait' \in [Clients -> 0 .. Hour \cup {None}]
      BY <2>1
    <2>4. /\ pc' \in [Requests -> Steps]
          /\ job' \in [Requests -> Job \cup {None}]
          /\ \A s \in Requests : pc'[s] # "idle"
                                   => job'[s] \in Job /\ job'[s].grant <= FullCap
      BY <2>1, <2>2 DEF Steps
    <2> QED BY <2>1, <2>3, <2>4
  <1>2. ASSUME NEW r \in Requests, HardLimit(r) PROVE TypeOK'
    <2>1. job[r].client \in Clients
      BY <1>2 DEF HardLimit, Job
    <2>2. wait' \in [Clients -> 0 .. Hour \cup {None}]
      BY <1>2, <2>1, RetryAfterRange DEF HardLimit
    <2> QED BY <1>2, <2>2, LeavesType DEF HardLimit
  <1>3. ASSUME NEW r \in Requests, StartLoad(r) PROVE TypeOK'
    BY <1>3, ConstantsAssumption DEF StartLoad, Steps
  <1>4. ASSUME NEW r \in Requests, FinishLoad(r) PROVE TypeOK'
    <2>1. PICK outcome \in {"loaded", "cooling"} :
            /\ feed' = [feed EXCEPT ![Host[r]] = outcome]
            /\ Decide(r, IF job[r].client \in Pooled /\ outcome = "loaded"
                         THEN "pooled" ELSE "direct")
      BY <1>4 DEF FinishLoad
    <2>2. feed' \in [Instances -> {"unloaded", "loading", "cooling", "loaded"}]
      BY <2>1
    <2> QED BY <1>4, <2>1, <2>2, DecideType DEF FinishLoad, Kinds
  <1>5. ASSUME NEW r \in Requests, Enter(r) PROVE TypeOK'
    <2>1. Kind(job[r].client, Host[r]) \in Kinds
      BY DEF Kind, Kinds
    <2> QED BY <1>5, <2>1, DecideType DEF Enter
  <1>6. ASSUME NEW r \in Requests, Refuse(r) PROVE TypeOK'
    <2>1. job[r].client \in Clients
      BY <1>6 DEF Refuse, Job
    <2>2. refusals' \in [Clients -> [SlotAges -> Nat]]
      <3>1. 0 \in SlotAges
        BY ConstantsAssumption DEF SlotAges
      <3>2. refusals' \in {refusals, [refusals EXCEPT ![job[r].client][0] = @ + 1]}
        BY <1>6 DEF Refuse, CountRefusal
      <3>3. [refusals EXCEPT ![job[r].client][0] = @ + 1] \in [Clients -> [SlotAges -> Nat]]
        BY <2>1, <3>1, CountOneType
      <3> QED BY <3>2, <3>3
    <2>3. recent' \in [Clients -> [TickAges -> Nat]]
      <3>1. CASE recent' = recent
        BY <3>1
      <3>2. CASE recent' = [recent EXCEPT ![job[r].client][0] = @ + 1]
        <4>1. 0 \in TickAges
          BY HourPositive DEF TickAges
        <4> QED BY <2>1, <3>2, <4>1, CountOneType
      <3> QED BY <1>6, <3>1, <3>2 DEF Refuse
    <2> QED BY <1>6, <2>2, <2>3, LeavesType DEF Refuse
  <1>7. ASSUME NEW r \in Requests, Answer(r) PROVE TypeOK'
    <2>1. job[r].client \in Clients /\ job[r].grant \in Nat
      BY <1>7 DEF Answer, Job
    <2>2. used' \in [Clients -> [Periods -> Nat]]
      <3>1. \/ used' = used
            \/ used' = [used EXCEPT ![job[r].client] =
                          [p \in Periods |-> @[p] + job[r].grant]]
        BY <1>7 DEF Answer, Charge
      <3>2. used \in [Clients -> [Periods -> Nat]]
        OBVIOUS
      <3>3. CASE used' = used
        BY <3>2, <3>3
      <3>4. CASE used' = [used EXCEPT ![job[r].client] =
                            [p \in Periods |-> @[p] + job[r].grant]]
        <4>1. [used EXCEPT ![job[r].client] = [p \in Periods |-> @[p] + job[r].grant]]
                \in [Clients -> [Periods -> Nat]]
          BY <2>1, <3>2, ChargeType
        <4> QED BY <3>4, <4>1
      <3> QED BY <3>1, <3>3, <3>4
    <2>3. served' \in [Clients -> Nat]
      BY <1>7, <2>1 DEF Answer
    <2> QED BY <1>7, <2>2, <2>3, LeavesType DEF Answer
  <1>8. ASSUME NEW r \in Requests, HotelFails(r) PROVE TypeOK'
    <2>1. job[r].client \in Clients
      BY <1>8 DEF HotelFails, Job
    <2>2. served' \in [Clients -> Nat]
      BY <1>8, <2>1 DEF HotelFails
    <2> QED BY <1>8, <2>2, LeavesType DEF HotelFails
  <1>9. ASSUME NEW r \in Requests, Abort(r) PROVE TypeOK'
    <2>1. feed' \in [Instances -> {"unloaded", "loading", "cooling", "loaded"}]
      BY <1>9 DEF Abort
    <2> QED BY <1>9, <2>1, LeavesType DEF Abort
  <1>10. ASSUME NEW i \in Instances, Restart(i) PROVE TypeOK'
    BY <1>10 DEF Restart, Steps
  <1>11. CASE Tick
    <2> DEFINE now == (clock + 1) % MonthTicks
    <2>1. MonthTicks \in Nat \ {0} /\ clock + 1 \in Nat
      BY ConstantsAssumption
    <2>2. clock' \in 0 .. MonthTicks - 1
      BY <1>11, <2>1, ModuloRange DEF Tick
    <2>3. used' \in [Clients -> [Periods -> Nat]]
      BY <1>11 DEF Tick, Rollover, Periods
    <2>4. \A c \in Clients : Age(refusals[c]) \in [SlotAges -> Nat]
      <3>1. RefusalSlots \in Nat
        BY ConstantsAssumption
      <3>2. \A a \in SlotAges : a = 0 \/ a - 1 \in SlotAges
        BY <3>1 DEF SlotAges
      <3> QED BY <3>2 DEF Age
    <2>5. refusals' \in [Clients -> [SlotAges -> Nat]]
      BY <1>11, <2>4 DEF Tick
    <2>6. \A c \in Clients : Age(recent[c]) \in [TickAges -> Nat]
      <3>1. \A a \in TickAges : a = 0 \/ a - 1 \in TickAges
        BY HourPositive DEF TickAges
      <3> QED BY <3>1 DEF Age
    <2>7. recent' \in [Clients -> [TickAges -> Nat]]
      BY <1>11, <2>6 DEF Tick
    <2>8. wait' \in [Clients -> 0 .. Hour \cup {None}]
      <3>1. \A c \in Clients : wait[c] \notin {0, None} => wait[c] - 1 \in 0 .. Hour
        <4> SUFFICES ASSUME NEW c \in Clients, wait[c] \notin {0, None}
                     PROVE  wait[c] - 1 \in 0 .. Hour
          OBVIOUS
        <4>1. wait[c] \in 0 .. Hour /\ wait[c] # 0 /\ Hour \in Nat
          BY HourPositive
        <4>2. wait[c] \in Nat /\ wait[c] >= 1 /\ wait[c] <= Hour
          BY <4>1
        <4> QED BY <4>1, <4>2
      <3> QED BY <1>11, <3>1 DEF Tick
    <2>9. feed' \in [Instances -> {"unloaded", "loading", "cooling", "loaded"}]
      BY <1>11 DEF Tick
    <2>10. served' \in [Clients -> Nat]
      BY <1>11 DEF Tick
    <2>11. pc' = pc /\ job' = job
      BY <1>11 DEF Tick
    <2> QED BY <2>2, <2>3, <2>5, <2>7, <2>8, <2>9, <2>10, <2>11
  <1>12. CASE UNCHANGED vars
    BY <1>12 DEF vars
  <1> QED BY <1>1, <1>2, <1>3, <1>4, <1>5, <1>6, <1>7, <1>8, <1>9, <1>10, <1>11,
             <1>12 DEF Next

\* Every variable keeps its type, and a call never carries more than one full
\* fan-out (max_backend_calls_per_tool_call).
THEOREM TypeCorrect == Spec => []TypeOK
  BY TypeInit, TypeStep, PTL DEF Spec

-----------------------------------------------------------------------------
(* The cap of a caller that waits for its answers.                         *)

\* A caller has one call under way.
OneCallEach ==
  \A r, s \in Requests :
    pc[r] # "idle" /\ pc[s] # "idle" /\ job[r].client = job[s].client => r = s

\* What r may still spend fits under the caps it was admitted with.
Fits(r) ==
  /\ job[r].kind \in KindsOf(job[r].client)
  /\ \A p \in Periods :
       CapsFor(job[r].kind)[p] > 0
         => used[job[r].client][p] + job[r].grant <= CapsFor(job[r].kind)[p]

CapInv ==
  /\ OneCallEach
  /\ \A r \in Requests : pc[r] = "search" => Fits(r)
  /\ CapHolds

LEMMA CapInit == ASSUME TypeOK, Init PROVE CapInv
  <1>1. \A c \in Clients, p \in Periods, k \in Kinds :
          used[c][p] = 0 /\ CapsFor(k)[p] \in Nat
    BY CapsType DEF Init, NoUse
  <1>2. \A c \in Clients : "direct" \in KindsOf(c) \cap Kinds
    BY DEF KindsOf, Kinds
  <1>3. \A c \in Clients, p \in Periods : used[c][p] <= CapsFor("direct")[p] + 0
    BY <1>1, <1>2
  <1>4. CapHolds
    BY <1>2, <1>3 DEF CapHolds, WithinCap
  <1> QED BY <1>4 DEF Init, CapInv, OneCallEach

\* Less used leaves the caps respected.
LEMMA LessUsedKeepsCaps ==
  ASSUME TypeOK, CapHolds, used' \in [Clients -> [Periods -> Nat]],
         \A c \in Clients, p \in Periods : used'[c][p] <= used[c][p]
  PROVE  CapHolds'
  <1> SUFFICES ASSUME NEW c \in Clients, NEW p \in Periods,
                      \A k \in KindsOf(c) : CapsFor(k)[p] > 0
               PROVE  \E k \in KindsOf(c) : used'[c][p] <= CapsFor(k)[p] + 0
    BY DEF CapHolds, WithinCap
  <1>1. PICK k \in KindsOf(c) : used[c][p] <= CapsFor(k)[p] + 0
    BY DEF CapHolds, WithinCap
  <1>2. used'[c][p] \in Nat /\ used[c][p] \in Nat /\ CapsFor(k)[p] \in Nat
    BY CapsType DEF TypeOK
  <1>3. used'[c][p] <= used[c][p]
    OBVIOUS
  <1>4. used'[c][p] <= CapsFor(k)[p] + 0
    BY <1>1, <1>2, <1>3
  <1> QED BY <1>4

\* A step that starts no call and no search and charges nothing.
LEMMA EasedStep ==
  ASSUME TypeOK, TypeOK', CapInv,
         \A c \in Clients, p \in Periods : used'[c][p] <= used[c][p],
         \A s \in Requests : pc'[s] # "idle" => pc[s] # "idle" /\ job'[s] = job[s],
         \A s \in Requests : pc'[s] = "search" => pc[s] = "search"
  PROVE  CapInv'
  <1>1. OneCallEach'
    BY DEF CapInv, OneCallEach
  <1>2. CapHolds'
    BY LessUsedKeepsCaps DEF CapInv, TypeOK
  <1>3. ASSUME NEW s \in Requests, pc'[s] = "search" PROVE Fits(s)'
    <2>1. job'[s] = job[s] /\ Fits(s) /\ job[s] \in Job
      BY <1>3 DEF CapInv, TypeOK
    <2>2. job[s].client \in Clients /\ job[s].grant \in Nat
      BY <2>1 DEF Job
    <2>3. ASSUME NEW p \in Periods, CapsFor(job[s].kind)[p] > 0
          PROVE  used'[job[s].client][p] + job[s].grant <= CapsFor(job[s].kind)[p]
      <3>1. used[job[s].client][p] + job[s].grant <= CapsFor(job[s].kind)[p]
        BY <2>1, <2>3 DEF Fits
      <3>2. /\ used'[job[s].client][p] \in Nat /\ used[job[s].client][p] \in Nat
            /\ CapsFor(job[s].kind)[p] \in Nat
        BY <2>2, CapsType DEF TypeOK
      <3>3. used'[job[s].client][p] <= used[job[s].client][p]
        BY <2>2
      <3> QED BY <2>2, <3>1, <3>2, <3>3
    <2> QED BY <2>1, <2>3 DEF Fits
  <1> QED BY <1>1, <1>2, <1>3 DEF CapInv

\* A call that is decided on gets no more than fits.
LEMMA DecideKeepsCaps ==
  ASSUME TypeOK, TypeOK', CapInv, "read" \notin Faults,
         NEW r \in Requests, pc[r] # "idle", pc[r] # "search",
         NEW kind \in KindsOf(job[r].client), Decide(r, kind),
         used' = used
  PROVE  CapInv'
  <1> DEFINE c == job[r].client
  <1>1. job[r] \in Job /\ c \in Clients /\ job[r].want \in Wanted
    BY DEF TypeOK, Job
  <1>2. used[c] \in [Periods -> Nat]
    BY <1>1 DEF TypeOK
  <1>3. /\ job' \in {[job EXCEPT ![r].kind = kind]} \cup
                    {[job EXCEPT ![r].kind = kind, ![r].grant = g] : g \in Nat}
        /\ \A s \in Requests : s # r => job'[s] = job[s] /\ pc'[s] = pc[s]
    <2>1. \A u \in Reads(used[c], NoUse) : ~Blocked(kind, u)
             => \A g \in Grants(job[r], kind, u) : g \in Nat
      BY <1>1, ReadsType, GrantsFit
    <2> QED BY <2>1 DEF Decide, TypeOK
  <1>4. job'[r].client = c
    BY <1>1, <1>3 DEF TypeOK, Job
  <1>5. OneCallEach'
    BY <1>3, <1>4 DEF CapInv, OneCallEach
  <1>6. CapHolds'
    BY DEF CapInv, CapHolds, WithinCap
  <1>7. ASSUME NEW s \in Requests, s # r, pc'[s] = "search" PROVE Fits(s)'
    <2>1. pc[s] = "search" /\ job'[s] = job[s]
      BY <1>3, <1>7
    <2>2. Fits(s)
      BY <2>1 DEF CapInv
    <2> QED BY <2>1, <2>2 DEF Fits
  <1>8. ASSUME pc'[r] = "search" PROVE Fits(r)'
    <2>1. PICK g \in Grants(job[r], kind, used[c]) :
            /\ ~Blocked(kind, used[c])
            /\ job' = [job EXCEPT ![r].kind = kind, ![r].grant = g]
      BY <1>8 DEF Decide, Reads, TypeOK
    <2>2. job'[r].kind = kind /\ job'[r].grant = g
      BY <1>1, <2>1 DEF TypeOK, Job
    <2>3. \A p \in Periods : CapsFor(kind)[p] > 0 => used[c][p] + g <= CapsFor(kind)[p]
      BY <1>1, <1>2, <2>1, GrantsFit
    <2> QED BY <1>4, <2>2, <2>3 DEF Fits
  <1> QED BY <1>5, <1>6, <1>7, <1>8 DEF CapInv

\* The answer charges what was found to fit.
LEMMA AnswerKeepsCaps ==
  ASSUME TypeOK, TypeOK', CapInv, NEW r \in Requests, Answer(r)
  PROVE  CapInv'
  <1> DEFINE c == job[r].client
  <1>1. /\ pc[r] = "search" /\ pc' = [pc EXCEPT ![r] = "idle"]
        /\ job' = [job EXCEPT ![r] = None] /\ Charge(c, job[r].grant)
    BY DEF Answer
  <1>2. job[r] \in Job /\ c \in Clients /\ job[r].grant \in Nat /\ Fits(r)
    BY <1>1 DEF TypeOK, Job, CapInv
  <1>3. \A s \in Requests : pc'[s] # "idle" =>
          s # r /\ pc'[s] = pc[s] /\ job'[s] = job[s] /\ job[s].client # c
    BY <1>1 DEF TypeOK, CapInv, OneCallEach
  <1>4. \A d \in Clients : d # c => used'[d] = used[d]
    BY <1>1 DEF Charge, TypeOK
  <1>5. \A p \in Periods : \/ used'[c][p] = used[c][p]
                           \/ used'[c][p] = used[c][p] + job[r].grant
    BY <1>1, <1>2 DEF Charge, TypeOK
  <1>6. OneCallEach'
    BY <1>3 DEF CapInv, OneCallEach
  <1>7. ASSUME NEW s \in Requests, pc'[s] = "search" PROVE Fits(s)'
    <2>1. pc[s] = "search" /\ job'[s] = job[s] /\ job[s].client # c
      BY <1>3, <1>7
    <2>2. Fits(s) /\ job[s].client \in Clients
      BY <2>1 DEF CapInv, TypeOK, Job
    <2> QED BY <1>4, <2>1, <2>2 DEF Fits
  <1>8. ASSUME NEW d \in Clients, NEW p \in Periods PROVE WithinCap(d, p, used[d][p], 0)'
    <2>1. WithinCap(d, p, used[d][p], 0)
      BY DEF CapInv, CapHolds
    <2>2. CASE d # c \/ used'[d][p] = used[d][p]
      BY <1>4, <2>1, <2>2 DEF WithinCap
    <2>3. CASE d = c /\ used'[d][p] = used[d][p] + job[r].grant
      <3>1. SUFFICES ASSUME \A k \in KindsOf(d) : CapsFor(k)[p] > 0
                     PROVE  \E k \in KindsOf(d) : used'[d][p] <= CapsFor(k)[p] + 0
        BY DEF WithinCap
      <3>2. job[r].kind \in KindsOf(d) /\ used'[d][p] <= CapsFor(job[r].kind)[p]
        BY <1>2, <2>3, <3>1 DEF Fits
      <3>3. CapsFor(job[r].kind)[p] \in Nat
        BY CapsType
      <3> QED BY <3>2, <3>3
    <2> QED BY <1>5, <2>2, <2>3
  <1> QED BY <1>6, <1>7, <1>8 DEF CapInv, CapHolds

LEMMA CapStep ==
  ASSUME OneAtATime, "read" \notin Faults, TypeOK, TypeOK', CapInv, [Next]_vars
  PROVE  CapInv'
  <1> USE DEF TypeOK
  <1>0. used' = used => \A c \in Clients, p \in Periods : used'[c][p] <= used[c][p]
    OBVIOUS
  <1>1. ASSUME NEW r \in Requests, Arrive(r) PROVE CapInv'
    <2>0. PICK c \in Clients, tool \in Tools, want \in Wanted :
            /\ pc[r] = "idle" /\ UnderWay(c) = {} /\ used' = used
            /\ pc' \in {[pc EXCEPT ![r] = "hardLimit"], [pc EXCEPT ![r] = "enter"]}
            /\ job' = [job EXCEPT ![r] =
                         [client |-> c, tool |-> tool, want |-> want,
                          kind |-> Kind(c, Host[r]), grant |-> 0]]
      BY <1>1 DEF Arrive, MayCall
    <2>1. /\ used' = used /\ pc'[r] \in {"hardLimit", "enter"} /\ job'[r].client = c
          /\ \A s \in Requests : s # r => job'[s] = job[s]
      BY <2>0
    <2>2. \A s \in Requests : s # r => pc'[s] = pc[s]
      BY <2>0
    <2>3. \A s \in Requests : pc[s] # "idle" => job[s].client # c
      BY <2>0 DEF UnderWay
    <2>4. OneCallEach'
      <3> SUFFICES ASSUME NEW s \in Requests, NEW t \in Requests,
                          pc'[s] # "idle", pc'[t] # "idle",
                          job'[s].client = job'[t].client
                   PROVE  s = t
        BY DEF OneCallEach
      <3>1. CASE s # r /\ t # r
        BY <2>1, <2>2, <3>1 DEF CapInv, OneCallEach
      <3>2. CASE s = r \/ t = r
        BY <2>1, <2>2, <2>3, <3>2
      <3> QED BY <3>1, <3>2
    <2>5. CapHolds'
      BY <2>1 DEF CapInv, CapHolds, WithinCap
    <2>6. ASSUME NEW s \in Requests, pc'[s] = "search" PROVE Fits(s)'
      <3>1. s # r
        BY <2>1, <2>6
      <3>2. Fits(s) /\ job'[s] = job[s]
        BY <2>1, <2>2, <2>6, <3>1 DEF CapInv
      <3> QED BY <2>1, <3>2 DEF Fits
    <2> QED BY <2>4, <2>5, <2>6 DEF CapInv
  <1>2. ASSUME NEW r \in Requests, HardLimit(r) \/ Refuse(r) \/ HotelFails(r) \/ Abort(r)
        PROVE  CapInv'
    <2>1. /\ pc' = [pc EXCEPT ![r] = "idle"] /\ job' = [job EXCEPT ![r] = None]
          /\ used' = used
      BY <1>2 DEF HardLimit, Refuse, HotelFails, Abort
    <2> QED BY <1>0, <2>1, EasedStep
  <1>3. ASSUME NEW r \in Requests, StartLoad(r) PROVE CapInv'
    <2>1. /\ pc[r] = "enter" /\ pc' = [pc EXCEPT ![r] = "loadFeed"]
          /\ job' = job /\ used' = used
      BY <1>3 DEF StartLoad
    <2> QED BY <1>0, <2>1, EasedStep
  <1>4. ASSUME NEW r \in Requests, FinishLoad(r) PROVE CapInv'
    <2>1. \E outcome \in {"loaded", "cooling"} :
            Decide(r, IF job[r].client \in Pooled /\ outcome = "loaded"
                      THEN "pooled" ELSE "direct")
      BY <1>4 DEF FinishLoad
    <2>2. PICK kind \in KindsOf(job[r].client) : Decide(r, kind)
      BY <2>1 DEF KindsOf, Kinds
    <2> QED BY <1>4, <2>2, DecideKeepsCaps DEF FinishLoad
  <1>5. ASSUME NEW r \in Requests, Enter(r) PROVE CapInv'
    <2>1. Kind(job[r].client, Host[r]) \in KindsOf(job[r].client)
      BY DEF Kind, KindsOf, Kinds
    <2> QED BY <1>5, <2>1, DecideKeepsCaps DEF Enter
  <1>6. ASSUME NEW r \in Requests, Answer(r) PROVE CapInv'
    BY <1>6, AnswerKeepsCaps
  <1>7. ASSUME NEW i \in Instances, Restart(i) PROVE CapInv'
    <2>1. /\ used' = used
          /\ \A s \in Requests : pc'[s] # "idle" => pc'[s] = pc[s] /\ job'[s] = job[s]
      BY <1>7 DEF Restart
    <2> QED BY <1>0, <2>1, EasedStep
  <1>8. CASE Tick
    <2>1. pc' = pc /\ job' = job
      BY <1>8 DEF Tick
    <2>2. ASSUME NEW c \in Clients, NEW p \in Periods PROVE used'[c][p] <= used[c][p]
      <3>1. used[c][p] \in Nat
        OBVIOUS
      <3>2. used'[c][p] \in {0, used[c][p]}
        BY <1>8 DEF Tick, Rollover, Periods
      <3> QED BY <3>1, <3>2
    <2> QED BY <2>1, <2>2, EasedStep
  <1>9. CASE UNCHANGED vars
    <2>1. pc' = pc /\ job' = job /\ used' = used
      BY <1>9 DEF vars
    <2> QED BY <1>0, <2>1, EasedStep
  <1> QED BY <1>1, <1>2, <1>3, <1>4, <1>5, <1>6, <1>7, <1>8, <1>9 DEF Next

\* A caller that waits for each of its answers never spends beyond its caps,
\* whatever the lengths of day and month, wherever a search straddles
\* midnight and however often writing a counter fails
\* (min(cap, fair_use.remaining) in _run). Reading one has to work: a store
\* that does not answer counts as nothing spent.
THEOREM CapsHold ==
  ASSUME OneAtATime, "read" \notin Faults
  PROVE  Spec => []CapHolds
  <1>1. Init => TypeOK /\ CapInv
    BY TypeInit, CapInit
  <1>2. TypeOK /\ CapInv /\ [Next]_vars => (TypeOK /\ CapInv)'
    BY TypeStep, CapStep
  <1>3. CapInv => CapHolds
    BY DEF CapInv
  <1> QED BY <1>1, <1>2, <1>3, PTL DEF Spec

-----------------------------------------------------------------------------
(* Searches.                                                               *)

LEMMA AdmittedStep ==
  ASSUME DayCap > 0 \/ MonthCap > 0, TypeOK, AdmittedCallsSearch, [Next]_vars
  PROVE  AdmittedCallsSearch'
  <1> USE DEF TypeOK
  <1>1. \A kind : \E p \in Periods : CapsFor(kind)[p] > 0
    <2> SUFFICES ASSUME NEW kind PROVE \E p \in Periods : CapsFor(kind)[p] > 0
      OBVIOUS
    <2>1. CASE DayCap > 0
      <3>1. CapsFor(kind)["day"] > 0
        BY <2>1, ConstantsAssumption DEF CapsFor, Periods
      <3> QED BY <3>1 DEF Periods
    <2>2. CASE MonthCap > 0
      <3>1. CapsFor(kind)["month"] > 0
        BY <2>2, ConstantsAssumption DEF CapsFor, Periods
      <3> QED BY <3>1 DEF Periods
    <2> QED BY <2>1, <2>2
  <1>2. ASSUME NEW r \in Requests, pc[r] # "idle", NEW kind, Decide(r, kind)
        PROVE  AdmittedCallsSearch'
    <2>1. job[r] \in Job /\ job[r].client \in Clients /\ job[r].want \in Wanted
      BY <1>2 DEF Job
    <2>2. ASSUME NEW s \in Requests, s # r, pc'[s] = "search" PROVE job'[s].grant > 0
      <3>1. pc[s] = "search" /\ job'[s] = job[s]
        BY <1>2, <2>2 DEF Decide
      <3> QED BY <3>1 DEF AdmittedCallsSearch
    <2>3. ASSUME pc'[r] = "search" PROVE job'[r].grant > 0
      <3>1. PICK u \in Reads(used[job[r].client], NoUse) :
              /\ ~Blocked(kind, u)
              /\ \E g \in Grants(job[r], kind, u) :
                   job' = [job EXCEPT ![r].kind = kind, ![r].grant = g]
        BY <1>2, <2>3 DEF Decide
      <3>2. u \in [Periods -> Nat]
        BY <2>1, ReadsType
      <3>3. PICK g \in Grants(job[r], kind, u) :
              job' = [job EXCEPT ![r].kind = kind, ![r].grant = g]
        BY <3>1
      <3>4. g > 0
        BY <1>1, <2>1, <3>1, <3>2, GrantsFit
      <3>5. job'[r].grant = g
        BY <2>1, <3>3 DEF Job
      <3> QED BY <3>4, <3>5
    <2> QED BY <2>2, <2>3 DEF AdmittedCallsSearch
  <1>3. ASSUME NEW r \in Requests, Enter(r) \/ FinishLoad(r) PROVE AdmittedCallsSearch'
    <2>1. pc[r] # "idle" /\ \E kind \in Kinds : Decide(r, kind)
      BY <1>3 DEF Enter, FinishLoad, Kind, Kinds
    <2> QED BY <1>2, <2>1
  <1>4. ASSUME \A s \in Requests : pc'[s] = "search" => pc[s] = "search" /\ job'[s] = job[s]
        PROVE  AdmittedCallsSearch'
    BY <1>4 DEF AdmittedCallsSearch
  <1>5. ASSUME NEW r \in Requests, Arrive(r) \/ StartLoad(r) PROVE AdmittedCallsSearch'
    <2>1. pc'[r] # "search"
      BY <1>5 DEF Arrive, StartLoad
    <2>2. \A s \in Requests : s # r => pc'[s] = pc[s] /\ job'[s] = job[s]
      BY <1>5 DEF Arrive, StartLoad
    <2> QED BY <1>4, <2>1, <2>2
  <1>6. ASSUME NEW r \in Requests,
               HardLimit(r) \/ Refuse(r) \/ Answer(r) \/ HotelFails(r) \/ Abort(r)
        PROVE  AdmittedCallsSearch'
    <2>1. pc' = [pc EXCEPT ![r] = "idle"] /\ job' = [job EXCEPT ![r] = None]
      BY <1>6 DEF HardLimit, Refuse, Answer, HotelFails, Abort
    <2> QED BY <1>4, <2>1
  <1>7. ASSUME NEW i \in Instances, Restart(i) PROVE AdmittedCallsSearch'
    BY <1>4, <1>7 DEF Restart
  <1>8. CASE Tick \/ UNCHANGED vars
    <2>1. pc' = pc /\ job' = job
      BY <1>8 DEF Tick, vars
    <2> QED BY <1>4, <2>1
  <1> QED BY <1>3, <1>5, <1>6, <1>7, <1>8 DEF Next

\* With at least one cap switched on, a call that is not refused has a search
\* to make: a caller is told of its limit, never given an empty plan
\* (FairUseState.blocked and the min in _run agree).
THEOREM AdmittedCallsAreServed ==
  ASSUME DayCap > 0 \/ MonthCap > 0
  PROVE  Spec => []AdmittedCallsSearch
  <1>1. Init => TypeOK /\ AdmittedCallsSearch
    BY TypeInit DEF Init, AdmittedCallsSearch
  <1>2. TypeOK /\ AdmittedCallsSearch /\ [Next]_vars => (TypeOK /\ AdmittedCallsSearch)'
    BY TypeStep, AdmittedStep
  <1> QED BY <1>1, <1>2, PTL DEF Spec

LEMMA ChargedStep ==
  ASSUME "write" \notin Faults, "hotels" \notin Tools,
         TypeOK, SearchesAreCharged, [Next]_vars
  PROVE  SearchesAreCharged'
  <1> USE DEF TypeOK
  <1>1. "month" \in Periods
    BY DEF Periods
  <1>2. \A c \in Clients : used[c]["month"] = served[c]
    BY DEF SearchesAreCharged
  <1>3. CASE used' = used /\ served' = served
    BY <1>2, <1>3 DEF SearchesAreCharged
  <1>4. ASSUME NEW r \in Requests, Answer(r) PROVE SearchesAreCharged'
    <2> DEFINE c == job[r].client
    <2>1. c \in Clients
      BY <1>4 DEF Answer, Job
    <2>2. /\ used' = [used EXCEPT ![c] = [p \in Periods |-> @[p] + job[r].grant]]
          /\ served' = [served EXCEPT ![c] = @ + job[r].grant]
      BY <1>4 DEF Answer, Charge
    <2>3. used'[c]["month"] = used[c]["month"] + job[r].grant
      BY <1>1, <2>1, <2>2
    <2>4. \A d \in Clients : d # c => used'[d] = used[d] /\ served'[d] = served[d]
      BY <2>2
    <2>5. served'[c] = served[c] + job[r].grant
      BY <2>1, <2>2
    <2>6. \A d \in Clients : used'[d]["month"] = served'[d]
      BY <1>2, <2>1, <2>3, <2>4, <2>5
    <2> QED BY <2>6 DEF SearchesAreCharged
  <1>5. ASSUME NEW r \in Requests, HotelFails(r) PROVE FALSE
    BY <1>5 DEF HotelFails, Job
  <1>6. CASE Tick
    <2> DEFINE now == (clock + 1) % MonthTicks
    <2> HIDE DEF now
    <2>1. /\ used' = [c \in Clients |->
               [used[c] EXCEPT !["day"] = IF now % DayTicks = 0 THEN 0 ELSE @,
                               !["month"] = IF now = 0 THEN 0 ELSE @]]
          /\ served' = IF now = 0 THEN [c \in Clients |-> 0] ELSE served
      BY <1>6 DEF Tick, Rollover, now
    <2>2. ASSUME NEW c \in Clients PROVE used'[c]["month"] = served'[c]
      <3>1. used[c] \in [Periods -> Nat]
        OBVIOUS
      <3>2. used'[c]["month"] = IF now = 0 THEN 0 ELSE used[c]["month"]
        BY <1>1, <2>1, <3>1
      <3> QED BY <1>2, <2>1, <3>2
    <2> QED BY <2>2 DEF SearchesAreCharged
  <1> QED BY <1>3, <1>4, <1>5, <1>6
      DEF Next, vars, Arrive, HardLimit, StartLoad, FinishLoad, Enter, Refuse,
          Abort, Restart

\* A flight search that is answered is charged in full to the month it is
\* answered in, failed combinations and total outages included (the log() on
\* every way out of _run after the fan-out).
THEOREM FlightsAreCharged ==
  ASSUME "write" \notin Faults, "hotels" \notin Tools
  PROVE  Spec => []SearchesAreCharged
  <1>1. Init => TypeOK /\ SearchesAreCharged
    BY TypeInit DEF Init, SearchesAreCharged, NoUse, Periods
  <1>2. TypeOK /\ SearchesAreCharged /\ [Next]_vars => (TypeOK /\ SearchesAreCharged)'
    BY TypeStep, ChargedStep
  <1> QED BY <1>1, <1>2, PTL DEF Spec

-----------------------------------------------------------------------------
(* What calls made at the same time can spend.                             *)

Slack == (Cardinality(Requests) - 1) * FullCap

\* All calls but one fill the slack, whichever the one is.
LEMMA SlackType ==
  /\ IsFiniteSet(Requests) /\ Slack \in Nat
  /\ \A r \in Requests : /\ IsFiniteSet(Requests \ {r})
                         /\ Cardinality(Requests \ {r}) * FullCap = Slack
  <1>1. IsFiniteSet(Requests) /\ Requests # {} /\ FullCap \in Nat
    BY ConstantsAssumption
  <1>2. \A r \in Requests : /\ IsFiniteSet(Requests \ {r})
                            /\ Cardinality(Requests \ {r}) \in Nat
                            /\ Cardinality(Requests \ {r}) = Cardinality(Requests) - 1
    BY <1>1, FS_RemoveElement, FS_CardinalityType
  <1>3. PICK r \in Requests : TRUE
    BY <1>1
  <1>4. \A m, n \in Nat : m * n \in Nat
    OBVIOUS
  <1>5. Slack \in Nat
    BY <1>1, <1>2, <1>3, <1>4 DEF Slack
  <1> QED BY <1>1, <1>2, <1>5 DEF Slack

\* A call holds at most one full fan-out, before a step and after it.
LEMMA HeldNow ==
  TypeOK => \A c \in Clients : /\ Held(c) \in [Requests -> Nat]
                               /\ \A r \in Requests : Held(c)[r] <= FullCap
                               /\ InFlight(c) \in Nat
  <1> SUFFICES ASSUME TypeOK, NEW c \in Clients
               PROVE  /\ Held(c) \in [Requests -> Nat]
                      /\ \A r \in Requests : Held(c)[r] <= FullCap
                      /\ InFlight(c) \in Nat
    OBVIOUS
  <1>1. FullCap \in Nat
    BY ConstantsAssumption
  <1>2. ASSUME NEW r \in Requests
        PROVE  Held(c)[r] \in Nat /\ Held(c)[r] <= FullCap
    <2>1. CASE pc[r] = "search" /\ job[r].client = c
      <3>1. job[r].grant \in Nat /\ job[r].grant <= FullCap
        BY <2>1 DEF TypeOK, Job
      <3> QED BY <2>1, <3>1 DEF Held
    <2>2. CASE ~ (pc[r] = "search" /\ job[r].client = c)
      BY <1>1, <2>2 DEF Held
    <2> QED BY <2>1, <2>2
  <1>3. Held(c) \in [Requests -> Nat]
    BY <1>2 DEF Held
  <1>4. InFlight(c) \in Nat
    BY <1>3, SlackType, SumNat DEF InFlight
  <1> QED BY <1>2, <1>3, <1>4

LEMMA HeldNext ==
  TypeOK' => \A c \in Clients : /\ Held(c)' \in [Requests -> Nat]
                                /\ \A r \in Requests : Held(c)'[r] <= FullCap
                                /\ InFlight(c)' \in Nat
  <1>1. (TypeOK => \A c \in Clients : /\ Held(c) \in [Requests -> Nat]
                                      /\ \A r \in Requests : Held(c)[r] <= FullCap
                                      /\ InFlight(c) \in Nat)'
    BY HeldNow, PTL
  <1> QED BY <1>1

\* Less used and less in flight leaves the bound respected.
LEMMA LessSpentKeepsBound ==
  ASSUME TypeOK, TypeOK', OvershootBounded, NEW c \in Clients, NEW p \in Periods,
         used'[c][p] + InFlight(c)' <= used[c][p] + InFlight(c)
  PROVE  WithinCap(c, p, used[c][p] + InFlight(c), Slack)'
  <1> SUFFICES ASSUME \A k \in KindsOf(c) : CapsFor(k)[p] > 0
               PROVE  \E k \in KindsOf(c) :
                        used'[c][p] + InFlight(c)' <= CapsFor(k)[p] + Slack
    BY DEF WithinCap, Slack
  <1>1. PICK k \in KindsOf(c) : used[c][p] + InFlight(c) <= CapsFor(k)[p] + Slack
    BY DEF OvershootBounded, WithinCap, Slack
  <1>2. used'[c][p] \in Nat /\ used[c][p] \in Nat /\ CapsFor(k)[p] \in Nat
    BY CapsType DEF TypeOK
  <1>3. InFlight(c) \in Nat /\ InFlight(c)' \in Nat
    BY HeldNow, HeldNext
  <1> QED BY <1>1, <1>2, <1>3, SlackType

\* A step that starts no search and charges nothing.
LEMMA EasedKeepsBound ==
  ASSUME TypeOK, TypeOK', OvershootBounded,
         \A c \in Clients, p \in Periods : used'[c][p] <= used[c][p],
         \A s \in Requests : pc'[s] = "search" => pc[s] = "search" /\ job'[s] = job[s]
  PROVE  OvershootBounded'
  <1> SUFFICES ASSUME NEW c \in Clients, NEW p \in Periods
               PROVE  WithinCap(c, p, used[c][p] + InFlight(c), Slack)'
    BY DEF OvershootBounded, Slack
  <1>1. Held(c) \in [Requests -> Nat] /\ Held(c)' \in [Requests -> Nat]
    BY HeldNow, HeldNext
  <1>2. \A s \in Requests : Held(c)'[s] <= Held(c)[s]
    <2> SUFFICES ASSUME NEW s \in Requests PROVE Held(c)'[s] <= Held(c)[s]
      OBVIOUS
    <2>1. Held(c)'[s] = Held(c)[s] \/ Held(c)'[s] = 0
      BY DEF Held
    <2>2. Held(c)'[s] \in Nat /\ Held(c)[s] \in Nat
      BY <1>1
    <2> QED BY <2>1, <2>2
  <1>3. SumFunctionOnSet(Held(c)', Requests) <= SumFunctionOnSet(Held(c), Requests)
    <2>1. \A s \in Requests : Held(c)'[s] \in Int /\ Held(c)[s] \in Int
      BY <1>1
    <2> QED BY <1>2, <2>1, SlackType, SumLess
  <1>4. InFlight(c)' <= InFlight(c)
    BY <1>3 DEF InFlight
  <1>5. InFlight(c) \in Nat /\ InFlight(c)' \in Nat
    BY <1>1, SlackType, SumNat DEF InFlight
  <1>6. used'[c][p] \in Nat /\ used[c][p] \in Nat /\ used'[c][p] <= used[c][p]
    BY DEF TypeOK
  <1>7. used'[c][p] + InFlight(c)' <= used[c][p] + InFlight(c)
    BY <1>4, <1>5, <1>6
  <1> QED BY <1>7, LessSpentKeepsBound

\* A call that is admitted fits under a cap by itself, and all others together
\* hold no more than the slack.
LEMMA DecideKeepsBound ==
  ASSUME TypeOK, TypeOK', OvershootBounded, "read" \notin Faults,
         NEW r \in Requests, pc[r] # "idle", pc[r] # "search",
         NEW c \in Clients, job[r].client = c,
         NEW kind \in KindsOf(c), Decide(r, kind), used' = used
  PROVE  OvershootBounded'
  <1>1. job[r] \in Job /\ job[r].want \in Wanted
    BY DEF TypeOK, Job
  <1>2. used[c] \in [Periods -> Nat]
    BY <1>1 DEF TypeOK
  <1>3. /\ pc' \in {[pc EXCEPT ![r] = "refuse"], [pc EXCEPT ![r] = "search"]}
        /\ \A s \in Requests : s # r => job'[s] = job[s] /\ pc'[s] = pc[s]
    BY DEF Decide, TypeOK
  <1>4. CASE pc'[r] # "search"
    <2>1. \A s \in Requests : pc'[s] = "search" => pc[s] = "search" /\ job'[s] = job[s]
      BY <1>3, <1>4
    <2>2. \A d \in Clients, p \in Periods : used'[d][p] <= used[d][p]
      BY DEF TypeOK
    <2> QED BY <2>1, <2>2, EasedKeepsBound
  <1>5. CASE pc'[r] = "search"
    <2>1. PICK g \in Grants(job[r], kind, used[c]) :
            /\ ~Blocked(kind, used[c])
            /\ job' = [job EXCEPT ![r].kind = kind, ![r].grant = g]
      BY <1>5 DEF Decide, Reads, TypeOK
    <2>2. job'[r].client = c /\ job'[r].grant = g
      BY <1>1, <2>1 DEF TypeOK, Job
    <2>3. /\ g \in Nat
          /\ \A p \in Periods : CapsFor(kind)[p] > 0 => used[c][p] + g <= CapsFor(kind)[p]
      BY <1>1, <1>2, <2>1, GrantsFit
    <2>4. ASSUME NEW d \in Clients, d # c, NEW p \in Periods
          PROVE  WithinCap(d, p, used[d][p] + InFlight(d), Slack)'
      <3>1. Held(d)' = Held(d)
        BY <1>3, <2>2, <2>4 DEF Held
      <3>2. InFlight(d)' = InFlight(d)
        BY <3>1 DEF InFlight
      <3>3. WithinCap(d, p, used[d][p] + InFlight(d), Slack)
        BY DEF OvershootBounded, Slack
      <3> QED BY <3>2, <3>3 DEF WithinCap, Slack
    <2>5. ASSUME NEW p \in Periods
          PROVE  WithinCap(c, p, used[c][p] + InFlight(c), Slack)'
      <3> DEFINE others == SumFunctionOnSet(Held(c)', Requests \ {r})
      <3>1. /\ Held(c)' \in [Requests -> Nat]
            /\ \A s \in Requests : Held(c)'[s] <= FullCap
        BY HeldNext
      <3>2. InFlight(c)' = Held(c)'[r] + others
        <4>1. \A s \in Requests : Held(c)'[s] \in Int
          BY <3>1
        <4> QED BY <4>1, SlackType, SumRemove DEF InFlight
      <3>3. Held(c)'[r] = g
        BY <1>5, <2>2 DEF Held
      <3>4. others \in Nat /\ others <= Slack
        <4>1. \A s \in Requests \ {r} : Held(c)'[s] \in Nat /\ Held(c)'[s] <= FullCap
          BY <3>1
        <4>2. others <= Cardinality(Requests \ {r}) * FullCap
          BY <4>1, SlackType, SumBound, ConstantsAssumption
        <4> QED BY <4>1, <4>2, SlackType, SumNat
      <3>5. SUFFICES ASSUME CapsFor(kind)[p] > 0
                     PROVE  used[c][p] + InFlight(c)' <= CapsFor(kind)[p] + Slack
        BY DEF WithinCap, Slack
      <3>6. used[c][p] + g <= CapsFor(kind)[p]
        BY <2>3, <3>5
      <3>7. used[c][p] \in Nat /\ CapsFor(kind)[p] \in Nat
        BY <1>2, CapsType
      <3> HIDE DEF others
      <3> QED BY <2>3, <3>2, <3>3, <3>4, <3>6, <3>7, SlackType
    <2> QED BY <2>4, <2>5 DEF OvershootBounded, Slack
  <1> QED BY <1>4, <1>5

\* The answer turns what was in flight into what is used.
LEMMA AnswerKeepsBound ==
  ASSUME TypeOK, TypeOK', OvershootBounded, NEW r \in Requests, Answer(r),
         NEW c \in Clients, job[r].client = c
  PROVE  OvershootBounded'
  <1>1. /\ pc[r] = "search" /\ pc' = [pc EXCEPT ![r] = "idle"]
        /\ job' = [job EXCEPT ![r] = None] /\ Charge(c, job[r].grant)
    BY DEF Answer
  <1>2. job[r] \in Job /\ job[r].grant \in Nat
    BY <1>1 DEF TypeOK, Job
  <1>3. \A s \in Requests : s # r => pc'[s] = pc[s] /\ job'[s] = job[s]
    BY <1>1 DEF TypeOK
  <1>4. \A d \in Clients : d # c => used'[d] = used[d]
    BY <1>1 DEF Charge, TypeOK
  <1>5. \A p \in Periods : \/ used'[c][p] = used[c][p]
                           \/ used'[c][p] = used[c][p] + job[r].grant
    BY <1>1, <1>2 DEF Charge, TypeOK
  <1>6. SUFFICES ASSUME NEW d \in Clients, NEW p \in Periods
                 PROVE  WithinCap(d, p, used[d][p] + InFlight(d), Slack)'
    BY DEF OvershootBounded, Slack
  <1>7. CASE d # c
    <2>1. Held(d)' = Held(d)
      BY <1>1, <1>3, <1>7 DEF Held, TypeOK
    <2>2. InFlight(d)' = InFlight(d)
      BY <2>1 DEF InFlight
    <2>3. WithinCap(d, p, used[d][p] + InFlight(d), Slack)
      BY DEF OvershootBounded, Slack
    <2> QED BY <1>4, <1>7, <2>2, <2>3 DEF WithinCap, Slack
  <1>8. CASE d = c
    <2>1. Held(c) \in [Requests -> Nat] /\ Held(c)' \in [Requests -> Nat]
      BY HeldNow, HeldNext
    <2>2. Held(c)[r] = job[r].grant /\ Held(c)'[r] = 0
      BY <1>1 DEF Held, TypeOK
    <2>3. \A s \in Requests \ {r} : Held(c)'[s] = Held(c)[s]
      BY <1>3 DEF Held
    <2>4. InFlight(c)' = InFlight(c) + (Held(c)'[r] - Held(c)[r])
      <3>1. \A s \in Requests : Held(c)[s] \in Int /\ Held(c)'[s] \in Int
        BY <2>1
      <3> QED BY <2>3, <3>1, SlackType, SumChange DEF InFlight
    <2>5. InFlight(c) \in Nat /\ InFlight(c)' \in Nat
      BY <2>1, SlackType, SumNat DEF InFlight
    <2>6. used[c][p] \in Nat /\ used'[c][p] \in Nat
      BY <1>2 DEF TypeOK
    <2>7. used'[c][p] + InFlight(c)' <= used[c][p] + InFlight(c)
      BY <1>2, <1>5, <2>2, <2>4, <2>5, <2>6
    <2> QED BY <1>2, <1>8, <2>7, LessSpentKeepsBound
  <1> QED BY <1>7, <1>8

LEMMA BoundStep ==
  ASSUME "read" \notin Faults, TypeOK, TypeOK', OvershootBounded, [Next]_vars
  PROVE  OvershootBounded'
  <1> USE DEF TypeOK
  <1>0. used' = used => \A c \in Clients, p \in Periods : used'[c][p] <= used[c][p]
    OBVIOUS
  <1>1. ASSUME NEW r \in Requests, Arrive(r) \/ StartLoad(r) PROVE OvershootBounded'
    <2>1. pc'[r] # "search" /\ used' = used
      BY <1>1 DEF Arrive, StartLoad
    <2>2. \A s \in Requests : s # r => pc'[s] = pc[s] /\ job'[s] = job[s]
      BY <1>1 DEF Arrive, StartLoad
    <2> QED BY <1>0, <2>1, <2>2, EasedKeepsBound
  <1>2. ASSUME NEW r \in Requests, HardLimit(r) \/ Refuse(r) \/ HotelFails(r) \/ Abort(r)
        PROVE  OvershootBounded'
    <2>1. /\ pc' = [pc EXCEPT ![r] = "idle"] /\ job' = [job EXCEPT ![r] = None]
          /\ used' = used
      BY <1>2 DEF HardLimit, Refuse, HotelFails, Abort
    <2> QED BY <1>0, <2>1, EasedKeepsBound
  <1>3. ASSUME NEW r \in Requests, FinishLoad(r) PROVE OvershootBounded'
    <2>1. \E outcome \in {"loaded", "cooling"} :
            Decide(r, IF job[r].client \in Pooled /\ outcome = "loaded"
                      THEN "pooled" ELSE "direct")
      BY <1>3 DEF FinishLoad
    <2>2. PICK kind \in KindsOf(job[r].client) : Decide(r, kind)
      BY <2>1 DEF KindsOf, Kinds
    <2>3. job[r].client \in Clients
      BY <1>3 DEF FinishLoad, Job
    <2> QED BY <1>3, <2>2, <2>3, DecideKeepsBound DEF FinishLoad
  <1>4. ASSUME NEW r \in Requests, Enter(r) PROVE OvershootBounded'
    <2>1. Kind(job[r].client, Host[r]) \in KindsOf(job[r].client)
      BY DEF Kind, KindsOf, Kinds
    <2>2. job[r].client \in Clients
      BY <1>4 DEF Enter, Job
    <2> QED BY <1>4, <2>1, <2>2, DecideKeepsBound DEF Enter
  <1>5. ASSUME NEW r \in Requests, Answer(r) PROVE OvershootBounded'
    <2>1. job[r].client \in Clients
      BY <1>5 DEF Answer, Job
    <2> QED BY <1>5, <2>1, AnswerKeepsBound
  <1>6. ASSUME NEW i \in Instances, Restart(i) PROVE OvershootBounded'
    <2>1. /\ used' = used
          /\ \A s \in Requests : pc'[s] = "search" => pc'[s] = pc[s] /\ job'[s] = job[s]
      BY <1>6 DEF Restart
    <2> QED BY <1>0, <2>1, EasedKeepsBound
  <1>7. CASE Tick
    <2>1. pc' = pc /\ job' = job
      BY <1>7 DEF Tick
    <2>2. ASSUME NEW c \in Clients, NEW p \in Periods PROVE used'[c][p] <= used[c][p]
      <3>1. used[c][p] \in Nat
        OBVIOUS
      <3>2. used'[c][p] \in {0, used[c][p]}
        BY <1>7 DEF Tick, Rollover, Periods
      <3> QED BY <3>1, <3>2
    <2> QED BY <2>1, <2>2, EasedKeepsBound
  <1>8. CASE UNCHANGED vars
    <2>1. pc' = pc /\ job' = job /\ used' = used
      BY <1>8 DEF vars
    <2> QED BY <1>0, <2>1, EasedKeepsBound
  <1> QED BY <1>1, <1>2, <1>3, <1>4, <1>5, <1>6, <1>7, <1>8 DEF Next

LEMMA BoundInit == ASSUME TypeOK, Init PROVE OvershootBounded
  <1> SUFFICES ASSUME NEW c \in Clients, NEW p \in Periods
               PROVE  \E k \in KindsOf(c) : used[c][p] + InFlight(c) <= CapsFor(k)[p] + Slack
    BY DEF OvershootBounded, WithinCap, Slack
  <1>1. "direct" \in KindsOf(c)
    BY DEF KindsOf, Kinds
  <1>2. used[c][p] = 0 /\ CapsFor("direct")[p] \in Nat
    BY CapsType DEF Init, NoUse
  <1>3. InFlight(c) = 0
    <2>1. \A r \in Requests : Held(c)[r] = 0
      BY DEF Init, Held
    <2> QED BY <2>1, SlackType, SumZero DEF InFlight
  <1>4. used[c][p] + InFlight(c) <= CapsFor("direct")[p] + Slack
    BY <1>2, <1>3, SlackType
  <1> QED BY <1>1, <1>4

\* Calls made at the same time are each admitted against what was used before
\* any of them is charged (snapshot_for reads, record adds, and nothing is
\* reserved in between). What they can spend together is bounded all the same,
\* whatever their number and order: the cap, and one full fan-out for each of
\* them but one.
THEOREM OvershootIsBounded ==
  ASSUME "read" \notin Faults
  PROVE  Spec => []OvershootBounded
  <1>1. Init => TypeOK /\ OvershootBounded
    BY TypeInit, BoundInit
  <1>2. TypeOK /\ OvershootBounded /\ [Next]_vars => (TypeOK /\ OvershootBounded)'
    BY TypeStep, BoundStep
  <1> QED BY <1>1, <1>2, PTL DEF Spec

-----------------------------------------------------------------------------
(* The hour of refusals.                                                   *)

\* The ticks of the slot that is filling, and the ticks that the last k slots
\* and this one reach back.
Elapsed == clock % SlotTicks
Window(k) == 0 .. Elapsed + k * SlotTicks

\* Every slot that is counted is made of ticks that are remembered, whichever
\* slots are added up; only a count that was not written is missing.
Tallied ==
  \A c \in Clients, k \in RefusalKeys :
    /\ SumFunctionOnSet(refusals[c], 0 .. k) <= SumFunctionOnSet(recent[c], Window(k))
    /\ "write" \notin Faults
         => SumFunctionOnSet(recent[c], Window(k)) <= SumFunctionOnSet(refusals[c], 0 .. k)

\* Slots divide the month, and the hour is made of them.
LEMMA SlotNumbers ==
  /\ SlotTicks \in Nat \ {0} /\ MonthTicks \in Nat \ {0} /\ RefusalSlots \in Nat \ {0}
  /\ MonthTicks % SlotTicks = 0
  /\ RefusalSlots - 1 \in RefusalKeys /\ RefusalKeys \subseteq Nat
  /\ \A k \in RefusalKeys : 0 .. k \subseteq SlotAges /\ k <= RefusalSlots - 1
  <1>1. /\ SlotTicks \in Nat \ {0} /\ DayTicks \in Nat \ {0}
        /\ MonthTicks \in Nat \ {0} /\ RefusalSlots \in Nat \ {0}
        /\ DayTicks % SlotTicks = 0 /\ MonthTicks % DayTicks = 0
    BY ConstantsAssumption
  <1>2. MonthTicks % SlotTicks = 0
    BY <1>1, DividesThrough
  <1>3. /\ RefusalSlots - 1 \in RefusalKeys /\ RefusalKeys \subseteq Nat
        /\ \A k \in RefusalKeys : 0 .. k \subseteq SlotAges /\ k <= RefusalSlots - 1
    BY <1>1 DEF RefusalKeys, SlotAges
  <1> QED BY <1>1, <1>2, <1>3

\* The window of a slot lies within the hour.
LEMMA WindowRange ==
  ASSUME clock \in 0 .. MonthTicks - 1, NEW k \in RefusalKeys
  PROVE  /\ Elapsed \in 0 .. SlotTicks - 1 /\ k * SlotTicks \in Nat
         /\ Window(k) \subseteq TickAges
         /\ Elapsed + k * SlotTicks + 1 \in TickAges \/ Elapsed = SlotTicks - 1
  <1>1. clock \in Nat
    BY SlotNumbers
  <1>2. Elapsed \in 0 .. SlotTicks - 1
    BY <1>1, SlotNumbers, Division DEF Elapsed
  <1>3. k \in Nat /\ k <= RefusalSlots - 1
    BY SlotNumbers
  <1>4. k * SlotTicks \in Nat /\ k * SlotTicks + SlotTicks <= Hour
    <2>1. PICK j \in Nat : RefusalSlots = k + 1 + j
      <3>1. RefusalSlots - k - 1 \in Nat
        BY <1>3, SlotNumbers
      <3> QED BY <1>3, <3>1, SlotNumbers
    <2>2. /\ (k + 1 + j) * SlotTicks = k * SlotTicks + SlotTicks + j * SlotTicks
          /\ k * SlotTicks \in Nat /\ j * SlotTicks \in Nat
      BY <1>3, SlotNumbers
    <2>3. Hour = k * SlotTicks + SlotTicks + j * SlotTicks
      BY <2>1, <2>2 DEF Hour
    <2>4. SlotTicks \in Nat
      BY SlotNumbers
    <2> QED BY <2>2, <2>3, <2>4
  <1>5. Hour \in Nat /\ SlotTicks \in Nat
    BY HourPositive, SlotNumbers
  <1> DEFINE n == k * SlotTicks
  <1>6. n \in Nat /\ n + SlotTicks <= Hour
    BY <1>4
  <1>7. 0 .. Elapsed + n \subseteq 0 .. Hour - 1
    <2> HIDE DEF n
    <2> QED BY <1>2, <1>5, <1>6
  <1>8. Elapsed + n + 1 \in 0 .. Hour - 1 \/ Elapsed = SlotTicks - 1
    <2> HIDE DEF n
    <2> QED BY <1>2, <1>5, <1>6
  <1> QED BY <1>2, <1>4, <1>7, <1>8 DEF Window, TickAges

LEMMA WindowIs ==
  ASSUME TypeOK, NEW k \in RefusalKeys
  PROVE  \E w \in Nat : w = Elapsed + k * SlotTicks /\ Window(k) = 0 .. w /\ 0 .. w \subseteq TickAges
  <1> DEFINE n == k * SlotTicks
  <1>1. Elapsed \in 0 .. SlotTicks - 1 /\ n \in Nat /\ Window(k) \subseteq TickAges
    BY WindowRange DEF TypeOK
  <1>2. Window(k) = 0 .. Elapsed + n
    BY DEF Window
  <1> HIDE DEF n
  <1>3. Elapsed + n \in Nat
    BY <1>1, SlotNumbers
  <1> QED BY <1>1, <1>2, <1>3 DEF n

\* A tick later the slot is a tick fuller, or it is the next one.
LEMMA ElapsedNext ==
  ASSUME clock \in 0 .. MonthTicks - 1, clock' = (clock + 1) % MonthTicks
  PROVE  Elapsed' = IF Elapsed = SlotTicks - 1 THEN 0 ELSE Elapsed + 1
  <1>1. clock \in Nat /\ MonthTicks \in Nat
    BY SlotNumbers
  <1>2. (clock + 1) % SlotTicks = IF Elapsed = SlotTicks - 1 THEN 0 ELSE Elapsed + 1
    BY <1>1, SlotNumbers, NextRemainder DEF Elapsed
  <1>3. CASE clock + 1 = MonthTicks
    <2>1. clock' = 0
      <3>1. MonthTicks = MonthTicks * 1 + 0 /\ 0 \in 0 .. MonthTicks - 1
        BY SlotNumbers
      <3> QED BY <1>1, <1>3, <3>1, SlotNumbers, RemainderIs
    <2>2. 0 % SlotTicks = 0
      <3>1. 0 = SlotTicks * 0 + 0 /\ 0 \in 0 .. SlotTicks - 1
        BY SlotNumbers
      <3> QED BY <3>1, SlotNumbers, RemainderIs
    <2>3. (clock + 1) % SlotTicks = 0
      BY <1>3, SlotNumbers
    <2> QED BY <1>2, <2>1, <2>2, <2>3 DEF Elapsed
  <1>4. CASE clock + 1 # MonthTicks
    <2>1. clock' = clock + 1
      <3>1. /\ clock + 1 = MonthTicks * 0 + (clock + 1)
            /\ clock + 1 \in 0 .. MonthTicks - 1 /\ clock + 1 \in Int
        BY <1>1, <1>4, SlotNumbers
      <3> QED BY <3>1, SlotNumbers, RemainderIs
    <2> QED BY <1>2, <2>1 DEF Elapsed
  <1> QED BY <1>3, <1>4

\* Everything a step older.
LEMMA AgedSum ==
  ASSUME NEW D, NEW f \in [D -> Nat], NEW n \in Nat, 0 .. n + 1 \subseteq D
  PROVE  SumFunctionOnSet(Age(f), 0 .. n + 1) = SumFunctionOnSet(f, 0 .. n)
  <1>1. 0 .. n \subseteq 0 .. n + 1 /\ 0 \in 0 .. n + 1
    OBVIOUS
  <1>2. \A a \in 0 .. n : f[a] \in Int
    BY <1>1
  <1>3. Age(f)[0] = 0
    BY <1>1 DEF Age
  <1>4. ASSUME NEW a \in 0 .. n PROVE Age(f)[a + 1] = f[a]
    <2>1. a + 1 \in D /\ a + 1 # 0 /\ (a + 1) - 1 = a
      OBVIOUS
    <2> QED BY <2>1 DEF Age
  <1> QED BY <1>2, <1>3, <1>4, SumAged

\* Nothing is that young.
LEMMA AgedNothing ==
  ASSUME NEW D, NEW f \in [D -> Nat], 0 \in D
  PROVE  SumFunctionOnSet(Age(f), 0 .. 0) = 0
  <1>1. Age(f)[0] = 0
    BY DEF Age
  <1>2. 0 .. 0 = {0}
    OBVIOUS
  <1>3. SumFunctionOnSet(Age(f), {0}) = 0
    BY <1>1, FS_Singleton, SumZero
  <1> QED BY <1>2, <1>3, Zenon

\* One refusal more, in every interval that begins now.
LEMMA OneMore ==
  ASSUME NEW n \in Nat, NEW f, NEW g,
         \A a \in 0 .. n : f[a] \in Nat /\ g[a] = IF a = 0 THEN f[a] + 1 ELSE f[a]
  PROVE  SumFunctionOnSet(g, 0 .. n) = SumFunctionOnSet(f, 0 .. n) + 1
  <1> DEFINE T == 0 .. n
  <1>1. IsFiniteSet(T)
    BY FS_Interval
  <1>2. /\ 0 \in T
        /\ \A a \in T : f[a] \in Int /\ g[a] \in Int
        /\ \A a \in T \ {0} : g[a] = f[a]
    OBVIOUS
  <1> HIDE DEF T
  <1>3. SumFunctionOnSet(g, T) = SumFunctionOnSet(f, T) + (g[0] - f[0])
    BY <1>1, <1>2, SumChange
  <1>4. f[0] \in Int /\ SumFunctionOnSet(f, T) \in Int
    BY <1>1, <1>2, SumInt
  <1>5. SumFunctionOnSet(g, T) = SumFunctionOnSet(f, T) + 1
    BY <1>3, <1>4
  <1> QED BY <1>5 DEF T

\* ... of one caller.
LEMMA OneMoreOf ==
  ASSUME NEW D, NEW f \in [Clients -> [D -> Nat]], NEW c \in Clients, 0 \in D,
         NEW d \in Clients, NEW n \in Nat, 0 .. n \subseteq D
  PROVE  SumFunctionOnSet([f EXCEPT ![c][0] = @ + 1][d], 0 .. n)
           = IF d = c THEN SumFunctionOnSet(f[d], 0 .. n) + 1 ELSE SumFunctionOnSet(f[d], 0 .. n)
  <1> DEFINE g == [f EXCEPT ![c][0] = @ + 1]
  <1>1. g \in [Clients -> [D -> Nat]]
    BY CountOneType
  <1>2. CASE d # c
    <2>1. g[d] = f[d]
      BY <1>2
    <2> HIDE DEF g
    <2>2. SumFunctionOnSet(g[d], 0 .. n) = SumFunctionOnSet(f[d], 0 .. n)
      BY <2>1, Zenon
    <2> QED BY <1>2, <2>2 DEF g
  <1>3. CASE d = c
    <2>1. g[c][0] = f[c][0] + 1 /\ \A a \in D \ {0} : g[c][a] = f[c][a]
      OBVIOUS
    <2> HIDE DEF g
    <2>2. SumFunctionOnSet(g[c], 0 .. n) = SumFunctionOnSet(f[c], 0 .. n) + 1
      <3>1. \A a \in 0 .. n : f[c][a] \in Nat /\ g[c][a] = IF a = 0 THEN f[c][a] + 1 ELSE f[c][a]
        BY <2>1
      <3>2. PICK u : u = f[c]
        OBVIOUS
      <3>3. PICK v : v = g[c]
        OBVIOUS
      <3>4. SumFunctionOnSet(v, 0 .. n) = SumFunctionOnSet(u, 0 .. n) + 1
        BY <3>1, <3>2, <3>3, OneMore
      <3> QED BY <3>2, <3>3, <3>4
    <2> QED BY <1>3, <2>2 DEF g
  <1> QED BY <1>2, <1>3

LEMMA TalliedInit == ASSUME TypeOK, Init PROVE Tallied
  <1> SUFFICES ASSUME NEW c \in Clients, NEW k \in RefusalKeys
               PROVE  /\ SumFunctionOnSet(refusals[c], 0 .. k) = 0
                      /\ SumFunctionOnSet(recent[c], Window(k)) = 0
    BY DEF Tallied
  <1>1. k \in Nat /\ 0 .. k \subseteq SlotAges
    BY SlotNumbers
  <1>2. PICK w \in Nat : Window(k) = 0 .. w /\ 0 .. w \subseteq TickAges
    BY WindowIs
  <1>3. IsFiniteSet(0 .. k) /\ IsFiniteSet(0 .. w)
    BY <1>1, FS_Interval
  <1>4. \A a \in 0 .. k : refusals[c][a] = 0
    BY <1>1 DEF Init
  <1>5. \A a \in Window(k) : recent[c][a] = 0
    BY <1>2 DEF Init
  <1>6. SumFunctionOnSet(refusals[c], 0 .. k) = 0
    BY <1>3, <1>4, SumZero
  <1>7. SumFunctionOnSet(recent[c], Window(k)) = 0
    BY <1>2, <1>3, <1>5, SumZero
  <1> QED BY <1>6, <1>7

\* A refusal is remembered where it is counted.
LEMMA RefuseTallied ==
  ASSUME TypeOK, TypeOK', Tallied, NEW r \in Requests, Refuse(r)
  PROVE  Tallied'
  <1>1. clock' = clock
    BY DEF Refuse
  <1>2. PICK c \in Clients : c = job[r].client
    BY DEF Refuse, TypeOK, Job
  <1>3. CASE job[r].kind = "pooled"
    <2>1. refusals' = refusals /\ recent' = recent
      BY <1>3 DEF Refuse, CountRefusal
    <2> QED BY <1>1, <2>1 DEF Tallied, Window, Elapsed
  <1>4. CASE job[r].kind # "pooled"
    <2>1. /\ recent' = [recent EXCEPT ![c][0] = @ + 1]
          /\ \/ refusals' = [refusals EXCEPT ![c][0] = @ + 1]
             \/ "write" \in Faults /\ refusals' = refusals
      BY <1>2, <1>4 DEF Refuse, CountRefusal
    <2> SUFFICES ASSUME NEW d \in Clients, NEW k \in RefusalKeys
                 PROVE  /\ SumFunctionOnSet(refusals'[d], 0 .. k)
                             <= SumFunctionOnSet(recent'[d], Window(k))
                        /\ "write" \notin Faults
                             => SumFunctionOnSet(recent'[d], Window(k))
                                  <= SumFunctionOnSet(refusals'[d], 0 .. k)
      BY <1>1 DEF Tallied, Window, Elapsed
    <2> DEFINE n == SumFunctionOnSet(refusals[d], 0 .. k)
               m == SumFunctionOnSet(recent[d], Window(k))
    <2>2. k \in Nat /\ 0 .. k \subseteq SlotAges /\ 0 \in SlotAges
      BY SlotNumbers DEF SlotAges
    <2>3. PICK w \in Nat : Window(k) = 0 .. w /\ 0 .. w \subseteq TickAges
      BY WindowIs
    <2>10. 0 \in TickAges
      BY <2>3
    <2>4. n \in Nat /\ m \in Nat
      <3>1. IsFiniteSet(0 .. k) /\ IsFiniteSet(Window(k))
        BY <2>2, <2>3, FS_Interval
      <3>2. \A a \in 0 .. k : refusals[d][a] \in Nat
        BY <2>2 DEF TypeOK
      <3>3. \A a \in Window(k) : recent[d][a] \in Nat
        BY <2>3 DEF TypeOK
      <3> QED BY <3>1, <3>2, <3>3, SumNat
    <2>5. n <= m /\ ("write" \notin Faults => m <= n)
      BY DEF Tallied
    <2>6. SumFunctionOnSet(recent'[d], Window(k)) = IF d = c THEN m + 1 ELSE m
      <3>1. recent \in [Clients -> [TickAges -> Nat]]
        BY DEF TypeOK
      <3>2. SumFunctionOnSet(recent'[d], 0 .. w)
              = IF d = c THEN SumFunctionOnSet(recent[d], 0 .. w) + 1
                ELSE SumFunctionOnSet(recent[d], 0 .. w)
        <4>1. SumFunctionOnSet([recent EXCEPT ![c][0] = @ + 1][d], 0 .. w)
                = IF d = c THEN SumFunctionOnSet(recent[d], 0 .. w) + 1
                  ELSE SumFunctionOnSet(recent[d], 0 .. w)
          BY <2>3, <2>10, <3>1, OneMoreOf
        <4> QED BY <2>1, <4>1, Zenon
      <3> QED BY <2>3, <3>2
    <2>7. refusals' = [refusals EXCEPT ![c][0] = @ + 1]
            => SumFunctionOnSet(refusals'[d], 0 .. k) = IF d = c THEN n + 1 ELSE n
      <3>1. refusals \in [Clients -> [SlotAges -> Nat]]
        BY DEF TypeOK
      <3> SUFFICES ASSUME refusals' = [refusals EXCEPT ![c][0] = @ + 1]
                   PROVE  SumFunctionOnSet(refusals'[d], 0 .. k) = IF d = c THEN n + 1 ELSE n
        OBVIOUS
      <3>2. SumFunctionOnSet([refusals EXCEPT ![c][0] = @ + 1][d], 0 .. k)
              = IF d = c THEN n + 1 ELSE n
        BY <2>2, <3>1, OneMoreOf
      <3> QED BY <3>2, Zenon
    <2> HIDE DEF n, m
    <2>8. CASE refusals' = [refusals EXCEPT ![c][0] = @ + 1]
      BY <2>4, <2>5, <2>6, <2>7, <2>8
    <2>9. CASE "write" \in Faults /\ refusals' = refusals
      BY <2>4, <2>5, <2>6, <2>9 DEF n
    <2> QED BY <2>1, <2>8, <2>9
  <1> QED BY <1>3, <1>4

\* Slots and ticks grow old together.
LEMMA TickTallied ==
  ASSUME TypeOK, TypeOK', Tallied, Tick
  PROVE  Tallied'
  <1> DEFINE now == (clock + 1) % MonthTicks
             E == Elapsed
  <1>1. /\ clock' = now
        /\ recent' = [c \in Clients |-> Age(recent[c])]
        /\ refusals' = IF now % SlotTicks = 0
                       THEN [c \in Clients |-> Age(refusals[c])] ELSE refusals
    BY DEF Tick
  <1>2. Elapsed' = IF Elapsed = SlotTicks - 1 THEN 0 ELSE Elapsed + 1
    BY <1>1, ElapsedNext DEF TypeOK
  <1>3. Elapsed' = now % SlotTicks
    BY <1>1 DEF Elapsed
  <1> HIDE DEF now
  <1> SUFFICES ASSUME NEW c \in Clients, NEW k \in RefusalKeys
               PROVE  /\ SumFunctionOnSet(refusals'[c], 0 .. k)
                           <= SumFunctionOnSet(recent'[c], Window(k)')
                      /\ "write" \notin Faults
                           => SumFunctionOnSet(recent'[c], Window(k)')
                                <= SumFunctionOnSet(refusals'[c], 0 .. k)
    BY DEF Tallied
  <1>4. k \in Nat /\ 0 .. k \subseteq SlotAges /\ 0 \in SlotAges /\ 0 \in TickAges
    BY SlotNumbers, HourPositive DEF SlotAges, TickAges
  <1>5. /\ Elapsed \in 0 .. SlotTicks - 1 /\ SlotTicks \in Nat \ {0}
        /\ k * SlotTicks \in Nat /\ Window(k) \subseteq TickAges
        /\ Elapsed + k * SlotTicks + 1 \in TickAges \/ Elapsed = SlotTicks - 1
    BY WindowRange, SlotNumbers DEF TypeOK
  <1>6. Window(k)' = 0 .. Elapsed' + k * SlotTicks
    BY DEF Window
  <1>7. refusals[c] \in [SlotAges -> Nat] /\ recent[c] \in [TickAges -> Nat]
    BY DEF TypeOK
  <1>8. recent'[c] = Age(recent[c])
    BY <1>1
  <1>9. TickAges = 0 .. Hour - 1 /\ Hour \in Nat
    BY HourPositive DEF TickAges
  <1>10. CASE Elapsed # SlotTicks - 1
    <2>1. refusals' = refusals
      <3>1. now % SlotTicks # 0
        BY <1>2, <1>3, <1>5, <1>10
      <3> QED BY <1>1, <3>1
    <2> DEFINE e == Elapsed + k * SlotTicks
    <2>2. e \in Nat /\ 0 .. e + 1 \subseteq TickAges
      <3>1. e \in Nat /\ e + 1 \in TickAges
        BY <1>5, <1>10
      <3> HIDE DEF e
      <3> QED BY <1>9, <3>1
    <2>3. Window(k)' = 0 .. e + 1
      <3>1. Elapsed' + k * SlotTicks = e + 1
        BY <1>2, <1>5, <1>10
      <3> QED BY <1>6, <3>1
    <2>4. SumFunctionOnSet(recent'[c], Window(k)') = SumFunctionOnSet(recent[c], Window(k))
      <3>1. Window(k) = 0 .. e
        BY DEF Window
      <3> HIDE DEF e
      <3> QED BY <1>7, <1>8, <2>2, <2>3, <3>1, AgedSum
    <2> QED BY <2>1, <2>4 DEF Tallied
  <1>11. CASE Elapsed = SlotTicks - 1
    <2>1. refusals'[c] = Age(refusals[c])
      <3>1. now % SlotTicks = 0
        BY <1>2, <1>3, <1>11
      <3> QED BY <1>1, <3>1
    <2>2. Window(k)' = 0 .. k * SlotTicks
      <3>1. Elapsed' + k * SlotTicks = k * SlotTicks
        BY <1>2, <1>5, <1>11
      <3> QED BY <1>6, <3>1
    <2>3. CASE k = 0
      <3>1. k * SlotTicks = 0
        BY <1>5, <2>3
      <3>2. SumFunctionOnSet(recent'[c], 0 .. 0) = 0 /\ SumFunctionOnSet(refusals'[c], 0 .. 0) = 0
        BY <1>4, <1>7, <1>8, <2>1, AgedNothing
      <3>3. Window(k)' = 0 .. 0
        BY <2>2, <3>1
      <3> QED BY <2>3, <3>2, <3>3
    <2>4. CASE k # 0
      <3> DEFINE j == k - 1
                 e == Elapsed + j * SlotTicks
      <3>1. j \in RefusalKeys /\ j \in Nat /\ k = j + 1
        BY <1>4, <2>4, SlotNumbers DEF RefusalKeys
      <3>2. /\ j * SlotTicks \in Nat /\ k * SlotTicks = e + 1 /\ e \in Nat
            /\ Window(j) = 0 .. e
        <4>1. k * SlotTicks = j * SlotTicks + SlotTicks
          <5>1. \A x \in Nat, y \in Nat : (x + 1) * y = x * y + y
            OBVIOUS
          <5> HIDE DEF j
          <5> QED BY <3>1, <1>5, <5>1
        <4>2. j * SlotTicks \in Nat
          <5> HIDE DEF j
          <5> QED BY <3>1, <1>5
        <4>3. e = Elapsed + j * SlotTicks
          OBVIOUS
        <4> HIDE DEF j, e
        <4>4. k * SlotTicks = e + 1 /\ e \in Nat
          BY <1>5, <1>11, <4>1, <4>2, <4>3
        <4> QED BY <4>2, <4>3, <4>4 DEF Window
      <3>3. 0 .. e + 1 \subseteq TickAges
        <4>1. Window(k)' \subseteq TickAges
          <5>1. Elapsed' \in 0 .. SlotTicks - 1
            BY <1>2, <1>5, <1>11
          <5>2. Window(k) = 0 .. Elapsed + k * SlotTicks
            BY DEF Window
          <5>3. 0 .. k * SlotTicks \subseteq 0 .. Elapsed + k * SlotTicks
            BY <1>5
          <5> QED BY <1>5, <2>2, <5>2, <5>3
        <4> HIDE DEF e
        <4> QED BY <2>2, <3>2, <4>1
      <3>4. SumFunctionOnSet(recent'[c], Window(k)') = SumFunctionOnSet(recent[c], Window(j))
        <4>1. Window(k)' = 0 .. e + 1
          <5> HIDE DEF e, j
          <5> QED BY <2>2, <3>2
        <4> HIDE DEF e, j
        <4> QED BY <1>7, <1>8, <3>2, <3>3, <4>1, AgedSum
      <3>5. SumFunctionOnSet(refusals'[c], 0 .. k) = SumFunctionOnSet(refusals[c], 0 .. j)
        <4> HIDE DEF j
        <4>1. 0 .. j + 1 \subseteq SlotAges
          BY <1>4, <3>1
        <4> QED BY <1>7, <2>1, <3>1, <4>1, AgedSum
      <3> HIDE DEF j, e
      <3> QED BY <3>1, <3>4, <3>5 DEF Tallied
    <2> QED BY <2>3, <2>4
  <1> QED BY <1>10, <1>11

LEMMA TalliedStep ==
  ASSUME TypeOK, TypeOK', Tallied, [Next]_vars
  PROVE  Tallied'
  <1>1. ASSUME NEW r \in Requests, Refuse(r) PROVE Tallied'
    BY <1>1, RefuseTallied
  <1>2. CASE Tick
    BY <1>2, TickTallied
  <1>3. ASSUME UNCHANGED <<clock, refusals, recent>> PROVE Tallied'
    BY <1>3 DEF Tallied, Window, Elapsed
  <1> QED BY <1>1, <1>2, <1>3
      DEF Next, vars, Arrive, HardLimit, StartLoad, FinishLoad, Enter, Answer,
          HotelFails, Abort, Restart

\* What the gate reads against what was refused within the hour, and within
\* all of it but the slot that is filling.
LEMMA HourOfRefusals ==
  ASSUME TypeOK, Tallied, NEW c \in Clients
  PROVE  /\ RefusalCount(c) \in Nat
         /\ RefusalCount(c) <= RecentRefusals(c, TickAges)
         /\ "write" \notin Faults
              => RecentRefusals(c, 0 .. (RefusalSlots - 1) * SlotTicks) <= RefusalCount(c)
         /\ RecentRefusals(c, TickAges) \in Nat
         /\ RecentRefusals(c, 0 .. (RefusalSlots - 1) * SlotTicks) \in Nat
  <1> DEFINE k == RefusalSlots - 1
             full == 0 .. k * SlotTicks
             n == SumFunctionOnSet(refusals[c], 0 .. k)
             m == SumFunctionOnSet(recent[c], Window(k))
  <1>1. k \in RefusalKeys
    BY SlotNumbers
  <1>2. /\ Elapsed \in Nat /\ k * SlotTicks \in Nat
        /\ Window(k) \subseteq TickAges
    <2> HIDE DEF k
    <2> QED BY <1>1, WindowRange, SlotNumbers DEF TypeOK
  <1>3. full \subseteq Window(k) /\ Window(k) = 0 .. Elapsed + k * SlotTicks
    <2>1. Window(k) = 0 .. Elapsed + k * SlotTicks
      BY DEF Window
    <2> HIDE DEF k
    <2> QED BY <1>2, <2>1
  <1>4. IsFiniteSet(TickAges)
    BY HourPositive, FS_Interval DEF TickAges
  <1>5. /\ recent[c] \in [TickAges -> Nat] /\ refusals[c] \in [SlotAges -> Nat]
        /\ 0 .. k \subseteq SlotAges /\ 0 .. k = RefusalKeys /\ k \in Nat
    BY <1>1, SlotNumbers DEF TypeOK, RefusalKeys
  <1>6. n <= m /\ ("write" \notin Faults => m <= n)
    <2> HIDE DEF k
    <2> QED BY <1>1 DEF Tallied
  <1> HIDE DEF k, full
  <1>7. IsFiniteSet(Window(k)) /\ IsFiniteSet(full) /\ IsFiniteSet(0 .. k)
    <2>1. IsFiniteSet(0 .. k)
      <3>1. k \in Int /\ 0 \in Int
        BY <1>5
      <3> QED BY <3>1, FS_Interval, Zenon
    <2> QED BY <1>2, <1>3, <1>4, <2>1, FS_Subset
  <1>8. m <= RecentRefusals(c, TickAges)
    BY <1>2, <1>4, <1>5, SumPart DEF RecentRefusals
  <1>9. RecentRefusals(c, full) <= m
    BY <1>2, <1>3, <1>5, <1>7, SumPart DEF RecentRefusals
  <1>10. /\ n \in Nat /\ m \in Nat
         /\ RecentRefusals(c, TickAges) \in Nat /\ RecentRefusals(c, full) \in Nat
    <2>1. \A a \in 0 .. k : refusals[c][a] \in Nat
      BY <1>5
    <2>2. \A a \in Window(k) : recent[c][a] \in Nat
      BY <1>2, <1>5
    <2>3. \A a \in full : recent[c][a] \in Nat
      BY <1>3, <2>2
    <2> QED BY <1>4, <1>5, <1>7, <2>1, <2>2, <2>3, SumNat DEF RecentRefusals
  <1>11. RefusalCount(c) = n
    BY <1>5, Zenon DEF RefusalCount
  <1> HIDE DEF n, m
  <1>12. /\ n <= RecentRefusals(c, TickAges)
         /\ "write" \notin Faults => RecentRefusals(c, full) <= n
    BY <1>6, <1>8, <1>9, <1>10
  <1> QED BY <1>10, <1>11, <1>12 DEF full, k

\* The 429 comes from the gate.
LEMMA GateStep ==
  ASSUME TypeOK, [Next]_vars, NEW r \in Requests, pc[r] = "idle", pc'[r] # "idle"
  PROVE  Arrive(r)
  <1> USE DEF TypeOK
  <1>1. ASSUME NEW s \in Requests, HardLimit(s) \/ Refuse(s) \/ Answer(s) \/ HotelFails(s) \/ Abort(s)
        PROVE  FALSE
    <2>1. pc' = [pc EXCEPT ![s] = "idle"]
      BY <1>1 DEF HardLimit, Refuse, Answer, HotelFails, Abort
    <2> QED BY <2>1
  <1>2. ASSUME NEW s \in Requests, StartLoad(s) \/ FinishLoad(s) \/ Enter(s)
        PROVE  FALSE
    <2>1. pc[s] # "idle" /\ \A q \in Requests : q # s => pc'[q] = pc[q]
      BY <1>2 DEF StartLoad, FinishLoad, Enter, Decide
    <2> QED BY <2>1
  <1>3. ASSUME NEW i \in Instances, Restart(i) PROVE FALSE
    BY <1>3 DEF Restart
  <1>4. ~ Tick /\ ~ UNCHANGED vars
    BY DEF Tick, vars
  <1>5. ASSUME NEW s \in Requests, Arrive(s) PROVE s = r
    <2>1. \A q \in Requests : q # s => pc'[q] = pc[q]
      BY <1>5 DEF Arrive
    <2> QED BY <2>1
  <1> QED BY <1>1, <1>2, <1>3, <1>4, <1>5 DEF Next

LEMMA EscalatedStep ==
  ASSUME TypeOK, Tallied, [Next]_vars, NEW r \in Requests,
         pc[r] = "idle", pc'[r] = "hardLimit"
  PROVE  RecentRefusals(job'[r].client, TickAges) >= HardAfter
  <1>1. Arrive(r)
    BY GateStep
  <1>2. PICK c \in Clients : \E n \in Reads(RefusalCount(c), 0) :
          /\ job'[r].client = c
          /\ Escalated(Kind(c, Host[r]), n)
    BY <1>1 DEF Arrive, TypeOK
  <1> PICK n \in Reads(RefusalCount(c), 0) : Escalated(Kind(c, Host[r]), n)
    BY <1>2
  <1>3. n = RefusalCount(c) \/ n = 0
    BY <1>2 DEF Reads
  <1>4. HardAfter \in Nat /\ HardAfter > 0 /\ n >= HardAfter
    BY <1>2, ConstantsAssumption DEF Escalated
  <1>5. n = RefusalCount(c)
    BY <1>3, <1>4
  <1>6. /\ RefusalCount(c) \in Nat /\ RecentRefusals(c, TickAges) \in Nat
        /\ RefusalCount(c) <= RecentRefusals(c, TickAges)
    BY HourOfRefusals
  <1>7. RecentRefusals(c, TickAges) >= HardAfter
    BY <1>4, <1>5, <1>6
  <1> QED BY <1>2, <1>7

LEMMA LoopStep ==
  ASSUME Faults = {}, HardAfter > 0, TypeOK, Tallied, [Next]_vars, NEW r \in Requests,
         pc[r] = "idle", pc'[r] = "enter", job'[r].kind = "direct"
  PROVE  RecentRefusals(job'[r].client, 0 .. (RefusalSlots - 1) * SlotTicks) < HardAfter
  <1>1. Arrive(r)
    BY GateStep
  <1>2. PICK c \in Clients : \E n \in Reads(RefusalCount(c), 0) :
          /\ job'[r].client = c /\ job'[r].kind = Kind(c, Host[r])
          /\ ~ Escalated(Kind(c, Host[r]), n)
    BY <1>1 DEF Arrive, TypeOK
  <1> PICK n \in Reads(RefusalCount(c), 0) : ~ Escalated(Kind(c, Host[r]), n)
    BY <1>2
  <1>3. n = RefusalCount(c)
    BY <1>2 DEF Reads
  <1>4. HardAfter \in Nat /\ ~ (n >= HardAfter)
    BY <1>2, ConstantsAssumption DEF Escalated
  <1> DEFINE m == RecentRefusals(c, 0 .. (RefusalSlots - 1) * SlotTicks)
  <1>5. RefusalCount(c) \in Nat /\ m \in Nat /\ m <= RefusalCount(c)
    BY HourOfRefusals
  <1>6. m < HardAfter
    <2> HIDE DEF m
    <2> QED BY <1>3, <1>4, <1>5
  <1> QED BY <1>2, <1>6

LEMMA TalliedAlways == Spec => [](TypeOK /\ Tallied)
  <1>1. Init => TypeOK /\ Tallied
    BY TypeInit, TalliedInit
  <1>2. TypeOK /\ Tallied /\ [Next]_vars => (TypeOK /\ Tallied)'
    BY TypeStep, TalliedStep
  <1> QED BY <1>1, <1>2, PTL DEF Spec

\* Nobody gets a 429 for refusals that are older than an hour, whatever the
\* lengths of slot, day and month, wherever the slots fall, and however often
\* the store fails (fair_use_refusal_keys: "never more than the last 60").
THEOREM EscalationLooksBackAnHour == Spec => EscalatedOnTheLastHour
  <1>1. TypeOK /\ Tallied /\ [Next]_vars
          => [\A r \in Requests :
                pc[r] = "idle" /\ pc'[r] = "hardLimit"
                  => RecentRefusals(job'[r].client, TickAges) >= HardAfter]_vars
    BY EscalatedStep
  <1> QED BY <1>1, TalliedAlways, PTL DEF Spec, EscalatedOnTheLastHour

\* A caller that was refused that often within all but the last slot of the
\* hour gets its 429, in whichever slots its refusals fell ("at least the last
\* 50"), as long as the store answers.
THEOREM LoopsGetTheirs ==
  ASSUME Faults = {}, HardAfter > 0
  PROVE  Spec => LoopsAreEscalated
  <1>1. TypeOK /\ Tallied /\ [Next]_vars
          => [\A r \in Requests :
                pc[r] = "idle" /\ pc'[r] = "enter" /\ job'[r].kind = "direct"
                  => RecentRefusals(job'[r].client, 0 .. (RefusalSlots - 1) * SlotTicks)
                       < HardAfter]_vars
    BY LoopStep
  <1> QED BY <1>1, TalliedAlways, PTL DEF Spec, LoopsAreEscalated

=============================================================================
