------------------------------ MODULE Counters ------------------------------
(***************************************************************************)
(* The counters behind /metrics, /metrics/calls, the fair-use caps and the *)
(* daily budget: CounterStore and its two implementations (src/stores.py)  *)
(* and Telemetry.record, which writes the log line first and the counters  *)
(* after it (src/telemetry.py).                                            *)
(*                                                                         *)
(* With a shared store every instance sends one pipeline per tool call: it *)
(* is executed as a whole or not at all, its answer may be lost, and it is *)
(* not sent again. Without one each instance counts in its own memory, and *)
(* rebuilds that from its log file, if it has one, when it starts. The     *)
(* refusal and hard-block counters are in FairUse.                         *)
(***************************************************************************)
EXTENDS Integers, FiniteSets, FiniteSetsExt

CONSTANTS
  Deployments,  \* pairs: Redis is configured, the log file is writable
  Instances,
  Shared,       \* the Redis behind all of them
  Tasks,        \* calls whose counters are being written at the same time
  Routes,       \* members of the route histogram
  None,
  Calls,        \* what one record adds: a tool call, and its backend calls
  HoursPerDay,
  Retention,    \* RETENTION_HOURS, BUCKET_TTL_SECONDS: 35 of the windows read
  DayTtl,       \* FAIR_USE_DAY_TTL_SECONDS, in hours
  RouteCap,     \* ROUTE_KEYS_PER_DAY
  StartHour, MaxHour, \* the hours modelled, counted from a midnight
  MaxEvents     \* bound on hours, calls, faults and restarts together

ASSUME CountersAssumption ==
  /\ Deployments \subseteq BOOLEAN \X BOOLEAN
  /\ {HoursPerDay, Retention, DayTtl, RouteCap} \subseteq Nat \ {0}
  /\ {StartHour, MaxHour, MaxEvents} \subseteq Nat /\ StartHour <= MaxHour
  /\ HoursPerDay <= Retention /\ HoursPerDay < DayTtl
  /\ Calls \subseteq [t : {1}, b : Nat]
  /\ Shared \notin Instances /\ None \notin Instances \cup Routes
  /\ IsFiniteSet(Instances) /\ IsFiniteSet(Tasks) /\ IsFiniteSet(Routes)

Hours == StartHour..MaxHour
DayOf(h) == h \div HoursPerDay
Days == {DayOf(h) : h \in Hours}

VARIABLES
  durable,   \* build_counter_store found Redis credentials
  sink,      \* the log file is writable
  now,
  store,     \* per store, what it counts
  lines,     \* per instance, the MCP_CALL lines of every hour, added up
  seen, len, \* RedisCounterStore._route_seen, _route_len
  degraded,
  task,      \* per task, the pipeline under way
  missed,    \* history: lines whose pipeline was never executed
  faults, restarts

vars == <<durable, sink, now, store, lines, seen, len, degraded, task, missed,
          faults, restarts>>

(***************************************************************************)
(* One store. A count is t tool calls and b backend calls; the totals by   *)
(* tier, the hourly groups and the daily hash by tool are written with the *)
(* fields of hours and days, under more keys.                              *)
(***************************************************************************)
Count == [t : Nat, b : Nat]
Zero == [t |-> 0, b |-> 0]
Add(c, e) == [t |-> c.t + e.t, b |-> c.b + e.b]
Sum(f, S) == [t |-> SumFunctionOnSet([x \in S |-> f[x].t], S),
              b |-> SumFunctionOnSet([x \in S |-> f[x].b], S)]
HoursOf(d) == {h \in Hours : DayOf(h) = d}
NoHours == [h \in Hours |-> Zero]

Store == [totals : Count, hours : [Hours -> Count], days : [Days -> Count],
          client : [Days -> Nat], routes : [Days -> SUBSET Routes]]

EmptyStore ==
  [totals |-> Zero, hours |-> NoHours, days |-> [d \in Days |-> Zero],
   client |-> [d \in Days |-> 0], routes |-> [d \in Days |-> {}]]

\* What one call adds. r.route is None when the route is not to be counted.
Bumped(s, r) ==
  LET d == DayOf(r.hour) IN
  [totals |-> Add(s.totals, r.n),
   hours  |-> [s.hours EXCEPT ![r.hour] = Add(@, r.n)],
   days   |-> [s.days EXCEPT ![d] = Add(@, r.n)],
   client |-> [s.client EXCEPT ![d] = @ + r.n.b],
   routes |-> [s.routes EXCEPT ![d] = @ \cup ({r.route} \ {None})]]

\* A store built from log lines: they name neither the fair-use key, as far
\* as seed is concerned, nor the route.
Replayed(f) ==
  [EmptyStore EXCEPT !.totals = Sum(f, Hours), !.hours = f,
                     !.days = [d \in Days |-> Sum(f, HoursOf(d))]]

StoreOf(i) == IF durable THEN Shared ELSE i

\* The last n hours, and the last n days, up to now.
BucketRange(n) == {h \in Hours : h > now - n}
DayRange(n) == {d \in Days : d > DayOf(now) - n}

CallSeries(s, n) == [h \in BucketRange(n) |-> s.hours[h]]
ToolSeriesByDay(s, n) == Sum(s.days, DayRange(n))
FairUseUsage(s) == s.client[DayOf(now)]
TopRoutes(s) == [d \in DayRange(2) |-> s.routes[d]]

\* How many days the breakdown by tool covers when n hours are asked for.
ToolDays(n) ==
  LET days == (n + HoursPerDay - 1) \div HoursPerDay
  IN IF days < Retention \div HoursPerDay THEN days ELSE Retention \div HoursPerDay

\* What /metrics/calls and /metrics answer on instance i, but for what they
\* copy from the store and the configuration.
Series(i, n) ==
  LET buckets == CallSeries(store[StoreOf(i)], n)
  IN [buckets |-> buckets, totals |-> Sum(buckets, BucketRange(n)),
      byTool |-> ToolSeriesByDay(store[StoreOf(i)], ToolDays(n))]
Snapshot(i) == [totals |-> store[StoreOf(i)].totals, mayBeShort |-> degraded[i]]

-----------------------------------------------------------------------------

NoTask == [inst |-> None]
Task == [inst : Instances, hour : Hours, n : Count, route : Routes \cup {None},
         done : BOOLEAN, hlen : Nat]

Init ==
  /\ \E p \in Deployments : durable = p[1] /\ sink = p[2]
  /\ now = StartHour
  /\ store = [s \in Instances \cup {Shared} |-> EmptyStore]
  /\ lines = [i \in Instances |-> NoHours]
  /\ seen = [i \in Instances |-> [d \in Days |-> {}]]
  /\ len = [i \in Instances |-> [d \in Days |-> 0]]
  /\ degraded = [i \in Instances |-> FALSE]
  /\ task = [k \in Tasks |-> NoTask]
  /\ missed = NoHours
  /\ faults = 0 /\ restarts = 0

Spent == Sum([i \in Instances |-> Sum(lines[i], Hours)], Instances).t
           + (now - StartHour) + faults + restarts >= MaxEvents

Busy(k) == task[k] # NoTask

\* Old days are removed from the two tables, and not read as empty ones.
KeepDaysPopped(f, none) == [d \in {x \in Days : x >= DayOf(now) - 1} |-> f[d]]

\* _forget_old_route_days: today and yesterday are kept.
KeepDays(f, none) == [d \in Days |-> IF d >= DayOf(now) - 1 THEN f[d] ELSE none]

\* The log line, and the pipeline on its way. A route is sent when this
\* instance counts it already, or takes the day to be under the cap.
RecordShared(i, k, n, route) ==
  LET d == DayOf(now)
      known == route \in seen[i][d]
      sent == route # None /\ (known \/ len[i][d] < RouteCap)
      routes == [seen[i] EXCEPT ![d] = IF sent THEN @ \cup {route} ELSE @]
      sizes == [len[i] EXCEPT ![d] = IF sent /\ ~known THEN @ + 1 ELSE @]
  IN
  /\ durable /\ ~Busy(k)
  /\ ~Spent
  /\ lines' = [lines EXCEPT ![i][now] = Add(@, n)]
  /\ task' = [task EXCEPT ![k] = [inst |-> i, hour |-> now, n |-> n, done |-> FALSE,
                                  route |-> IF sent THEN route ELSE None, hlen |-> 0]]
  /\ IF route = None
       THEN UNCHANGED <<seen, len>>
       ELSE /\ seen' = [seen EXCEPT ![i] = KeepDays(routes, {})]
            /\ len' = [len EXCEPT ![i] = KeepDays(sizes, 0)]
  /\ UNCHANGED <<durable, sink, now, store, degraded, missed, faults, restarts>>

\* In memory nothing is awaited between the line and the counters.
RecordMemory(i, n, route) ==
  LET mine == store[i].routes[DayOf(now)]
      taken == route \in mine \/ Cardinality(mine) < RouteCap
  IN
  /\ ~durable
  /\ ~Spent
  /\ lines' = [lines EXCEPT ![i][now] = Add(@, n)]
  /\ store' = [store EXCEPT ![i] =
                 Bumped(@, [hour |-> now, n |-> n, route |-> IF taken THEN route ELSE None])]
  /\ UNCHANGED <<durable, sink, now, seen, len, degraded, task, missed, faults, restarts>>

\* Redis executes the pipeline, HLEN of the route hash included.
Execute(k) ==
  /\ Busy(k) /\ ~task[k].done
  /\ store' = [store EXCEPT ![Shared] = Bumped(@, task[k])]
  /\ task' = [task EXCEPT ![k].done = TRUE,
                ![k].hlen = Cardinality(store'[Shared].routes[DayOf(task[k].hour)])]
  /\ UNCHANGED <<durable, sink, now, lines, seen, len, degraded, missed, faults, restarts>>

\* The size that came back replaces the local one, without max().
AnsweredReplaces(k) ==
  /\ Busy(k) /\ task[k].done
  /\ len' = IF task[k].route # None
              THEN [len EXCEPT ![task[k].inst][DayOf(task[k].hour)] = task[k].hlen] ELSE len
  /\ task' = [task EXCEPT ![k] = NoTask]
  /\ UNCHANGED <<durable, sink, now, store, lines, seen, degraded, missed, faults, restarts>>

\* The instance learns how full the day really is.
Answered(k) ==
  LET r == task[k]
      d == DayOf(r.hour)
  IN
  /\ Busy(k) /\ r.done
  /\ len' = IF r.route # None /\ r.hlen > len[r.inst][d]
              THEN [len EXCEPT ![r.inst][d] = r.hlen] ELSE len
  /\ task' = [task EXCEPT ![k] = NoTask]
  /\ UNCHANGED <<durable, sink, now, store, lines, seen, degraded, missed, faults, restarts>>

\* A timeout or an error, before Redis executed the pipeline or after it:
\* the instance cannot tell, and does not try again.
Unanswered(k) ==
  LET r == task[k] IN
  /\ Busy(k)
  /\ ~Spent /\ faults' = faults + 1
  /\ degraded' = [degraded EXCEPT ![r.inst] = TRUE]
  /\ missed' = IF r.done THEN missed ELSE [missed EXCEPT ![r.hour] = Add(@, r.n)]
  /\ task' = [task EXCEPT ![k] = NoTask]
  /\ UNCHANGED <<durable, sink, now, store, lines, seen, len, restarts>>

\* A read that fails reads zeros, and is held against the store as well.
ReadFails(i) ==
  /\ durable /\ ~Spent
  /\ faults' = faults + 1
  /\ degraded' = [degraded EXCEPT ![i] = TRUE]
  /\ UNCHANGED <<durable, sink, now, store, lines, seen, len, task, missed, restarts>>

\* Reading the window drops what is past retention from a memory store.
ReadWindow(i) ==
  /\ ~durable
  /\ store' = [store EXCEPT
       ![i].hours = [h \in Hours |-> IF h >= now - Retention THEN @[h] ELSE Zero],
       ![i].days = [d \in Days |-> IF d >= DayOf(now - Retention) THEN @[d] ELSE Zero],
       ![i].routes = [d \in Days |-> IF d >= DayOf(now - Retention) THEN @[d] ELSE {}]]
  /\ UNCHANGED <<durable, sink, now, lines, seen, len, degraded, task, missed,
                 faults, restarts>>

\* Redis drops a key once its time to live, counted from the last write, has
\* passed. The last write is at the start of its hour or day at the earliest,
\* and a key that lives longer is one nobody reads, so they all go then.
Expire ==
  LET Old(d, ttl) == d * HoursPerDay + ttl <= now IN
  /\ durable
  /\ store' = [store EXCEPT
       ![Shared].hours = [h \in Hours |-> IF h + Retention <= now THEN Zero ELSE @[h]],
       ![Shared].days = [d \in Days |-> IF Old(d, Retention) THEN Zero ELSE @[d]],
       ![Shared].routes = [d \in Days |-> IF Old(d, Retention) THEN {} ELSE @[d]],
       ![Shared].client = [d \in Days |-> IF Old(d, DayTtl) THEN 0 ELSE @[d]]]
  /\ UNCHANGED <<durable, sink, now, lines, seen, len, degraded, task, missed,
                 faults, restarts>>

\* The log is replayed into whichever store there is.
RestartReplays(i) ==
  /\ ~Spent /\ restarts' = restarts + 1
  /\ \A k \in Tasks : ~Busy(k)
  /\ store' = IF ~sink THEN store
              ELSE LET f == Replayed(lines[i]) IN
                   [store EXCEPT ![StoreOf(i)].hours = [h \in Hours |-> Add(@[h], f.hours[h])],
                                 ![StoreOf(i)].totals = Add(@, f.totals)]
  /\ UNCHANGED <<durable, sink, now, lines, seen, len, degraded, task, missed, faults>>

\* The instance is recycled: a call still in the network is lost here unless
\* it was executed. Telemetry.__init__ replays the file into a memory store,
\* and never into the shared one.
Restart(i) ==
  LET dying == {k \in Tasks : Busy(k) /\ task[k].inst = i}
      lost == {k \in dying : ~task[k].done}
  IN
  /\ ~Spent /\ restarts' = restarts + 1
  /\ store' = IF durable THEN store
              ELSE [store EXCEPT ![i] = IF sink THEN Replayed(lines[i]) ELSE EmptyStore]
  /\ seen' = [seen EXCEPT ![i] = [d \in Days |-> {}]]
  /\ len' = [len EXCEPT ![i] = [d \in Days |-> 0]]
  /\ degraded' = [degraded EXCEPT ![i] = FALSE]
  /\ task' = [k \in Tasks |-> IF k \in dying THEN NoTask ELSE task[k]]
  /\ missed' = [h \in Hours |->
       Add(missed[h], Sum([k \in lost |-> task[k].n], {k \in lost : task[k].hour = h}))]
  /\ UNCHANGED <<durable, sink, now, lines, faults>>

Tick ==
  /\ ~Spent /\ now < MaxHour
  /\ now' = now + 1
  /\ UNCHANGED <<durable, sink, store, lines, seen, len, degraded, task, missed,
                 faults, restarts>>

Next ==
  \/ \E i \in Instances, k \in Tasks, n \in Calls, r \in Routes \cup {None} :
       RecordShared(i, k, n, r)
  \/ \E i \in Instances, n \in Calls, r \in Routes \cup {None} : RecordMemory(i, n, r)
  \/ \E k \in Tasks : Execute(k) \/ Answered(k) \/ Unanswered(k)
  \/ \E i \in Instances : ReadFails(i) \/ ReadWindow(i) \/ Restart(i)
  \/ Expire
  \/ Tick

Spec == Init /\ [][Next]_vars

-----------------------------------------------------------------------------

\* Type invariant.
TypeOK ==
  /\ durable \in BOOLEAN /\ sink \in BOOLEAN
  /\ now \in Hours
  /\ store \in [Instances \cup {Shared} -> Store]
  /\ lines \in [Instances -> [Hours -> Count]]
  /\ seen \in [Instances -> [Days -> SUBSET Routes]]
  /\ len \in [Instances -> [Days -> Nat]]
  /\ degraded \in [Instances -> BOOLEAN]
  /\ task \in [Tasks -> Task \cup {NoTask}]
  /\ missed \in [Hours -> Count]
  /\ faults \in Nat /\ restarts \in Nat

\* The route histogram of today and yesterday, which is what /metrics/calls
\* shows, does not grow far past its cap, whatever the instances know of each
\* other ("instances converge on the real size instead of each counting to 500
\* on its own", stores.py:760): one instance alone stops exactly at the cap;
\* several go beyond it, every life of an instance by at most the calls it had
\* under way when it heard that the day is full, and by one for every answer it
\* never heard.
Writers(d) == {i \in Instances : seen[i][d] # {}}
RoutesBounded ==
  /\ \A i \in Instances : \A R \in {TopRoutes(store[i])} :
       \A d \in DOMAIN R : Cardinality(R[d]) <= RouteCap
  /\ \A R \in {TopRoutes(store[Shared])} : \A d \in DOMAIN R :
       LET lives == Cardinality(Writers(d)) + restarts IN
       /\ lives <= 1 => Cardinality(R[d]) <= RouteCap
       /\ Cardinality(R[d]) <= RouteCap + faults + lives * Cardinality(Tasks)

\* The counters and the log tell the same story ("Summing the backend_calls
\* field across MCP_CALL stdout lines gives the same number for any time
\* range", telemetry.py:645). Hour by hour, a shared store has every line but
\* those under way and those whose write failed, which a live instance admits
\* to in `degraded`; a memory store with a file has every line, after any
\* number of restarts. The days, the totals and what the caps read are the same
\* calls, and nothing is ever counted twice.
Pending(h) ==
  LET K == {k \in Tasks : Busy(k) /\ ~task[k].done /\ task[k].hour = h}
  IN Sum([k \in K |-> task[k].n], K)

Counted == [h \in Hours |-> \* what a shared store should have of every hour
  LET logged == Sum([i \in Instances |-> lines[i][h]], Instances)
      owed == Add(Pending(h), missed[h])
  IN [t |-> logged.t - owed.t, b |-> logged.b - owed.b]]

Agrees(i, f) ==
  /\ \A n \in 1..Retention : \A r \in {Series(i, n)} :
       /\ r.buckets = [h \in BucketRange(n) |-> f[h]]
       /\ r.totals = Sum(f, BucketRange(n))
       /\ r.byTool = Sum(f, UNION {HoursOf(d) : d \in DayRange(ToolDays(n))})
  /\ Snapshot(i).totals = Sum(f, Hours)

CountersMatchLog ==
  /\ durable =>
       /\ \A i \in Instances : Agrees(i, Counted)
       /\ FairUseUsage(store[Shared]) = Sum(Counted, HoursOf(DayOf(now))).b
       /\ missed # NoHours /\ restarts = 0 => \E i \in Instances : Snapshot(i).mayBeShort
  /\ ~durable /\ sink => \A i \in Instances : Agrees(i, lines[i])

=============================================================================
