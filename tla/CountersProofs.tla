--------------------------- MODULE CountersProofs ---------------------------
(* Theorems about Counters, for any instances, calls, routes, retentions    *)
(* and lengths of the day.                                                  *)
EXTENDS Counters, Sums, TLAPS

-----------------------------------------------------------------------------
(* Sums of counts. A sum is taken field by field.                           *)

\* What is left of a count when another one was taken from it.
Net == [t : Int, b : Int]

Tool(f, S) == [x \in S |-> f[x].t]
Back(f, S) == [x \in S |-> f[x].b]

\* Counts are numbers, and two of them add up to one.
LEMMA CountsAdd ==
  /\ Count \subseteq Net /\ Zero \in Count
  /\ \A c, e \in Count : Add(c, e) \in Count
  /\ \A c, e \in Net : Add(c, e) \in Net
  /\ \A c \in Net : Add(c, Zero) = c /\ Add(Zero, c) = c
  <1>1. Count \subseteq Net /\ Zero \in Count
    BY DEF Count, Net, Zero
  <1>2. \A c, e \in Count : Add(c, e) \in Count
    BY DEF Count, Add
  <1>3. \A c, e \in Net : Add(c, e) \in Net
    BY DEF Net, Add
  <1>4. ASSUME NEW c \in Net
        PROVE  Add(c, Zero) = c /\ Add(Zero, c) = c
    BY DEF Net, Add, Zero
  <1> QED BY <1>1, <1>2, <1>3, <1>4

\* The two fields.
LEMMA SumFields ==
  ASSUME NEW f, NEW S, IsFiniteSet(S), \A x \in S : f[x] \in Net
  PROVE  /\ Sum(f, S) = [t |-> SumFunctionOnSet(Tool(f, S), S),
                         b |-> SumFunctionOnSet(Back(f, S), S)]
         /\ \A x \in S : /\ Tool(f, S)[x] = f[x].t /\ Tool(f, S)[x] \in Int
                         /\ Back(f, S)[x] = f[x].b /\ Back(f, S)[x] \in Int
         /\ SumFunctionOnSet(Tool(f, S), S) \in Int
         /\ SumFunctionOnSet(Back(f, S), S) \in Int
  <1>1. Sum(f, S) = [t |-> SumFunctionOnSet(Tool(f, S), S),
                     b |-> SumFunctionOnSet(Back(f, S), S)]
    BY DEF Sum, Tool, Back
  <1>2. \A x \in S : /\ Tool(f, S)[x] = f[x].t /\ Tool(f, S)[x] \in Int
                     /\ Back(f, S)[x] = f[x].b /\ Back(f, S)[x] \in Int
    BY DEF Tool, Back, Net
  <1>3. SumFunctionOnSet(Tool(f, S), S) \in Int
    <2> DEFINE u == Tool(f, S)
    <2>1. \A x \in S : u[x] \in Int
      BY <1>2
    <2> HIDE DEF u
    <2>2. SumFunctionOnSet(u, S) \in Int
      BY <2>1, SumInt
    <2> QED BY <2>2 DEF u
  <1>4. SumFunctionOnSet(Back(f, S), S) \in Int
    <2> DEFINE u == Back(f, S)
    <2>1. \A x \in S : u[x] \in Int
      BY <1>2
    <2> HIDE DEF u
    <2>2. SumFunctionOnSet(u, S) \in Int
      BY <2>1, SumInt
    <2> QED BY <2>2 DEF u
  <1> QED BY <1>1, <1>2, <1>3, <1>4

\* A sum of counts is one.
LEMMA SumCount ==
  ASSUME NEW f, NEW S, IsFiniteSet(S), \A x \in S : f[x] \in Count
  PROVE  Sum(f, S) \in Count
  <1> DEFINE u == Tool(f, S)
             v == Back(f, S)
  <1>1. \A x \in S : u[x] \in Nat /\ v[x] \in Nat
    BY DEF Count, Tool, Back
  <1>2. Sum(f, S) = [t |-> SumFunctionOnSet(u, S), b |-> SumFunctionOnSet(v, S)]
    BY DEF Sum, Tool, Back
  <1> HIDE DEF u, v
  <1>3. SumFunctionOnSet(u, S) \in Nat /\ SumFunctionOnSet(v, S) \in Nat
    BY <1>1, SumNat
  <1> QED BY <1>2, <1>3 DEF Count

LEMMA SumNet ==
  ASSUME NEW f, NEW S, IsFiniteSet(S), \A x \in S : f[x] \in Net
  PROVE  Sum(f, S) \in Net
  <1> DEFINE u == SumFunctionOnSet(Tool(f, S), S)
             v == SumFunctionOnSet(Back(f, S), S)
  <1>1. Sum(f, S) = [t |-> u, b |-> v] /\ u \in Int /\ v \in Int
    BY SumFields
  <1> HIDE DEF u, v
  <1> QED BY <1>1 DEF Net

\* The same counts have the same sum.
LEMMA SumAgrees ==
  ASSUME NEW f, NEW g, NEW S, \A x \in S : f[x] = g[x]
  PROVE  Sum(f, S) = Sum(g, S)
  <1>1. /\ [x \in S |-> f[x].t] = [x \in S |-> g[x].t]
        /\ [x \in S |-> f[x].b] = [x \in S |-> g[x].b]
    OBVIOUS
  <1> QED BY <1>1 DEF Sum

\* Nothing adds up to nothing.
LEMMA SumNothing ==
  ASSUME NEW f, NEW S, IsFiniteSet(S), \A x \in S : f[x] = Zero
  PROVE  Sum(f, S) = Zero
  <1> DEFINE u == Tool(f, S)
             v == Back(f, S)
  <1>1. \A x \in S : u[x] = 0 /\ v[x] = 0
    BY DEF Zero, Tool, Back
  <1>2. Sum(f, S) = [t |-> SumFunctionOnSet(u, S), b |-> SumFunctionOnSet(v, S)]
    BY DEF Sum, Tool, Back
  <1> HIDE DEF u, v
  <1>3. SumFunctionOnSet(u, S) = 0 /\ SumFunctionOnSet(v, S) = 0
    BY <1>1, SumZero
  <1> QED BY <1>2, <1>3 DEF Zero

\* Two counts for every element.
LEMMA SumBoth ==
  ASSUME NEW f, NEW g, NEW k, NEW S, IsFiniteSet(S),
         \A x \in S : f[x] \in Net /\ g[x] \in Net /\ k[x] = Add(f[x], g[x])
  PROVE  Sum(k, S) = Add(Sum(f, S), Sum(g, S))
  <1> DEFINE ft == Tool(f, S)
             fb == Back(f, S)
             gt == Tool(g, S)
             gb == Back(g, S)
             kt == Tool(k, S)
             kb == Back(k, S)
  <1>1. \A x \in S : k[x] \in Net
    BY CountsAdd
  <1>2. /\ Sum(f, S) = [t |-> SumFunctionOnSet(ft, S), b |-> SumFunctionOnSet(fb, S)]
        /\ Sum(g, S) = [t |-> SumFunctionOnSet(gt, S), b |-> SumFunctionOnSet(gb, S)]
        /\ Sum(k, S) = [t |-> SumFunctionOnSet(kt, S), b |-> SumFunctionOnSet(kb, S)]
    BY <1>1, SumFields
  <1>3. ASSUME NEW x \in S
        PROVE  /\ ft[x] \in Int /\ gt[x] \in Int /\ kt[x] = ft[x] + gt[x]
               /\ fb[x] \in Int /\ gb[x] \in Int /\ kb[x] = fb[x] + gb[x]
    <2>1. /\ ft[x] = f[x].t /\ gt[x] = g[x].t /\ kt[x] = k[x].t
          /\ fb[x] = f[x].b /\ gb[x] = g[x].b /\ kb[x] = k[x].b
      BY DEF Tool, Back
    <2>2. /\ f[x].t \in Int /\ g[x].t \in Int /\ f[x].b \in Int /\ g[x].b \in Int
      BY DEF Net
    <2>3. k[x].t = f[x].t + g[x].t /\ k[x].b = f[x].b + g[x].b
      <3>1. k[x] = Add(f[x], g[x])
        OBVIOUS
      <3>2. k[x] = [t |-> f[x].t + g[x].t, b |-> f[x].b + g[x].b]
        BY <3>1, Zenon DEF Add
      <3> HIDE DEF ft, fb, gt, gb, kt, kb
      <3> QED BY <3>2
    <2> QED BY <2>1, <2>2, <2>3
  <1> HIDE DEF ft, fb, gt, gb, kt, kb
  <1>4. SumFunctionOnSet(kt, S) = SumFunctionOnSet(ft, S) + SumFunctionOnSet(gt, S)
    BY <1>3, SumPlus
  <1>5. SumFunctionOnSet(kb, S) = SumFunctionOnSet(fb, S) + SumFunctionOnSet(gb, S)
    BY <1>3, SumPlus
  <1> QED BY <1>2, <1>4, <1>5 DEF Add

\* One of them counts more.
LEMMA SumMore ==
  ASSUME NEW f, NEW g, NEW S, IsFiniteSet(S), NEW x \in S, NEW n \in Net,
         \A y \in S : f[y] \in Net, g[x] = Add(f[x], n),
         \A y \in S \ {x} : g[y] = f[y]
  PROVE  Sum(g, S) = Add(Sum(f, S), n)
  <1> DEFINE ft == Tool(f, S)
             fb == Back(f, S)
             gt == Tool(g, S)
             gb == Back(g, S)
  <1>1. \A y \in S : g[y] \in Net
    BY CountsAdd
  <1>2. /\ Sum(f, S) = [t |-> SumFunctionOnSet(ft, S), b |-> SumFunctionOnSet(fb, S)]
        /\ Sum(g, S) = [t |-> SumFunctionOnSet(gt, S), b |-> SumFunctionOnSet(gb, S)]
    BY <1>1, SumFields
  <1>3. \A y \in S : ft[y] \in Int /\ gt[y] \in Int /\ fb[y] \in Int /\ gb[y] \in Int
    BY <1>1 DEF Tool, Back, Net
  <1>4. \A y \in S \ {x} : gt[y] = ft[y] /\ gb[y] = fb[y]
    BY DEF Tool, Back
  <1>5. gt[x] = ft[x] + n.t /\ gb[x] = fb[x] + n.b /\ n.t \in Int /\ n.b \in Int
    BY DEF Tool, Back, Add, Net
  <1>6. /\ SumFunctionOnSet(ft, S) \in Int /\ SumFunctionOnSet(fb, S) \in Int
    BY SumFields
  <1> HIDE DEF ft, fb, gt, gb
  <1>7. SumFunctionOnSet(gt, S) = SumFunctionOnSet(ft, S) + (gt[x] - ft[x])
    BY <1>3, <1>4, SumChange
  <1>8. SumFunctionOnSet(gb, S) = SumFunctionOnSet(fb, S) + (gb[x] - fb[x])
    BY <1>3, <1>4, SumChange
  <1>9. SumFunctionOnSet(gt, S) = SumFunctionOnSet(ft, S) + n.t
    BY <1>3, <1>5, <1>6, <1>7
  <1>10. SumFunctionOnSet(gb, S) = SumFunctionOnSet(fb, S) + n.b
    BY <1>3, <1>5, <1>6, <1>8
  <1> QED BY <1>2, <1>9, <1>10 DEF Add

\* A part that is everything there is to add.
LEMMA SumOnly ==
  ASSUME NEW f, NEW g, NEW S, IsFiniteSet(S), NEW T \in SUBSET S,
         \A x \in T : f[x] \in Net /\ g[x] = f[x], \A x \in S \ T : g[x] = Zero
  PROVE  Sum(g, S) = Sum(f, T)
  <1> DEFINE ft == Tool(f, T)
             fb == Back(f, T)
             gt == Tool(g, S)
             gb == Back(g, S)
  <1>1. /\ Sum(f, T) = [t |-> SumFunctionOnSet(ft, T), b |-> SumFunctionOnSet(fb, T)]
        /\ Sum(g, S) = [t |-> SumFunctionOnSet(gt, S), b |-> SumFunctionOnSet(gb, S)]
    BY DEF Sum, Tool, Back
  <1>2. \A x \in T : ft[x] \in Int /\ gt[x] = ft[x] /\ fb[x] \in Int /\ gb[x] = fb[x]
    BY DEF Tool, Back, Net
  <1>3. \A x \in S \ T : gt[x] = 0 /\ gb[x] = 0
    BY DEF Tool, Back, Zero
  <1> HIDE DEF ft, fb, gt, gb
  <1>4. SumFunctionOnSet(gt, S) = SumFunctionOnSet(ft, T)
    BY <1>2, <1>3, SumWhere
  <1>5. SumFunctionOnSet(gb, S) = SumFunctionOnSet(fb, T)
    BY <1>2, <1>3, SumWhere
  <1> QED BY <1>1, <1>4, <1>5

\* Group by group.
LEMMA SumGrouped ==
  ASSUME NEW f, NEW S, IsFiniteSet(S), \A x \in S : f[x] \in Net,
         NEW D, IsFiniteSet(D), NEW P, \A d \in D : P[d] \subseteq S,
         \A c, d \in D : c # d => P[c] \cap P[d] = {},
         NEW g, \A d \in D : g[d] = Sum(f, P[d])
  PROVE  Sum(f, UNION {P[d] : d \in D}) = Sum(g, D)
  <1> DEFINE U == UNION {P[d] : d \in D}
             ft == Tool(f, S)
             fb == Back(f, S)
             gt == Tool(g, D)
             gb == Back(g, D)
             ut == Tool(f, U)
             ub == Back(f, U)
  <1>1. /\ Sum(g, D) = [t |-> SumFunctionOnSet(gt, D), b |-> SumFunctionOnSet(gb, D)]
        /\ Sum(f, U) = [t |-> SumFunctionOnSet(ut, U), b |-> SumFunctionOnSet(ub, U)]
    BY DEF Sum, Tool, Back
  <1>2. U \subseteq S
    OBVIOUS
  <1>3. IsFiniteSet(U)
    <2> HIDE DEF U
    <2> QED BY <1>2, FS_Subset
  <1>4. \A x \in S : ft[x] \in Int /\ fb[x] \in Int
    BY DEF Tool, Back, Net
  <1>5. \A x \in U : ut[x] = ft[x] /\ ub[x] = fb[x]
    BY <1>2 DEF Tool, Back
  <1>6. ASSUME NEW d \in D
        PROVE  gt[d] = SumFunctionOnSet(ft, P[d]) /\ gb[d] = SumFunctionOnSet(fb, P[d])
    <2> DEFINE T == P[d]
               pt == Tool(f, T)
               pb == Back(f, T)
    <2>1. T \subseteq S
      OBVIOUS
    <2>2. gt[d] = SumFunctionOnSet(pt, T) /\ gb[d] = SumFunctionOnSet(pb, T)
      <3>1. g[d] = [t |-> SumFunctionOnSet(pt, T), b |-> SumFunctionOnSet(pb, T)]
        BY DEF Sum, Tool, Back
      <3>2. gt[d] = g[d].t /\ gb[d] = g[d].b
        BY DEF Tool, Back
      <3> HIDE DEF pt, pb, gt, gb, T
      <3> QED BY <3>1, <3>2
    <2>3. \A x \in T : pt[x] = ft[x] /\ pb[x] = fb[x]
      BY <2>1 DEF Tool, Back
    <2>4. IsFiniteSet(T)
      <3> HIDE DEF T
      <3> QED BY <2>1, FS_Subset
    <2> HIDE DEF pt, pb, ft, fb, gt, gb, T
    <2>5. /\ SumFunctionOnSet(pt, T) = SumFunctionOnSet(ft, T)
          /\ SumFunctionOnSet(pb, T) = SumFunctionOnSet(fb, T)
      BY <2>3, <2>4, SumSame
    <2> QED BY <2>2, <2>5 DEF T
  <1>7. SumFunctionOnSet(ft, UNION {P[d] : d \in D}) = SumFunctionOnSet(gt, D)
    <2> HIDE DEF ft, gt
    <2> QED BY <1>4, <1>6, SumGroups
  <1>8. SumFunctionOnSet(fb, UNION {P[d] : d \in D}) = SumFunctionOnSet(gb, D)
    <2> HIDE DEF fb, gb
    <2> QED BY <1>4, <1>6, SumGroups
  <1>9. /\ SumFunctionOnSet(ut, U) = SumFunctionOnSet(ft, U)
        /\ SumFunctionOnSet(ub, U) = SumFunctionOnSet(fb, U)
    <2> HIDE DEF U, ft, fb, ut, ub
    <2> QED BY <1>3, <1>5, SumSame
  <1> QED BY <1>1, <1>7, <1>8, <1>9

-----------------------------------------------------------------------------
(* Hours and days.                                                         *)

\* Every hour modelled is in one day.
LEMMA HoursAndDays ==
  /\ Hours \subseteq Nat /\ IsFiniteSet(Hours) /\ IsFiniteSet(Days) /\ Days \subseteq Nat
  /\ \A h \in Hours : DayOf(h) \in Days /\ h \in HoursOf(DayOf(h))
  /\ \A d \in Days : HoursOf(d) \subseteq Hours /\ IsFiniteSet(HoursOf(d))
  /\ \A c, d \in Days : c # d => HoursOf(c) \cap HoursOf(d) = {}
  /\ StartHour \in Hours
  <1>1. Hours \subseteq Nat /\ StartHour \in Hours
    BY CountersAssumption DEF Hours
  <1>2. IsFiniteSet(Hours)
    <2>1. StartHour \in Int /\ MaxHour \in Int
      BY CountersAssumption
    <2> QED BY <2>1, FS_Interval DEF Hours
  <1>3. IsFiniteSet(Days)
    <2>1. [h \in Hours |-> DayOf(h)] \in Surjection(Hours, Days)
      BY DEF Surjection, Days
    <2> QED BY <1>2, <2>1, FS_Surjection
  <1>4. \A h \in Hours : DayOf(h) \in Nat
    BY <1>1, Division, CountersAssumption DEF DayOf
  <1>5. Days \subseteq Nat /\ \A h \in Hours : DayOf(h) \in Days /\ h \in HoursOf(DayOf(h))
    BY <1>4 DEF Days, HoursOf
  <1>6. \A d \in Days : HoursOf(d) \subseteq Hours
    BY DEF HoursOf
  <1>7. \A d \in Days : IsFiniteSet(HoursOf(d))
    BY <1>2, <1>6, FS_Subset
  <1>8. \A c, d \in Days : c # d => HoursOf(c) \cap HoursOf(d) = {}
    BY DEF HoursOf
  <1> QED BY <1>1, <1>2, <1>3, <1>5, <1>6, <1>7, <1>8

-----------------------------------------------------------------------------
(* Types.                                                                  *)

\* An empty store is a store, and so is what a log adds up to.
LEMMA StoresType ==
  /\ NoHours \in [Hours -> Count] /\ EmptyStore \in Store
  /\ \A f \in [Hours -> Count] : Replayed(f) \in Store
  <1>1. NoHours \in [Hours -> Count]
    BY CountsAdd DEF NoHours
  <1>2. EmptyStore \in Store
    BY <1>1, CountsAdd DEF EmptyStore, Store
  <1>3. ASSUME NEW f \in [Hours -> Count]
        PROVE  Replayed(f) \in Store
    <2>1. Sum(f, Hours) \in Count
      BY HoursAndDays, SumCount
    <2>2. \A d \in Days : Sum(f, HoursOf(d)) \in Count
      <3>1. ASSUME NEW d \in Days PROVE Sum(f, HoursOf(d)) \in Count
        BY HoursAndDays, SumCount
      <3> QED BY <3>1
    <2> DEFINE a == Sum(f, Hours)
               D == [d \in Days |-> Sum(f, HoursOf(d))]
    <2>3. a \in Count /\ D \in [Days -> Count]
      BY <2>1, <2>2
    <2>4. Replayed(f) = [EmptyStore EXCEPT !.totals = a, !.hours = f, !.days = D]
      BY DEF Replayed
    <2> HIDE DEF a, D
    <2> QED BY <2>3, <2>4, <1>2 DEF Store
  <1> QED BY <1>1, <1>2, <1>3

\* A pipeline that is executed leaves a store.
LEMMA BumpedType ==
  ASSUME NEW s \in Store, NEW r, r.hour \in Hours, r.n \in Count,
         r.route \in Routes \cup {None}
  PROVE  Bumped(s, r) \in Store
  <1> DEFINE d == DayOf(r.hour)
  <1>1. d \in Days
    BY HoursAndDays
  <1>2. Add(s.totals, r.n) \in Count
    BY CountsAdd DEF Store
  <1>3. [s.hours EXCEPT ![r.hour] = Add(@, r.n)] \in [Hours -> Count]
    BY CountsAdd DEF Store
  <1>4. [s.days EXCEPT ![d] = Add(@, r.n)] \in [Days -> Count]
    BY CountsAdd, <1>1 DEF Store
  <1>5. [s.client EXCEPT ![d] = @ + r.n.b] \in [Days -> Nat]
    BY <1>1 DEF Store, Count
  <1>6. [s.routes EXCEPT ![d] = @ \cup ({r.route} \ {None})] \in [Days -> SUBSET Routes]
    BY <1>1 DEF Store
  <1> QED BY <1>2, <1>3, <1>4, <1>5, <1>6 DEF Bumped, Store

\* What a memory store keeps when a window is read.
Windowed(s) ==
  [s EXCEPT !.hours = [h \in Hours |-> IF h >= now - Retention THEN @[h] ELSE Zero],
            !.days = [d \in Days |-> IF d >= DayOf(now - Retention) THEN @[d] ELSE Zero],
            !.routes = [d \in Days |-> IF d >= DayOf(now - Retention) THEN @[d] ELSE {}]]

\* What a shared one keeps as time goes by.
Expired(d, ttl) == d * HoursPerDay + ttl <= now
Lasting(s) ==
  [s EXCEPT !.hours = [h \in Hours |-> IF h + Retention <= now THEN Zero ELSE @[h]],
            !.days = [d \in Days |-> IF Expired(d, Retention) THEN Zero ELSE @[d]],
            !.routes = [d \in Days |-> IF Expired(d, Retention) THEN {} ELSE @[d]],
            !.client = [d \in Days |-> IF Expired(d, DayTtl) THEN 0 ELSE @[d]]]

LEMMA WindowedType ==
  ASSUME NEW s \in Store
  PROVE  Windowed(s) \in Store
  <1> DEFINE H == [h \in Hours |-> IF h >= now - Retention THEN s.hours[h] ELSE Zero]
             D == [d \in Days |-> IF d >= DayOf(now - Retention) THEN s.days[d] ELSE Zero]
             R == [d \in Days |-> IF d >= DayOf(now - Retention) THEN s.routes[d] ELSE {}]
  <1>1. H \in [Hours -> Count] /\ D \in [Days -> Count] /\ R \in [Days -> SUBSET Routes]
    BY CountsAdd DEF Store
  <1>2. Windowed(s) = [s EXCEPT !.hours = H, !.days = D, !.routes = R]
    BY DEF Windowed, Store
  <1> HIDE DEF H, D, R
  <1> QED BY <1>1, <1>2 DEF Store

LEMMA LastingType ==
  ASSUME NEW s \in Store
  PROVE  Lasting(s) \in Store
  <1> DEFINE H == [h \in Hours |-> IF h + Retention <= now THEN Zero ELSE s.hours[h]]
             D == [d \in Days |-> IF Expired(d, Retention) THEN Zero ELSE s.days[d]]
             R == [d \in Days |-> IF Expired(d, Retention) THEN {} ELSE s.routes[d]]
             C == [d \in Days |-> IF Expired(d, DayTtl) THEN 0 ELSE s.client[d]]
  <1>1. /\ H \in [Hours -> Count] /\ D \in [Days -> Count]
        /\ R \in [Days -> SUBSET Routes] /\ C \in [Days -> Nat]
    BY CountsAdd DEF Store
  <1>2. Lasting(s) = [s EXCEPT !.hours = H, !.days = D, !.routes = R, !.client = C]
    BY DEF Lasting, Store
  <1> HIDE DEF H, D, R, C
  <1> QED BY <1>1, <1>2 DEF Store

\* The two actions that forget, store by store.
LEMMA Forgetting ==
  ASSUME TypeOK
  PROVE  /\ \A i \in Instances : ReadWindow(i)
              => store' = [store EXCEPT ![i] = Windowed(store[i])]
         /\ Expire => store' = [store EXCEPT ![Shared] = Lasting(store[Shared])]
  <1>1. \A s \in Instances \cup {Shared} : store[s] \in Store
    BY DEF TypeOK
  <1>2. ASSUME NEW i \in Instances, ReadWindow(i)
        PROVE  store' = [store EXCEPT ![i] = Windowed(store[i])]
    <2>1. store[i] \in Store
      BY <1>1
    <2> QED BY <1>2, <2>1 DEF ReadWindow, Windowed, Store, TypeOK
  <1>3. ASSUME Expire
        PROVE  store' = [store EXCEPT ![Shared] = Lasting(store[Shared])]
    <2>1. store[Shared] \in Store
      BY <1>1
    <2> QED BY <1>3, <2>1 DEF Expire, Lasting, Expired, Store, TypeOK
  <1> QED BY <1>2, <1>3

\* A task under way is one of an instance.
LEMMA BusyTask ==
  ASSUME TypeOK
  PROVE  /\ \A k \in Tasks : Busy(k) <=> task[k] \in Task
         /\ NoTask \notin Task
  <1>1. NoTask.inst = None /\ \A r \in Task : r.inst \in Instances
    BY DEF NoTask, Task
  <1>2. NoTask \notin Task
    BY <1>1, CountersAssumption
  <1>3. \A k \in Tasks : task[k] \in Task \cup {NoTask}
    BY DEF TypeOK
  <1> QED BY <1>2, <1>3 DEF Busy

\* Tables of days that are forgotten stay tables.
LEMMA KeptType ==
  ASSUME NEW T, NEW f \in [Days -> T], NEW none \in T
  PROVE  KeepDays(f, none) \in [Days -> T]
  BY DEF KeepDays

\* Sets of routes have a size.
LEMMA RoutesSize ==
  ASSUME NEW R \in SUBSET Routes
  PROVE  IsFiniteSet(R) /\ Cardinality(R) \in Nat
  <1>1. IsFiniteSet(R)
    BY CountersAssumption, FS_Subset
  <1> QED BY <1>1, FS_CardinalityType

\* A record that is sent keeps the types.
LEMMA RecordSharedType ==
  ASSUME TypeOK, NEW i \in Instances, NEW k \in Tasks, NEW n \in Calls,
         NEW route \in Routes \cup {None}, RecordShared(i, k, n, route)
  PROVE  TypeOK'
  <1> DEFINE d == DayOf(now)
             known == route \in seen[i][d]
             sent == route # None /\ (known \/ len[i][d] < RouteCap)
             S == [seen[i] EXCEPT ![d] = IF sent THEN @ \cup {route} ELSE @]
             L == [len[i] EXCEPT ![d] = IF sent /\ ~known THEN @ + 1 ELSE @]
             T == [inst |-> i, hour |-> now, n |-> n, done |-> FALSE,
                   route |-> IF sent THEN route ELSE None, hlen |-> 0]
  <1>1. n \in Count /\ now \in Hours /\ d \in Days
    BY CountersAssumption, HoursAndDays DEF TypeOK, Count
  <1>2. lines' \in [Instances -> [Hours -> Count]]
    <2>1. lines' = [lines EXCEPT ![i][now] = Add(@, n)]
      BY DEF RecordShared
    <2>2. Add(lines[i][now], n) \in Count
      BY <1>1, CountsAdd DEF TypeOK
    <2> QED BY <2>1, <2>2, <1>1 DEF TypeOK
  <1>3. T \in Task
    <2>1. route = None \/ route \in Routes
      OBVIOUS
    <2> QED BY <1>1, <2>1 DEF Task
  <1>4. task' \in [Tasks -> Task \cup {NoTask}]
    <2>1. task' = [task EXCEPT ![k] = T]
      BY DEF RecordShared
    <2> HIDE DEF T
    <2> QED BY <2>1, <1>3 DEF TypeOK
  <1>5. S \in [Days -> SUBSET Routes] /\ L \in [Days -> Nat]
    <2>1. seen[i] \in [Days -> SUBSET Routes] /\ len[i] \in [Days -> Nat]
      BY DEF TypeOK
    <2>2. sent => route \in Routes
      OBVIOUS
    <2> QED BY <1>1, <2>1, <2>2
  <1>6. KeepDays(S, {}) \in [Days -> SUBSET Routes] /\ KeepDays(L, 0) \in [Days -> Nat]
    <2> HIDE DEF S, L
    <2> QED BY <1>5, KeptType
  <1>7. /\ seen' \in [Instances -> [Days -> SUBSET Routes]]
        /\ len' \in [Instances -> [Days -> Nat]]
    <2>1. \/ UNCHANGED <<seen, len>>
          \/ /\ seen' = [seen EXCEPT ![i] = KeepDays(S, {})]
             /\ len' = [len EXCEPT ![i] = KeepDays(L, 0)]
      BY DEF RecordShared
    <2> HIDE DEF S, L
    <2> QED BY <2>1, <1>6 DEF TypeOK
  <1> QED BY <1>2, <1>4, <1>7 DEF TypeOK, RecordShared

LEMMA RecordMemoryType ==
  ASSUME TypeOK, NEW i \in Instances, NEW n \in Calls,
         NEW route \in Routes \cup {None}, RecordMemory(i, n, route)
  PROVE  TypeOK'
  <1> DEFINE mine == store[i].routes[DayOf(now)]
             taken == route \in mine \/ Cardinality(mine) < RouteCap
             R == [hour |-> now, n |-> n, route |-> IF taken THEN route ELSE None]
  <1>1. n \in Count /\ now \in Hours
    BY CountersAssumption DEF TypeOK, Count
  <1>2. lines' \in [Instances -> [Hours -> Count]]
    <2>1. lines' = [lines EXCEPT ![i][now] = Add(@, n)]
      BY DEF RecordMemory
    <2>2. Add(lines[i][now], n) \in Count
      BY <1>1, CountsAdd DEF TypeOK
    <2> QED BY <2>1, <2>2, <1>1 DEF TypeOK
  <1>3. R.hour \in Hours /\ R.n \in Count /\ R.route \in Routes \cup {None}
    BY <1>1
  <1>4. store' = [store EXCEPT ![i] = Bumped(store[i], R)]
    BY DEF RecordMemory, TypeOK
  <1>5. store' \in [Instances \cup {Shared} -> Store]
    <2> HIDE DEF R
    <2>1. store[i] \in Store
      BY DEF TypeOK
    <2>2. Bumped(store[i], R) \in Store
      BY <2>1, <1>3, BumpedType
    <2> QED BY <1>4, <2>2 DEF TypeOK
  <1> QED BY <1>2, <1>5 DEF TypeOK, RecordMemory

\* What the pipeline is executed on, and its answer.
LEMMA ExecuteType ==
  ASSUME TypeOK, NEW k \in Tasks, Execute(k)
  PROVE  /\ task[k] \in Task /\ ~task[k].done
         /\ store' = [store EXCEPT ![Shared] = Bumped(store[Shared], task[k])]
         /\ task' = [task EXCEPT ![k] = [task[k] EXCEPT !.done = TRUE,
              !.hlen = Cardinality(store'[Shared].routes[DayOf(task[k].hour)])]]
         /\ TypeOK'
  <1> DEFINE r == task[k]
             d == DayOf(r.hour)
             N == Cardinality(store'[Shared].routes[d])
  <1>1. r \in Task /\ ~r.done
    BY BusyTask DEF Execute
  <1>2. store' = [store EXCEPT ![Shared] = Bumped(store[Shared], r)]
    BY DEF Execute, TypeOK
  <1>3. store' \in [Instances \cup {Shared} -> Store]
    <2> HIDE DEF r
    <2>1. store[Shared] \in Store
      BY DEF TypeOK
    <2>2. Bumped(store[Shared], r) \in Store
      BY <2>1, <1>1, BumpedType DEF Task
    <2> QED BY <1>2, <2>2 DEF TypeOK
  <1>4. d \in Days
    BY <1>1, HoursAndDays DEF Task
  <1>5. N \in Nat
    <2>1. store'[Shared].routes[d] \in SUBSET Routes
      BY <1>3, <1>4 DEF Store
    <2> QED BY <2>1, RoutesSize
  <1>6. task' = [task EXCEPT ![k] = [r EXCEPT !.done = TRUE, !.hlen = N]]
    BY DEF Execute, TypeOK
  <1>7. [r EXCEPT !.done = TRUE, !.hlen = N] \in Task
    <2> HIDE DEF N, d, r
    <2> QED BY <1>1, <1>5 DEF Task
  <1>8. task' \in [Tasks -> Task \cup {NoTask}]
    <2> DEFINE E == [r EXCEPT !.done = TRUE, !.hlen = N]
    <2>1. task' = [task EXCEPT ![k] = E] /\ E \in Task
      BY <1>6, <1>7
    <2> HIDE DEF E
    <2> QED BY <2>1 DEF TypeOK
  <1> QED BY <1>1, <1>2, <1>3, <1>6, <1>8 DEF TypeOK, Execute

LEMMA AnsweredType ==
  ASSUME TypeOK, NEW k \in Tasks, Answered(k)
  PROVE  TypeOK'
  <1> DEFINE r == task[k]
             d == DayOf(r.hour)
  <1>1. r \in Task
    BY BusyTask DEF Answered
  <1>2. r.inst \in Instances /\ d \in Days /\ r.hlen \in Nat
    BY <1>1, HoursAndDays DEF Task
  <1>3. \/ UNCHANGED len
        \/ len' = [len EXCEPT ![r.inst][d] = r.hlen]
    BY DEF Answered
  <1>4. len' \in [Instances -> [Days -> Nat]]
    <2> DEFINE i == r.inst
               n == r.hlen
    <2>1. i \in Instances /\ d \in Days /\ n \in Nat
      BY <1>2
    <2>2. UNCHANGED len \/ len' = [len EXCEPT ![i][d] = n]
      BY <1>3
    <2> DEFINE M == [len[i] EXCEPT ![d] = n]
    <2>3. M \in [Days -> Nat]
      BY <2>1 DEF TypeOK
    <2>4. UNCHANGED len \/ len' = [len EXCEPT ![i] = M]
      BY <2>2
    <2> HIDE DEF r, d, i, n, M
    <2> QED BY <2>1, <2>3, <2>4 DEF TypeOK
  <1>5. task' = [task EXCEPT ![k] = NoTask]
    BY DEF Answered
  <1>6. task' \in [Tasks -> Task \cup {NoTask}]
    BY <1>5 DEF TypeOK
  <1> QED BY <1>4, <1>6 DEF TypeOK, Answered

LEMMA UnansweredType ==
  ASSUME TypeOK, NEW k \in Tasks, Unanswered(k)
  PROVE  TypeOK'
  <1> DEFINE r == task[k]
  <1>1. r \in Task
    BY BusyTask DEF Unanswered
  <1>2. r.inst \in Instances /\ r.hour \in Hours /\ r.n \in Count
    BY <1>1 DEF Task
  <1>3. \/ UNCHANGED missed
        \/ missed' = [missed EXCEPT ![r.hour] = Add(@, r.n)]
    BY DEF Unanswered
  <1>4. missed' \in [Hours -> Count]
    <2> HIDE DEF r
    <2>1. Add(missed[r.hour], r.n) \in Count
      BY <1>2, CountsAdd DEF TypeOK
    <2> QED BY <1>2, <1>3, <2>1 DEF TypeOK
  <1>5. task' \in [Tasks -> Task \cup {NoTask}]
    <2>1. task' = [task EXCEPT ![k] = NoTask]
      BY DEF Unanswered
    <2> QED BY <2>1 DEF TypeOK
  <1>6. degraded' \in [Instances -> BOOLEAN] /\ faults' \in Nat
    BY <1>2 DEF Unanswered, TypeOK
  <1> QED BY <1>4, <1>5, <1>6 DEF TypeOK, Unanswered

LEMMA RestartType ==
  ASSUME TypeOK, NEW i \in Instances, Restart(i)
  PROVE  TypeOK'
  <1> DEFINE dying == {k \in Tasks : Busy(k) /\ task[k].inst = i}
             lost == {k \in dying : ~task[k].done}
             L(h) == {k \in lost : task[k].hour = h}
             n == [k \in lost |-> task[k].n]
  <1>1. store' \in [Instances \cup {Shared} -> Store]
    <2>1. \/ UNCHANGED store
          \/ store' = [store EXCEPT ![i] = Replayed(lines[i])]
          \/ store' = [store EXCEPT ![i] = EmptyStore]
      BY DEF Restart
    <2>2. Replayed(lines[i]) \in Store /\ EmptyStore \in Store
      BY StoresType DEF TypeOK
    <2> QED BY <2>1, <2>2 DEF TypeOK
  <1>2. /\ seen' \in [Instances -> [Days -> SUBSET Routes]]
        /\ len' \in [Instances -> [Days -> Nat]]
    <2>1. seen' = [seen EXCEPT ![i] = [d \in Days |-> {}]]
      BY DEF Restart
    <2>2. len' = [len EXCEPT ![i] = [d \in Days |-> 0]]
      BY DEF Restart
    <2> QED BY <2>1, <2>2 DEF TypeOK
  <1>3. task' \in [Tasks -> Task \cup {NoTask}]
    BY DEF Restart, TypeOK
  <1>4. missed' \in [Hours -> Count]
    <2>1. missed' = [h \in Hours |-> Add(missed[h], Sum(n, L(h)))]
      BY DEF Restart
    <2>2. ASSUME NEW h \in Hours
          PROVE  Add(missed[h], Sum(n, L(h))) \in Count
      <3> DEFINE l == L(h)
      <3>1. \A k \in l : n[k] \in Count
        BY BusyTask DEF Task
      <3>2. IsFiniteSet(l)
        <4>1. l \subseteq Tasks
          OBVIOUS
        <4> HIDE DEF l
        <4> QED BY <4>1, FS_Subset, CountersAssumption
      <3> HIDE DEF n, l
      <3>3. Sum(n, l) \in Count
        BY <3>1, <3>2, SumCount
      <3>4. missed[h] \in Count
        BY DEF TypeOK
      <3>5. Add(missed[h], Sum(n, l)) \in Count
        BY <3>3, <3>4, CountsAdd
      <3> QED BY <3>5 DEF l
    <2> HIDE DEF n, L
    <2> QED BY <2>1, <2>2
  <1>5. degraded' \in [Instances -> BOOLEAN] /\ restarts' \in Nat
    BY DEF Restart, TypeOK
  <1> QED BY <1>1, <1>2, <1>3, <1>4, <1>5 DEF TypeOK, Restart

LEMMA TypeNext == TypeOK /\ [Next]_vars => TypeOK'
  <1> SUFFICES ASSUME TypeOK, [Next]_vars PROVE TypeOK'
    OBVIOUS
  <1>1. ASSUME NEW i \in Instances, NEW k \in Tasks, NEW n \in Calls,
               NEW r \in Routes \cup {None}, RecordShared(i, k, n, r)
        PROVE  TypeOK'
    BY <1>1, RecordSharedType
  <1>2. ASSUME NEW i \in Instances, NEW n \in Calls, NEW r \in Routes \cup {None},
               RecordMemory(i, n, r)
        PROVE  TypeOK'
    BY <1>2, RecordMemoryType
  <1>3. ASSUME NEW k \in Tasks, Execute(k) PROVE TypeOK'
    BY <1>3, ExecuteType
  <1>4. ASSUME NEW k \in Tasks, Answered(k) PROVE TypeOK'
    BY <1>4, AnsweredType
  <1>5. ASSUME NEW k \in Tasks, Unanswered(k) PROVE TypeOK'
    BY <1>5, UnansweredType
  <1>6. ASSUME NEW i \in Instances, ReadFails(i) PROVE TypeOK'
    BY <1>6 DEF ReadFails, TypeOK
  <1>7. ASSUME NEW i \in Instances, ReadWindow(i) PROVE TypeOK'
    <2>1. store' = [store EXCEPT ![i] = Windowed(store[i])]
      BY <1>7, Forgetting
    <2>2. store[i] \in Store
      BY DEF TypeOK
    <2>3. PICK w \in Store : w = Windowed(store[i])
      BY <2>2, WindowedType
    <2>4. store' = [store EXCEPT ![i] = w]
      BY <2>1, <2>3
    <2>5. store' \in [Instances \cup {Shared} -> Store]
      BY <2>4 DEF TypeOK
    <2> QED BY <2>5, <1>7 DEF ReadWindow, TypeOK
  <1>8. ASSUME NEW i \in Instances, Restart(i) PROVE TypeOK'
    BY <1>8, RestartType
  <1>9. CASE Expire
    <2>1. store' = [store EXCEPT ![Shared] = Lasting(store[Shared])]
      BY <1>9, Forgetting
    <2>2. store[Shared] \in Store
      BY DEF TypeOK
    <2>3. PICK w \in Store : w = Lasting(store[Shared])
      BY <2>2, LastingType
    <2>4. store' = [store EXCEPT ![Shared] = w]
      BY <2>1, <2>3
    <2>5. store' \in [Instances \cup {Shared} -> Store]
      BY <2>4 DEF TypeOK
    <2> QED BY <2>5, <1>9 DEF Expire, TypeOK
  <1>10. CASE Tick
    <2>1. now' \in Hours
      BY <1>10, CountersAssumption DEF Tick, TypeOK, Hours
    <2> QED BY <2>1, <1>10 DEF Tick, TypeOK
  <1>11. CASE UNCHANGED vars
    BY <1>11 DEF vars, TypeOK
  <1> QED BY <1>1, <1>2, <1>3, <1>4, <1>5, <1>6, <1>7, <1>8, <1>9, <1>10, <1>11 DEF Next

LEMMA TypeInit == Init => TypeOK
  <1> SUFFICES ASSUME Init PROVE TypeOK
    OBVIOUS
  <1>1. EmptyStore \in Store /\ NoHours \in [Hours -> Count]
    BY StoresType
  <1>2. now \in Hours
    BY HoursAndDays DEF Init
  <1>3. durable \in BOOLEAN /\ sink \in BOOLEAN
    <2>1. PICK p \in Deployments : durable = p[1] /\ sink = p[2]
      BY DEF Init
    <2>2. p \in BOOLEAN \X BOOLEAN
      BY CountersAssumption
    <2> QED BY <2>1, <2>2
  <1> QED BY <1>1, <1>2, <1>3 DEF Init, TypeOK

\* The type invariant (the stores of src/stores.py and the tables of
\* RedisCounterStore keep their shape, whatever is lost or forgotten).
THEOREM TypeCorrect == Spec => []TypeOK
  BY TypeInit, TypeNext, PTL DEF Spec

-----------------------------------------------------------------------------
(* What is counted, and what is owed.                                      *)

\* What every task still owes an hour: its pipeline is under way.
Owed(k, h) == Busy(k) /\ ~task[k].done /\ task[k].hour = h
Owes(h) == [k \in Tasks |-> IF Owed(k, h) THEN task[k].n ELSE Zero]
Logged(h) == [i \in Instances |-> lines[i][h]]
Take(c, e) == [t |-> c.t - e.t, b |-> c.b - e.b]

\* The counts that are added and taken.
LEMMA NetAlgebra ==
  ASSUME NEW c \in Net, NEW o \in Net, NEW m \in Net, NEW n \in Net
  PROVE  /\ Take(c, o) \in Net
         /\ Take(Add(c, n), Add(Add(o, n), m)) = Take(c, Add(o, m))
         /\ Add(Take(c, Add(Add(o, n), m)), n) = Take(c, Add(o, m))
         /\ Add(o, Add(m, n)) = Add(Add(o, n), m)
         /\ Add(c, n).b = c.b + n.b
  <1>1. Take(c, o) \in Net
    BY DEF Take, Net
  <1>2. Take(Add(c, n), Add(Add(o, n), m)) = Take(c, Add(o, m))
    BY DEF Take, Add, Net
  <1>3. Add(Take(c, Add(Add(o, n), m)), n) = Take(c, Add(o, m))
    BY DEF Take, Add, Net
  <1>4. Add(o, Add(m, n)) = Add(Add(o, n), m)
    BY DEF Add, Net
  <1> QED BY <1>1, <1>2, <1>3, <1>4 DEF Add

\* What a task owes is a count, and what is pending is what all of them owe.
LEMMA OwesType ==
  ASSUME TypeOK, NEW h \in Hours
  PROVE  /\ \A k \in Tasks : Owes(h)[k] \in Count /\ Owes(h)[k] \in Net
         /\ Sum(Owes(h), Tasks) \in Net
         /\ Pending(h) = Sum(Owes(h), Tasks)
         /\ \A i \in Instances : Logged(h)[i] = lines[i][h] /\ Logged(h)[i] \in Net
         /\ Sum(Logged(h), Instances) \in Net
         /\ missed[h] \in Net
  <1>1. \A k \in Tasks : Owes(h)[k] \in Count /\ Owes(h)[k] \in Net
    BY BusyTask, CountsAdd DEF Owes, Owed, Task
  <1>2. Sum(Owes(h), Tasks) \in Net
    BY <1>1, SumNet, CountersAssumption
  <1>3. Pending(h) = Sum(Owes(h), Tasks)
    <2> DEFINE K == {k \in Tasks : Busy(k) /\ ~task[k].done /\ task[k].hour = h}
               f == [k \in K |-> task[k].n]
               g == Owes(h)
    <2>1. Pending(h) = Sum(f, K)
      BY DEF Pending
    <2>2. \A k \in K : f[k] \in Net /\ g[k] = f[k]
      BY <1>1 DEF Owes, Owed
    <2>3. \A k \in Tasks \ K : g[k] = Zero
      BY DEF Owes, Owed
    <2>4. K \in SUBSET Tasks
      OBVIOUS
    <2> HIDE DEF K, f, g
    <2>5. Sum(g, Tasks) = Sum(f, K)
      BY <2>2, <2>3, <2>4, SumOnly, CountersAssumption
    <2> QED BY <2>1, <2>5 DEF g
  <1>4. \A i \in Instances : Logged(h)[i] = lines[i][h] /\ Logged(h)[i] \in Net
    BY CountsAdd DEF Logged, TypeOK
  <1>5. Sum(Logged(h), Instances) \in Net
    BY <1>4, SumNet, CountersAssumption
  <1>6. missed[h] \in Net
    BY CountsAdd DEF TypeOK
  <1> QED BY <1>1, <1>2, <1>3, <1>4, <1>5, <1>6

\* What a shared store should have, in these terms.
LEMMA CountedIs ==
  TypeOK => \A h \in Hours :
    /\ Counted[h] = Take(Sum(Logged(h), Instances), Add(Sum(Owes(h), Tasks), missed[h]))
    /\ Counted[h] \in Net
  <1> SUFFICES ASSUME TypeOK, NEW h \in Hours
               PROVE  /\ Counted[h] = Take(Sum(Logged(h), Instances),
                                           Add(Sum(Owes(h), Tasks), missed[h]))
                      /\ Counted[h] \in Net
    OBVIOUS
  <1> DEFINE l == Sum(Logged(h), Instances)
             o == Sum(Owes(h), Tasks)
             m == missed[h]
  <1>1. l \in Net /\ o \in Net /\ m \in Net /\ Pending(h) = o
    BY OwesType
  <1>2. Counted[h] = [t |-> l.t - Add(Pending(h), m).t, b |-> l.b - Add(Pending(h), m).b]
    BY Zenon DEF Counted, Logged
  <1> HIDE DEF l, o, m
  <1>3. Counted[h] = Take(l, Add(o, m))
    BY <1>1, <1>2 DEF Take
  <1>4. Add(o, m) \in Net
    BY <1>1, CountsAdd
  <1>5. Take(l, Add(o, m)) \in Net
    BY <1>1, <1>4, NetAlgebra
  <1> QED BY <1>3, <1>5 DEF l, o, m

\* The same, after a step.
LEMMA CountedNext ==
  (TypeOK => \A h \in Hours :
     /\ Counted[h] = Take(Sum(Logged(h), Instances), Add(Sum(Owes(h), Tasks), missed[h]))
     /\ Counted[h] \in Net)'
  BY CountedIs, PTL

\* A record that is sent: the line is written, and owed.
LEMMA RecordSharedCounts ==
  ASSUME TypeOK, TypeOK', NEW i \in Instances, NEW k \in Tasks, NEW n \in Calls,
         NEW route \in Routes \cup {None}, RecordShared(i, k, n, route)
  PROVE  \A h \in Hours : Counted'[h] = Counted[h]
  <1>1. n \in Net /\ n \in Count /\ now \in Hours
    BY CountersAssumption, CountsAdd DEF TypeOK, Count
  <1>2. /\ ~Busy(k) /\ missed' = missed
        /\ lines' = [lines EXCEPT ![i][now] = Add(@, n)]
        /\ task'[k].hour = now /\ task'[k].n = n /\ ~task'[k].done
        /\ task'[k] # NoTask
        /\ \A j \in Tasks \ {k} : task'[j] = task[j]
    <2>1. ~Busy(k) /\ missed' = missed /\ lines' = [lines EXCEPT ![i][now] = Add(@, n)]
      BY DEF RecordShared
    <2>2. PICK r : task' = [task EXCEPT ![k] = [inst |-> i, hour |-> now, n |-> n,
                              done |-> FALSE, route |-> r, hlen |-> 0]]
      BY DEF RecordShared
    <2>3. task'[k] = [inst |-> i, hour |-> now, n |-> n, done |-> FALSE,
                      route |-> r, hlen |-> 0]
      BY <2>2 DEF TypeOK
    <2>4. task'[k].inst # NoTask.inst
      BY <2>3, CountersAssumption DEF NoTask
    <2>5. \A j \in Tasks \ {k} : task'[j] = task[j]
      BY <2>2 DEF TypeOK
    <2> QED BY <2>1, <2>3, <2>4, <2>5
  <1> TAKE h \in Hours
  <1> DEFINE l == Logged(h)
             lp == Logged(h)'
             o == Owes(h)
             op == Owes(h)'
             m == missed[h]
  <1>3. /\ \A j \in Tasks : o[j] \in Net
        /\ \A j \in Instances : l[j] \in Net
        /\ Sum(l, Instances) \in Net /\ Sum(o, Tasks) \in Net /\ m \in Net
    BY OwesType
  <1>4. /\ Counted[h] = Take(Sum(l, Instances), Add(Sum(o, Tasks), m))
        /\ Counted'[h] = Take(Sum(lp, Instances), Add(Sum(op, Tasks), m))
    <2>1. Counted'[h] = Take(Sum(lp, Instances), Add(Sum(op, Tasks), missed'[h]))
      BY CountedNext
    <2> QED BY <2>1, <1>2, CountedIs
  <1>5. \A j \in Tasks \ {k} : op[j] = o[j]
    BY <1>2 DEF Owes, Owed, Busy
  <1>6. \A j \in Instances \ {i} : lp[j] = l[j]
    BY <1>2 DEF Logged, TypeOK
  <1>7. CASE h = now
    <2>1. o[k] = Zero /\ op[k] = n
      BY <1>2, <1>7 DEF Owes, Owed, Busy
    <2>2. op[k] = Add(o[k], n)
      BY <2>1, <1>1, CountsAdd
    <2>3. lp[i] = Add(l[i], n)
      BY <1>2, <1>7, <1>1 DEF Logged, TypeOK
    <2> HIDE DEF l, lp, o, op
    <2>4. Sum(op, Tasks) = Add(Sum(o, Tasks), n)
      BY <2>2, <1>1, <1>3, <1>5, SumMore, CountersAssumption
    <2>5. Sum(lp, Instances) = Add(Sum(l, Instances), n)
      BY <2>3, <1>1, <1>3, <1>6, SumMore, CountersAssumption
    <2> DEFINE sl == Sum(l, Instances)
               so == Sum(o, Tasks)
    <2>6. sl \in Net /\ so \in Net /\ m \in Net
      BY <1>3
    <2> HIDE DEF sl, so, m
    <2>7. Take(Add(sl, n), Add(Add(so, n), m)) = Take(sl, Add(so, m))
      BY <2>6, <1>1 DEF Take, Add, Net
    <2> QED BY <1>4, <2>4, <2>5, <2>7 DEF sl, so
  <1>8. CASE h # now
    <2>1. o[k] = Zero /\ op[k] = Zero
      BY <1>2, <1>8 DEF Owes, Owed, Busy
    <2>2. \A j \in Tasks : op[j] = o[j]
      BY <2>1, <1>5
    <2>3. \A j \in Instances : lp[j] = l[j]
      <3>1. lp[i] = l[i]
        BY <1>2, <1>8, <1>1 DEF Logged, TypeOK
      <3> QED BY <3>1, <1>6
    <2> HIDE DEF l, lp, o, op
    <2>4. Sum(op, Tasks) = Sum(o, Tasks)
      BY <2>2, SumAgrees
    <2>5. Sum(lp, Instances) = Sum(l, Instances)
      BY <2>3, SumAgrees
    <2> QED BY <1>4, <2>4, <2>5
  <1> QED BY <1>7, <1>8

\* A step that neither writes a line nor changes what is owed.
LEMMA CountedSame ==
  ASSUME TypeOK, TypeOK', UNCHANGED <<lines, missed>>,
         \A h \in Hours : \A k \in Tasks : Owes(h)'[k] = Owes(h)[k]
  PROVE  \A h \in Hours : Counted'[h] = Counted[h]
  <1> TAKE h \in Hours
  <1>1. /\ Counted[h] = Take(Sum(Logged(h), Instances), Add(Sum(Owes(h), Tasks), missed[h]))
        /\ Counted'[h] = Take(Sum(Logged(h)', Instances), Add(Sum(Owes(h)', Tasks), missed'[h]))
    BY CountedIs, CountedNext
  <1>2. Logged(h)' = Logged(h) /\ missed' = missed
    BY DEF Logged
  <1>3. Sum(Owes(h)', Tasks) = Sum(Owes(h), Tasks)
    <2> DEFINE o == Owes(h)
               op == Owes(h)'
    <2>1. \A k \in Tasks : op[k] = o[k]
      OBVIOUS
    <2> HIDE DEF o, op
    <2>2. Sum(op, Tasks) = Sum(o, Tasks)
      BY <2>1, SumAgrees
    <2> QED BY <2>2 DEF o, op
  <1> QED BY <1>1, <1>2, <1>3

\* Executed, the pipeline is no longer owed.
LEMMA ExecuteCounts ==
  ASSUME TypeOK, TypeOK', NEW k \in Tasks, Execute(k)
  PROVE  \A h \in Hours :
           Counted'[h] = IF h = task[k].hour THEN Add(Counted[h], task[k].n) ELSE Counted[h]
  <1> DEFINE r == task[k]
             n == r.n
  <1>1. /\ r \in Task /\ ~r.done /\ Busy(k) /\ n \in Net /\ r.hour \in Hours
        /\ lines' = lines /\ missed' = missed /\ task'[k].done
        /\ \A j \in Tasks \ {k} : task'[j] = task[j]
    <2>1. r \in Task /\ ~r.done /\ Busy(k) /\ lines' = lines /\ missed' = missed
      BY ExecuteType DEF Execute
    <2>2. n \in Net /\ r.hour \in Hours
      BY <2>1, CountsAdd DEF Task
    <2>3. PICK x : task' = [task EXCEPT ![k] = [r EXCEPT !.done = TRUE, !.hlen = x]]
      BY ExecuteType
    <2>4. task'[k] = [r EXCEPT !.done = TRUE, !.hlen = x]
      BY <2>3 DEF TypeOK
    <2>5. task'[k].done
      BY <2>1, <2>4 DEF Task
    <2>6. \A j \in Tasks \ {k} : task'[j] = task[j]
      BY <2>3 DEF TypeOK
    <2> QED BY <2>1, <2>2, <2>5, <2>6
  <1> TAKE h \in Hours
  <1> DEFINE o == Owes(h)
             op == Owes(h)'
             l == Sum(Logged(h), Instances)
             m == missed[h]
  <1>2. /\ Counted[h] = Take(l, Add(Sum(o, Tasks), m))
        /\ Counted'[h] = Take(l, Add(Sum(op, Tasks), m))
    <2>1. Logged(h)' = Logged(h)
      BY <1>1 DEF Logged
    <2> QED BY <2>1, <1>1, CountedIs, CountedNext
  <1>3. \A j \in Tasks \ {k} : op[j] = o[j]
    BY <1>1 DEF Owes, Owed, Busy
  <1>4. op[k] = Zero
    BY <1>1 DEF Owes, Owed
  <1>5. CASE h = r.hour
    <2>1. o[k] = n
      BY <1>1, <1>5 DEF Owes, Owed
    <2>2. o[k] = Add(op[k], n)
      BY <2>1, <1>1, <1>4, CountsAdd
    <2>3. \A j \in Tasks : op[j] \in Net
      BY <1>3, <1>4, OwesType, CountsAdd
    <2>4. l \in Net /\ m \in Net
      BY OwesType
    <2> HIDE DEF o, op
    <2>5. Sum(o, Tasks) = Add(Sum(op, Tasks), n) /\ Sum(op, Tasks) \in Net
      BY <2>2, <2>3, <1>1, <1>3, SumMore, SumNet, CountersAssumption
    <2> DEFINE so == Sum(op, Tasks)
    <2> HIDE DEF so, m, l, n, r
    <2>6. so \in Net /\ m \in Net /\ l \in Net /\ n \in Net
      BY <2>4, <2>5, <1>1 DEF so
    <2>7. Take(l, Add(so, m)) = Add(Take(l, Add(Add(so, n), m)), n)
      BY <2>6 DEF Take, Add, Net
    <2> QED BY <1>2, <1>5, <2>5, <2>7 DEF so, n, r
  <1>6. CASE h # r.hour
    <2>1. \A j \in Tasks : op[j] = o[j]
      BY <1>1, <1>3, <1>4, <1>6 DEF Owes, Owed
    <2> HIDE DEF o, op
    <2>2. Sum(op, Tasks) = Sum(o, Tasks)
      BY <2>1, SumAgrees
    <2> QED BY <1>2, <1>6, <2>2
  <1> QED BY <1>5, <1>6

\* Nobody waits for it any more, and it is counted.
LEMMA AnsweredCounts ==
  ASSUME TypeOK, TypeOK', NEW k \in Tasks, Answered(k)
  PROVE  \A h \in Hours : Counted'[h] = Counted[h]
  <1>1. /\ lines' = lines /\ missed' = missed /\ task[k].done
        /\ task'[k] = NoTask /\ \A j \in Tasks \ {k} : task'[j] = task[j]
    BY DEF Answered, TypeOK
  <1>2. \A h \in Hours : \A j \in Tasks : Owes(h)'[j] = Owes(h)[j]
    BY <1>1 DEF Owes, Owed, Busy
  <1> QED BY <1>1, <1>2, CountedSame

\* What is given up without having been executed is missed.
LEMMA UnansweredCounts ==
  ASSUME TypeOK, TypeOK', NEW k \in Tasks, Unanswered(k)
  PROVE  \A h \in Hours : Counted'[h] = Counted[h]
  <1> DEFINE r == task[k]
             n == r.n
  <1>1. /\ r \in Task /\ Busy(k) /\ n \in Net /\ r.hour \in Hours /\ lines' = lines
        /\ task'[k] = NoTask /\ \A j \in Tasks \ {k} : task'[j] = task[j]
        /\ r.done => missed' = missed
        /\ ~r.done => missed' = [missed EXCEPT ![r.hour] = Add(@, n)]
    <2>1. r \in Task
      BY BusyTask DEF Unanswered
    <2> QED BY <2>1, CountsAdd DEF Unanswered, TypeOK, Task
  <1>2. CASE r.done
    <2>1. \A h \in Hours : \A j \in Tasks : Owes(h)'[j] = Owes(h)[j]
      BY <1>1, <1>2 DEF Owes, Owed, Busy
    <2> QED BY <1>1, <1>2, <2>1, CountedSame
  <1>3. CASE ~r.done
    <2> TAKE h \in Hours
    <2> DEFINE o == Owes(h)
               op == Owes(h)'
               l == Sum(Logged(h), Instances)
               m == missed[h]
    <2>1. /\ Counted[h] = Take(l, Add(Sum(o, Tasks), m))
          /\ Counted'[h] = Take(l, Add(Sum(op, Tasks), missed'[h]))
      <3>1. Logged(h)' = Logged(h)
        BY <1>1 DEF Logged
      <3> QED BY <3>1, <1>1, CountedIs, CountedNext
    <2>2. \A j \in Tasks \ {k} : op[j] = o[j]
      BY <1>1 DEF Owes, Owed, Busy
    <2>3. op[k] = Zero
      BY <1>1 DEF Owes, Owed, Busy
    <2>4. CASE h = r.hour
      <3>1. o[k] = n
        BY <1>1, <1>3, <2>4 DEF Owes, Owed
      <3>2. o[k] = Add(op[k], n)
        BY <3>1, <1>1, <2>3, CountsAdd
      <3>3. \A j \in Tasks : op[j] \in Net
        BY <2>2, <2>3, OwesType, CountsAdd
      <3>4. l \in Net /\ m \in Net /\ missed'[h] = Add(m, n)
        BY OwesType, <1>1, <1>3, <2>4 DEF TypeOK
      <3> HIDE DEF o, op
      <3>5. Sum(o, Tasks) = Add(Sum(op, Tasks), n) /\ Sum(op, Tasks) \in Net
        BY <3>2, <3>3, <1>1, <2>2, SumMore, SumNet, CountersAssumption
      <3> DEFINE so == Sum(op, Tasks)
      <3> HIDE DEF so, m, l, n, r
      <3>6. so \in Net /\ m \in Net /\ l \in Net /\ n \in Net
        BY <3>4, <3>5, <1>1 DEF so
      <3>7. Take(l, Add(so, Add(m, n))) = Take(l, Add(Add(so, n), m))
        BY <3>6 DEF Take, Add, Net
      <3> QED BY <2>1, <2>4, <3>4, <3>5, <3>7 DEF so
    <2>5. CASE h # r.hour
      <3>1. \A j \in Tasks : op[j] = o[j]
        BY <1>1, <2>2, <2>3, <2>5 DEF Owes, Owed
      <3>2. missed'[h] = m
        BY <1>1, <1>3, <2>5 DEF TypeOK
      <3> HIDE DEF o, op
      <3>3. Sum(op, Tasks) = Sum(o, Tasks)
        BY <3>1, SumAgrees
      <3> QED BY <2>1, <3>2, <3>3
    <2> QED BY <2>4, <2>5
  <1> QED BY <1>2, <1>3

LEMMA OwesNext == (TypeOK => \A h \in Hours : \A k \in Tasks : Owes(h)[k] \in Net)'
  <1>1. TypeOK => \A h \in Hours : \A k \in Tasks : Owes(h)[k] \in Net
    BY OwesType
  <1> QED BY <1>1, PTL

\* A restart misses what the instance still owed.
LEMMA RestartCounts ==
  ASSUME TypeOK, TypeOK', NEW i \in Instances, Restart(i)
  PROVE  \A h \in Hours : Counted'[h] = Counted[h]
  <1> DEFINE dying == {k \in Tasks : Busy(k) /\ task[k].inst = i}
             lost == {k \in dying : ~task[k].done}
             K(h) == {k \in lost : task[k].hour = h}
             n == [k \in lost |-> task[k].n]
  <1> TAKE h \in Hours
  <1> DEFINE o == Owes(h)
             op == Owes(h)'
             l == Sum(Logged(h), Instances)
             m == missed[h]
             L == [k \in Tasks |-> IF k \in K(h) THEN task[k].n ELSE Zero]
             T == K(h)
  <1>1. /\ lines' = lines
        /\ \A k \in Tasks : task'[k] = IF k \in dying THEN NoTask ELSE task[k]
        /\ missed'[h] = Add(m, Sum(n, T))
    BY DEF Restart
  <1>2. /\ Counted[h] = Take(l, Add(Sum(o, Tasks), m))
        /\ Counted'[h] = Take(l, Add(Sum(op, Tasks), missed'[h]))
    <2>1. Logged(h)' = Logged(h)
      BY <1>1 DEF Logged
    <2> QED BY <2>1, CountedIs, CountedNext
  <1>3. \A k \in Tasks : o[k] \in Net /\ L[k] \in Net /\ op[k] \in Net /\ o[k] = Add(op[k], L[k])
    <2> TAKE k \in Tasks
    <2>1. o[k] \in Net
      BY OwesType
    <2>2. op[k] \in Net
      BY OwesNext
    <2>3. CASE k \in T
      <3>1. L[k] = o[k] /\ op[k] = Zero
        BY <1>1, <2>3 DEF Owes, Owed, Busy
      <3> QED BY <2>1, <2>2, <3>1, CountsAdd
    <2>4. CASE k \in dying /\ k \notin T
      <3>1. L[k] = Zero /\ o[k] = Zero /\ op[k] = Zero
        BY <1>1, <2>4 DEF Owes, Owed, Busy
      <3> QED BY <2>1, <2>2, <3>1, CountsAdd
    <2>5. CASE k \notin dying
      <3>1. L[k] = Zero /\ o[k] = op[k]
        BY <1>1, <2>5 DEF Owes, Owed, Busy
      <3> QED BY <2>1, <2>2, <3>1, CountsAdd
    <2> QED BY <2>3, <2>4, <2>5
  <1>4. T \in SUBSET Tasks /\ (\A k \in T : n[k] \in Net /\ L[k] = n[k])
        /\ \A k \in Tasks \ T : L[k] = Zero
    BY <1>3
  <1>5. l \in Net /\ m \in Net
    BY OwesType
  <1> HIDE DEF o, op, L, T, n, dying, lost, K
  <1>6. Sum(L, Tasks) = Sum(n, T)
    BY <1>4, SumOnly, CountersAssumption
  <1>7. Sum(o, Tasks) = Add(Sum(op, Tasks), Sum(L, Tasks))
    BY <1>3, SumBoth, CountersAssumption
  <1>8. Sum(op, Tasks) \in Net /\ Sum(L, Tasks) \in Net
    BY <1>3, SumNet, CountersAssumption
  <1> DEFINE so == Sum(op, Tasks)
             sl == Sum(L, Tasks)
  <1>9. so \in Net /\ sl \in Net
    BY <1>8
  <1> HIDE DEF so, sl, l, m
  <1>10. Take(l, Add(so, Add(m, sl))) = Take(l, Add(Add(so, sl), m))
    BY <1>5, <1>9 DEF Take, Add, Net
  <1> QED BY <1>1, <1>2, <1>6, <1>7, <1>10 DEF so, sl

-----------------------------------------------------------------------------
(* The counters and the log.                                               *)

\* What a shared store has of everything it has not let expire.
Shares ==
  durable =>
    /\ \A h \in Hours : h + Retention > now => store[Shared].hours[h] = Counted[h]
    /\ \A d \in Days :
         ~Expired(d, Retention) => store[Shared].days[d] = Sum(Counted, HoursOf(d))
    /\ \A d \in Days :
         ~Expired(d, DayTtl) => store[Shared].client[d] = Sum(Counted, HoursOf(d)).b
    /\ store[Shared].totals = Sum(Counted, Hours)

\* What a memory store has of everything it has not dropped, when there is a
\* file to replay.
Replays ==
  ~durable /\ sink => \A i \in Instances :
    /\ \A h \in Hours : h >= now - Retention => store[i].hours[h] = lines[i][h]
    /\ \A d \in Days :
         d >= DayOf(now - Retention) => store[i].days[d] = Sum(lines[i], HoursOf(d))
    /\ store[i].totals = Sum(lines[i], Hours)

\* A write that was lost is held against the store, until a restart.
Admits == durable /\ missed # NoHours /\ restarts = 0 => \E i \in Instances : degraded[i]

\* An hour, by its day and its place in the day.
LEMMA HourOfDay ==
  \A x \in Int : /\ DayOf(x) \in Int /\ x % HoursPerDay \in 0 .. HoursPerDay - 1
                 /\ x = HoursPerDay * DayOf(x) + (x % HoursPerDay)
  <1> TAKE x \in Int
  <1>1. HoursPerDay \in Nat \ {0}
    BY CountersAssumption
  <1>2. /\ x \div HoursPerDay \in Int /\ x % HoursPerDay \in 0 .. HoursPerDay - 1
        /\ x = HoursPerDay * (x \div HoursPerDay) + (x % HoursPerDay)
    BY <1>1, DivisionInt
  <1> QED BY <1>2 DEF DayOf

\* Days are ordered as their hours are.
LEMMA DaysInOrder ==
  ASSUME NEW x \in Int, NEW y \in Int, x <= y
  PROVE  DayOf(x) \in Int /\ DayOf(y) \in Int /\ DayOf(x) <= DayOf(y)
  <1>1. HoursPerDay \in Nat \ {0}
    BY CountersAssumption
  <1> DEFINE a == DayOf(x)
             b == DayOf(y)
             u == x % HoursPerDay
             v == y % HoursPerDay
  <1>2. /\ a \in Int /\ u \in 0 .. HoursPerDay - 1 /\ x = HoursPerDay * a + u
        /\ b \in Int /\ v \in 0 .. HoursPerDay - 1 /\ y = HoursPerDay * b + v
    BY <1>1, DivisionInt DEF DayOf
  <1> HIDE DEF a, b, u, v
  <1>3. SUFFICES ASSUME a > b PROVE FALSE
    BY <1>2 DEF a, b
  <1>4. a - b - 1 \in Nat /\ HoursPerDay * (a - b - 1) >= 0
    BY <1>1, <1>2, <1>3
  <1>5. HoursPerDay * (a - b - 1) = HoursPerDay * a - HoursPerDay * b - HoursPerDay
    BY <1>1, <1>2
  <1> QED BY <1>1, <1>2, <1>4, <1>5

\* The days that /metrics/calls adds up are still in either kind of store.
LEMMA WithinReach ==
  ASSUME NEW n \in 1 .. Retention, NEW d \in Int, now \in Nat,
         d > DayOf(now) - ToolDays(n)
  PROVE  ~Expired(d, Retention) /\ d >= DayOf(now - Retention)
  <1> DEFINE q == Retention \div HoursPerDay
             u == Retention % HoursPerDay
             a == DayOf(now)
             v == now % HoursPerDay
             c == DayOf(now - Retention)
             w == (now - Retention) % HoursPerDay
  <1>1. HoursPerDay \in Nat \ {0} /\ Retention \in Nat
    BY CountersAssumption
  <1>2. /\ q \in Int /\ u \in 0 .. HoursPerDay - 1 /\ Retention = HoursPerDay * q + u
        /\ a \in Int /\ v \in 0 .. HoursPerDay - 1 /\ now = HoursPerDay * a + v
        /\ c \in Int /\ w \in 0 .. HoursPerDay - 1
        /\ now - Retention = HoursPerDay * c + w
    <2>1. /\ q \in Int /\ u \in 0 .. HoursPerDay - 1 /\ Retention = HoursPerDay * q + u
      BY <1>1, DivisionInt
    <2>2. now \in Int /\ now - Retention \in Int
      BY <1>1
    <2> HIDE DEF q, u
    <2> QED BY <2>1, <2>2, HourOfDay
  <1>3. ToolDays(n) \in Int /\ ToolDays(n) <= q
    <2>1. n + HoursPerDay - 1 \in Int
      BY <1>1
    <2>2. (n + HoursPerDay - 1) \div HoursPerDay \in Int
      BY <1>1, <2>1, DivisionInt
    <2> QED BY <1>2, <2>2 DEF ToolDays
  <1>4. d \in Int /\ d >= a - q + 1
    BY <1>2, <1>3
  <1> HIDE DEF q, u, a, v, c, w
  <1>5. d * HoursPerDay + Retention > now
    <2>1. d - a + q - 1 \in Nat /\ HoursPerDay * (d - a + q - 1) >= 0
      BY <1>1, <1>2, <1>4
    <2>2. HoursPerDay * (d - a + q - 1)
            = d * HoursPerDay - HoursPerDay * a + HoursPerDay * q - HoursPerDay
      BY <1>1, <1>2
    <2> QED BY <1>1, <1>2, <2>1, <2>2
  <1>6. d >= c
    <2>1. SUFFICES ASSUME c > d PROVE FALSE
      BY <1>2
    <2>2. c - d - 1 \in Nat /\ HoursPerDay * (c - d - 1) >= 0
      BY <1>1, <1>2, <2>1
    <2>3. HoursPerDay * (c - d - 1) = HoursPerDay * c - d * HoursPerDay - HoursPerDay
      BY <1>1, <1>2
    <2> QED BY <1>1, <1>2, <1>5, <2>2, <2>3
  <1>7. d * HoursPerDay + Retention \in Int
    BY <1>1, <1>4
  <1> QED BY <1>1, <1>5, <1>6, <1>7 DEF Expired, c

\* Whatever a store has right, it answers right.
LEMMA Answers ==
  ASSUME TypeOK, NEW i \in Instances, NEW f, \A h \in Hours : f[h] \in Net,
         \A h \in Hours : h > now - Retention => store[StoreOf(i)].hours[h] = f[h],
         \A d \in Days : ~Expired(d, Retention) /\ d >= DayOf(now - Retention)
           => store[StoreOf(i)].days[d] = Sum(f, HoursOf(d)),
         store[StoreOf(i)].totals = Sum(f, Hours)
  PROVE  Agrees(i, f)
  <1> DEFINE s == store[StoreOf(i)]
  <1>1. ASSUME NEW n \in 1 .. Retention
        PROVE  /\ Series(i, n).buckets = [h \in BucketRange(n) |-> f[h]]
               /\ Series(i, n).totals = Sum(f, BucketRange(n))
               /\ Series(i, n).byTool = Sum(f, UNION {HoursOf(d) : d \in DayRange(ToolDays(n))})
    <2>0. now \in Nat /\ Retention \in Nat
      BY HoursAndDays, CountersAssumption DEF TypeOK
    <2> DEFINE B == BucketRange(n)
               D == DayRange(ToolDays(n))
               b == CallSeries(s, n)
    <2>1. /\ Series(i, n).buckets = b
          /\ Series(i, n).totals = Sum(b, B)
          /\ Series(i, n).byTool = Sum(s.days, D)
      BY DEF Series, ToolSeriesByDay
    <2>2. b = [h \in B |-> f[h]]
      <3>1. \A h \in B : s.hours[h] = f[h]
        BY <2>0, HoursAndDays DEF BucketRange
      <3> QED BY <3>1 DEF CallSeries
    <2>3. Sum(b, B) = Sum(f, B)
      <3>1. \A h \in B : b[h] = f[h]
        BY <2>2
      <3> HIDE DEF b, B
      <3> QED BY <3>1, SumAgrees
    <2>4. Sum(s.days, D) = Sum(f, UNION {HoursOf(d) : d \in D})
      <3> DEFINE P == [d \in Days |-> HoursOf(d)]
                 g == s.days
      <3>1. D \subseteq Days /\ IsFiniteSet(D)
        <4>1. D \subseteq Days
          BY DEF DayRange
        <4> HIDE DEF D
        <4> QED BY <4>1, HoursAndDays, FS_Subset
      <3>2. \A d \in D : g[d] = Sum(f, P[d])
        <4> TAKE d \in D
        <4>1. d \in Days /\ d \in Int /\ d > DayOf(now) - ToolDays(n)
          BY <3>1, HoursAndDays DEF DayRange
        <4>2. ~Expired(d, Retention) /\ d >= DayOf(now - Retention)
          BY <2>0, <4>1, WithinReach
        <4> QED BY <4>1, <4>2
      <3>3. \A d \in D : P[d] \subseteq Hours
        BY <3>1, HoursAndDays
      <3>4. \A c, d \in D : c # d => P[c] \cap P[d] = {}
        <4>1. \A c, d \in Days : c # d => P[c] \cap P[d] = {}
          BY HoursAndDays
        <4> HIDE DEF D, P
        <4> QED BY <3>1, <4>1
      <3>5. UNION {P[d] : d \in D} = UNION {HoursOf(d) : d \in D}
        BY <3>1
      <3>6. IsFiniteSet(Hours)
        BY HoursAndDays
      <3> HIDE DEF P, D, g
      <3>7. Sum(f, UNION {P[d] : d \in D}) = Sum(g, D)
        BY <3>1, <3>2, <3>3, <3>4, <3>6, SumGrouped
      <3> QED BY <3>5, <3>7 DEF g
    <2> QED BY <2>1, <2>2, <2>3, <2>4
  <1>2. Snapshot(i).totals = Sum(f, Hours)
    BY DEF Snapshot
  <1> QED BY <1>1, <1>2 DEF Agrees

LEMMA MatchFollows == TypeOK /\ Shares /\ Replays /\ Admits => CountersMatchLog
  <1> SUFFICES ASSUME TypeOK, Shares, Replays, Admits PROVE CountersMatchLog
    OBVIOUS
  <1>0. now \in Nat /\ now \in Hours /\ {Retention, HoursPerDay, DayTtl} \subseteq Nat
    BY HoursAndDays, CountersAssumption DEF TypeOK
  <1>1. ASSUME durable
        PROVE  /\ \A i \in Instances : Agrees(i, Counted)
               /\ FairUseUsage(store[Shared]) = Sum(Counted, HoursOf(DayOf(now))).b
               /\ missed # NoHours /\ restarts = 0 => \E i \in Instances : Snapshot(i).mayBeShort
    <2>1. ASSUME NEW i \in Instances PROVE Agrees(i, Counted)
      <3> DEFINE f == Counted
      <3>1. StoreOf(i) = Shared
        BY <1>1 DEF StoreOf
      <3>2. \A h \in Hours : f[h] \in Net
        BY CountedIs
      <3>3. \A h \in Hours : h > now - Retention => h + Retention > now
        BY <1>0, HoursAndDays
      <3>4. /\ \A h \in Hours : h > now - Retention => store[Shared].hours[h] = f[h]
            /\ \A d \in Days : ~Expired(d, Retention)
                 => store[Shared].days[d] = Sum(f, HoursOf(d))
            /\ store[Shared].totals = Sum(f, Hours)
        BY <1>1, <3>3 DEF Shares
      <3> HIDE DEF f
      <3>5. Agrees(i, f)
        BY <3>1, <3>2, <3>4, Answers
      <3> QED BY <3>5 DEF f
    <2>2. FairUseUsage(store[Shared]) = Sum(Counted, HoursOf(DayOf(now))).b
      <3> DEFINE d == DayOf(now)
                 v == now % HoursPerDay
      <3>1. d \in Days /\ d \in Nat
        BY <1>0, HoursAndDays
      <3>2. now = HoursPerDay * d + v /\ v \in 0 .. HoursPerDay - 1
        BY <1>0, HourOfDay
      <3>3. HoursPerDay < DayTtl
        BY CountersAssumption
      <3>4. ~Expired(d, DayTtl)
        <4> HIDE DEF d, v
        <4>1. HoursPerDay * d = d * HoursPerDay /\ HoursPerDay * d \in Nat
          BY <1>0, <3>1
        <4> QED BY <1>0, <3>1, <3>2, <3>3, <4>1 DEF Expired
      <3> QED BY <1>1, <3>1, <3>4 DEF Shares, FairUseUsage
    <2>3. missed # NoHours /\ restarts = 0 => \E i \in Instances : Snapshot(i).mayBeShort
      BY <1>1 DEF Admits, Snapshot
    <2> QED BY <2>1, <2>2, <2>3
  <1>2. ASSUME ~durable, sink, NEW i \in Instances PROVE Agrees(i, lines[i])
    <2> DEFINE f == lines[i]
    <2>1. StoreOf(i) = i
      BY <1>2 DEF StoreOf
    <2>2. \A h \in Hours : f[h] \in Net
      BY CountsAdd DEF TypeOK
    <2>3. /\ \A h \in Hours : h > now - Retention => store[i].hours[h] = f[h]
          /\ \A d \in Days : d >= DayOf(now - Retention)
               => store[i].days[d] = Sum(f, HoursOf(d))
          /\ store[i].totals = Sum(f, Hours)
      <3>1. \A h \in Hours : h > now - Retention => h >= now - Retention
        BY <1>0, HoursAndDays
      <3> QED BY <1>2, <3>1 DEF Replays
    <2> HIDE DEF f
    <2>4. Agrees(i, f)
      BY <2>1, <2>2, <2>3, Answers
    <2> QED BY <2>4 DEF f
  <1> QED BY <1>1, <1>2 DEF CountersMatchLog

\* What one call adds to an hour, it adds to the day of that hour and to the
\* totals.
LEMMA MoreSums ==
  ASSUME NEW f, \A h \in Hours : f[h] \in Net, NEW x \in Hours, NEW n \in Net,
         NEW g, g[x] = Add(f[x], n), \A h \in Hours \ {x} : g[h] = f[h]
  PROVE  /\ \A d \in Days : Sum(g, HoursOf(d)) = IF d = DayOf(x)
                 THEN Add(Sum(f, HoursOf(d)), n) ELSE Sum(f, HoursOf(d))
         /\ Sum(g, Hours) = Add(Sum(f, Hours), n)
         /\ \A d \in Days : Sum(f, HoursOf(d)) \in Net
  <1>1. Sum(g, Hours) = Add(Sum(f, Hours), n)
    <2>1. IsFiniteSet(Hours)
      BY HoursAndDays
    <2> QED BY <2>1, SumMore
  <1>2. ASSUME NEW d \in Days
        PROVE  Sum(f, HoursOf(d)) \in Net
    BY SumNet, HoursAndDays
  <1>3. ASSUME NEW d \in Days
        PROVE  Sum(g, HoursOf(d)) = IF d = DayOf(x)
                 THEN Add(Sum(f, HoursOf(d)), n) ELSE Sum(f, HoursOf(d))
    <2> DEFINE S == HoursOf(d)
    <2>1. S \subseteq Hours /\ IsFiniteSet(S)
      BY HoursAndDays
    <2>2. x \in S <=> d = DayOf(x)
      BY DEF HoursOf
    <2> HIDE DEF S
    <2>3. CASE x \in S
      <3>1. Sum(g, S) = Add(Sum(f, S), n)
        BY <2>1, <2>3, SumMore
      <3> QED BY <2>2, <2>3, <3>1 DEF S
    <2>4. CASE x \notin S
      <3>1. Sum(g, S) = Sum(f, S)
        BY <2>1, <2>4, SumAgrees
      <3> QED BY <2>2, <2>4, <3>1 DEF S
    <2> QED BY <2>3, <2>4
  <1> QED BY <1>1, <1>2, <1>3

\* The fields of a store after one call.
LEMMA BumpedFields ==
  ASSUME NEW s \in Store, NEW r, r.hour \in Hours, r.n \in Count
  PROVE  /\ \A h \in Hours : Bumped(s, r).hours[h]
                = IF h = r.hour THEN Add(s.hours[h], r.n) ELSE s.hours[h]
         /\ \A d \in Days : Bumped(s, r).days[d]
                = IF d = DayOf(r.hour) THEN Add(s.days[d], r.n) ELSE s.days[d]
         /\ \A d \in Days : Bumped(s, r).client[d]
                = IF d = DayOf(r.hour) THEN s.client[d] + r.n.b ELSE s.client[d]
         /\ Bumped(s, r).totals = Add(s.totals, r.n)
         /\ \A d \in Days : Bumped(s, r).routes[d]
                = IF d = DayOf(r.hour) THEN s.routes[d] \cup ({r.route} \ {None})
                                       ELSE s.routes[d]
  BY DEF Bumped, Store

\* The fields of a store that has forgotten.
LEMMA ForgottenFields ==
  ASSUME NEW s \in Store
  PROVE  /\ \A h \in Hours :
              /\ h >= now - Retention => Windowed(s).hours[h] = s.hours[h]
              /\ ~ (h + Retention <= now) => Lasting(s).hours[h] = s.hours[h]
         /\ \A d \in Days :
              /\ d >= DayOf(now - Retention) => Windowed(s).days[d] = s.days[d]
              /\ ~Expired(d, Retention) => Lasting(s).days[d] = s.days[d]
              /\ ~Expired(d, DayTtl) => Lasting(s).client[d] = s.client[d]
              /\ Windowed(s).routes[d] \subseteq s.routes[d]
              /\ Lasting(s).routes[d] \subseteq s.routes[d]
              /\ ~Expired(d, Retention) => Lasting(s).routes[d] = s.routes[d]
         /\ Windowed(s).totals = s.totals /\ Lasting(s).totals = s.totals
  <1>1. /\ Windowed(s).totals = s.totals /\ Lasting(s).totals = s.totals
        /\ Windowed(s).hours = [h \in Hours |-> IF h >= now - Retention THEN s.hours[h] ELSE Zero]
        /\ Windowed(s).days =
             [d \in Days |-> IF d >= DayOf(now - Retention) THEN s.days[d] ELSE Zero]
        /\ Windowed(s).routes =
             [d \in Days |-> IF d >= DayOf(now - Retention) THEN s.routes[d] ELSE {}]
        /\ Lasting(s).hours = [h \in Hours |-> IF h + Retention <= now THEN Zero ELSE s.hours[h]]
        /\ Lasting(s).days = [d \in Days |-> IF Expired(d, Retention) THEN Zero ELSE s.days[d]]
        /\ Lasting(s).routes = [d \in Days |-> IF Expired(d, Retention) THEN {} ELSE s.routes[d]]
        /\ Lasting(s).client = [d \in Days |-> IF Expired(d, DayTtl) THEN 0 ELSE s.client[d]]
    BY DEF Windowed, Lasting, Store
  <1> QED BY <1>1

\* While nothing is counted or executed, a shared store has what it had, for
\* as long as it is kept.
LEMMA SharesKept ==
  ASSUME TypeOK, Shares, \A h \in Hours : Counted'[h] = Counted[h],
         durable' = durable, now \in Int, now' \in Int, now' >= now,
         \/ store'[Shared] = store[Shared]
         \/ now' = now /\ store'[Shared] = Lasting(store[Shared])
  PROVE  Shares'
  <1> SUFFICES ASSUME durable PROVE Shares'
    BY DEF Shares
  <1> DEFINE s == store[Shared]
             sp == store'[Shared]
             f == Counted
             fp == Counted'
  <1>1. s \in Store
    BY DEF TypeOK
  <1>2. Hours \subseteq Int /\ Days \subseteq Int /\ {HoursPerDay, Retention, DayTtl} \subseteq Nat
    BY HoursAndDays, CountersAssumption
  <1>3. \A h \in Hours : h + Retention > now' => h + Retention > now /\ ~ (h + Retention <= now')
    BY <1>2
  <1>4. /\ \A d \in Days : ~Expired(d, Retention)' => ~Expired(d, Retention)
        /\ \A d \in Days : ~Expired(d, DayTtl)' => ~Expired(d, DayTtl)
    BY <1>2 DEF Expired
  <1>5. /\ \A d \in Days : Sum(fp, HoursOf(d)) = Sum(f, HoursOf(d))
        /\ Sum(fp, Hours) = Sum(f, Hours)
    <2>1. \A h \in Hours : fp[h] = f[h]
      OBVIOUS
    <2> HIDE DEF f, fp
    <2>2. ASSUME NEW d \in Days PROVE Sum(fp, HoursOf(d)) = Sum(f, HoursOf(d))
      <3>1. \A h \in HoursOf(d) : fp[h] = f[h]
        BY <2>1 DEF HoursOf
      <3> QED BY <3>1, SumAgrees
    <2>3. Sum(fp, Hours) = Sum(f, Hours)
      BY <2>1, SumAgrees
    <2> QED BY <2>2, <2>3
  <1>6. /\ \A h \in Hours : h + Retention > now' => sp.hours[h] = s.hours[h]
        /\ \A d \in Days : ~Expired(d, Retention)' => sp.days[d] = s.days[d]
        /\ \A d \in Days : ~Expired(d, DayTtl)' => sp.client[d] = s.client[d]
        /\ sp.totals = s.totals
    <2>1. CASE sp = s
      BY <2>1
    <2>2. CASE now' = now /\ sp = Lasting(s)
      <3>1. \A d \in Days : /\ Expired(d, Retention)' <=> Expired(d, Retention)
                            /\ Expired(d, DayTtl)' <=> Expired(d, DayTtl)
        BY <2>2 DEF Expired
      <3> HIDE DEF s
      <3>2. /\ \A h \in Hours : h + Retention > now' => Lasting(s).hours[h] = s.hours[h]
            /\ \A d \in Days : ~Expired(d, Retention)' => Lasting(s).days[d] = s.days[d]
            /\ \A d \in Days : ~Expired(d, DayTtl)' => Lasting(s).client[d] = s.client[d]
            /\ Lasting(s).totals = s.totals
        BY <1>1, <1>3, <2>2, <3>1, ForgottenFields
      <3> QED BY <2>2, <3>2
    <2> QED BY <2>1, <2>2
  <1>7. /\ \A h \in Hours : h + Retention > now => s.hours[h] = f[h]
        /\ \A d \in Days : ~Expired(d, Retention) => s.days[d] = Sum(f, HoursOf(d))
        /\ \A d \in Days : ~Expired(d, DayTtl) => s.client[d] = Sum(f, HoursOf(d)).b
        /\ s.totals = Sum(f, Hours)
    BY DEF Shares
  <1>8. \A h \in Hours : fp[h] = f[h]
    OBVIOUS
  <1>9. /\ \A h \in Hours : h + Retention > now' => sp.hours[h] = fp[h]
        /\ \A d \in Days : ~Expired(d, Retention)' => sp.days[d] = Sum(fp, HoursOf(d))
        /\ \A d \in Days : ~Expired(d, DayTtl)' => sp.client[d] = Sum(fp, HoursOf(d)).b
        /\ sp.totals = Sum(fp, Hours)
    <2> HIDE DEF s, sp, f, fp
    <2> QED BY <1>3, <1>4, <1>5, <1>6, <1>7, <1>8
  <1> QED BY <1>9 DEF Shares

\* A pipeline is executed: everything it touches is touched alike.
LEMMA SharesExecuted ==
  ASSUME TypeOK, TypeOK', Shares, NEW k \in Tasks, Execute(k)
  PROVE  Shares'
  <1> DEFINE r == task[k]
             n == r.n
             s == store[Shared]
             sp == store'[Shared]
             f == Counted
             fp == Counted'
  <1>1. /\ r \in Task /\ sp = Bumped(s, r) /\ s \in Store
        /\ now' = now /\ durable' = durable
    BY ExecuteType DEF Execute, TypeOK
  <1>2. r.hour \in Hours /\ n \in Count /\ n \in Net
    BY <1>1, CountsAdd DEF Task
  <1>3. \A h \in Hours : fp[h] = IF h = r.hour THEN Add(f[h], n) ELSE f[h]
    BY ExecuteCounts
  <1>4. \A h \in Hours : f[h] \in Net
    BY CountedIs
  <1>5. /\ \A d \in Days : Sum(fp, HoursOf(d)) = IF d = DayOf(r.hour)
                 THEN Add(Sum(f, HoursOf(d)), n) ELSE Sum(f, HoursOf(d))
        /\ Sum(fp, Hours) = Add(Sum(f, Hours), n)
        /\ \A d \in Days : Sum(f, HoursOf(d)) \in Net
    <2> HIDE DEF f, fp, n, r
    <2>1. fp[r.hour] = Add(f[r.hour], n) /\ \A h \in Hours \ {r.hour} : fp[h] = f[h]
      BY <1>2, <1>3
    <2> DEFINE x == r.hour
    <2>2. x \in Hours /\ fp[x] = Add(f[x], n) /\ \A h \in Hours \ {x} : fp[h] = f[h]
      BY <1>2, <2>1
    <2> HIDE DEF x
    <2>3. /\ \A d \in Days : Sum(fp, HoursOf(d)) = IF d = DayOf(x)
                   THEN Add(Sum(f, HoursOf(d)), n) ELSE Sum(f, HoursOf(d))
          /\ Sum(fp, Hours) = Add(Sum(f, Hours), n)
          /\ \A d \in Days : Sum(f, HoursOf(d)) \in Net
      BY <1>2, <1>4, <2>2, MoreSums
    <2> QED BY <2>3 DEF x
  <1>6. /\ \A h \in Hours : sp.hours[h] = IF h = r.hour THEN Add(s.hours[h], n) ELSE s.hours[h]
        /\ \A d \in Days : sp.days[d]
             = IF d = DayOf(r.hour) THEN Add(s.days[d], n) ELSE s.days[d]
        /\ \A d \in Days : sp.client[d]
             = IF d = DayOf(r.hour) THEN s.client[d] + n.b ELSE s.client[d]
        /\ sp.totals = Add(s.totals, n)
    <2> HIDE DEF s, r
    <2>1. /\ \A h \in Hours : Bumped(s, r).hours[h]
                = IF h = r.hour THEN Add(s.hours[h], r.n) ELSE s.hours[h]
          /\ \A d \in Days : Bumped(s, r).days[d]
                = IF d = DayOf(r.hour) THEN Add(s.days[d], r.n) ELSE s.days[d]
          /\ \A d \in Days : Bumped(s, r).client[d]
                = IF d = DayOf(r.hour) THEN s.client[d] + r.n.b ELSE s.client[d]
          /\ Bumped(s, r).totals = Add(s.totals, r.n)
      BY <1>1, <1>2, BumpedFields
    <2> QED BY <1>1, <2>1
  <1>7. \A c, e \in Net : Add(c, e).b = c.b + e.b
    BY DEF Add
  <1>8. ASSUME durable
        PROVE  /\ \A h \in Hours : h + Retention > now => sp.hours[h] = fp[h]
               /\ \A d \in Days : ~Expired(d, Retention) => sp.days[d] = Sum(fp, HoursOf(d))
               /\ \A d \in Days : ~Expired(d, DayTtl) => sp.client[d] = Sum(fp, HoursOf(d)).b
               /\ sp.totals = Sum(fp, Hours)
    <2>1. /\ \A h \in Hours : h + Retention > now => s.hours[h] = f[h]
          /\ \A d \in Days : ~Expired(d, Retention) => s.days[d] = Sum(f, HoursOf(d))
          /\ \A d \in Days : ~Expired(d, DayTtl) => s.client[d] = Sum(f, HoursOf(d)).b
          /\ s.totals = Sum(f, Hours)
      BY <1>8 DEF Shares
    <2> HIDE DEF s, sp, f, fp, n, r
    <2>2. \A h \in Hours : h + Retention > now => sp.hours[h] = fp[h]
      BY <1>3, <1>6, <2>1
    <2>3. \A d \in Days : ~Expired(d, Retention) => sp.days[d] = Sum(fp, HoursOf(d))
      BY <1>5, <1>6, <2>1
    <2>4. \A d \in Days : ~Expired(d, DayTtl) => sp.client[d] = Sum(fp, HoursOf(d)).b
      <3> TAKE d \in Days
      <3> HAVE ~Expired(d, DayTtl)
      <3>1. s.client[d] = Sum(f, HoursOf(d)).b
        BY <2>1
      <3>2. CASE d = DayOf(r.hour)
        <4>1. Sum(fp, HoursOf(d)) = Add(Sum(f, HoursOf(d)), n) /\ Sum(f, HoursOf(d)) \in Net
          BY <1>5, <3>2
        <4>2. Add(Sum(f, HoursOf(d)), n).b = Sum(f, HoursOf(d)).b + n.b
          BY <1>2, <1>7, <4>1
        <4> QED BY <1>6, <3>1, <3>2, <4>1, <4>2
      <3>3. CASE d # DayOf(r.hour)
        BY <1>5, <1>6, <3>1, <3>3
      <3> QED BY <3>2, <3>3
    <2> QED BY <1>5, <1>6, <2>1, <2>2, <2>3, <2>4
  <1> QED BY <1>1, <1>8 DEF Shares, Expired

\* A step keeps what a shared store has to have.
LEMMA SharesNext == TypeOK /\ TypeOK' /\ Shares /\ [Next]_vars => Shares'
  <1> SUFFICES ASSUME TypeOK, TypeOK', Shares, [Next]_vars PROVE Shares'
    OBVIOUS
  <1>0. now \in Int /\ now' \in Int
    BY HoursAndDays DEF TypeOK
  <1>1. ASSUME NEW i \in Instances, NEW k \in Tasks, NEW n \in Calls,
               NEW r \in Routes \cup {None}, RecordShared(i, k, n, r)
        PROVE  Shares'
    <2>1. \A h \in Hours : Counted'[h] = Counted[h]
      BY <1>1, RecordSharedCounts
    <2>2. durable' = durable /\ now' = now /\ store' = store
      BY <1>1 DEF RecordShared
    <2> QED BY <1>0, <2>1, <2>2, SharesKept
  <1>2. ASSUME NEW i \in Instances, NEW n \in Calls, NEW r \in Routes \cup {None},
               RecordMemory(i, n, r)
        PROVE  Shares'
    BY <1>2 DEF RecordMemory, Shares
  <1>3. ASSUME NEW k \in Tasks, Execute(k) PROVE Shares'
    BY <1>3, SharesExecuted
  <1>4. ASSUME NEW k \in Tasks, Answered(k) PROVE Shares'
    <2>1. \A h \in Hours : Counted'[h] = Counted[h]
      BY <1>4, AnsweredCounts
    <2>2. durable' = durable /\ now' = now /\ store' = store
      BY <1>4 DEF Answered
    <2> QED BY <1>0, <2>1, <2>2, SharesKept
  <1>5. ASSUME NEW k \in Tasks, Unanswered(k) PROVE Shares'
    <2>1. \A h \in Hours : Counted'[h] = Counted[h]
      BY <1>5, UnansweredCounts
    <2>2. durable' = durable /\ now' = now /\ store' = store
      BY <1>5 DEF Unanswered
    <2> QED BY <1>0, <2>1, <2>2, SharesKept
  <1>6. ASSUME UNCHANGED <<lines, task, missed>>, durable' = durable, now' >= now,
               \/ store'[Shared] = store[Shared]
               \/ now' = now /\ store'[Shared] = Lasting(store[Shared])
        PROVE  Shares'
    <2>1. \A h \in Hours : \A k \in Tasks : Owes(h)'[k] = Owes(h)[k]
      BY <1>6 DEF Owes, Owed, Busy
    <2>2. \A h \in Hours : Counted'[h] = Counted[h]
      BY <1>6, <2>1, CountedSame
    <2> QED BY <1>0, <1>6, <2>2, SharesKept
  <1>7. ASSUME NEW i \in Instances, ReadFails(i) PROVE Shares'
    BY <1>0, <1>6, <1>7 DEF ReadFails
  <1>8. ASSUME NEW i \in Instances, ReadWindow(i) PROVE Shares'
    BY <1>8 DEF ReadWindow, Shares
  <1>9. ASSUME NEW i \in Instances, Restart(i) PROVE Shares'
    <2>1. \A h \in Hours : Counted'[h] = Counted[h]
      BY <1>9, RestartCounts
    <2>2. durable' = durable /\ now' = now /\ (durable => store' = store)
      BY <1>9 DEF Restart
    <2>3. CASE durable
      BY <1>0, <2>1, <2>2, <2>3, SharesKept
    <2>4. CASE ~durable
      BY <2>2, <2>4 DEF Shares
    <2> QED BY <2>3, <2>4
  <1>10. CASE Expire
    <2>1. store'[Shared] = Lasting(store[Shared])
      BY <1>10, Forgetting DEF TypeOK
    <2>2. UNCHANGED <<lines, task, missed, now>> /\ durable' = durable
      BY <1>10 DEF Expire
    <2> QED BY <1>0, <1>6, <2>1, <2>2
  <1>11. CASE Tick
    BY <1>0, <1>6, <1>11 DEF Tick
  <1>12. CASE UNCHANGED vars
    BY <1>0, <1>6, <1>12 DEF vars
  <1> QED BY <1>1, <1>2, <1>3, <1>4, <1>5, <1>7, <1>8, <1>9, <1>10, <1>11, <1>12 DEF Next

\* The window only moves forward.
LEMMA WindowMoves ==
  ASSUME TypeOK, TypeOK', now' >= now
  PROVE  /\ \A h \in Hours : h >= now' - Retention => h >= now - Retention
         /\ \A d \in Days : d >= DayOf(now' - Retention) => d >= DayOf(now - Retention)
  <1> DEFINE m == now'
  <1>1. now \in Int /\ m \in Int /\ m >= now /\ Retention \in Int /\ Hours \subseteq Int
    BY HoursAndDays, CountersAssumption DEF TypeOK
  <1> HIDE DEF m
  <1>2. \A h \in Hours : h >= m - Retention => h >= now - Retention
    BY <1>1
  <1>3. \A d \in Days : d >= DayOf(m - Retention) => d >= DayOf(now - Retention)
    <2>1. /\ now - Retention \in Int /\ m - Retention \in Int
          /\ now - Retention <= m - Retention
      BY <1>1
    <2>2. /\ DayOf(now - Retention) \in Int /\ DayOf(m - Retention) \in Int
          /\ DayOf(now - Retention) <= DayOf(m - Retention)
      BY <2>1, DaysInOrder
    <2> QED BY <2>2, HoursAndDays
  <1> QED BY <1>2, <1>3 DEF m

\* So does a memory store: it counts as it logs, and it is rebuilt from the
\* log.
LEMMA ReplaysNext == TypeOK /\ TypeOK' /\ Replays /\ [Next]_vars => Replays'
  <1> SUFFICES ASSUME TypeOK, TypeOK', Replays, [Next]_vars,
                      ~durable', sink', NEW i \in Instances
               PROVE  /\ \A h \in Hours : h >= now' - Retention
                           => store'[i].hours[h] = lines'[i][h]
                      /\ \A d \in Days : d >= DayOf(now' - Retention)
                           => store'[i].days[d] = Sum(lines'[i], HoursOf(d))
                      /\ store'[i].totals = Sum(lines'[i], Hours)
    BY DEF Replays
  <1> DEFINE s == store[i]
             sp == store'[i]
             f == lines[i]
             fp == lines'[i]
             Kept == /\ \A h \in Hours : h >= now' - Retention => sp.hours[h] = fp[h]
                     /\ \A d \in Days : d >= DayOf(now' - Retention)
                          => sp.days[d] = Sum(fp, HoursOf(d))
                     /\ sp.totals = Sum(fp, Hours)
  <1>0. /\ now \in Int /\ now' \in Int /\ Retention \in Int /\ Hours \subseteq Int
        /\ Days \subseteq Int /\ s \in Store /\ f \in [Hours -> Count]
        /\ durable' = durable /\ sink' = sink
    <2>1. durable' = durable /\ sink' = sink
      BY DEF Next, RecordShared, RecordMemory, Execute, Answered, Unanswered, ReadFails,
             ReadWindow, Restart, Expire, Tick, vars
    <2>2. now \in Hours /\ now' \in Hours /\ s \in Store /\ f \in [Hours -> Count]
      BY DEF TypeOK
    <2>3. Hours \subseteq Int /\ Days \subseteq Int /\ Retention \in Int
      BY HoursAndDays, CountersAssumption
    <2> HIDE DEF s, f
    <2> QED BY <2>1, <2>2, <2>3
  <1>1. /\ \A h \in Hours : h >= now - Retention => s.hours[h] = f[h]
        /\ \A d \in Days : d >= DayOf(now - Retention) => s.days[d] = Sum(f, HoursOf(d))
        /\ s.totals = Sum(f, Hours)
    BY <1>0 DEF Replays
  <1>2. ASSUME fp = f, now' >= now,
               sp = s \/ (now' = now /\ sp = Windowed(s))
        PROVE  Kept
    <2>1. /\ \A h \in Hours : h >= now' - Retention => h >= now - Retention
          /\ \A d \in Days : d >= DayOf(now' - Retention) => d >= DayOf(now - Retention)
      BY <1>2, WindowMoves
    <2> HIDE DEF s, sp, f, fp
    <2>3. CASE sp = s
      BY <1>1, <1>2, <2>1, <2>3
    <2>4. CASE now' = now /\ sp = Windowed(s)
      <3>1. /\ \A h \in Hours : h >= now - Retention => Windowed(s).hours[h] = s.hours[h]
            /\ \A d \in Days : d >= DayOf(now - Retention) => Windowed(s).days[d] = s.days[d]
            /\ Windowed(s).totals = s.totals
        BY <1>0, ForgottenFields
      <3> QED BY <1>1, <1>2, <2>1, <2>4, <3>1
    <2> QED BY <1>2, <2>3, <2>4
  <1>3. ASSUME NEW j \in Instances, NEW n \in Calls, NEW route \in Routes \cup {None},
               RecordMemory(j, n, route)
        PROVE  Kept
    <2>1. CASE j # i
      <3>1. fp = f /\ sp = s /\ now' = now
        BY <1>3, <2>1 DEF RecordMemory, TypeOK
      <3> HIDE DEF Kept, s, sp, f, fp
      <3>2. now' >= now
        BY <1>0, <3>1
      <3> QED BY <1>2, <3>1, <3>2
    <2>2. CASE j = i
      <3>1. PICK x : store' = [store EXCEPT ![i] = Bumped(store[i],
                                 [hour |-> now, n |-> n, route |-> x])]
        BY <1>3, <2>2 DEF RecordMemory, TypeOK
      <3> DEFINE r == [hour |-> now, n |-> n, route |-> x]
      <3>2. sp = Bumped(s, r) /\ r.hour = now /\ r.n = n /\ now' = now
        BY <1>3, <3>1 DEF RecordMemory, TypeOK
      <3>3. n \in Count /\ n \in Net /\ now \in Hours /\ \A h \in Hours : f[h] \in Net
        BY <1>0, CountersAssumption, CountsAdd DEF TypeOK, Count
      <3>4. fp[now] = Add(f[now], n) /\ \A h \in Hours \ {now} : fp[h] = f[h]
        BY <1>3, <2>2, <3>3 DEF RecordMemory, TypeOK
      <3> HIDE DEF r, s, f, fp, sp
      <3>5. /\ \A h \in Hours : Bumped(s, r).hours[h]
                  = IF h = now THEN Add(s.hours[h], n) ELSE s.hours[h]
            /\ \A d \in Days : Bumped(s, r).days[d]
                  = IF d = DayOf(now) THEN Add(s.days[d], n) ELSE s.days[d]
            /\ Bumped(s, r).totals = Add(s.totals, n)
        <4>1. r.hour \in Hours /\ r.n \in Count
          BY <3>2, <3>3
        <4>2. /\ \A h \in Hours : Bumped(s, r).hours[h]
                    = IF h = r.hour THEN Add(s.hours[h], r.n) ELSE s.hours[h]
              /\ \A d \in Days : Bumped(s, r).days[d]
                    = IF d = DayOf(r.hour) THEN Add(s.days[d], r.n) ELSE s.days[d]
              /\ Bumped(s, r).totals = Add(s.totals, r.n)
          BY <1>0, <4>1, BumpedFields
        <4> QED BY <3>2, <4>2
      <3>6. /\ \A d \in Days : Sum(fp, HoursOf(d)) = IF d = DayOf(now)
                   THEN Add(Sum(f, HoursOf(d)), n) ELSE Sum(f, HoursOf(d))
            /\ Sum(fp, Hours) = Add(Sum(f, Hours), n)
        BY <3>3, <3>4, MoreSums
      <3>7. \A h \in Hours : h >= now' - Retention => sp.hours[h] = fp[h]
        BY <1>1, <3>2, <3>4, <3>5
      <3>8. \A d \in Days : d >= DayOf(now' - Retention) => sp.days[d] = Sum(fp, HoursOf(d))
        BY <1>1, <3>2, <3>5, <3>6
      <3>9. sp.totals = Sum(fp, Hours)
        BY <1>1, <3>2, <3>5, <3>6
      <3> QED BY <3>7, <3>8, <3>9
    <2> QED BY <2>1, <2>2
  <1>4. ASSUME NEW j \in Instances, Restart(j)
        PROVE  Kept
    <2>1. CASE j # i
      <3>1. fp = f /\ sp = s /\ now' = now
        BY <1>4, <2>1 DEF Restart, TypeOK
      <3> HIDE DEF Kept, s, sp, f, fp
      <3>2. now' >= now
        BY <1>0, <3>1
      <3> QED BY <1>2, <3>1, <3>2
    <2>2. CASE j = i
      <3>1. fp = f /\ sp = Replayed(f)
        BY <1>0, <1>4, <2>2 DEF Restart, TypeOK
      <3>2. /\ Replayed(f).hours = f /\ Replayed(f).totals = Sum(f, Hours)
            /\ Replayed(f).days = [d \in Days |-> Sum(f, HoursOf(d))]
        BY DEF Replayed, EmptyStore
      <3> QED BY <3>1, <3>2
    <2> QED BY <2>1, <2>2
  <1>5. ASSUME NEW j \in Instances, ReadWindow(j)
        PROVE  Kept
    <2>1. store' = [store EXCEPT ![j] = Windowed(store[j])]
      BY <1>5, Forgetting
    <2>2. fp = f /\ now' = now
      BY <1>5 DEF ReadWindow
    <2>3. sp = IF j = i THEN Windowed(s) ELSE s
      BY <2>1 DEF TypeOK
    <2> HIDE DEF Kept, s, sp, f, fp
    <2>4. now' >= now
      BY <1>0, <2>2
    <2> QED BY <1>2, <2>2, <2>3, <2>4
  <1>6. ASSUME Tick PROVE Kept
    <2>1. fp = f /\ sp = s /\ now' = now + 1
      BY <1>6 DEF Tick
    <2>2. now' >= now
      BY <1>0, <2>1
    <2> HIDE DEF Kept, s, sp, f, fp
    <2>3. sp = s \/ (now' = now /\ sp = Windowed(s))
      BY <2>1
    <2> QED BY <1>2, <2>1, <2>2, <2>3
  <1>7. ASSUME UNCHANGED vars PROVE Kept
    <2>1. fp = f /\ sp = s /\ now' = now
      BY <1>7 DEF vars
    <2> HIDE DEF Kept, s, sp, f, fp
    <2>2. now' >= now
      BY <1>0, <2>1
    <2> QED BY <1>2, <2>1, <2>2
  <1>8. ASSUME UNCHANGED <<lines, store, now>>
        PROVE  Kept
    <2>1. fp = f /\ sp = s /\ now' = now
      BY <1>8
    <2> HIDE DEF Kept, s, sp, f, fp
    <2>2. now' >= now
      BY <1>0, <2>1
    <2> QED BY <1>2, <2>1, <2>2
  <1>9. ASSUME NEW k \in Tasks, Execute(k) PROVE Kept
    <2>1. sp = s
      BY <1>9, ExecuteType, CountersAssumption DEF TypeOK
    <2>2. fp = f /\ now' = now
      BY <1>9 DEF Execute
    <2> HIDE DEF Kept, s, sp, f, fp
    <2>3. now' >= now
      BY <1>0, <2>2
    <2> QED BY <1>2, <2>1, <2>2, <2>3
  <1>10. ASSUME NEW k \in Tasks, Answered(k) \/ Unanswered(k) PROVE Kept
    BY <1>8, <1>10 DEF Answered, Unanswered
  <1>11. \A j \in Instances, k \in Tasks, n \in Calls, r \in Routes \cup {None} :
           ~RecordShared(j, k, n, r)
    BY <1>0 DEF RecordShared
  <1>12. \A j \in Instances : ~ReadFails(j)
    BY <1>0 DEF ReadFails
  <1>13. ~Expire
    BY <1>0 DEF Expire
  <1> HIDE DEF Kept
  <1>14. ASSUME Next PROVE Kept
    BY <1>3, <1>4, <1>5, <1>6, <1>9, <1>10, <1>11, <1>12, <1>13, <1>14, Zenon DEF Next
  <1>15. Kept
    BY <1>7, <1>14
  <1> QED BY <1>15 DEF Kept

\* A lost write is admitted to in the step that loses it.
LEMMA AdmitsNext == TypeOK /\ TypeOK' /\ Admits /\ [Next]_vars => Admits'
  <1> SUFFICES ASSUME TypeOK, TypeOK', Admits, [Next]_vars PROVE Admits'
    OBVIOUS
  <1>1. ASSUME NEW k \in Tasks, Unanswered(k) PROVE Admits'
    <2>1. task[k].inst \in Instances
      BY <1>1, BusyTask DEF Unanswered, Task
    <2>2. degraded'[task[k].inst]
      BY <1>1, <2>1 DEF Unanswered, TypeOK
    <2> QED BY <2>1, <2>2 DEF Admits
  <1>2. ASSUME NEW i \in Instances, Restart(i) PROVE Admits'
    <2>1. restarts' # 0
      BY <1>2 DEF Restart, TypeOK
    <2> QED BY <2>1 DEF Admits
  <1>3. ASSUME NEW i \in Instances, ReadFails(i) PROVE Admits'
    BY <1>3 DEF ReadFails, TypeOK, Admits
  <1>4. ASSUME UNCHANGED <<durable, missed, restarts, degraded>> PROVE Admits'
    BY <1>4 DEF Admits
  <1> QED BY <1>1, <1>2, <1>3, <1>4 DEF Next, RecordShared, RecordMemory, Execute, Answered,
             ReadWindow, Expire, Tick, vars

\* The counters and the log tell the same story (telemetry.py:645), for any
\* number of instances, calls and restarts and any retention: what /metrics and
\* /metrics/calls add up is what the log has, but for the pipelines under way
\* and those that were lost, which a live instance admits to.
THEOREM CountersAgreeWithTheLog == Spec => []CountersMatchLog
  <1>1. Init => Shares /\ Replays /\ Admits
    <2> SUFFICES ASSUME Init PROVE Shares /\ Replays /\ Admits
      OBVIOUS
    <2>1. TypeOK
      BY TypeInit
    <2>2. \A h \in Hours : NoHours[h] = Zero
      BY DEF NoHours
    <2>3. \A h \in Hours : Counted[h] = Zero
      <3> TAKE h \in Hours
      <3> DEFINE l == Logged(h)
                 o == Owes(h)
      <3>1. /\ \A i \in Instances : l[i] = Zero
            /\ \A k \in Tasks : o[k] = Zero
            /\ missed[h] = Zero
        BY <2>2 DEF Init, Logged, Owes, Owed, Busy
      <3>2. Counted[h] = Take(Sum(l, Instances), Add(Sum(o, Tasks), missed[h]))
        BY <2>1, CountedIs
      <3> HIDE DEF l, o
      <3>3. Sum(l, Instances) = Zero /\ Sum(o, Tasks) = Zero
        BY <3>1, SumNothing, CountersAssumption
      <3>4. Take(Zero, Add(Zero, Zero)) = Zero
        BY DEF Take, Add, Zero
      <3> QED BY <3>1, <3>2, <3>3, <3>4
    <2>4. ASSUME NEW f, \A h \in Hours : f[h] = Zero
          PROVE  Sum(f, Hours) = Zero /\ \A d \in Days : Sum(f, HoursOf(d)) = Zero
      <3>1. Sum(f, Hours) = Zero
        <4>1. IsFiniteSet(Hours)
          BY HoursAndDays
        <4> QED BY <2>4, <4>1, SumNothing
      <3>2. ASSUME NEW d \in Days PROVE Sum(f, HoursOf(d)) = Zero
        <4>1. IsFiniteSet(HoursOf(d)) /\ \A h \in HoursOf(d) : f[h] = Zero
          BY <2>4, HoursAndDays DEF HoursOf
        <4> QED BY <4>1, SumNothing
      <3> QED BY <3>1, <3>2
    <2>5. \A s \in Instances \cup {Shared} :
            /\ \A h \in Hours : store[s].hours[h] = Zero
            /\ \A d \in Days : store[s].days[d] = Zero /\ store[s].client[d] = 0
            /\ store[s].totals = Zero
      <3>1. /\ EmptyStore.hours = NoHours /\ EmptyStore.totals = Zero
            /\ EmptyStore.days = [d \in Days |-> Zero]
            /\ EmptyStore.client = [d \in Days |-> 0]
        BY DEF EmptyStore
      <3> QED BY <2>2, <3>1 DEF Init
    <2>6. Shares
      <3> DEFINE f == Counted
      <3>1. \A h \in Hours : f[h] = Zero
        BY <2>3
      <3> HIDE DEF f
      <3>2. Sum(f, Hours) = Zero /\ \A d \in Days : Sum(f, HoursOf(d)) = Zero
        BY <3>1, <2>4
      <3>3. Zero.b = 0
        BY DEF Zero
      <3> QED BY <2>5, <3>1, <3>2, <3>3 DEF Shares, f
    <2>7. Replays
      <3> SUFFICES ASSUME NEW i \in Instances
                   PROVE  /\ \A h \in Hours : store[i].hours[h] = lines[i][h]
                          /\ \A d \in Days : store[i].days[d] = Sum(lines[i], HoursOf(d))
                          /\ store[i].totals = Sum(lines[i], Hours)
        BY DEF Replays
      <3> DEFINE f == lines[i]
      <3>1. \A h \in Hours : f[h] = Zero
        BY <2>2 DEF Init
      <3> HIDE DEF f
      <3>2. Sum(f, Hours) = Zero /\ \A d \in Days : Sum(f, HoursOf(d)) = Zero
        BY <3>1, <2>4
      <3> QED BY <2>5, <3>1, <3>2 DEF f
    <2>8. Admits
      BY DEF Init, Admits
    <2> QED BY <2>6, <2>7, <2>8
  <1>2. TypeOK /\ TypeOK' /\ (Shares /\ Replays /\ Admits) /\ [Next]_vars
          => (Shares /\ Replays /\ Admits)'
    BY SharesNext, ReplaysNext, AdmitsNext
  <1>3. TypeOK /\ Shares /\ Replays /\ Admits => CountersMatchLog
    BY MatchFollows
  <1> QED BY <1>1, <1>2, <1>3, TypeCorrect, PTL DEF Spec

-----------------------------------------------------------------------------
(* The route histogram. Fix a day. An instance is full when it takes the    *)
(* day to be at the cap; from then on it sends only routes it has sent      *)
(* before. A route is astray when an instance has sent it and the histogram *)
(* does not list it, and no write that would list it is under way, or one   *)
(* is, from an instance that is full by now: that one comes on top of the   *)
(* cap. An answer has told when the instance that waits for it is not full  *)
(* and will be once it arrives. Every route on top of the cap, and every    *)
(* route astray, is owed to a life of an instance that is full or over,     *)
(* which owes at most one for each of its tasks, to an answer that has      *)
(* told, or to a fault. That is until Redis drops the key of the day.       *)

Listed(d) == store[Shared].routes[d]
Full(i, d) == len[i][d] >= RouteCap
FullOnes(d) == {i \in Instances : Full(i, d)}
Carries(k, d) == Busy(k) /\ DayOf(task[k].hour) = d /\ task[k].route # None
Way(i, d) == {k \in Tasks : Carries(k, d) /\ ~task[k].done /\ task[k].inst = i}
Astray(d) ==
  {r \in Routes : /\ r \notin Listed(d)
                  /\ \E i \in Instances :
                       /\ r \in seen[i][d]
                       /\ Full(i, d) \/ \A k \in Way(i, d) : task[k].route # r}
Told(d) ==
  {k \in Tasks : /\ Carries(k, d) /\ task[k].done /\ task[k].hlen > RouteCap
                 /\ ~Full(task[k].inst, d)}

\* What n faults, m lives and o answers account for.
Account(n, m, o) == n + m * Cardinality(Tasks) + o
Due(d) == Account(faults, restarts + Cardinality(FullOnes(d)), Cardinality(Told(d)))

Excess(d) ==
  /\ Cardinality(Astray(d)) <= Due(d)
  /\ Cardinality(Listed(d)) + Cardinality(Astray(d)) <= RouteCap + Due(d)

\* What an instance knows of the day, and what one life leaves behind.
Known(d) ==
  /\ \A k \in Tasks : Carries(k, d) => task[k].route \in seen[task[k].inst][d]
  /\ \A i \in Instances :
       /\ Cardinality(seen[i][d]) <= len[i][d]
       /\ Cardinality(seen[i][d]) <= RouteCap
       /\ len[i][d] > 0 => seen[i][d] # {}
  /\ restarts = 0 => \A r \in Listed(d) : \E i \in Instances : r \in seen[i][d]
  /\ restarts = 1 /\ Writers(d) = {} => Cardinality(Listed(d)) <= RouteCap

\* Or the key is gone, and only what was under way by then is listed since.
Undone(d) == {k \in Tasks : Carries(k, d) /\ ~task[k].done}
Few(d) ==
  /\ Expired(d, Retention)
  /\ Cardinality(Listed(d)) + Cardinality(Undone(d)) <= Cardinality(Tasks)

Recent == {d \in Days : d >= DayOf(now) - 1}
Histograms == \A d \in Recent : Known(d) /\ (Excess(d) \/ Few(d))

\* Sizes of finite sets.
LEMMA Fits ==
  ASSUME NEW S, IsFiniteSet(S), NEW T, T \subseteq S
  PROVE  /\ IsFiniteSet(T) /\ Cardinality(S) \in Nat /\ Cardinality(T) \in Nat
         /\ Cardinality(T) <= Cardinality(S)
  BY FS_Subset, FS_CardinalityType

LEMMA OneMore ==
  ASSUME NEW S, IsFiniteSet(S), NEW x, NEW T, T \subseteq S \cup {x}
  PROVE  /\ IsFiniteSet(T) /\ Cardinality(S) \in Nat /\ Cardinality(T) \in Nat
         /\ Cardinality(T) <= Cardinality(S) + 1
  <1> DEFINE U == S \cup {x}
  <1>1. IsFiniteSet(U) /\ Cardinality(U) <= Cardinality(S) + 1 /\ Cardinality(S) \in Nat
    BY FS_AddElement, FS_CardinalityType
  <1>2. T \subseteq U
    OBVIOUS
  <1> HIDE DEF U
  <1>3. IsFiniteSet(T) /\ Cardinality(T) \in Nat /\ Cardinality(U) \in Nat
        /\ Cardinality(T) <= Cardinality(U)
    BY <1>1, <1>2, Fits
  <1> QED BY <1>1, <1>3

LEMMA OneLess ==
  ASSUME NEW S, IsFiniteSet(S), NEW x \in S, NEW T, T \subseteq S \ {x}
  PROVE  /\ IsFiniteSet(T) /\ Cardinality(S) \in Nat /\ Cardinality(T) \in Nat
         /\ Cardinality(T) + 1 <= Cardinality(S)
  <1> DEFINE U == S \ {x}
  <1>1. IsFiniteSet(U) /\ Cardinality(U) = Cardinality(S) - 1 /\ Cardinality(S) \in Nat
    BY FS_RemoveElement, FS_CardinalityType
  <1>2. T \subseteq U
    OBVIOUS
  <1> HIDE DEF U
  <1>3. IsFiniteSet(T) /\ Cardinality(T) \in Nat /\ Cardinality(U) \in Nat
        /\ Cardinality(T) <= Cardinality(U)
    BY <1>1, <1>2, Fits
  <1> QED BY <1>1, <1>3

\* Two parts.
LEMMA TwoParts ==
  ASSUME NEW S, IsFiniteSet(S), NEW T, IsFiniteSet(T), NEW U, U \subseteq S \cup T
  PROVE  /\ IsFiniteSet(U) /\ {Cardinality(S), Cardinality(T), Cardinality(U)} \subseteq Nat
         /\ Cardinality(U) <= Cardinality(S) + Cardinality(T)
  <1> DEFINE V == S \cup T
  <1>1. IsFiniteSet(V) /\ Cardinality(V) = Cardinality(S) + Cardinality(T) - Cardinality(S \cap T)
    BY FS_Union
  <1>2. IsFiniteSet(S \cap T) /\ Cardinality(S \cap T) \in Nat
    <2>1. S \cap T \subseteq S
      OBVIOUS
    <2> QED BY <2>1, Fits
  <1>3. Cardinality(S) \in Nat /\ Cardinality(T) \in Nat
    BY FS_CardinalityType
  <1>4. U \subseteq V
    OBVIOUS
  <1> HIDE DEF V
  <1>5. IsFiniteSet(U) /\ Cardinality(U) \in Nat /\ Cardinality(V) \in Nat
        /\ Cardinality(U) <= Cardinality(V)
    BY <1>1, <1>4, Fits
  <1> QED BY <1>1, <1>2, <1>3, <1>5

LEMMA ApartFit ==
  ASSUME NEW S, IsFiniteSet(S), NEW T, T \subseteq S, NEW U, U \subseteq S, T \cap U = {}
  PROVE  /\ {Cardinality(S), Cardinality(T), Cardinality(U)} \subseteq Nat
         /\ Cardinality(T) + Cardinality(U) <= Cardinality(S)
  <1> DEFINE V == T \cup U
  <1>1. IsFiniteSet(T) /\ IsFiniteSet(U)
    BY Fits
  <1>2. Cardinality(V) = Cardinality(T) + Cardinality(U) - Cardinality(T \cap U)
    BY <1>1, FS_Union
  <1>3. Cardinality(T \cap U) = 0
    BY FS_EmptySet
  <1>4. V \subseteq S
    OBVIOUS
  <1> HIDE DEF V
  <1>5. Cardinality(V) <= Cardinality(S)
        /\ {Cardinality(S), Cardinality(V), Cardinality(T), Cardinality(U)} \subseteq Nat
    BY <1>1, <1>4, Fits
  <1> QED BY <1>2, <1>3, <1>5

LEMMA ImageFits ==
  ASSUME NEW S, IsFiniteSet(S), NEW f
  PROVE  /\ IsFiniteSet({f[x] : x \in S})
         /\ Cardinality({f[x] : x \in S}) <= Cardinality(S)
  <1> DEFINE T == {f[x] : x \in S}
             g == [x \in S |-> f[x]]
  <1>1. g \in Surjection(S, T)
    BY DEF Surjection
  <1> HIDE DEF T, g
  <1>2. IsFiniteSet(T) /\ Cardinality(T) <= Cardinality(S)
    BY <1>1, FS_Surjection
  <1> QED BY <1>2 DEF T

\* What more faults, lives and answers account for.
LEMMA Accounts ==
  ASSUME NEW n \in Nat, NEW m \in Nat, NEW o \in Nat
  PROVE  /\ Account(n, m, o) \in Nat /\ Cardinality(Tasks) \in Nat
         /\ Account(n, m + 1, o) = Account(n, m, o) + Cardinality(Tasks)
         /\ \A x, y \in Nat : Account(n + x, m, o + y) = Account(n, m, o) + x + y
         /\ \A x \in Nat : m <= x => Account(n, m, o) <= Account(n, x, o)
  <1> DEFINE t == Cardinality(Tasks)
  <1>1. t \in Nat
    BY CountersAssumption, FS_CardinalityType
  <1> HIDE DEF t
  <1>2. m * t \in Nat /\ (m + 1) * t = m * t + t
    BY <1>1
  <1>3. ASSUME NEW x \in Nat, m <= x PROVE m * t <= x * t
    <2>1. x - m \in Nat /\ (x - m) * t \in Nat
      BY <1>1, <1>3
    <2>2. x * t = m * t + (x - m) * t
      BY <1>1
    <2>3. x * t \in Nat
      BY <1>1
    <2> QED BY <1>2, <2>1, <2>2, <2>3
  <1>4. \A x \in Nat : x * t \in Nat
    BY <1>1
  <1>5. /\ Account(n, m, o) = n + m * t + o
        /\ Account(n, m + 1, o) = n + (m + 1) * t + o
        /\ \A x, y \in Nat : Account(n + x, m, o + y) = (n + x) + m * t + (o + y)
        /\ \A x \in Nat : Account(n, x, o) = n + x * t + o
    BY DEF Account, t
  <1>6. \A x \in Nat : m <= x => Account(n, m, o) <= Account(n, x, o)
    <2> TAKE x \in Nat
    <2> HAVE m <= x
    <2> DEFINE u == m * t
               v == x * t
    <2>1. u \in Nat /\ v \in Nat /\ u <= v
          /\ Account(n, m, o) = n + u + o /\ Account(n, x, o) = n + v + o
      BY <1>2, <1>3, <1>4, <1>5
    <2> HIDE DEF u, v
    <2> QED BY <2>1
  <1>7. /\ Account(n, m, o) \in Nat
        /\ Account(n, m + 1, o) = Account(n, m, o) + t
        /\ \A x, y \in Nat : Account(n + x, m, o + y) = Account(n, m, o) + x + y
    <2> DEFINE u == m * t
               w == (m + 1) * t
    <2>1. u \in Nat /\ w = u + t /\ Account(n, m, o) = n + u + o /\ Account(n, m + 1, o) = n + w + o
      BY <1>2, <1>5
    <2>2. ASSUME NEW x \in Nat, NEW y \in Nat
          PROVE  Account(n + x, m, o + y) = Account(n, m, o) + x + y
      <3>1. Account(n + x, m, o + y) = (n + x) + u + (o + y)
        BY <1>5
      <3> HIDE DEF u
      <3> QED BY <2>1, <3>1
    <2> HIDE DEF u, w
    <2>3. Account(n, m, o) \in Nat /\ Account(n, m + 1, o) = Account(n, m, o) + t
      BY <1>1, <2>1
    <2> QED BY <2>2, <2>3
  <1> QED BY <1>1, <1>6, <1>7 DEF t

LEMMA MoreAnswers ==
  ASSUME NEW n \in Nat, NEW m \in Nat, NEW o \in Nat, NEW y \in Nat
  PROVE  Account(n, m, o + y) = Account(n, m, o) + y
  <1>1. Account(n + 0, m, o + y) = Account(n, m, o) + 0 + y
    BY Accounts
  <1>2. Account(n, m, o) \in Nat
    BY Accounts
  <1> QED BY <1>1, <1>2

LEMMA MoreLives ==
  ASSUME NEW n \in Nat, NEW m \in Nat
  PROVE  /\ Account(n, m + 1, 0) = Account(n, m, 0) + Cardinality(Tasks)
         /\ Account(n, m, 0) \in Nat
  <1> DEFINE o == 0
  <1>1. o \in Nat
    OBVIOUS
  <1> HIDE DEF o
  <1>2. Account(n, m + 1, o) = Account(n, m, o) + Cardinality(Tasks) /\ Account(n, m, o) \in Nat
    BY <1>1, Accounts
  <1> QED BY <1>2 DEF o

\* The sets of a day are finite.
LEMMA DaySizes ==
  ASSUME TypeOK, NEW d \in Days
  PROVE  /\ Listed(d) \subseteq Routes /\ IsFiniteSet(Listed(d)) /\ Cardinality(Listed(d)) \in Nat
         /\ Astray(d) \subseteq Routes /\ IsFiniteSet(Astray(d)) /\ Cardinality(Astray(d)) \in Nat
         /\ IsFiniteSet(FullOnes(d)) /\ Cardinality(FullOnes(d)) \in Nat
         /\ Told(d) \subseteq Tasks /\ IsFiniteSet(Told(d)) /\ Cardinality(Told(d)) \in Nat
         /\ \A i \in Instances : /\ Way(i, d) \subseteq Tasks /\ IsFiniteSet(Way(i, d))
                                 /\ IsFiniteSet(seen[i][d]) /\ Cardinality(seen[i][d]) \in Nat
                                 /\ len[i][d] \in Nat
         /\ Due(d) \in Nat /\ RouteCap \in Nat
  <1>1. Listed(d) \subseteq Routes
    BY DEF TypeOK, Store, Listed
  <1>2. Astray(d) \subseteq Routes /\ FullOnes(d) \subseteq Instances /\ Told(d) \subseteq Tasks
    BY DEF Astray, FullOnes, Told
  <1>3. \A i \in Instances : /\ Way(i, d) \subseteq Tasks /\ seen[i][d] \subseteq Routes
                             /\ len[i][d] \in Nat
    BY DEF Way, TypeOK
  <1>4. /\ IsFiniteSet(Listed(d)) /\ Cardinality(Listed(d)) \in Nat
        /\ IsFiniteSet(Astray(d)) /\ Cardinality(Astray(d)) \in Nat
        /\ IsFiniteSet(FullOnes(d)) /\ Cardinality(FullOnes(d)) \in Nat
        /\ IsFiniteSet(Told(d)) /\ Cardinality(Told(d)) \in Nat
    BY <1>1, <1>2, Fits, CountersAssumption
  <1>5. \A i \in Instances : /\ IsFiniteSet(Way(i, d)) /\ IsFiniteSet(seen[i][d])
                             /\ Cardinality(seen[i][d]) \in Nat
    BY <1>3, Fits, CountersAssumption
  <1>6. Due(d) \in Nat
    <2>1. faults \in Nat /\ restarts + Cardinality(FullOnes(d)) \in Nat
      BY <1>4 DEF TypeOK
    <2> QED BY <2>1, <1>4, Accounts DEF Due
  <1>7. RouteCap \in Nat
    BY CountersAssumption
  <1> QED BY <1>1, <1>2, <1>3, <1>4, <1>5, <1>6, <1>7

LEMMA DaySizesNext ==
  (TypeOK => \A d \in Days :
     /\ Listed(d) \subseteq Routes /\ IsFiniteSet(Listed(d)) /\ Cardinality(Listed(d)) \in Nat
     /\ Astray(d) \subseteq Routes /\ IsFiniteSet(Astray(d)) /\ Cardinality(Astray(d)) \in Nat
     /\ IsFiniteSet(FullOnes(d)) /\ Cardinality(FullOnes(d)) \in Nat
     /\ Told(d) \subseteq Tasks /\ IsFiniteSet(Told(d)) /\ Cardinality(Told(d)) \in Nat)'
  <1>1. TypeOK => \A d \in Days :
     /\ Listed(d) \subseteq Routes /\ IsFiniteSet(Listed(d)) /\ Cardinality(Listed(d)) \in Nat
     /\ Astray(d) \subseteq Routes /\ IsFiniteSet(Astray(d)) /\ Cardinality(Astray(d)) \in Nat
     /\ IsFiniteSet(FullOnes(d)) /\ Cardinality(FullOnes(d)) \in Nat
     /\ Told(d) \subseteq Tasks /\ IsFiniteSet(Told(d)) /\ Cardinality(Told(d)) \in Nat
    BY DaySizes
  <1> QED BY <1>1, PTL

\* The histogram stays, nothing more is astray and nothing less is due.
LEMMA ExcessKept ==
  ASSUME TypeOK, TypeOK', NEW d \in Days, Listed(d)' = Listed(d),
         Cardinality(Astray(d))' <= Cardinality(Astray(d)), Due(d)' \in Nat, Due(d) <= Due(d)'
  PROVE  Excess(d) => Excess(d)'
  <1> HAVE Excess(d)
  <1> DEFINE l == Cardinality(Listed(d))
             e == Cardinality(Astray(d))
             ep == Cardinality(Astray(d))'
             o == Due(d)
             op == Due(d)'
  <1>1. /\ l \in Nat /\ e \in Nat /\ ep \in Nat /\ o \in Nat /\ op \in Nat /\ RouteCap \in Nat
        /\ ep <= e /\ o <= op /\ e <= o /\ l + e <= RouteCap + o
    BY DaySizes, DaySizesNext DEF Excess
  <1>2. Cardinality(Listed(d))' = l
    OBVIOUS
  <1> HIDE DEF l, e, ep, o, op
  <1>3. ep <= op /\ l + ep <= RouteCap + op
    BY <1>1
  <1> QED BY <1>2, <1>3 DEF Excess, ep, op

\* A day nothing happens to.
LEMMA DayUntouched ==
  ASSUME TypeOK, TypeOK', NEW d \in Days, Known(d),
         Listed(d)' = Listed(d), restarts' = restarts, faults' >= faults,
         \A i \in Instances : seen'[i][d] = seen[i][d] /\ len'[i][d] = len[i][d],
         \A k \in Tasks : (Carries(k, d)' <=> Carries(k, d))
                            /\ (Carries(k, d) => task'[k] = task[k])
  PROVE  Known(d)' /\ (Excess(d) => Excess(d)')
  <1>1. \A k \in Tasks : Carries(k, d) => task[k].inst \in Instances
    BY BusyTask DEF Carries, Task
  <1>2. \A i \in Instances : Full(i, d)' <=> Full(i, d)
    BY DEF Full
  <1>3. \A i \in Instances : Way(i, d)' = Way(i, d)
    BY DEF Way
  <1>4. Told(d)' = Told(d)
    BY <1>1, <1>2 DEF Told
  <1>5. FullOnes(d)' = FullOnes(d)
    BY <1>2 DEF FullOnes
  <1>6. Astray(d)' = Astray(d)
    <2>1. \A i \in Instances : \A k \in Way(i, d) : task'[k] = task[k]
      BY DEF Way
    <2> QED BY <1>2, <1>3, <2>1 DEF Astray
  <1>7. Writers(d)' = Writers(d)
    BY DEF Writers
  <1>8. Known(d)'
    BY <1>1, <1>7 DEF Known
  <1>9. Due(d) <= Due(d)' /\ Due(d)' \in Nat
    <2> DEFINE m == restarts + Cardinality(FullOnes(d))
               o == Cardinality(Told(d))
               g == faults'
               x == g - faults
    <2>0. /\ m \in Nat /\ o \in Nat /\ faults \in Nat /\ g \in Nat /\ g >= faults
      BY DaySizes DEF TypeOK
    <2>1. /\ m \in Nat /\ o \in Nat /\ faults \in Nat /\ x \in Nat
          /\ g = faults + x /\ o + 0 = o
      <3> HIDE DEF g, m, o
      <3> QED BY <2>0
    <2>2. Due(d) = Account(faults, m, o) /\ Due(d)' = Account(faults', m, o)
      BY <1>4, <1>5 DEF Due
    <2> HIDE DEF m, o, x, g
    <2>3. Account(faults + x, m, o + 0) = Account(faults, m, o) + x + 0
      BY <2>1, Accounts
    <2>4. Account(faults, m, o) \in Nat
      BY <2>1, Accounts
    <2> QED BY <2>1, <2>2, <2>3, <2>4 DEF g
  <1>10. Excess(d) => Excess(d)'
    <2>1. Cardinality(Astray(d))' = Cardinality(Astray(d))
      BY <1>6
    <2>2. Cardinality(Astray(d))' <= Cardinality(Astray(d))
      BY <2>1, DaySizes
    <2> QED BY <1>9, <2>2, ExcessKept
  <1> QED BY <1>8, <1>10

\* An instance becomes full: what it has under way is astray from now on, what
\* it had been told has been heard, and a life is accounted for.
LEMMA Filling ==
  ASSUME TypeOK, TypeOK', NEW d \in Days, Listed(d)' = Listed(d),
         UNCHANGED <<restarts, faults>>,
         NEW i \in Instances, ~Full(i, d), Full(i, d)',
         \A j \in Instances \ {i} : Full(j, d)' <=> Full(j, d),
         NEW W, W \subseteq Tasks, NEW M, M \subseteq Tasks, W \cap M = {},
         NEW p, Astray(d)' \subseteq Astray(d) \cup {p[k] : k \in W},
         Told(d) \subseteq Told(d)' \cup M
  PROVE  Excess(d) => Excess(d)'
  <1> HAVE Excess(d)
  <1> DEFINE P == {p[k] : k \in W}
             l == Cardinality(Listed(d))
             e == Cardinality(Astray(d))
             ep == Cardinality(Astray(d))'
             o == Cardinality(Told(d))
             op == Cardinality(Told(d))'
             m == restarts + Cardinality(FullOnes(d))
             w == Cardinality(W)
             u == Cardinality(M)
             t == Cardinality(Tasks)
  <1>1. /\ l \in Nat /\ e \in Nat /\ ep \in Nat /\ o \in Nat /\ op \in Nat /\ m \in Nat
        /\ RouteCap \in Nat /\ faults \in Nat
    BY DaySizes, DaySizesNext DEF TypeOK
  <1>2. w \in Nat /\ u \in Nat /\ t \in Nat /\ w + u <= t /\ IsFiniteSet(W) /\ IsFiniteSet(M)
    BY ApartFit, Fits, CountersAssumption
  <1>3. IsFiniteSet(P) /\ Cardinality(P) \in Nat /\ Cardinality(P) <= w
    <2>1. IsFiniteSet(P) /\ Cardinality(P) <= w
      BY <1>2, ImageFits
    <2> QED BY <2>1, FS_CardinalityType
  <1>4. ep <= e + w
    <2>1. Astray(d)' \subseteq Astray(d) \cup P /\ IsFiniteSet(Astray(d))
      BY DaySizes
    <2> HIDE DEF P, w
    <2>2. Cardinality(Astray(d)') <= Cardinality(Astray(d)) + Cardinality(P)
      BY <2>1, <1>3, TwoParts
    <2>3. ep = Cardinality(Astray(d)')
      OBVIOUS
    <2> HIDE DEF e, ep
    <2>4. ep <= e + Cardinality(P)
      BY <2>2, <2>3 DEF e
    <2> QED BY <1>1, <1>2, <1>3, <2>4
  <1>5. o <= op + u
    <2>1. Told(d) \subseteq Told(d)' \cup M /\ IsFiniteSet(Told(d)') /\ op = Cardinality(Told(d)')
      BY DaySizesNext
    <2> HIDE DEF op
    <2>2. o <= Cardinality(Told(d)') + u
      BY <2>1, <1>2, TwoParts
    <2> QED BY <2>1, <2>2
  <1>6. restarts' + Cardinality(FullOnes(d))' = m + 1
    <2>1. FullOnes(d)' = FullOnes(d) \cup {i} /\ i \notin FullOnes(d)
      BY DEF FullOnes
    <2>2. Cardinality(FullOnes(d) \cup {i}) = Cardinality(FullOnes(d)) + 1
          /\ Cardinality(FullOnes(d)) \in Nat
      BY <2>1, DaySizes, FS_AddElement
    <2> QED BY <2>1, <2>2 DEF TypeOK
  <1>7. Due(d) = Account(faults, m, o) /\ Due(d)' = Account(faults, m + 1, op)
    BY <1>6 DEF Due
  <1> DEFINE a == Account(faults, m, 0)
  <1>8. a \in Nat /\ Account(faults, m, o) = a + o /\ Account(faults, m + 1, op) = a + t + op
    <2> HIDE DEF m, o, op, t
    <2>1. Account(faults + 0, m, 0 + o) = Account(faults, m, 0) + 0 + o
      BY <1>1, Accounts
    <2>2. /\ Account(faults, m + 1, 0) = Account(faults, m, 0) + Cardinality(Tasks)
          /\ Account(faults, m, 0) \in Nat
      BY <1>1, MoreLives
    <2>3. Account(faults + 0, m + 1, 0 + op) = Account(faults, m + 1, 0) + 0 + op
      <3> DEFINE n == m + 1
      <3>1. n \in Nat
        BY <1>1
      <3> HIDE DEF n
      <3>2. Account(faults + 0, n, 0 + op) = Account(faults, n, 0) + 0 + op
        BY <1>1, <3>1, Accounts
      <3> QED BY <3>2 DEF n
    <2> QED BY <1>1, <1>2, <2>1, <2>2, <2>3 DEF t
  <1>9. e <= a + o /\ l + e <= RouteCap + a + o
    <2>1. e <= Due(d) /\ l + e <= RouteCap + Due(d)
      BY DEF Excess
    <2> HIDE DEF l, e, a, o
    <2> QED BY <1>1, <1>7, <1>8, <2>1
  <1>10. Cardinality(Listed(d))' = l
    OBVIOUS
  <1> HIDE DEF l, e, ep, o, op, m, w, u, t, a, P
  <1>11. ep <= a + t + op /\ l + ep <= RouteCap + (a + t + op)
    BY <1>1, <1>2, <1>4, <1>5, <1>8, <1>9
  <1>12. ep <= Due(d)' /\ l + ep <= RouteCap + Due(d)'
    BY <1>7, <1>8, <1>11
  <1> QED BY <1>10, <1>12 DEF Excess, ep

\* A route reaches the histogram.
LEMMA ExecuteDay ==
  ASSUME TypeOK, TypeOK', NEW d \in Days, Known(d), NEW k \in Tasks, Execute(k)
  PROVE  Known(d)' /\ (Excess(d) => Excess(d)')
  <1> DEFINE r == task[k].route
  <1>0. PICK i \in Instances : i = task[k].inst
    BY ExecuteType DEF Task
  <1>1. /\ task[k] \in Task /\ i = task[k].inst /\ task[k].hour \in Hours /\ task[k].n \in Count
        /\ r \in Routes \cup {None} /\ Busy(k) /\ ~task[k].done
        /\ UNCHANGED <<seen, len, restarts, faults>>
    BY <1>0, ExecuteType DEF Execute, Task
  <1>2. Listed(d)' = IF d = DayOf(task[k].hour) THEN Listed(d) \cup ({r} \ {None}) ELSE Listed(d)
    <2> DEFINE s == store[Shared]
               q == task[k]
    <2>1. s \in Store /\ store'[Shared] = Bumped(s, q) /\ q.hour \in Hours /\ q.n \in Count
      BY <1>1, ExecuteType DEF TypeOK
    <2> HIDE DEF s, q
    <2>2. Bumped(s, q).routes[d] = IF d = DayOf(q.hour) THEN s.routes[d] \cup ({q.route} \ {None})
                                   ELSE s.routes[d]
      BY <2>1, BumpedFields
    <2> QED BY <2>1, <2>2 DEF Listed, s, q
  <1>3. PICK x : /\ task' = [task EXCEPT ![k] = [task[k] EXCEPT !.done = TRUE, !.hlen = x]]
                 /\ d = DayOf(task[k].hour) => x = Cardinality(Listed(d)')
    <2>1. task' = [task EXCEPT ![k] = [task[k] EXCEPT !.done = TRUE,
              !.hlen = Cardinality(store'[Shared].routes[DayOf(task[k].hour)])]]
      BY ExecuteType
    <2>2. d = DayOf(task[k].hour)
            => Cardinality(store'[Shared].routes[DayOf(task[k].hour)]) = Cardinality(Listed(d)')
      BY DEF Listed
    <2> QED BY <2>1, <2>2
  <1>4. /\ task'[k].inst = i /\ task'[k].hour = task[k].hour /\ task'[k].route = r
        /\ task'[k].done /\ task'[k].hlen = x /\ Busy(k)'
        /\ \A j \in Tasks \ {k} : task'[j] = task[j]
    <2>1. task'[k] = [task[k] EXCEPT !.done = TRUE, !.hlen = x]
      BY <1>3 DEF TypeOK
    <2>2. \A j \in Tasks \ {k} : task'[j] = task[j]
      BY <1>3 DEF TypeOK
    <2>3. /\ task'[k].inst = i /\ task'[k].hour = task[k].hour /\ task'[k].route = r
          /\ task'[k].done /\ task'[k].hlen = x
      BY <1>1, <2>1 DEF Task
    <2>4. Busy(k)'
      BY <1>1, <2>3, CountersAssumption DEF Busy, NoTask
    <2> QED BY <2>2, <2>3, <2>4
  <1>5. CASE ~Carries(k, d)
    <2>1. \A j \in Tasks : (Carries(j, d)' <=> Carries(j, d)) /\ (Carries(j, d) => task'[j] = task[j])
      BY <1>1, <1>4, <1>5 DEF Carries, Busy
    <2>2. Listed(d)' = Listed(d)
      BY <1>1, <1>2, <1>5 DEF Carries
    <2>3. faults' >= faults
      BY <1>1 DEF TypeOK
    <2> QED BY <1>1, <2>1, <2>2, <2>3, DayUntouched
  <1>6. CASE Carries(k, d)
    <2>1. d = DayOf(task[k].hour) /\ r # None /\ r \in Routes /\ r \in seen[i][d]
      BY <1>1, <1>6 DEF Carries, Known
    <2>2. Listed(d)' = Listed(d) \cup {r}
      BY <1>2, <2>1
    <2>3. \A j \in Tasks : Carries(j, d)' <=> Carries(j, d)
      BY <1>1, <1>4, <1>6, <2>1 DEF Carries, Busy
    <2>4. \A j \in Tasks : task'[j].route = task[j].route /\ task'[j].inst = task[j].inst
      BY <1>1, <1>4
    <2>5. \A j \in Instances : Full(j, d)' <=> Full(j, d)
      BY <1>1 DEF Full
    <2>6. Known(d)'
      <3>1. Writers(d)' = Writers(d) /\ Writers(d) # {}
        BY <1>1, <2>1 DEF Writers
      <3>2. \A j \in Tasks : Carries(j, d)' => task'[j].route \in seen'[task'[j].inst][d]
        BY <1>1, <2>3, <2>4 DEF Known
      <3> QED BY <1>1, <2>1, <2>2, <3>1, <3>2 DEF Known
    <2>7. Astray(d)' \subseteq Astray(d) \ {r}
      <3> SUFFICES ASSUME NEW q \in Astray(d)' PROVE q \in Astray(d) /\ q # r
        OBVIOUS
      <3>1. q \in Routes /\ q \notin Listed(d)'
        BY DEF Astray
      <3>2. q # r /\ q \notin Listed(d)
        BY <2>2, <3>1
      <3>3. PICK j \in Instances : /\ q \in seen'[j][d]
                                   /\ Full(j, d)' \/ \A y \in Way(j, d)' : task'[y].route # q
        BY DEF Astray
      <3>4. \A y \in Way(j, d) : y \in Way(j, d)' \/ y = k
        BY <1>4, <2>3 DEF Way
      <3>5. Full(j, d) \/ \A y \in Way(j, d) : task[y].route # q
        <4>1. CASE Full(j, d)'
          BY <2>5, <4>1
        <4>2. CASE \A y \in Way(j, d)' : task'[y].route # q
          <5>1. \A y \in Way(j, d) : y \in Tasks
            BY DEF Way
          <5> QED BY <2>4, <3>2, <3>4, <4>2, <5>1
        <4> QED BY <3>3, <4>1, <4>2
      <3> QED BY <1>1, <3>1, <3>2, <3>3, <3>5 DEF Astray
    <2>8. Told(d) \subseteq Told(d)' /\ k \notin Told(d)
      <3>1. \A j \in Tasks : Carries(j, d) => task[j].inst \in Instances
        BY BusyTask DEF Carries, Task
      <3> QED BY <1>1, <1>4, <2>3, <2>4, <2>5, <3>1 DEF Told
    <2> DEFINE l == Cardinality(Listed(d))
               lp == Cardinality(Listed(d)')
               e == Cardinality(Astray(d))
               ep == Cardinality(Astray(d)')
               o == Cardinality(Told(d))
               op == Cardinality(Told(d)')
               m == restarts + Cardinality(FullOnes(d))
               a == Due(d)
               ap == Due(d)'
    <2>9. /\ l \in Nat /\ e \in Nat /\ ep \in Nat /\ o \in Nat /\ op \in Nat /\ m \in Nat
          /\ a \in Nat /\ RouteCap \in Nat /\ faults \in Nat /\ lp \in Nat
      <3>1. /\ l \in Nat /\ e \in Nat /\ o \in Nat /\ m \in Nat /\ a \in Nat /\ RouteCap \in Nat
            /\ faults \in Nat
        BY DaySizes DEF TypeOK
      <3>2. ep \in Nat /\ op \in Nat /\ lp \in Nat
        BY DaySizesNext
      <3> QED BY <3>1, <3>2
    <2>11. o <= op
      <3>1. IsFiniteSet(Told(d)')
        BY DaySizesNext
      <3> QED BY <2>8, <3>1, Fits
    <2>12. ap = a + (op - o)
      <3>1. a = Account(faults, m, o) /\ ap = Account(faults, m, op)
        <4>1. FullOnes(d)' = FullOnes(d)
          BY <2>5 DEF FullOnes
        <4> QED BY <4>1, <1>1 DEF Due
      <3>2. op - o \in Nat /\ o + (op - o) = op
        <4> HIDE DEF o, op
        <4> QED BY <2>9, <2>11
      <3> DEFINE z == op - o
      <3>3. z \in Nat /\ o + z = op
        BY <3>2
      <3> HIDE DEF z, m, o, op, a, ap
      <3>4. Account(faults, m, o + z) = Account(faults, m, o) + z
        BY <2>9, <3>3, MoreAnswers
      <3>5. ap = a + z
        BY <2>9, <3>1, <3>3, <3>4
      <3> QED BY <3>5 DEF z
    <2>13. ep <= e
      BY <2>7, DaySizes, Fits
    <2>14. lp <= l + 1 /\ (r \in Listed(d) => lp = l)
      <3>1. lp <= l + 1
        BY <2>2, DaySizes, OneMore
      <3>2. r \in Listed(d) => lp = l
        BY <2>2
      <3> QED BY <3>1, <3>2
    <2>15. Full(i, d) /\ r \notin Listed(d) => ep + 1 <= e
      <3> SUFFICES ASSUME Full(i, d), r \notin Listed(d) PROVE ep + 1 <= e
        OBVIOUS
      <3>1. r \in Astray(d)
        BY <1>1, <2>1 DEF Astray
      <3> QED BY <2>7, <3>1, DaySizes, OneLess
    <2>16. ~Full(i, d) /\ lp > RouteCap => o + 1 <= op
      <3> SUFFICES ASSUME ~Full(i, d), lp > RouteCap PROVE o + 1 <= op
        OBVIOUS
      <3>1. k \in Told(d)'
        <4>1. x = lp
          BY <1>3, <2>1
        <4>2. Carries(k, d)' /\ task'[k].done /\ task'[k].hlen > RouteCap
          BY <1>4, <1>6, <2>3, <4>1
        <4>3. ~ (len'[task'[k].inst][d] >= RouteCap)
          BY <1>1, <1>4 DEF Full
        <4> HIDE DEF lp
        <4> QED BY <4>2, <4>3 DEF Told, Full
      <3>2. Told(d) \subseteq Told(d)' \ {k} /\ IsFiniteSet(Told(d)')
        BY <2>8, DaySizesNext
      <3> DEFINE T == Told(d)'
      <3> HIDE DEF T
      <3>3. Cardinality(Told(d)) + 1 <= Cardinality(T)
        BY <3>1, <3>2, OneLess DEF T
      <3> QED BY <3>3 DEF T
    <2>17. ASSUME Excess(d) PROVE ep <= ap /\ lp + ep <= RouteCap + ap
      <3>0. e <= a /\ l + e <= RouteCap + a
        BY <2>17 DEF Excess
      <3>1. (r \in Listed(d) => lp = l) /\ (r \notin Listed(d) => ep + 1 <= e \/ lp <= RouteCap \/ o + 1 <= op)
        <4>1. lp > RouteCap \/ lp <= RouteCap
          BY <2>9
        <4> QED BY <2>14, <2>15, <2>16, <4>1
      <3> HIDE DEF l, lp, e, ep, o, op, m, a, ap, r
      <3>2. ap \in Nat /\ ap >= a
        BY <2>9, <2>11, <2>12
      <3>3. ep <= ap
        BY <2>9, <3>0, <2>13, <3>2
      <3>4. CASE lp = l
        BY <2>9, <3>0, <2>13, <3>2, <3>4
      <3>5. CASE ep + 1 <= e
        BY <2>9, <3>0, <2>14, <3>2, <3>5
      <3>6. CASE lp <= RouteCap
        BY <2>9, <3>2, <3>3, <3>6
      <3>7. CASE o + 1 <= op
        BY <2>9, <3>0, <2>12, <2>13, <2>14, <3>7
      <3> QED BY <3>1, <3>3, <3>4, <3>5, <3>6, <3>7
    <2>18. Excess(d) => Excess(d)'
      BY <2>17 DEF Excess
    <2> QED BY <2>6, <2>18
  <1> QED BY <1>5, <1>6

\* Less is due only to answers that came, and nothing more is astray.
LEMMA SameFull ==
  ASSUME TypeOK, TypeOK', NEW d \in Days, Listed(d)' = Listed(d),
         UNCHANGED <<restarts, faults>>,
         \A j \in Instances : Full(j, d)' <=> Full(j, d),
         Astray(d)' \subseteq Astray(d), Told(d) \subseteq Told(d)'
  PROVE  Excess(d) => Excess(d)'
  <1>1. FullOnes(d)' = FullOnes(d)
    BY DEF FullOnes
  <1>2. Cardinality(Astray(d)') <= Cardinality(Astray(d))
    BY DaySizes, Fits
  <1> DEFINE o == Cardinality(Told(d))
             op == Cardinality(Told(d)')
             m == restarts + Cardinality(FullOnes(d))
  <1>3. o \in Nat /\ op \in Nat /\ m \in Nat /\ faults \in Nat
    <2>1. o \in Nat /\ m \in Nat /\ faults \in Nat
      BY DaySizes DEF TypeOK
    <2>2. op \in Nat
      BY DaySizesNext
    <2> QED BY <2>1, <2>2
  <1>4. o <= op
    <2>1. IsFiniteSet(Told(d)')
      BY DaySizesNext
    <2> QED BY <2>1, Fits
  <1>5. Due(d) = Account(faults, m, o) /\ Due(d)' = Account(faults, m, op)
    BY <1>1 DEF Due
  <1> DEFINE z == op - o
  <1>6. z \in Nat /\ o + z = op
    <2> HIDE DEF o, op
    <2> QED BY <1>3, <1>4
  <1>7. Due(d)' \in Nat /\ Due(d) <= Due(d)'
    <2> HIDE DEF z, o, op, m
    <2>1. Account(faults, m, o + z) = Account(faults, m, o) + z
      BY <1>3, <1>6, MoreAnswers
    <2>2. Account(faults, m, o) \in Nat
      BY <1>3, Accounts
    <2> QED BY <1>5, <1>6, <2>1, <2>2
  <1> QED BY <1>2, <1>7, ExcessKept

\* A call is recorded: its route is on its way, and the day may have become
\* full with it.
LEMMA RecordDay ==
  ASSUME TypeOK, TypeOK', NEW d \in Days, d >= DayOf(now) - 1, Known(d),
         NEW i \in Instances, NEW k \in Tasks, NEW n \in Calls,
         NEW route \in Routes \cup {None}, RecordShared(i, k, n, route)
  PROVE  Known(d)' /\ (Excess(d) => Excess(d)')
  <1> DEFINE today == DayOf(now)
             known == route \in seen[i][today]
             sent == route # None /\ (known \/ len[i][today] < RouteCap)
             here == sent /\ d = today
  <1>1. /\ UNCHANGED <<store, restarts, faults>> /\ ~Busy(k)
        /\ today \in Days /\ len[i][d] \in Nat /\ Listed(d)' = Listed(d)
        /\ \A j \in Tasks \ {k} : task'[j] = task[j]
    <2>1. now \in Hours
      BY DEF TypeOK
    <2> QED BY <2>1, HoursAndDays DEF RecordShared, TypeOK, Listed
  <1>2. /\ task'[k].inst = i /\ task'[k].hour = now /\ ~task'[k].done
        /\ task'[k].route = (IF sent THEN route ELSE None) /\ Busy(k)'
    <2>1. task'[k] = [inst |-> i, hour |-> now, n |-> n, done |-> FALSE,
                      route |-> IF sent THEN route ELSE None, hlen |-> 0]
      BY DEF RecordShared, TypeOK
    <2>2. task'[k].inst # NoTask.inst
      BY <2>1, CountersAssumption DEF NoTask
    <2> QED BY <2>1, <2>2 DEF Busy
  <1>3. /\ \A j \in Instances \ {i} : seen'[j][d] = seen[j][d] /\ len'[j][d] = len[j][d]
        /\ seen'[i][d] = IF here THEN seen[i][d] \cup {route} ELSE seen[i][d]
        /\ len'[i][d] = IF here /\ ~known THEN len[i][d] + 1 ELSE len[i][d]
    <2>1. CASE route = None
      BY <2>1 DEF RecordShared
    <2>2. CASE route # None
      <3> DEFINE S == [seen[i] EXCEPT ![today] = IF sent THEN @ \cup {route} ELSE @]
                 L == [len[i] EXCEPT ![today] = IF sent /\ ~known THEN @ + 1 ELSE @]
      <3>1. /\ seen' = [seen EXCEPT ![i] = KeepDays(S, {})]
            /\ len' = [len EXCEPT ![i] = KeepDays(L, 0)]
        BY <2>2 DEF RecordShared
      <3>2. \A j \in Instances \ {i} : seen'[j][d] = seen[j][d] /\ len'[j][d] = len[j][d]
        BY <3>1 DEF TypeOK
      <3>3. seen'[i][d] = S[d] /\ len'[i][d] = L[d]
        BY <3>1 DEF TypeOK, KeepDays
      <3>4. /\ S[d] = IF here THEN seen[i][d] \cup {route} ELSE seen[i][d]
            /\ L[d] = IF here /\ ~known THEN len[i][d] + 1 ELSE len[i][d]
        BY <1>1 DEF TypeOK
      <3> QED BY <3>2, <3>3, <3>4
    <2> QED BY <2>1, <2>2
  <1>4. \A j \in Tasks \ {k} : Carries(j, d)' <=> Carries(j, d)
    BY <1>1 DEF Carries, Busy
  <1>5. Carries(k, d)' <=> here
    BY <1>2 DEF Carries
  <1>6. ~Carries(k, d)
    BY <1>1 DEF Carries
  <1>7. \A j \in Tasks : Carries(j, d) => task[j].inst \in Instances /\ j # k
    BY <1>6, BusyTask DEF Carries, Task
  <1> HIDE DEF here
  <1>8. CASE ~here
    <2>1. \A j \in Tasks : (Carries(j, d)' <=> Carries(j, d)) /\ (Carries(j, d) => task'[j] = task[j])
      BY <1>1, <1>4, <1>5, <1>6, <1>8
    <2>2. faults' >= faults
      BY <1>1 DEF TypeOK
    <2>3. \A j \in Instances : seen'[j][d] = seen[j][d] /\ len'[j][d] = len[j][d]
      BY <1>3, <1>8
    <2> QED BY <1>1, <2>1, <2>2, <2>3, DayUntouched
  <1>9. CASE here
    <2>1. d = today /\ route # None /\ route \in Routes /\ (known \/ len[i][d] < RouteCap)
      BY <1>9 DEF here
    <2>2. /\ \A j \in Instances : seen[j][d] \subseteq seen'[j][d]
          /\ \A j \in Instances : Full(j, d) => Full(j, d)'
          /\ \A j \in Instances \ {i} : Full(j, d)' => Full(j, d)
          /\ seen'[i][d] = seen[i][d] \cup {route} /\ task'[k].route = route
      <3>1. len'[i][d] >= len[i][d]
        BY <1>1, <1>3
      <3> DEFINE lp == len'[i][d]
                 l == len[i][d]
      <3>2. lp >= l /\ lp \in Nat /\ l \in Nat /\ RouteCap \in Nat
        BY <1>1, <1>3, <3>1, CountersAssumption
      <3>3. l >= RouteCap => lp >= RouteCap
        <4> HIDE DEF l, lp
        <4> QED BY <3>2
      <3>4. Full(i, d) => Full(i, d)'
        BY <3>3 DEF Full
      <3>5. \A j \in Instances \ {i} : Full(j, d)' <=> Full(j, d)
        BY <1>3 DEF Full
      <3> QED BY <1>2, <1>3, <1>9, <2>1, <3>4, <3>5
    <2>3. Known(d)'
      <3>1. \A j \in Tasks : Carries(j, d)' => task'[j].route \in seen'[task'[j].inst][d]
        <4> TAKE j \in Tasks
        <4> HAVE Carries(j, d)'
        <4>1. CASE j = k
          BY <1>2, <2>2, <4>1
        <4>2. CASE j # k
          BY <1>1, <1>4, <1>7, <2>2, <4>2 DEF Known
        <4> QED BY <4>1, <4>2
      <3>2. \A j \in Instances : /\ Cardinality(seen'[j][d]) <= len'[j][d]
                                 /\ Cardinality(seen'[j][d]) <= RouteCap
                                 /\ len'[j][d] > 0 => seen'[j][d] # {}
        <4>1. ASSUME NEW j \in Instances \ {i}
              PROVE  /\ Cardinality(seen'[j][d]) <= len'[j][d]
                     /\ Cardinality(seen'[j][d]) <= RouteCap
                     /\ len'[j][d] > 0 => seen'[j][d] # {}
          BY <1>3 DEF Known
        <4>2. /\ Cardinality(seen'[i][d]) <= len'[i][d]
              /\ Cardinality(seen'[i][d]) <= RouteCap
              /\ seen'[i][d] # {}
          <5>1. CASE known
            <6>1. seen'[i][d] = seen[i][d] /\ len'[i][d] = len[i][d]
              BY <1>3, <1>9, <2>1, <2>2, <5>1
            <6> QED BY <2>2, <6>1 DEF Known
          <5>2. CASE ~known
            <6> DEFINE c == Cardinality(seen[i][d])
                       cp == Cardinality(seen'[i][d])
                       l == len[i][d]
            <6>1. cp \in Nat /\ c \in Nat /\ cp <= c + 1
              BY <2>2, DaySizes, OneMore
            <6>2. c <= l /\ l < RouteCap /\ l \in Nat /\ RouteCap \in Nat
              BY <1>1, <2>1, <5>2, CountersAssumption DEF Known
            <6>3. len'[i][d] = l + 1
              BY <1>3, <1>9, <5>2
            <6> HIDE DEF c, cp, l
            <6>4. cp <= l + 1 /\ cp <= RouteCap
              BY <6>1, <6>2
            <6> QED BY <2>2, <6>3, <6>4 DEF cp
          <5> QED BY <5>1, <5>2
        <4> QED BY <4>1, <4>2
      <3>3. restarts' = 0 => \A r \in Listed(d)' : \E j \in Instances : r \in seen'[j][d]
        BY <1>1, <2>2 DEF Known
      <3>4. Writers(d)' # {}
        BY <2>2 DEF Writers
      <3> QED BY <3>1, <3>2, <3>3, <3>4 DEF Known
    <2>4. Told(d) \subseteq Told(d)' \cup {j \in Tasks : Carries(j, d) /\ task[j].done /\ task[j].inst = i}
      <3>1. \A j \in Told(d) : task[j].inst = i \/ j \in Told(d)'
        BY <1>1, <1>4, <1>7, <2>2 DEF Told
      <3> QED BY <3>1 DEF Told
    <2>5. \A j \in Instances : \A y \in Way(j, d) : y \in Way(j, d)' /\ task'[y] = task[y]
      BY <1>1, <1>4, <1>7 DEF Way
    <2>6. \A q \in Astray(d)' : /\ q \in Routes /\ q \notin Listed(d)
                                /\ \E j \in Instances :
                                     /\ q \in seen'[j][d]
                                     /\ (Full(j, d)' \/ \A y \in Way(j, d)' : task'[y].route # q)
      BY <1>1 DEF Astray
    <2>7. k \in Way(i, d)'
      BY <1>2, <1>5, <1>9 DEF Way
    <2>8. CASE Full(i, d)' => Full(i, d)
      <3>1. \A j \in Instances : Full(j, d)' <=> Full(j, d)
        BY <2>2, <2>8
      <3>2. Told(d) \subseteq Told(d)'
        <4>1. \A j \in Told(d) : j \in Told(d)'
          BY <1>1, <1>4, <1>7, <3>1 DEF Told
        <4> QED BY <4>1
      <3>3. Astray(d)' \subseteq Astray(d)
        <4> SUFFICES ASSUME NEW q \in Astray(d)' PROVE q \in Astray(d)
          OBVIOUS
        <4>1. PICK j \in Instances :
                    /\ q \in seen'[j][d]
                    /\ (Full(j, d)' \/ \A y \in Way(j, d)' : task'[y].route # q)
          BY <2>6
        <4>2. Full(j, d) \/ \A y \in Way(j, d) : task[y].route # q
          BY <2>5, <3>1, <4>1
        <4>3. q \in seen[j][d]
          <5>1. CASE j # i
            BY <1>3, <4>1, <5>1
          <5>2. CASE j = i
            <6>1. CASE Full(i, d)
              <7>1. known
                BY <2>1, <6>1, <1>1, CountersAssumption DEF Full
              <7> QED BY <2>1, <2>2, <4>1, <5>2, <7>1
            <6>2. CASE ~Full(i, d)
              <7>1. q # route
                BY <2>2, <2>7, <2>8, <4>1, <5>2, <6>2
              <7> QED BY <2>2, <4>1, <5>2, <7>1
            <6> QED BY <6>1, <6>2
          <5> QED BY <5>1, <5>2
        <4> QED BY <2>6, <4>2, <4>3 DEF Astray
      <3>4. Excess(d) => Excess(d)'
        BY <1>1, <3>1, <3>2, <3>3, SameFull
      <3> QED BY <2>3, <3>4
    <2>9. CASE Full(i, d)' /\ ~Full(i, d)
      <3> DEFINE W == Way(i, d)'
                 M == {j \in Tasks : Carries(j, d) /\ task[j].done /\ task[j].inst = i}
                 p == [y \in Tasks |-> task'[y].route]
      <3>1. W \subseteq Tasks /\ M \subseteq Tasks /\ W \cap M = {}
        BY <1>1, <1>6 DEF Way
      <3>2. Astray(d)' \subseteq Astray(d) \cup {p[y] : y \in W}
        <4> SUFFICES ASSUME NEW q \in Astray(d)', q \notin {p[y] : y \in W}
                     PROVE  q \in Astray(d)
          OBVIOUS
        <4>0. \A y \in W : task'[y].route # q
          BY <3>1
        <4>1. PICK j \in Instances :
                    /\ q \in seen'[j][d]
                    /\ (Full(j, d)' \/ \A y \in Way(j, d)' : task'[y].route # q)
          BY <2>6
        <4>2. CASE j # i
          <5>1. q \in seen[j][d] /\ (Full(j, d) \/ \A y \in Way(j, d) : task[y].route # q)
            BY <1>3, <2>2, <2>5, <4>1, <4>2
          <5> QED BY <2>6, <5>1 DEF Astray
        <4>3. CASE j = i
          <5>1. q # route
            BY <2>2, <2>7, <4>0
          <5>2. q \in seen[i][d]
            BY <2>2, <4>1, <4>3, <5>1
          <5>3. \A y \in Way(i, d) : task[y].route # q
            BY <2>5, <4>0
          <5> QED BY <2>6, <5>2, <5>3 DEF Astray
        <4> QED BY <4>2, <4>3
      <3>3. Told(d) \subseteq Told(d)' \cup M
        BY <2>4
      <3>4. \A j \in Instances \ {i} : Full(j, d)' <=> Full(j, d)
        BY <2>2
      <3> HIDE DEF W, M, p
      <3>5. Excess(d) => Excess(d)'
        BY <1>1, <2>9, <3>1, <3>2, <3>3, <3>4, Filling
      <3> QED BY <2>3, <3>5
    <2> QED BY <2>8, <2>9
  <1> QED BY <1>8, <1>9

\* What faults and lives alone account for, and what they must cover when more
\* is astray, or an answer that has told is not heard.
Base(d) == Account(faults, restarts + Cardinality(FullOnes(d)), 0)

LEMMA BaseIs ==
  ASSUME TypeOK, NEW d \in Days
  PROVE  Base(d) \in Nat /\ Due(d) = Base(d) + Cardinality(Told(d))
  <1> DEFINE m == restarts + Cardinality(FullOnes(d))
             o == Cardinality(Told(d))
  <1>1. m \in Nat /\ o \in Nat /\ faults \in Nat
    BY DaySizes DEF TypeOK
  <1>2. Due(d) = Account(faults, m, o) /\ Base(d) = Account(faults, m, 0)
    BY DEF Due, Base
  <1> HIDE DEF m, o
  <1>3. Account(faults, m, 0 + o) = Account(faults, m, 0) + o /\ Account(faults, m, 0) \in Nat
    BY <1>1, MoreAnswers, Accounts
  <1> QED BY <1>1, <1>2, <1>3 DEF o

LEMMA BaseNext ==
  (TypeOK => \A d \in Days : Base(d) \in Nat /\ Due(d) = Base(d) + Cardinality(Told(d)))'
  <1>1. TypeOK => \A d \in Days : Base(d) \in Nat /\ Due(d) = Base(d) + Cardinality(Told(d))
    BY BaseIs
  <1> QED BY <1>1, PTL

LEMMA Booked ==
  ASSUME TypeOK, TypeOK', NEW d \in Days, Listed(d)' = Listed(d),
         NEW x \in Nat, Cardinality(Astray(d)') <= Cardinality(Astray(d)) + x,
         NEW y \in Nat, Cardinality(Told(d)) <= Cardinality(Told(d)') + y,
         Base(d)' = Base(d) + x + y
  PROVE  Excess(d) => Excess(d)'
  <1> HAVE Excess(d)
  <1> DEFINE l == Cardinality(Listed(d))
             e == Cardinality(Astray(d))
             ep == Cardinality(Astray(d)')
             o == Cardinality(Told(d))
             op == Cardinality(Told(d)')
             b == Base(d)
             bp == Base(d)'
             a == Due(d)
             ap == Due(d)'
  <1>1. /\ l \in Nat /\ e \in Nat /\ o \in Nat /\ RouteCap \in Nat /\ b \in Nat /\ a = b + o
        /\ e <= a /\ l + e <= RouteCap + a
    BY DaySizes, BaseIs DEF Excess
  <1>2. ep \in Nat /\ op \in Nat /\ bp \in Nat /\ ap = bp + op
    <2>1. ep \in Nat /\ op \in Nat
      BY DaySizesNext
    <2>2. bp \in Nat /\ ap = bp + op
      BY BaseNext
    <2> QED BY <2>1, <2>2
  <1>3. ep <= e + x /\ o <= op + y /\ bp = b + x + y
    OBVIOUS
  <1>4. Cardinality(Listed(d)') = l
    OBVIOUS
  <1> HIDE DEF l, e, ep, o, op, b, bp, a, ap
  <1>5. ep <= ap /\ l + ep <= RouteCap + ap
    BY <1>1, <1>2, <1>3
  <1> QED BY <1>4, <1>5 DEF Excess, ep, ap

\* A task ends with its answer, or without one.
LEMMA TaskEnds ==
  ASSUME TypeOK, NEW d \in Days, NEW k \in Tasks, task' = [task EXCEPT ![k] = NoTask]
  PROVE  /\ ~Carries(k, d)'
         /\ \A j \in Tasks \ {k} : (Carries(j, d)' <=> Carries(j, d)) /\ task'[j] = task[j]
         /\ \A j \in Tasks : Carries(j, d) => task[j].inst \in Instances
         /\ \A i \in Instances : Way(i, d)' = Way(i, d) \ {k}
  <1>1. task'[k] = NoTask /\ \A j \in Tasks \ {k} : task'[j] = task[j]
    BY DEF TypeOK
  <1>2. ~Carries(k, d)' /\ \A j \in Tasks \ {k} : Carries(j, d)' <=> Carries(j, d)
    BY <1>1 DEF Carries, Busy
  <1>3. \A j \in Tasks : Carries(j, d) => task[j].inst \in Instances
    BY BusyTask DEF Carries, Task
  <1>4. \A i \in Instances : Way(i, d)' = Way(i, d) \ {k}
    BY <1>1, <1>2 DEF Way
  <1> QED BY <1>1, <1>2, <1>3, <1>4

\* An answer arrives: the instance may learn that the day is full.
LEMMA AnsweredDay ==
  ASSUME TypeOK, TypeOK', NEW d \in Days, Known(d), NEW k \in Tasks, Answered(k)
  PROVE  Known(d)' /\ (Excess(d) => Excess(d)')
  <1>0. PICK i \in Instances, x \in Nat : i = task[k].inst /\ x = task[k].hlen
    BY BusyTask DEF Answered, Task
  <1> DEFINE heard == Carries(k, d) /\ x > len[i][d]
  <1>1. /\ task[k] \in Task /\ i = task[k].inst /\ x = task[k].hlen /\ Busy(k) /\ task[k].done
        /\ UNCHANGED <<seen, store, restarts, faults>> /\ task' = [task EXCEPT ![k] = NoTask]
        /\ Listed(d)' = Listed(d)
    <2>1. task[k] \in Task
      BY BusyTask DEF Answered
    <2> QED BY <1>0, <2>1 DEF Answered, Listed
  <1>2. /\ ~Carries(k, d)'
        /\ \A j \in Tasks \ {k} : (Carries(j, d)' <=> Carries(j, d)) /\ task'[j] = task[j]
        /\ \A j \in Tasks : Carries(j, d) => task[j].inst \in Instances
        /\ \A j \in Instances : Way(j, d)' = Way(j, d) /\ \A y \in Way(j, d) : task'[y] = task[y]
    <2>1. \A j \in Instances : k \notin Way(j, d) /\ Way(j, d) \subseteq Tasks
      BY <1>1 DEF Way
    <2>2. /\ ~Carries(k, d)'
          /\ \A j \in Tasks \ {k} : (Carries(j, d)' <=> Carries(j, d)) /\ task'[j] = task[j]
          /\ \A j \in Tasks : Carries(j, d) => task[j].inst \in Instances
          /\ \A j \in Instances : Way(j, d)' = Way(j, d) \ {k}
      BY <1>1, TaskEnds
    <2>3. \A j \in Instances : Way(j, d)' = Way(j, d) /\ \A y \in Way(j, d) : y \in Tasks \ {k}
      BY <2>1, <2>2
    <2> QED BY <2>2, <2>3
  <1>3. /\ \A j \in Instances \ {i} : len'[j][d] = len[j][d]
        /\ len'[i][d] = IF heard THEN x ELSE len[i][d]
    <2> DEFINE c == DayOf(task[k].hour)
    <2>1. c \in Days
      BY <1>1, HoursAndDays DEF Task
    <2>2. len' = IF task[k].route # None /\ x > len[i][c] THEN [len EXCEPT ![i][c] = x] ELSE len
      BY <1>1 DEF Answered
    <2>3. heard <=> (d = c /\ task[k].route # None /\ x > len[i][c])
      BY <1>1 DEF Carries
    <2> HIDE DEF heard, c
    <2>4. CASE task[k].route # None /\ x > len[i][c]
      <3>1. len' = [len EXCEPT ![i] = [len[i] EXCEPT ![c] = x]]
        BY <2>2, <2>4
      <3> QED BY <1>1, <2>1, <2>3, <2>4, <3>1 DEF TypeOK
    <2>5. CASE ~(task[k].route # None /\ x > len[i][c])
      BY <2>2, <2>3, <2>5
    <2> QED BY <2>4, <2>5
  <1>4. len[i][d] \in Nat /\ len'[i][d] \in Nat /\ RouteCap \in Nat
    BY <1>1, <1>3, DaySizes
  <1>5. Known(d)'
    <2>1. Writers(d)' = Writers(d)
      BY <1>1 DEF Writers
    <2>2. \A j \in Tasks : Carries(j, d)' => task'[j].route \in seen'[task'[j].inst][d]
      BY <1>1, <1>2 DEF Known
    <2>3. ASSUME NEW j \in Instances
          PROVE  /\ Cardinality(seen'[j][d]) <= len'[j][d]
                 /\ Cardinality(seen'[j][d]) <= RouteCap
                 /\ len'[j][d] > 0 => seen'[j][d] # {}
      <3>1. CASE j = i /\ heard
        <4> DEFINE c == Cardinality(seen[i][d])
                   l == len[i][d]
        <4>1. c \in Nat /\ l \in Nat /\ c <= l /\ c <= RouteCap /\ seen[i][d] # {}
          BY <1>1, <3>1, DaySizes DEF Known
        <4>2. len'[i][d] = x /\ x > l
          BY <1>3, <3>1
        <4> HIDE DEF c, l, heard
        <4>3. c <= x
          BY <1>1, <4>1, <4>2
        <4> QED BY <1>1, <3>1, <4>1, <4>2, <4>3 DEF c
      <3>2. CASE ~(j = i /\ heard)
        <4>1. len'[j][d] = len[j][d]
          BY <1>3, <3>2
        <4> QED BY <1>1, <4>1 DEF Known
      <3> QED BY <3>1, <3>2
    <2> QED BY <1>1, <2>1, <2>2, <2>3 DEF Known
  <1>6. \A j \in Instances \ {i} : Full(j, d)' <=> Full(j, d)
    BY <1>3 DEF Full
  <1>7. k \in Told(d) => heard /\ Full(i, d)'
    <2> SUFFICES ASSUME k \in Told(d) PROVE heard /\ Full(i, d)'
      OBVIOUS
    <2>1. Carries(k, d) /\ x > RouteCap /\ ~(len[i][d] >= RouteCap)
      BY <1>1 DEF Told, Full
    <2>2. x > len[i][d]
      BY <1>1, <1>4, <2>1
    <2>3. x >= RouteCap
      BY <1>1, <1>4, <2>1
    <2> QED BY <1>3, <2>1, <2>2, <2>3 DEF Full
  <1>8. CASE Full(i, d)' <=> Full(i, d)
    <2>1. \A j \in Instances : Full(j, d)' <=> Full(j, d)
      BY <1>6, <1>8
    <2>2. k \notin Told(d)
      BY <1>1, <1>7, <1>8 DEF Told
    <2>3. Told(d) \subseteq Told(d)'
      BY <1>2, <2>1, <2>2 DEF Told
    <2>4. Astray(d)' \subseteq Astray(d)
      BY <1>1, <1>2, <2>1 DEF Astray
    <2>5. Excess(d) => Excess(d)'
      BY <1>1, <2>1, <2>3, <2>4, SameFull
    <2> QED BY <1>5, <2>5
  <1>9. CASE Full(i, d)' /\ ~Full(i, d)
    <2> DEFINE W == Way(i, d)
               M == {j \in Tasks : Carries(j, d) /\ task[j].done /\ task[j].inst = i}
               p == [y \in Tasks |-> task[y].route]
    <2>1. W \subseteq Tasks /\ M \subseteq Tasks /\ W \cap M = {}
      BY DEF Way
    <2>2. Astray(d)' \subseteq Astray(d) \cup {p[y] : y \in W}
      <3> SUFFICES ASSUME NEW q \in Astray(d)', q \notin {p[y] : y \in W}
                   PROVE  q \in Astray(d)
        OBVIOUS
      <3>1. /\ q \in Routes /\ q \notin Listed(d)
            /\ \A y \in W : task[y].route # q
        BY <1>1, <2>1 DEF Astray
      <3>2. PICK j \in Instances :
              /\ q \in seen[j][d]
              /\ (Full(j, d)' \/ \A y \in Way(j, d) : task[y].route # q)
        BY <1>1, <1>2 DEF Astray
      <3>3. Full(j, d) \/ \A y \in Way(j, d) : task[y].route # q
        BY <1>6, <3>1, <3>2
      <3> QED BY <3>1, <3>2, <3>3 DEF Astray
    <2>3. Told(d) \subseteq Told(d)' \cup M
      <3> SUFFICES ASSUME NEW j \in Told(d), task[j].inst # i PROVE j \in Told(d)'
        BY DEF Told
      <3>1. j \in Tasks \ {k} /\ Carries(j, d) /\ task[j].inst \in Instances \ {i}
        BY <1>1, <1>2 DEF Told
      <3> QED BY <1>2, <1>6, <3>1 DEF Told
    <2> HIDE DEF W, M, p
    <2>4. Excess(d) => Excess(d)'
      BY <1>1, <1>6, <1>9, <2>1, <2>2, <2>3, Filling
    <2> QED BY <1>5, <2>4
  <1>10. Full(i, d) => Full(i, d)'
    <2> SUFFICES ASSUME len[i][d] >= RouteCap PROVE len'[i][d] >= RouteCap
      BY DEF Full
    <2>1. CASE heard
      <3> DEFINE l == len[i][d]
      <3>1. x > l /\ l \in Nat /\ l >= RouteCap /\ x \in Nat
        BY <1>1, <1>4, <2>1
      <3> HIDE DEF l
      <3>2. x >= RouteCap
        BY <1>4, <3>1
      <3> QED BY <1>3, <2>1, <3>2
    <2>2. CASE ~heard
      BY <1>3, <2>2
    <2> QED BY <2>1, <2>2
  <1> QED BY <1>8, <1>9, <1>10

\* A fault is booked for an answer that is never heard: what it would have told,
\* or the route it would have listed.
LEMMA UnansweredDay ==
  ASSUME TypeOK, TypeOK', NEW d \in Days, Known(d), NEW k \in Tasks, Unanswered(k)
  PROVE  Known(d)' /\ (Excess(d) => Excess(d)')
  <1>1. /\ UNCHANGED <<seen, len, store, restarts>> /\ task' = [task EXCEPT ![k] = NoTask]
        /\ faults' = faults + 1 /\ Listed(d)' = Listed(d)
    BY DEF Unanswered, Listed
  <1>2. /\ ~Carries(k, d)'
        /\ \A j \in Tasks \ {k} : (Carries(j, d)' <=> Carries(j, d)) /\ task'[j] = task[j]
        /\ \A j \in Tasks : Carries(j, d) => task[j].inst \in Instances
        /\ \A j \in Instances : Way(j, d)' = Way(j, d) \ {k}
    BY <1>1, TaskEnds
  <1>3. \A j \in Instances : Full(j, d)' <=> Full(j, d)
    BY <1>1 DEF Full
  <1>4. Known(d)'
    <2>1. Writers(d)' = Writers(d)
      BY <1>1 DEF Writers
    <2> QED BY <1>1, <1>2, <2>1 DEF Known
  <1>5. Base(d)' = Base(d) + 1
    <2> DEFINE m == restarts + Cardinality(FullOnes(d))
    <2>1. FullOnes(d)' = FullOnes(d)
      BY <1>3 DEF FullOnes
    <2>2. m \in Nat /\ faults \in Nat
      BY DaySizes DEF TypeOK
    <2>3. Base(d) = Account(faults, m, 0) /\ Base(d)' = Account(faults + 1, m, 0)
      BY <1>1, <2>1 DEF Base
    <2> HIDE DEF m
    <2>4. Account(faults + 1, m, 0 + 0) = Account(faults, m, 0) + 1 + 0
          /\ Account(faults, m, 0) \in Nat
      BY <2>2, Accounts
    <2> QED BY <2>3, <2>4
  <1>6. \A j \in Tasks \ {k} : j \in Told(d) => j \in Told(d)'
    BY <1>2, <1>3 DEF Told
  <1>7. CASE task[k].done
    <2>1. Astray(d)' \subseteq Astray(d)
      <3>1. \A j \in Instances : k \notin Way(j, d) /\ Way(j, d) \subseteq Tasks
        BY <1>7 DEF Way
      <3>2. \A j \in Instances : /\ Way(j, d)' = Way(j, d)
                                 /\ \A y \in Way(j, d) : task'[y] = task[y]
        BY <1>2, <3>1
      <3> QED BY <1>1, <1>3, <3>2 DEF Astray
    <2>2. Cardinality(Astray(d)') <= Cardinality(Astray(d)) + 0
      BY <2>1, DaySizes, Fits
    <2>3. Cardinality(Told(d)) <= Cardinality(Told(d)') + 1
      <3>1. Told(d) \subseteq Told(d)' \cup {k} /\ IsFiniteSet(Told(d)')
        BY <1>6, DaySizesNext DEF Told
      <3> QED BY <3>1, OneMore
    <2>4. Base(d)' = Base(d) + 0 + 1
      BY <1>5, BaseIs
    <2>5. Excess(d) => Excess(d)'
      BY <1>1, <2>2, <2>3, <2>4, Booked
    <2> QED BY <1>4, <2>5
  <1>8. CASE ~task[k].done
    <2> DEFINE r == task[k].route
    <2>1. Astray(d)' \subseteq Astray(d) \cup {r}
      <3> SUFFICES ASSUME NEW q \in Astray(d)', q # r PROVE q \in Astray(d)
        OBVIOUS
      <3>1. PICK j \in Instances :
              /\ q \in seen[j][d]
              /\ (Full(j, d)' \/ \A y \in Way(j, d)' : task'[y].route # q)
        BY <1>1 DEF Astray
      <3>2. \A y \in Way(j, d) : y = k \/ (y \in Way(j, d)' /\ task'[y] = task[y])
        BY <1>2 DEF Way
      <3>3. Full(j, d) \/ \A y \in Way(j, d) : task[y].route # q
        BY <1>3, <3>1, <3>2
      <3>4. q \in Routes /\ q \notin Listed(d)
        BY <1>1 DEF Astray
      <3> QED BY <3>1, <3>3, <3>4 DEF Astray
    <2>2. Cardinality(Astray(d)') <= Cardinality(Astray(d)) + 1
      <3> HIDE DEF r
      <3> QED BY <2>1, DaySizes, OneMore
    <2>3. Cardinality(Told(d)) <= Cardinality(Told(d)') + 0
      <3>1. Told(d) \subseteq Told(d)' /\ IsFiniteSet(Told(d)')
        BY <1>6, <1>8, DaySizesNext DEF Told
      <3> QED BY <3>1, Fits
    <2>4. Base(d)' = Base(d) + 1 + 0
      BY <1>5, BaseIs
    <2>5. Excess(d) => Excess(d)'
      BY <1>1, <2>2, <2>3, <2>4, Booked
    <2> QED BY <1>4, <2>5
  <1> QED BY <1>7, <1>8

\* An instance is recycled. If it was full its life is over and still counted;
\* if it was not, one more life is, which covers whatever its tasks would have
\* told it. What it had sent is no longer astray: nobody knows of it any more.
LEMMA RestartDay ==
  ASSUME TypeOK, TypeOK', NEW d \in Days, Known(d), NEW i \in Instances, Restart(i)
  PROVE  Known(d)' /\ (Excess(d) => Excess(d)')
  <1>1. /\ restarts' = restarts + 1 /\ faults' = faults /\ Listed(d)' = Listed(d)
        /\ seen'[i][d] = {} /\ len'[i][d] = 0
        /\ \A j \in Instances \ {i} : seen'[j][d] = seen[j][d] /\ len'[j][d] = len[j][d]
    <2>1. UNCHANGED store \/ \E s : store' = [store EXCEPT ![i] = s]
      BY DEF Restart
    <2>2. store'[Shared] = store[Shared]
      BY <2>1, CountersAssumption DEF TypeOK
    <2> QED BY <2>2 DEF Restart, TypeOK, Listed
  <1>2. \A k \in Tasks : task'[k] = IF Busy(k) /\ task[k].inst = i THEN NoTask ELSE task[k]
    BY DEF Restart
  <1>3. \A k \in Tasks : Carries(k, d) => task[k].inst \in Instances
    BY BusyTask DEF Carries, Task
  <1>4. \A k \in Tasks : IF Carries(k, d) /\ task[k].inst # i
                           THEN Carries(k, d)' /\ task'[k] = task[k]
                           ELSE ~Carries(k, d)'
    BY <1>2 DEF Carries, Busy
  <1>5. \A j \in Instances \ {i} : /\ Full(j, d)' <=> Full(j, d)
                                   /\ Way(j, d)' = Way(j, d)
                                   /\ \A y \in Way(j, d) : task'[y] = task[y]
    <2>1. \A j \in Instances \ {i} : Full(j, d)' <=> Full(j, d)
      BY <1>1 DEF Full
    <2>2. \A j \in Instances \ {i} : /\ Way(j, d)' = Way(j, d)
                                     /\ \A y \in Way(j, d) : task'[y] = task[y]
      BY <1>4 DEF Way
    <2> QED BY <2>1, <2>2
  <1>6. ~Full(i, d)'
    <2>1. ~(0 >= RouteCap)
      BY CountersAssumption
    <2> QED BY <1>1, <2>1 DEF Full
  <1>7. Known(d)'
    <2>1. \A k \in Tasks : Carries(k, d)' => task'[k].route \in seen'[task'[k].inst][d]
      BY <1>1, <1>3, <1>4 DEF Known
    <2>2. ASSUME NEW j \in Instances
          PROVE  /\ Cardinality(seen'[j][d]) <= len'[j][d]
                 /\ Cardinality(seen'[j][d]) <= RouteCap
                 /\ len'[j][d] > 0 => seen'[j][d] # {}
      <3>1. CASE j = i
        <4>1. Cardinality(seen'[j][d]) = 0 /\ len'[j][d] = 0
          BY <1>1, <3>1, FS_EmptySet
        <4>2. 0 <= RouteCap
          BY CountersAssumption
        <4> QED BY <4>1, <4>2
      <3>2. CASE j # i
        BY <1>1, <3>2 DEF Known
      <3> QED BY <3>1, <3>2
    <2>3. restarts' # 0
      BY <1>1 DEF TypeOK
    <2>4. restarts' = 1 /\ Writers(d)' = {} => Cardinality(Listed(d)') <= RouteCap
      <3> SUFFICES ASSUME restarts' = 1, Writers(d)' = {}
                   PROVE  Cardinality(Listed(d)) <= RouteCap
        BY <1>1
      <3>1. restarts = 0
        BY <1>1 DEF TypeOK
      <3>2. \A j \in Instances \ {i} : seen[j][d] = {}
        BY <1>1 DEF Writers
      <3>3. Listed(d) \subseteq seen[i][d]
        BY <3>1, <3>2 DEF Known
      <3>4. Cardinality(Listed(d)) <= Cardinality(seen[i][d])
        BY <3>3, DaySizes, Fits
      <3>5. Cardinality(seen[i][d]) <= RouteCap
        BY DEF Known
      <3> QED BY <3>4, <3>5, DaySizes
    <2> QED BY <2>1, <2>2, <2>3, <2>4 DEF Known
  <1>8. Astray(d)' \subseteq Astray(d)
    <2> SUFFICES ASSUME NEW q \in Astray(d)' PROVE q \in Astray(d)
      OBVIOUS
    <2>1. PICK j \in Instances :
            /\ q \in seen'[j][d]
            /\ (Full(j, d)' \/ \A y \in Way(j, d)' : task'[y].route # q)
      BY DEF Astray
    <2>2. j # i /\ q \in seen[j][d]
      BY <1>1, <2>1
    <2>3. Full(j, d) \/ \A y \in Way(j, d) : task[y].route # q
      BY <1>5, <2>1, <2>2
    <2>4. q \in Routes /\ q \notin Listed(d)
      BY <1>1 DEF Astray
    <2> QED BY <2>2, <2>3, <2>4 DEF Astray
  <1>9. Cardinality(Astray(d)') <= Cardinality(Astray(d)) + 0
    BY <1>8, DaySizes, Fits
  <1> DEFINE f == Cardinality(FullOnes(d))
             m == restarts + f
  <1>10. f \in Nat /\ m \in Nat /\ faults \in Nat /\ restarts \in Nat
    BY DaySizes DEF TypeOK
  <1>11. CASE Full(i, d)
    <2>1. \A k \in Told(d) : k \in Told(d)'
      BY <1>3, <1>4, <1>5, <1>11 DEF Told
    <2>2. Cardinality(Told(d)) <= Cardinality(Told(d)') + 0
      <3>1. Told(d) \subseteq Told(d)' /\ IsFiniteSet(Told(d)')
        BY <2>1, DaySizesNext
      <3> QED BY <3>1, Fits
    <2>3. restarts' + Cardinality(FullOnes(d)') = m
      <3>1. FullOnes(d)' = FullOnes(d) \ {i} /\ i \in FullOnes(d) /\ IsFiniteSet(FullOnes(d))
        BY <1>5, <1>6, <1>11, DaySizes DEF FullOnes
      <3>2. Cardinality(FullOnes(d) \ {i}) = Cardinality(FullOnes(d)) - 1
        BY <3>1, FS_RemoveElement
      <3>3. Cardinality(FullOnes(d)') = f - 1
        BY <3>1, <3>2
      <3> HIDE DEF f
      <3> QED BY <1>1, <1>10, <3>3
    <2>4. Base(d)' = Base(d)
      BY <1>1, <2>3 DEF Base
    <2>5. Base(d)' = Base(d) + 0 + 0
      BY <2>4, BaseIs
    <2>6. Excess(d) => Excess(d)'
      BY <1>1, <1>9, <2>2, <2>5, Booked
    <2> QED BY <1>7, <2>6
  <1>12. CASE ~Full(i, d)
    <2> DEFINE t == Cardinality(Tasks)
    <2>1. t \in Nat /\ Cardinality(Told(d)) <= t
      BY DaySizes, Fits, CountersAssumption
    <2>2. Cardinality(Told(d)) <= Cardinality(Told(d)') + t
      <3> DEFINE o == Cardinality(Told(d))
                 op == Cardinality(Told(d)')
      <3>1. o \in Nat /\ op \in Nat /\ o <= t
        BY <2>1, DaySizes, DaySizesNext
      <3> HIDE DEF o, op, t
      <3>2. o <= op + t
        BY <2>1, <3>1
      <3> QED BY <3>2 DEF o, op
    <2>3. FullOnes(d)' = FullOnes(d)
      BY <1>5, <1>6, <1>12 DEF FullOnes
    <2>4. restarts' + Cardinality(FullOnes(d)') = m + 1
      <3>1. restarts' + Cardinality(FullOnes(d)') = (restarts + 1) + f
        BY <1>1, <2>3
      <3> HIDE DEF f
      <3> QED BY <1>10, <3>1
    <2>5. Base(d)' = Base(d) + 0 + t
      <3>1. Base(d) = Account(faults, m, 0) /\ Base(d)' = Account(faults, m + 1, 0)
        BY <1>1, <2>4 DEF Base
      <3>0. m \in Nat /\ faults \in Nat
        BY <1>10
      <3> HIDE DEF m, f
      <3>2. /\ Account(faults, m + 1, 0) = Account(faults, m, 0) + Cardinality(Tasks)
            /\ Account(faults, m, 0) \in Nat
        BY <3>0, MoreLives
      <3> QED BY <2>1, <3>1, <3>2
    <2> HIDE DEF t
    <2>6. Excess(d) => Excess(d)'
      BY <1>1, <1>9, <2>1, <2>2, <2>5, Booked
    <2> QED BY <1>7, <2>6
  <1> QED BY <1>11, <1>12

\* Today is still kept, and a key that is gone stays so.
LEMMA TodayLasts ==
  ASSUME TypeOK
  PROVE  DayOf(now) \in Days /\ ~Expired(DayOf(now), Retention)
  <1> DEFINE c == DayOf(now)
             u == now % HoursPerDay
  <1>1. /\ now \in Int /\ c \in Days /\ HoursPerDay \in Nat \ {0} /\ Retention \in Nat
        /\ HoursPerDay <= Retention
    BY HoursAndDays, CountersAssumption DEF TypeOK
  <1>2. c \in Int /\ u \in 0 .. HoursPerDay - 1 /\ now = HoursPerDay * c + u
    BY <1>1, HourOfDay
  <1> HIDE DEF c, u
  <1>3. HoursPerDay * c = c * HoursPerDay /\ c * HoursPerDay \in Int
    BY <1>1, <1>2
  <1>4. c * HoursPerDay + Retention > now
    BY <1>1, <1>2, <1>3
  <1> DEFINE x == c * HoursPerDay + Retention
  <1>5. x \in Int /\ x > now
    BY <1>1, <1>3, <1>4
  <1>6. Expired(c, Retention) <=> x <= now
    BY DEF Expired
  <1> HIDE DEF x
  <1>7. ~Expired(c, Retention)
    BY <1>1, <1>5, <1>6
  <1> QED BY <1>1, <1>7 DEF c

LEMMA ExpiredStays ==
  ASSUME TypeOK, TypeOK', NEW d \in Days, Expired(d, Retention), now' >= now
  PROVE  Expired(d, Retention)'
  <1> DEFINE x == d * HoursPerDay + Retention
             m == now'
  <1>1. x \in Int /\ now \in Int /\ m \in Int /\ m >= now /\ x <= now
    BY HoursAndDays, CountersAssumption DEF TypeOK, Expired
  <1> HIDE DEF x, m
  <1>2. x <= m
    BY <1>1
  <1> QED BY <1>2 DEF Expired, x, m

LEMMA UndoneSizes ==
  \A d \in Days : /\ IsFiniteSet(Undone(d)) /\ Cardinality(Undone(d)) \in Nat
                  /\ Cardinality(Undone(d)) <= Cardinality(Tasks)
                  /\ Cardinality(Tasks) \in Nat
  <1> TAKE d \in Days
  <1>1. Undone(d) \subseteq Tasks
    BY DEF Undone
  <1> QED BY <1>1, Fits, CountersAssumption

\* A key that is gone: a route is listed only by a pipeline that was under way.
LEMMA FewKept ==
  ASSUME TypeOK, TypeOK', NEW d \in Days, Few(d), now' >= now,
         \/ Listed(d)' \subseteq Listed(d) /\ Undone(d)' \subseteq Undone(d)
         \/ \E k \in Undone(d) : \E r : /\ Listed(d)' \subseteq Listed(d) \cup {r}
                                        /\ Undone(d)' \subseteq Undone(d) \ {k}
  PROVE  Few(d)'
  <1> DEFINE l == Cardinality(Listed(d))
             lp == Cardinality(Listed(d)')
             u == Cardinality(Undone(d))
             up == Cardinality(Undone(d)')
             t == Cardinality(Tasks)
  <1>1. Expired(d, Retention)'
    BY ExpiredStays DEF Few
  <1>2. /\ IsFiniteSet(Listed(d)) /\ l \in Nat /\ IsFiniteSet(Undone(d)) /\ u \in Nat /\ t \in Nat
        /\ l + u <= t
    BY DaySizes, UndoneSizes DEF Few
  <1>3. CASE Listed(d)' \subseteq Listed(d) /\ Undone(d)' \subseteq Undone(d)
    <2>1. lp \in Nat /\ lp <= l /\ up \in Nat /\ up <= u
      BY <1>2, <1>3, Fits
    <2> HIDE DEF l, lp, u, up, t
    <2>2. lp + up <= t
      BY <1>2, <2>1
    <2> QED BY <1>1, <2>2 DEF Few, lp, up, t
  <1>4. ASSUME NEW k \in Undone(d), NEW r, Listed(d)' \subseteq Listed(d) \cup {r},
               Undone(d)' \subseteq Undone(d) \ {k}
        PROVE  Few(d)'
    <2>1. lp \in Nat /\ lp <= l + 1
      BY <1>2, <1>4, OneMore
    <2>2. up \in Nat /\ up + 1 <= u
      BY <1>2, <1>4, OneLess
    <2> HIDE DEF l, lp, u, up, t
    <2>3. lp + up <= t
      BY <1>2, <2>1, <2>2
    <2> QED BY <1>1, <2>3 DEF Few, lp, up, t
  <1> QED BY <1>3, <1>4

LEMMA FewNext ==
  ASSUME TypeOK, TypeOK', NEW d \in Days, Few(d), now' >= now, [Next]_vars
  PROVE  Few(d)'
  <1>1. ASSUME store'[Shared] = store[Shared],
               \A k \in Tasks : task'[k] = task[k] \/ ~Carries(k, d)'
        PROVE  Few(d)'
    <2>1. Listed(d)' \subseteq Listed(d)
      BY <1>1 DEF Listed
    <2>2. Undone(d)' \subseteq Undone(d)
      BY <1>1 DEF Undone, Carries, Busy
    <2> QED BY <2>1, <2>2, FewKept
  <1>2. \A i \in Instances : i # Shared
    BY CountersAssumption
  <1>3. d # DayOf(now)
    BY TodayLasts DEF Few
  <1>4. ASSUME NEW i \in Instances, NEW k \in Tasks, NEW n \in Calls,
               NEW r \in Routes \cup {None}, RecordShared(i, k, n, r)
        PROVE  Few(d)'
    <2>1. task'[k].hour = now /\ \A j \in Tasks \ {k} : task'[j] = task[j]
      BY <1>4 DEF RecordShared, TypeOK
    <2>2. ~Carries(k, d)'
      BY <1>3, <2>1 DEF Carries
    <2> QED BY <1>1, <1>4, <2>1, <2>2 DEF RecordShared
  <1>5. ASSUME NEW i \in Instances, NEW s, store' = [store EXCEPT ![i] = s], UNCHANGED task
        PROVE  Few(d)'
    <2>1. store'[Shared] = store[Shared]
      BY <1>2, <1>5 DEF TypeOK
    <2> QED BY <1>1, <1>5, <2>1
  <1>6. ASSUME NEW i \in Instances, NEW n \in Calls, NEW r \in Routes \cup {None},
               RecordMemory(i, n, r)
        PROVE  Few(d)'
    BY <1>5, <1>6 DEF RecordMemory
  <1>7. ASSUME NEW k \in Tasks, Execute(k) PROVE Few(d)'
    <2> DEFINE s == store[Shared]
               q == task[k]
    <2>1. /\ s \in Store /\ store'[Shared] = Bumped(s, q) /\ q.hour \in Hours /\ q.n \in Count
          /\ Busy(k) /\ ~q.done
      BY <1>7, ExecuteType DEF TypeOK, Execute, Task
    <2>2. PICK x : task' = [task EXCEPT ![k] = [task[k] EXCEPT !.done = TRUE, !.hlen = x]]
      BY <1>7, ExecuteType
    <2>3. task'[k].done /\ \A j \in Tasks \ {k} : task'[j] = task[j]
      <3>1. task'[k] = [task[k] EXCEPT !.done = TRUE, !.hlen = x]
            /\ \A j \in Tasks \ {k} : task'[j] = task[j]
        BY <2>2 DEF TypeOK
      <3>2. task[k] \in Task
        BY <1>7, BusyTask DEF Execute
      <3> QED BY <3>1, <3>2 DEF Task
    <2>4. Undone(d)' \subseteq Undone(d) \ {k}
      BY <2>3 DEF Undone, Carries, Busy
    <2>5. Listed(d)' = IF d = DayOf(q.hour) THEN Listed(d) \cup ({q.route} \ {None}) ELSE Listed(d)
      <3> HIDE DEF s, q
      <3>1. Bumped(s, q).routes[d] = IF d = DayOf(q.hour) THEN s.routes[d] \cup ({q.route} \ {None})
                                     ELSE s.routes[d]
        BY <2>1, BumpedFields
      <3> QED BY <2>1, <3>1 DEF Listed, s
    <2>6. CASE Carries(k, d)
      <3>1. k \in Undone(d) /\ Listed(d)' \subseteq Listed(d) \cup {q.route}
        BY <2>1, <2>5, <2>6 DEF Undone
      <3> QED BY <2>4, <3>1, FewKept
    <2>7. CASE ~Carries(k, d)
      <3>1. Listed(d)' \subseteq Listed(d)
        BY <2>1, <2>5, <2>7 DEF Carries
      <3> QED BY <2>4, <3>1, FewKept
    <2> QED BY <2>6, <2>7
  <1>8. ASSUME NEW k \in Tasks, task' = [task EXCEPT ![k] = NoTask], UNCHANGED store
        PROVE  Few(d)'
    BY <1>1, <1>8 DEF TypeOK, Carries, Busy
  <1>9. ASSUME NEW i \in Instances, ReadWindow(i) PROVE Few(d)'
    BY <1>5, <1>9, Forgetting DEF ReadWindow
  <1>10. ASSUME NEW i \in Instances, Restart(i) PROVE Few(d)'
    <2>1. \/ UNCHANGED store
          \/ \E s : store' = [store EXCEPT ![i] = s]
      BY <1>10 DEF Restart
    <2>2. store'[Shared] = store[Shared]
      BY <1>2, <2>1 DEF TypeOK
    <2>3. \A k \in Tasks : task'[k] = task[k] \/ task'[k] = NoTask
      BY <1>10 DEF Restart
    <2> QED BY <1>1, <2>2, <2>3 DEF Carries, Busy
  <1>11. CASE Expire
    <2>1. store'[Shared] = Lasting(store[Shared]) /\ store[Shared] \in Store /\ task' = task
      BY <1>11, Forgetting DEF Expire, TypeOK
    <2>2. Listed(d)' \subseteq Listed(d)
      BY <2>1, ForgottenFields DEF Listed
    <2>3. Undone(d)' \subseteq Undone(d)
      BY <2>1 DEF Undone, Carries, Busy
    <2> QED BY <2>2, <2>3, FewKept
  <1>12. ASSUME UNCHANGED <<store, task>> PROVE Few(d)'
    BY <1>1, <1>12
  <1> QED BY <1>4, <1>6, <1>7, <1>8, <1>9, <1>10, <1>11, <1>12
          DEF Next, Answered, Unanswered, ReadFails, Tick, vars

\* The key goes: what was listed is forgotten by Redis, and by nobody else.
LEMMA ExpireDay ==
  ASSUME TypeOK, TypeOK', NEW d \in Days, Known(d), Expire
  PROVE  Known(d)' /\ (Excess(d) => Excess(d)' \/ Few(d)')
  <1>1. /\ store'[Shared] = Lasting(store[Shared]) /\ store[Shared] \in Store
        /\ UNCHANGED <<seen, len, task, restarts, faults, now>>
    BY Forgetting DEF Expire, TypeOK
  <1>2. /\ Listed(d)' \subseteq Listed(d)
        /\ Listed(d)' = IF Expired(d, Retention) THEN {} ELSE Listed(d)
    <2>1. Lasting(store[Shared]).routes[d]
            = IF Expired(d, Retention) THEN {} ELSE store[Shared].routes[d]
      BY <1>1 DEF Lasting, Store
    <2> QED BY <1>1, <2>1 DEF Listed
  <1>3. \A k \in Tasks : Carries(k, d)' <=> Carries(k, d)
    BY <1>1 DEF Carries, Busy
  <1>4. Known(d)'
    <2>1. Cardinality(Listed(d)') <= Cardinality(Listed(d)) /\ Cardinality(Listed(d)') \in Nat
          /\ Cardinality(Listed(d)) \in Nat /\ RouteCap \in Nat
      BY <1>2, DaySizes, Fits
    <2>2. Cardinality(Listed(d)) <= RouteCap => Cardinality(Listed(d)') <= RouteCap
      <3> DEFINE a == Cardinality(Listed(d))
                 b == Cardinality(Listed(d)')
      <3>1. b <= a /\ b \in Nat /\ a \in Nat /\ RouteCap \in Nat
        BY <2>1
      <3> HIDE DEF a, b
      <3>2. a <= RouteCap => b <= RouteCap
        BY <3>1
      <3> QED BY <3>2 DEF a, b
    <2>3. Writers(d)' = Writers(d)
      BY <1>1 DEF Writers
    <2> QED BY <1>1, <1>2, <1>3, <2>2, <2>3 DEF Known
  <1>5. CASE Expired(d, Retention)
    <2>1. Expired(d, Retention)'
      BY <1>1, <1>5 DEF Expired
    <2>2. Cardinality(Listed(d)') = 0
      BY <1>2, <1>5, FS_EmptySet
    <2>3. Undone(d)' = Undone(d)
      BY <1>1, <1>3 DEF Undone
    <2>4. Cardinality(Listed(d)') + Cardinality(Undone(d)') <= Cardinality(Tasks)
      BY <2>2, <2>3, UndoneSizes
    <2>5. Few(d)'
      BY <2>1, <2>4 DEF Few
    <2> QED BY <1>4, <2>5
  <1>6. CASE ~Expired(d, Retention)
    <2>1. faults' >= faults /\ Listed(d)' = Listed(d)
      BY <1>1, <1>2, <1>6 DEF TypeOK
    <2>2. \A i \in Instances : seen'[i][d] = seen[i][d] /\ len'[i][d] = len[i][d]
      BY <1>1
    <2>3. Excess(d) => Excess(d)'
      BY <1>1, <1>3, <2>1, <2>2, DayUntouched
    <2> QED BY <1>4, <2>3
  <1> QED BY <1>5, <1>6

LEMMA HistogramsNext ==
  ASSUME TypeOK, TypeOK', Histograms, [Next]_vars
  PROVE  Histograms'
  <1>0. now \in Int /\ now' \in Int /\ now' >= now
    <2>1. now \in Int /\ now' \in Int
      BY HoursAndDays DEF TypeOK
    <2> DEFINE m == now'
    <2>2. m = now \/ m = now + 1
      BY DEF Next, RecordShared, RecordMemory, Execute, Answered, Unanswered, ReadFails,
             ReadWindow, Restart, Expire, Tick, vars
    <2>3. m \in Int
      BY <2>1
    <2> HIDE DEF m
    <2>4. m >= now
      BY <2>1, <2>2, <2>3
    <2> QED BY <2>1, <2>4 DEF m
  <1>1. ASSUME NEW d \in Days, d >= DayOf(now') - 1
        PROVE  Known(d)' /\ (Excess(d)' \/ Few(d)')
    <2> DEFINE Kept == Known(d)' /\ (Excess(d) => Excess(d)' \/ Few(d)')
    <2>2. d >= DayOf(now) - 1
      <3> DEFINE m == now'
      <3>1. m \in Int /\ m >= now /\ d >= DayOf(m) - 1 /\ d \in Int
        BY <1>0, <1>1, HoursAndDays
      <3> HIDE DEF m
      <3>2. DayOf(now) \in Int /\ DayOf(m) \in Int /\ DayOf(now) <= DayOf(m)
        BY <1>0, <3>1, DaysInOrder
      <3> QED BY <3>1, <3>2
    <2>3. Known(d) /\ (Excess(d) \/ Few(d))
      BY <2>2 DEF Histograms, Recent
    <2>4. ASSUME UNCHANGED <<seen, len, task, restarts>>, faults' = faults \/ faults' = faults + 1,
                 Listed(d)' = Listed(d)
          PROVE  Kept
      <3>1. faults' >= faults
        BY <2>4 DEF TypeOK
      <3>2. \A k \in Tasks : (Carries(k, d)' <=> Carries(k, d))
                               /\ (Carries(k, d) => task'[k] = task[k])
        BY <2>4 DEF Carries, Busy
      <3>3. \A i \in Instances : seen'[i][d] = seen[i][d] /\ len'[i][d] = len[i][d]
        BY <2>4
      <3> QED BY <2>3, <2>4, <3>1, <3>2, <3>3, DayUntouched
    <2>5. \A i \in Instances : i # Shared
      BY CountersAssumption
    <2>6. ASSUME NEW i \in Instances, NEW k \in Tasks, NEW n \in Calls,
                 NEW r \in Routes \cup {None}, RecordShared(i, k, n, r)
          PROVE  Kept
      BY <2>2, <2>3, <2>6, RecordDay
    <2>7. ASSUME NEW i \in Instances, NEW n \in Calls, NEW r \in Routes \cup {None},
                 RecordMemory(i, n, r)
          PROVE  Kept
      <3>1. \E s : store' = [store EXCEPT ![i] = s]
        BY <2>7 DEF RecordMemory
      <3>2. Listed(d)' = Listed(d)
        BY <2>5, <3>1 DEF TypeOK, Listed
      <3> QED BY <2>4, <2>7, <3>2 DEF RecordMemory
    <2>8. ASSUME NEW k \in Tasks, Execute(k) PROVE Kept
      BY <2>3, <2>8, ExecuteDay
    <2>9. ASSUME NEW k \in Tasks, Answered(k) PROVE Kept
      BY <2>3, <2>9, AnsweredDay
    <2>10. ASSUME NEW k \in Tasks, Unanswered(k) PROVE Kept
      BY <2>3, <2>10, UnansweredDay
    <2>11. ASSUME NEW i \in Instances, ReadFails(i) PROVE Kept
      BY <2>4, <2>11 DEF ReadFails, Listed
    <2>12. ASSUME NEW i \in Instances, ReadWindow(i) PROVE Kept
      <3>1. store' = [store EXCEPT ![i] = Windowed(store[i])]
        BY <2>12, Forgetting
      <3>2. Listed(d)' = Listed(d)
        BY <2>5, <3>1 DEF TypeOK, Listed
      <3> QED BY <2>4, <2>12, <3>2 DEF ReadWindow
    <2>13. ASSUME NEW i \in Instances, Restart(i) PROVE Kept
      BY <2>3, <2>13, RestartDay
    <2>14. ASSUME Expire PROVE Kept
      BY <2>3, <2>14, ExpireDay
    <2>15. ASSUME Tick PROVE Kept
      BY <2>4, <2>15 DEF Tick, Listed
    <2>16. ASSUME UNCHANGED vars PROVE Kept
      BY <2>4, <2>16 DEF vars, Listed
    <2> HIDE DEF Kept
    <2>17. Kept
      BY <2>6, <2>7, <2>8, <2>9, <2>10, <2>11, <2>12, <2>13, <2>14, <2>15, <2>16 DEF Next
    <2>18. Few(d) => Few(d)'
      BY <1>0, FewNext
    <2> QED BY <2>3, <2>17, <2>18 DEF Kept
  <1> QED BY <1>1 DEF Histograms, Recent

LEMMA HistogramsInit == Init => Histograms
  <1> SUFFICES ASSUME Init, NEW d \in Days PROVE Known(d) /\ Excess(d)
    BY DEF Histograms, Recent
  <1>0. TypeOK
    BY TypeInit
  <1>1. /\ Listed(d) = {} /\ faults = 0 /\ restarts = 0
        /\ \A i \in Instances : seen[i][d] = {} /\ len[i][d] = 0
        /\ \A k \in Tasks : ~Carries(k, d)
    BY DEF Init, EmptyStore, Listed, Carries, Busy
  <1>2. Cardinality({}) = 0 /\ RouteCap \in Nat \ {0}
    BY FS_EmptySet, CountersAssumption
  <1>3. Astray(d) = {}
    BY <1>1 DEF Astray
  <1>4. Known(d)
    <2>1. \A i \in Instances : Cardinality(seen[i][d]) = 0
      BY <1>1, <1>2
    <2> QED BY <1>1, <1>2, <2>1 DEF Known
  <1>5. Cardinality(Astray(d)) = 0 /\ Cardinality(Listed(d)) = 0
    BY <1>1, <1>2, <1>3
  <1>6. Due(d) \in Nat
    BY <1>0, DaySizes
  <1>7. Excess(d)
    BY <1>2, <1>5, <1>6 DEF Excess
  <1> QED BY <1>4, <1>7

\* What an instance counts in its own memory stops at the cap: there is nothing
\* to be told, and nothing under way.
Local == \A i \in Instances, d \in Days : Cardinality(store[i].routes[d]) <= RouteCap

LEMMA LocalNext == TypeOK /\ Local /\ [Next]_vars => Local'
  <1> SUFFICES ASSUME TypeOK, Local, [Next]_vars, NEW i \in Instances, NEW d \in Days
               PROVE  Cardinality(store'[i].routes[d]) <= RouteCap
    BY DEF Local
  <1> DEFINE Kept == Cardinality(store'[i].routes[d]) <= RouteCap
             s == store[i]
  <1>0. /\ s \in Store /\ i # Shared /\ RouteCap \in Nat /\ Cardinality(s.routes[d]) <= RouteCap
        /\ s.routes[d] \subseteq Routes /\ IsFiniteSet(s.routes[d])
        /\ Cardinality(s.routes[d]) \in Nat
    <2>1. s \in Store /\ i # Shared /\ RouteCap \in Nat
      BY CountersAssumption DEF TypeOK
    <2>2. s.routes[d] \subseteq Routes
      BY <2>1 DEF Store
    <2>3. IsFiniteSet(s.routes[d]) /\ Cardinality(s.routes[d]) \in Nat
      BY <2>2, Fits, CountersAssumption
    <2> QED BY <2>1, <2>2, <2>3 DEF Local
  <1>1. ASSUME store'[i] = s \/ store'[i].routes[d] \subseteq s.routes[d] PROVE Kept
    <2> DEFINE T == store'[i].routes[d]
    <2>1. T \subseteq s.routes[d]
      BY <1>1
    <2> HIDE DEF T
    <2>2. Cardinality(T) \in Nat /\ Cardinality(T) <= Cardinality(s.routes[d])
      BY <1>0, <2>1, Fits
    <2>3. Cardinality(T) <= RouteCap
      BY <1>0, <2>2
    <2> QED BY <2>3 DEF T
  <1>2. ASSUME NEW j \in Instances, NEW n \in Calls, NEW route \in Routes \cup {None},
               RecordMemory(j, n, route)
        PROVE  Kept
    <2> DEFINE today == DayOf(now)
               taken == route \in s.routes[today] \/ Cardinality(s.routes[today]) < RouteCap
               r == [hour |-> now, n |-> n, route |-> IF taken THEN route ELSE None]
    <2>1. CASE j # i
      BY <1>1, <1>2, <2>1 DEF RecordMemory, TypeOK
    <2>2. CASE j = i
      <3>1. store'[i] = Bumped(s, r)
        BY <1>2, <2>2 DEF RecordMemory, TypeOK
      <3>2. r.hour \in Hours /\ r.n \in Count
        <4>1. n \in Count /\ now \in Hours
          BY CountersAssumption DEF TypeOK, Count
        <4> QED BY <4>1
      <3>3. r.route = IF taken THEN route ELSE None
        OBVIOUS
      <3> HIDE DEF r
      <3>4. Bumped(s, r).routes[d] = IF d = DayOf(r.hour) THEN s.routes[d] \cup ({r.route} \ {None})
                                                          ELSE s.routes[d]
        BY <1>0, <3>2, BumpedFields
      <3>5. CASE d # today \/ ~taken \/ route = None \/ route \in s.routes[d]
        <4>1. r.hour = now
          BY DEF r
        <4>2. store'[i].routes[d] \subseteq s.routes[d]
          BY <3>1, <3>3, <3>4, <3>5, <4>1
        <4> QED BY <1>1, <4>2
      <3>6. CASE ~(d # today \/ ~taken \/ route = None \/ route \in s.routes[d])
        <4>1. store'[i].routes[d] \subseteq s.routes[d] \cup {route}
          BY <3>1, <3>3, <3>4
        <4>2. Cardinality(s.routes[d]) < RouteCap
          BY <3>6
        <4> DEFINE T == store'[i].routes[d]
                   c == Cardinality(s.routes[d])
        <4> HIDE DEF T
        <4>3. Cardinality(T) \in Nat /\ Cardinality(T) <= c + 1
          BY <1>0, <4>1, OneMore DEF T
        <4>4. c \in Nat /\ c < RouteCap
          BY <1>0, <4>2
        <4> HIDE DEF c
        <4>5. Cardinality(T) <= RouteCap
          BY <1>0, <4>3, <4>4
        <4> QED BY <4>5 DEF T
      <3> QED BY <3>5, <3>6
    <2> QED BY <2>1, <2>2
  <1>3. ASSUME NEW j \in Instances, ReadWindow(j) PROVE Kept
    <2>1. store' = [store EXCEPT ![j] = Windowed(store[j])]
      BY <1>3, Forgetting
    <2>2. CASE j # i
      BY <1>1, <2>1, <2>2 DEF TypeOK
    <2>3. CASE j = i
      <3>1. store'[i] = Windowed(s)
        BY <2>1, <2>3 DEF TypeOK
      <3>2. Windowed(s).routes[d] \subseteq s.routes[d]
        BY <1>0, ForgottenFields
      <3> QED BY <1>1, <3>1, <3>2
    <2> QED BY <2>2, <2>3
  <1>4. ASSUME NEW j \in Instances, Restart(j) PROVE Kept
    <2>1. \/ UNCHANGED store
          \/ store' = [store EXCEPT ![j] = Replayed(lines[j])]
          \/ store' = [store EXCEPT ![j] = EmptyStore]
      BY <1>4 DEF Restart
    <2>2. Replayed(lines[j]).routes[d] = {} /\ EmptyStore.routes[d] = {}
      BY DEF Replayed, EmptyStore
    <2>3. store'[i] = s \/ store'[i].routes[d] = {}
      BY <2>1, <2>2 DEF TypeOK
    <2> QED BY <1>1, <2>3
  <1>5. ASSUME NEW k \in Tasks, Execute(k) PROVE Kept
    BY <1>0, <1>1, <1>5 DEF Execute, TypeOK
  <1>6. ASSUME Expire PROVE Kept
    BY <1>0, <1>1, <1>6, Forgetting DEF TypeOK
  <1>7. ASSUME UNCHANGED store PROVE Kept
    BY <1>1, <1>7
  <1> HIDE DEF Kept, s
  <1> QED BY <1>2, <1>3, <1>4, <1>5, <1>6, <1>7
          DEF Next, RecordShared, Answered, Unanswered, ReadFails, Tick, vars, Kept

LEMMA LocalInit == Init => Local
  <1> SUFFICES ASSUME Init, NEW i \in Instances, NEW d \in Days
               PROVE  Cardinality(store[i].routes[d]) <= RouteCap
    BY DEF Local
  <1>1. store[i].routes[d] = {}
    BY DEF Init, EmptyStore
  <1>2. Cardinality({}) = 0 /\ RouteCap \in Nat
    BY FS_EmptySet, CountersAssumption
  <1> QED BY <1>1, <1>2

\* What is due at most, and what one life of one instance can have listed.
LEMMA BoundFollows ==
  ASSUME TypeOK, NEW d \in Days, Known(d), Excess(d) \/ Few(d)
  PROVE  LET lives == Cardinality(Writers(d)) + restarts IN
         /\ lives <= 1 => Cardinality(Listed(d)) <= RouteCap
         /\ Cardinality(Listed(d)) <= RouteCap + faults + lives * Cardinality(Tasks)
  <1> DEFINE w == Cardinality(Writers(d))
             f == Cardinality(FullOnes(d))
             o == Cardinality(Told(d))
             t == Cardinality(Tasks)
             l == Cardinality(Listed(d))
             lives == w + restarts
  <1>1. /\ Writers(d) \subseteq Instances /\ IsFiniteSet(Writers(d)) /\ w \in Nat
        /\ f \in Nat /\ o \in Nat /\ t \in Nat /\ l \in Nat /\ restarts \in Nat /\ faults \in Nat
        /\ RouteCap \in Nat \ {0}
    <2>1. Writers(d) \subseteq Instances
      BY DEF Writers
    <2>2. IsFiniteSet(Writers(d)) /\ w \in Nat /\ t \in Nat
      BY <2>1, Fits, CountersAssumption
    <2> QED BY <2>1, <2>2, DaySizes, CountersAssumption DEF TypeOK
  <1>2. ASSUME lives <= 1 PROVE l <= RouteCap
    <2>1. restarts = 0 \/ (restarts = 1 /\ w = 0)
      <3> HIDE DEF w
      <3> QED BY <1>1, <1>2
    <2>2. CASE restarts = 1 /\ w = 0
      <3>1. Writers(d) = {}
        BY <1>1, <2>2, FS_EmptySet
      <3> QED BY <2>2, <3>1 DEF Known
    <2>3. CASE restarts = 0
      <3>1. w <= 1
        <4> HIDE DEF w
        <4> QED BY <1>1, <1>2, <2>3
      <3>2. CASE Listed(d) = {}
        BY <1>1, <3>2, FS_EmptySet
      <3>3. CASE Listed(d) # {}
        <4>1. PICK q \in Listed(d) : TRUE
          BY <3>3
        <4>2. PICK i \in Instances : q \in seen[i][d]
          BY <2>3, <4>1 DEF Known
        <4>3. i \in Writers(d)
          BY <4>2 DEF Writers
        <4>4. \A j \in Writers(d) : j = i
          <5> SUFFICES ASSUME NEW j \in Writers(d), j # i PROVE FALSE
            OBVIOUS
          <5>1. Cardinality({j}) + 1 <= w
            <6>1. {j} \subseteq Writers(d) \ {i}
              OBVIOUS
            <6> QED BY <1>1, <4>3, <6>1, OneLess
          <5>2. Cardinality({j}) = 1
            BY FS_Singleton
          <5> HIDE DEF w
          <5> QED BY <1>1, <3>1, <5>1, <5>2
        <4>5. Listed(d) \subseteq seen[i][d]
          <5> SUFFICES ASSUME NEW r \in Listed(d) PROVE r \in seen[i][d]
            OBVIOUS
          <5>1. PICK j \in Instances : r \in seen[j][d]
            BY <2>3 DEF Known
          <5>2. j \in Writers(d)
            BY <5>1 DEF Writers
          <5> QED BY <4>4, <5>1, <5>2
        <4>6. l <= Cardinality(seen[i][d]) /\ Cardinality(seen[i][d]) \in Nat
          BY <4>5, DaySizes, Fits
        <4>7. Cardinality(seen[i][d]) <= RouteCap
          BY DEF Known
        <4> HIDE DEF l
        <4> QED BY <1>1, <4>6, <4>7
      <3> QED BY <3>2, <3>3
    <2> QED BY <2>1, <2>2, <2>3
  <1>3. FullOnes(d) \subseteq Writers(d)
    <2> SUFFICES ASSUME NEW i \in FullOnes(d) PROVE i \in Writers(d)
      OBVIOUS
    <2>1. i \in Instances /\ len[i][d] >= RouteCap /\ len[i][d] \in Nat
      BY DaySizes DEF FullOnes, Full
    <2>2. len[i][d] > 0
      BY <1>1, <2>1
    <2> QED BY <2>1, <2>2 DEF Known, Writers
  <1>4. Due(d) <= Account(faults, lives, 0)
    <2> DEFINE m == restarts + f
    <2>1. Due(d) = Account(faults, m, 0) + o /\ Account(faults, m, 0) \in Nat
      BY BaseIs DEF Base
    <2>2. m \in Nat /\ lives \in Nat
      BY <1>1
    <2>3. CASE Told(d) = {}
      <3>1. o = 0
        BY <2>3, FS_EmptySet
      <3>2. f <= w
        BY <1>1, <1>3, Fits
      <3>3. m <= lives
        <4> HIDE DEF f, w
        <4> QED BY <1>1, <3>2
      <3> HIDE DEF m, lives, o
      <3>4. Account(faults, m, 0) <= Account(faults, lives, 0)
        BY <1>1, <2>2, <3>3, Accounts
      <3> QED BY <2>1, <3>1, <3>4
    <2>4. CASE Told(d) # {}
      <3>1. PICK k \in Told(d) : TRUE
        BY <2>4
      <3>2. Carries(k, d) /\ k \in Tasks /\ ~Full(task[k].inst, d) /\ task[k].inst \in Instances
        BY BusyTask DEF Told, Carries, Task
      <3>3. task[k].inst \in Writers(d) /\ FullOnes(d) \subseteq Writers(d) \ {task[k].inst}
        BY <1>3, <3>2 DEF Known, Writers, FullOnes
      <3>4. f + 1 <= w
        BY <1>1, <3>3, OneLess
      <3>5. o <= t
        BY DaySizes, Fits, CountersAssumption
      <3>6. m + 1 <= lives
        <4> HIDE DEF f, w
        <4> QED BY <1>1, <3>4
      <3>7. m + 1 \in Nat
        BY <2>2
      <3> HIDE DEF m, lives, o
      <3>8. /\ Account(faults, m + 1, 0) = Account(faults, m, 0) + t
            /\ Account(faults, m + 1, 0) \in Nat
            /\ Account(faults, lives, 0) \in Nat
        <4>1. Account(faults, m + 1, 0) = Account(faults, m, 0) + t /\ Account(faults, m, 0) \in Nat
          BY <1>1, <2>2, MoreLives
        <4>2. Account(faults, lives, 0) \in Nat
          BY <1>1, <2>2, Accounts
        <4> HIDE DEF t
        <4> QED BY <1>1, <4>1, <4>2
      <3>9. Account(faults, m + 1, 0) <= Account(faults, lives, 0)
        <4> DEFINE n == m + 1
        <4>1. n \in Nat /\ n <= lives
          BY <3>6, <3>7
        <4> HIDE DEF n
        <4>2. Account(faults, n, 0) <= Account(faults, lives, 0)
          BY <1>1, <2>2, <4>1, Accounts
        <4> QED BY <4>2 DEF n
      <3> HIDE DEF t
      <3>10. Account(faults, m, 0) + o <= Account(faults, m, 0) + t
        BY <1>1, <2>1, <3>5
      <3> QED BY <1>1, <2>1, <3>8, <3>9, <3>10
    <2> QED BY <2>3, <2>4
  <1>5. CASE Excess(d)
    <2>1. Account(faults, lives, 0) = faults + lives * t + 0 /\ lives * t \in Nat
      <3>1. lives \in Nat /\ t \in Nat
        BY <1>1
      <3>2. Account(faults, lives, 0) = faults + lives * t + 0
        BY DEF Account
      <3> HIDE DEF lives, t
      <3> QED BY <3>1, <3>2
    <2>2. l <= RouteCap + Due(d) /\ Due(d) \in Nat
      <3>1. l + Cardinality(Astray(d)) <= RouteCap + Due(d) /\ Cardinality(Astray(d)) \in Nat
            /\ Due(d) \in Nat
        BY <1>5, DaySizes DEF Excess
      <3> HIDE DEF l
      <3> QED BY <1>1, <3>1
    <2> DEFINE p == lives * t
    <2>3. p \in Nat /\ Account(faults, lives, 0) = faults + p + 0
      BY <2>1
    <2> HIDE DEF p
    <2>4. l <= RouteCap + faults + p
      <3> HIDE DEF l
      <3> DEFINE a == Account(faults, lives, 0)
                 u == Due(d)
      <3>1. u \in Nat /\ u <= a /\ a = faults + p + 0 /\ l <= RouteCap + u
        BY <1>4, <2>2, <2>3
      <3> HIDE DEF a, u
      <3> QED BY <1>1, <2>3, <3>1
    <2>5. l <= RouteCap + faults + lives * t
      BY <2>4 DEF p
    <2> QED BY <1>2, <2>5
  <1>6. CASE Few(d)
    <2>1. l <= t
      <3>1. l + Cardinality(Undone(d)) <= t /\ Cardinality(Undone(d)) \in Nat
        BY <1>6, UndoneSizes DEF Few
      <3> HIDE DEF l, t
      <3> QED BY <1>1, <3>1
    <2>2. CASE lives <= 1
      <3>1. lives * t \in Nat
        <4>1. lives \in Nat /\ t \in Nat
          BY <1>1
        <4> HIDE DEF lives, t
        <4> QED BY <4>1
      <3> DEFINE p == lives * t
      <3>2. p \in Nat /\ l <= RouteCap
        BY <1>2, <2>2, <3>1
      <3> HIDE DEF p, l
      <3>3. l <= RouteCap + faults + p
        BY <1>1, <3>2
      <3> QED BY <1>2, <3>3 DEF p, l
    <2>3. CASE ~(lives <= 1)
      <3>1. lives \in Nat /\ lives >= 1 /\ t \in Nat
        BY <1>1, <2>3
      <3>2. (lives - 1) * t \in Nat /\ lives * t = (lives - 1) * t + t
        <4> HIDE DEF lives, t
        <4>1. lives - 1 \in Nat
          BY <3>1
        <4> QED BY <3>1, <4>1
      <3> DEFINE p == lives * t
                 x == (lives - 1) * t
      <3>3. p = x + t /\ x \in Nat
        BY <3>2
      <3> HIDE DEF p, x, l, t
      <3>4. l <= RouteCap + faults + p
        BY <1>1, <2>1, <3>3
      <3> QED BY <2>3, <3>4 DEF p, l, t
    <2> QED BY <2>2, <2>3
  <1> QED BY <1>5, <1>6

LEMMA RoutesFollow == TypeOK /\ Histograms /\ Local => RoutesBounded
  <1> SUFFICES ASSUME TypeOK, Histograms, Local PROVE RoutesBounded
    OBVIOUS
  <1>1. DayRange(2) = Recent
    <2>1. now \in Int /\ Days \subseteq Int
      BY HoursAndDays DEF TypeOK
    <2>2. DayOf(now) \in Int
      BY <2>1, HourOfDay
    <2>3. \A d \in Days : d > DayOf(now) - 2 <=> d >= DayOf(now) - 1
      <3> DEFINE c == DayOf(now)
      <3> HIDE DEF c
      <3>1. c \in Int => \A d \in Days : d > c - 2 <=> d >= c - 1
        BY <2>1
      <3> QED BY <2>2, <3>1 DEF c
    <2> QED BY <2>3 DEF DayRange, Recent
  <1>2. \A s : TopRoutes(s) = [d \in Recent |-> s.routes[d]]
    BY <1>1 DEF TopRoutes
  <1>3. Recent \subseteq Days
    BY DEF Recent
  <1>4. \A i \in Instances : \A d \in Recent : Cardinality(TopRoutes(store[i])[d]) <= RouteCap
    BY <1>2, <1>3 DEF Local
  <1>5. \A d \in Recent :
          LET lives == Cardinality(Writers(d)) + restarts IN
          /\ lives <= 1 => Cardinality(TopRoutes(store[Shared])[d]) <= RouteCap
          /\ Cardinality(TopRoutes(store[Shared])[d]) <= RouteCap + faults + lives * Cardinality(Tasks)
    <2> TAKE d \in Recent
    <2>1. TopRoutes(store[Shared])[d] = Listed(d)
      BY <1>2 DEF Listed
    <2>2. d \in Days /\ Known(d) /\ (Excess(d) \/ Few(d))
      BY <1>3 DEF Histograms
    <2> QED BY <2>1, <2>2, BoundFollows
  <1> QED BY <1>2, <1>4, <1>5 DEF RoutesBounded

\* The histogram of the days that are shown stays near its cap, and one instance
\* alone stops at it (record and _note_route_size of RedisCounterStore, and
\* InMemoryCounterStore.record, stores.py).
THEOREM RoutesStayBounded == Spec => []RoutesBounded
  <1>1. Init => Histograms /\ Local
    BY HistogramsInit, LocalInit
  <1>2. TypeOK /\ TypeOK' /\ Histograms /\ Local /\ [Next]_vars => Histograms' /\ Local'
    BY HistogramsNext, LocalNext
  <1>3. TypeOK /\ Histograms /\ Local => RoutesBounded
    BY RoutesFollow
  <1>4. Spec => []TypeOK
    BY TypeCorrect
  <1> QED BY <1>1, <1>2, <1>3, <1>4, PTL DEF Spec

=============================================================================
