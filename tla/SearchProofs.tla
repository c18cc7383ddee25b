----------------------------- MODULE SearchProofs -----------------------------
(* Theorems about Search, for any requests, caps, answers of the backend,     *)
(* concurrency and number of attempts.                                        *)
EXTENDS Search, SequenceTheorems, FiniteSetTheorems, TLAPS

-----------------------------------------------------------------------------
(* Sequences and numbers.                                                     *)

\* A function on 1 .. n is a sequence of that length.
LEMMA FunctionIsSeq ==
  ASSUME NEW n \in Nat, NEW s, s = [i \in 1 .. n |-> s[i]]
  PROVE  Len(s) = n /\ DOMAIN s = 1 .. n
  <1> DEFINE S == {s[i] : i \in 1 .. n}
  <1>1. s \in [1 .. n -> S]
    OBVIOUS
  <1>2. s \in Seq(S)
    BY <1>1, SeqDef
  <1>3. Len(s) \in Nat /\ DOMAIN s = 1 .. Len(s)
    BY <1>2, LenProperties
  <1>4. 1 .. n = 1 .. Len(s)
    BY <1>1, <1>3
  <1>5. Len(s) = n
    BY <1>3, <1>4
  <1> QED BY <1>3, <1>5

LEMMA UpTo ==
  ASSUME NEW n \in Nat
  PROVE  IsFiniteSet(1 .. n) /\ Cardinality(1 .. n) = n
  <1>1. 1 \in Int /\ n \in Int
    OBVIOUS
  <1>2. IsFiniteSet(1 .. n)
        /\ Cardinality(1 .. n) = IF 1 > n THEN 0 ELSE n - 1 + 1
    BY <1>1, FS_Interval
  <1> QED BY <1>2

\* The members of T that R puts before t.
Below(T, R, t) == {u \in T : <<u, t>> \in R}

StrictOrder(T, R) ==
  /\ \A t \in T : <<t, t>> \notin R
  /\ \A t, u, v \in T : <<t, u>> \in R /\ <<u, v>> \in R => <<t, v>> \in R
  /\ \A t, u \in T : t # u => <<t, u>> \in R \/ <<u, t>> \in R

\* A finite set has a first member.
LEMMA FirstOfFinite ==
  ASSUME NEW T, IsFiniteSet(T), T # {}, NEW R, StrictOrder(T, R)
  PROVE  \E t \in T : \A u \in T : <<u, t>> \notin R
  <1> SUFFICES ASSUME \A t \in T : \E u \in T : <<u, t>> \in R
               PROVE  FALSE
    OBVIOUS
  <1> DEFINE n == Cardinality(T)
             rank == [t \in T |-> Cardinality(Below(T, R, t))]
  <1>1. n \in Nat /\ n # 0
    BY FS_CardinalityType, FS_EmptySet
  <1>2. ASSUME NEW t \in T
        PROVE  IsFiniteSet(Below(T, R, t)) /\ rank[t] \in 1 .. n - 1
    <2>1. Below(T, R, t) \subseteq T /\ Below(T, R, t) # T /\ Below(T, R, t) # {}
      BY DEF Below, StrictOrder
    <2>2. /\ IsFiniteSet(Below(T, R, t))
          /\ Cardinality(Below(T, R, t)) <= n
          /\ Cardinality(Below(T, R, t)) # n
      BY <2>1, FS_Subset
    <2>3. Cardinality(Below(T, R, t)) \in Nat /\ Cardinality(Below(T, R, t)) # 0
      BY <2>1, <2>2, FS_CardinalityType, FS_EmptySet
    <2> QED BY <1>1, <2>2, <2>3
  <1>3. rank \in [T -> 1 .. n - 1]
    BY <1>2
  <1>4. IsFiniteSet(1 .. n - 1) /\ Cardinality(1 .. n - 1) < n
    <2>1. n - 1 \in Nat
      BY <1>1
    <2> QED BY <1>1, <2>1, UpTo
  <1>5. PICK x, y \in T : x # y /\ rank[x] = rank[y]
    <2> HIDE DEF rank
    <2>1. Cardinality(1 .. n - 1) < Cardinality(T)
      BY <1>4
    <2> QED BY <1>3, <1>4, <2>1, FS_PigeonHole
  <1>6. ASSUME NEW t \in T, NEW u \in T, <<t, u>> \in R, rank[t] = rank[u]
        PROVE  FALSE
    <2>1. Below(T, R, t) \subseteq Below(T, R, u)
      BY <1>6 DEF Below, StrictOrder
    <2>2. Below(T, R, t) = Below(T, R, u)
      BY <1>2, <1>6, <2>1, FS_Subset
    <2> QED BY <1>6, <2>2 DEF Below, StrictOrder
  <1> QED BY <1>5, <1>6 DEF StrictOrder

\* Rounding a quotient does not lead past the whole number above it.
LEMMA RoundBound ==
  ASSUME NEW b \in Nat \ {0}, NEW a \in Nat, NEW m \in Nat, a <= b * m
  PROVE  Round(a, b) \in 0 .. m
  <1> DEFINE d == a \div b   r == a % b
  <1>1. d \in Nat /\ r \in Nat /\ r < b /\ a = b * d + r
    OBVIOUS
  <1> HIDE DEF d, r
  <1>2. d <= m
    <2>1. SUFFICES ASSUME d >= m + 1 PROVE FALSE
      BY <1>1
    <2>2. b * d >= b * (m + 1)
      BY <1>1, <2>1
    <2>3. b * (m + 1) = b * m + b
      OBVIOUS
    <2> QED BY <1>1, <2>2, <2>3
  <1>3. d = m => r = 0
    BY <1>1
  <1>4. Round(a, b) = IF 2 * r < b \/ (2 * r = b /\ d % 2 = 0) THEN d ELSE d + 1
    BY DEF Round, d, r
  <1>5. r = 0 => Round(a, b) = d
    BY <1>1, <1>4
  <1> QED BY <1>1, <1>2, <1>3, <1>4, <1>5

\* A sample has as many members as it may, and they are members of the list.
LEMMA SampleShape ==
  ASSUME NEW n \in Nat, NEW k \in Nat
  PROVE  LET m == IF k >= n THEN n ELSE k
             s == Sample(n, k)
         IN /\ s = [i \in 1 .. m |-> s[i]]
            /\ \A i \in 1 .. m : s[i] \in 1 .. n
  <1>1. CASE k >= n
    BY <1>1 DEF Sample
  <1>2. CASE k < n /\ k = 1
    BY <1>2 DEF Sample
  <1>3. CASE k < n /\ k # 1
    <2>1. Sample(n, k) = [i \in 1 .. k |-> 1 + Round((i - 1) * (n - 1), k - 1)]
      BY <1>3 DEF Sample
    <2>2. ASSUME NEW i \in 1 .. k
          PROVE  Sample(n, k)[i] \in 1 .. n
      <3>1. k - 1 \in Nat \ {0} /\ n - 1 \in Nat /\ i - 1 \in Nat /\ i - 1 <= k - 1
        BY <1>3
      <3>2. (i - 1) * (n - 1) \in Nat /\ (i - 1) * (n - 1) <= (k - 1) * (n - 1)
        BY <3>1
      <3>3. Round((i - 1) * (n - 1), k - 1) \in 0 .. n - 1
        BY <3>1, <3>2, RoundBound
      <3> QED BY <2>1, <3>3
    <2> QED BY <1>3, <2>1, <2>2
  <1> QED BY <1>1, <1>2, <1>3

-----------------------------------------------------------------------------
(* The plan.                                                                  *)

\* A function on 1 .. n for some n: a sequence.
IsList(s) == Len(s) \in Nat /\ s = [i \in 1 .. Len(s) |-> s[i]]

LEMMA SpanIsList ==
  ASSUME NEW a \in Nat, NEW b \in Nat, a <= b
  PROVE  IsList(Span(a, b)) /\ Len(Span(a, b)) > 0
  <1>1. Span(a, b) = [i \in 1 .. b - a + 1 |-> Span(a, b)[i]] /\ b - a + 1 \in Nat \ {0}
    BY DEF Span
  <1> QED BY <1>1, FunctionIsSeq DEF IsList

\* The days of a valid request, and the day the range starts with.
LEMMA DatesIsList ==
  ASSUME NEW q \in Requests, DatesValid(q)
  PROVE  /\ IsList(Dates(q)) /\ Len(Dates(q)) > 0
         /\ ~Given(q.day) => q.from \in Nat /\ q.to \in Nat /\ Dates(q)[1] = q.from
  <1>0. q \in Request
    BY SearchAssumption
  <1>1. CASE Given(q.day)
    <2>1. Dates(q) = [i \in 1 .. 1 |-> Dates(q)[i]]
      BY <1>1 DEF Dates
    <2> QED BY <1>1, <2>1, FunctionIsSeq DEF IsList
  <1>2. CASE ~Given(q.day)
    <2>1. q.from \in Nat /\ q.to \in Nat /\ q.from <= q.to
      BY <1>0, <1>2 DEF DatesValid, Given, Request
    <2>2. Dates(q) = Span(q.from, q.to)
      BY <1>2 DEF Dates
    <2>3. Span(q.from, q.to)[1] = q.from
      BY <2>1 DEF Span
    <2> QED BY <2>1, <2>2, <2>3, SpanIsList
  <1> QED BY <1>1, <1>2

\* Valid lengths of stay.
LEMMA StaysIsList ==
  ASSUME NEW q \in Requests, NightsValid(q)
  PROVE  IsList(Ascending(Nights(q))) /\ Len(Ascending(Nights(q))) > 0
  <1> DEFINE S == Nights(q)
  <1>1. S \subseteq Nat /\ S # {} /\ MaxRange \in Nat /\ \A n \in S : n <= MaxRange
    BY SearchAssumption DEF Nights, NightsValid, Request
  <1>2. IsFiniteSet(S) /\ Cardinality(S) \in Nat /\ Cardinality(S) # 0
    BY <1>1, FS_BoundedSetOfNaturals, FS_CardinalityType, FS_EmptySet
  <1>3. Ascending(S) = [i \in 1 .. Cardinality(S) |-> Ascending(S)[i]]
    <2> HIDE DEF S
    <2> QED BY DEF Ascending
  <1> HIDE DEF S
  <1>4. IsList(Ascending(S)) /\ Len(Ascending(S)) = Cardinality(S)
    BY <1>2, <1>3, FunctionIsSeq DEF IsList
  <1> QED BY <1>2, <1>4 DEF S

\* The combinations of a request that makes a plan are a list, and every
\* destination is in it.
LEMMA CombosAreList ==
  ASSUME NEW q \in Requests, q.tool # "hotel", Plannable(q)
  PROVE  /\ IsList(Combos(q))
         /\ \A k \in DOMAIN q.dests :
              \E i \in DOMAIN Combos(q) : Combos(q)[i].dest = q.dests[k]
  <1> DEFINE days  == IF Given(q.back) /\ ~Given(q.day) /\ q.back < q.to
                      THEN Span(q.from, q.back) ELSE Dates(q)
             stays == IF q.nights = {} THEN <<0>> ELSE Ascending(Nights(q))
             width == Len(stays) * Len(q.dests)
             combo(i) == LET day == days[((i - 1) \div width) + 1] IN
                [day  |-> day,
                 back |-> IF Given(q.back) THEN q.back
                          ELSE day + stays[(((i - 1) % width) \div Len(q.dests)) + 1],
                 dest |-> q.dests[((i - 1) % Len(q.dests)) + 1]]
  <1>1. q \in Request /\ q.tool \in {"oneway", "roundtrip"}
    BY SearchAssumption DEF Request
  <1>2. /\ DatesValid(q)
        /\ q.tool = "oneway" => ~Given(q.back) /\ q.nights = {}
    BY SearchAssumption DEF Plannable
  <1>3. IsList(days) /\ Len(days) > 0
    <2>1. CASE Given(q.back) /\ ~Given(q.day) /\ q.back < q.to
      <3>1. q.tool = "roundtrip"
        BY <1>1, <1>2, <2>1
      <3>2. q.back \in Nat
        BY <1>1, <2>1 DEF Request, Given
      <3>3. q.from \in Nat /\ Dates(q)[1] = q.from
        BY <1>2, <2>1, DatesIsList
      <3>4. q.back >= Dates(q)[1]
        BY <2>1, <3>1 DEF Plannable
      <3> QED BY <2>1, <3>2, <3>3, <3>4, SpanIsList
    <2>2. CASE ~(Given(q.back) /\ ~Given(q.day) /\ q.back < q.to)
      BY <1>2, <2>2, DatesIsList
    <2> QED BY <2>1, <2>2
  <1>4. IsList(stays) /\ Len(stays) > 0
    <2>1. CASE q.nights = {}
      <3>1. <<0>> = [i \in 1 .. 1 |-> <<0>>[i]]
        OBVIOUS
      <3> QED BY <2>1, <3>1, FunctionIsSeq DEF IsList
    <2>2. CASE q.nights # {}
      <3>1. NightsValid(q)
        <4>1. q.tool = "roundtrip"
          BY <1>1, <1>2, <2>2
        <4> QED BY <2>2, <4>1 DEF Plannable
      <3> QED BY <2>2, <3>1, StaysIsList
    <2> QED BY <2>1, <2>2
  <1>5. q.dests \in Seq(STRING) /\ q.dests # << >>
    BY <1>1 DEF Request, Plannable
  <1>6. Len(q.dests) \in Nat \ {0} /\ DOMAIN q.dests = 1 .. Len(q.dests)
    BY <1>5, EmptySeq, LenProperties
  <1>7. Combos(q) = [i \in 1 .. Len(days) * width |-> combo(i)]
    BY DEF Combos
  <1> HIDE DEF days, stays, combo
  <1>8. width \in Nat \ {0} /\ width >= Len(q.dests)
    <2>1. Len(stays) \in Nat \ {0}
      BY <1>4 DEF IsList
    <2>2. \A a, b \in Nat \ {0} : a * b \in Nat \ {0} /\ a * b >= b
      OBVIOUS
    <2> QED BY <1>6, <2>1, <2>2
  <1>9. Len(days) * width \in Nat /\ Len(days) * width >= width
    <2>1. Len(days) \in Nat \ {0}
      BY <1>3 DEF IsList
    <2>2. \A a, b \in Nat \ {0} : a * b \in Nat /\ a * b >= b
      OBVIOUS
    <2> QED BY <1>8, <2>1, <2>2
  <1>10. IsList(Combos(q)) /\ DOMAIN Combos(q) = 1 .. Len(days) * width
    <2>1. Combos(q) = [i \in 1 .. Len(days) * width |-> Combos(q)[i]]
      BY <1>7
    <2> QED BY <1>9, <2>1, FunctionIsSeq DEF IsList
  <1>11. ASSUME NEW k \in DOMAIN q.dests
         PROVE  k \in DOMAIN Combos(q) /\ Combos(q)[k].dest = q.dests[k]
    <2>1. k \in 1 .. Len(q.dests)
      BY <1>6
    <2>2. k \in 1 .. Len(days) * width
      BY <1>6, <1>8, <1>9, <2>1
    <2>3. Combos(q)[k] = combo(k)
      BY <1>7, <2>2
    <2>4. combo(k).dest = q.dests[((k - 1) % Len(q.dests)) + 1]
      BY DEF combo
    <2>5. (k - 1) % Len(q.dests) = k - 1
      BY <1>6, <2>1
    <2> QED BY <1>10, <2>1, <2>2, <2>3, <2>4, <2>5
  <1> QED BY <1>10, <1>11

\* What is searched is a list of combinations that were asked for, and no
\* longer than the cap.
LEMMA CappedIsList ==
  ASSUME NEW combos, IsList(combos), NEW cap \in Nat
  PROVE  /\ IsList(Capped(combos, cap)) /\ Len(Capped(combos, cap)) <= cap
         /\ \A i \in DOMAIN Capped(combos, cap) :
              \E j \in DOMAIN combos : Capped(combos, cap)[i] = combos[j]
  <1> DEFINE n == Len(combos)
             m == IF cap >= n THEN n ELSE cap
             s == Sample(n, cap)
             c == Capped(combos, cap)
  <1>1. n \in Nat /\ DOMAIN combos = 1 .. n
    BY DEF IsList
  <1>2. s = [i \in 1 .. m |-> s[i]] /\ \A i \in 1 .. m : s[i] \in 1 .. n
    BY <1>1, SampleShape
  <1>3. m \in Nat /\ m <= cap
    BY <1>1
  <1>4. c = [i \in DOMAIN s |-> combos[s[i]]]
    BY DEF Capped
  <1> HIDE DEF s, m, n, c
  <1>5. DOMAIN s = 1 .. m
    BY <1>2
  <1>6. c = [i \in 1 .. m |-> c[i]]
    BY <1>4, <1>5
  <1>7. IsList(c) /\ Len(c) = m /\ DOMAIN c = 1 .. m
    BY <1>3, <1>6, FunctionIsSeq DEF IsList
  <1>8. \A i \in DOMAIN c : s[i] \in DOMAIN combos /\ c[i] = combos[s[i]]
    BY <1>1, <1>2, <1>4, <1>7
  <1> QED BY <1>3, <1>7, <1>8 DEF c

-----------------------------------------------------------------------------
(* The inductive invariant.                                                   *)

SearchTask ==
  [at : {"waiting", "posting", "backoff"} \cup Done, tries : 0 .. MaxAttempts,
   said : Statuses, rows : Seq(Row)]

\* A search that is to be retried has an attempt left.
TaskOK(x) == x \in SearchTask /\ (x.at = "backoff" => x.tries < MaxAttempts)

TasksOK ==
  /\ IsList(plan)
  /\ tasks = [i \in DOMAIN plan |-> tasks[i]]
  /\ \A i \in DOMAIN tasks : TaskOK(tasks[i])

\* What is searched was asked for, and the limit leaves a row for each if it
\* can be raised so far.
PlannedOK ==
  stage \in {"searching", "answered"} =>
    /\ query \in Requests
    /\ query.tool # "hotel" =>
         /\ Plannable(query)
         /\ asked = Combos(query)
         /\ \A i \in DOMAIN plan : \E j \in DOMAIN asked : plan[i] = asked[j]
         /\ Len(plan) > 0 /\ RoomForAll => limit >= Len(plan)

\* The answer speaks of the searches as they are.
AnsweredOK == Flights => reply = FlightReply

SearchInv == TypeOK /\ TasksOK /\ PlannedOK /\ AnsweredOK

\* There is nothing before the first call, nor between two.
LEMMA Nothing ==
  ASSUME plan = << >>, tasks = << >>
  PROVE  TasksOK /\ DOMAIN tasks = DOMAIN plan /\ Running = {} /\ Cardinality(Running) = 0
  <1>1. << >> = [i \in 1 .. 0 |-> << >>[i]]
    OBVIOUS
  <1>2. IsList(<< >>)
    BY <1>1, FunctionIsSeq DEF IsList
  <1> QED BY <1>2, FS_EmptySet DEF TasksOK, Running

LEMMA InitSearch == Init => SearchInv
  <1> SUFFICES ASSUME Init PROVE SearchInv
    OBVIOUS
  <1>1. TasksOK /\ DOMAIN tasks = DOMAIN plan /\ Running = {} /\ Cardinality(Running) = 0
    BY Nothing DEF Init
  <1>2. TypeOK
    BY <1>1, SearchAssumption DEF Init, TypeOK
  <1>3. PlannedOK /\ AnsweredOK
    BY DEF Init, PlannedOK, AnsweredOK, Flights
  <1> QED BY <1>1, <1>2, <1>3 DEF SearchInv

\* Leaving a call.
LEMMA ClearKeeps ==
  ASSUME SearchInv, Clear
  PROVE  SearchInv'
  <1>1. << >> = [i \in 1 .. 0 |-> << >>[i]]
    OBVIOUS
  <1>2. IsList(<< >>)
    BY <1>1, FunctionIsSeq DEF IsList
  <1>3. TasksOK' /\ (DOMAIN tasks = DOMAIN plan)' /\ Running' = {}
    BY <1>2 DEF TasksOK, Running, Clear, IsList
  <1>4. TypeOK'
    BY <1>3, SearchAssumption, FS_EmptySet DEF Clear, TypeOK
  <1>5. PlannedOK' /\ AnsweredOK'
    BY DEF Clear, PlannedOK, AnsweredOK, Flights
  <1> QED BY <1>3, <1>4, <1>5 DEF SearchInv

\* The limit a call with n searches gets.
LEMMA LimitShape ==
  ASSUME NEW given \in Int, NEW n \in Nat
  PROVE  /\ EffectiveLimit(given, n) \in Int
         /\ n > 0 /\ n <= MaxAutoLimit => EffectiveLimit(given, n) >= n
  BY SearchAssumption DEF EffectiveLimit

\* Starting a call with a plan.
LEMMA LaunchKeeps ==
  ASSUME SearchInv, NEW q \in Requests, NEW combos, NEW searched,
         Launch(q, combos, searched), IsList(searched),
         q.tool # "hotel" =>
           /\ Plannable(q)
           /\ combos = Combos(q)
           /\ \A i \in DOMAIN searched : \E j \in DOMAIN combos : searched[i] = combos[j]
  PROVE  SearchInv'
  <1> USE DEF Launch
  <1>1. q.limit \in Int /\ Len(searched) \in Nat
    BY SearchAssumption DEF Request, IsList
  <1>2. TaskOK(Task)
    <2>1. << >> \in Seq(Row)
      BY EmptySeq
    <2> QED BY <2>1, SearchAssumption DEF TaskOK, Task, SearchTask, Done, Statuses
  <1>3. plan' = searched /\ tasks' = [i \in DOMAIN plan' |-> tasks'[i]]
        /\ (\A i \in DOMAIN tasks' : tasks'[i] = Task)
        /\ DOMAIN tasks' = DOMAIN plan'
    OBVIOUS
  <1>4. TasksOK'
    BY <1>2, <1>3 DEF TasksOK, IsList
  <1>5. TypeOK'
    <2>1. Running' = {}
      BY <1>3 DEF Running, Task
    <2>2. limit' \in Int
      BY <1>1, LimitShape
    <2> QED BY <1>2, <1>3, <2>1, <2>2, FS_EmptySet, SearchAssumption
            DEF TypeOK, SearchInv, TaskOK, SearchTask
  <1>6. PlannedOK'
    <2>1. Len(searched) > 0 /\ Len(searched) <= MaxAutoLimit => limit' >= Len(searched)
      BY <1>1, LimitShape
    <2> QED BY <2>1 DEF PlannedOK, RoomForAll
  <1>7. AnsweredOK'
    BY DEF AnsweredOK, Flights
  <1> QED BY <1>4, <1>5, <1>6, <1>7 DEF SearchInv

LEMMA StartFlightsKeeps ==
  ASSUME SearchInv, NEW q \in Requests, NEW cap \in Caps, StartFlights(q, cap)
  PROVE  SearchInv'
  <1>1. q.tool # "hotel" /\ Plannable(q) /\ cap \in Nat
    BY SearchAssumption DEF StartFlights
  <1>2. IsList(Combos(q))
    BY <1>1, CombosAreList
  <1> DEFINE searched == Capped(Combos(q), cap)
  <1>3. /\ IsList(searched) /\ Len(searched) <= cap
        /\ \A i \in DOMAIN searched : \E j \in DOMAIN Combos(q) : searched[i] = Combos(q)[j]
    BY <1>1, <1>2, CappedIsList
  <1>4. Launch(q, Combos(q), searched)
    BY DEF StartFlights
  <1> HIDE DEF searched
  <1> QED BY <1>1, <1>3, <1>4, LaunchKeeps

LEMMA StartHotelKeeps ==
  ASSUME SearchInv, NEW q \in Requests, StartHotel(q)
  PROVE  SearchInv'
  <1> DEFINE one == <<[day |-> q.day, back |-> q.back, dest |-> q.dests[1]]>>
  <1>1. one = [i \in 1 .. 1 |-> one[i]]
    OBVIOUS
  <1>2. IsList(one)
    BY <1>1, FunctionIsSeq DEF IsList
  <1>3. q.tool = "hotel" /\ Launch(q, one, one)
    BY DEF StartHotel
  <1> HIDE DEF one
  <1> QED BY <1>2, <1>3, LaunchKeeps

LEMMA RejectKeeps ==
  ASSUME SearchInv, NEW q \in Requests, Reject(q)
  PROVE  SearchInv'
  <1> USE DEF Reject
  <1>1. TasksOK' /\ Running' = Running
    BY DEF SearchInv, TasksOK, Running, IsList
  <1>2. TypeOK'
    BY <1>1 DEF SearchInv, TypeOK
  <1>3. PlannedOK' /\ AnsweredOK'
    BY DEF PlannedOK, AnsweredOK, Flights
  <1> QED BY <1>1, <1>2, <1>3 DEF SearchInv

\* One search goes on.
LEMMA TaskKeeps ==
  ASSUME SearchInv, stage = "searching", NEW i \in DOMAIN tasks, NEW x, TaskOK(x),
         tasks' = [tasks EXCEPT ![i] = x],
         \/ x.at \notin {"posting", "backoff"}
         \/ i \in Running
         \/ Cardinality(Running) < MaxConcurrency,
         UNCHANGED <<stage, query, asked, plan, limit, reply, charged>>
  PROVE  SearchInv'
  <1>1. /\ tasks' = [j \in DOMAIN plan |-> tasks'[j]]
        /\ DOMAIN tasks' = DOMAIN plan
        /\ \A j \in DOMAIN tasks' : TaskOK(tasks'[j])
    BY DEF SearchInv, TasksOK
  <1>2. TasksOK'
    BY <1>1 DEF SearchInv, TasksOK, IsList
  <1>3. IsFiniteSet(Running) /\ Cardinality(Running) <= MaxConcurrency
    <2>1. DOMAIN tasks = 1 .. Len(plan) /\ Len(plan) \in Nat
      BY DEF SearchInv, TasksOK, IsList
    <2>2. IsFiniteSet(1 .. Len(plan))
      BY <2>1, FS_Interval
    <2> QED BY <2>1, <2>2, FS_Subset DEF Running, SearchInv, TypeOK
  <1>4. Cardinality(Running') <= MaxConcurrency
    <2>0. DOMAIN tasks' = DOMAIN tasks
      OBVIOUS
    <2>1. CASE x.at \notin {"posting", "backoff"} \/ i \in Running
      <3>1. Running' \subseteq Running
        BY <2>0, <2>1 DEF Running
      <3>2. Cardinality(Running') <= Cardinality(Running) /\ IsFiniteSet(Running')
        BY <1>3, <3>1, FS_Subset
      <3>3. Cardinality(Running') \in Nat /\ Cardinality(Running) \in Nat
        BY <1>3, <3>2, FS_CardinalityType
      <3> QED BY <1>3, <3>2, <3>3, SearchAssumption
    <2>2. CASE i \notin Running /\ Cardinality(Running) < MaxConcurrency
      <3>1. Running' \subseteq Running \cup {i}
        BY <2>0 DEF Running
      <3>2. /\ IsFiniteSet(Running \cup {i})
            /\ Cardinality(Running \cup {i}) = Cardinality(Running) + 1
        BY <1>3, <2>2, FS_AddElement
      <3>3. Cardinality(Running') <= Cardinality(Running \cup {i}) /\ IsFiniteSet(Running')
        BY <3>1, <3>2, FS_Subset
      <3>4. Cardinality(Running') \in Nat /\ Cardinality(Running) \in Nat
        BY <1>3, <3>3, FS_CardinalityType
      <3> QED BY <2>2, <3>2, <3>3, <3>4, SearchAssumption
    <2> QED BY <2>1, <2>2
  <1>5. TypeOK'
    BY <1>1, <1>4 DEF SearchInv, TypeOK, TaskOK, SearchTask
  <1>6. PlannedOK' /\ AnsweredOK'
    BY DEF SearchInv, PlannedOK, RoomForAll, AnsweredOK, Flights
  <1> QED BY <1>2, <1>5, <1>6 DEF SearchInv

\* What one search does keeps the invariant: each action is a step of TaskKeeps.
LEMMA ProgressKeeps ==
  ASSUME SearchInv, NEW i \in DOMAIN tasks, Progress(i)
  PROVE  SearchInv'
  <1>1. tasks[i] \in SearchTask /\ (tasks[i].at = "backoff" => tasks[i].tries < MaxAttempts)
    BY DEF SearchInv, TasksOK, TaskOK
  <1>2. CASE Acquire(i)
    <2> DEFINE x == [tasks[i] EXCEPT !.at = "posting", !.tries = 1]
    <2>1. 1 \in 0 .. MaxAttempts
      BY SearchAssumption
    <2>2. TaskOK(x) /\ x.at = "posting"
      BY <1>1, <2>1 DEF TaskOK, SearchTask
    <2>3. tasks' = [tasks EXCEPT ![i] = x]
      BY <1>2 DEF Acquire
    <2> HIDE DEF x
    <2> QED BY <1>2, <2>2, <2>3, TaskKeeps DEF Acquire
  <1>3. CASE Answered(i)
    <2>1. PICK a \in Answers :
            tasks' = [tasks EXCEPT ![i] =
              LET said == IF query.tool = "hotel" THEN None ELSE a.said IN
              IF Given(a.rows)
              THEN [@ EXCEPT !.at = "answered", !.said = said, !.rows = a.rows]
              ELSE [@ EXCEPT !.at = "failed", !.said = said]]
      BY <1>3 DEF Answered
    <2> DEFINE said == IF query.tool = "hotel" THEN None ELSE a.said
               x == IF Given(a.rows)
                    THEN [tasks[i] EXCEPT !.at = "answered", !.said = said, !.rows = a.rows]
                    ELSE [tasks[i] EXCEPT !.at = "failed", !.said = said]
    <2>2. said \in Statuses /\ (Given(a.rows) => a.rows \in Seq(Row))
      BY SearchAssumption DEF Answer, Statuses, Given
    <2>3. TaskOK(x) /\ x.at \in Done
      BY <1>1, <2>2 DEF TaskOK, SearchTask, Done
    <2>4. tasks' = [tasks EXCEPT ![i] = x]
      BY <2>1
    <2> HIDE DEF x
    <2> QED BY <1>3, <2>3, <2>4, TaskKeeps DEF Answered, Posting, Done
  <1>4. CASE Stumbles(i)
    <2> DEFINE x == [tasks[i] EXCEPT !.at = IF tasks[i].tries = MaxAttempts
                                            THEN "failed" ELSE "backoff"]
    <2>1. TaskOK(x) /\ i \in Running
      BY <1>1, <1>4, SearchAssumption DEF TaskOK, SearchTask, Stumbles, Posting, Running, Done
    <2>2. tasks' = [tasks EXCEPT ![i] = x]
      BY <1>4 DEF Stumbles
    <2> HIDE DEF x
    <2> QED BY <1>4, <2>1, <2>2, TaskKeeps DEF Stumbles, Posting
  <1>5. CASE Refused(i)
    <2> DEFINE x == [tasks[i] EXCEPT !.at = "failed"]
    <2>1. TaskOK(x) /\ i \in Running
      BY <1>1, <1>5 DEF TaskOK, SearchTask, Refused, Posting, Running, Done
    <2>2. tasks' = [tasks EXCEPT ![i] = x]
      BY <1>5 DEF Refused
    <2> HIDE DEF x
    <2> QED BY <1>5, <2>1, <2>2, TaskKeeps DEF Refused, Posting
  <1>6. CASE Retry(i)
    <2> DEFINE x == [tasks[i] EXCEPT !.at = "posting", !.tries = @ + 1]
    <2>1. TaskOK(x) /\ i \in Running
      BY <1>1, <1>6, SearchAssumption DEF TaskOK, SearchTask, Retry, Running, Done
    <2>2. tasks' = [tasks EXCEPT ![i] = x]
      BY <1>6 DEF Retry
    <2> HIDE DEF x
    <2> QED BY <1>6, <2>1, <2>2, TaskKeeps DEF Retry
  <1> QED BY <1>2, <1>3, <1>4, <1>5, <1>6 DEF Progress

\* The answer is determined by the arguments, the plan and the searches.
LEMMA SameReply ==
  ASSUME UNCHANGED <<query, asked, plan, limit, tasks>>
  PROVE  FlightReply' = FlightReply
  <1>1. Failed' = Failed /\ Reported' = Reported /\ Incomplete' = Incomplete
    BY DEF Failed, Reported, Incomplete
  <1>2. Unique' = Unique
    BY DEF Unique, Fares, At
  <1>3. Selected' = Selected
    BY <1>2 DEF Selected, Top, Cheaper, Key, At
  <1>4. (Hidden(Selected))' = Hidden(Selected)
    BY <1>2, <1>3 DEF Hidden
  <1>5. (Status(Selected))' = Status(Selected)
    BY <1>1, <1>3 DEF Status
  <1>6. (FirstLine(Status(Selected)))' = FirstLine(Status(Selected))
    BY <1>1, <1>5 DEF FirstLine, NameOf, Combo
  <1>7. \A d : Keys(d)' = Keys(d)
    BY DEF Keys, Combo
  <1>8. \A keys : (Reason(keys, Selected))' = Reason(keys, Selected)
    BY <1>1, <1>3 DEF Reason, Combo
  <1>9. (ByDestination(Selected))' = ByDestination(Selected)
    <2>1. ASSUME NEW d
          PROVE  (Reason(Keys(d), Selected))' = Reason(Keys(d), Selected)
      BY <1>1, <1>3, <1>7 DEF Reason
    <2> QED BY <1>3, <1>7, <1>8, <2>1 DEF ByDestination, Combo
  <1> QED BY <1>3, <1>4, <1>5, <1>6, <1>9 DEF FlightReply

\* The answer is about the plan and the searches, which it leaves alone.
LEMMA FinishKeeps ==
  ASSUME SearchInv, FinishFlights \/ FinishHotel
  PROVE  SearchInv'
  <1>1. stage = "searching" /\ stage' \in {"answered", "error"}
        /\ UNCHANGED <<query, asked, plan, limit, tasks>>
    BY DEF FinishFlights, FinishHotel
  <1>2. charged' \in Nat \cup {None}
    BY DEF SearchInv, TypeOK, TasksOK, IsList, FinishFlights, FinishHotel
  <1>3. TasksOK' /\ Running' = Running
    BY <1>1 DEF SearchInv, TasksOK, Running, IsList
  <1>4. TypeOK'
    BY <1>1, <1>2, <1>3 DEF SearchInv, TypeOK
  <1>5. PlannedOK'
    BY <1>1 DEF SearchInv, PlannedOK, RoomForAll
  <1>6. AnsweredOK'
    <2> SUFFICES ASSUME Flights' PROVE reply' = FlightReply'
      BY DEF AnsweredOK
    <2>1. FinishFlights /\ stage' = "answered"
      BY <1>1 DEF Flights, FinishHotel
    <2>2. reply' = FlightReply
      BY <2>1 DEF FinishFlights
    <2>3. FlightReply' = FlightReply
      BY <1>1, SameReply
    <2> QED BY <2>2, <2>3
  <1> QED BY <1>3, <1>4, <1>5, <1>6 DEF SearchInv

LEMMA StepSearch == SearchInv /\ [Next]_vars => SearchInv'
  <1> SUFFICES ASSUME SearchInv, [Next]_vars PROVE SearchInv'
    OBVIOUS
  <1>1. CASE \E q \in Requests : \/ Reject(q) \/ StartHotel(q)
                                \/ \E cap \in Caps : StartFlights(q, cap)
    BY <1>1, RejectKeeps, StartHotelKeeps, StartFlightsKeeps
  <1>2. CASE \E i \in DOMAIN tasks : Progress(i)
    BY <1>2, ProgressKeeps
  <1>3. CASE FinishFlights \/ FinishHotel
    BY <1>3, FinishKeeps
  <1>4. CASE Return \/ Cancel
    BY <1>4, ClearKeeps DEF Return, Cancel
  <1>5. CASE UNCHANGED vars
    <2>1. Running' = Running
      BY <1>5 DEF vars, Running
    <2>2. TypeOK'
      BY <1>5, <2>1 DEF vars, SearchInv, TypeOK
    <2>3. TasksOK' /\ PlannedOK'
      BY <1>5 DEF vars, SearchInv, TasksOK, PlannedOK, RoomForAll, IsList
    <2>4. FlightReply' = FlightReply
      BY <1>5, SameReply DEF vars
    <2>5. AnsweredOK'
      BY <1>5, <2>4 DEF vars, SearchInv, AnsweredOK, Flights
    <2> QED BY <2>2, <2>3, <2>5 DEF SearchInv
  <1> QED BY <1>1, <1>2, <1>3, <1>4, <1>5 DEF Next

\* Types; and no more searches run at once than may.
THEOREM TypeCorrect == Spec => []TypeOK
  <1>1. SearchInv => TypeOK
    BY DEF SearchInv
  <1> QED BY <1>1, InitSearch, StepSearch, PTL DEF Spec

\* The inductive invariant: an answer speaks of the searches as they are,
\* every one of them was asked for, and the limit leaves each a row.
THEOREM SearchInvariant == Spec => []SearchInv
  BY InitSearch, StepSearch, PTL DEF Spec

-----------------------------------------------------------------------------
(* What is in front of the answer.                                            *)

\* A clean answer is one where every search came back and none was called
\* incomplete; any other says so, names exactly the combinations that are
\* missing and never claims more completed searches than there were.
THEOREM CoverageTold == Spec => []CoverageIsTold
  <1>1. SearchInv => CoverageIsTold
    <2> SUFFICES ASSUME SearchInv, Flights
                 PROVE  LET bad == Failed \cup Incomplete IN
                        /\ (reply.firstLine.kind = "clean") <=> (bad = {})
                        /\ reply.isError => reply.rows = {}
                        /\ reply.firstLine.kind = "partial" =>
                             /\ reply.firstLine.missing = {Combo(plan[i]) : i \in bad}
                             /\ reply.firstLine.completed <= Len(plan) - Cardinality(bad)
      BY DEF CoverageIsTold
    <2> DEFINE status == Status(Selected)
    <2>1. /\ reply.rows = Selected
          /\ reply.firstLine = FirstLine(status)
          /\ reply.isError = (status = "degraded")
      BY DEF SearchInv, AnsweredOK, FlightReply
    <2>2. status = "degraded" => Selected = {} /\ Incomplete # {}
      BY SearchAssumption DEF Status
    <2> HIDE DEF status
    <2>3. FirstLine(status).kind =
            IF status = "degraded" THEN "degraded"
            ELSE IF Incomplete \cup Failed = {} THEN "clean" ELSE "partial"
      BY DEF FirstLine
    <2>4. (reply.firstLine.kind = "clean") <=> (Failed \cup Incomplete = {})
      BY <2>1, <2>2, <2>3
    <2>5. reply.isError => reply.rows = {}
      BY <2>1, <2>2
    <2>6. ASSUME reply.firstLine.kind = "partial"
          PROVE  /\ reply.firstLine.missing = {Combo(plan[i]) : i \in Failed \cup Incomplete}
                 /\ reply.firstLine.completed
                      <= Len(plan) - Cardinality(Failed \cup Incomplete)
      <3>1. status # "degraded" /\ Incomplete \cup Failed # {}
        BY <2>1, <2>3, <2>6
      <3> DEFINE many == Cardinality(Incomplete) + Cardinality(Failed)
      <3>2. FirstLine(status) =
              [kind      |-> "partial",
               completed |-> IF many < Len(plan) THEN Len(plan) - many ELSE 0,
               missing   |-> {NameOf(i) : i \in Incomplete} \cup {Combo(plan[i]) : i \in Failed}]
        BY <3>1 DEF FirstLine
      <3>3. reply.firstLine.missing = {Combo(plan[i]) : i \in Failed \cup Incomplete}
        BY <2>1, <3>2 DEF NameOf
      <3>4. DOMAIN tasks = 1 .. Len(plan) /\ Len(plan) \in Nat
        BY DEF SearchInv, TasksOK, IsList
      <3>5. Failed \subseteq 1 .. Len(plan) /\ Incomplete \subseteq 1 .. Len(plan)
            /\ Failed \cup Incomplete \subseteq 1 .. Len(plan)
        BY <3>4 DEF Failed, Incomplete, Reported
      <3>6. IsFiniteSet(1 .. Len(plan)) /\ Cardinality(1 .. Len(plan)) = Len(plan)
        BY <3>4, UpTo
      <3>7. IsFiniteSet(Failed) /\ IsFiniteSet(Incomplete) /\ IsFiniteSet(Failed \cup Incomplete)
            /\ Cardinality(Failed \cup Incomplete) <= Len(plan)
        BY <3>5, <3>6, FS_Subset
      <3>8. /\ Cardinality(Failed) \in Nat /\ Cardinality(Incomplete) \in Nat
            /\ Cardinality(Failed \cup Incomplete) \in Nat
            /\ Cardinality(Failed \cap Incomplete) \in Nat
        BY <3>7, FS_CardinalityType, FS_Intersection
      <3>9. Cardinality(Failed \cup Incomplete)
              = Cardinality(Failed) + Cardinality(Incomplete) - Cardinality(Failed \cap Incomplete)
        BY <3>7, FS_Union
      <3>10. reply.firstLine.completed = IF many < Len(plan) THEN Len(plan) - many ELSE 0
        BY <2>1, <3>2
      <3>11. reply.firstLine.completed <= Len(plan) - Cardinality(Failed \cup Incomplete)
        BY <3>4, <3>7, <3>8, <3>9, <3>10
      <3> QED BY <3>3, <3>11
    <2> QED BY <2>4, <2>5, <2>6
  <1> QED BY <1>1, SearchInvariant, PTL

-----------------------------------------------------------------------------
(* What is selected.                                                          *)

\* A row of the answer, and what it is sorted by.
LEMMA RowsTyped ==
  ASSUME SearchInv, NEW t \in Unique, NEW by \in {"price", "duration"}
  PROVE  /\ t[1] \in DOMAIN tasks /\ t[2] \in DOMAIN tasks[t[1]].rows
         /\ t = <<t[1], t[2]>> /\ t[1] \in Nat /\ t[2] \in Nat
         /\ Key(t, by) \in Nat
  <1>1. PICK i \in DOMAIN tasks : t \in Fares(i)
    BY DEF Unique
  <1>2. tasks[i].rows \in Seq(Row) /\ i \in Nat
    BY DEF SearchInv, TasksOK, TaskOK, SearchTask, IsList
  <1>3. t[1] = i /\ t[2] \in DOMAIN tasks[i].rows /\ t = <<t[1], t[2]>>
    BY <1>1 DEF Fares
  <1>4. tasks[i].rows[t[2]] \in Row /\ t[2] \in Nat
    BY <1>2, <1>3, ElementOfSeq, LenProperties
  <1>5. At(t) \in Row
    BY <1>3, <1>4 DEF At
  <1>6. At(t)[by] \in Nat \cup {None}
    BY <1>5 DEF Row
  <1>7. Key(t, by) \in Nat
    BY <1>6, SearchAssumption DEF Key, Given
  <1> QED BY <1>2, <1>3, <1>4, <1>7

LEMMA UniqueIsFinite ==
  ASSUME SearchInv
  PROVE  IsFiniteSet(Unique)
  <1> DEFINE n == Len(plan)
             f == [i \in 1 .. n |-> Fares(i)]
             F == {f[i] : i \in 1 .. n}
  <1>1. n \in Nat /\ DOMAIN tasks = 1 .. n
    BY DEF SearchInv, TasksOK, IsList
  <1>2. IsFiniteSet(1 .. n)
    BY <1>1, FS_Interval
  <1>3. ASSUME NEW i \in 1 .. n
        PROVE  IsFiniteSet(Fares(i))
    <2>1. tasks[i].rows \in Seq(Row)
      BY <1>1, <1>3 DEF SearchInv, TasksOK, TaskOK, SearchTask
    <2>2. Len(tasks[i].rows) \in Nat /\ DOMAIN tasks[i].rows = 1 .. Len(tasks[i].rows)
      BY <2>1, LenProperties
    <2>3. IsFiniteSet(DOMAIN tasks[i].rows)
      BY <2>2, FS_Interval
    <2> QED BY <2>3, FS_Singleton, FS_Product DEF Fares
  <1>4. f \in Surjection(1 .. n, F)
    BY DEF Surjection
  <1>5. IsFiniteSet(F)
    <2> HIDE DEF F, f
    <2> QED BY <1>2, <1>4, FS_Surjection
  <1>6. \A A \in F : IsFiniteSet(A)
    BY <1>3
  <1>7. IsFiniteSet(UNION F)
    <2> HIDE DEF F
    <2> QED BY <1>5, <1>6, FS_UNION
  <1>8. Unique \subseteq UNION F
    BY <1>1 DEF Unique
  <1> QED BY <1>7, <1>8, FS_Subset

\* Cheaper, as a relation on S.
CheaperOn(S, by) == {p \in S \X S : Cheaper(p[1], p[2], by)}

LEMMA CheaperIsStrict ==
  ASSUME SearchInv, NEW S \in SUBSET Unique, NEW by \in {"price", "duration"}
  PROVE  StrictOrder(S, CheaperOn(S, by))
  <1>1. \A t \in S : t = <<t[1], t[2]>> /\ t[1] \in Nat /\ t[2] \in Nat /\ Key(t, by) \in Nat
    BY RowsTyped
  <1>2. \A t, u \in S : <<t, u>> \in CheaperOn(S, by) <=> Cheaper(t, u, by)
    BY DEF CheaperOn
  <1>3. \A t \in S : ~Cheaper(t, t, by)
    BY <1>1 DEF Cheaper, Before
  <1>4. \A t, u, v \in S : Cheaper(t, u, by) /\ Cheaper(u, v, by) => Cheaper(t, v, by)
    BY <1>1 DEF Cheaper, Before
  <1>5. \A t, u \in S : t # u => Cheaper(t, u, by) \/ Cheaper(u, t, by)
    <2> SUFFICES ASSUME NEW t \in S, NEW u \in S, t # u
                 PROVE  Cheaper(t, u, by) \/ Cheaper(u, t, by)
      OBVIOUS
    <2>1. t[1] # u[1] \/ t[2] # u[2]
      BY <1>1
    <2> QED BY <1>1, <2>1 DEF Cheaper, Before
  <1> QED BY <1>2, <1>3, <1>4, <1>5 DEF StrictOrder

\* A limit as large as the set takes all of it.
LEMMA TopOfFew ==
  ASSUME SearchInv, NEW S \in SUBSET Unique, NEW by \in {"price", "duration"},
         NEW n \in Int, Cardinality(S) <= n
  PROVE  Top(S, n, by) = S
  <1>1. IsFiniteSet(S)
    BY UniqueIsFinite, FS_Subset
  <1>2. ASSUME NEW t \in S
        PROVE  Cardinality({u \in S : Cheaper(u, t, by)}) < n
    <2> DEFINE C == {u \in S : Cheaper(u, t, by)}
    <2>0. StrictOrder(S, CheaperOn(S, by))
      BY CheaperIsStrict
    <2>1. ~Cheaper(t, t, by)
      BY <2>0 DEF StrictOrder, CheaperOn
    <2>2. C \subseteq S /\ C # S
      BY <2>1
    <2> HIDE DEF C
    <2>3. IsFiniteSet(C) /\ Cardinality(C) <= Cardinality(S) /\ Cardinality(C) # Cardinality(S)
      BY <1>1, <2>2, FS_Subset
    <2>4. Cardinality(C) \in Nat /\ Cardinality(S) \in Nat
      BY <1>1, <2>3, FS_CardinalityType
    <2>5. Cardinality(C) < n
      BY <2>3, <2>4
    <2> QED BY <2>5 DEF C
  <1> QED BY <1>2 DEF Top

\* The rows nobody of their search is cheaper than.
Bests == {t \in Unique : \A u \in Unique : u[1] = t[1] => ~Cheaper(u, t, query.sortBy)}

\* One for each search at most.
LEMMA FewBests ==
  ASSUME SearchInv, query.sortBy \in {"price", "duration"}
  PROVE  Cardinality(Bests) <= Len(plan)
  <1> DEFINE f == [t \in Bests |-> t[1]]
  <1>1. DOMAIN tasks = 1 .. Len(plan) /\ Len(plan) \in Nat
    BY DEF SearchInv, TasksOK, IsList
  <1>2. Bests \subseteq Unique
    BY DEF Bests
  <1>3. \A t, u \in Bests : t[1] = u[1] => t = u
    <2>1. StrictOrder(Bests, CheaperOn(Bests, query.sortBy))
      BY <1>2, CheaperIsStrict
    <2>2. \A t, u \in Bests : t # u => Cheaper(t, u, query.sortBy) \/ Cheaper(u, t, query.sortBy)
      BY <2>1 DEF StrictOrder, CheaperOn
    <2> QED BY <1>2, <2>2 DEF Bests
  <1>4. f \in [Bests -> 1 .. Len(plan)]
    BY <1>1, <1>2, RowsTyped
  <1>5. f \in Injection(Bests, 1 .. Len(plan))
    BY <1>3, <1>4 DEF Injection, IsInjective
  <1>6. IsFiniteSet(1 .. Len(plan)) /\ Cardinality(1 .. Len(plan)) = Len(plan)
    BY <1>1, UpTo
  <1> HIDE DEF f
  <1>7. Cardinality(Bests) <= Cardinality(1 .. Len(plan))
    BY <1>5, <1>6, FS_Injection
  <1> QED BY <1>6, <1>7

\* All of them are in the answer, if there is room.
LEMMA BestsAreSelected ==
  ASSUME SearchInv, Flights
  PROVE  /\ query.sortBy \in {"price", "duration"} /\ reply.rows = Selected
         /\ RoomForAll => Bests \subseteq Selected
  <1>1. stage = "answered" /\ query \in Requests /\ query.tool # "hotel"
    BY DEF Flights, SearchInv, PlannedOK
  <1>2. query.sortBy \in {"price", "duration"} /\ reply.rows = Selected
    BY <1>1, SearchAssumption DEF SearchInv, AnsweredOK, FlightReply, Request
  <1>3. CASE Len(plan) = 0
    <2>1. DOMAIN tasks = {}
      BY <1>3 DEF SearchInv, TasksOK, IsList
    <2> QED BY <1>2, <2>1 DEF Bests, Unique
  <1>4. CASE Len(plan) # 0 /\ RoomForAll
    <2>1. Len(plan) \in Nat /\ limit \in Int
      BY DEF SearchInv, TypeOK, TasksOK, IsList
    <2>2. limit >= Len(plan)
      BY <1>1, <1>4, <2>1 DEF SearchInv, PlannedOK
    <2>3. IsFiniteSet(Bests) /\ Bests \in SUBSET Unique
      BY UniqueIsFinite, FS_Subset DEF Bests
    <2>4. Cardinality(Bests) <= limit
      BY <1>2, <2>1, <2>2, <2>3, FewBests, FS_CardinalityType
    <2>5. Top(Bests, limit, query.sortBy) = Bests
      BY <1>2, <2>1, <2>3, <2>4, TopOfFew
    <2> QED BY <1>2, <2>5 DEF Selected, Bests
  <1> QED BY <1>2, <1>3, <1>4

\* Whatever limit the caller gave, every search that found a fare of its own
\* has its best one in the answer, as long as MAX_AUTO_LIMIT has room for all.
THEOREM SearchesAreRepresented == Spec => []EverySearchRepresented
  <1>1. SearchInv => EverySearchRepresented
    BY BestsAreSelected DEF EverySearchRepresented, Bests
  <1> QED BY <1>1, SearchInvariant, PTL

\* A search that has a row has a best one.
LEMMA HasBest ==
  ASSUME SearchInv, query.sortBy \in {"price", "duration"}, NEW t \in Unique
  PROVE  \E b \in Bests : b[1] = t[1]
  <1> DEFINE S == {u \in Unique : u[1] = t[1]}
  <1>1. S \in SUBSET Unique /\ S # {} /\ IsFiniteSet(S)
    BY UniqueIsFinite, FS_Subset
  <1>2. StrictOrder(S, CheaperOn(S, query.sortBy))
    <2> HIDE DEF S
    <2> QED BY <1>1, CheaperIsStrict
  <1>3. PICK b \in S : \A u \in S : <<u, b>> \notin CheaperOn(S, query.sortBy)
    <2> HIDE DEF S
    <2> QED BY <1>1, <1>2, FirstOfFinite
  <1>4. \A u \in S : ~Cheaper(u, b, query.sortBy)
    BY <1>3 DEF CheaperOn
  <1> QED BY <1>3, <1>4 DEF Bests

\* The reason given for a destination is what its searches brought.
THEOREM ReasonsTrue == Spec => []ReasonsAreTrue
  <1>1. SearchInv => ReasonsAreTrue
    <2> SUFFICES ASSUME SearchInv, Flights, NEW k \in DOMAIN query.dests
                 PROVE  LET d   == query.dests[k]
                            ran == {i \in DOMAIN plan : plan[i].dest = d}
                            why == reply.byDestination[d].reason
                        IN /\ RoomForAll /\ (\E t \in Unique : t[1] \in ran) => why = "ok"
                           /\ why = "ok" <=> \E t \in reply.rows : t[1] \in ran
                           /\ why = "not_in_limit" => \E i \in ran : tasks[i].rows # << >>
                           /\ why = "no_flights" => ran \cap Failed = {}
                           /\ why \in {"no_flights", "search_failed"} =>
                                \A i \in ran : tasks[i].rows = << >>
                           /\ (why = "not_searched") <=> (ran = {})
      BY DEF ReasonsAreTrue
    <2> DEFINE d   == query.dests[k]
               ran == {i \in DOMAIN plan : plan[i].dest = d}
               why == reply.byDestination[d].reason
    <2>1. /\ query \in Requests /\ query.tool # "hotel" /\ Plannable(query)
          /\ asked = Combos(query)
          /\ \A i \in DOMAIN plan : \E j \in DOMAIN asked : plan[i] = asked[j]
      BY DEF Flights, SearchInv, PlannedOK
    <2>2. PICK a \in DOMAIN asked : asked[a].dest = d
      BY <2>1, CombosAreList
    <2>3. why = Reason(Keys(d), Selected)
      <3>1. reply.byDestination = ByDestination(Selected)
        BY DEF SearchInv, AnsweredOK, FlightReply
      <3>2. d \in {asked[i].dest : i \in DOMAIN asked}
        BY <2>2
      <3> HIDE DEF d
      <3> QED BY <3>1, <3>2 DEF ByDestination
    <2> HIDE DEF d
    <2>4. ran = {i \in DOMAIN plan : Combo(plan[i]) \in Keys(d)}
      <3>1. ASSUME NEW i \in DOMAIN plan
            PROVE  plan[i].dest = d <=> Combo(plan[i]) \in Keys(d)
        <4>1. PICK j \in DOMAIN asked : plan[i] = asked[j]
          BY <2>1
        <4>2. CASE plan[i].dest = d
          BY <4>1, <4>2 DEF Keys
        <4>3. CASE Combo(plan[i]) \in Keys(d)
          BY <4>3 DEF Keys, Combo
        <4> QED BY <4>2, <4>3
      <3> QED BY <3>1
    <2> HIDE DEF ran
    <2>5. why = IF \E t \in Selected : t[1] \in ran THEN "ok"
                ELSE IF ran = {} THEN "not_searched"
                ELSE IF \E i \in ran : tasks[i].rows # << >> THEN "not_in_limit"
                ELSE IF ran \cap Failed # {} THEN "search_failed"
                ELSE "no_flights"
      BY <2>3, <2>4 DEF Reason
    <2> HIDE DEF why
    <2>6. RoomForAll /\ (\E t \in Unique : t[1] \in ran) => \E t \in Selected : t[1] \in ran
      BY BestsAreSelected, HasBest
    <2>7. RoomForAll /\ (\E t \in Unique : t[1] \in ran) => why = "ok"
      BY <2>5, <2>6
    <2>8. /\ why = "ok" <=> \E t \in reply.rows : t[1] \in ran
          /\ why = "not_in_limit" => \E i \in ran : tasks[i].rows # << >>
      BY <2>5, BestsAreSelected
    <2>9. why = "no_flights" => ran \cap Failed = {}
      BY <2>5
    <2>10. why \in {"no_flights", "search_failed"} => \A i \in ran : tasks[i].rows = << >>
      BY <2>5
    <2>11. (why = "not_searched") <=> (ran = {})
      BY <2>5
    <2> QED BY <2>7, <2>8, <2>9, <2>10, <2>11 DEF why, ran, d
  <1> QED BY <1>1, SearchInvariant, PTL

-----------------------------------------------------------------------------
(* The sample.                                                                *)

\* What a product says of its factors.
LEMMA LessTimes ==
  ASSUME NEW b \in Nat \ {0}, NEW x \in Int, NEW y \in Int, b * x < b * y
  PROVE  x < y
  <1> SUFFICES ASSUME x >= y PROVE FALSE
    OBVIOUS
  <1>1. x - y \in Nat /\ b * (x - y) >= 0
    OBVIOUS
  <1>2. b * (x - y) = b * x - b * y
    OBVIOUS
  <1> QED BY <1>1, <1>2

\* A rounded quotient is within one half of it.
LEMMA RoundNear ==
  ASSUME NEW b \in Nat \ {0}, NEW a \in Nat
  PROVE  /\ Round(a, b) \in Nat
         /\ 2 * (b * Round(a, b)) <= 2 * a + b
         /\ 2 * a <= 2 * (b * Round(a, b)) + b
  <1> DEFINE d == a \div b
             r == a % b
             x == Round(a, b)
  <1>1. d \in Nat /\ r \in Nat /\ r < b /\ a = b * d + r
    OBVIOUS
  <1>2. x = IF 2 * r < b \/ (2 * r = b /\ d % 2 = 0) THEN d ELSE d + 1
    BY DEF Round
  <1>3. b * (d + 1) = b * d + b /\ b * d \in Nat
    BY <1>1
  <1>4. CASE x = d /\ 2 * r <= b
    <2> DEFINE p == b * d
    <2>1. p \in Nat /\ a = p + r /\ b * x = p
      BY <1>1, <1>3, <1>4
    <2> HIDE DEF p, d, r
    <2>2. 2 * p <= 2 * a + b /\ 2 * a <= 2 * p + b
      BY <1>1, <1>4, <2>1
    <2> HIDE DEF x
    <2> QED BY <1>1, <1>4, <2>1, <2>2 DEF x
  <1>5. CASE x = d + 1 /\ 2 * r >= b
    <2> DEFINE p == b * d
    <2>1. p \in Nat /\ a = p + r /\ b * x = p + b
      BY <1>1, <1>3, <1>5
    <2> HIDE DEF p, d, r
    <2>2. 2 * (p + b) <= 2 * a + b /\ 2 * a <= 2 * (p + b) + b
      BY <1>1, <1>5, <2>1
    <2> HIDE DEF x
    <2> QED BY <1>1, <1>5, <2>1, <2>2 DEF x
  <1> HIDE DEF d, r, x
  <1>6. (x = d /\ 2 * r <= b) \/ (x = d + 1 /\ 2 * r >= b)
    BY <1>1, <1>2
  <1> QED BY <1>4, <1>5, <1>6

\* A whole quotient is not rounded.
LEMMA RoundWhole ==
  ASSUME NEW b \in Nat \ {0}, NEW v \in Nat
  PROVE  Round(b * v, b) = v
  <1> DEFINE u == b * v
             x == Round(u, b)
  <1>1. u \in Nat
    OBVIOUS
  <1>2. x \in Nat /\ 2 * (b * x) <= 2 * u + b /\ 2 * u <= 2 * (b * x) + b
    BY <1>1, RoundNear
  <1>3. b * (x - 1) = b * x - b /\ b * (v - 1) = b * v - b /\ b * x \in Nat
    BY <1>2
  <1> DEFINE y == b * x
  <1>4. y \in Nat /\ 2 * y <= 2 * u + b /\ 2 * u <= 2 * y + b
        /\ b * (x - 1) = y - b /\ b * (v - 1) = u - b /\ b * x = y /\ b * v = u
    BY <1>2, <1>3
  <1> HIDE DEF x, y, u
  <1>5. b * (x - 1) < b * v /\ b * (v - 1) < b * x
    BY <1>1, <1>4
  <1>6. x - 1 < v /\ v - 1 < x
    BY <1>2, <1>5, LessTimes
  <1> QED BY <1>2, <1>6 DEF x, u

\* The distance of two rounded quotients that are p and a part of one apart.
LEMMA RoundGap ==
  ASSUME NEW b \in Nat \ {0}, NEW p \in Nat, NEW r \in 1 .. b - 1, NEW u \in Nat, NEW w \in Nat,
         w = u + (b * p + r)
  PROVE  Round(w, b) - Round(u, b) \in {p, p + 1}
  <1> DEFINE x == Round(u, b)
             z == Round(w, b)
             bx == b * x
             bz == b * z
             bp == b * p
  <1>1. /\ x \in Nat /\ 2 * bx <= 2 * u + b /\ 2 * u <= 2 * bx + b
        /\ z \in Nat /\ 2 * bz <= 2 * w + b /\ 2 * w <= 2 * bz + b
    BY RoundNear
  <1>2. bx \in Nat /\ bz \in Nat /\ bp \in Nat
    BY <1>1
  <1>3. b * (z - x) = bz - bx /\ b * (p - 1) = bp - b /\ b * (p + 2) = bp + 2 * b
    BY <1>1
  <1>4. w = u + (bp + r)
    OBVIOUS
  <1> HIDE DEF x, z, bx, bz, bp
  <1>5. b * (p - 1) < b * (z - x) /\ b * (z - x) < b * (p + 2)
    BY <1>1, <1>2, <1>3, <1>4
  <1>6. p - 1 < z - x /\ z - x < p + 2
    BY <1>1, <1>5, LessTimes
  <1> QED BY <1>1, <1>6 DEF x, z

\* Every k-th part of a longer list: the gaps have one of two lengths next to
\* each other, and none is empty.
LEMMA SampleGaps ==
  ASSUME NEW n \in Nat, NEW k \in Nat, 1 < k, k < n
  PROVE  \E p \in Nat \ {0} : \A i \in 1 .. k - 1 :
           Sample(n, k)[i + 1] - Sample(n, k)[i] \in {p, p + 1}
  <1> DEFINE a == n - 1
             b == k - 1
             p == a \div b
             r == a % b
             s == Sample(n, k)
  <1>1. a \in Nat /\ b \in Nat \ {0} /\ b < a
    OBVIOUS
  <1>2. p \in Nat /\ r \in 0 .. b - 1 /\ a = b * p + r
    BY <1>1
  <1>3. p # 0
    BY <1>1, <1>2
  <1>4. ASSUME NEW i \in 1 .. k
        PROVE  s[i] = 1 + Round((i - 1) * a, b) /\ Round((i - 1) * a, b) \in Nat
    <2>1. s[i] = 1 + Round((i - 1) * a, b)
      BY DEF Sample
    <2>2. (i - 1) * a \in Nat
      BY <1>1
    <2> QED BY <1>1, <2>1, <2>2, RoundNear
  <1>5. ASSUME NEW i \in 1 .. k - 1
        PROVE  s[i + 1] - s[i] \in {p, p + 1}
    <2> DEFINE u == (i - 1) * a
               w == ((i + 1) - 1) * a
    <2>1. u \in Nat /\ w \in Nat /\ w = u + a
      <3>1. i - 1 \in Nat /\ (i + 1) - 1 = (i - 1) + 1
        OBVIOUS
      <3>2. \A x \in Nat : x * a \in Nat /\ (x + 1) * a = x * a + a
        BY <1>1
      <3> QED BY <3>1, <3>2
    <2>2. /\ s[i] = 1 + Round(u, b) /\ Round(u, b) \in Nat
          /\ s[i + 1] = 1 + Round(w, b) /\ Round(w, b) \in Nat
      BY <1>4
    <2>3. CASE r # 0
      <3>1. r \in 1 .. b - 1 /\ w = u + (b * p + r)
        BY <1>2, <2>1, <2>3
      <3> HIDE DEF a, b, p, r, s, u, w
      <3>2. Round(w, b) - Round(u, b) \in {p, p + 1}
        BY <1>1, <1>2, <2>1, <3>1, RoundGap
      <3> QED BY <1>2, <2>2, <3>2
    <2>4. CASE r = 0
      <3>1. a = b * p
        BY <1>2, <2>4
      <3> HIDE DEF a, b, p, r, s
      <3>2. u = b * ((i - 1) * p) /\ (i - 1) * p \in Nat
        BY <1>1, <1>2, <3>1
      <3>3. w = b * (i * p) /\ i * p \in Nat /\ i * p = (i - 1) * p + p
        BY <1>1, <1>2, <3>1
      <3>4. Round(u, b) = (i - 1) * p
        BY <1>1, <3>2, RoundWhole
      <3>5. Round(w, b) = i * p
        BY <1>1, <3>3, RoundWhole
      <3> DEFINE c == (i - 1) * p
                 e == i * p
      <3>6. c \in Nat /\ e = c + p /\ Round(u, b) = c /\ Round(w, b) = e
        BY <3>2, <3>3, <3>4, <3>5
      <3> HIDE DEF c, e, u, w
      <3> QED BY <1>2, <2>2, <3>6
    <2> QED BY <2>3, <2>4
  <1> QED BY <1>2, <1>3, <1>5

\* The ends of the range are in the sample, and it is even.
LEMMA SampleSpread ==
  ASSUME NEW n \in Nat, NEW k \in Nat
  PROVE  SpreadEvenly(Sample(n, k), n)
  <1> DEFINE m == IF k >= n THEN n ELSE k
             s == Sample(n, k)
  <1>1. s = [i \in 1 .. m |-> s[i]] /\ (\A i \in 1 .. m : s[i] \in 1 .. n) /\ m \in Nat
    BY SampleShape
  <1>2. Len(s) = m
    <2> HIDE DEF m, s
    <2> QED BY <1>1, FunctionIsSeq
  <1>3. ASSUME NEW p \in Nat \ {0}, \A i \in 1 .. m - 1 : s[i + 1] - s[i] \in {p, p + 1},
               m > 0 => s[1] = 1, m > 1 => s[m] = n
        PROVE  SpreadEvenly(s, n)
    <2> HIDE DEF s, m
    <2> DEFINE gaps == {s[i + 1] - s[i] : i \in 1 .. m - 1}
    <2>1. gaps \subseteq {p, p + 1}
      BY <1>3
    <2> HIDE DEF gaps
    <2>2. \A g, h \in gaps : g > 0 /\ g - h <= 1
      BY <1>3, <2>1
    <2> QED BY <1>2, <1>3, <2>2 DEF SpreadEvenly, gaps
  <1>4. CASE k >= n
    <2>1. s = [i \in 1 .. n |-> i] /\ m = n
      BY <1>4 DEF Sample
    <2>2. \A i \in 1 .. m - 1 : s[i + 1] - s[i] \in {1, 1 + 1}
      BY <2>1
    <2>3. (m > 0 => s[1] = 1) /\ (m > 1 => s[m] = n)
      BY <2>1
    <2> QED BY <1>3, <2>2, <2>3
  <1>5. CASE k < n /\ k = 1
    <2>1. s = <<1>> /\ m = 1
      BY <1>5 DEF Sample
    <2> QED BY <1>3, <2>1
  <1>6. CASE k < n /\ k = 0
    <2>1. m = 0
      BY <1>6
    <2> QED BY <1>3, <2>1
  <1>7. CASE k < n /\ 1 < k
    <2>1. s = [i \in 1 .. k |-> 1 + Round((i - 1) * (n - 1), k - 1)] /\ m = k
      BY <1>7 DEF Sample
    <2>2. PICK p \in Nat \ {0} : \A i \in 1 .. k - 1 : s[i + 1] - s[i] \in {p, p + 1}
      BY <1>7, SampleGaps
    <2>3. s[1] = 1
      <3>1. Round((k - 1) * 0, k - 1) = 0 /\ (k - 1) * 0 = (1 - 1) * (n - 1)
        BY <1>7, RoundWhole
      <3>2. s[1] = 1 + Round((1 - 1) * (n - 1), k - 1)
        BY <1>7, <2>1
      <3> QED BY <3>1, <3>2
    <2>4. s[k] = n
      <3>1. Round((k - 1) * (n - 1), k - 1) = n - 1
        BY <1>7, RoundWhole
      <3>2. s[k] = 1 + Round((k - 1) * (n - 1), k - 1)
        BY <1>7, <2>1
      <3> QED BY <3>1, <3>2
    <2> QED BY <1>3, <2>1, <2>2, <2>3, <2>4
  <1> QED BY <1>4, <1>5, <1>6, <1>7

\* A plan too large for the cap is searched evenly, whatever its size and the
\* cap: both ends of the range, nothing twice, and no gap longer than another
\* by more than one (evenly_sample, _cap_plan).
THEOREM SamplesAreEven == Spec => SampleIsEven
  <1> DEFINE Even == stage = "idle" /\ stage' = "searching" =>
               \E s \in [DOMAIN plan' -> DOMAIN asked'] :
                 /\ SpreadEvenly(s, Len(asked'))
                 /\ plan' = [i \in DOMAIN s |-> asked'[s[i]]]
  <1>1. ASSUME NEW q \in Requests, NEW cap \in Caps, StartFlights(q, cap)
        PROVE  Even
    <2>1. /\ asked' = Combos(q) /\ plan' = Capped(Combos(q), cap) /\ IsList(Combos(q))
          /\ cap \in Nat
      BY <1>1, CombosAreList, SearchAssumption DEF StartFlights, Launch
    <2> DEFINE c == Combos(q)
               n == Len(c)
               m == IF cap >= n THEN n ELSE cap
               s == Sample(n, cap)
    <2>2. n \in Nat /\ DOMAIN c = 1 .. n
      BY <2>1 DEF IsList
    <2>3. s = [i \in 1 .. m |-> s[i]] /\ \A i \in 1 .. m : s[i] \in 1 .. n
      BY <2>1, <2>2, SampleShape
    <2>4. SpreadEvenly(s, n)
      BY <2>1, <2>2, SampleSpread
    <2>5. plan' = [i \in DOMAIN s |-> c[s[i]]]
      BY <2>1 DEF Capped
    <2>6. asked' = c
      BY <2>1
    <2> HIDE DEF c, n, m, s
    <2>7. DOMAIN s = 1 .. m /\ s \in [1 .. m -> 1 .. n]
      BY <2>3
    <2>8. DOMAIN plan' = 1 .. m
      BY <2>5, <2>7
    <2>9. s \in [DOMAIN plan' -> DOMAIN asked'] /\ Len(asked') = n
      BY <2>2, <2>6, <2>7, <2>8 DEF n
    <2> QED BY <2>4, <2>5, <2>6, <2>9
  <1>2. ASSUME NEW q \in Requests, StartHotel(q)
        PROVE  Even
    <2> DEFINE x == [day |-> q.day, back |-> q.back, dest |-> q.dests[1]]
               s == Sample(1, 1)
    <2>1. asked' = <<x>> /\ plan' = <<x>>
      BY <1>2 DEF StartHotel, Launch
    <2>2. SpreadEvenly(s, 1)
      BY SampleSpread
    <2>3. s = [i \in 1 .. 1 |-> i]
      BY DEF Sample
    <2> HIDE DEF x, s
    <2>4. Len(<<x>>) = 1 /\ DOMAIN <<x>> = 1 .. 1 /\ s \in [1 .. 1 -> 1 .. 1]
      BY <2>3
    <2>5. <<x>> = [i \in DOMAIN s |-> <<x>>[s[i]]]
      BY <2>3
    <2> QED BY <2>1, <2>2, <2>4, <2>5
  <1>3. [Next]_vars => [Even]_vars
    <2> SUFFICES ASSUME [Next]_vars, stage = "idle", stage' = "searching" PROVE Even
      OBVIOUS
    <2>1. ~UNCHANGED vars
      BY DEF vars
    <2>2. ~\E i \in DOMAIN tasks : Progress(i)
      BY DEF Progress, Acquire, Answered, Stumbles, Refused, Retry, Posting
    <2>3. ~(FinishFlights \/ FinishHotel \/ Return \/ Cancel)
      BY DEF FinishFlights, FinishHotel, Return, Cancel, Clear
    <2>4. \A q \in Requests : ~Reject(q)
      BY DEF Reject
    <2>5. \E q \in Requests : StartHotel(q) \/ \E cap \in Caps : StartFlights(q, cap)
      BY <2>1, <2>2, <2>3, <2>4 DEF Next
    <2> HIDE DEF Even
    <2> QED BY <1>1, <1>2, <2>5
  <1> QED BY <1>3, PTL DEF Spec, SampleIsEven

===============================================================================
