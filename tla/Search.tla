------------------------------- MODULE Search -------------------------------
(***************************************************************************)
(* One tool call from its arguments to its answer: a flight search fans    *)
(* out into one backend call for each date and destination (src/fanout.py, *)
(* src/lambda_client.py), and the handler of src/server.py selects the     *)
(* rows, accounts for every requested destination and says what is         *)
(* missing. A hotel search is the same with one backend call               *)
(* (src/hotels_lambda_client.py) and nothing to account for.               *)
(*                                                                         *)
(* The call has been admitted: the cap it comes with is what the tier, the *)
(* daily budget and fair use leave it (module FairUse). The searches of    *)
(* one call run concurrently, a few at a time, and each is retried on its  *)
(* own. A row is the fare it offers (its buy_link) with the price and the  *)
(* duration it is sorted by. What only changes the wording of the answer,  *)
(* the card and the links is left out.                                     *)
(***************************************************************************)
EXTENDS Integers, FiniteSets, Sequences

CONSTANTS
  Requests,        \* the arguments of the calls that are made, see Request
  Caps,            \* how many backend calls a call may be admitted with
  Answers,         \* what the backend may answer with 200, see Answer
  MaxRange,        \* MAX_RANGE_DAYS
  MaxConcurrency,  \* max_concurrent_backend_calls
  MaxAttempts,     \* _MAX_ATTEMPTS
  MaxAutoLimit,    \* MAX_AUTO_LIMIT
  Worst,           \* sorts after every price and duration
  None             \* nothing yet; an argument that was not given

Given(x) == x # None

\* Days are counted from some first day. nights: {} when not given.
Request ==
  [tool : {"oneway", "roundtrip", "hotel"}, dests : Seq(STRING),
   day : Nat \cup {None}, from : Nat \cup {None}, to : Nat \cup {None},
   back : Nat \cup {None}, nights : SUBSET Int,
   sortBy : {"price", "duration"}, limit : Int]

\* A row without a link is nobody's duplicate; one without a price or a
\* duration sorts last.
Row == [link : STRING \cup {None}, price : Nat \cup {None}, duration : Nat \cup {None}]

\* said: X-Search-Status. rows is None when the body is not JSON.
Statuses == {"ok", "degraded", "partial", None}
Answer == [said : Statuses, rows : Seq(Row) \cup {None}]

ASSUME SearchAssumption ==
  /\ Requests \subseteq Request
  /\ Answers \subseteq Answer
  /\ Caps \subseteq Nat
  /\ MaxRange \in Nat
  /\ {MaxConcurrency, MaxAttempts, MaxAutoLimit} \subseteq Nat \ {0}
  /\ \A q \in Requests : q.tool = "oneway" => ~Given(q.back) /\ q.nights = {}
  /\ Worst \in Nat
  /\ None \notin {"ok", "empty", "degraded", "partial"}
  /\ \A a \in Answers : Given(a.rows) =>
       \A k \in DOMAIN a.rows : {a.rows[k].price, a.rows[k].duration} \subseteq
                                  0 .. Worst - 1 \cup {None}

VARIABLES
  stage,   \* "idle", "searching", "answered", "error" (a ToolError)
  query,   \* the arguments
  asked,   \* SearchPlan.requested_combos: what the arguments come to
  plan,    \* SearchPlan.combos: the combinations that are searched
  limit,   \* the effective limit
  tasks,   \* tasks[i]: the search of plan[i]
  reply,   \* the answer
  charged  \* the backend calls put on record; None: nothing recorded

vars == <<stage, query, asked, plan, limit, tasks, reply, charged>>

-----------------------------------------------------------------------------
(* Planning.                                                               *)

\* expand_date_range
Span(first, last) == [i \in 1 .. last - first + 1 |-> first + i - 1]

\* _resolve_departure_dates, for valid arguments.
Dates(q) ==
  IF Given(q.day) THEN <<q.day>>
  ELSE Span(q.from, q.to)

DatesValid(q) ==
  \/ Given(q.day) /\ ~Given(q.from) /\ ~Given(q.to)
  \/ /\ ~Given(q.day) /\ Given(q.from) /\ Given(q.to)
     /\ q.from <= q.to /\ q.to - q.from < MaxRange

\* _normalise_nights
Nights(q) == {n \in q.nights : n >= 0}
NightsValid(q) == Nights(q) # {} /\ \A n \in Nights(q) : n <= MaxRange

Ascending(S) ==
  [i \in 1 .. Cardinality(S) |-> CHOOSE n \in S : Cardinality({m \in S : m < n}) = i - 1]

\* No PlanError is raised.
Plannable(q) ==
  /\ q.dests # <<>>
  /\ DatesValid(q)
  /\ q.tool = "roundtrip" =>
       /\ Given(q.back) # (q.nights # {})
       /\ Given(q.back) => q.back >= Dates(q)[1]
       /\ q.nights # {} => NightsValid(q)

\* plan_oneway, plan_roundtrip: day by day, for each length of stay, for each
\* destination. A return before the departure is not a combination.
Combos(q) ==
  LET days  == IF Given(q.back) /\ ~Given(q.day) /\ q.back < q.to
               THEN Span(q.from, q.back) ELSE Dates(q)
      stays == IF q.nights = {} THEN <<0>> ELSE Ascending(Nights(q))
      width == Len(stays) * Len(q.dests)
  IN [i \in 1 .. Len(days) * width |->
        LET day == days[((i - 1) \div width) + 1] IN
        [day  |-> day,
         back |-> IF Given(q.back) THEN q.back
                  ELSE day + stays[(((i - 1) % width) \div Len(q.dests)) + 1],
         dest |-> q.dests[((i - 1) % Len(q.dests)) + 1]]]

\* Python's round(a / b): to the nearest integer, a half to the even one.
Round(a, b) ==
  LET q == a \div b   r == a % b
  IN IF 2 * r < b \/ (2 * r = b /\ q % 2 = 0) THEN q ELSE q + 1

\* Mutant: every stride-th one, the stride rounded down.
FloorSample(n, k) ==
  IF k >= n THEN [i \in 1 .. n |-> i]
  ELSE [i \in 1 .. k |-> 1 + (i - 1) * (n \div k)]

\* evenly_sample: which k of n, spread evenly. (k < n spaces them more than
\* one apart, so that no two of them round to the same and the code's
\* backfill has nothing to do: SampleIsEven.)
Sample(n, k) ==
  IF k >= n THEN [i \in 1 .. n |-> i]
  ELSE IF k = 1 THEN <<1>>
  ELSE [i \in 1 .. k |-> 1 + Round((i - 1) * (n - 1), k - 1)]

\* _cap_plan
Capped(combos, cap) ==
  LET s == Sample(Len(combos), cap) IN [i \in DOMAIN s |-> combos[s[i]]]

\* Mutant: the limit stays what the caller asked for.
LimitAsAsked(given, n) == given

\* _effective_limit: raised to one row for every search, within reason.
EffectiveLimit(given, n) ==
  LET raised == IF n < MaxAutoLimit THEN n ELSE MaxAutoLimit
  IN IF n <= 0 \/ given >= n \/ raised <= given THEN given ELSE raised

-----------------------------------------------------------------------------
(* Searching.                                                              *)

Task == [at |-> "waiting", tries |-> 0, said |-> None, rows |-> <<>>]
Done == {"answered", "failed"}

Init ==
  /\ stage = "idle"
  /\ query = None
  /\ asked = <<>> /\ plan = <<>>
  /\ limit = 0
  /\ tasks = <<>>
  /\ reply = None
  /\ charged = None

\* A call whose arguments make no plan is recorded, with nothing spent.
Reject(q) ==
  /\ stage = "idle"
  /\ q.tool # "hotel" /\ ~Plannable(q)
  /\ stage' = "error"
  /\ query' = q
  /\ charged' = 0
  /\ UNCHANGED <<asked, plan, limit, tasks, reply>>

Launch(q, combos, searched) ==
  /\ stage = "idle"
  /\ stage' = "searching"
  /\ query' = q
  /\ asked' = combos
  /\ plan' = searched
  /\ limit' = EffectiveLimit(q.limit, Len(searched))
  /\ tasks' = [i \in DOMAIN searched |-> Task]
  /\ UNCHANGED <<reply, charged>>

StartFlights(q, cap) ==
  /\ q.tool # "hotel" /\ Plannable(q)
  /\ Launch(q, Combos(q), Capped(Combos(q), cap))

StartHotel(q) ==
  /\ q.tool = "hotel"
  /\ LET one == <<[day |-> q.day, back |-> q.back, dest |-> q.dests[1]]>>
     IN Launch(q, one, one)

\* Mutant: a search that failed keeps its place.
RunningOrFailed == {i \in DOMAIN tasks : tasks[i].at \in {"posting", "backoff", "failed"}}

Running == {i \in DOMAIN tasks : tasks[i].at \in {"posting", "backoff"}}

\* The semaphore of execute_plan wakes its waiters in order, and is held
\* until the search is through with its retries.
Acquire(i) ==
  /\ stage = "searching"
  /\ tasks[i].at = "waiting"
  /\ \A j \in DOMAIN tasks : tasks[j].at = "waiting" => i <= j
  /\ Cardinality(Running) < MaxConcurrency
  /\ tasks' = [tasks EXCEPT ![i].at = "posting", ![i].tries = 1]
  /\ UNCHANGED <<stage, query, asked, plan, limit, reply, charged>>

Posting(i) == stage = "searching" /\ tasks[i].at = "posting"

\* LambdaClient.search: an answer with 200 is the last one, whatever is in
\* it. Its headers are noted before the body is parsed, and the hotel client
\* notes none.
Answered(i) ==
  /\ Posting(i)
  /\ \E a \in Answers :
       LET said == IF query.tool = "hotel" THEN None ELSE a.said IN
       tasks' = [tasks EXCEPT ![i] =
                   IF Given(a.rows)
                   THEN [@ EXCEPT !.at = "answered", !.said = said, !.rows = a.rows]
                   ELSE [@ EXCEPT !.at = "failed", !.said = said]]
  /\ UNCHANGED <<stage, query, asked, plan, limit, reply, charged>>

\* Mutant: the last attempt is retried as well.
StumblesForever(i) ==
  /\ Posting(i)
  /\ tasks' = [tasks EXCEPT ![i].at = "backoff"]
  /\ UNCHANGED <<stage, query, asked, plan, limit, reply, charged>>

\* A time-out, a broken connection or a retryable status.
Stumbles(i) ==
  /\ Posting(i)
  /\ tasks' = [tasks EXCEPT ![i].at = IF tasks[i].tries = MaxAttempts
                                      THEN "failed" ELSE "backoff"]
  /\ UNCHANGED <<stage, query, asked, plan, limit, reply, charged>>

\* Any other status is not retried.
Refused(i) ==
  /\ Posting(i)
  /\ tasks' = [tasks EXCEPT ![i].at = "failed"]
  /\ UNCHANGED <<stage, query, asked, plan, limit, reply, charged>>

Retry(i) ==
  /\ stage = "searching"
  /\ tasks[i].at = "backoff"
  /\ tasks' = [tasks EXCEPT ![i].at = "posting", ![i].tries = @ + 1]
  /\ UNCHANGED <<stage, query, asked, plan, limit, reply, charged>>

-----------------------------------------------------------------------------
(* Selecting the rows. Row j of search i goes by <<i, j>>.                 *)

Failed == {i \in DOMAIN tasks : tasks[i].at = "failed"}
Fares(i) == {i} \X DOMAIN tasks[i].rows
At(t) == tasks[t[1]].rows[t[2]]
Before(t, u) == t[1] < u[1] \/ (t[1] = u[1] /\ t[2] < u[2])

\* _dedupe: of the rows with one link, the first.
Unique ==
  LET all == UNION {Fares(i) : i \in DOMAIN tasks} IN
  {t \in all : ~\E u \in all : Before(u, t) /\ Given(At(u).link) /\ At(u).link = At(t).link}

\* _row_sort_key, and sorted() is stable.
Key(t, by) == IF Given(At(t)[by]) THEN At(t)[by] ELSE Worst
Cheaper(t, u, by) ==
  Key(t, by) < Key(u, by) \/ (Key(t, by) = Key(u, by) /\ Before(t, u))

\* The n best rows of S.
Top(S, n, by) == {t \in S : Cardinality({u \in S : Cheaper(u, t, by)}) < n}

\* _select_rows_by_combo: first the best row of every search, then the best
\* of the rest, as far as the limit goes.
Selected ==
  LET by       == query.sortBy
      unique   == Unique
      bests    == {t \in unique : \A u \in unique : u[1] = t[1] => ~Cheaper(u, t, by)}
      reserved == Top(bests, limit, by)
  IN reserved \cup Top(unique \ reserved, limit - Cardinality(reserved), by)

\* The searches that found a row and have none in the answer.
Hidden(shown) == {t[1] : t \in Unique} \ {t[1] : t \in shown}

-----------------------------------------------------------------------------
(* Accounting for what was asked.                                          *)

Combo(c) == <<c.dest, c.day>>   \* _combo_key

\* Mutant: what the answer shows is taken for what was found.
ReasonByShown(keys, shown) ==
  LET ran == {i \in DOMAIN plan : Combo(plan[i]) \in keys} IN
  IF \E t \in shown : t[1] \in ran THEN "ok"
  ELSE IF ran = {} THEN "not_searched"
  ELSE IF ran \cap Failed # {} THEN "search_failed"
  ELSE "no_flights"

\* reason_for, for a destination on one or more days: the first that applies.
Reason(keys, shown) ==
  LET ran == {i \in DOMAIN plan : Combo(plan[i]) \in keys} IN
  IF \E t \in shown : t[1] \in ran THEN "ok"
  ELSE IF ran = {} THEN "not_searched"
  ELSE IF \E i \in ran : tasks[i].rows # <<>> THEN "not_in_limit"
  ELSE IF ran \cap Failed # {} THEN "search_failed"
  ELSE "no_flights"

\* The combinations that were asked for with destination d.
Keys(d) == {Combo(asked[i]) : i \in {j \in DOMAIN asked : asked[j].dest = d}}

\* _by_destination. The rows of a destination are collected once for every
\* combination that was asked for: rows is how many are listed.
ByDestination(shown) ==
  [d \in {asked[i].dest : i \in DOMAIN asked} |->
     [reason |-> Reason(Keys(d), shown),
      rows   |-> Cardinality({p \in (DOMAIN asked) \X shown :
                   asked[p[1]].dest = d /\ Combo(asked[p[1]]) = Combo(plan[p[2][1]])}),
      days   |-> [k \in {key[2] : key \in Keys(d)} |-> Reason({<<d, k>>}, shown)]]]

Reported == {i \in DOMAIN tasks : Given(tasks[i].said)}
Incomplete == {i \in Reported : tasks[i].said \in {"degraded", "partial"}}

\* search_status; the backend may not have said.
Status(shown) ==
  IF Reported = {} THEN None
  ELSE IF shown = {} THEN IF Incomplete # {} THEN "degraded" ELSE "empty"
  ELSE IF Incomplete # {} THEN "partial" ELSE "ok"

\* Mutant: the sink is shared, and what an answer says is put down to the
\* search that was started last.
NameOfLast(i) == Combo(plan[Cardinality({j \in DOMAIN tasks : tasks[j].tries > 0})])

\* _combo_of: the combination an outcome is about, from the payload sent.
NameOf(i) == Combo(plan[i])

\* The line in front of the answer; a clean answer has none.
FirstLine(status) ==
  IF status = "degraded"
  THEN [kind |-> "degraded", completed |-> 0, missing |-> {}]
  ELSE IF Incomplete \cup Failed = {}
  THEN [kind |-> "clean", completed |-> Len(plan), missing |-> {}]
  ELSE LET bad == Cardinality(Incomplete) + Cardinality(Failed) IN
       [kind      |-> "partial",
        completed |-> IF bad < Len(plan) THEN Len(plan) - bad ELSE 0,
        missing   |-> {NameOf(i) : i \in Incomplete} \cup {Combo(plan[i]) : i \in Failed}]

FlightReply ==
  LET shown  == Selected
      status == Status(shown)
  IN [rows |-> shown, hidden |-> Hidden(shown), byDestination |-> ByDestination(shown),
      status |-> status, firstLine |-> FirstLine(status),
      isError |-> status = "degraded"]

\* Every backend call of the plan is recorded, the failed ones included; when
\* all of them failed the call is an error.
FinishFlights ==
  /\ stage = "searching"
  /\ query.tool # "hotel"
  /\ \A i \in DOMAIN tasks : tasks[i].at \in Done
  /\ charged' = Len(plan)
  /\ IF Failed = DOMAIN tasks
     THEN stage' = "error" /\ UNCHANGED reply
     ELSE stage' = "answered" /\ reply' = FlightReply
  /\ UNCHANGED <<query, asked, plan, limit, tasks>>

\* A hotel search that failed is an error and leaves no record.
FinishHotel ==
  /\ stage = "searching"
  /\ query.tool = "hotel"
  /\ tasks[1].at \in Done
  /\ IF tasks[1].at = "failed"
     THEN stage' = "error" /\ UNCHANGED <<reply, charged>>
     ELSE stage' = "answered" /\ reply' = Fares(1) /\ charged' = 1
  /\ UNCHANGED <<query, asked, plan, limit, tasks>>

Clear ==
  /\ stage' = "idle"
  /\ query' = None
  /\ asked' = <<>> /\ plan' = <<>> /\ tasks' = <<>>
  /\ limit' = 0
  /\ reply' = None
  /\ charged' = None

\* The handler returns.
Return == stage \in {"answered", "error"} /\ Clear

\* The caller goes away, or the instance: nothing is answered or recorded.
Cancel == stage = "searching" /\ Clear

-----------------------------------------------------------------------------
Progress(i) == Acquire(i) \/ Answered(i) \/ Stumbles(i) \/ Refused(i) \/ Retry(i)

Next ==
  \/ \E q \in Requests :
       \/ Reject(q) \/ StartHotel(q)
       \/ \E cap \in Caps : StartFlights(q, cap)
  \/ \E i \in DOMAIN tasks : Progress(i)
  \/ FinishFlights \/ FinishHotel
  \/ Return \/ Cancel

Spec == Init /\ [][Next]_vars

\* Every request to the backend has a time-out and every pause an end, and the
\* event loop runs what is ready.
FairSpec ==
  /\ Spec
  /\ WF_vars(\E i \in DOMAIN tasks : Progress(i))
  /\ WF_vars(FinishFlights \/ FinishHotel)

-----------------------------------------------------------------------------
(* Properties.                                                             *)

TypeOK ==
  /\ stage \in {"idle", "searching", "answered", "error"}
  /\ query \in Requests \cup {None}
  /\ limit \in Int
  /\ charged \in Nat \cup {None}
  /\ DOMAIN tasks = DOMAIN plan
  /\ \A i \in DOMAIN tasks :
       /\ tasks[i].at \in {"waiting", "posting", "backoff"} \cup Done
       /\ tasks[i].tries \in 0 .. MaxAttempts
       /\ tasks[i].said \in Statuses
       /\ tasks[i].rows \in Seq(Row)
  /\ Cardinality(Running) <= MaxConcurrency

Flights == stage = "answered" /\ query.tool # "hotel"

\* evenly_sample: "Pick k items spread evenly across the list, keeping first
\* and last": no combination is searched twice, both ends of the range are,
\* and no two gaps between them differ by more than one.
SpreadEvenly(s, n) ==
  LET gaps == {s[i + 1] - s[i] : i \in 1 .. Len(s) - 1} IN
  /\ Len(s) > 0 => s[1] = 1
  /\ Len(s) > 1 => s[Len(s)] = n
  /\ \A g, h \in gaps : g > 0 /\ g - h <= 1

SampleIsEven ==
  [][stage = "idle" /\ stage' = "searching" =>
       \E s \in [DOMAIN plan' -> DOMAIN asked'] :
         /\ SpreadEvenly(s, Len(asked'))
         /\ plan' = [i \in DOMAIN s |-> asked'[s[i]]]]_vars

\* How many searches _effective_limit makes room for, whatever limit the
\* caller gave. (The cap on a call is an environment variable, which may let
\* a call make more.)
RoomForAll == Len(plan) <= MaxAutoLimit

\* _select_rows_by_combo and _effective_limit: whatever limit the caller
\* gave, every search that found a fare of its own has its best one in the
\* answer, as long as MAX_AUTO_LIMIT has room for a row of each.
EverySearchRepresented ==
  Flights /\ RoomForAll =>
    LET unique == Unique IN
    \A t \in unique :
      (\A u \in unique : u[1] = t[1] => ~Cheaper(u, t, query.sortBy))
        => t \in reply.rows

\* _by_destination: the reason given for a destination is never better or
\* worse than what the searches brought. None is left out; one that found a
\* fare of its own has it in the answer, if there is room for all; "not in
\* the limit" is said of one that found something and shows nothing; "no
\* flights" is not said of one with a failed search, and "not searched" only
\* of one that was not.
ReasonsAreTrue ==
  Flights =>
    LET unique == Unique IN
    \A k \in DOMAIN query.dests :
      LET d   == query.dests[k]
          ran == {i \in DOMAIN plan : plan[i].dest = d}
          why == reply.byDestination[d].reason
      IN /\ RoomForAll /\ (\E t \in unique : t[1] \in ran) => why = "ok"
         /\ why = "ok" <=> \E t \in reply.rows : t[1] \in ran
         /\ why = "not_in_limit" => \E i \in ran : tasks[i].rows # <<>>
         /\ why = "no_flights" => ran \cap Failed = {}
         /\ why \in {"no_flights", "search_failed"} =>
              \A i \in ran : tasks[i].rows = <<>>
         /\ (why = "not_searched") <=> (ran = {})

\* The text an answer begins with: a clean answer is one where every search
\* came back and the backend called none incomplete; any other says so,
\* names exactly the combinations that are missing, however the answers came
\* in, and never claims more completed searches than there were.
CoverageIsTold ==
  Flights =>
    LET bad == Failed \cup Incomplete IN
    /\ (reply.firstLine.kind = "clean") <=> (bad = {})
    /\ reply.isError => reply.rows = {}
    /\ reply.firstLine.kind = "partial" =>
         /\ reply.firstLine.missing = {Combo(plan[i]) : i \in bad}
         /\ reply.firstLine.completed <= Len(plan) - Cardinality(bad)

\* A call ends, whatever the backend does: every search is through after its
\* attempts and leaves its place to the next.
RunEnds == stage = "searching" ~> stage # "searching"

\* _by_destination: "`rows` are the rows for that destination that are in
\* `results`".
RowsListedOnce ==
  Flights =>
    \A d \in DOMAIN reply.byDestination :
      reply.byDestination[d].rows
        = Cardinality({t \in reply.rows : plan[t[1]].dest = d})

\* "no_flights -- searched, answered, and Google had no itineraries".
NoFlightsIsAFact ==
  Flights =>
    \A d \in DOMAIN reply.byDestination :
      reply.byDestination[d].reason = "no_flights" =>
        \A i \in DOMAIN plan : plan[i].dest = d => i \notin Incomplete

==============================================================================
