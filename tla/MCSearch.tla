------------------------------ MODULE MCSearch ------------------------------
(* Small instances of Search for TLC. *)
EXTENDS Search

Oneway(dests, from, to, by, n) ==
  [tool |-> "oneway", dests |-> dests, day |-> None, from |-> from, to |-> to,
   back |-> None, nights |-> {}, sortBy |-> by, limit |-> n]

Roundtrip(dests, day, nights) ==
  [tool |-> "roundtrip", dests |-> dests, day |-> day, from |-> None, to |-> None,
   back |-> None, nights |-> nights, sortBy |-> "price", limit |-> 10]

\* Ranges that fit and that are sampled, to one and several destinations; a
\* limit below the searches; a return date in the middle of the range; and
\* what cannot be planned.
MCRequests ==
  {Oneway(<<"a", "b">>, 1, 1, "price", 1),
   Oneway(<<"a", "b">>, 1, 4, "duration", 1),
   Oneway(<<"a">>, 1, 6, "price", 10),
   Roundtrip(<<"a">>, 1, {-1, 1, 2}),
   Roundtrip(<<"a">>, 1, {-1}),
   [Roundtrip(<<"a", "b">>, None, {}) EXCEPT !.from = 1, !.to = 3, !.back = 2],
   [Roundtrip(<<"a">>, 3, {}) EXCEPT !.back = 2],
   [Roundtrip(<<"a">>, 1, {2}) EXCEPT !.back = 2],
   Oneway(<<"a">>, 2, 1, "price", 10),
   Oneway(<<>>, 1, 1, "price", 10),
   [Roundtrip(<<"a">>, 1, {}) EXCEPT !.tool = "hotel", !.back = 2]}

Fare(link, price, duration) == [link |-> link, price |-> price, duration |-> duration]

MCAnswers ==
  {[said |-> "ok", rows |-> <<>>],
   [said |-> "degraded", rows |-> <<>>],
   [said |-> "ok", rows |-> <<Fare("x", 2, 1), Fare("y", 1, 2)>>],
   [said |-> None, rows |-> <<Fare(None, 1, None)>>],
   [said |-> "partial", rows |-> <<Fare("x", 2, 1)>>],
   [said |-> "degraded", rows |-> None]}

==============================================================================
