------------------------------- MODULE MCDoor -------------------------------
(* Small instances of Door for TLC. *)
EXTENDS Door, TLC

CONSTANTS dave, gate, here, ann, t1, t2

MCOwner == [t \in {t1, t2} |-> ann]
MCKind == [c \in {dave, gate, here} |->
             CASE c = dave -> "direct" [] c = gate -> "gateway" [] c = here -> "local"]

One(m) == [batch |-> FALSE, methods |-> {m}, size |-> "small"]
Sent(c, b, t) == [from |-> c, path |-> "/mcp", post |-> TRUE, body |-> b,
                  token |-> t, claim |-> None]

\* Every way to send a call, and every way not to send one.
MCRequests ==
  {Sent(dave, One(m), None) : m \in {"look", "call"}}
  \cup {Sent(c, One("call"), None) : c \in {gate, here}}
  \cup {Sent(dave, One("call"), t) : t \in {t1, t2}}
  \cup {[Sent(dave, One("call"), t) EXCEPT !.claim = ann, !.path = "/mcp/oauth"] :
          t \in {None, t1}}
  \cup {[Sent(dave, One("call"), None) EXCEPT !.claim = ann],
        Sent(dave, [batch |-> TRUE, methods |-> {"look", "call"}, size |-> "small"], None),
        Sent(dave, [batch |-> FALSE, methods |-> {"call"}, size |-> "huge"], None),
        [Sent(dave, One("look"), None) EXCEPT !.post = FALSE]}

MCConfigs ==
  {[entry |-> "vercel", signin |-> TRUE, mode |-> m] : m \in {"challenge", "open"}}
  \cup {[entry |-> "vercel", signin |-> FALSE, mode |-> "open"],
        [entry |-> "main", signin |-> TRUE, mode |-> "open"]}

Symmetry == Permutations(Slots)

=============================================================================
