----------------------------- MODULE MCOpening -----------------------------
(* Two names, with two definitions of one of them.  "tcp" goes before "http", and
   "smtp" is no transport.                                                    *)
EXTENDS Opening

Struct(n, d, uses) ==
  [kind |-> "struct", name |-> n, def |-> d, uses |-> uses, untyped |-> FALSE]
Typedef(n, d, uses) ==
  [kind |-> "typedef", name |-> n, def |-> d, uses |-> uses, untyped |-> FALSE]
Text(k) == [kind |-> k, name |-> "A", def |-> 0, uses |-> {}, untyped |-> FALSE]

Plain == <<Struct("A", 1, {})>>
Other == <<Typedef("A", 2, {}), Struct("B", 1, {"A"})>>
Late == <<Typedef("B", 2, {"A"})>>
Partial == <<Struct("B", 3, {"A"})>>
Broken == <<Text("garbled"), Struct("B", 1, {}), Text("bad token"), Struct("A", 1, {})>>
Untyped == <<[Typedef("A", 4, {}) EXCEPT !.untyped = TRUE],
             [Struct("A", 4, {}) EXCEPT !.untyped = TRUE]>>

Server(t, p) == [transport |-> t, part |-> p]
Sent(from, doc, servers) == [from |-> from, doc |-> doc, servers |-> servers]

MCDocument == {Other, Partial}
MCConfig ==
  {Sent("contents", Plain, <<Server("http", "whole"), Server("tcp", "whole")>>),
   Sent("contents", Other, <<Server("tcp", "whole"), Server("http", "whole")>>),
   Sent("contents", Late, <<Server("smtp", "whole"), Server("http", "no url"), Server("tcp", "whole")>>),
   Sent("url", Late, <<Server("http", "whole"), Server("http", "whole")>>),
   Sent("contents", Partial, <<Server("tcp", "whole")>>),
   Sent("contents", Untyped, <<Server("http", "whole")>>),
   Sent("contents", Broken, <<Server("tcp", "whole")>>),
   Sent("contents", <<>>, <<Server("http", "broken"), Server("tcp", "whole")>>),
   Sent("none", <<>>, <<Server("tcp", "whole")>>)}
MCPriority == [t \in {"tcp", "http"} |-> IF t = "tcp" THEN 10 ELSE 20]
=============================================================================
