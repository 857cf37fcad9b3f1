------------------------- MODULE MCTrivialProtocol -------------------------
EXTENDS TrivialProtocol

Fixed(bytes) == [tag |-> "fixed", bytes |-> bytes]
Text(n, byte) == [tag |-> "string", bytes |-> [i \in 1..n |-> byte]]

(* Names and texts hold bytes below and above Radix and no 0; the lengths  *)
(* stand on both sides of each number of bytes for the length, and near    *)
(* the end of a message and far from it.                                   *)
Service == {<<1, 1>>, [i \in 1..5 |-> 3]}
Called == Service \cup {<<1>>, [i \in 1..5 |-> 1]}
Lists == {<<>>, <<Fixed(<<0>>)>>}
           \cup {<<Text(n, 3), Fixed(<<2, 0>>)>> : n \in {0, 1, 2, 3, 4, 7, 8, 15, 16, 31, 32, 63}}
           \cup {<<Text(n, 1)>> : n \in {0, 1, 2, 5}}
           \cup {<<Fixed(<<3, 3>>), Text(m, 1), Text(n, 3)>> : m \in {0, 3}, n \in {2, 8}}
Results == {<<>>, <<Fixed(<<1>>)>>, <<Text(9, 3), Text(2, 1)>>, <<Fixed(<<0, 3>>), Text(17, 1)>>}
Thrown == {<<Fixed(<<1, 0>>), Text(4, 3)>>}
Unknown == <<Fixed(<<2, 0>>), Text(10, 1)>>
Invalid == <<Fixed(<<2, 0>>), Text(6, 1)>>
Failing == <<Fixed(<<2, 3>>), Text(0, 1)>>
Strange == {<<>>, <<0, 1, 1>>, <<1, 2, 1, 1>>}

=============================================================================
