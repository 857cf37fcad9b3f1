--------------------------- MODULE MCNegotiation ---------------------------
(* Three programs, a group with two types and one with "*".                   *)
EXTENDS Negotiation

Cap(g, t, v) == [group |-> g, type |-> t, value |-> v]
MCProfile == {<<Cap("protocol", "udp", "MUST"), Cap("protocol", "tcp", "SHOULD")>>,
              <<Cap("protocol", "tcp", "MUST"), Cap("port", "*", "9090")>>}
MCCapability == UNION {{p[i] : i \in DOMAIN p} : p \in MCProfile}
MCSiteDocs == {{}, {Cap("protocol", "udp", "MUST NOT"), Cap("port", "*", "MUST")}}
MCNumber == {"9090"}
MCAny == "*"
=============================================================================
