-------------------------- MODULE MCServiceServer --------------------------
EXTENDS ServiceServer, TLC

Http(host, port, path) == [transport |-> "http", host |-> host, port |-> port, path |-> path]
Tcp(host, port) == [transport |-> "tcp", host |-> host, port |-> port, path |-> ""]

Config == Http("any", 80, "service")

Calc == Http("any", 80, "calc")
(* A service below the path of the configuration document.                 *)
Chat == Http("any", 80, "service/chat")
BelowConfig == {"service", "service/chat"}

(* Two paths on the configuration port, and a tcp port.                    *)
OneHost == {Config, Calc, Chat, Tcp("any", 90)}

(* A tcp service that names the port of the configuration on another host. *)
TwoHosts == {Config, Calc, Tcp("any", 90), Tcp("local", 80)}

Sym == Permutations(Peer) \cup Permutations(Service)

=============================================================================
