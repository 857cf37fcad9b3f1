--------------------------- MODULE MCServiceCall ---------------------------
EXTENDS ServiceCall

(* The methods that differ in how their outcome travels, one of them not   *)
(* registered with the service.                                            *)
Methods ==
  {[void |-> TRUE, declares |-> FALSE, known |-> TRUE],
   [void |-> FALSE, declares |-> TRUE, known |-> TRUE],
   [void |-> TRUE, declares |-> TRUE, known |-> FALSE]}

=============================================================================
