------------------------- MODULE MCServiceFunctions -------------------------
(* Two methods, types and functions; one pair whose arguments do not fit.     *)
EXTENDS ServiceFunctions
CONSTANTS m1, t2
MCNotMapped == {<<m1, t2>>}
=============================================================================
