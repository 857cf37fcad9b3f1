---------------------------- MODULE Reachability ----------------------------
(***************************************************************************)
(* Objects with smart pointer members as a directed graph: g[<<o, s>>] is what *)
(* member s of object o refers to.                                         *)
(***************************************************************************)
CONSTANTS
  Obj,      (* object identities (addresses)        *)
  Slot,     (* the smart pointer members of an object *)
  NULL      (* the null pointer                     *)

ObjOrNull == Obj \cup {NULL}
Edge == Obj \X Slot

Closed(g, T) == \A o \in T, s \in Slot : g[<<o, s>>] # NULL => g[<<o, s>>] \in T

(* The objects reachable in g from R: the least closed set that contains R. *)
ReachIn(g, R) ==
  {o \in Obj : \A T \in SUBSET Obj : R \subseteq T /\ Closed(g, T) => o \in T}

Pointees(f) == {f[x] : x \in DOMAIN f} \ {NULL}

(* What somebody who starts from the pointers r can read of g. *)
Visible(g, r) ==
  LET seen == ReachIn(g, Pointees(r))
  IN  [e \in Edge |-> IF e[1] \in seen THEN g[e] ELSE NULL]

=============================================================================
