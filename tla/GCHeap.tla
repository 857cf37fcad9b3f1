------------------------------- MODULE GCHeap -------------------------------
(***************************************************************************)
(* What the cycle collector of KIARA promises to the code that uses it     *)
(* (the type database, the IR of the compiler): a heap of objects that the *)
(* program reads and links through its smart pointer variables, in which   *)
(* memory is given back behind the program's back, and only what the       *)
(* program cannot reach any more.  CycleCollector.tla implements it.       *)
(***************************************************************************)
EXTENDS Reachability

CONSTANT Var   (* the program's own smart pointer variables *)

VARIABLES
  alive,    (* objects whose memory has not been given back              *)
  root,     (* root[v]: the object a variable of the program refers to   *)
  graph,    (* graph[<<o, s>>]: what the program can read in member s of o   *)
  open,     (* the collector has not been destroyed                      *)
  busy      (* releases and collections are running: the program waits   *)

heapVars == <<alive, root, graph, open, busy>>

Reachable == ReachIn(graph, Pointees(root))

HeapInit ==
  /\ alive = {}
  /\ root = [v \in Var |-> NULL]
  /\ graph = [e \in Edge |-> NULL]
  /\ open = TRUE
  /\ busy = FALSE

(* The program goes on, or waits for what its operation has set off. *)
ProgramTurn == open /\ ~busy /\ busy' \in BOOLEAN

NewObject(v, o) ==
  /\ ProgramTurn
  /\ o \notin alive
  /\ alive' = alive \cup {o}
  /\ root' = [root EXCEPT ![v] = o]
  /\ UNCHANGED open
  /\ graph' = Visible(graph, root')

SetVariable(v, q) ==
  /\ ProgramTurn
  /\ root' = [root EXCEPT ![v] = q]
  /\ UNCHANGED <<alive, open>>
  /\ q \in Reachable \cup {NULL}
  /\ graph' = Visible(graph, root')

SetMember(o, s, q) ==
  /\ ProgramTurn
  /\ UNCHANGED <<alive, root, open>>
  /\ o \in Reachable
  /\ q \in Reachable \cup {NULL}
  /\ graph' = Visible([graph EXCEPT ![<<o, s>>] = q], root)

(* The program starts a collection, or one ends. *)
Turn ==
  /\ busy' = ~busy
  /\ UNCHANGED <<alive, root, graph, open>>

(* Memory is given back only where the program cannot see it. *)
Reclaim(o) ==
  /\ busy
  /\ o \in alive
  /\ alive' = alive \ {o}
  /\ o \notin Reachable
  /\ UNCHANGED <<root, graph, open, busy>>

(* Destroying the collector cuts every link, one at a time. *)
Shut ==
  /\ open /\ ~busy
  /\ open' = FALSE
  /\ busy' = TRUE
  /\ UNCHANGED <<alive, root, graph>>

Cut(o, s) ==
  /\ ~open /\ busy
  /\ o \in Reachable
  /\ graph' = Visible([graph EXCEPT ![<<o, s>>] = NULL], root)
  /\ UNCHANGED <<alive, root, open, busy>>

HeapNext ==
  \/ \E v \in Var, o \in Obj : NewObject(v, o)
  \/ \E v \in Var, q \in ObjOrNull : SetVariable(v, q)
  \/ \E o \in Obj, s \in Slot, q \in ObjOrNull : SetMember(o, s, q)
  \/ Turn
  \/ \E o \in Obj : Reclaim(o)
  \/ Shut
  \/ \E o \in Obj, s \in Slot : Cut(o, s)

HeapSpec == HeapInit /\ [][HeapNext]_heapVars

=============================================================================
