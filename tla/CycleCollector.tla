--------------------------- MODULE CycleCollector ---------------------------
(***************************************************************************)
(* The reference counts and the cycle collector of KIARA (Core/GCObject,   *)
(* Core/CycleCollector).  Every object counts the smart pointers that      *)
(* refer to it and is destroyed when the count drops to zero; every        *)
(* release marks the object as a possible root of a garbage cycle, and     *)
(* when enough roots may have gathered the collector looks for groups of   *)
(* objects that are only kept by each other, unlinks and destroys them.    *)
(*                                                                         *)
(* The code is single threaded ("This is not MT-safe"); what makes it hard *)
(* is that a release runs destructors, destructors release, and any of     *)
(* these releases may start a collection in the middle of the cascade.     *)
(* The C++ call stack is the variable stack, whose head is the running     *)
(* call; the program itself only runs while it is empty.                   *)
(***************************************************************************)
EXTENDS Reachability, Integers, Sequences, FiniteSets

CONSTANTS
  Var,       (* smart pointer variables of the program                   *)
  MaxRoots   (* maxNumPossibleCycleRoots_; -1 turns automatic runs off   *)

ASSUME FiniteAssumption == IsFiniteSet(Obj) /\ IsFiniteSet(Slot) /\ IsFiniteSet(Var)
ASSUME NullAssumption == NULL \notin Obj
ASSUME MaxAssumption == MaxRoots \in Nat \cup {-1}

VARIABLES
  objects,    (* objects_: the objects that are not being destroyed       *)
  refs,       (* reference count of each object                           *)
  cycleRoots, (* the objects with possibleCycleRoot_ set                  *)
  var,        (* var[v]: the program's smart pointers                     *)
  child,      (* child[<<o, s>>]: the smart pointer members of the objects    *)
  held,       (* the objects in the vector "garbage" of collectCycles     *)
  ref,        (* the local smart pointer "ref" of the destructor          *)
  numRoots,   (* numPossibleCycleRoots_                                   *)
  collecting, (* collecting_                                              *)
  closed,     (* the collector's destructor has been entered              *)
  stack       (* the calls in progress                                    *)

vars == <<objects, refs, cycleRoots, var, child, held, ref, numRoots,
          collecting, closed, stack>>

(* A call in progress and the objects it still has to deal with. *)
Frame(op, objs) == [op |-> op, objs |-> objs]
Frames == [op : {"check", "collect", "dtor", "unlink", "free", "teardown", "clear"},
           objs : SUBSET Obj]

(* What the program can reach from its variables. *)
Live == ReachIn(child, Pointees(var))

\* Mutant: the collector's own references are not counted.
AfterAddRefUncounted(n, S) == n

(***************************************************************************)
(* addRef on every object of S: the flag is cleared, the count goes up and *)
(* the global estimate of roots goes down, never below zero.               *)
(***************************************************************************)
AfterAddRef(n, S) == [o \in Obj |-> IF o \in S THEN n[o] + 1 ELSE n[o]]
FewerRoots(n, k) == IF n > k THEN n - k ELSE 0

(***************************************************************************)
(* release(o), in a state where the counts are cnt, the flags rts, the     *)
(* estimate n and the listed objects objs: the flag is set and the count   *)
(* goes down.  At zero the object leaves the list and its destructor runs  *)
(* (the frame "dtor"), otherwise the estimate goes up; either way the      *)
(* comparison with the maximum follows (the frame "check").                *)
(***************************************************************************)
ReleaseIn(o, cnt, rts, n, objs, rest) ==
  /\ refs' = [cnt EXCEPT ![o] = @ - 1]
  /\ \/ /\ cnt[o] = 1
        /\ objects' = objs \ {o}
        /\ cycleRoots' = rts \ {o}
        /\ numRoots' = n
        /\ stack' = <<Frame("dtor", {o})>> \o rest
     \/ /\ cnt[o] # 1
        /\ objects' = objs
        /\ cycleRoots' = rts \cup {o}
        /\ numRoots' = n + 1
        /\ stack' = <<Frame("check", {})>> \o rest

\* Mutant: the old object is released before the new one is referenced.
RepointReleaseFirst(q, old, objs, rest) ==
  \/ /\ old # NULL /\ refs[old] = 1
     /\ ReleaseIn(old, refs, cycleRoots, numRoots, objs, rest)
  \/ /\ ~(old # NULL /\ refs[old] = 1)
     /\ refs' = [o \in Obj |-> refs[o] + (IF o = q THEN 1 ELSE 0)
                                        - (IF o = old THEN 1 ELSE 0)]
     /\ objects' = objs /\ stack' = rest
     /\ UNCHANGED <<cycleRoots, numRoots>>

(* p = q on a smart pointer that held old: addRef(q), swap, release(old). *)
Repoint(q, old, objs, rest) ==
  LET S == {q} \ {NULL}
      cnt == AfterAddRef(refs, S)
      rts == cycleRoots \ S
      n == FewerRoots(numRoots, Cardinality(S))
  IN \/ /\ old = NULL
        /\ refs' = cnt
        /\ cycleRoots' = rts
        /\ numRoots' = n
        /\ objects' = objs
        /\ stack' = rest
     \/ /\ old # NULL
        /\ ReleaseIn(old, cnt, rts, n, objs, rest)

(* The destructor of a smart pointer that holds o, or its reset to null. *)
Drop(o, rest) == ReleaseIn(o, refs, cycleRoots, numRoots, objects, rest)

-----------------------------------------------------------------------------
(* The program. *)

Running == stack = <<>> /\ ~closed

(* v = new T(collector) *)
New(v, o) ==
  /\ Running
  /\ o \notin objects
  /\ Repoint(o, var[v], objects \cup {o}, <<>>)
  /\ var' = [var EXCEPT ![v] = o]
  /\ UNCHANGED <<child, held, ref, collecting, closed>>

(* v = q, where q is read from something the program can reach *)
AssignVar(v, q) ==
  /\ Running
  /\ q \in Live \cup {NULL}
  /\ Repoint(q, var[v], objects, <<>>)
  /\ var' = [var EXCEPT ![v] = q]
  /\ UNCHANGED <<child, held, ref, collecting, closed>>

(* o->member = q *)
AssignMember(o, s, q) ==
  /\ Running
  /\ o \in Live
  /\ q \in Live \cup {NULL}
  /\ Repoint(q, child[<<o, s>>], objects, <<>>)
  /\ child' = [child EXCEPT ![<<o, s>>] = q]
  /\ UNCHANGED <<var, held, ref, collecting, closed>>

(* The program calls collectCycles(). *)
CallCollect ==
  /\ Running
  /\ stack' = <<Frame("collect", {})>>
  /\ UNCHANGED <<objects, refs, cycleRoots, var, child, held, ref, numRoots,
                 collecting, closed>>

(* The destructor of the collector starts. *)
Close ==
  /\ Running
  /\ closed' = TRUE
  /\ stack' = <<Frame("teardown", objects)>>
  /\ UNCHANGED <<objects, refs, cycleRoots, var, child, held, ref, numRoots, collecting>>

-----------------------------------------------------------------------------
(* The calls in progress. *)

Top == Head(stack)
Rest == Tail(stack)
At(op) == stack # <<>> /\ Top.op = op

\* Mutant: collects for as long as the estimate is above the maximum.
CheckAgain ==
  /\ At("check")
  /\ stack' = IF MaxRoots # -1 /\ numRoots > MaxRoots
              THEN <<Frame("collect", {})>> \o stack
              ELSE Rest
  /\ UNCHANGED <<objects, refs, cycleRoots, var, child, held, ref, numRoots,
                 collecting, closed>>

(* onObjectRelease: the comparison that may start a collection. *)
Check ==
  /\ At("check")
  /\ stack' = IF MaxRoots # -1 /\ numRoots > MaxRoots
              THEN <<Frame("collect", {})>> \o Rest
              ELSE Rest
  /\ UNCHANGED <<objects, refs, cycleRoots, var, child, held, ref, numRoots,
                 collecting, closed>>

(* A destructor releases the members of the object one after the other. *)
DestroyMember(o, s) ==
  /\ At("dtor")
  /\ o \in Top.objs
  /\ child[<<o, s>>] # NULL
  /\ Drop(child[<<o, s>>], stack)
  /\ child' = [child EXCEPT ![<<o, s>>] = NULL]
  /\ UNCHANGED <<var, held, ref, collecting, closed>>

(* The memory is given back; onObjectRelease(0) follows. *)
Destroyed ==
  /\ At("dtor")
  /\ \A o \in Top.objs, s \in Slot : child[<<o, s>>] = NULL
  /\ stack' = <<Frame("check", {})>> \o Rest
  /\ UNCHANGED <<objects, refs, cycleRoots, var, child, held, ref, numRoots,
                 collecting, closed>>

(***************************************************************************)
(* gcFindRoots visits everything reachable from an object of the list with *)
(* the flag set, and counts for each visited object the links from visited *)
(* objects.                                                                *)
(***************************************************************************)
GcMap == ReachIn(child, cycleRoots \cap objects)

\* Mutant: links from objects with the flag are taken for external ones.
InEdgesOfOthers(o) == {e \in Edge : e[1] \in GcMap \ cycleRoots /\ child[e] = o}

InEdges(o) == {e \in Edge : e[1] \in GcMap /\ child[e] = o}

\* Mutant: an off-by-one in the comparison of the counts.
ExternalOffByOne == {o \in GcMap : refs[o] > Cardinality(InEdges(o)) + 1 \/ refs[o] = 0}

(* More references than links from visited objects: somebody else has one. *)
External == {o \in GcMap : refs[o] > Cardinality(InEdges(o)) \/ refs[o] = 0}
Garbage == GcMap \ ReachIn(child, External)

(* collectCycles up to the point where the garbage vector holds it all. *)
Collect ==
  /\ At("collect")
  /\ \/ /\ collecting \/ numRoots = 0 \/ Garbage = {}
        /\ stack' = Rest
        /\ UNCHANGED <<refs, cycleRoots, held, numRoots, collecting>>
     \/ /\ ~collecting
        /\ numRoots # 0
        /\ Garbage # {}
        /\ collecting' = TRUE
        /\ held' = held \cup Garbage
        /\ refs' = AfterAddRef(refs, Garbage)
        /\ cycleRoots' = cycleRoots \ Garbage
        /\ numRoots' = FewerRoots(numRoots, Cardinality(Garbage))
        /\ stack' = <<Frame("unlink", Garbage)>> \o Rest
  /\ UNCHANGED <<objects, var, child, ref, closed>>

(* gcUnlinkRefs, on the garbage or in the destructor, member by member. *)
UnlinkMember(o, s) ==
  /\ At("unlink") \/ At("clear")
  /\ o \in Top.objs
  /\ child[<<o, s>>] # NULL
  /\ Drop(child[<<o, s>>], stack)
  /\ child' = [child EXCEPT ![<<o, s>>] = NULL]
  /\ UNCHANGED <<var, held, ref, collecting, closed>>

Unlinked ==
  /\ At("unlink")
  /\ \A o \in Top.objs, s \in Slot : child[<<o, s>>] = NULL
  /\ stack' = <<Frame("free", Top.objs)>> \o Rest
  /\ UNCHANGED <<objects, refs, cycleRoots, var, child, held, ref, numRoots,
                 collecting, closed>>

(* garbage.clear() *)
FreeOne(o) ==
  /\ At("free")
  /\ o \in Top.objs
  /\ held' = held \ {o}
  /\ Drop(o, <<Frame("free", Top.objs \ {o})>> \o Rest)
  /\ UNCHANGED <<var, child, ref, collecting, closed>>

CollectDone ==
  /\ At("free")
  /\ Top.objs = {}
  /\ collecting' = FALSE
  /\ stack' = Rest
  /\ UNCHANGED <<objects, refs, cycleRoots, var, child, held, ref, numRoots, closed>>

-----------------------------------------------------------------------------
(* The destructor of the collector, which walks the list of the objects.   *)
(* (Any order: the order of the list is the order of construction.)        *)

(* ref = the next object of the list; its members are unlinked next. *)
NextObject(o) ==
  /\ At("teardown")
  /\ o \in Top.objs \cap objects
  /\ ref' = o
  /\ Repoint(o, ref, objects,
             <<Frame("clear", {o}), Frame("teardown", Top.objs \ {o})>> \o Rest)
  /\ UNCHANGED <<var, child, held, collecting, closed>>

Cleared ==
  /\ At("clear")
  /\ \A o \in Top.objs, s \in Slot : child[<<o, s>>] = NULL
  /\ stack' = Rest
  /\ UNCHANGED <<objects, refs, cycleRoots, var, child, held, ref, numRoots,
                 collecting, closed>>

(* ref.reset() after the last object; what is still listed has leaked. *)
ResetRef ==
  /\ At("teardown")
  /\ Top.objs \cap objects = {}
  /\ ref' = NULL
  /\ Repoint(NULL, ref, objects, Rest)
  /\ UNCHANGED <<var, child, held, collecting, closed>>

Over ==
  /\ closed /\ stack = <<>>
  /\ UNCHANGED vars

-----------------------------------------------------------------------------
Init ==
  /\ objects = {}
  /\ refs = [o \in Obj |-> 0]
  /\ cycleRoots = {}
  /\ var = [v \in Var |-> NULL]
  /\ child = [e \in Edge |-> NULL]
  /\ held = {}
  /\ ref = NULL
  /\ numRoots = 0
  /\ collecting = FALSE
  /\ closed = FALSE
  /\ stack = <<>>

Program ==
  \/ \E v \in Var, o \in Obj : New(v, o)
  \/ \E v \in Var, q \in ObjOrNull : AssignVar(v, q)
  \/ \E o \in Obj, s \in Slot, q \in ObjOrNull : AssignMember(o, s, q)
  \/ CallCollect
  \/ Close

Calls ==
  \/ Check
  \/ \E o \in Obj, s \in Slot : DestroyMember(o, s)
  \/ Destroyed
  \/ Collect
  \/ \E o \in Obj, s \in Slot : UnlinkMember(o, s)
  \/ Unlinked
  \/ \E o \in Obj : FreeOne(o)
  \/ CollectDone
  \/ \E o \in Obj : NextObject(o)
  \/ Cleared
  \/ ResetRef

Next == Program \/ Calls \/ Over

(* A call that has started runs on; the program need not do anything. *)
Spec == Init /\ [][Next]_vars /\ WF_vars(Calls)

-----------------------------------------------------------------------------
(* Type correctness. *)
TypeOK ==
  /\ objects \subseteq Obj
  /\ refs \in [Obj -> Nat]
  /\ cycleRoots \subseteq Obj
  /\ var \in [Var -> ObjOrNull]
  /\ child \in [Edge -> ObjOrNull]
  /\ held \subseteq Obj
  /\ ref \in ObjOrNull
  /\ numRoots \in Nat
  /\ collecting \in BOOLEAN
  /\ closed \in BOOLEAN
  /\ stack \in Seq(Frames)

(* The objects whose destructor is running. *)
Dying == UNION {stack[i].objs : i \in {j \in DOMAIN stack : stack[j].op = "dtor"}}

VarsTo(o) == {v \in Var : var[v] = o}
EdgesTo(o) == {e \in Edge : child[e] = o}

(* Every reference count is the number of smart pointers that hold the     *)
(* object, wherever they live, at every step of every cascade.             *)
RefCountExact ==
  \A o \in Obj :
     refs[o] = Cardinality(VarsTo(o)) + Cardinality(EdgesTo(o))
               + (IF o \in held THEN 1 ELSE 0) + (IF ref = o THEN 1 ELSE 0)

(* No smart pointer of the program, of an object that is not destroyed, or *)
(* of the collector itself refers to an object whose destructor has        *)
(* started: destruction and collection never leave a dangling pointer.     *)
NoDangling ==
  /\ Pointees(var) \cup held \cup ({ref} \ {NULL}) \subseteq objects
  /\ Pointees(child) \subseteq objects

(* The collector only ever takes objects the program cannot reach, even    *)
(* when it starts inside a destructor or inside the collector's own        *)
(* destructor.                                                             *)
OnlyGarbageIsTaken == held \cap Live = {}

(* When a collection that has looked for garbage comes back to the         *)
(* program, whether it found any or not, everything the program had lost   *)
(* is gone: the destructors it ran have left no garbage of their own.  And *)
(* a program that has dropped its variables before it destroys the         *)
(* collector leaks nothing ("MEMORY LEAKS DETECTED" is never printed).     *)
CollectionIsComplete ==
  /\ [](closed /\ stack = <<>> /\ Pointees(var) = {} => objects = {})
  /\ [][/\ \/ At("free") /\ Top.objs = {}
           \/ At("collect") /\ ~collecting /\ numRoots # 0
        /\ Running'
        => objects' \subseteq Live']_vars

(* Destructors that release, releases that collect, collections that       *)
(* destroy: the recursion always comes back to the program.                *)
CallsEnd == stack # <<>> ~> stack = <<>>

Heap == INSTANCE GCHeap WITH
  alive <- objects \cup Dying,
  root <- var,
  graph <- Visible(child, var),
  open <- ~closed,
  busy <- stack # <<>>

(* The collector is invisible to the program. *)
HeapIsPreserved == Heap!HeapSpec

=============================================================================
