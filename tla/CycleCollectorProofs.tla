------------------------ MODULE CycleCollectorProofs ------------------------
(***************************************************************************)
(* Proofs about CycleCollector.tla for heaps of any size.                  *)
(***************************************************************************)
EXTENDS CycleCollector, FiniteSetTheorems, TLAPS

(* One pointer to o more or less.                                          *)
Hit(p, o) == IF p = o THEN 1 ELSE 0

(* Changing one pointer changes the number of pointers to o accordingly.   *)
LEMMA CountExcept ==
  ASSUME NEW D, IsFiniteSet(D), NEW f \in [D -> ObjOrNull], NEW c \in D,
         NEW q \in ObjOrNull, NEW o \in Obj
  PROVE  /\ Cardinality({x \in D : f[x] = o}) \in Nat
         /\ Cardinality({x \in D : [f EXCEPT ![c] = q][x] = o})
            = Cardinality({x \in D : f[x] = o}) + Hit(q, o) - Hit(f[c], o)
<1> DEFINE A == {x \in D : f[x] = o}
           B == {x \in D : [f EXCEPT ![c] = q][x] = o}
<1>1. IsFiniteSet(A) /\ IsFiniteSet(B)
  BY FS_Subset, A \in SUBSET D, B \in SUBSET D
<1>2. Cardinality(A) \in Nat
  BY <1>1, FS_CardinalityType
<1>3. CASE q = o /\ f[c] # o
  <2>1. B = A \cup {c} /\ c \notin A
    BY <1>3
  <2>2. Cardinality(B) = Cardinality(A) + 1
    BY <1>1, <2>1, FS_AddElement
  <2>. QED BY <1>2, <1>3, <2>2 DEF Hit
<1>4. CASE q # o /\ f[c] = o
  <2>1. B = A \ {c} /\ c \in A
    BY <1>4
  <2>2. Cardinality(B) = Cardinality(A) - 1
    BY <1>1, <2>1, FS_RemoveElement
  <2>. QED BY <1>2, <1>4, <2>2 DEF Hit
<1>5. CASE q = o /\ f[c] = o
  <2>1. B = A
    BY <1>5
  <2>2. Cardinality(B) = Cardinality(A)
    BY <2>1
  <2>3. Hit(q, o) - Hit(f[c], o) = 0
    BY <1>5 DEF Hit
  <2>. QED BY <1>2, <2>2, <2>3 DEF Hit
<1>6. CASE q # o /\ f[c] # o
  <2>1. B = A
    BY <1>6
  <2>. QED BY <1>2, <1>6, <2>1 DEF Hit
<1>. QED BY <1>3, <1>4, <1>5, <1>6

-----------------------------------------------------------------------------
(* The call stack.  At most one call is between taking and freeing garbage *)
(* and the objects it still has to free are those that "held" records.     *)

InCollect(s) == {i \in 1..Len(s) : s[i].op \in {"unlink", "free"}}

HeldOK(s, h, c) ==
  /\ \A i \in InCollect(s) : s[i].objs = h
  /\ \A i, j \in InCollect(s) : i = j
  /\ c <=> InCollect(s) # {}
  /\ ~c => h = {}

(* A frame on top of a call stack.                                         *)
LEMMA Push ==
  ASSUME NEW s \in Seq(Frames), NEW f \in Frames
  PROVE  /\ <<f>> \o s \in Seq(Frames)
         /\ Len(<<f>> \o s) = Len(s) + 1
         /\ (<<f>> \o s)[1] = f
         /\ \A i \in 1..Len(s) : (<<f>> \o s)[i + 1] = s[i]
         /\ Head(<<f>> \o s) = f /\ Tail(<<f>> \o s) = s
  OBVIOUS

(* The stack without its top frame.                                        *)
LEMMA Pop ==
  ASSUME NEW s \in Seq(Frames), s # <<>>
  PROVE  /\ Head(s) \in Frames /\ Head(s) = s[1]
         /\ Tail(s) \in Seq(Frames)
         /\ Len(Tail(s)) = Len(s) - 1 /\ Len(s) \in Nat \ {0}
         /\ \A i \in 1..Len(Tail(s)) : Tail(s)[i] = s[i + 1]
  OBVIOUS

(* A call that does not collect leaves the collection under way as it is.  *)
LEMMA PushHeld ==
  ASSUME NEW s \in Seq(Frames), NEW f \in Frames, NEW h, NEW c \in BOOLEAN,
         f.op \notin {"unlink", "free"}, HeldOK(s, h, c)
  PROVE  HeldOK(<<f>> \o s, h, c)
<1> DEFINE t == <<f>> \o s
<1>1. \A i \in InCollect(t) : i - 1 \in InCollect(s) /\ t[i] = s[i - 1]
  BY Push DEF InCollect
<1>2. \A i \in InCollect(s) : i + 1 \in InCollect(t)
  BY Push DEF InCollect
<1>3. \A i \in InCollect(t) : i \in Int
  BY DEF InCollect
<1>4. InCollect(t) # {} <=> InCollect(s) # {}
  BY <1>1, <1>2
<1>5. \A i \in InCollect(t) : t[i].objs = h
  BY <1>1 DEF HeldOK
<1>6. \A i, j \in InCollect(t) : i = j
  BY <1>1, <1>3 DEF HeldOK
<1>. QED BY <1>4, <1>5, <1>6, Zenon DEF HeldOK

(* So does the end of one.                                                 *)
LEMMA PopHeld ==
  ASSUME NEW s \in Seq(Frames), s # <<>>, NEW h, NEW c \in BOOLEAN,
         Head(s).op \notin {"unlink", "free"}, HeldOK(s, h, c)
  PROVE  HeldOK(Tail(s), h, c)
<1>1. \A i \in InCollect(Tail(s)) : i + 1 \in InCollect(s) /\ Tail(s)[i] = s[i + 1]
  BY Pop DEF InCollect
<1>2. \A i \in InCollect(s) : i - 1 \in InCollect(Tail(s))
  BY Pop DEF InCollect
<1>3. \A i \in InCollect(Tail(s)) : i \in Int
  BY DEF InCollect
<1>4. InCollect(Tail(s)) # {} <=> InCollect(s) # {}
  BY <1>1, <1>2
<1>5. \A i \in InCollect(Tail(s)) : Tail(s)[i].objs = h
  BY <1>1 DEF HeldOK
<1>6. \A i, j \in InCollect(Tail(s)) : i = j
  BY <1>1, <1>3 DEF HeldOK
<1>. QED BY <1>4, <1>5, <1>6, Zenon DEF HeldOK

-----------------------------------------------------------------------------
(* The numbers of pointers. *)

(* There are finitely many members.                                        *)
LEMMA FiniteEdge == IsFiniteSet(Edge)
  BY FiniteAssumption, FS_Product DEF Edge

Counts(o) == /\ Cardinality(VarsTo(o)) \in Nat
             /\ Cardinality(EdgesTo(o)) \in Nat

(* The pointers to an object can be counted.                               *)
LEMMA CountsAreNat ==
  ASSUME TypeOK, NEW o \in Obj
  PROVE  Counts(o)
<1>1. IsFiniteSet(VarsTo(o))
  BY FiniteAssumption, FS_Subset, VarsTo(o) \in SUBSET Var DEF VarsTo
<1>2. IsFiniteSet(EdgesTo(o))
  BY FiniteEdge, FS_Subset, EdgesTo(o) \in SUBSET Edge DEF EdgesTo
<1>. QED BY <1>1, <1>2, FS_CardinalityType DEF Counts

(* What an assignment to a variable does to the count.                     *)
LEMMA VarCount ==
  ASSUME TypeOK, NEW v \in Var, NEW q \in ObjOrNull, var' = [var EXCEPT ![v] = q]
  PROVE  \A o \in Obj : Cardinality(VarsTo(o)') =
            Cardinality(VarsTo(o)) + Hit(q, o) - Hit(var[v], o)
<1> TAKE o \in Obj
<1>1. var \in [Var -> ObjOrNull]
  BY DEF TypeOK
<1>2. VarsTo(o)' = {x \in Var : [var EXCEPT ![v] = q][x] = o}
  BY DEF VarsTo
<1>. QED BY <1>1, <1>2, CountExcept, FiniteAssumption DEF VarsTo

(* What an assignment to a member does to the count.                       *)
LEMMA EdgeCount ==
  ASSUME TypeOK, NEW e \in Edge, NEW q \in ObjOrNull, child' = [child EXCEPT ![e] = q]
  PROVE  \A o \in Obj : Cardinality(EdgesTo(o)') =
            Cardinality(EdgesTo(o)) + Hit(q, o) - Hit(child[e], o)
<1> TAKE o \in Obj
<1>1. child \in [Edge -> ObjOrNull]
  BY DEF TypeOK
<1>2. EdgesTo(o)' = {x \in Edge : [child EXCEPT ![e] = q][x] = o}
  BY DEF EdgesTo
<1>. QED BY <1>1, <1>2, CountExcept, FiniteEdge DEF EdgesTo

(* Whoever holds a pointer to an object keeps its count above zero.        *)
LEMMA PointedToIsCounted ==
  ASSUME TypeOK, RefCountExact, NEW o \in Obj,
         \/ \E v \in Var : var[v] = o
         \/ \E e \in Edge : child[e] = o
         \/ o \in held
         \/ ref = o
  PROVE  refs[o] >= 1
<1>1. Counts(o)
  BY CountsAreNat
<1>2. ASSUME NEW v \in Var, var[v] = o
      PROVE  Cardinality(VarsTo(o)) >= 1
  <2>1. VarsTo(o) # {} /\ IsFiniteSet(VarsTo(o))
    BY <1>2, FiniteAssumption, FS_Subset, VarsTo(o) \in SUBSET Var DEF VarsTo
  <2>. QED BY <1>1, <2>1, FS_EmptySet DEF Counts
<1>3. ASSUME NEW e \in Edge, child[e] = o
      PROVE  Cardinality(EdgesTo(o)) >= 1
  <2>1. EdgesTo(o) # {} /\ IsFiniteSet(EdgesTo(o))
    BY <1>3, FiniteEdge, FS_Subset, EdgesTo(o) \in SUBSET Edge DEF EdgesTo
  <2>. QED BY <1>1, <2>1, FS_EmptySet DEF Counts
<1>4. refs[o] = Cardinality(VarsTo(o)) + Cardinality(EdgesTo(o))
               + (IF o \in held THEN 1 ELSE 0) + (IF ref = o THEN 1 ELSE 0)
  BY DEF RefCountExact
<1>. QED BY <1>1, <1>2, <1>3, <1>4 DEF Counts

-----------------------------------------------------------------------------
(* What one addRef, one release and one assignment do to the bookkeeping.  *)

(* An object with references is on the collector's list.                   *)
Listed(cnt, objs) == \A o \in Obj : cnt[o] >= 1 => o \in objs

IInv ==
  /\ TypeOK
  /\ RefCountExact
  /\ Listed(refs, objects)
  /\ HeldOK(stack, held, collecting)

(* The types of everything a release writes.                               *)
BookTyped ==
  /\ refs' \in [Obj -> Nat]
  /\ objects' \in SUBSET Obj
  /\ cycleRoots' \in SUBSET Obj
  /\ numRoots' \in Nat
  /\ stack' \in Seq(Frames)

(* One release: types, the count, the list, and the stack.                 *)
LEMMA ReleaseStep ==
  ASSUME NEW o \in Obj, NEW cnt \in [Obj -> Nat], cnt[o] >= 1,
         NEW rts \in SUBSET Obj, NEW n \in Nat, NEW objs \in SUBSET Obj,
         NEW rest \in Seq(Frames), NEW h, NEW c \in BOOLEAN, HeldOK(rest, h, c),
         Listed(cnt, objs), ReleaseIn(o, cnt, rts, n, objs, rest)
  PROVE  /\ BookTyped
         /\ \A x \in Obj : refs'[x] = cnt[x] - Hit(o, x)
         /\ Listed(refs', objects')
         /\ HeldOK(stack', h, c)
<1>1. refs' = [cnt EXCEPT ![o] = @ - 1]
  BY DEF ReleaseIn
<1>2. refs' \in [Obj -> Nat] /\ \A x \in Obj : refs'[x] = cnt[x] - Hit(o, x)
  BY <1>1 DEF Hit
<1>3. /\ objects' \in SUBSET Obj
      /\ cycleRoots' \in SUBSET Obj
      /\ numRoots' \in Nat
  BY DEF ReleaseIn
<1>4. PICK f \in Frames : f.op \notin {"unlink", "free"} /\ stack' = <<f>> \o rest
  <2>1. Frame("dtor", {o}) \in Frames /\ Frame("check", {}) \in Frames
    BY DEF Frame, Frames
  <2>2. Frame("dtor", {o}).op = "dtor" /\ Frame("check", {}).op = "check"
    BY DEF Frame
  <2>. QED BY <2>1, <2>2 DEF ReleaseIn
<1>5. stack' \in Seq(Frames) /\ HeldOK(stack', h, c)
  BY <1>4, Push, PushHeld
<1>6. Listed(refs', objects')
  <2>1. CASE cnt[o] = 1
    <3>1. objects' = objs \ {o} /\ refs'[o] = 0
      BY <1>1, <2>1 DEF ReleaseIn
    <3>. QED BY <1>1, <3>1 DEF Listed
  <2>2. CASE cnt[o] # 1
    <3>1. objects' = objs
      BY <2>2 DEF ReleaseIn
    <3>. QED BY <1>1, <3>1 DEF Listed
  <2>. QED BY <2>1, <2>2
<1>. QED BY <1>2, <1>3, <1>5, <1>6 DEF BookTyped

(* The counts after addRef are numbers.                                    *)
LEMMA AddRefTyped ==
  ASSUME NEW cnt \in [Obj -> Nat], NEW S \in SUBSET Obj
  PROVE  AfterAddRef(cnt, S) \in [Obj -> Nat]
  BY DEF AfterAddRef

(* The estimate stays a number, however often it is lowered.               *)
LEMMA FewerTyped ==
  ASSUME NEW n \in Nat, NEW S, IsFiniteSet(S)
  PROVE  FewerRoots(n, Cardinality(S)) \in Nat
  BY FS_CardinalityType DEF FewerRoots

(* One assignment: addRef, then release.                                   *)
LEMMA RepointStep ==
  ASSUME TypeOK, NEW q \in ObjOrNull, NEW old \in ObjOrNull,
         old # NULL => refs[old] >= 1,
         NEW objs \in SUBSET Obj, NEW rest \in Seq(Frames),
         NEW h, NEW c \in BOOLEAN, HeldOK(rest, h, c),
         Listed(refs, objs), q \in objs \cup {NULL},
         Repoint(q, old, objs, rest)
  PROVE  /\ BookTyped
         /\ \A x \in Obj : refs'[x] = refs[x] + Hit(q, x) - Hit(old, x)
         /\ Listed(refs', objects')
         /\ HeldOK(stack', h, c)
<1> DEFINE S == {q} \ {NULL}
           cnt == AfterAddRef(refs, S)
           rts == cycleRoots \ S
           n == FewerRoots(numRoots, Cardinality(S))
<1>1. S \in SUBSET Obj
  BY DEF ObjOrNull
<1>2. IsFiniteSet(S)
  BY FS_Singleton, FS_EmptySet, FS_Subset, S \in SUBSET {q}, IsFiniteSet({q})
<1>3. cnt \in [Obj -> Nat] /\ rts \in SUBSET Obj /\ n \in Nat
  BY <1>1, <1>2, AddRefTyped, FewerTyped DEF TypeOK
<1>4. \A x \in Obj : cnt[x] = refs[x] + Hit(q, x)
  BY NullAssumption DEF AfterAddRef, Hit, TypeOK
<1>7. \A x \in Obj : refs[x] \in Nat /\ Hit(q, x) \in {0, 1} /\ Hit(old, x) \in {0, 1}
  BY DEF TypeOK, Hit
<1>8. /\ old = NULL => /\ refs' = cnt /\ cycleRoots' = rts /\ numRoots' = n
                       /\ objects' = objs /\ stack' = rest
      /\ old # NULL => ReleaseIn(old, cnt, rts, n, objs, rest)
  BY DEF Repoint
<1> HIDE DEF S, cnt, rts, n
<1>9. Listed(cnt, objs)
  BY <1>4, <1>7, NullAssumption DEF Listed, Hit
<1>5. CASE old = NULL
  <2>1. refs' = cnt /\ cycleRoots' = rts /\ numRoots' = n /\ objects' = objs /\ stack' = rest
    BY <1>5, <1>8
  <2>2. \A x \in Obj : Hit(old, x) = 0
    BY <1>5, NullAssumption DEF Hit
  <2>3. \A x \in Obj : refs'[x] \in Nat /\ refs'[x] = refs[x] + Hit(q, x) - Hit(old, x)
    BY <1>3, <1>4, <1>7, <2>1, <2>2
  <2>. QED BY <1>3, <1>9, <2>1, <2>3 DEF BookTyped
<1>6. CASE old # NULL
  <2>1. old \in Obj /\ ReleaseIn(old, cnt, rts, n, objs, rest)
    BY <1>6, <1>8 DEF ObjOrNull
  <2>2. cnt[old] >= 1
    BY <1>4, <1>6, <1>7, <2>1
  <2>3. /\ BookTyped
        /\ \A x \in Obj : refs'[x] = cnt[x] - Hit(old, x)
        /\ Listed(refs', objects')
        /\ HeldOK(stack', h, c)
    BY <1>3, <1>9, <2>1, <2>2, ReleaseStep
  <2>. QED BY <1>4, <1>7, <2>3
<1>. QED BY <1>5, <1>6

(* An assignment through Repoint to a variable of the program.             *)
LEMMA VarAssigned ==
  ASSUME IInv, NEW v \in Var, NEW q \in ObjOrNull, NEW objs \in SUBSET Obj,
         objects \subseteq objs, q \in objs \cup {NULL},
         Repoint(q, var[v], objs, stack), var' = [var EXCEPT ![v] = q],
         UNCHANGED <<child, held, ref, collecting, closed>>
  PROVE  IInv'
<1> DEFINE old == var[v]
<1>1. old \in ObjOrNull /\ (old # NULL => refs[old] >= 1)
  BY PointedToIsCounted DEF IInv, TypeOK, ObjOrNull
<1>2. stack \in Seq(Frames) /\ HeldOK(stack, held, collecting) /\ collecting \in BOOLEAN
  BY DEF IInv, TypeOK
<1>6. TypeOK /\ Repoint(q, old, objs, stack) /\ Listed(refs, objs)
  BY DEF IInv, Listed
<1> HIDE DEF old
<1>3. /\ BookTyped
      /\ \A x \in Obj : refs'[x] = refs[x] + Hit(q, x) - Hit(old, x)
      /\ Listed(refs', objects')
      /\ HeldOK(stack', held, collecting)
  BY <1>1, <1>2, <1>6, RepointStep
<1>4. TypeOK'
  BY <1>3 DEF IInv, TypeOK, BookTyped
<1>5. ASSUME NEW o \in Obj
      PROVE  refs'[o] = Cardinality(VarsTo(o)') + Cardinality(EdgesTo(o)')
               + (IF o \in held' THEN 1 ELSE 0) + (IF ref' = o THEN 1 ELSE 0)
  <2>1. Cardinality(VarsTo(o)') = Cardinality(VarsTo(o)) + Hit(q, o) - Hit(old, o)
    BY VarCount DEF IInv, old
  <2>2. EdgesTo(o)' = EdgesTo(o)
    BY DEF EdgesTo
  <2>3. Counts(o) /\ Hit(q, o) \in Nat /\ Hit(old, o) \in Nat
    BY CountsAreNat DEF IInv, Hit
  <2>. QED BY <1>3, <2>1, <2>2, <2>3 DEF IInv, RefCountExact, Counts
<1>. QED BY <1>3, <1>4, <1>5 DEF IInv, RefCountExact

(* The same for a member of an object.                                     *)
LEMMA MemberAssigned ==
  ASSUME IInv, NEW e \in Edge, NEW q \in ObjOrNull, q \in objects \cup {NULL},
         Repoint(q, child[e], objects, stack),
         child' = [child EXCEPT ![e] = q],
         UNCHANGED <<var, held, ref, collecting, closed>>
  PROVE  IInv'
<1> DEFINE old == child[e]
<1>1. old \in ObjOrNull /\ (old # NULL => refs[old] >= 1)
  BY PointedToIsCounted DEF IInv, TypeOK, ObjOrNull
<1>2. stack \in Seq(Frames) /\ HeldOK(stack, held, collecting) /\ collecting \in BOOLEAN
      /\ objects \in SUBSET Obj
  BY DEF IInv, TypeOK
<1>6. TypeOK /\ Repoint(q, old, objects, stack) /\ Listed(refs, objects)
  BY DEF IInv
<1> HIDE DEF old
<1>3. /\ BookTyped
      /\ \A x \in Obj : refs'[x] = refs[x] + Hit(q, x) - Hit(old, x)
      /\ Listed(refs', objects')
      /\ HeldOK(stack', held, collecting)
  BY <1>1, <1>2, <1>6, RepointStep
<1>4. TypeOK'
  BY <1>3 DEF IInv, TypeOK, BookTyped
<1>5. ASSUME NEW o \in Obj
      PROVE  refs'[o] = Cardinality(VarsTo(o)') + Cardinality(EdgesTo(o)')
               + (IF o \in held' THEN 1 ELSE 0) + (IF ref' = o THEN 1 ELSE 0)
  <2>1. Cardinality(EdgesTo(o)') = Cardinality(EdgesTo(o)) + Hit(q, o) - Hit(old, o)
    BY EdgeCount DEF IInv, old
  <2>2. VarsTo(o)' = VarsTo(o)
    BY DEF VarsTo
  <2>3. Counts(o) /\ Hit(q, o) \in Nat /\ Hit(old, o) \in Nat
    BY CountsAreNat DEF IInv, Hit
  <2>. QED BY <1>3, <2>1, <2>2, <2>3 DEF IInv, RefCountExact, Counts
<1>. QED BY <1>3, <1>4, <1>5 DEF IInv, RefCountExact

(* A member that is reset while a call is running.                         *)
LEMMA MemberDropped ==
  ASSUME IInv, NEW e \in Edge, child[e] # NULL, Drop(child[e], stack),
         child' = [child EXCEPT ![e] = NULL],
         UNCHANGED <<var, held, ref, collecting, closed>>
  PROVE  IInv'
<1> DEFINE old == child[e]
<1>1. old \in Obj /\ refs[old] >= 1
  BY PointedToIsCounted DEF IInv, TypeOK, ObjOrNull
<1>2. /\ stack \in Seq(Frames) /\ HeldOK(stack, held, collecting)
      /\ collecting \in BOOLEAN /\ objects \in SUBSET Obj /\ numRoots \in Nat
      /\ cycleRoots \in SUBSET Obj /\ refs \in [Obj -> Nat]
      /\ Listed(refs, objects)
  BY DEF IInv, TypeOK
<1>3. ReleaseIn(old, refs, cycleRoots, numRoots, objects, stack)
  BY DEF Drop
<1> HIDE DEF old
<1>4. /\ BookTyped
      /\ \A x \in Obj : refs'[x] = refs[x] - Hit(old, x)
      /\ Listed(refs', objects')
      /\ HeldOK(stack', held, collecting)
  BY <1>1, <1>2, <1>3, ReleaseStep
<1>5. TypeOK'
  BY <1>4 DEF IInv, TypeOK, BookTyped, ObjOrNull
<1>6. ASSUME NEW o \in Obj
      PROVE  refs'[o] = Cardinality(VarsTo(o)') + Cardinality(EdgesTo(o)')
               + (IF o \in held' THEN 1 ELSE 0) + (IF ref' = o THEN 1 ELSE 0)
  <2>1. Cardinality(EdgesTo(o)') = Cardinality(EdgesTo(o)) + Hit(NULL, o) - Hit(old, o)
    BY EdgeCount DEF IInv, old, ObjOrNull
  <2>2. VarsTo(o)' = VarsTo(o)
    BY DEF VarsTo
  <2>3. Counts(o) /\ Hit(NULL, o) = 0 /\ Hit(old, o) \in Nat
    BY CountsAreNat, NullAssumption DEF IInv, Hit
  <2>. QED BY <1>4, <2>1, <2>2, <2>3 DEF IInv, RefCountExact, Counts
<1>. QED BY <1>4, <1>5, <1>6 DEF IInv, RefCountExact

-----------------------------------------------------------------------------
(* What can be reached lies in every closed set that contains the start.   *)
LEMMA ReachInLeast ==
  ASSUME NEW g, NEW R, NEW T \in SUBSET Obj, R \subseteq T, Closed(g, T)
  PROVE  ReachIn(g, R) \subseteq T
  BY DEF ReachIn

(* What can be reached is closed under links.                              *)
LEMMA ReachInClosed ==
  ASSUME NEW g, NEW R
  PROVE  /\ ReachIn(g, R) \in SUBSET Obj
         /\ \A o \in R : o \in Obj => o \in ReachIn(g, R)
         /\ \A o \in ReachIn(g, R), s \in Slot :
               g[<<o, s>>] \in Obj => g[<<o, s>>] \in ReachIn(g, R)
<1>1. ReachIn(g, R) \in SUBSET Obj /\ \A o \in R : o \in Obj => o \in ReachIn(g, R)
  BY DEF ReachIn
<1>2. ASSUME NEW o \in ReachIn(g, R), NEW s \in Slot, g[<<o, s>>] \in Obj,
             NEW T \in SUBSET Obj, R \subseteq T, Closed(g, T)
      PROVE  g[<<o, s>>] \in T
  BY <1>2, NullAssumption DEF ReachIn, Closed
<1>. QED BY <1>1, <1>2 DEF ReachIn

(* Nothing that is reachable or pointed to is off the collector's list.    *)
LEMMA PointedToIsListed ==
  ASSUME IInv
  PROVE  /\ Pointees(var) \subseteq objects
         /\ Pointees(child) \subseteq objects
         /\ held \subseteq objects
         /\ ref # NULL => ref \in objects
         /\ Closed(child, objects)
<1>1. \A o \in Obj : refs[o] >= 1 => o \in objects
  BY DEF IInv, Listed
<1>2. TypeOK /\ RefCountExact
  BY DEF IInv
<1>3. Pointees(var) \subseteq objects
  <2> SUFFICES ASSUME NEW v \in Var, var[v] # NULL
               PROVE  var[v] \in objects
    BY <1>2 DEF Pointees, TypeOK
  <2>1. var[v] \in Obj
    BY <1>2 DEF TypeOK, ObjOrNull
  <2>. QED BY <1>1, <1>2, <2>1, PointedToIsCounted
<1>4. Pointees(child) \subseteq objects
  <2> SUFFICES ASSUME NEW e \in Edge, child[e] # NULL
               PROVE  child[e] \in objects
    BY <1>2 DEF Pointees, TypeOK
  <2>1. child[e] \in Obj
    BY <1>2 DEF TypeOK, ObjOrNull
  <2>. QED BY <1>1, <1>2, <2>1, PointedToIsCounted
<1>5. held \subseteq objects
  <2> SUFFICES ASSUME NEW o \in held
               PROVE  o \in objects
    OBVIOUS
  <2>1. o \in Obj
    BY <1>2 DEF TypeOK
  <2>. QED BY <1>1, <1>2, <2>1, PointedToIsCounted
<1>6. ref # NULL => ref \in objects
  <2> SUFFICES ASSUME ref # NULL
               PROVE  ref \in objects
    OBVIOUS
  <2>1. ref \in Obj
    BY <1>2 DEF TypeOK, ObjOrNull
  <2>. QED BY <1>1, <1>2, <2>1, PointedToIsCounted
<1>7. Closed(child, objects)
  <2> SUFFICES ASSUME NEW o \in objects, NEW s \in Slot, child[<<o, s>>] # NULL
               PROVE  child[<<o, s>>] \in objects
    BY DEF Closed
  <2>1. <<o, s>> \in Edge /\ DOMAIN child = Edge
    BY <1>2 DEF TypeOK, Edge
  <2>. QED BY <1>4, <2>1 DEF Pointees
<1>. QED BY <1>3, <1>4, <1>5, <1>6, <1>7

(* What the program can reach is on the list.                              *)
LEMMA LiveIsListed ==
  ASSUME IInv
  PROVE  Live \subseteq objects
  BY PointedToIsListed, ReachInLeast DEF Live, IInv, TypeOK

(* So is what a collection visits and takes.                               *)
LEMMA GarbageIsListed ==
  ASSUME IInv
  PROVE  GcMap \subseteq objects /\ Garbage \subseteq objects /\ Garbage \subseteq Obj
  BY PointedToIsListed, ReachInLeast DEF GcMap, Garbage, IInv, TypeOK

-----------------------------------------------------------------------------
(* The garbage vector takes its references.                                *)
LEMMA CollectStep ==
  ASSUME IInv, Collect
  PROVE  IInv'
<1>1. stack # <<>> /\ stack \in Seq(Frames) /\ HeldOK(stack, held, collecting)
      /\ Head(stack).op = "collect"
  BY DEF IInv, TypeOK, Collect, At, Top
<1>2. HeldOK(Rest, held, collecting) /\ Rest \in Seq(Frames) /\ collecting \in BOOLEAN
  BY <1>1, Pop, PopHeld DEF Rest, IInv, TypeOK
<1>3. /\ \A o \in Obj : VarsTo(o)' = VarsTo(o) /\ EdgesTo(o)' = EdgesTo(o)
      /\ UNCHANGED <<objects, var, child, ref, closed>>
  BY DEF Collect, VarsTo, EdgesTo
<1>4. CASE stack' = Rest /\ UNCHANGED <<refs, cycleRoots, held, numRoots, collecting>>
  <2>1. TypeOK'
    BY <1>2, <1>3, <1>4 DEF IInv, TypeOK
  <2>2. RefCountExact'
    BY <1>3, <1>4 DEF IInv, RefCountExact
  <2>3. HeldOK(stack, held, collecting)'
    BY <1>2, <1>4
  <2>. QED BY <1>3, <1>4, <2>1, <2>2, <2>3 DEF IInv, Listed
<1>5. CASE /\ ~collecting
           /\ collecting' = TRUE
           /\ held' = held \cup Garbage
           /\ refs' = AfterAddRef(refs, Garbage)
           /\ cycleRoots' = cycleRoots \ Garbage
           /\ numRoots' = FewerRoots(numRoots, Cardinality(Garbage))
           /\ stack' = <<Frame("unlink", Garbage)>> \o Rest
  <2>1. Garbage \subseteq Obj /\ Garbage \subseteq objects /\ IsFiniteSet(Garbage)
    BY GarbageIsListed, FiniteAssumption, FS_Subset
  <2>2. held = {} /\ held' = Garbage /\ InCollect(Rest) = {}
    BY <1>2, <1>5 DEF HeldOK
  <2>3. Frame("unlink", Garbage) \in Frames /\ Frame("unlink", Garbage).op = "unlink"
        /\ Frame("unlink", Garbage).objs = Garbage
    BY <2>1 DEF Frame, Frames
  <2>4. InCollect(stack') = {1}
    <3>1. /\ Len(stack') = Len(Rest) + 1 /\ Len(Rest) \in Nat
          /\ stack'[1] = Frame("unlink", Garbage)
          /\ \A i \in 1..Len(Rest) : stack'[i + 1] = Rest[i]
      BY <1>2, <1>5, <2>3, Push
    <3>2. \A i \in 1..Len(Rest) : Rest[i].op \notin {"unlink", "free"}
      BY <2>2 DEF InCollect
    <3>3. ASSUME NEW i \in 1..Len(stack'), i # 1
          PROVE  stack'[i].op \notin {"unlink", "free"}
      <4>1. i - 1 \in 1..Len(Rest) /\ stack'[i] = Rest[i - 1]
        BY <3>1, <3>3
      <4>. QED BY <3>2, <4>1
    <3>. QED BY <2>3, <3>1, <3>3 DEF InCollect
  <2>5. stack' \in Seq(Frames) /\ stack'[1] = Frame("unlink", Garbage)
    BY <1>2, <1>5, <2>3, Push
  <2>6. HeldOK(stack, held, collecting)'
    BY <1>5, <2>2, <2>3, <2>4, <2>5 DEF HeldOK
  <2>7. refs' \in [Obj -> Nat] /\ numRoots' \in Nat
    BY <1>5, <2>1, AddRefTyped, FewerTyped DEF IInv, TypeOK
  <2>8. TypeOK'
    BY <1>3, <1>5, <2>1, <2>2, <2>5, <2>7 DEF IInv, TypeOK
  <2>9. ASSUME NEW o \in Obj
        PROVE  refs'[o] = Cardinality(VarsTo(o)') + Cardinality(EdgesTo(o)')
                 + (IF o \in held' THEN 1 ELSE 0) + (IF ref' = o THEN 1 ELSE 0)
    <3>1. refs'[o] = refs[o] + (IF o \in Garbage THEN 1 ELSE 0)
      BY <1>5 DEF AfterAddRef, IInv, TypeOK
    <3>2. Counts(o)
      BY CountsAreNat DEF IInv
    <3>3. refs[o] = Cardinality(VarsTo(o)) + Cardinality(EdgesTo(o)) + 0
                    + (IF ref = o THEN 1 ELSE 0)
      BY <2>2 DEF IInv, RefCountExact
    <3>. QED BY <1>3, <2>2, <3>1, <3>2, <3>3 DEF Counts
  <2>10. Listed(refs, objects)'
    BY <1>3, <1>5, <2>1 DEF Listed, AfterAddRef, IInv, TypeOK
  <2>. QED BY <2>6, <2>8, <2>9, <2>10 DEF IInv, RefCountExact
<1>. QED BY <1>4, <1>5 DEF Collect

(* The head of the stack is replaced while the collection goes on.         *)
LEMMA ReplaceHead ==
  ASSUME NEW s \in Seq(Frames), s # <<>>, NEW f \in Frames,
         Head(s).op \in {"unlink", "free"}, f.op = "free",
         NEW h, HeldOK(s, h, TRUE)
  PROVE  /\ <<f>> \o Tail(s) \in Seq(Frames)
         /\ HeldOK(<<f>> \o Tail(s), f.objs, TRUE)
<1> DEFINE t == <<f>> \o Tail(s)
<1>1. /\ t \in Seq(Frames) /\ Len(t) = Len(s) /\ t[1] = f /\ Len(s) \in Nat \ {0}
      /\ \A i \in 2..Len(s) : t[i] = s[i]
  <2>1. /\ Tail(s) \in Seq(Frames) /\ Len(Tail(s)) = Len(s) - 1 /\ Len(s) \in Nat \ {0}
        /\ \A i \in 1..Len(Tail(s)) : Tail(s)[i] = s[i + 1]
    BY Pop
  <2>2. /\ t \in Seq(Frames) /\ Len(t) = Len(s) /\ t[1] = f
        /\ \A i \in 1..Len(Tail(s)) : t[i + 1] = Tail(s)[i]
    BY <2>1, Push
  <2>3. ASSUME NEW i \in 2..Len(s)
        PROVE  t[i] = s[i]
    <3>1. i - 1 \in 1..Len(Tail(s)) /\ (i - 1) + 1 = i
      BY <2>1
    <3>. QED BY <2>1, <2>2, <3>1
  <2>. QED BY <2>1, <2>2, <2>3
<1>2. 1 \in InCollect(s)
  BY <1>1, Pop DEF InCollect
<1>3. \A i \in 2..Len(s) : s[i].op \notin {"unlink", "free"}
  BY <1>1, <1>2 DEF HeldOK, InCollect
<1> HIDE DEF t
<1>4. InCollect(t) = {1}
  BY <1>1, <1>3 DEF InCollect
<1>5. HeldOK(t, f.objs, TRUE)
  BY <1>1, <1>4 DEF HeldOK
<1>. QED BY <1>1, <1>5 DEF t

(* A step that only works on the stack.                                    *)
LEMMA StackStep ==
  ASSUME IInv, stack' \in Seq(Frames), closed' \in BOOLEAN,
         HeldOK(stack', held, collecting),
         UNCHANGED <<objects, refs, cycleRoots, var, child, held, ref, numRoots,
                     collecting>>
  PROVE  IInv'
<1>1. TypeOK'
  BY DEF IInv, TypeOK
<1>2. \A o \in Obj : VarsTo(o)' = VarsTo(o) /\ EdgesTo(o)' = EdgesTo(o)
  BY DEF VarsTo, EdgesTo
<1>3. RefCountExact'
  BY <1>2 DEF IInv, RefCountExact
<1>4. Listed(refs, objects)'
  BY DEF IInv, Listed
<1>5. HeldOK(stack, held, collecting)'
  OBVIOUS
<1>. QED BY <1>1, <1>3, <1>4, <1>5 DEF IInv

(* The frames that calls push.                                             *)
LEMMA PushedFrames ==
  /\ \A op \in {"check", "collect", "dtor", "teardown", "clear"}, S \in SUBSET Obj :
        /\ Frame(op, S) \in Frames
        /\ Frame(op, S).op \notin {"unlink", "free"}
  /\ \A S \in SUBSET Obj :
        /\ Frame("free", S) \in Frames
        /\ Frame("free", S).op = "free"
        /\ Frame("free", S).objs = S
  BY DEF Frame, Frames

(* The frames that a call pushes keep the stack in order.                  *)
LEMMA PushFrame ==
  ASSUME NEW op \in {"check", "collect", "dtor", "teardown", "clear"},
         NEW S \in SUBSET Obj, NEW s \in Seq(Frames), NEW h, NEW c \in BOOLEAN,
         HeldOK(s, h, c)
  PROVE  /\ <<Frame(op, S)>> \o s \in Seq(Frames)
         /\ HeldOK(<<Frame(op, S)>> \o s, h, c)
<1> DEFINE f == Frame(op, S)
<1>1. f \in Frames /\ f.op \notin {"unlink", "free"}
  BY PushedFrames
<1> HIDE DEF f
<1>2. <<f>> \o s \in Seq(Frames) /\ HeldOK(<<f>> \o s, h, c)
  BY <1>1, Push, PushHeld
<1>. QED BY <1>2 DEF f

(* While the program runs, no collection is under way.                     *)
LEMMA IdleHeld ==
  ASSUME IInv, Running
  PROVE  /\ stack \in Seq(Frames) /\ HeldOK(stack, held, collecting)
         /\ collecting \in BOOLEAN /\ stack = <<>> /\ ~closed
         /\ held = {} /\ ~collecting
<1>1. stack \in Seq(Frames) /\ HeldOK(stack, held, collecting) /\ stack = <<>>
      /\ collecting \in BOOLEAN /\ ~closed
  BY DEF IInv, TypeOK, Running
<1>2. InCollect(stack) = {}
  BY <1>1 DEF InCollect
<1>3. ~collecting
  BY <1>1, <1>2, Zenon DEF HeldOK
<1>4. held = {}
  BY <1>1, <1>3, Zenon DEF HeldOK
<1>. QED BY <1>1, <1>3, <1>4

(* The steps of the program keep the invariant.                            *)
LEMMA ProgramStep ==
  ASSUME IInv, Program
  PROVE  IInv'
<1>1. ASSUME NEW v \in Var, NEW o \in Obj, New(v, o)
      PROVE  IInv'
  <2>1. o \in ObjOrNull /\ objects \cup {o} \in SUBSET Obj
    BY DEF ObjOrNull, IInv, TypeOK
  <2>2. Repoint(o, var[v], objects \cup {o}, stack)
    BY <1>1, IdleHeld DEF New
  <2>3. UNCHANGED <<child, held, ref, collecting, closed>> /\ var' = [var EXCEPT ![v] = o]
    BY <1>1 DEF New
  <2>. QED BY <2>1, <2>2, <2>3, VarAssigned
<1>2. ASSUME NEW v \in Var, NEW q \in ObjOrNull, AssignVar(v, q)
      PROVE  IInv'
  <2>1. objects \in SUBSET Obj /\ q \in objects \cup {NULL}
    BY <1>2, LiveIsListed DEF AssignVar, IInv, TypeOK
  <2>2. Repoint(q, var[v], objects, stack)
    BY <1>2, IdleHeld DEF AssignVar
  <2>3. UNCHANGED <<child, held, ref, collecting, closed>> /\ var' = [var EXCEPT ![v] = q]
    BY <1>2 DEF AssignVar
  <2>. QED BY <2>1, <2>2, <2>3, VarAssigned
<1>3. ASSUME NEW o \in Obj, NEW s \in Slot, NEW q \in ObjOrNull, AssignMember(o, s, q)
      PROVE  IInv'
  <2>1. <<o, s>> \in Edge /\ q \in objects \cup {NULL}
    BY <1>3, LiveIsListed DEF AssignMember, Edge
  <2>2. Repoint(q, child[<<o, s>>], objects, stack)
    BY <1>3, IdleHeld DEF AssignMember
  <2>3. UNCHANGED <<var, held, ref, collecting, closed>>
        /\ child' = [child EXCEPT ![<<o, s>>] = q]
    BY <1>3 DEF AssignMember
  <2>. QED BY <2>1, <2>2, <2>3, MemberAssigned
<1>4. ASSUME CallCollect
      PROVE  IInv'
  <2>1. stack' = <<Frame("collect", {})>> \o stack
    BY <1>4, IdleHeld, PushedFrames DEF CallCollect
  <2>4. stack \in Seq(Frames) /\ HeldOK(stack, held, collecting) /\ collecting \in BOOLEAN
    BY <1>4, IdleHeld DEF CallCollect
  <2>2. stack' \in Seq(Frames) /\ HeldOK(stack', held, collecting)
    BY <2>1, <2>4, PushFrame
  <2>3. closed' \in BOOLEAN /\ UNCHANGED <<objects, refs, cycleRoots, var, child,
                                          held, ref, numRoots, collecting>>
    BY <1>4 DEF CallCollect, IInv, TypeOK
  <2>. QED BY <2>2, <2>3, StackStep
<1>5. ASSUME Close
      PROVE  IInv'
  <2>1. stack' = <<Frame("teardown", objects)>> \o stack /\ objects \in SUBSET Obj
    BY <1>5, IdleHeld, PushedFrames DEF Close, IInv, TypeOK
  <2>4. stack \in Seq(Frames) /\ HeldOK(stack, held, collecting) /\ collecting \in BOOLEAN
    BY <1>5, IdleHeld DEF Close
  <2>2. stack' \in Seq(Frames) /\ HeldOK(stack', held, collecting)
    BY <2>1, <2>4, PushFrame
  <2>3. closed' \in BOOLEAN /\ UNCHANGED <<objects, refs, cycleRoots, var, child,
                                          held, ref, numRoots, collecting>>
    BY <1>5 DEF Close
  <2>. QED BY <2>2, <2>3, StackStep
<1>. QED BY <1>1, <1>2, <1>3, <1>4, <1>5 DEF Program

(* What the running call is, and which collection it belongs to.           *)
LEMMA TopFrame ==
  ASSUME IInv, NEW op, At(op)
  PROVE  /\ stack \in Seq(Frames) /\ stack # <<>> /\ Head(stack) = Top
         /\ Top \in Frames /\ Top.op = op /\ Top.objs \in SUBSET Obj
         /\ Rest \in Seq(Frames) /\ Rest = Tail(stack)
         /\ HeldOK(stack, held, collecting) /\ collecting \in BOOLEAN
         /\ op \notin {"unlink", "free"} => HeldOK(Rest, held, collecting)
         /\ op \in {"unlink", "free"} => Top.objs = held /\ collecting = TRUE
<1>1. stack \in Seq(Frames) /\ stack # <<>> /\ Head(stack) = Top /\ Top.op = op
      /\ Rest = Tail(stack) /\ HeldOK(stack, held, collecting) /\ collecting \in BOOLEAN
  BY DEF IInv, TypeOK, At, Top, Rest
<1>2. Rest \in Seq(Frames) /\ Top \in Frames /\ Top.objs \in SUBSET Obj
  BY <1>1, Pop DEF Frames
<1>3. op \notin {"unlink", "free"} => HeldOK(Rest, held, collecting)
  BY <1>1, PopHeld
<1>4. ASSUME op \in {"unlink", "free"}
      PROVE  Top.objs = held /\ collecting = TRUE
  <2>1. 1 \in InCollect(stack) /\ stack[1] = Top
    BY <1>1, <1>4, Pop DEF InCollect
  <2>2. InCollect(stack) # {} /\ Top.objs = held
    BY <1>1, <2>1 DEF HeldOK
  <2>. QED BY <1>1, <2>2, Zenon DEF HeldOK
<1>. QED BY <1>1, <1>2, <1>3, <1>4

(* A running call that is not part of a collection.                        *)
LEMMA TopOther ==
  ASSUME IInv, NEW op \in {"check", "collect", "dtor", "teardown", "clear"}, At(op)
  PROVE  /\ Rest \in Seq(Frames) /\ HeldOK(Rest, held, collecting)
         /\ collecting \in BOOLEAN /\ Top.objs \in SUBSET Obj
<1>1. op \notin {"unlink", "free"}
  OBVIOUS
<1>. QED BY <1>1, TopFrame

(* The destructor's "ref" moves to q.                                      *)
LEMMA RefMoved ==
  ASSUME IInv, NEW q \in objects \cup {NULL}, NEW rest \in Seq(Frames),
         HeldOK(rest, held, collecting), Repoint(q, ref, objects, rest), ref' = q,
         UNCHANGED <<var, child, held, collecting, closed>>
  PROVE  IInv'
<1>1. /\ ref \in ObjOrNull /\ (ref # NULL => refs[ref] >= 1) /\ q \in ObjOrNull
      /\ objects \in SUBSET Obj /\ collecting \in BOOLEAN /\ TypeOK
      /\ Listed(refs, objects)
  BY PointedToIsCounted DEF IInv, TypeOK, ObjOrNull
<1>2. /\ BookTyped
      /\ \A x \in Obj : refs'[x] = refs[x] + Hit(q, x) - Hit(ref, x)
      /\ Listed(refs', objects')
      /\ HeldOK(stack', held, collecting)
  BY <1>1, RepointStep
<1>3. TypeOK'
  BY <1>1, <1>2 DEF TypeOK, BookTyped
<1>4. ASSUME NEW o \in Obj
      PROVE  refs'[o] = Cardinality(VarsTo(o)') + Cardinality(EdgesTo(o)')
               + (IF o \in held' THEN 1 ELSE 0) + (IF ref' = o THEN 1 ELSE 0)
  <2>1. VarsTo(o)' = VarsTo(o) /\ EdgesTo(o)' = EdgesTo(o)
    BY DEF VarsTo, EdgesTo
  <2>2. Counts(o)
    BY <1>1, CountsAreNat
  <2>3. refs[o] = Cardinality(VarsTo(o)) + Cardinality(EdgesTo(o))
                  + (IF o \in held THEN 1 ELSE 0) + Hit(ref, o)
    BY DEF IInv, RefCountExact, Hit
  <2>4. refs'[o] = refs[o] + Hit(q, o) - Hit(ref, o)
        /\ Hit(q, o) \in Nat /\ Hit(ref, o) \in Nat
    BY <1>2 DEF Hit
  <2>5. (IF ref' = o THEN 1 ELSE 0) = Hit(q, o)
    BY DEF Hit
  <2>. QED BY <2>1, <2>2, <2>3, <2>4, <2>5 DEF Counts
<1>5. HeldOK(stack, held, collecting)'
  BY <1>2
<1>. QED BY <1>2, <1>3, <1>4, <1>5 DEF IInv, RefCountExact

(* One reference of the garbage vector is released.                        *)
LEMMA FreeStep ==
  ASSUME IInv, NEW o \in Obj, FreeOne(o)
  PROVE  IInv'
<1> DEFINE f == Frame("free", Top.objs \ {o})
           rest == <<f>> \o Rest
<1>1. At("free") /\ o \in Top.objs
  BY DEF FreeOne
<1>2. /\ stack \in Seq(Frames) /\ stack # <<>> /\ Head(stack) = Top /\ Top.op = "free"
      /\ Top.objs \in SUBSET Obj /\ Rest = Tail(stack) /\ Top.objs = held
      /\ HeldOK(stack, held, TRUE) /\ collecting = TRUE
  BY <1>1, TopFrame
<1>3. f \in Frames /\ f.op = "free" /\ f.objs = held \ {o}
  BY <1>2, PushedFrames
<1> HIDE DEF f
<1>4. rest \in Seq(Frames) /\ HeldOK(rest, held \ {o}, TRUE)
  BY <1>2, <1>3, ReplaceHead
<1>5. /\ ReleaseIn(o, refs, cycleRoots, numRoots, objects, rest)
      /\ held' = held \ {o} /\ o \in held
      /\ UNCHANGED <<var, child, ref, collecting, closed>>
  BY <1>2 DEF FreeOne, Drop, f
<1> HIDE DEF rest
<1>6. /\ refs \in [Obj -> Nat] /\ refs[o] >= 1 /\ cycleRoots \in SUBSET Obj
      /\ numRoots \in Nat /\ objects \in SUBSET Obj /\ Listed(refs, objects)
  BY <1>5, PointedToIsCounted DEF IInv, TypeOK
<1>7. /\ BookTyped
      /\ \A x \in Obj : refs'[x] = refs[x] - Hit(o, x)
      /\ Listed(refs', objects')
      /\ HeldOK(stack', held \ {o}, TRUE)
  BY <1>4, <1>5, <1>6, ReleaseStep
<1>8. TypeOK'
  BY <1>5, <1>7 DEF IInv, TypeOK, BookTyped
<1>9. ASSUME NEW x \in Obj
      PROVE  refs'[x] = Cardinality(VarsTo(x)') + Cardinality(EdgesTo(x)')
               + (IF x \in held' THEN 1 ELSE 0) + (IF ref' = x THEN 1 ELSE 0)
  <2>1. VarsTo(x)' = VarsTo(x) /\ EdgesTo(x)' = EdgesTo(x) /\ ref' = ref
    BY <1>5 DEF VarsTo, EdgesTo
  <2>2. Counts(x)
    BY CountsAreNat DEF IInv
  <2>3. refs[x] = Cardinality(VarsTo(x)) + Cardinality(EdgesTo(x))
                  + (IF x \in held THEN 1 ELSE 0) + (IF ref = x THEN 1 ELSE 0)
    BY DEF IInv, RefCountExact
  <2>4. (IF x \in held' THEN 1 ELSE 0) = (IF x \in held THEN 1 ELSE 0) - Hit(o, x)
    BY <1>5 DEF Hit
  <2>5. refs'[x] = refs[x] - Hit(o, x) /\ Hit(o, x) \in Nat
    BY <1>7 DEF Hit
  <2>. QED BY <2>1, <2>2, <2>3, <2>4, <2>5 DEF Counts
<1>10. HeldOK(stack, held, collecting)'
  BY <1>2, <1>5, <1>7
<1>. QED BY <1>7, <1>8, <1>9, <1>10 DEF IInv, RefCountExact

(* The steps of the calls in progress keep the invariant.                  *)
LEMMA CallStep ==
  ASSUME IInv, Calls
  PROVE  IInv'
<1> DEFINE Others == <<objects, refs, cycleRoots, var, child, held, ref, numRoots,
                       collecting>>
<1>1. ASSUME Check
      PROVE  IInv'
  <2>1. /\ Rest \in Seq(Frames) /\ HeldOK(Rest, held, collecting)
        /\ collecting \in BOOLEAN
    <3>1. At("check")
      BY <1>1 DEF Check
    <3>. QED BY <3>1, TopOther
  <2>2. stack' = Rest \/ stack' = <<Frame("collect", {})>> \o Rest
    BY <1>1 DEF Check
  <2>3. stack' \in Seq(Frames) /\ HeldOK(stack', held, collecting)
    BY <2>1, <2>2, PushFrame
  <2>4. closed' \in BOOLEAN /\ UNCHANGED Others
    BY <1>1 DEF Check, IInv, TypeOK
  <2>. QED BY <2>3, <2>4, StackStep
<1>2. ASSUME NEW o \in Obj, NEW s \in Slot, DestroyMember(o, s) \/ UnlinkMember(o, s)
      PROVE  IInv'
  <2>1. <<o, s>> \in Edge /\ child[<<o, s>>] # NULL /\ Drop(child[<<o, s>>], stack)
        /\ child' = [child EXCEPT ![<<o, s>>] = NULL]
        /\ UNCHANGED <<var, held, ref, collecting, closed>>
    BY <1>2 DEF DestroyMember, UnlinkMember, Edge
  <2>. QED BY <2>1, MemberDropped
<1>3. ASSUME Destroyed
      PROVE  IInv'
  <2>1. /\ Rest \in Seq(Frames) /\ HeldOK(Rest, held, collecting)
        /\ collecting \in BOOLEAN
    <3>1. At("dtor")
      BY <1>3 DEF Destroyed
    <3>. QED BY <3>1, TopOther
  <2>2. stack' = <<Frame("check", {})>> \o Rest
    BY <1>3 DEF Destroyed
  <2>3. stack' \in Seq(Frames) /\ HeldOK(stack', held, collecting)
    BY <2>1, <2>2, PushFrame
  <2>4. closed' \in BOOLEAN /\ UNCHANGED Others
    BY <1>3 DEF Destroyed, IInv, TypeOK
  <2>. QED BY <2>3, <2>4, StackStep
<1>4. ASSUME Collect
      PROVE  IInv'
  BY <1>4, CollectStep
<1>5. ASSUME Unlinked
      PROVE  IInv'
  <2> DEFINE f == Frame("free", Top.objs)
  <2>1. /\ stack \in Seq(Frames) /\ stack # <<>> /\ Head(stack).op = "unlink"
        /\ Top.objs \in SUBSET Obj /\ Rest = Tail(stack) /\ Top.objs = held
        /\ HeldOK(stack, held, TRUE) /\ collecting = TRUE
    BY <1>5, TopFrame DEF Unlinked
  <2>2. f \in Frames /\ f.op = "free" /\ f.objs = held
    BY <2>1, PushedFrames
  <2>3. stack' = <<f>> \o Tail(stack)
    BY <1>5, <2>1 DEF Unlinked
  <2> HIDE DEF f
  <2>4. stack' \in Seq(Frames) /\ HeldOK(stack', held, TRUE)
    BY <2>1, <2>2, <2>3, ReplaceHead
  <2>5. stack' \in Seq(Frames) /\ HeldOK(stack', held, collecting)
    BY <2>1, <2>4
  <2>6. closed' \in BOOLEAN /\ UNCHANGED Others
    BY <1>5 DEF Unlinked, IInv, TypeOK
  <2>. QED BY <2>5, <2>6, StackStep
<1>6. ASSUME NEW o \in Obj, FreeOne(o)
      PROVE  IInv'
  BY <1>6, FreeStep
<1>7. ASSUME CollectDone
      PROVE  IInv'
  <2>1. /\ stack \in Seq(Frames) /\ stack # <<>> /\ Head(stack).op = "free"
        /\ Rest \in Seq(Frames) /\ Rest = Tail(stack)
        /\ HeldOK(stack, held, collecting) /\ held = {}
    BY <1>7, TopFrame DEF CollectDone
  <2>2. InCollect(Tail(stack)) = {}
    <3>1. 1 \in InCollect(stack)
      BY <2>1, Pop DEF InCollect
    <3>2. \A i \in InCollect(Tail(stack)) : i + 1 \in InCollect(stack) /\ i + 1 # 1
      BY <2>1, Pop DEF InCollect
    <3>. QED BY <2>1, <3>1, <3>2 DEF HeldOK
  <2>3. HeldOK(Rest, {}, FALSE)
    BY <2>1, <2>2 DEF HeldOK
  <2>4. stack' = Rest /\ collecting' = FALSE
        /\ UNCHANGED <<objects, refs, cycleRoots, var, child, held, ref, numRoots, closed>>
    BY <1>7 DEF CollectDone
  <2>5. TypeOK'
    BY <2>1, <2>4 DEF IInv, TypeOK
  <2>6. \A o \in Obj : VarsTo(o)' = VarsTo(o) /\ EdgesTo(o)' = EdgesTo(o)
    BY <2>4 DEF VarsTo, EdgesTo
  <2>7. RefCountExact' /\ Listed(refs, objects)'
    BY <2>4, <2>6 DEF IInv, RefCountExact, Listed
  <2>8. HeldOK(stack, held, collecting)'
    BY <2>1, <2>3, <2>4
  <2>. QED BY <2>5, <2>7, <2>8 DEF IInv
<1>8. ASSUME NEW o \in Obj, NextObject(o)
      PROVE  IInv'
  <2> DEFINE below == <<Frame("teardown", Top.objs \ {o})>> \o Rest
             rest == <<Frame("clear", {o})>> \o below
  <2>1. /\ Rest \in Seq(Frames) /\ HeldOK(Rest, held, collecting)
        /\ collecting \in BOOLEAN /\ Top.objs \in SUBSET Obj
    <3>1. At("teardown")
      BY <1>8 DEF NextObject
    <3>. QED BY <3>1, TopOther
  <2>a. Top.objs \ {o} \in SUBSET Obj /\ {o} \in SUBSET Obj
    BY <2>1
  <2>2. below \in Seq(Frames) /\ HeldOK(below, held, collecting)
    BY <2>1, <2>a, PushFrame
  <2> HIDE DEF below
  <2>3. rest \in Seq(Frames) /\ HeldOK(rest, held, collecting)
    BY <2>1, <2>2, <2>a, PushFrame
  <2>4. <<Frame("clear", {o}), Frame("teardown", Top.objs \ {o})>> \o Rest = rest
    BY <2>1, PushedFrames DEF below
  <2>5. Repoint(o, ref, objects, rest)
    BY <1>8, <2>4 DEF NextObject
  <2>6. o \in objects \cup {NULL} /\ ref' = o
        /\ UNCHANGED <<var, child, held, collecting, closed>>
    BY <1>8 DEF NextObject
  <2> HIDE DEF rest
  <2>. QED BY <2>3, <2>5, <2>6, RefMoved
<1>9. ASSUME Cleared
      PROVE  IInv'
  <2>1. Rest \in Seq(Frames) /\ HeldOK(Rest, held, collecting)
    <3>1. At("clear")
      BY <1>9 DEF Cleared
    <3>. QED BY <3>1, TopOther
  <2>2. stack' = Rest /\ closed' \in BOOLEAN /\ UNCHANGED Others
    BY <1>9 DEF Cleared, IInv, TypeOK
  <2>3. stack' \in Seq(Frames) /\ HeldOK(stack', held, collecting)
    BY <2>1, <2>2
  <2>. QED BY <2>2, <2>3, StackStep
<1>10. ASSUME ResetRef
       PROVE  IInv'
  <2>1. Rest \in Seq(Frames) /\ HeldOK(Rest, held, collecting)
    <3>1. At("teardown")
      BY <1>10 DEF ResetRef
    <3>. QED BY <3>1, TopOther
  <2>2. Repoint(NULL, ref, objects, Rest) /\ ref' = NULL
        /\ UNCHANGED <<var, child, held, collecting, closed>>
    BY <1>10 DEF ResetRef
  <2>. QED BY <2>1, <2>2, RefMoved
<1>. QED BY <1>1, <1>2, <1>3, <1>4, <1>5, <1>6, <1>7, <1>8, <1>9, <1>10 DEF Calls

-----------------------------------------------------------------------------
(* The invariant and what follows from it.                                 *)

(* The invariant holds at the start.                                       *)
LEMMA InitInv == Init => IInv
<1> SUFFICES ASSUME Init
             PROVE  IInv
  OBVIOUS
<1>1. TypeOK
  <2>1. refs \in [Obj -> Nat] /\ numRoots \in Nat
    BY DEF Init
  <2>2. var \in [Var -> ObjOrNull] /\ child \in [Edge -> ObjOrNull] /\ ref \in ObjOrNull
    BY DEF Init, ObjOrNull
  <2>3. /\ objects \subseteq Obj /\ cycleRoots \subseteq Obj /\ held \subseteq Obj
        /\ collecting \in BOOLEAN /\ closed \in BOOLEAN
    BY DEF Init
  <2>4. stack \in Seq(Frames)
    BY DEF Init
  <2>. QED BY <2>1, <2>2, <2>3, <2>4 DEF TypeOK
<1>2. ASSUME NEW o \in Obj
      PROVE  Cardinality(VarsTo(o)) = 0 /\ Cardinality(EdgesTo(o)) = 0
  <2>1. VarsTo(o) = {} /\ EdgesTo(o) = {}
    BY NullAssumption DEF Init, VarsTo, EdgesTo
  <2>. QED BY <2>1, FS_EmptySet
<1>3. RefCountExact
  <2>1. \A o \in Obj : refs[o] = 0 /\ o \notin held /\ ref # o
    BY NullAssumption DEF Init
  <2>2. ASSUME NEW o \in Obj
        PROVE  refs[o] = Cardinality(VarsTo(o)) + Cardinality(EdgesTo(o))
                 + (IF o \in held THEN 1 ELSE 0) + (IF ref = o THEN 1 ELSE 0)
    <3>1. /\ Cardinality(VarsTo(o)) = 0 /\ Cardinality(EdgesTo(o)) = 0
          /\ refs[o] = 0 /\ o \notin held /\ ref # o
      BY <1>2, <2>1
    <3>. QED BY <3>1
  <2>. QED BY <2>2 DEF RefCountExact
<1>4. Listed(refs, objects)
  BY DEF Init, Listed
<1>5. InCollect(stack) = {} /\ held = {} /\ collecting = FALSE
  BY DEF Init, InCollect
<1>6. HeldOK(stack, held, collecting)
  BY <1>5, Zenon DEF HeldOK
<1>. QED BY <1>1, <1>3, <1>4, <1>6 DEF IInv

(* Nothing happens to it when nothing happens.                             *)
LEMMA StutterInv == IInv /\ UNCHANGED vars => IInv'
<1> SUFFICES ASSUME IInv, UNCHANGED vars
             PROVE  IInv'
  OBVIOUS
<1>1. /\ stack' = stack /\ closed' = closed
      /\ UNCHANGED <<objects, refs, cycleRoots, var, child, held, ref, numRoots,
                     collecting>>
  BY DEF vars
<1>2. stack' \in Seq(Frames) /\ closed' \in BOOLEAN /\ HeldOK(stack', held, collecting)
  BY <1>1 DEF IInv, TypeOK
<1>. QED BY <1>1, <1>2, StackStep

(* Every step keeps the invariant.                                         *)
LEMMA NextInv == IInv /\ [Next]_vars => IInv'
  BY ProgramStep, CallStep, StutterInv DEF Next, Over

(* Every step of every cascade keeps the counts, the list of the objects   *)
(* and the stack of the calls in agreement.                                *)
THEOREM Invariance == Spec => []IInv
  BY InitInv, NextInv, PTL DEF Spec

(* Type correctness.                                                       *)
THEOREM TypeCorrect == Spec => []TypeOK
<1>1. IInv => TypeOK
  BY DEF IInv
<1>. QED BY <1>1, Invariance, PTL

(* GCObject::addRef and release: the count of an object is the number of   *)
(* smart pointers to it, in the variables of the program, the members of   *)
(* objects, the vector of collectCycles and the collector's destructor.    *)
THEOREM CountsAreExact == Spec => []RefCountExact
<1>1. IInv => RefCountExact
  BY DEF IInv
<1>. QED BY <1>1, Invariance, PTL

(* Nothing that a destructor has been started for is pointed to.           *)
THEOREM NothingDangles == Spec => []NoDangling
<1>1. IInv => NoDangling
  BY PointedToIsListed DEF NoDangling
<1>. QED BY <1>1, Invariance, PTL

-----------------------------------------------------------------------------
(* The collector takes garbage only.                                       *)

(* A reference from outside of the visited objects shows in the count.     *)
LEMMA OutsideShows ==
  ASSUME IInv, NEW g \in GcMap,
         \/ \E v \in Var : var[v] = g
         \/ \E e \in Edge : child[e] = g /\ e[1] \notin GcMap
  PROVE  g \in External
<1>1. g \in Obj
  BY GarbageIsListed DEF IInv, TypeOK
<1>2. /\ InEdges(g) \subseteq EdgesTo(g)
      /\ IsFiniteSet(EdgesTo(g)) /\ IsFiniteSet(InEdges(g)) /\ IsFiniteSet(VarsTo(g))
  BY FiniteEdge, FiniteAssumption, FS_Subset, EdgesTo(g) \in SUBSET Edge,
     InEdges(g) \in SUBSET Edge, VarsTo(g) \in SUBSET Var DEF InEdges, EdgesTo, VarsTo
<1>3. /\ Cardinality(InEdges(g)) \in Nat /\ Cardinality(EdgesTo(g)) \in Nat
      /\ Cardinality(VarsTo(g)) \in Nat
      /\ Cardinality(InEdges(g)) =< Cardinality(EdgesTo(g))
  BY <1>2, FS_CardinalityType, FS_Subset
<1>4. /\ refs[g] \in Nat
      /\ refs[g] >= Cardinality(VarsTo(g)) + Cardinality(EdgesTo(g))
  BY <1>1, <1>3 DEF IInv, TypeOK, RefCountExact
<1>5. ASSUME NEW v \in Var, var[v] = g
      PROVE  refs[g] > Cardinality(InEdges(g))
  <2>1. VarsTo(g) # {}
    BY <1>5 DEF VarsTo
  <2>2. Cardinality(VarsTo(g)) # 0
    BY <1>2, <2>1, FS_EmptySet
  <2>. QED BY <1>3, <1>4, <2>2
<1>6. ASSUME NEW e \in Edge, child[e] = g, e[1] \notin GcMap
      PROVE  refs[g] > Cardinality(InEdges(g))
  <2>1. e \in EdgesTo(g) /\ e \notin InEdges(g)
    BY <1>6 DEF EdgesTo, InEdges
  <2>2. Cardinality(InEdges(g)) # Cardinality(EdgesTo(g))
    BY <1>2, <2>1, FS_Subset
  <2>. QED BY <1>3, <1>4, <2>2
<1>. QED BY <1>5, <1>6 DEF External

(* What a collection takes, the program cannot reach.                      *)
LEMMA GarbageIsNotLive ==
  ASSUME IInv
  PROVE  Garbage \cap Live = {}
<1> DEFINE T == Obj \ Garbage
<1>1. /\ GcMap \in SUBSET Obj /\ Garbage \subseteq GcMap
      /\ \A x \in Garbage : x \notin ReachIn(child, External)
  BY GarbageIsListed DEF IInv, TypeOK, Garbage
<1>2. External \subseteq GcMap
  BY DEF External
<1>3. Pointees(var) \subseteq T
  <2> SUFFICES ASSUME NEW v \in Var, var[v] # NULL
               PROVE  var[v] \in T
    BY DEF Pointees, IInv, TypeOK
  <2>1. var[v] \in Obj
    BY DEF IInv, TypeOK, ObjOrNull
  <2>2. ASSUME var[v] \in Garbage
        PROVE  FALSE
    <3>1. var[v] \in External
      BY <1>1, <2>2, OutsideShows
    <3>. QED BY <1>1, <2>1, <2>2, <3>1, ReachInClosed
  <2>. QED BY <2>1, <2>2
<1>4. Closed(child, T)
  <2> SUFFICES ASSUME NEW o \in Obj, o \notin Garbage, NEW s \in Slot,
                      child[<<o, s>>] # NULL
               PROVE  child[<<o, s>>] \in T
    BY DEF Closed
  <2> DEFINE g == child[<<o, s>>]
  <2>1. <<o, s>> \in Edge /\ g \in Obj
    BY DEF IInv, TypeOK, ObjOrNull, Edge
  <2>2. ASSUME g \in Garbage
        PROVE  FALSE
    <3>1. CASE o \in GcMap
      <4>1. o \in ReachIn(child, External)
        BY <3>1 DEF Garbage
      <4>2. g \in ReachIn(child, External)
        BY <2>1, <4>1, ReachInClosed
      <4>. QED BY <1>1, <2>2, <4>2
    <3>2. CASE o \notin GcMap
      <4>1. g \in External
        BY <1>1, <2>1, <2>2, <3>2, OutsideShows
      <4>. QED BY <1>1, <2>1, <2>2, <4>1, ReachInClosed
    <3>. QED BY <3>1, <3>2
  <2>. QED BY <2>1, <2>2
<1>5. Live \subseteq T
  BY <1>3, <1>4, ReachInLeast DEF Live
<1>. QED BY <1>5

(* Cutting a link, or none, makes nothing reachable.                       *)
LEMMA LiveShrinks ==
  ASSUME IInv, var' = var,
         \/ child' = child
         \/ \E e \in Edge : child' = [child EXCEPT ![e] = NULL]
  PROVE  Live' \subseteq Live
<1>1. /\ Live \in SUBSET Obj
      /\ \A o \in Live, s \in Slot : child[<<o, s>>] \in Obj => child[<<o, s>>] \in Live
  BY ReachInClosed DEF Live
<1>2. Pointees(var) \subseteq Obj
  BY DEF Pointees, IInv, TypeOK, ObjOrNull
<1>3. Pointees(var') \subseteq Live
  BY <1>2, ReachInClosed DEF Live
<1>4. \A o \in Live, s \in Slot : child'[<<o, s>>] \in {child[<<o, s>>], NULL}
  BY <1>1 DEF IInv, TypeOK, Edge
<1>5. \A o \in Live, s \in Slot : child[<<o, s>>] \in Obj \cup {NULL}
  BY <1>1 DEF IInv, TypeOK, Edge, ObjOrNull
<1>6. Closed(child', Live)
  BY <1>1, <1>4, <1>5 DEF Closed
<1>. QED BY <1>1, <1>3, <1>6, ReachInLeast DEF Live

(* No step makes the program reach what has been taken.                    *)
LEMMA TakenStep ==
  ASSUME IInv, OnlyGarbageIsTaken, [Next]_vars
  PROVE  OnlyGarbageIsTaken'
<1>1. CASE Program
  <2>1. held = {}
    BY <1>1, IdleHeld DEF Program, New, AssignVar, AssignMember, CallCollect, Close
  <2>2. held' = held
    BY <1>1 DEF Program, New, AssignVar, AssignMember, CallCollect, Close
  <2>. QED BY <2>1, <2>2 DEF OnlyGarbageIsTaken
<1>2. ASSUME var' = var, held' \subseteq held,
             \/ child' = child
             \/ \E e \in Edge : child' = [child EXCEPT ![e] = NULL]
      PROVE  OnlyGarbageIsTaken'
  BY <1>2, LiveShrinks DEF OnlyGarbageIsTaken
<1>3. CASE Calls
  <2>1. CASE Collect
    <3>1. Live' = Live
      BY <2>1 DEF Collect, Live
    <3>2. held' = held \/ held' = held \cup Garbage
      BY <2>1 DEF Collect
    <3>. QED BY <3>1, <3>2, GarbageIsNotLive DEF OnlyGarbageIsTaken
  <2>2. ASSUME NEW o \in Obj, NEW s \in Slot, DestroyMember(o, s) \/ UnlinkMember(o, s)
        PROVE  OnlyGarbageIsTaken'
    BY <1>2, <2>2 DEF DestroyMember, UnlinkMember, Edge
  <2>3. ASSUME NEW o \in Obj, FreeOne(o)
        PROVE  OnlyGarbageIsTaken'
    BY <1>2, <2>3 DEF FreeOne
  <2>4. CASE \/ Check \/ Destroyed \/ Unlinked \/ CollectDone \/ Cleared \/ ResetRef
             \/ \E o \in Obj : NextObject(o)
    <3>1. UNCHANGED <<var, child, held>>
      BY <2>4 DEF Check, Destroyed, Unlinked, CollectDone, Cleared, ResetRef, NextObject
    <3>. QED BY <1>2, <3>1
  <2>. QED BY <1>3, <2>1, <2>2, <2>3, <2>4 DEF Calls
<1>4. CASE UNCHANGED vars
  BY <1>2, <1>4 DEF vars
<1>. QED BY <1>1, <1>3, <1>4 DEF Next, Over

(* collectCycles never takes an object that the program can still reach,   *)
(* wherever in a cascade of destructors it runs.                           *)
THEOREM NothingLiveIsTaken == Spec => []OnlyGarbageIsTaken
<1>1. Init => OnlyGarbageIsTaken
  BY DEF Init, OnlyGarbageIsTaken
<1>. QED BY <1>1, Invariance, TakenStep, PTL DEF Spec
-----------------------------------------------------------------------------
(* The cycle collector implements the heap it promises.                    *)

(* The objects whose destructors are calls of s.                           *)
DyingOf(s) == UNION {s[i].objs : i \in {j \in DOMAIN s : s[j].op = "dtor"}}

(* A destructor runs once, for an object that is off the list, and the     *)
(* collector's own destructor runs when it has been entered.               *)
StackOK(s, objs, c) ==
  /\ \A i \in 1..Len(s) : s[i].op = "dtor" => \E o \in Obj : s[i].objs = {o} /\ o \notin objs
  /\ \A i, j \in 1..Len(s) :
        s[i].op = "dtor" /\ s[j].op = "dtor" /\ s[i].objs = s[j].objs => i = j
  /\ \A i \in 1..Len(s) : s[i].op \in {"clear", "teardown"} => c

(* Memory that has been given back, or was never used, has no links.       *)
Emptied == \A e \in Edge : child[e] # NULL => e[1] \in objects \cup Dying

RInv == StackOK(stack, objects, closed) /\ Emptied

(* A call more, or less, on the stack of calls.                            *)
LEMMA PushDying ==
  ASSUME NEW s \in Seq(Frames), NEW f \in Frames
  PROVE  DyingOf(<<f>> \o s) = DyingOf(s) \cup (IF f.op = "dtor" THEN f.objs ELSE {})
<1> DEFINE t == <<f>> \o s
<1>1. /\ t \in Seq(Frames) /\ Len(t) = Len(s) + 1 /\ t[1] = f /\ Len(s) \in Nat
      /\ \A i \in 1..Len(s) : t[i + 1] = s[i]
  BY Push
<1>2. DOMAIN t = 1..(Len(s) + 1) /\ DOMAIN s = 1..Len(s)
  BY <1>1
<1> HIDE DEF t
<1>3. ASSUME NEW x \in DyingOf(t)
      PROVE  x \in DyingOf(s) \/ (f.op = "dtor" /\ x \in f.objs)
  <2>1. PICK i \in DOMAIN t : t[i].op = "dtor" /\ x \in t[i].objs
    BY DEF DyingOf
  <2>2. CASE i = 1
    BY <1>1, <2>1, <2>2
  <2>3. CASE i # 1
    <3>1. i - 1 \in DOMAIN s /\ t[i] = s[i - 1]
      BY <1>1, <1>2, <2>3
    <3>. QED BY <2>1, <3>1 DEF DyingOf
  <2>. QED BY <2>2, <2>3
<1>4. ASSUME NEW x \in DyingOf(s)
      PROVE  x \in DyingOf(t)
  <2>1. PICK i \in DOMAIN s : s[i].op = "dtor" /\ x \in s[i].objs
    BY DEF DyingOf
  <2>2. i + 1 \in DOMAIN t /\ t[i + 1] = s[i]
    BY <1>1, <1>2
  <2>. QED BY <2>1, <2>2 DEF DyingOf
<1>5. ASSUME f.op = "dtor", NEW x \in f.objs
      PROVE  x \in DyingOf(t)
  <2>1. 1 \in DOMAIN t
    BY <1>1, <1>2
  <2>. QED BY <1>1, <1>5, <2>1 DEF DyingOf
<1>6. DyingOf(t) = DyingOf(s) \cup (IF f.op = "dtor" THEN f.objs ELSE {})
  BY <1>3, <1>4, <1>5
<1>. QED BY <1>6 DEF t

LEMMA PopDying ==
  ASSUME NEW s \in Seq(Frames), s # <<>>
  PROVE  DyingOf(s) = DyingOf(Tail(s)) \cup (IF Head(s).op = "dtor" THEN Head(s).objs ELSE {})
<1>1. Head(s) \in Frames /\ Tail(s) \in Seq(Frames) /\ s = <<Head(s)>> \o Tail(s)
  OBVIOUS
<1>. QED BY <1>1, PushDying

(* A call that is no destructor.                                           *)
LEMMA PushOK ==
  ASSUME NEW s \in Seq(Frames), NEW f \in Frames, NEW objs, NEW c,
         f.op # "dtor", f.op \in {"clear", "teardown"} => c, StackOK(s, objs, c)
  PROVE  StackOK(<<f>> \o s, objs, c)
<1> DEFINE t == <<f>> \o s
<1>1. /\ Len(t) = Len(s) + 1 /\ t[1] = f /\ Len(s) \in Nat
      /\ \A i \in 1..Len(s) : t[i + 1] = s[i]
  BY Push
<1> HIDE DEF t
<1>2. ASSUME NEW i \in 1..Len(t), i # 1
      PROVE  i - 1 \in 1..Len(s) /\ t[i] = s[i - 1]
  BY <1>1, <1>2
<1>3. ASSUME NEW i \in 1..Len(t), t[i].op = "dtor"
      PROVE  i # 1 /\ \E o \in Obj : t[i].objs = {o} /\ o \notin objs
  BY <1>1, <1>2, <1>3 DEF StackOK
<1>4. ASSUME NEW i \in 1..Len(t), NEW j \in 1..Len(t), t[i].op = "dtor", t[j].op = "dtor",
             t[i].objs = t[j].objs
      PROVE  i = j
  <2>1. i # 1 /\ j # 1
    BY <1>3, <1>4
  <2>2. /\ i - 1 \in 1..Len(s) /\ t[i] = s[i - 1]
        /\ j - 1 \in 1..Len(s) /\ t[j] = s[j - 1]
    BY <1>2, <2>1
  <2>3. i - 1 = j - 1
    BY <1>4, <2>2 DEF StackOK
  <2>. QED BY <2>3
<1>5. ASSUME NEW i \in 1..Len(t), t[i].op \in {"clear", "teardown"}
      PROVE  c
  BY <1>1, <1>2, <1>5 DEF StackOK
<1>6. StackOK(t, objs, c)
  BY <1>3, <1>4, <1>5 DEF StackOK
<1>. QED BY <1>6 DEF t

(* The destructor of an object that leaves the list.                       *)
LEMMA PushDtorOK ==
  ASSUME NEW s \in Seq(Frames), NEW o \in Obj, NEW objs, o \in objs, NEW c,
         StackOK(s, objs, c)
  PROVE  StackOK(<<Frame("dtor", {o})>> \o s, objs \ {o}, c)
<1> DEFINE f == Frame("dtor", {o})
           t == <<f>> \o s
<1>0. f \in Frames /\ f.op = "dtor" /\ f.objs = {o}
  BY DEF Frame, Frames
<1> HIDE DEF f
<1>1. /\ Len(t) = Len(s) + 1 /\ t[1] = f /\ Len(s) \in Nat
      /\ \A i \in 1..Len(s) : t[i + 1] = s[i]
  BY <1>0, Push
<1> HIDE DEF t
<1>2. ASSUME NEW i \in 1..Len(t), i # 1
      PROVE  i - 1 \in 1..Len(s) /\ t[i] = s[i - 1]
  BY <1>1, <1>2
<1>3. ASSUME NEW i \in 1..Len(t), t[i].op = "dtor", i # 1
      PROVE  \E x \in Obj : t[i].objs = {x} /\ x \notin objs
  BY <1>2, <1>3 DEF StackOK
<1>4. ASSUME NEW i \in 1..Len(t), NEW j \in 1..Len(t), t[i].op = "dtor", t[j].op = "dtor",
             t[i].objs = t[j].objs
      PROVE  i = j
  <2>1. CASE i # 1 /\ j # 1
    <3>1. /\ i - 1 \in 1..Len(s) /\ t[i] = s[i - 1]
          /\ j - 1 \in 1..Len(s) /\ t[j] = s[j - 1]
      BY <1>2, <2>1
    <3>2. i - 1 = j - 1
      BY <1>4, <3>1 DEF StackOK
    <3>. QED BY <3>2
  <2>2. ASSUME NEW k \in 1..Len(t), t[k].op = "dtor", k # 1
        PROVE  t[k].objs # t[1].objs
    BY <1>0, <1>1, <1>3, <2>2
  <2>. QED BY <1>4, <2>1, <2>2
<1>5. ASSUME NEW i \in 1..Len(t), t[i].op \in {"clear", "teardown"}
      PROVE  c
  BY <1>0, <1>1, <1>2, <1>5 DEF StackOK
<1>6. ASSUME NEW i \in 1..Len(t), t[i].op = "dtor"
      PROVE  \E x \in Obj : t[i].objs = {x} /\ x \notin objs \ {o}
  BY <1>0, <1>1, <1>3, <1>6
<1>7. StackOK(t, objs \ {o}, c)
  BY <1>4, <1>5, <1>6 DEF StackOK
<1>. QED BY <1>7 DEF t, f

LEMMA PopOK ==
  ASSUME NEW s \in Seq(Frames), s # <<>>, NEW objs, NEW c, StackOK(s, objs, c)
  PROVE  /\ StackOK(Tail(s), objs, c)
         /\ Head(s).op \in {"clear", "teardown"} => c
         /\ Head(s).op = "dtor" =>
              /\ \E o \in Obj : Head(s).objs = {o} /\ o \notin objs
              /\ Head(s).objs \cap DyingOf(Tail(s)) = {}
<1>1. /\ Head(s) = s[1] /\ Tail(s) \in Seq(Frames)
      /\ Len(Tail(s)) = Len(s) - 1 /\ Len(s) \in Nat \ {0}
      /\ \A i \in 1..Len(Tail(s)) : Tail(s)[i] = s[i + 1]
  BY Pop
<1>2. \A i \in 1..Len(Tail(s)) : i + 1 \in 1..Len(s) /\ i + 1 # 1 /\ i \in Int
  BY <1>1
<1>3. 1 \in 1..Len(s) /\ DOMAIN Tail(s) = 1..Len(Tail(s))
  BY <1>1
<1> DEFINE t == Tail(s)
<1>t. \A i \in 1..Len(t) : t[i] = s[i + 1] /\ i + 1 \in 1..Len(s) /\ i + 1 # 1 /\ i \in Int
  BY <1>1, <1>2
<1> HIDE DEF t
<1>4. StackOK(t, objs, c)
  <2>1. ASSUME NEW i \in 1..Len(t), NEW j \in 1..Len(t), t[i].op = "dtor",
               t[j].op = "dtor", t[i].objs = t[j].objs
        PROVE  i = j
    <3>1. i + 1 = j + 1
      BY <1>t, <2>1 DEF StackOK
    <3>. QED BY <1>t, <3>1
  <2>. QED BY <1>t, <2>1 DEF StackOK
<1>5. Head(s).op \in {"clear", "teardown"} => c
  BY <1>1, <1>3 DEF StackOK
<1>6. ASSUME Head(s).op = "dtor"
      PROVE  /\ \E o \in Obj : Head(s).objs = {o} /\ o \notin objs
             /\ Head(s).objs \cap DyingOf(t) = {}
  <2>1. PICK o \in Obj : s[1].objs = {o} /\ o \notin objs
    BY <1>1, <1>3, <1>6 DEF StackOK
  <2>2. ASSUME NEW i \in DOMAIN t, t[i].op = "dtor"
        PROVE  o \notin t[i].objs
    <3>1. i \in 1..Len(t)
      BY <1>3 DEF t
    <3>2. s[i + 1].objs # s[1].objs
      BY <1>1, <1>3, <1>6, <1>t, <2>2, <3>1 DEF StackOK
    <3>3. \E x \in Obj : s[i + 1].objs = {x}
      BY <1>t, <2>2, <3>1 DEF StackOK
    <3>. QED BY <1>t, <2>1, <3>1, <3>2, <3>3
  <2>3. o \notin DyingOf(t)
    BY <2>2 DEF DyingOf
  <2>. QED BY <1>1, <2>1, <2>3
<1>. QED BY <1>4, <1>5, <1>6 DEF t
(* A release moves the object, if it was the last one, from the list to    *)
(* the destructors: its memory is still there.                             *)
LEMMA ReleaseAlive ==
  ASSUME NEW o \in Obj, NEW cnt, NEW rts, NEW n, NEW objs, o \in objs, NEW c,
         NEW rest \in Seq(Frames), StackOK(rest, objs, c),
         ReleaseIn(o, cnt, rts, n, objs, rest)
  PROVE  /\ StackOK(stack', objects', c) /\ stack' # <<>>
         /\ objects' \cup DyingOf(stack') = objs \cup DyingOf(rest)
<1>1. CASE objects' = objs \ {o} /\ stack' = <<Frame("dtor", {o})>> \o rest
  <2>1. /\ Frame("dtor", {o}) \in Frames /\ Frame("dtor", {o}).op = "dtor"
        /\ Frame("dtor", {o}).objs = {o}
    BY DEF Frame, Frames
  <2>2. StackOK(stack', objects', c)
    BY <1>1, PushDtorOK
  <2>3. DyingOf(stack') = DyingOf(rest) \cup {o}
    BY <1>1, <2>1, PushDying
  <2>4. stack' # <<>>
    BY <1>1, <2>1, Push
  <2>. QED BY <1>1, <2>2, <2>3, <2>4
<1>2. CASE objects' = objs /\ stack' = <<Frame("check", {})>> \o rest
  <2>1. Frame("check", {}) \in Frames /\ Frame("check", {}).op = "check"
    BY DEF Frame, Frames
  <2>2. StackOK(stack', objects', c)
    BY <1>2, <2>1, PushOK
  <2>3. DyingOf(stack') = DyingOf(rest)
    BY <1>2, <2>1, PushDying
  <2>4. stack' # <<>>
    BY <1>2, <2>1, Push
  <2>. QED BY <1>2, <2>2, <2>3, <2>4
<1>. QED BY <1>1, <1>2 DEF ReleaseIn

LEMMA RepointAlive ==
  ASSUME NEW q, NEW old \in ObjOrNull, NEW objs, old # NULL => old \in objs, NEW c,
         NEW rest \in Seq(Frames), StackOK(rest, objs, c), Repoint(q, old, objs, rest)
  PROVE  /\ StackOK(stack', objects', c)
         /\ objects' \cup DyingOf(stack') = objs \cup DyingOf(rest)
         /\ stack' = <<>> => old = NULL /\ rest = <<>>
<1>1. CASE old = NULL
  BY <1>1 DEF Repoint
<1>2. CASE old # NULL
  <2>1. PICK cnt, rts, n : ReleaseIn(old, cnt, rts, n, objs, rest)
    BY <1>2 DEF Repoint
  <2>2. old \in Obj /\ old \in objs
    BY <1>2 DEF ObjOrNull
  <2>. QED BY <2>1, <2>2, ReleaseAlive
<1>. QED BY <1>1, <1>2

-----------------------------------------------------------------------------
(* Two heaps that agree where one of them can be read look the same.       *)
LEMMA SameReach ==
  ASSUME NEW g, NEW h, NEW R \in SUBSET Obj,
         \A o \in ReachIn(h, R), s \in Slot :
            g[<<o, s>>] = h[<<o, s>>] /\ h[<<o, s>>] \in ObjOrNull
  PROVE  ReachIn(g, R) = ReachIn(h, R)
<1> DEFINE L == ReachIn(h, R)
<1>1. /\ L \in SUBSET Obj /\ R \subseteq L
      /\ \A o \in L, s \in Slot : h[<<o, s>>] \in Obj => h[<<o, s>>] \in L
  BY ReachInClosed
<1>2. \A o \in L, s \in Slot : g[<<o, s>>] = h[<<o, s>>] /\ h[<<o, s>>] \in Obj \cup {NULL}
  BY DEF ObjOrNull
<1> HIDE DEF L
<1>3. Closed(g, L)
  BY <1>1, <1>2 DEF Closed
<1>4. ReachIn(g, R) \subseteq L
  BY <1>1, <1>3, ReachInLeast
<1>5. ASSUME NEW T \in SUBSET Obj, R \subseteq T, Closed(g, T)
      PROVE  L \subseteq T
  <2> DEFINE U == T \cap L
  <2>1. U \in SUBSET Obj /\ R \subseteq U
    BY <1>1, <1>5
  <2>2. ASSUME NEW o \in U, NEW s \in Slot, h[<<o, s>>] # NULL
        PROVE  h[<<o, s>>] \in U
    <3>1. h[<<o, s>>] \in Obj /\ h[<<o, s>>] = g[<<o, s>>]
      BY <1>2, <2>2
    <3>2. h[<<o, s>>] \in L
      BY <1>1, <3>1
    <3>3. h[<<o, s>>] \in T
      BY <1>5, <2>2, <3>1 DEF Closed
    <3>. QED BY <3>2, <3>3
  <2> HIDE DEF U
  <2>3. Closed(h, U)
    BY <2>2 DEF Closed
  <2>4. L \subseteq U
    BY <2>1, <2>3, ReachInLeast DEF L
  <2>. QED BY <2>4 DEF U
<1>6. L \subseteq ReachIn(g, R)
  BY <1>1, <1>5 DEF ReachIn
<1>. QED BY <1>4, <1>6 DEF L

LEMMA SameView ==
  ASSUME NEW g, NEW h, NEW r, Pointees(r) \in SUBSET Obj,
         \A o \in ReachIn(h, Pointees(r)), s \in Slot :
            g[<<o, s>>] = h[<<o, s>>] /\ h[<<o, s>>] \in ObjOrNull
  PROVE  Visible(g, r) = Visible(h, r)
<1>1. ReachIn(g, Pointees(r)) = ReachIn(h, Pointees(r))
  BY SameReach
<1> DEFINE L == ReachIn(h, Pointees(r))
<1>2. \A e \in Edge : e[1] \in L => g[e] = h[e]
  <2> SUFFICES ASSUME NEW o \in Obj, NEW s \in Slot, o \in L
               PROVE  g[<<o, s>>] = h[<<o, s>>]
    BY DEF Edge
  <2>. QED OBVIOUS
<1> HIDE DEF L
<1>3. [e \in Edge |-> IF e[1] \in L THEN g[e] ELSE NULL]
        = [e \in Edge |-> IF e[1] \in L THEN h[e] ELSE NULL]
  BY <1>2
<1>. QED BY <1>1, <1>3 DEF Visible, L

(* What the variables refer to are objects, and a link leads to one.       *)
LEMMA Pointers ==
  ASSUME TypeOK
  PROVE  /\ Pointees(var) \in SUBSET Obj
         /\ \A o \in Obj, s \in Slot : <<o, s>> \in Edge /\ child[<<o, s>>] \in ObjOrNull
         /\ Live \in SUBSET Obj
<1>1. Pointees(var) \in SUBSET Obj
  BY DEF Pointees, TypeOK, ObjOrNull
<1>2. \A o \in Obj, s \in Slot : <<o, s>> \in Edge /\ child[<<o, s>>] \in ObjOrNull
  BY DEF TypeOK, Edge
<1>3. Live \in SUBSET Obj
  BY DEF Live, ReachIn
<1>. QED BY <1>1, <1>2, <1>3

(* What the program sees is what it can reach, as it is.                   *)
LEMMA VisibleHere ==
  ASSUME TypeOK
  PROVE  /\ \A o \in Obj, s \in Slot :
              Visible(child, var)[<<o, s>>] = IF o \in Live THEN child[<<o, s>>] ELSE NULL
         /\ ReachIn(Visible(child, var), Pointees(var)) = Live
<1>1. \A o \in Obj, s \in Slot :
        Visible(child, var)[<<o, s>>] = IF o \in Live THEN child[<<o, s>>] ELSE NULL
  BY Pointers DEF Visible, Live
<1>2. \A o \in Live, s \in Slot :
        Visible(child, var)[<<o, s>>] = child[<<o, s>>] /\ child[<<o, s>>] \in ObjOrNull
  BY <1>1, Pointers
<1>3. ReachIn(Visible(child, var), Pointees(var)) = ReachIn(child, Pointees(var))
  BY <1>2, Pointers, SameReach DEF Live
<1>. QED BY <1>1, <1>3 DEF Live
(* An assignment to a variable, perhaps of a new object, shows as one.     *)
LEMMA ViewMoves ==
  ASSUME TypeOK, NEW N \in SUBSET Obj, \A x \in N, s \in Slot : child[<<x, s>>] = NULL,
         NEW r, Pointees(r) \subseteq Live \cup N
  PROVE  Visible(child, r) = Visible(Visible(child, var), r)
<1>1. /\ Live \in SUBSET Obj
      /\ \A o \in Live, s \in Slot : child[<<o, s>>] \in Obj => child[<<o, s>>] \in Live
      /\ \A o \in Obj, s \in Slot : child[<<o, s>>] \in ObjOrNull
  BY Pointers, ReachInClosed DEF Live
<1>2. Closed(child, Live \cup N)
  BY <1>1 DEF Closed, ObjOrNull
<1>3. ReachIn(child, Pointees(r)) \subseteq Live \cup N
  BY <1>1, <1>2, ReachInLeast
<1>4. Pointees(r) \in SUBSET Obj
  BY <1>1
<1>5. \A o \in ReachIn(child, Pointees(r)), s \in Slot :
        Visible(child, var)[<<o, s>>] = child[<<o, s>>] /\ child[<<o, s>>] \in ObjOrNull
  <2> SUFFICES ASSUME NEW o \in Live \cup N, NEW s \in Slot
               PROVE  /\ Visible(child, var)[<<o, s>>] = child[<<o, s>>]
                      /\ child[<<o, s>>] \in ObjOrNull
    BY <1>3
  <2>1. o \in Obj
    BY <1>1
  <2>. QED BY <1>1, <2>1, VisibleHere
<1>. QED BY <1>4, <1>5, SameView

(* So does an assignment to a member of an object the program can reach.   *)
LEMMA ViewLinked ==
  ASSUME TypeOK, NEW o \in Live, NEW s \in Slot, NEW q \in Live \cup {NULL}
  PROVE  Visible([child EXCEPT ![<<o, s>>] = q], var) =
         Visible([Visible(child, var) EXCEPT ![<<o, s>>] = q], var)
<1> DEFINE h == [child EXCEPT ![<<o, s>>] = q]
           g == [Visible(child, var) EXCEPT ![<<o, s>>] = q]
<1>1. /\ Live \in SUBSET Obj /\ Pointees(var) \in SUBSET Obj
      /\ \A x \in Live, t \in Slot : child[<<x, t>>] \in Obj => child[<<x, t>>] \in Live
      /\ \A x \in Obj, t \in Slot : <<x, t>> \in Edge /\ child[<<x, t>>] \in ObjOrNull
  BY Pointers, ReachInClosed DEF Live
<1>2. Pointees(var) \subseteq Live
  BY <1>1, ReachInClosed DEF Live
<1>3. \A x \in Live, t \in Slot :
        /\ h[<<x, t>>] = IF <<x, t>> = <<o, s>> THEN q ELSE child[<<x, t>>]
        /\ g[<<x, t>>] = IF <<x, t>> = <<o, s>> THEN q ELSE Visible(child, var)[<<x, t>>]
  <2>1. DOMAIN child = Edge /\ DOMAIN Visible(child, var) = Edge
    BY DEF TypeOK, Visible
  <2>2. \A x \in Live, t \in Slot : <<x, t>> \in Edge
    BY <1>1
  <2>. QED BY <2>1, <2>2
<1> HIDE DEF h, g
<1>4. \A x \in Live, t \in Slot :
        /\ g[<<x, t>>] = h[<<x, t>>]
        /\ h[<<x, t>>] \in Live \cup {NULL}
  <2>1. \A x \in Live, t \in Slot : Visible(child, var)[<<x, t>>] = child[<<x, t>>]
    BY <1>1, VisibleHere
  <2>2. \A x \in Live, t \in Slot : child[<<x, t>>] \in Live \cup {NULL}
    BY <1>1 DEF ObjOrNull
  <2> SUFFICES ASSUME NEW x \in Live, NEW t \in Slot
               PROVE  g[<<x, t>>] = h[<<x, t>>] /\ h[<<x, t>>] \in Live \cup {NULL}
    OBVIOUS
  <2>3. CASE <<x, t>> = <<o, s>>
    BY <1>3, <2>3
  <2>4. CASE <<x, t>> # <<o, s>>
    <3>1. g[<<x, t>>] = Visible(child, var)[<<x, t>>] /\ h[<<x, t>>] = child[<<x, t>>]
      BY <1>3, <2>4
    <3>. QED BY <2>1, <2>2, <3>1
  <2>. QED BY <2>3, <2>4
<1>5. Closed(h, Live)
  BY <1>4 DEF Closed
<1>6. ReachIn(h, Pointees(var)) \subseteq Live
  BY <1>1, <1>2, <1>5, ReachInLeast
<1>7. \A x \in ReachIn(h, Pointees(var)), t \in Slot :
        g[<<x, t>>] = h[<<x, t>>] /\ h[<<x, t>>] \in ObjOrNull
  BY <1>1, <1>4, <1>6 DEF ObjOrNull
<1>8. Visible(g, var) = Visible(h, var)
  BY <1>1, <1>7, SameView
<1>. QED BY <1>8 DEF g, h

(* And one of an object that it cannot reach does not show.                *)
LEMMA ViewStays ==
  ASSUME TypeOK, NEW o \in Obj, o \notin Live, NEW s \in Slot, NEW q
  PROVE  Visible([child EXCEPT ![<<o, s>>] = q], var) = Visible(child, var)
<1> DEFINE g == [child EXCEPT ![<<o, s>>] = q]
<1>1. Live \in SUBSET Obj /\ Pointees(var) \in SUBSET Obj
  BY Pointers
<1>2. \A x \in Live, t \in Slot : <<x, t>> \in Edge /\ <<x, t>> # <<o, s>>
  BY <1>1, Pointers
<1>3. DOMAIN child = Edge
  BY DEF TypeOK
<1>4. \A x \in Live, t \in Slot : g[<<x, t>>] = child[<<x, t>>]
  BY <1>2, <1>3
<1>5. \A x \in ReachIn(child, Pointees(var)), t \in Slot :
        g[<<x, t>>] = child[<<x, t>>] /\ child[<<x, t>>] \in ObjOrNull
  BY <1>1, <1>4, Pointers DEF Live
<1> HIDE DEF g
<1>6. Visible(g, var) = Visible(child, var)
  BY <1>1, <1>5, SameView
<1>. QED BY <1>6 DEF g

-----------------------------------------------------------------------------
(* The operators of the promise are those of the collector.                *)
LEMMA HeapOperators ==
  /\ \A g, R : Heap!ReachIn(g, R) = ReachIn(g, R)
  /\ \A f : Heap!Pointees(f) = Pointees(f)
  /\ \A g, r : Heap!Visible(g, r) = Visible(g, r)
  /\ Heap!Edge = Edge /\ Heap!ObjOrNull = ObjOrNull
<1>1. \A g, R : Heap!ReachIn(g, R) = ReachIn(g, R)
  BY DEF Heap!ReachIn, Heap!Closed, ReachIn, Closed
<1>2. \A f : Heap!Pointees(f) = Pointees(f)
  BY DEF Heap!Pointees, Pointees
<1>3. Heap!Edge = Edge /\ Heap!ObjOrNull = ObjOrNull
  BY DEF Heap!Edge, Edge, Heap!ObjOrNull, ObjOrNull
<1>4. \A g, r : Heap!Visible(g, r) = Visible(g, r)
  BY <1>1, <1>2, <1>3 DEF Heap!Visible, Visible
<1>. QED BY <1>1, <1>2, <1>3, <1>4

LEMMA HeapReachable ==
  ASSUME TypeOK
  PROVE  Heap!Reachable = Live
  BY HeapOperators, VisibleHere DEF Heap!Reachable

Alive == objects \cup Dying
View == Visible(child, var)
HeapStep == [Heap!HeapNext]_(Heap!heapVars)

(* What the program does not notice, except that it may go on or must wait. *)
LEMMA Unnoticed ==
  ASSUME Alive' = Alive, var' = var, View' = View, closed' = closed
  PROVE  HeapStep
<1>1. CASE (stack' # <<>>) = (stack # <<>>)
  BY <1>1, HeapOperators DEF HeapStep, Heap!heapVars, Alive, View
<1>2. CASE (stack' # <<>>) = ~(stack # <<>>)
  <2>1. Heap!Turn
    BY <1>2 DEF Heap!Turn, Alive, View
  <2>. QED BY <2>1 DEF HeapStep, Heap!HeapNext
<1>. QED BY <1>1, <1>2

(* The start.                                                              *)
LEMMA HeapStart == Init => RInv /\ Heap!HeapInit
<1> SUFFICES ASSUME Init
             PROVE  RInv /\ Heap!HeapInit
  OBVIOUS
<1>1. stack = <<>> /\ objects = {} /\ child = [e \in Edge |-> NULL] /\ closed = FALSE
      /\ var = [v \in Var |-> NULL]
  BY DEF Init
<1>2. Dying = {}
  BY <1>1 DEF Dying
<1>3. RInv
  BY <1>1 DEF RInv, StackOK, Emptied
<1>4. View = [e \in Edge |-> NULL]
  BY <1>1 DEF View, Visible
<1>. QED BY <1>1, <1>2, <1>3, <1>4, HeapOperators DEF Heap!HeapInit, View

(* Memory that has no links gets none.                                     *)
LEMMA EmptiedStays ==
  ASSUME TypeOK, Emptied, Alive \subseteq Alive',
         \/ child' = child
         \/ \E e \in Edge : child' = [child EXCEPT ![e] = NULL]
         \/ \E e \in Edge, q \in ObjOrNull : e[1] \in Alive /\ child' = [child EXCEPT ![e] = q]
  PROVE  Emptied'
<1> SUFFICES ASSUME NEW d \in Edge, child'[d] # NULL
             PROVE  d[1] \in Alive'
  BY DEF Emptied, Alive
<1>1. DOMAIN child = Edge
  BY DEF TypeOK
<1>2. child[d] # NULL \/ d[1] \in Alive
  BY <1>1
<1>3. d[1] \in Alive
  BY <1>2 DEF Emptied, Alive
<1>. QED BY <1>3

(* A step that hides itself from the program.                              *)
LEMMA Quiet ==
  ASSUME TypeOK, RInv, StackOK(stack', objects', closed'), Alive' = Alive,
         UNCHANGED <<var, closed>>, View' = View,
         child' = child \/ \E e \in Edge : child' = [child EXCEPT ![e] = NULL]
  PROVE  RInv' /\ HeapStep
<1>1. Emptied'
  BY EmptiedStays DEF RInv
<1>2. RInv'
  BY <1>1 DEF RInv
<1>. QED BY <1>2, Unnoticed

(* A call that is no destructor comes back, or calls another.              *)
LEMMA Returns ==
  ASSUME IInv, RInv, NEW op, op # "dtor", At(op),
         UNCHANGED <<objects, var, child, closed>>,
         \/ stack' = Rest
         \/ \E f \in Frames : /\ f.op \notin {"dtor", "clear", "teardown"}
                              /\ stack' = <<f>> \o Rest
  PROVE  RInv' /\ HeapStep
<1>1. stack \in Seq(Frames) /\ stack # <<>> /\ Head(stack).op = op
      /\ Rest \in Seq(Frames) /\ Rest = Tail(stack) /\ TypeOK
  BY TopFrame DEF IInv
<1>2. StackOK(Rest, objects, closed)
  BY <1>1, PopOK DEF RInv
<1>3. DyingOf(Rest) = DyingOf(stack)
  BY <1>1, PopDying
<1>4. StackOK(stack', objects, closed) /\ DyingOf(stack') = DyingOf(Rest)
  <2>1. CASE stack' = Rest
    BY <1>2, <2>1
  <2>2. ASSUME NEW f \in Frames, f.op \notin {"dtor", "clear", "teardown"},
               stack' = <<f>> \o Rest
        PROVE  StackOK(stack', objects, closed) /\ DyingOf(stack') = DyingOf(Rest)
    <3>1. f.op # "dtor" /\ (f.op \in {"clear", "teardown"} => closed)
      BY <2>2
    <3>2. StackOK(<<f>> \o Rest, objects, closed)
      BY <1>1, <1>2, <3>1, PushOK
    <3>3. DyingOf(<<f>> \o Rest)
            = DyingOf(Rest) \cup (IF f.op = "dtor" THEN f.objs ELSE {})
      BY <1>1, PushDying
    <3>4. DyingOf(<<f>> \o Rest) = DyingOf(Rest)
      BY <3>1, <3>3
    <3>. QED BY <2>2, <3>2, <3>4
  <2>. QED BY <2>1, <2>2
<1>5. Alive' = Alive
  BY <1>3, <1>4 DEF Alive, Dying, DyingOf
<1>6. View' = View
  BY DEF View
<1>. QED BY <1>1, <1>4, <1>5, <1>6, Quiet

(* A member of a dead object, or of one that is torn down, is released.    *)
LEMMA MemberGone ==
  ASSUME IInv, RInv, NEW o \in Obj, NEW s \in Slot, child[<<o, s>>] # NULL,
         Drop(child[<<o, s>>], stack), child' = [child EXCEPT ![<<o, s>>] = NULL],
         UNCHANGED <<var, closed>>
  PROVE  RInv' /\ Alive' = Alive /\ stack' # <<>>
<1>1. TypeOK /\ stack \in Seq(Frames) /\ <<o, s>> \in Edge /\ DOMAIN child = Edge
  BY DEF IInv, TypeOK, Edge
<1>2. child[<<o, s>>] \in objects /\ child[<<o, s>>] \in Obj
  <2>1. child[<<o, s>>] \in objects
    BY <1>1, PointedToIsListed DEF Pointees
  <2>. QED BY <1>1, <2>1 DEF TypeOK
<1>3. ReleaseIn(child[<<o, s>>], refs, cycleRoots, numRoots, objects, stack)
  BY DEF Drop
<1>4. /\ StackOK(stack', objects', closed) /\ stack' # <<>>
      /\ objects' \cup DyingOf(stack') = objects \cup DyingOf(stack)
  BY <1>1, <1>2, <1>3, ReleaseAlive DEF RInv
<1>5. Alive' = Alive
  BY <1>4 DEF Alive, Dying, DyingOf
<1>6. Emptied'
  BY <1>1, <1>5, EmptiedStays DEF RInv
<1>. QED BY <1>4, <1>5, <1>6 DEF RInv

(* The program does not see it when it cannot reach the object.            *)
LEMMA MemberGoneUnseen ==
  ASSUME IInv, RInv, NEW o \in Obj, o \notin Live, NEW s \in Slot, child[<<o, s>>] # NULL,
         Drop(child[<<o, s>>], stack), child' = [child EXCEPT ![<<o, s>>] = NULL],
         UNCHANGED <<var, closed>>
  PROVE  RInv' /\ HeapStep
<1>1. TypeOK
  BY DEF IInv
<1>2. View' = View
  BY <1>1, ViewStays DEF View
<1>. QED BY <1>2, MemberGone, Unnoticed

(* A destructor's object is not reachable.                                 *)
LEMMA DestroyedIsDead ==
  ASSUME IInv, RInv, At("dtor")
  PROVE  \E o \in Obj : /\ Top.objs = {o} /\ o \notin objects /\ o \notin Live
                        /\ o \notin DyingOf(Rest)
                        /\ DyingOf(stack) = DyingOf(Rest) \cup {o}
<1>1. stack \in Seq(Frames) /\ stack # <<>> /\ Head(stack) = Top /\ Top.op = "dtor"
      /\ Rest = Tail(stack)
  BY TopFrame
<1>2. PICK o \in Obj : Top.objs = {o} /\ o \notin objects
  BY <1>1, PopOK DEF RInv
<1>3. Top.objs \cap DyingOf(Rest) = {}
  BY <1>1, PopOK DEF RInv
<1>4. DyingOf(stack) = DyingOf(Rest) \cup Top.objs
  BY <1>1, PopDying
<1>. QED BY <1>2, <1>3, <1>4, LiveIsListed

(* Memory is given back.                                                   *)
LEMMA MemoryGivenBack ==
  ASSUME IInv, RInv, Destroyed
  PROVE  RInv' /\ HeapStep
<1> DEFINE f == Frame("check", {})
<1>1. At("dtor") /\ stack' = <<f>> \o Rest /\ UNCHANGED <<objects, var, child, closed>>
      /\ \A x \in Top.objs, s \in Slot : child[<<x, s>>] = NULL
  BY DEF Destroyed
<1>2. PICK o \in Obj : /\ Top.objs = {o} /\ o \notin objects /\ o \notin Live
                       /\ o \notin DyingOf(Rest)
                       /\ DyingOf(stack) = DyingOf(Rest) \cup {o}
  BY <1>1, DestroyedIsDead
<1>3. /\ stack \in Seq(Frames) /\ stack # <<>> /\ Rest \in Seq(Frames)
      /\ Rest = Tail(stack) /\ TypeOK
  BY <1>1, TopFrame DEF IInv
<1>4. f \in Frames /\ f.op = "check"
  BY DEF Frame, Frames
<1> HIDE DEF f
<1>5. StackOK(Rest, objects, closed)
  BY <1>3, PopOK DEF RInv
<1>6. StackOK(<<f>> \o Rest, objects, closed)
  BY <1>3, <1>4, <1>5, PushOK
<1>7. DyingOf(<<f>> \o Rest) = DyingOf(Rest)
  BY <1>3, <1>4, PushDying
<1>8. Alive' = Alive \ {o} /\ o \in Alive
  <2>1. Alive = objects \cup DyingOf(stack) /\ Alive' = objects \cup DyingOf(Rest)
    BY <1>1, <1>7 DEF Alive, Dying, DyingOf
  <2>. QED BY <1>2, <2>1
<1>9. stack' # <<>>
  BY <1>1, <1>3, <1>4, Push
<1>10. Emptied'
  <2> SUFFICES ASSUME NEW e \in Edge, child[e] # NULL
               PROVE  e[1] \in Alive'
    BY <1>1 DEF Emptied, Alive
  <2>1. e[1] \in Alive
    BY DEF RInv, Emptied, Alive
  <2>2. e[1] # o
    <3>1. PICK s \in Slot : e = <<e[1], s>>
      BY DEF Edge
    <3>. QED BY <1>1, <1>2, <3>1
  <2>. QED BY <1>8, <2>1, <2>2
<1>11. RInv'
  BY <1>1, <1>6, <1>10 DEF RInv
<1>12. View' = View
  BY <1>1 DEF View
<1>13. Heap!Reclaim(o)
  BY <1>1, <1>2, <1>3, <1>8, <1>9, <1>12, HeapReachable DEF Heap!Reclaim, Alive, View
<1>. QED BY <1>11, <1>13 DEF HeapStep, Heap!HeapNext

(* gcUnlinkRefs: what a collection has taken is out of sight, and the      *)
(* collector's own destructor may cut anything.                            *)
LEMMA MemberUnlinked ==
  ASSUME IInv, RInv, OnlyGarbageIsTaken, NEW o \in Obj, NEW s \in Slot, UnlinkMember(o, s)
  PROVE  RInv' /\ HeapStep
<1>1. /\ At("unlink") \/ At("clear")
      /\ o \in Top.objs /\ child[<<o, s>>] # NULL /\ Drop(child[<<o, s>>], stack)
      /\ child' = [child EXCEPT ![<<o, s>>] = NULL] /\ UNCHANGED <<var, closed>>
  BY DEF UnlinkMember
<1>2. CASE o \notin Live
  BY <1>1, <1>2, MemberGoneUnseen
<1>3. CASE o \in Live
  <2>1. At("clear")
    <3>1. CASE At("unlink")
      <4>1. o \in held
        BY <1>1, <3>1, TopFrame
      <4>. QED BY <1>3, <4>1 DEF OnlyGarbageIsTaken
    <3>. QED BY <1>1, <3>1
  <2>2. stack \in Seq(Frames) /\ stack # <<>> /\ Head(stack).op = "clear" /\ TypeOK
    BY <2>1, TopFrame DEF IInv
  <2>3. closed
    BY <2>2, PopOK DEF RInv
  <2>4. RInv' /\ Alive' = Alive /\ stack' # <<>>
    BY <1>1, MemberGone
  <2>5. View' = Visible([View EXCEPT ![<<o, s>>] = NULL], var)
    <3>1. Visible([child EXCEPT ![<<o, s>>] = NULL], var)
            = Visible([Visible(child, var) EXCEPT ![<<o, s>>] = NULL], var)
      BY <1>3, <2>2, ViewLinked
    <3>. QED BY <1>1, <3>1 DEF View
  <2>6. Heap!Cut(o, s)
    BY <1>1, <1>3, <2>2, <2>3, <2>4, <2>5, HeapOperators, HeapReachable
       DEF Heap!Cut, Alive, View
  <2>. QED BY <2>4, <2>6 DEF HeapStep, Heap!HeapNext
<1>. QED BY <1>2, <1>3

(* The pointers of the collector itself move.                              *)
LEMMA OwnPointerMoves ==
  ASSUME IInv, RInv, NEW rest \in Seq(Frames), StackOK(rest, objects, closed),
         DyingOf(rest) = DyingOf(stack), UNCHANGED <<var, child, closed>>,
         \/ \E o \in objects : Drop(o, rest)
         \/ \E q : Repoint(q, ref, objects, rest)
  PROVE  RInv' /\ HeapStep
<1>1. /\ StackOK(stack', objects', closed)
      /\ objects' \cup DyingOf(stack') = objects \cup DyingOf(rest)
  <2>1. ASSUME NEW o \in objects, Drop(o, rest)
        PROVE  /\ StackOK(stack', objects', closed)
               /\ objects' \cup DyingOf(stack') = objects \cup DyingOf(rest)
    <3>1. o \in Obj
      BY DEF IInv, TypeOK
    <3>2. ReleaseIn(o, refs, cycleRoots, numRoots, objects, rest)
      BY <2>1 DEF Drop
    <3>. QED BY <3>1, <3>2, ReleaseAlive
  <2>2. ASSUME NEW q, Repoint(q, ref, objects, rest)
        PROVE  /\ StackOK(stack', objects', closed)
               /\ objects' \cup DyingOf(stack') = objects \cup DyingOf(rest)
    <3>1. ref \in ObjOrNull /\ (ref # NULL => ref \in objects)
      BY PointedToIsListed DEF IInv, TypeOK
    <3>. QED BY <2>2, <3>1, RepointAlive
  <2>. QED BY <2>1, <2>2
<1>2. Alive' = Alive
  BY <1>1 DEF Alive, Dying, DyingOf
<1>3. View' = View
  BY DEF View
<1>4. TypeOK
  BY DEF IInv
<1>. QED BY <1>1, <1>2, <1>3, <1>4, Quiet

(* garbage.clear(), and the steps of the collector's destructor.           *)
LEMMA OwnPointers ==
  ASSUME IInv, RInv, (\E o \in Obj : FreeOne(o) \/ NextObject(o)) \/ ResetRef
  PROVE  RInv' /\ HeapStep
<1>1. ASSUME NEW op, op # "dtor", At(op)
      PROVE  /\ StackOK(Rest, objects, closed) /\ DyingOf(Rest) = DyingOf(stack)
             /\ Rest \in Seq(Frames) /\ Top.objs \in SUBSET Obj
             /\ op \in {"clear", "teardown"} => closed
  <2>1. stack \in Seq(Frames) /\ stack # <<>> /\ Head(stack).op = op
        /\ Rest \in Seq(Frames) /\ Rest = Tail(stack) /\ Top.objs \in SUBSET Obj
    BY <1>1, TopFrame
  <2>2. /\ StackOK(Rest, objects, closed)
        /\ op \in {"clear", "teardown"} => closed
    BY <2>1, PopOK DEF RInv
  <2>3. DyingOf(Rest) = DyingOf(stack)
    BY <1>1, <2>1, PopDying
  <2>. QED BY <2>1, <2>2, <2>3
<1>2. ASSUME NEW op \in {"free", "clear", "teardown"}, NEW S \in SUBSET Obj,
             NEW s \in Seq(Frames), StackOK(s, objects, closed),
             op \in {"clear", "teardown"} => closed
      PROVE  /\ <<Frame(op, S)>> \o s \in Seq(Frames)
             /\ StackOK(<<Frame(op, S)>> \o s, objects, closed)
             /\ DyingOf(<<Frame(op, S)>> \o s) = DyingOf(s)
  <2> DEFINE f == Frame(op, S)
  <2>1. f \in Frames /\ f.op = op /\ op # "dtor"
    BY DEF Frame, Frames
  <2> HIDE DEF f
  <2>2. <<f>> \o s \in Seq(Frames)
    BY <2>1, Push
  <2>3. f.op # "dtor" /\ (f.op \in {"clear", "teardown"} => closed)
    BY <1>2, <2>1
  <2>4. StackOK(<<f>> \o s, objects, closed)
    BY <1>2, <2>1, <2>3, PushOK
  <2>5. DyingOf(<<f>> \o s) = DyingOf(s)
    BY <2>1, <2>3, PushDying
  <2>. QED BY <2>2, <2>4, <2>5 DEF f
<1>3. ASSUME NEW o \in Obj, FreeOne(o)
      PROVE  RInv' /\ HeapStep
  <2> DEFINE rest == <<Frame("free", Top.objs \ {o})>> \o Rest
  <2>1. At("free") /\ o \in Top.objs /\ Drop(o, rest) /\ UNCHANGED <<var, child, closed>>
    BY <1>3 DEF FreeOne
  <2>2. o \in objects
    BY <2>1, TopFrame, PointedToIsListed
  <2>3. Top.objs \ {o} \in SUBSET Obj /\ Rest \in Seq(Frames)
        /\ StackOK(Rest, objects, closed) /\ DyingOf(Rest) = DyingOf(stack)
    BY <1>1, <2>1
  <2>4. rest \in Seq(Frames) /\ StackOK(rest, objects, closed) /\ DyingOf(rest) = DyingOf(stack)
    BY <1>2, <2>3
  <2> HIDE DEF rest
  <2>. QED BY <2>1, <2>2, <2>4, OwnPointerMoves
<1>4. ASSUME NEW o \in Obj, NextObject(o)
      PROVE  RInv' /\ HeapStep
  <2> DEFINE below == <<Frame("teardown", Top.objs \ {o})>> \o Rest
             rest == <<Frame("clear", {o})>> \o below
  <2>1. At("teardown") /\ UNCHANGED <<var, child, closed>>
    BY <1>4 DEF NextObject
  <2>2. Top.objs \ {o} \in SUBSET Obj /\ {o} \in SUBSET Obj /\ Rest \in Seq(Frames)
        /\ StackOK(Rest, objects, closed) /\ DyingOf(Rest) = DyingOf(stack) /\ closed
    BY <1>1, <2>1
  <2>3. <<Frame("clear", {o}), Frame("teardown", Top.objs \ {o})>> \o Rest = rest
    BY <2>2, PushedFrames
  <2>4. Repoint(o, ref, objects, rest)
    BY <1>4, <2>3 DEF NextObject
  <2>5. below \in Seq(Frames) /\ StackOK(below, objects, closed)
        /\ DyingOf(below) = DyingOf(Rest)
    BY <1>2, <2>2
  <2> HIDE DEF below
  <2>6. rest \in Seq(Frames) /\ StackOK(rest, objects, closed)
        /\ DyingOf(rest) = DyingOf(below)
    BY <1>2, <2>2, <2>5
  <2> HIDE DEF rest
  <2>. QED BY <2>1, <2>2, <2>4, <2>5, <2>6, OwnPointerMoves
<1>5. ASSUME ResetRef
      PROVE  RInv' /\ HeapStep
  <2>1. At("teardown") /\ Repoint(NULL, ref, objects, Rest) /\ UNCHANGED <<var, child, closed>>
    BY <1>5 DEF ResetRef
  <2>2. Rest \in Seq(Frames) /\ StackOK(Rest, objects, closed) /\ DyingOf(Rest) = DyingOf(stack)
    BY <1>1, <2>1
  <2>. QED BY <2>1, <2>2, OwnPointerMoves
<1>. QED BY <1>3, <1>4, <1>5

(* What the calls of the collector do, the program sees as the heap's own. *)
LEMMA CallIsHidden ==
  ASSUME IInv, RInv, OnlyGarbageIsTaken, Calls
  PROVE  RInv' /\ HeapStep
<1>1. ASSUME \/ Check \/ Collect \/ Unlinked \/ CollectDone \/ Cleared
      PROVE  RInv' /\ HeapStep
  <2>1. \E op : op # "dtor" /\ At(op)
    BY <1>1 DEF Check, Collect, Unlinked, CollectDone, Cleared
  <2>2. UNCHANGED <<objects, var, child, closed>>
    BY <1>1 DEF Check, Collect, Unlinked, CollectDone, Cleared
  <2>3. /\ Frame("collect", {}) \in Frames
        /\ Frame("collect", {}).op \notin {"dtor", "clear", "teardown"}
        /\ \A S \in SUBSET Obj : \A op \in {"unlink", "free"} :
              Frame(op, S) \in Frames /\ Frame(op, S).op \notin {"dtor", "clear", "teardown"}
    BY DEF Frame, Frames
  <2>4. Garbage \in SUBSET Obj
    BY GarbageIsListed
  <2>5. CASE Check
    BY <2>1, <2>2, <2>3, <2>5, Returns DEF Check
  <2>6. CASE Collect
    BY <2>1, <2>2, <2>3, <2>4, <2>6, Returns DEF Collect
  <2>7. CASE Unlinked
    <3>1. At("unlink") /\ stack' = <<Frame("free", Top.objs)>> \o Rest
      BY <2>7 DEF Unlinked
    <3>2. Top.objs \in SUBSET Obj
      BY <3>1, TopFrame
    <3>. QED BY <2>1, <2>2, <2>3, <3>1, <3>2, Returns
  <2>8. CASE CollectDone \/ Cleared
    BY <2>1, <2>2, <2>8, Returns DEF CollectDone, Cleared
  <2>. QED BY <1>1, <2>5, <2>6, <2>7, <2>8
<1>2. ASSUME NEW o \in Obj, NEW s \in Slot, DestroyMember(o, s)
      PROVE  RInv' /\ HeapStep
  <2>1. At("dtor") /\ o \in Top.objs /\ child[<<o, s>>] # NULL /\ Drop(child[<<o, s>>], stack)
        /\ child' = [child EXCEPT ![<<o, s>>] = NULL] /\ UNCHANGED <<var, closed>>
    BY <1>2 DEF DestroyMember
  <2>2. o \notin Live
    BY <2>1, DestroyedIsDead
  <2>. QED BY <2>1, <2>2, MemberGoneUnseen
<1>. QED BY <1>1, <1>2, MemoryGivenBack, MemberUnlinked, OwnPointers DEF Calls

(* While the program runs, nothing is being destroyed.                     *)
LEMMA IdleAlive ==
  ASSUME Running
  PROVE  /\ stack = <<>> /\ closed = FALSE /\ <<>> \in Seq(Frames)
         /\ DyingOf(<<>>) = {} /\ Alive = objects
         /\ \A objs, c : StackOK(<<>>, objs, c)
<1>1. stack = <<>> /\ ~closed /\ DyingOf(<<>>) = {} /\ <<>> \in Seq(Frames)
  BY DEF Running, DyingOf
<1>2. Alive = objects
  BY <1>1 DEF Alive, Dying, DyingOf
<1>3. \A objs, c : StackOK(<<>>, objs, c)
  BY DEF StackOK
<1>. QED BY <1>1, <1>2, <1>3

(* One smart pointer of the program changes: what that does to the memory. *)
LEMMA ProgramRepoint ==
  ASSUME IInv, Running, NEW q, NEW old \in ObjOrNull, old # NULL => old \in objects,
         NEW N \in SUBSET Obj, Repoint(q, old, objects \cup N, <<>>), closed' = closed
  PROVE  StackOK(stack', objects', closed') /\ Alive' = Alive \cup N
<1>1. /\ <<>> \in Seq(Frames) /\ DyingOf(<<>>) = {} /\ Alive = objects
      /\ StackOK(<<>>, objects \cup N, closed)
  BY IdleAlive
<1>2. old # NULL => old \in objects \cup N
  OBVIOUS
<1>3. /\ StackOK(stack', objects', closed)
      /\ objects' \cup DyingOf(stack') = (objects \cup N) \cup DyingOf(<<>>)
  BY <1>1, <1>2, RepointAlive
<1>4. Alive' = objects' \cup DyingOf(stack')
  BY DEF Alive, Dying, DyingOf
<1>. QED BY <1>1, <1>3, <1>4

(* The operations of the program are the heap's.                           *)
LEMMA NewIsNewObject ==
  ASSUME IInv, RInv, NEW v \in Var, NEW o \in Obj, New(v, o)
  PROVE  RInv' /\ HeapStep
<1>1. /\ Running /\ o \notin objects /\ Repoint(o, var[v], objects \cup {o}, <<>>)
      /\ var' = [var EXCEPT ![v] = o] /\ child' = child /\ closed' = closed
  BY DEF New
<1>2. TypeOK /\ var \in [Var -> ObjOrNull]
  BY DEF IInv, TypeOK
<1>3. var[v] \in ObjOrNull /\ (var[v] # NULL => var[v] \in objects)
  BY <1>2, PointedToIsListed DEF Pointees
<1>4. StackOK(stack', objects', closed') /\ Alive' = Alive \cup {o}
  BY <1>1, <1>3, ProgramRepoint
<1>5. o \notin Alive /\ stack = <<>> /\ closed = FALSE
  BY <1>1, IdleAlive
<1>6. Emptied'
  BY <1>1, <1>2, <1>4, EmptiedStays DEF RInv
<1>7. \A x \in {o}, s \in Slot : child[<<x, s>>] = NULL
  BY <1>5 DEF RInv, Emptied, Alive, Edge
<1>8. Pointees(var') \subseteq Live \cup {o}
  <2>1. Pointees(var) \subseteq Live
    BY <1>2, Pointers, ReachInClosed DEF Live
  <2>. QED BY <1>1, <1>2, <2>1 DEF Pointees
<1>9. View' = Visible(View, var')
  <2>1. Visible(child, var') = Visible(Visible(child, var), var')
    BY <1>2, <1>7, <1>8, ViewMoves
  <2>. QED BY <1>1, <2>1 DEF View
<1>10. Heap!NewObject(v, o)
  BY <1>1, <1>4, <1>5, <1>9, HeapOperators
     DEF Heap!NewObject, Heap!ProgramTurn, Alive, View
<1>11. HeapStep
  BY <1>10 DEF HeapStep, Heap!HeapNext
<1>. QED BY <1>4, <1>6, <1>11 DEF RInv

LEMMA AssignVarIsSetVariable ==
  ASSUME IInv, RInv, NEW v \in Var, NEW q \in ObjOrNull, AssignVar(v, q)
  PROVE  RInv' /\ HeapStep
<1>1. /\ Running /\ q \in Live \cup {NULL} /\ Repoint(q, var[v], objects, <<>>)
      /\ var' = [var EXCEPT ![v] = q] /\ child' = child /\ closed' = closed
  BY DEF AssignVar
<1>2. TypeOK /\ var \in [Var -> ObjOrNull]
  BY DEF IInv, TypeOK
<1>3. var[v] \in ObjOrNull /\ (var[v] # NULL => var[v] \in objects)
  BY <1>2, PointedToIsListed DEF Pointees
<1>4. StackOK(stack', objects', closed') /\ Alive' = Alive
  <2>1. PICK N \in SUBSET Obj : N = {}
    OBVIOUS
  <2>2. objects \cup N = objects /\ Alive \cup N = Alive
    BY <2>1
  <2>3. Repoint(q, var[v], objects \cup N, <<>>)
    BY <1>1, <2>2
  <2>. QED BY <1>1, <1>3, <2>2, <2>3, ProgramRepoint
<1>5. stack = <<>> /\ closed = FALSE
  BY <1>1, IdleAlive
<1>6. Emptied'
  BY <1>1, <1>2, <1>4, EmptiedStays DEF RInv
<1>8. Pointees(var') \subseteq Live
  <2>1. Pointees(var) \subseteq Live
    BY <1>2, Pointers, ReachInClosed DEF Live
  <2>. QED BY <1>1, <1>2, <2>1 DEF Pointees
<1>9. View' = Visible(View, var')
  <2>1. Visible(child, var') = Visible(Visible(child, var), var')
    <3>1. PICK N \in SUBSET Obj : N = {}
      OBVIOUS
    <3>2. Pointees(var') \subseteq Live \cup N
      BY <1>8
    <3>3. \A x \in N, s \in Slot : child[<<x, s>>] = NULL
      BY <3>1
    <3>. QED BY <1>2, <3>2, <3>3, ViewMoves
  <2>. QED BY <1>1, <2>1 DEF View
<1>10. Heap!SetVariable(v, q)
  BY <1>1, <1>2, <1>4, <1>5, <1>9, HeapOperators, HeapReachable
     DEF Heap!SetVariable, Heap!ProgramTurn, Alive, View
<1>11. HeapStep
  BY <1>10, HeapOperators DEF HeapStep, Heap!HeapNext
<1>. QED BY <1>4, <1>6, <1>11 DEF RInv

LEMMA AssignMemberIsSetMember ==
  ASSUME IInv, RInv, NEW o \in Obj, NEW s \in Slot, NEW q \in ObjOrNull, AssignMember(o, s, q)
  PROVE  RInv' /\ HeapStep
<1>1. /\ Running /\ o \in Live /\ q \in Live \cup {NULL}
      /\ Repoint(q, child[<<o, s>>], objects, <<>>)
      /\ child' = [child EXCEPT ![<<o, s>>] = q] /\ var' = var /\ closed' = closed
  BY DEF AssignMember
<1>2. TypeOK /\ <<o, s>> \in Edge /\ child \in [Edge -> ObjOrNull]
  BY DEF IInv, TypeOK, Edge
<1>3. child[<<o, s>>] \in ObjOrNull /\ (child[<<o, s>>] # NULL => child[<<o, s>>] \in objects)
  BY <1>2, PointedToIsListed DEF Pointees
<1>4. StackOK(stack', objects', closed') /\ Alive' = Alive
  <2>1. PICK N \in SUBSET Obj : N = {}
    OBVIOUS
  <2>2. objects \cup N = objects /\ Alive \cup N = Alive
    BY <2>1
  <2>3. Repoint(q, child[<<o, s>>], objects \cup N, <<>>)
    BY <1>1, <2>2
  <2>. QED BY <1>1, <1>3, <2>2, <2>3, ProgramRepoint
<1>5. stack = <<>> /\ closed = FALSE /\ o \in Alive
  BY <1>1, IdleAlive, LiveIsListed
<1>6. Emptied'
  <2>1. \E e \in Edge, p \in ObjOrNull : e[1] \in Alive /\ child' = [child EXCEPT ![e] = p]
    BY <1>1, <1>2, <1>5
  <2>. QED BY <1>2, <1>4, <2>1, EmptiedStays DEF RInv
<1>7. View' = Visible([View EXCEPT ![<<o, s>>] = q], var)
  <2>1. Visible([child EXCEPT ![<<o, s>>] = q], var)
          = Visible([Visible(child, var) EXCEPT ![<<o, s>>] = q], var)
    BY <1>1, <1>2, ViewLinked
  <2>. QED BY <1>1, <2>1 DEF View
<1>8. Heap!SetMember(o, s, q)
  BY <1>1, <1>2, <1>4, <1>5, <1>7, HeapOperators, HeapReachable
     DEF Heap!SetMember, Heap!ProgramTurn, Alive, View
<1>9. HeapStep
  BY <1>8, HeapOperators DEF HeapStep, Heap!HeapNext
<1>. QED BY <1>4, <1>6, <1>9 DEF RInv

(* The program calls the collector, or its destructor.                     *)
LEMMA CollectorIsCalled ==
  ASSUME IInv, RInv, CallCollect \/ Close
  PROVE  RInv' /\ HeapStep
<1>1. Running /\ UNCHANGED <<objects, var, child>>
  BY DEF CallCollect, Close
<1>2. /\ stack = <<>> /\ closed = FALSE /\ <<>> \in Seq(Frames) /\ Alive = objects
      /\ DyingOf(<<>>) = {} /\ \A objs, c : StackOK(<<>>, objs, c)
  BY <1>1, IdleAlive
<1>3. PICK f \in Frames : /\ f.op # "dtor" /\ stack' = <<f>> \o <<>>
                          /\ f.op \in {"clear", "teardown"} => closed'
  <2>1. /\ Frame("collect", {}) \in Frames /\ Frame("collect", {}).op = "collect"
        /\ Frame("teardown", objects) \in Frames
        /\ Frame("teardown", objects).op = "teardown"
    BY DEF Frame, Frames, IInv, TypeOK
  <2>2. \A f \in Frames : <<f>> = <<f>> \o <<>>
    OBVIOUS
  <2>3. CASE CallCollect
    BY <2>1, <2>2, <2>3 DEF CallCollect
  <2>4. CASE Close
    BY <2>1, <2>2, <2>4 DEF Close
  <2>. QED BY <2>3, <2>4
<1>4. StackOK(stack', objects', closed') /\ DyingOf(stack') = {}
  <2>1. StackOK(<<>>, objects, closed')
    BY <1>2
  <2>2. StackOK(<<f>> \o <<>>, objects, closed')
    BY <1>2, <1>3, <2>1, PushOK
  <2>3. DyingOf(<<f>> \o <<>>) = {}
    BY <1>2, <1>3, PushDying
  <2>. QED BY <1>1, <1>3, <2>2, <2>3
<1>5. Alive' = Alive /\ View' = View
  BY <1>1, <1>2, <1>4 DEF Alive, Dying, DyingOf, View
<1>6. stack' # <<>>
  BY <1>2, <1>3, Push
<1>7. RInv'
  <2>1. Emptied'
    BY <1>1, <1>5, EmptiedStays DEF RInv, IInv
  <2>. QED BY <1>4, <2>1 DEF RInv
<1>8. CASE CallCollect
  <2>1. closed' = closed
    BY <1>8 DEF CallCollect
  <2>. QED BY <1>1, <1>5, <1>7, <2>1, Unnoticed
<1>9. CASE Close
  <2>1. Heap!Shut
    BY <1>1, <1>2, <1>5, <1>6, <1>9 DEF Heap!Shut, Close, Alive, View
  <2>. QED BY <1>7, <2>1 DEF HeapStep, Heap!HeapNext
<1>. QED BY <1>8, <1>9

(* Every step is one of the heap, or none.                                 *)
LEMMA NextIsHeapStep ==
  IInv /\ RInv /\ OnlyGarbageIsTaken /\ [Next]_vars => RInv' /\ HeapStep
<1> SUFFICES ASSUME IInv, RInv, OnlyGarbageIsTaken, [Next]_vars
             PROVE  RInv' /\ HeapStep
  OBVIOUS
<1>1. CASE Program
  BY <1>1, NewIsNewObject, AssignVarIsSetVariable, AssignMemberIsSetMember,
     CollectorIsCalled DEF Program
<1>2. CASE Calls
  BY <1>2, CallIsHidden
<1>3. CASE UNCHANGED vars
  <2>1. UNCHANGED <<objects, var, child, closed, stack>>
    BY <1>3 DEF vars
  <2>2. Alive' = Alive /\ View' = View /\ StackOK(stack', objects', closed')
    BY <2>1 DEF Alive, Dying, View, RInv
  <2>3. TypeOK
    BY DEF IInv
  <2>. QED BY <2>1, <2>2, <2>3, Quiet
<1>. QED BY <1>1, <1>2, <1>3 DEF Next, Over

(* CycleCollector implements GCHeap: the program never sees an object that *)
(* it can reach, or a link of one, change or vanish because destructors    *)
(* run, a collection unlinks what it took or memory is given back; only    *)
(* the collector's own destructor cuts links under the program.            *)
THEOREM CollectorIsInvisible == Spec => HeapIsPreserved
<1>1. Init => RInv /\ Heap!HeapInit
  BY HeapStart
<1>2. IInv /\ RInv /\ OnlyGarbageIsTaken /\ [Next]_vars
        => RInv' /\ [Heap!HeapNext]_(Heap!heapVars)
  BY NextIsHeapStep DEF HeapStep
<1>. QED BY <1>1, <1>2, Invariance, NothingLiveIsTaken, PTL
         DEF Spec, HeapIsPreserved, Heap!HeapSpec


-----------------------------------------------------------------------------
(* A collection takes all garbage.                                         *)

(* Where the collector can find what the program has lost: the possible    *)
(* roots, and what destructors, collections and the program still hold.    *)
Marked == (cycleRoots \cap objects) \cup Dying
Owned == Pointees(var) \cup Marked \cup held \cup ({ref} \ {NULL})
Found == objects \subseteq ReachIn(child, Owned)

(* What is owned are objects.                                              *)
LEMMA OwnedType ==
  ASSUME IInv, RInv
  PROVE  Owned \in SUBSET Obj /\ Dying \in SUBSET Obj
<1>1. Dying \in SUBSET Obj
  <2> SUFFICES ASSUME NEW i \in DOMAIN stack, stack[i].op = "dtor", NEW x \in stack[i].objs
               PROVE  x \in Obj
    BY DEF Dying
  <2>1. i \in 1..Len(stack)
    BY DEF IInv, TypeOK
  <2>. QED BY <2>1 DEF RInv, StackOK
<1>2. Pointees(var) \in SUBSET Obj /\ ref \in ObjOrNull /\ held \in SUBSET Obj
  BY Pointers DEF IInv, TypeOK
<1>3. objects \in SUBSET Obj
  BY DEF IInv, TypeOK
<1>. QED BY <1>1, <1>2, <1>3 DEF Owned, Marked, ObjOrNull

(* ... after a step as well.                                               *)
LEMMA OwnedTypeNext ==
  ASSUME IInv', RInv'
  PROVE  Owned' \in SUBSET Obj
<1>1. Dying' \in SUBSET Obj
  <2> SUFFICES ASSUME NEW i \in DOMAIN stack', stack'[i].op = "dtor", NEW x \in stack'[i].objs
               PROVE  x \in Obj
    BY DEF Dying
  <2>1. i \in 1..Len(stack')
    BY DEF IInv, TypeOK
  <2>. QED BY <2>1 DEF RInv, StackOK
<1>2. Pointees(var)' \in SUBSET Obj /\ ref' \in ObjOrNull /\ held' \in SUBSET Obj
      /\ objects' \in SUBSET Obj
  BY DEF Pointees, IInv, TypeOK, ObjOrNull
<1>. QED BY <1>1, <1>2 DEF Owned, Marked, ObjOrNull

(* The links lead where they led, or what they led to is owned.            *)
Kept == \A e \in Edge : child[e] # NULL => child[e] = child'[e] \/ child[e] \in Owned'

LEMMA KeptCloses ==
  ASSUME TypeOK, TypeOK', Owned' \in SUBSET Obj, Kept
  PROVE  /\ ReachIn(child, Owned)' \in SUBSET Obj /\ Closed(child, ReachIn(child, Owned)')
         /\ Owned' \subseteq ReachIn(child, Owned)'
<1> DEFINE T == ReachIn(child', Owned')
<1>1. /\ T \in SUBSET Obj /\ Owned' \subseteq T
      /\ \A o \in T, s \in Slot : child'[<<o, s>>] \in Obj => child'[<<o, s>>] \in T
  BY ReachInClosed
<1>2. \A o \in T, s \in Slot : <<o, s>> \in Edge /\ child[<<o, s>>] \in ObjOrNull
  BY <1>1, Pointers
<1>3. ASSUME NEW o \in T, NEW s \in Slot, child[<<o, s>>] # NULL
      PROVE  child[<<o, s>>] \in T
  <2>1. child[<<o, s>>] \in Obj
    BY <1>2, <1>3 DEF ObjOrNull
  <2>2. child[<<o, s>>] = child'[<<o, s>>] \/ child[<<o, s>>] \in Owned'
    BY <1>2, <1>3 DEF Kept
  <2>. QED BY <1>1, <2>1, <2>2
<1>4. ReachIn(child, Owned)' = T
  BY DEF ReachIn, Closed
<1> HIDE DEF T
<1>5. Closed(child, T)
  BY <1>3 DEF Closed
<1>. QED BY <1>1, <1>4, <1>5

(* So what could be found can be found.                                    *)
LEMMA FoundStays ==
  ASSUME TypeOK, TypeOK', Owned' \in SUBSET Obj, Kept, Found,
         Owned \subseteq ReachIn(child, Owned)', objects' \subseteq objects \cup Owned'
  PROVE  Found'
<1>1. PICK T : T = ReachIn(child, Owned)'
  OBVIOUS
<1>2. T \in SUBSET Obj /\ Closed(child, T) /\ Owned' \subseteq T
  BY <1>1, KeptCloses
<1>3. ReachIn(child, Owned) \subseteq T
  BY <1>1, <1>2, ReachInLeast
<1>. QED BY <1>1, <1>2, <1>3 DEF Found

(* A release leaves the object on the list with its flag, or starts its    *)
(* destructor; an addRef clears the flag of that object only.              *)
LEMMA ReleaseMarks ==
  ASSUME NEW o \in Obj, NEW cnt, NEW rts, NEW n, NEW objs, o \in objs,
         NEW rest \in Seq(Frames), ReleaseIn(o, cnt, rts, n, objs, rest)
  PROVE  /\ o \in Marked' /\ (rts \cap objs) \cup DyingOf(rest) \subseteq Marked'
         /\ objects' \subseteq objs
<1>1. Dying' = DyingOf(stack')
  BY DEF Dying, DyingOf
<1>2. CASE objects' = objs \ {o} /\ cycleRoots' = rts \ {o}
           /\ stack' = <<Frame("dtor", {o})>> \o rest
  <2>1. /\ Frame("dtor", {o}) \in Frames /\ Frame("dtor", {o}).op = "dtor"
        /\ Frame("dtor", {o}).objs = {o}
    BY DEF Frame, Frames
  <2>2. Dying' = DyingOf(rest) \cup {o}
    BY <1>1, <1>2, <2>1, PushDying
  <2>. QED BY <1>2, <2>2 DEF Marked
<1>3. CASE objects' = objs /\ cycleRoots' = rts \cup {o}
           /\ stack' = <<Frame("check", {})>> \o rest
  <2>1. Frame("check", {}) \in Frames /\ Frame("check", {}).op = "check"
    BY DEF Frame, Frames
  <2>2. Dying' = DyingOf(rest)
    BY <1>1, <1>3, <2>1, PushDying
  <2>. QED BY <1>3, <2>2 DEF Marked
<1>. QED BY <1>2, <1>3 DEF ReleaseIn

LEMMA RepointMarks ==
  ASSUME NEW q, NEW old \in ObjOrNull, NEW objs, old # NULL => old \in objs,
         NEW rest \in Seq(Frames), Repoint(q, old, objs, rest)
  PROVE  /\ old # NULL => old \in Marked'
         /\ ((cycleRoots \ {q}) \cap objs) \cup DyingOf(rest) \subseteq Marked'
         /\ objects' \subseteq objs
<1>1. CASE old = NULL
  <2>1. objects' = objs /\ cycleRoots' = cycleRoots \ ({q} \ {NULL}) /\ stack' = rest
    BY <1>1 DEF Repoint
  <2>2. Dying' = DyingOf(rest)
    BY <2>1 DEF Dying, DyingOf
  <2>. QED BY <1>1, <2>1, <2>2 DEF Marked
<1>2. CASE old # NULL
  <2>1. PICK cnt, n : ReleaseIn(old, cnt, cycleRoots \ ({q} \ {NULL}), n, objs, rest)
    BY <1>2 DEF Repoint
  <2>2. old \in Obj /\ old \in objs
    BY <1>2 DEF ObjOrNull
  <2>3. PICK rts : rts = cycleRoots \ ({q} \ {NULL})
    OBVIOUS
  <2>4. /\ old \in Marked' /\ (rts \cap objs) \cup DyingOf(rest) \subseteq Marked'
        /\ objects' \subseteq objs
    BY <2>1, <2>2, <2>3, ReleaseMarks
  <2>. QED BY <2>3, <2>4
<1>. QED BY <1>1, <1>2

(* A call that only works on the stack and runs no destructor.             *)
LEMMA StackFound ==
  ASSUME Found, UNCHANGED <<objects, cycleRoots, var, child, held, ref>>, Dying' = Dying
  PROVE  Found'
<1>1. Owned' = Owned
  BY DEF Owned, Marked
<1>2. ReachIn(child, Owned)' = ReachIn(child, Owned)
  BY <1>1
<1>. QED BY <1>2 DEF Found

(* A call that comes back, or is followed by one that is no destructor.    *)
LEMMA DyingStays ==
  ASSUME IInv, NEW op, At(op), op # "dtor",
         \/ stack' = Rest
         \/ \E f \in Frames : f.op # "dtor" /\ stack' = <<f>> \o Rest
  PROVE  Dying' = Dying
<1>1. stack \in Seq(Frames) /\ stack # <<>> /\ Head(stack).op = op
      /\ Rest \in Seq(Frames) /\ Rest = Tail(stack)
  BY TopFrame
<1>2. DyingOf(Rest) = DyingOf(stack)
  BY <1>1, PopDying
<1>3. ASSUME NEW f \in Frames, f.op # "dtor", stack' = <<f>> \o Rest
      PROVE  DyingOf(stack') = DyingOf(Rest)
  <2>1. DyingOf(<<f>> \o Rest) = DyingOf(Rest) \cup (IF f.op = "dtor" THEN f.objs ELSE {})
    BY <1>1, PushDying
  <2>2. DyingOf(<<f>> \o Rest) = DyingOf(Rest)
    BY <1>3, <2>1
  <2>. QED BY <1>3, <2>2
<1>4. DyingOf(stack') = DyingOf(stack)
  BY <1>2, <1>3
<1>. QED BY <1>4 DEF Dying, DyingOf

(* A member is released: what it led to is marked.                         *)
LEMMA MemberFound ==
  ASSUME IInv, RInv, IInv', RInv', Found, NEW o \in Obj, NEW s \in Slot,
         child[<<o, s>>] # NULL, Drop(child[<<o, s>>], stack),
         child' = [child EXCEPT ![<<o, s>>] = NULL], UNCHANGED <<var, held, ref>>
  PROVE  Found'
<1>0. TypeOK /\ TypeOK' /\ Owned' \in SUBSET Obj
  BY OwnedTypeNext DEF IInv
<1>1. stack \in Seq(Frames) /\ <<o, s>> \in Edge /\ DOMAIN child = Edge
  BY <1>0 DEF TypeOK, Edge
<1>2. child[<<o, s>>] \in objects /\ child[<<o, s>>] \in Obj
  <2>1. child[<<o, s>>] \in objects
    BY <1>0, <1>1, PointedToIsListed DEF Pointees
  <2>. QED BY <1>0, <2>1 DEF TypeOK
<1>3. ReleaseIn(child[<<o, s>>], refs, cycleRoots, numRoots, objects, stack)
  BY DEF Drop
<1>4. /\ child[<<o, s>>] \in Marked' /\ (cycleRoots \cap objects) \cup DyingOf(stack) \subseteq Marked'
      /\ objects' \subseteq objects
  BY <1>1, <1>2, <1>3, ReleaseMarks
<1>5. Owned \subseteq Owned'
  BY <1>4 DEF Owned, Marked, Dying, DyingOf
<1>6. Kept
  BY <1>1, <1>4 DEF Kept, Owned
<1>. QED BY <1>0, <1>4, <1>5, <1>6, FoundStays, KeptCloses

(* Memory is given back: it has no links.                                  *)
LEMMA BackFound ==
  ASSUME IInv, RInv, IInv', RInv', Found, Destroyed
  PROVE  Found'
<1> DEFINE f == Frame("check", {})
<1>1. /\ At("dtor") /\ stack' = <<f>> \o Rest
      /\ UNCHANGED <<objects, cycleRoots, var, child, held, ref>>
      /\ \A x \in Top.objs, s \in Slot : child[<<x, s>>] = NULL
  BY DEF Destroyed
<1>2. PICK o \in Obj : /\ Top.objs = {o} /\ o \notin objects
                       /\ DyingOf(stack) = DyingOf(Rest) \cup {o}
  BY <1>1, DestroyedIsDead
<1>3. Rest \in Seq(Frames)
  BY <1>1, TopFrame
<1>4. f \in Frames /\ f.op = "check"
  BY DEF Frame, Frames
<1> HIDE DEF f
<1>5. DyingOf(stack') = DyingOf(Rest)
  BY <1>1, <1>3, <1>4, PushDying
<1>6. Dying \subseteq Dying' \cup {o}
  BY <1>2, <1>5 DEF Dying, DyingOf
<1>7. Owned \subseteq Owned' \cup {o}
  BY <1>1, <1>6 DEF Owned, Marked
<1>8. TypeOK /\ TypeOK' /\ Owned' \in SUBSET Obj /\ Kept
  BY <1>1, OwnedTypeNext DEF IInv, Kept
<1>9. PICK T : T = ReachIn(child, Owned)'
  OBVIOUS
<1>10. T \in SUBSET Obj /\ Closed(child, T) /\ Owned' \subseteq T
  BY <1>8, <1>9, KeptCloses
<1>11. Closed(child, T \cup {o})
  BY <1>1, <1>2, <1>10 DEF Closed
<1>12. ReachIn(child, Owned) \subseteq T \cup {o}
  <2>1. T \cup {o} \in SUBSET Obj /\ Owned \subseteq T \cup {o}
    BY <1>7, <1>10
  <2>. QED BY <1>11, <2>1, ReachInLeast
<1>. QED BY <1>1, <1>2, <1>9, <1>12 DEF Found

(* The collection takes what it has found.                                 *)
LEMMA CollectFound ==
  ASSUME IInv, RInv, IInv', RInv', Found, Collect
  PROVE  Found'
<1>1. UNCHANGED <<objects, var, child, ref>> /\ At("collect")
  BY DEF Collect
<1>2. Dying' = Dying
  <2>1. Frame("unlink", Garbage) \in Frames /\ Frame("unlink", Garbage).op = "unlink"
    BY GarbageIsListed DEF Frame, Frames
  <2>. QED BY <1>1, <2>1, DyingStays DEF Collect
<1>3. CASE UNCHANGED <<cycleRoots, held>>
  BY <1>1, <1>2, <1>3, StackFound
<1>4. CASE held' = held \cup Garbage /\ cycleRoots' = cycleRoots \ Garbage
  <2>1. Owned \subseteq Owned'
    BY <1>1, <1>2, <1>4 DEF Owned, Marked
  <2>2. Kept /\ TypeOK /\ TypeOK' /\ Owned' \in SUBSET Obj
    BY <1>1, OwnedTypeNext DEF Kept, IInv
  <2>. QED BY <1>1, <2>1, <2>2, FoundStays, KeptCloses
<1>. QED BY <1>3, <1>4 DEF Collect

(* The pointers of the collector itself move.                              *)
LEMMA OwnFound ==
  ASSUME IInv, RInv, IInv', RInv', Found, NEW rest \in Seq(Frames),
         DyingOf(rest) = DyingOf(stack), UNCHANGED <<var, child>>,
         \/ \E o \in objects : Drop(o, rest) /\ held' = held \ {o} /\ ref' = ref
         \/ \E q \in ObjOrNull : Repoint(q, ref, objects, rest) /\ ref' = q /\ held' = held
  PROVE  Found'
<1>1. TypeOK /\ TypeOK' /\ Owned' \in SUBSET Obj /\ Dying = DyingOf(stack)
  BY OwnedTypeNext DEF IInv, Dying, DyingOf
<1>2. Owned \subseteq Owned' /\ objects' \subseteq objects
  <2>1. ASSUME NEW o \in objects, Drop(o, rest), held' = held \ {o}, ref' = ref
        PROVE  Owned \subseteq Owned' /\ objects' \subseteq objects
    <3>1. o \in Obj
      BY <1>1 DEF TypeOK
    <3>2. ReleaseIn(o, refs, cycleRoots, numRoots, objects, rest)
      BY <2>1 DEF Drop
    <3>3. /\ o \in Marked' /\ (cycleRoots \cap objects) \cup DyingOf(rest) \subseteq Marked'
          /\ objects' \subseteq objects
      BY <3>1, <3>2, ReleaseMarks
    <3>. QED BY <1>1, <2>1, <3>3 DEF Owned, Marked
  <2>2. ASSUME NEW q \in ObjOrNull, Repoint(q, ref, objects, rest), ref' = q, held' = held
        PROVE  Owned \subseteq Owned' /\ objects' \subseteq objects
    <3>1. ref \in ObjOrNull /\ (ref # NULL => ref \in objects)
      BY PointedToIsListed DEF IInv, TypeOK
    <3>2. /\ ref # NULL => ref \in Marked'
          /\ ((cycleRoots \ {q}) \cap objects) \cup DyingOf(rest) \subseteq Marked'
          /\ objects' \subseteq objects
      BY <2>2, <3>1, RepointMarks
    <3>3. NULL \notin objects
      BY NullAssumption, <1>1 DEF TypeOK
    <3>. QED BY <1>1, <2>2, <3>2, <3>3 DEF Owned, Marked
  <2>. QED BY <2>1, <2>2
<1>3. Kept
  BY DEF Kept
<1>. QED BY <1>1, <1>2, <1>3, FoundStays, KeptCloses

(* The program assigns to a variable or to a member.                       *)
LEMMA AssignFound ==
  ASSUME IInv, RInv, IInv', RInv', Found, Running, UNCHANGED <<held, ref>>,
         NEW q \in ObjOrNull, NEW old \in ObjOrNull, old # NULL => old \in objects,
         NEW N \in SUBSET Obj, N \subseteq Pointees(var'),
         Repoint(q, old, objects \cup N, <<>>),
         \A p \in Pointees(var) : p \in Pointees(var') \/ p = old,
         \A e \in Edge : child[e] # NULL => child[e] = child'[e] \/ child[e] = old,
         \/ q \in Pointees(var') \cup {NULL}
         \/ q \in Live \cup {NULL} /\ var' = var
  PROVE  Found'
<1>1. /\ <<>> \in Seq(Frames) /\ DyingOf(<<>>) = {} /\ stack = <<>>
      /\ old # NULL => old \in objects \cup N
  BY IdleAlive
<1>2. /\ old # NULL => old \in Marked'
      /\ ((cycleRoots \ {q}) \cap (objects \cup N)) \cup DyingOf(<<>>) \subseteq Marked'
      /\ objects' \subseteq objects \cup N
  BY <1>1, RepointMarks
<1>3. Dying = {}
  BY <1>1 DEF Dying, DyingOf
<1>4. TypeOK /\ TypeOK' /\ Owned' \in SUBSET Obj
  BY OwnedTypeNext DEF IInv
<1>5. NULL \notin Pointees(var)
  BY DEF Pointees
<1>6. Marked' \subseteq Owned' /\ Pointees(var') \subseteq Owned'
  BY DEF Owned
<1>7. Kept
  BY <1>2, <1>6 DEF Kept
<1>8. PICK T : T = ReachIn(child, Owned)'
  OBVIOUS
<1>9. T \in SUBSET Obj /\ Closed(child, T) /\ Owned' \subseteq T
  BY <1>4, <1>7, <1>8, KeptCloses
<1>10. q \in T \cup {NULL}
  <2>1. CASE q \in Live /\ var' = var
    <3>1. Pointees(var) \subseteq T
      BY <1>6, <1>9, <2>1
    <3>2. Live \subseteq T
      BY <1>9, <3>1, ReachInLeast DEF Live
    <3>. QED BY <2>1, <3>2
  <2>. QED BY <1>6, <1>9, <2>1
<1>11. Pointees(var) \subseteq Owned'
  BY <1>2, <1>5, <1>6
<1>12. cycleRoots \cap objects \subseteq Owned' \cup ({q} \ {NULL})
  <2>1. NULL \notin objects
    BY <1>4, NullAssumption DEF TypeOK
  <2>. QED BY <1>2, <1>6, <2>1
<1>13. held \cup ({ref} \ {NULL}) \subseteq Owned'
  BY DEF Owned
<1>14. Owned \subseteq T
  BY <1>3, <1>9, <1>10, <1>11, <1>12, <1>13 DEF Owned, Marked
<1>15. objects' \subseteq objects \cup Owned'
  BY <1>2, <1>6
<1>16. Owned \subseteq ReachIn(child, Owned)'
  BY <1>8, <1>14
<1>. QED BY <1>4, <1>7, <1>15, <1>16, FoundStays

(* Nothing the program does puts an object out of the collector's reach.   *)
LEMMA ProgramFound ==
  ASSUME IInv, RInv, IInv', RInv', Found, Program
  PROVE  Found'
<1>0. TypeOK /\ TypeOK'
  BY DEF IInv
<1>1. ASSUME NEW v \in Var, NEW q \in ObjOrNull, NEW N \in SUBSET Obj, N \subseteq {q},
             q = NULL => N = {}, Running, UNCHANGED <<child, held, ref>>,
             Repoint(q, var[v], objects \cup N, <<>>), var' = [var EXCEPT ![v] = q]
      PROVE  Found'
  <2>1. var[v] \in ObjOrNull /\ (var[v] # NULL => var[v] \in objects)
    BY <1>0, PointedToIsListed DEF Pointees, TypeOK
  <2>2. DOMAIN var = Var /\ DOMAIN var' = Var /\ var'[v] = q
    BY <1>0, <1>1 DEF TypeOK
  <2>3. \A u \in Var : u # v => var'[u] = var[u]
    BY <1>0, <1>1 DEF TypeOK
  <2>4. q \in Pointees(var') \cup {NULL}
    BY <2>2 DEF Pointees
  <2>5. \A p \in Pointees(var) : p \in Pointees(var') \/ p = var[v]
    BY <2>2, <2>3 DEF Pointees
  <2>6. N \subseteq Pointees(var')
    BY <1>1, <2>4
  <2>7. PICK old : old = var[v]
    OBVIOUS
  <2>8. \A e \in Edge : child[e] # NULL => child[e] = child'[e] \/ child[e] = old
    BY <1>1
  <2>. QED BY <1>1, <2>1, <2>4, <2>5, <2>6, <2>7, <2>8, AssignFound
<1>2. ASSUME NEW v \in Var, NEW o \in Obj, New(v, o)
      PROVE  Found'
  <2>1. /\ Running /\ Repoint(o, var[v], objects \cup {o}, <<>>)
        /\ var' = [var EXCEPT ![v] = o] /\ UNCHANGED <<child, held, ref>>
    BY <1>2 DEF New
  <2>2. o \in ObjOrNull /\ {o} \in SUBSET Obj /\ o # NULL
    BY NullAssumption DEF ObjOrNull
  <2>. QED BY <1>1, <2>1, <2>2
<1>3. ASSUME NEW v \in Var, NEW q \in ObjOrNull, AssignVar(v, q)
      PROVE  Found'
  <2>1. /\ Running /\ Repoint(q, var[v], objects, <<>>)
        /\ var' = [var EXCEPT ![v] = q] /\ UNCHANGED <<child, held, ref>>
    BY <1>3 DEF AssignVar
  <2>2. PICK N \in SUBSET Obj : N = {}
    OBVIOUS
  <2>3. objects \cup N = objects
    BY <2>2
  <2>4. Repoint(q, var[v], objects \cup N, <<>>)
    BY <2>1, <2>3
  <2>. QED BY <1>1, <2>1, <2>2, <2>4
<1>4. ASSUME NEW o \in Obj, NEW s \in Slot, NEW q \in ObjOrNull, AssignMember(o, s, q)
      PROVE  Found'
  <2>1. /\ Running /\ q \in Live \cup {NULL} /\ Repoint(q, child[<<o, s>>], objects, <<>>)
        /\ child' = [child EXCEPT ![<<o, s>>] = q] /\ UNCHANGED <<var, held, ref>>
    BY <1>4 DEF AssignMember
  <2>2. <<o, s>> \in Edge /\ DOMAIN child = Edge
    BY <1>0 DEF TypeOK, Edge
  <2>3. child[<<o, s>>] \in ObjOrNull /\ (child[<<o, s>>] # NULL => child[<<o, s>>] \in objects)
    BY <1>0, <2>2, PointedToIsListed DEF Pointees, TypeOK
  <2>4. PICK old \in ObjOrNull : old = child[<<o, s>>]
    BY <2>3
  <2>5. \A e \in Edge : child[e] # NULL => child[e] = child'[e] \/ child[e] = old
    BY <2>1, <2>2, <2>4
  <2>6. PICK N \in SUBSET Obj : N = {}
    OBVIOUS
  <2>7. objects \cup N = objects /\ N \subseteq Pointees(var')
    BY <2>6
  <2>8. Repoint(q, old, objects \cup N, <<>>)
    BY <2>1, <2>4, <2>7
  <2>9. \A p \in Pointees(var) : p \in Pointees(var') \/ p = old
    BY <2>1
  <2>10. old # NULL => old \in objects
    BY <2>3, <2>4
  <2>. QED BY <2>1, <2>5, <2>7, <2>8, <2>9, <2>10, AssignFound
<1>5. ASSUME CallCollect \/ Close
      PROVE  Found'
  <2>1. /\ Running /\ UNCHANGED <<objects, cycleRoots, var, child, held, ref>>
        /\ \E op \in {"collect", "teardown"}, S \in SUBSET Obj : stack' = <<Frame(op, S)>>
    BY <1>0, <1>5 DEF CallCollect, Close, TypeOK
  <2>2. PICK op \in {"collect", "teardown"}, S \in SUBSET Obj : stack' = <<Frame(op, S)>>
    BY <2>1
  <2>0. Frame(op, S) \in Frames /\ Frame(op, S).op # "dtor"
    BY DEF Frame, Frames
  <2>3. PICK f \in Frames : f = Frame(op, S) /\ f.op # "dtor"
    BY <2>0
  <2>4. stack' = <<f>> \o <<>> /\ <<>> \in Seq(Frames)
    BY <2>2, <2>3
  <2>5. DyingOf(<<f>> \o <<>>) = DyingOf(<<>>)
    BY <2>3, <2>4, PushDying
  <2>6. Dying' = Dying
    BY <2>1, <2>4, <2>5 DEF Running, Dying, DyingOf
  <2>. QED BY <2>1, <2>6, StackFound
<1>. QED BY <1>2, <1>3, <1>4, <1>5 DEF Program

(* Nor does any call.                                                      *)
LEMMA CallFound ==
  ASSUME IInv, RInv, IInv', RInv', Found, Calls
  PROVE  Found'
<1>1. ASSUME \/ Check \/ Unlinked \/ CollectDone \/ Cleared
      PROVE  Found'
  <2>1. PICK op : op # "dtor" /\ At(op)
    BY <1>1 DEF Check, Unlinked, CollectDone, Cleared
  <2>2. UNCHANGED <<objects, cycleRoots, var, child, held, ref>>
    BY <1>1 DEF Check, Unlinked, CollectDone, Cleared
  <2>3. Top.objs \in SUBSET Obj
    BY <2>1, TopFrame
  <2>4. \/ stack' = Rest
        \/ \E o \in {"collect", "free"}, S \in SUBSET Obj : stack' = <<Frame(o, S)>> \o Rest
    BY <1>1, <2>3 DEF Check, Unlinked, CollectDone, Cleared
  <2>5. \A o \in {"collect", "free"}, S \in SUBSET Obj :
           Frame(o, S) \in Frames /\ Frame(o, S).op # "dtor"
    BY DEF Frame, Frames
  <2>6. \/ stack' = Rest
        \/ \E f \in Frames : f.op # "dtor" /\ stack' = <<f>> \o Rest
    BY <2>4, <2>5
  <2>7. Dying' = Dying
    BY <2>1, <2>6, DyingStays
  <2>. QED BY <2>2, <2>7, StackFound
<1>2. ASSUME NEW o \in Obj, NEW s \in Slot, DestroyMember(o, s) \/ UnlinkMember(o, s)
      PROVE  Found'
  <2>1. /\ child[<<o, s>>] # NULL /\ Drop(child[<<o, s>>], stack)
        /\ child' = [child EXCEPT ![<<o, s>>] = NULL] /\ UNCHANGED <<var, held, ref>>
    BY <1>2 DEF DestroyMember, UnlinkMember
  <2>. QED BY <2>1, MemberFound
<1>3. ASSUME NEW o \in Obj, FreeOne(o)
      PROVE  Found'
  <2> DEFINE f == Frame("free", Top.objs \ {o})
  <2>1. /\ At("free") /\ o \in Top.objs /\ held' = held \ {o}
        /\ Drop(o, <<f>> \o Rest) /\ UNCHANGED <<var, child, ref>>
    BY <1>3 DEF FreeOne
  <2>2. /\ stack \in Seq(Frames) /\ stack # <<>> /\ Head(stack).op = "free"
        /\ Rest \in Seq(Frames) /\ Rest = Tail(stack) /\ Top.objs \in SUBSET Obj
        /\ Top.objs = held
    BY <2>1, TopFrame
  <2>3. o \in objects
    BY <2>1, <2>2, PointedToIsListed
  <2>4. f \in Frames /\ f.op # "dtor"
    BY <2>2 DEF Frame, Frames
  <2> HIDE DEF f
  <2>5. /\ <<f>> \o Rest \in Seq(Frames) /\ DyingOf(<<f>> \o Rest) = DyingOf(Rest)
        /\ DyingOf(Rest) = DyingOf(stack)
    <3>1. <<f>> \o Rest \in Seq(Frames)
      BY <2>2, <2>4, Push
    <3>2. DyingOf(<<f>> \o Rest) = DyingOf(Rest)
      BY <2>2, <2>4, PushDying
    <3>3. DyingOf(Rest) = DyingOf(stack)
      BY <2>2, PopDying
    <3>. QED BY <3>1, <3>2, <3>3
  <2>6. PICK rest \in Seq(Frames) : rest = <<f>> \o Rest
    BY <2>5
  <2>7. DyingOf(rest) = DyingOf(stack) /\ Drop(o, rest)
    BY <2>1, <2>5, <2>6
  <2>. QED BY <2>1, <2>3, <2>7, OwnFound
<1>4. ASSUME NEW o \in Obj, NextObject(o)
      PROVE  Found'
  <2> DEFINE f == Frame("teardown", Top.objs \ {o})
             g == Frame("clear", {o})
             rest == <<g>> \o (<<f>> \o Rest)
  <2>1. /\ At("teardown") /\ UNCHANGED <<var, child, held>> /\ ref' = o
        /\ Repoint(o, ref, objects, <<g, f>> \o Rest)
    BY <1>4 DEF NextObject
  <2>2. /\ stack \in Seq(Frames) /\ stack # <<>> /\ Head(stack).op = "teardown"
        /\ Rest \in Seq(Frames) /\ Rest = Tail(stack) /\ Top.objs \in SUBSET Obj
    BY <2>1, TopFrame
  <2>3. f \in Frames /\ f.op # "dtor" /\ g \in Frames /\ g.op # "dtor"
    BY <2>2 DEF Frame, Frames
  <2>4. <<g, f>> \o Rest = rest
    <3>1. Frame("clear", {o}) \in Frames /\ Frame("teardown", Top.objs \ {o}) \in Frames
      BY <2>3
    <3>. QED BY <2>2, <3>1
  <2> HIDE DEF f, g
  <2>5. <<f>> \o Rest \in Seq(Frames) /\ DyingOf(<<f>> \o Rest) = DyingOf(Rest)
        /\ DyingOf(Rest) = DyingOf(stack)
    <3>1. <<f>> \o Rest \in Seq(Frames)
      BY <2>2, <2>3, Push
    <3>2. DyingOf(<<f>> \o Rest) = DyingOf(Rest)
      BY <2>2, <2>3, PushDying
    <3>3. DyingOf(Rest) = DyingOf(stack)
      BY <2>2, PopDying
    <3>. QED BY <3>1, <3>2, <3>3
  <2>6. rest \in Seq(Frames) /\ DyingOf(rest) = DyingOf(<<f>> \o Rest)
    <3>1. \A t \in Seq(Frames) : <<g>> \o t \in Seq(Frames)
      BY <2>3, Push
    <3>2. \A t \in Seq(Frames) : DyingOf(<<g>> \o t) = DyingOf(t)
      BY <2>3, PushDying
    <3>. QED BY <2>5, <3>1, <3>2
  <2> HIDE DEF rest
  <2>7. Repoint(o, ref, objects, rest) /\ o \in ObjOrNull /\ DyingOf(rest) = DyingOf(stack)
    BY <2>1, <2>4, <2>5, <2>6 DEF ObjOrNull
  <2>. QED BY <2>1, <2>6, <2>7, OwnFound
<1>5. ASSUME ResetRef
      PROVE  Found'
  <2>1. /\ At("teardown") /\ UNCHANGED <<var, child, held>> /\ ref' = NULL
        /\ Repoint(NULL, ref, objects, Rest)
    BY <1>5 DEF ResetRef
  <2>2. /\ stack \in Seq(Frames) /\ stack # <<>> /\ Head(stack).op = "teardown"
        /\ Rest \in Seq(Frames) /\ Rest = Tail(stack)
    BY <2>1, TopFrame
  <2>3. DyingOf(Rest) = DyingOf(stack)
    BY <2>2, PopDying
  <2>. QED BY <2>1, <2>2, <2>3, OwnFound DEF ObjOrNull
<1>. QED BY <1>1, <1>2, <1>3, <1>4, <1>5, BackFound, CollectFound DEF Calls

LEMMA FoundNext ==
  ASSUME IInv, RInv, IInv', RInv', Found, [Next]_vars
  PROVE  Found'
<1>1. CASE UNCHANGED vars
  <2>1. /\ UNCHANGED <<objects, cycleRoots, var, child, held, ref>>
        /\ stack' = stack
    BY <1>1 DEF vars
  <2>. QED BY <2>1, StackFound DEF Dying
<1>. QED BY <1>1, ProgramFound, CallFound DEF Next, Over

(* What is on the list has a reference.                                    *)
Counted == \A o \in objects : refs[o] >= 1

LEMMA ReleaseCounted ==
  ASSUME NEW objs \in SUBSET Obj, NEW o \in objs, NEW cnt \in [Obj -> Nat],
         \A x \in objs : cnt[x] >= 1, NEW rts, NEW n, NEW rest,
         ReleaseIn(o, cnt, rts, n, objs, rest)
  PROVE  Counted'
<1>1. o \in Obj /\ refs' = [cnt EXCEPT ![o] = @ - 1]
  BY DEF ReleaseIn
<1>2. CASE cnt[o] = 1
  <2>1. objects' = objs \ {o}
    BY <1>2 DEF ReleaseIn
  <2>2. \A x \in objs : x # o => refs'[x] = cnt[x]
    BY <1>1
  <2>. QED BY <2>1, <2>2 DEF Counted
<1>3. CASE cnt[o] # 1
  <2>1. objects' = objs
    BY <1>3 DEF ReleaseIn
  <2>2. \A x \in objs : refs'[x] = IF x = o THEN cnt[o] - 1 ELSE cnt[x]
    BY <1>1
  <2>3. cnt[o] \in Nat /\ cnt[o] >= 1
    BY <1>1
  <2>4. \A x \in objs : refs'[x] >= 1
    BY <1>3, <2>2, <2>3
  <2>. QED BY <2>1, <2>4 DEF Counted
<1>. QED BY <1>2, <1>3

LEMMA RepointCounted ==
  ASSUME NEW q \in ObjOrNull, NEW objs \in SUBSET Obj, NEW old, old # NULL => old \in objs,
         refs \in [Obj -> Nat], \A x \in objs : x = q \/ refs[x] >= 1,
         NEW rest, Repoint(q, old, objs, rest)
  PROVE  Counted'
<1>1. PICK cnt : cnt = AfterAddRef(refs, {q} \ {NULL})
  OBVIOUS
<1>2. cnt \in [Obj -> Nat] /\ \A x \in Obj : cnt[x] = IF x = q THEN refs[x] + 1 ELSE refs[x]
  BY <1>1, NullAssumption DEF AfterAddRef
<1>3. \A x \in objs : cnt[x] >= 1
  <2> SUFFICES ASSUME NEW x \in objs
               PROVE  cnt[x] >= 1
    OBVIOUS
  <2>1. x \in Obj /\ refs[x] \in Nat
    OBVIOUS
  <2>. QED BY <1>2, <2>1
<1>4. CASE old = NULL
  <2>1. refs' = cnt /\ objects' = objs
    BY <1>1, <1>4 DEF Repoint
  <2>. QED BY <1>3, <2>1 DEF Counted
<1>5. CASE old # NULL
  <2>1. PICK rts, n : ReleaseIn(old, cnt, rts, n, objs, rest)
    BY <1>1, <1>5 DEF Repoint
  <2>. QED BY <1>2, <1>3, <1>5, <2>1, ReleaseCounted
<1>. QED BY <1>4, <1>5

(* Every step keeps it so.                                                 *)
LEMMA CountedNext ==
  ASSUME IInv, Counted, [Next]_vars
  PROVE  Counted'
<1>0. /\ TypeOK /\ objects \in SUBSET Obj /\ refs \in [Obj -> Nat]
      /\ \A x \in objects : refs[x] >= 1
  BY DEF IInv, TypeOK, Counted
<1>1. ASSUME UNCHANGED <<objects, refs>>
      PROVE  Counted'
  BY <1>1 DEF Counted
<1>2. ASSUME NEW o \in objects, NEW rest, Drop(o, rest)
      PROVE  Counted'
  <2>1. ReleaseIn(o, refs, cycleRoots, numRoots, objects, rest)
    BY <1>2 DEF Drop
  <2>. QED BY <1>0, <2>1, ReleaseCounted
<1>3. ASSUME NEW q \in ObjOrNull, NEW old, old # NULL => old \in objects, NEW rest,
             Repoint(q, old, objects, rest)
      PROVE  Counted'
  BY <1>0, <1>3, RepointCounted
<1>4. /\ \A v \in Var : var[v] # NULL => var[v] \in objects
      /\ \A o \in Obj, s \in Slot : child[<<o, s>>] # NULL => child[<<o, s>>] \in objects
  BY <1>0, PointedToIsListed DEF Pointees, TypeOK, Edge
<1>5. ASSUME NEW v \in Var, NEW o \in Obj, New(v, o)
      PROVE  Counted'
  <2>1. Repoint(o, var[v], objects \cup {o}, <<>>)
    BY <1>5 DEF New
  <2>2. PICK objs \in SUBSET Obj : objs = objects \cup {o}
    BY <1>0
  <2>3. \A x \in objs : x = o \/ refs[x] >= 1
    BY <1>0, <2>2
  <2>4. Repoint(o, var[v], objs, <<>>) /\ (var[v] # NULL => var[v] \in objs) /\ o \in ObjOrNull
    BY <1>4, <2>1, <2>2 DEF ObjOrNull
  <2>. QED BY <1>0, <2>3, <2>4, RepointCounted
<1>6. ASSUME NEW v \in Var, NEW q \in ObjOrNull, AssignVar(v, q)
      PROVE  Counted'
  BY <1>3, <1>4, <1>6 DEF AssignVar
<1>7. ASSUME NEW o \in Obj, NEW s \in Slot, NEW q \in ObjOrNull, AssignMember(o, s, q)
      PROVE  Counted'
  BY <1>3, <1>4, <1>7 DEF AssignMember
<1>8. ASSUME NEW o \in Obj, NEW s \in Slot, DestroyMember(o, s) \/ UnlinkMember(o, s)
      PROVE  Counted'
  BY <1>2, <1>4, <1>8 DEF DestroyMember, UnlinkMember
<1>9. ASSUME Collect
      PROVE  Counted'
  <2>1. objects' = objects /\ (refs' = refs \/ refs' = AfterAddRef(refs, Garbage))
    BY <1>9 DEF Collect
  <2>2. \A x \in objects : refs'[x] >= refs[x] /\ refs'[x] \in Nat
    <3>1. CASE refs' = refs
      BY <1>0, <3>1
    <3>2. CASE refs' = AfterAddRef(refs, Garbage)
      BY <1>0, <3>2 DEF AfterAddRef
    <3>. QED BY <2>1, <3>1, <3>2
  <2>3. \A x \in objects : refs'[x] >= 1
    BY <1>0, <2>2
  <2>. QED BY <2>1, <2>3 DEF Counted
<1>10. ASSUME NEW o \in Obj, FreeOne(o)
       PROVE  Counted'
  <2>1. o \in objects
    BY <1>10, TopFrame, PointedToIsListed DEF FreeOne
  <2>2. PICK rest : Drop(o, rest)
    BY <1>10 DEF FreeOne
  <2>. QED BY <1>2, <2>1, <2>2
<1>11. ASSUME NEW o \in Obj, NextObject(o)
       PROVE  Counted'
  <2>1. PICK rest : Repoint(o, ref, objects, rest)
    BY <1>11 DEF NextObject
  <2>. QED BY <1>3, <2>1, PointedToIsListed DEF ObjOrNull
<1>12. ASSUME ResetRef
       PROVE  Counted'
  BY <1>3, <1>12, PointedToIsListed DEF ResetRef, ObjOrNull
<1>13. ASSUME \/ CallCollect \/ Close \/ Check \/ Destroyed \/ Unlinked \/ CollectDone
              \/ Cleared \/ UNCHANGED vars
       PROVE  Counted'
  BY <1>1, <1>13 DEF CallCollect, Close, Check, Destroyed, Unlinked, CollectDone, Cleared, vars
<1>. QED BY <1>5, <1>6, <1>7, <1>8, <1>9, <1>10, <1>11, <1>12, <1>13
         DEF Next, Program, Calls, Over

-----------------------------------------------------------------------------
(* The calls that are waiting for others to come back. *)

InTeardown(s) == \E i \in DOMAIN s : s[i].op = "teardown"
ToDoOf(s) == UNION {s[i].objs : i \in {j \in DOMAIN s : s[j].op \in {"teardown", "clear"}}}
BottomOf(s) == s[Len(s)]

(* A call more.                                                            *)
LEMMA PushWaits ==
  ASSUME NEW s \in Seq(Frames), NEW f \in Frames
  PROVE  /\ <<f>> \o s \in Seq(Frames) /\ <<f>> \o s # <<>>
         /\ InTeardown(<<f>> \o s) <=> f.op = "teardown" \/ InTeardown(s)
         /\ ToDoOf(<<f>> \o s)
              = ToDoOf(s) \cup (IF f.op \in {"teardown", "clear"} THEN f.objs ELSE {})
         /\ BottomOf(<<f>> \o s) = IF s = <<>> THEN f ELSE BottomOf(s)
<1> DEFINE t == <<f>> \o s
<1>1. /\ t \in Seq(Frames) /\ Len(t) = Len(s) + 1 /\ t[1] = f /\ Len(s) \in Nat
      /\ \A i \in 1..Len(s) : t[i + 1] = s[i]
  BY Push
<1>2. DOMAIN t = 1..(Len(s) + 1) /\ DOMAIN s = 1..Len(s) /\ 1 \in DOMAIN t /\ t # <<>>
  BY <1>1
<1>3. s = <<>> <=> Len(s) = 0
  OBVIOUS
<1> HIDE DEF t
<1>4. ASSUME NEW i \in DOMAIN t, i # 1
      PROVE  i - 1 \in DOMAIN s /\ t[i] = s[i - 1]
  BY <1>1, <1>2, <1>4
<1>5. ASSUME NEW i \in DOMAIN s
      PROVE  i + 1 \in DOMAIN t /\ t[i + 1] = s[i]
  BY <1>1, <1>2
<1>6. InTeardown(t) <=> f.op = "teardown" \/ InTeardown(s)
  <2>1. ASSUME InTeardown(t)
        PROVE  f.op = "teardown" \/ InTeardown(s)
    <3>1. PICK i \in DOMAIN t : t[i].op = "teardown"
      BY <2>1 DEF InTeardown
    <3>2. CASE i = 1
      BY <1>1, <3>1, <3>2
    <3>3. CASE i # 1
      <4>1. i - 1 \in DOMAIN s /\ s[i - 1].op = "teardown"
        BY <1>4, <3>1, <3>3
      <4>. QED BY <4>1 DEF InTeardown
    <3>. QED BY <3>2, <3>3
  <2>2. ASSUME f.op = "teardown"
        PROVE  InTeardown(t)
    BY <1>1, <1>2, <2>2 DEF InTeardown
  <2>3. ASSUME InTeardown(s)
        PROVE  InTeardown(t)
    <3>1. PICK i \in DOMAIN s : s[i].op = "teardown"
      BY <2>3 DEF InTeardown
    <3>2. i + 1 \in DOMAIN t /\ t[i + 1].op = "teardown"
      BY <1>5, <3>1
    <3>. QED BY <3>2 DEF InTeardown
  <2>. QED BY <2>1, <2>2, <2>3
<1>7. ToDoOf(t) = ToDoOf(s) \cup (IF f.op \in {"teardown", "clear"} THEN f.objs ELSE {})
  <2>1. ASSUME NEW x \in ToDoOf(t)
        PROVE  x \in ToDoOf(s) \/ (f.op \in {"teardown", "clear"} /\ x \in f.objs)
    <3>1. PICK i \in DOMAIN t : t[i].op \in {"teardown", "clear"} /\ x \in t[i].objs
      BY DEF ToDoOf
    <3>2. CASE i = 1
      BY <1>1, <3>1, <3>2
    <3>3. CASE i # 1
      <4>1. i - 1 \in DOMAIN s /\ t[i] = s[i - 1]
        BY <1>4, <3>3
      <4>. QED BY <3>1, <4>1 DEF ToDoOf
    <3>. QED BY <3>2, <3>3
  <2>2. ASSUME NEW x \in ToDoOf(s)
        PROVE  x \in ToDoOf(t)
    <3>1. PICK i \in DOMAIN s : s[i].op \in {"teardown", "clear"} /\ x \in s[i].objs
      BY DEF ToDoOf
    <3>2. i + 1 \in DOMAIN t /\ t[i + 1] = s[i]
      BY <1>5
    <3>. QED BY <3>1, <3>2 DEF ToDoOf
  <2>3. ASSUME f.op \in {"teardown", "clear"}, NEW x \in f.objs
        PROVE  x \in ToDoOf(t)
    BY <1>1, <1>2, <2>3 DEF ToDoOf
  <2>. QED BY <2>1, <2>2, <2>3
<1>8. BottomOf(t) = IF s = <<>> THEN f ELSE BottomOf(s)
  <2>1. CASE s = <<>>
    BY <1>1, <1>3, <2>1 DEF BottomOf
  <2>2. CASE s # <<>>
    <3>1. Len(s) \in 1..Len(s)
      BY <1>1, <1>3, <2>2
    <3>2. t[Len(s) + 1] = s[Len(s)]
      BY <1>1, <3>1
    <3>. QED BY <1>1, <2>2, <3>2 DEF BottomOf
  <2>. QED BY <2>1, <2>2
<1>. QED BY <1>1, <1>2, <1>6, <1>7, <1>8 DEF t

(* The call that runs, and those that wait for it.                         *)
LEMMA PopWaits ==
  ASSUME IInv, NEW op, At(op)
  PROVE  /\ Rest \in Seq(Frames) /\ Top \in Frames /\ Top.op = op /\ Top.objs \in SUBSET Obj
         /\ stack = <<Top>> \o Rest
         /\ InTeardown(stack) <=> op = "teardown" \/ InTeardown(Rest)
         /\ ToDoOf(stack)
              = ToDoOf(Rest) \cup (IF op \in {"teardown", "clear"} THEN Top.objs ELSE {})
         /\ BottomOf(stack) = IF Rest = <<>> THEN Top ELSE BottomOf(Rest)
<1>1. /\ stack \in Seq(Frames) /\ stack # <<>> /\ Head(stack) = Top
      /\ Top \in Frames /\ Top.op = op /\ Top.objs \in SUBSET Obj
      /\ Rest \in Seq(Frames) /\ Rest = Tail(stack)
  BY TopFrame
<1>2. stack = <<Top>> \o Rest
  BY <1>1
<1>3. /\ InTeardown(<<Top>> \o Rest) <=> Top.op = "teardown" \/ InTeardown(Rest)
      /\ ToDoOf(<<Top>> \o Rest)
           = ToDoOf(Rest) \cup (IF Top.op \in {"teardown", "clear"} THEN Top.objs ELSE {})
      /\ BottomOf(<<Top>> \o Rest) = IF Rest = <<>> THEN Top ELSE BottomOf(Rest)
  BY <1>1, PushWaits
<1>. QED BY <1>1, <1>2, <1>3

(* The frame that a call pushes.                                           *)
LEMMA FrameHere ==
  ASSUME NEW op \in {"check", "collect", "dtor", "unlink", "free", "teardown", "clear"},
         NEW S \in SUBSET Obj
  PROVE  Frame(op, S) \in Frames /\ Frame(op, S).op = op /\ Frame(op, S).objs = S
  BY DEF Frame, Frames

LEMMA PushQuiet ==
  ASSUME NEW s \in Seq(Frames), NEW f \in Frames, f.op \notin {"teardown", "clear"},
         NEW t, t = <<f>> \o s
  PROVE  /\ t \in Seq(Frames) /\ t # <<>>
         /\ InTeardown(t) <=> InTeardown(s)
         /\ ToDoOf(t) = ToDoOf(s)
         /\ s # <<>> => BottomOf(t) = BottomOf(s)
         /\ s = <<>> => BottomOf(t) = f
<1>1. /\ <<f>> \o s \in Seq(Frames) /\ <<f>> \o s # <<>>
      /\ InTeardown(<<f>> \o s) <=> f.op = "teardown" \/ InTeardown(s)
      /\ ToDoOf(<<f>> \o s)
           = ToDoOf(s) \cup (IF f.op \in {"teardown", "clear"} THEN f.objs ELSE {})
      /\ BottomOf(<<f>> \o s) = IF s = <<>> THEN f ELSE BottomOf(s)
  BY PushWaits
<1>. QED BY <1>1

LEMMA PushToDo ==
  ASSUME NEW s \in Seq(Frames), NEW f \in Frames, f.op \in {"teardown", "clear"},
         NEW t, t = <<f>> \o s
  PROVE  /\ t \in Seq(Frames) /\ t # <<>>
         /\ InTeardown(t) <=> f.op = "teardown" \/ InTeardown(s)
         /\ ToDoOf(t) = ToDoOf(s) \cup f.objs
<1>1. /\ <<f>> \o s \in Seq(Frames) /\ <<f>> \o s # <<>>
      /\ InTeardown(<<f>> \o s) <=> f.op = "teardown" \/ InTeardown(s)
      /\ ToDoOf(<<f>> \o s)
           = ToDoOf(s) \cup (IF f.op \in {"teardown", "clear"} THEN f.objs ELSE {})
  BY PushWaits
<1>. QED BY <1>1

(* Releases put a destructor or a comparison on top of the stack.          *)
LEMMA ReleaseWaits ==
  ASSUME NEW rest \in Seq(Frames),
         \/ \E o \in Obj : \E cnt, rts, n, objs : ReleaseIn(o, cnt, rts, n, objs, rest)
         \/ \E o \in Obj : Drop(o, rest)
         \/ \E q, old \in ObjOrNull : \E objs : Repoint(q, old, objs, rest)
  PROVE  /\ InTeardown(stack') <=> InTeardown(rest)
         /\ ToDoOf(stack') = ToDoOf(rest)
         /\ rest # <<>> => stack' # <<>> /\ BottomOf(stack') = BottomOf(rest)
         /\ rest = <<>> /\ stack' # <<>> => BottomOf(stack').op \in {"dtor", "check"}
<1>1. ASSUME NEW op \in {"dtor", "check"}, NEW S \in SUBSET Obj,
             stack' = <<Frame(op, S)>> \o rest
      PROVE  /\ InTeardown(stack') <=> InTeardown(rest)
             /\ ToDoOf(stack') = ToDoOf(rest)
             /\ rest # <<>> => stack' # <<>> /\ BottomOf(stack') = BottomOf(rest)
             /\ rest = <<>> /\ stack' # <<>> => BottomOf(stack').op \in {"dtor", "check"}
  <2>1. PICK f \in Frames : f = Frame(op, S) /\ f.op = op
    BY FrameHere
  <2>3. PICK t : t = <<f>> \o rest
    OBVIOUS
  <2>a. f.op \notin {"teardown", "clear"}
    BY <2>1
  <2>2. /\ t # <<>> /\ (InTeardown(t) <=> InTeardown(rest)) /\ ToDoOf(t) = ToDoOf(rest)
        /\ rest # <<>> => BottomOf(t) = BottomOf(rest)
        /\ rest = <<>> => BottomOf(t) = f
    BY <2>a, <2>3, PushQuiet
  <2>4. stack' = t
    BY <1>1, <2>1, <2>3
  <2>. QED BY <2>1, <2>2, <2>4
<1>2. ASSUME NEW o \in Obj, NEW cnt, NEW rts, NEW n, NEW objs,
             ReleaseIn(o, cnt, rts, n, objs, rest)
      PROVE  \E op \in {"dtor", "check"}, S \in SUBSET Obj : stack' = <<Frame(op, S)>> \o rest
  BY <1>2 DEF ReleaseIn
<1>3. ASSUME NEW o \in Obj, Drop(o, rest)
      PROVE  \E op \in {"dtor", "check"}, S \in SUBSET Obj : stack' = <<Frame(op, S)>> \o rest
  BY <1>2, <1>3 DEF Drop
<1>4. ASSUME NEW q \in ObjOrNull, NEW old \in ObjOrNull, NEW objs, Repoint(q, old, objs, rest)
      PROVE  \/ stack' = rest
             \/ \E op \in {"dtor", "check"}, S \in SUBSET Obj : stack' = <<Frame(op, S)>> \o rest
  <2>1. CASE old = NULL
    BY <1>4, <2>1 DEF Repoint
  <2>2. CASE old # NULL
    <3>1. PICK cnt, rts, n : ReleaseIn(old, cnt, rts, n, objs, rest)
      BY <1>4, <2>2 DEF Repoint
    <3>2. old \in Obj
      BY <2>2 DEF ObjOrNull
    <3>. QED BY <1>2, <3>1, <3>2
  <2>. QED BY <2>1, <2>2
<1>5. CASE stack' = rest
  BY <1>5
<1>. QED BY <1>1, <1>2, <1>3, <1>4, <1>5

-----------------------------------------------------------------------------
(* The collector's own destructor leaves no links.                         *)

Bare(o) == \A s \in Slot : child[<<o, s>>] = NULL

(* Its local pointer is null when it is not running ...                    *)
RefPart == ref # NULL => InTeardown(stack)

(* ... and it still has to visit everything that has links.                *)
TearPart == closed => \A o \in objects : Bare(o) \/ o \in ToDoOf(stack)

(* A call that leaves the pointer and the objects to visit as they are.    *)
LEMMA TearKept ==
  ASSUME TypeOK, RefPart, TearPart, closed' = closed, objects' \subseteq objects,
         child' = child \/ \E e \in Edge : child' = [child EXCEPT ![e] = NULL],
         ref' = NULL \/ InTeardown(stack') \/ (ref' = ref /\ ~InTeardown(stack)),
         \A o \in objects' : o \in ToDoOf(stack) => o \in ToDoOf(stack') \/ Bare(o)
  PROVE  RefPart' /\ TearPart'
<1>1. RefPart'
  BY DEF RefPart, InTeardown
<1>2. ASSUME NEW o \in objects, Bare(o)
      PROVE  Bare(o)'
  <2>1. \A s \in Slot : <<o, s>> \in Edge /\ child[<<o, s>>] = NULL
    BY <1>2 DEF Bare, TypeOK, Edge
  <2>2. \A s \in Slot : child'[<<o, s>>] = NULL
    BY <2>1 DEF TypeOK
  <2>. QED BY <2>2 DEF Bare
<1>3. TearPart'
  <2> SUFFICES ASSUME closed', NEW o \in objects'
               PROVE  Bare(o)' \/ o \in ToDoOf(stack')
    BY DEF TearPart, ToDoOf
  <2>1. o \in objects /\ (Bare(o) \/ o \in ToDoOf(stack))
    BY DEF TearPart
  <2>. QED BY <1>2, <2>1
<1>. QED BY <1>1, <1>3

(* A release takes nothing else off the list than the object it destroys.  *)
LEMMA ReleaseTakes ==
  ASSUME NEW objs,
         \/ \E o, cnt, rts, n, rest : ReleaseIn(o, cnt, rts, n, objs, rest)
         \/ \E q, old, rest : Repoint(q, old, objs, rest)
  PROVE  objects' \subseteq objs
<1>1. ASSUME NEW o, NEW cnt, NEW rts, NEW n, NEW rest, ReleaseIn(o, cnt, rts, n, objs, rest)
      PROVE  objects' \subseteq objs
  BY <1>1 DEF ReleaseIn
<1>2. ASSUME NEW q, NEW old, NEW rest, Repoint(q, old, objs, rest)
      PROVE  objects' \subseteq objs
  <2>1. CASE old = NULL
    BY <1>2, <2>1 DEF Repoint
  <2>2. CASE old # NULL
    <3>1. PICK cnt, rts, n : ReleaseIn(old, cnt, rts, n, objs, rest)
      BY <1>2, <2>2 DEF Repoint
    <3>. QED BY <1>1, <3>1
  <2>. QED BY <2>1, <2>2
<1>. QED BY <1>1, <1>2

(* The calls keep it so.                                                   *)
LEMMA CallTear ==
  ASSUME IInv, RefPart, TearPart, Calls
  PROVE  RefPart' /\ TearPart'
<1>0. TypeOK /\ stack \in Seq(Frames) /\ objects \in SUBSET Obj /\ ref \in ObjOrNull
  BY DEF IInv, TypeOK
<1>1. ASSUME NEW op, At(op), op # "teardown", UNCHANGED <<objects, child, ref, closed>>,
             \/ stack' = Rest
             \/ \E o \in {"check", "collect", "unlink", "free"}, S \in SUBSET Obj :
                   stack' = <<Frame(o, S)>> \o Rest,
             op = "clear" => \A o \in Top.objs : Bare(o)
      PROVE  RefPart' /\ TearPart'
  <2>1. /\ Rest \in Seq(Frames)
        /\ InTeardown(stack) <=> InTeardown(Rest)
        /\ ToDoOf(stack) = ToDoOf(Rest) \cup (IF op = "clear" THEN Top.objs ELSE {})
    BY <1>1, PopWaits
  <2>2. (InTeardown(stack') <=> InTeardown(Rest)) /\ ToDoOf(stack') = ToDoOf(Rest)
    <3>1. ASSUME NEW o \in {"check", "collect", "unlink", "free"}, NEW S \in SUBSET Obj,
                 stack' = <<Frame(o, S)>> \o Rest
          PROVE  (InTeardown(stack') <=> InTeardown(Rest)) /\ ToDoOf(stack') = ToDoOf(Rest)
      <4>1. PICK f \in Frames : f = Frame(o, S) /\ f.op = o
        BY FrameHere
      <4>2. f.op \notin {"teardown", "clear"} /\ stack' = <<f>> \o Rest
        BY <3>1, <4>1
      <4>. QED BY <2>1, <4>2, PushQuiet
    <3>2. CASE stack' = Rest
      BY <3>2
    <3>. QED BY <1>1, <3>1, <3>2
  <2>. QED BY <1>0, <1>1, <2>1, <2>2, TearKept
<1>2. ASSUME \/ Check \/ Collect \/ Unlinked \/ CollectDone \/ Cleared \/ Destroyed
      PROVE  RefPart' /\ TearPart'
  <2>1. UNCHANGED <<objects, child, ref, closed>>
    BY <1>2 DEF Check, Collect, Unlinked, CollectDone, Cleared, Destroyed
  <2>2. CASE Cleared
    <3>1. At("clear") /\ stack' = Rest /\ \A o \in Top.objs : Bare(o)
      BY <2>2 DEF Cleared, Bare
    <3>. QED BY <1>1, <2>1, <3>1
  <2>3. CASE Unlinked
    <3>1. At("unlink") /\ stack' = <<Frame("free", Top.objs)>> \o Rest
      BY <2>3 DEF Unlinked
    <3>2. Top.objs \in SUBSET Obj
      BY <3>1, TopFrame
    <3>. QED BY <1>1, <2>1, <3>1, <3>2
  <2>4. CASE Collect
    <3>1. At("collect") /\ (stack' = Rest \/ stack' = <<Frame("unlink", Garbage)>> \o Rest)
      BY <2>4 DEF Collect
    <3>2. Garbage \in SUBSET Obj
      BY GarbageIsListed
    <3>. QED BY <1>1, <2>1, <3>1, <3>2
  <2>5. CASE Check \/ CollectDone \/ Destroyed
    <3>1. PICK op \in {"check", "free", "dtor"} : At(op)
      BY <2>5 DEF Check, CollectDone, Destroyed
    <3>2. \/ stack' = Rest
          \/ \E o \in {"check", "collect", "unlink", "free"}, S \in SUBSET Obj :
                stack' = <<Frame(o, S)>> \o Rest
      BY <2>5 DEF Check, CollectDone, Destroyed
    <3>. QED BY <1>1, <2>1, <3>1, <3>2
  <2>. QED BY <1>2, <2>2, <2>3, <2>4, <2>5
<1>3. ASSUME NEW o \in Obj, NEW s \in Slot, DestroyMember(o, s) \/ UnlinkMember(o, s)
      PROVE  RefPart' /\ TearPart'
  <2>1. /\ child[<<o, s>>] # NULL /\ Drop(child[<<o, s>>], stack) /\ <<o, s>> \in Edge
        /\ child' = [child EXCEPT ![<<o, s>>] = NULL] /\ UNCHANGED <<ref, closed>>
    BY <1>3 DEF DestroyMember, UnlinkMember, Edge
  <2>2. PICK p \in Obj : p = child[<<o, s>>]
    BY <1>0, <2>1, Pointers DEF ObjOrNull
  <2>3. Drop(p, stack)
    BY <2>1, <2>2
  <2>4. (InTeardown(stack') <=> InTeardown(stack)) /\ ToDoOf(stack') = ToDoOf(stack)
    BY <1>0, <2>3, ReleaseWaits
  <2>5. objects' \subseteq objects
    BY <2>3, ReleaseTakes DEF Drop
  <2>. QED BY <1>0, <2>1, <2>4, <2>5, TearKept
<1>4. ASSUME NEW o \in Obj, FreeOne(o)
      PROVE  RefPart' /\ TearPart'
  <2>1. /\ At("free") /\ UNCHANGED <<child, ref, closed>>
        /\ Drop(o, <<Frame("free", Top.objs \ {o})>> \o Rest)
    BY <1>4 DEF FreeOne
  <2>2. /\ Rest \in Seq(Frames) /\ Top.objs \ {o} \in SUBSET Obj
        /\ InTeardown(stack) <=> InTeardown(Rest)
        /\ ToDoOf(stack) = ToDoOf(Rest)
    <3>1. PICK op : op = "free"
      OBVIOUS
    <3>2. At(op)
      BY <2>1, <3>1
    <3>3. /\ Rest \in Seq(Frames) /\ Top.objs \in SUBSET Obj
          /\ InTeardown(stack) <=> op = "teardown" \/ InTeardown(Rest)
          /\ ToDoOf(stack)
               = ToDoOf(Rest) \cup (IF op \in {"teardown", "clear"} THEN Top.objs ELSE {})
      BY <3>2, PopWaits
    <3>. QED BY <3>1, <3>3
  <2>b. PICK f \in Frames : f = Frame("free", Top.objs \ {o}) /\ f.op = "free"
    BY <2>2, FrameHere
  <2>a. PICK rest : rest = <<f>> \o Rest
    OBVIOUS
  <2>3. /\ rest \in Seq(Frames)
        /\ InTeardown(rest) <=> InTeardown(Rest)
        /\ ToDoOf(rest) = ToDoOf(Rest)
    <3>1. f.op \notin {"teardown", "clear"}
      BY <2>b
    <3>. QED BY <2>2, <2>a, <3>1, PushQuiet
  <2>4. Drop(o, rest)
    BY <2>1, <2>a, <2>b
  <2>5. (InTeardown(stack') <=> InTeardown(rest)) /\ ToDoOf(stack') = ToDoOf(rest)
    BY <2>3, <2>4, ReleaseWaits
  <2>6. objects' \subseteq objects
    BY <2>4, ReleaseTakes DEF Drop
  <2>. QED BY <1>0, <2>1, <2>2, <2>3, <2>5, <2>6, TearKept
<1>5. ASSUME NEW o \in Obj, NextObject(o)
      PROVE  RefPart' /\ TearPart'
  <2>1. /\ At("teardown") /\ UNCHANGED <<child, closed>>
        /\ Repoint(o, ref, objects,
                   <<Frame("clear", {o}), Frame("teardown", Top.objs \ {o})>> \o Rest)
    BY <1>5 DEF NextObject
  <2>2. /\ Rest \in Seq(Frames) /\ Top.objs \in SUBSET Obj
        /\ ToDoOf(stack) = ToDoOf(Rest) \cup Top.objs
    BY <2>1, PopWaits
  <2>3. Top.objs \ {o} \in SUBSET Obj /\ {o} \in SUBSET Obj
    BY <2>2
  <2>4. PICK f \in Frames : /\ f = Frame("teardown", Top.objs \ {o})
                            /\ f.op = "teardown" /\ f.objs = Top.objs \ {o}
    BY <2>3, FrameHere
  <2>5. PICK g \in Frames : g = Frame("clear", {o}) /\ g.op = "clear" /\ g.objs = {o}
    BY <2>3, FrameHere
  <2>6. PICK below : below = <<f>> \o Rest
    OBVIOUS
  <2>a. f.op \in {"teardown", "clear"} /\ g.op \in {"teardown", "clear"}
    BY <2>4, <2>5
  <2>b. /\ below \in Seq(Frames)
        /\ InTeardown(below) <=> f.op = "teardown" \/ InTeardown(Rest)
        /\ ToDoOf(below) = ToDoOf(Rest) \cup f.objs
    BY <2>2, <2>6, <2>a, PushToDo
  <2>c. PICK rest : rest = <<g>> \o below
    OBVIOUS
  <2>d. /\ rest \in Seq(Frames)
        /\ InTeardown(rest) <=> g.op = "teardown" \/ InTeardown(below)
        /\ ToDoOf(rest) = ToDoOf(below) \cup g.objs
    BY <2>a, <2>b, <2>c, PushToDo
  <2>e. <<g, f>> \o Rest = <<g>> \o (<<f>> \o Rest)
    BY <2>2
  <2>7. Repoint(o, ref, objects, rest)
    BY <2>1, <2>4, <2>5, <2>6, <2>c, <2>e
  <2>8. (InTeardown(stack') <=> InTeardown(rest)) /\ ToDoOf(stack') = ToDoOf(rest)
    BY <1>0, <2>7, <2>d, ReleaseWaits DEF ObjOrNull
  <2>9. objects' \subseteq objects
    BY <2>7, ReleaseTakes
  <2>10. InTeardown(stack') /\ ToDoOf(stack) \subseteq ToDoOf(stack')
    BY <2>2, <2>4, <2>5, <2>8, <2>b, <2>d
  <2>. QED BY <1>0, <2>1, <2>9, <2>10, TearKept
<1>6. ASSUME ResetRef
      PROVE  RefPart' /\ TearPart'
  <2>1. /\ At("teardown") /\ UNCHANGED <<child, closed>> /\ ref' = NULL
        /\ Top.objs \cap objects = {} /\ Repoint(NULL, ref, objects, Rest)
    BY <1>6 DEF ResetRef
  <2>2. /\ Rest \in Seq(Frames) /\ ToDoOf(stack) = ToDoOf(Rest) \cup Top.objs
    BY <2>1, PopWaits
  <2>3. ToDoOf(stack') = ToDoOf(Rest)
    BY <1>0, <2>1, <2>2, ReleaseWaits DEF ObjOrNull
  <2>4. objects' \subseteq objects
    BY <2>1, ReleaseTakes
  <2>5. \A o \in objects' : o \in ToDoOf(stack) => o \in ToDoOf(stack')
    BY <2>1, <2>2, <2>3, <2>4
  <2>. QED BY <1>0, <2>1, <2>4, <2>5, TearKept
<1>. QED BY <1>2, <1>3, <1>4, <1>5, <1>6 DEF Calls

(* So does every step.                                                     *)
LEMMA TearNext ==
  ASSUME IInv, RefPart, TearPart, [Next]_vars
  PROVE  RefPart' /\ TearPart'
<1>1. CASE Program
  <2>1. Running /\ ref' = ref
    BY <1>1 DEF Program, New, AssignVar, AssignMember, CallCollect, Close
  <2>2. ref = NULL
    BY <2>1 DEF RefPart, InTeardown, Running
  <2>3. RefPart'
    BY <2>1, <2>2 DEF RefPart
  <2>4. CASE closed' = closed
    BY <2>1, <2>3, <2>4 DEF TearPart, Running
  <2>5. CASE Close
    <3>1. objects' = objects /\ objects \in SUBSET Obj /\ <<>> \in Seq(Frames)
      BY <2>5 DEF Close, IInv, TypeOK
    <3>2. PICK f \in Frames : /\ f = Frame("teardown", objects)
                              /\ f.op = "teardown" /\ f.objs = objects
      BY <3>1, FrameHere
    <3>6. PICK t : t = <<f>> \o <<>>
      OBVIOUS
    <3>3. ToDoOf(t) = ToDoOf(<<>>) \cup objects
      BY <3>1, <3>2, <3>6, PushToDo
    <3>5. stack' = t
      BY <2>5, <3>2, <3>6 DEF Close
    <3>4. objects \subseteq ToDoOf(stack')
      BY <3>3, <3>5
    <3>. QED BY <2>3, <3>1, <3>4 DEF TearPart, ToDoOf
  <2>. QED BY <1>1, <2>4, <2>5 DEF Program, New, AssignVar, AssignMember, CallCollect
<1>2. CASE UNCHANGED vars
  <2>1. UNCHANGED <<objects, child, ref, closed, stack>>
    BY <1>2 DEF vars
  <2>. QED BY <2>1 DEF RefPart, TearPart, Bare, ToDoOf, InTeardown
<1>. QED BY <1>1, <1>2, CallTear DEF Next, Over

-----------------------------------------------------------------------------
(* A collection that the program waits for takes all that is lost.         *)

(* A call that no other waits for.                                         *)
LEMMA OneCall ==
  ASSUME stack \in Seq(Frames), stack # <<>>
  PROVE  /\ Rest = <<>> <=> Len(stack) = 1
         /\ Len(stack) = 1 => DOMAIN stack = {1}
         /\ Head(stack) = stack[1]
<1>1. /\ Rest \in Seq(Frames) /\ Len(Rest) = Len(stack) - 1 /\ Len(stack) \in Nat \ {0}
      /\ Head(stack) = stack[1]
  BY Pop DEF Rest
<1>2. Rest = <<>> <=> Len(Rest) = 0
  BY <1>1
<1>3. Len(stack) = 1 => DOMAIN stack = {1}
  BY <1>1
<1>. QED BY <1>1, <1>2, <1>3

(* With nothing but the collection under way, everything on the list is    *)
(* reachable by the program or found to be garbage.                        *)
LEMMA GarbageIsAll ==
  ASSUME IInv, RInv, Found, Counted, RefPart, At("collect"), Rest = <<>>, ~collecting
  PROVE  objects \subseteq Live \cup Garbage
<1>1. TypeOK /\ RefCountExact /\ Emptied /\ HeldOK(stack, held, collecting)
      /\ objects \in SUBSET Obj
  BY DEF IInv, RInv, TypeOK
<1>2. held = {}
  BY <1>1, Zenon DEF HeldOK
<1>3. Dying = {} /\ ref = NULL
  <2>1. /\ stack \in Seq(Frames) /\ stack # <<>> /\ Head(stack).op = "collect"
        /\ Tail(stack) = <<>>
    BY TopFrame
  <2>2. DyingOf(stack) = DyingOf(<<>>)
    BY <2>1, PopDying
  <2>3. Len(stack) = 1 /\ DOMAIN stack = {1} /\ stack[1].op = "collect"
    BY <2>1, OneCall
  <2>4. ~InTeardown(stack)
    BY <2>3 DEF InTeardown
  <2>. QED BY <2>2, <2>4, IdleAlive DEF Dying, DyingOf, RefPart
<1>4. /\ Live \in SUBSET Obj /\ Pointees(var) \in SUBSET Obj /\ Pointees(var) \subseteq Live
      /\ \A o \in Live, s \in Slot : child[<<o, s>>] \in Obj => child[<<o, s>>] \in Live
      /\ \A o \in Obj, s \in Slot : child[<<o, s>>] \in Obj \cup {NULL}
  BY <1>1, Pointers, ReachInClosed DEF Live, ObjOrNull
<1>5. /\ GcMap \in SUBSET Obj /\ GcMap \subseteq objects /\ cycleRoots \cap objects \subseteq GcMap
      /\ \A o \in GcMap, s \in Slot : child[<<o, s>>] \in Obj => child[<<o, s>>] \in GcMap
  <2>1. PICK R : R = cycleRoots \cap objects
    OBVIOUS
  <2>2. /\ ReachIn(child, R) \in SUBSET Obj
        /\ \A o \in R : o \in Obj => o \in ReachIn(child, R)
        /\ \A o \in ReachIn(child, R), s \in Slot :
              child[<<o, s>>] \in Obj => child[<<o, s>>] \in ReachIn(child, R)
    BY ReachInClosed
  <2>. QED BY <1>1, <2>1, <2>2, GarbageIsListed DEF GcMap
<1>6. objects \subseteq Live \cup GcMap
  <2>1. Owned \subseteq Live \cup GcMap
    BY <1>2, <1>3, <1>4, <1>5 DEF Owned, Marked
  <2>2. PICK T \in SUBSET Obj : T = Live \cup GcMap
    BY <1>4, <1>5
  <2>3. \A o \in T, s \in Slot : child[<<o, s>>] # NULL => child[<<o, s>>] \in T
    BY <1>4, <1>5, <2>2
  <2>4. ReachIn(child, Owned) \subseteq T
    BY <2>1, <2>2, <2>3, ReachInLeast DEF Closed
  <2>. QED BY <2>2, <2>4 DEF Found
<1>7. External \subseteq Live
  <2> SUFFICES ASSUME NEW g \in External
               PROVE  g \in Live
    OBVIOUS
  <2>1. g \in GcMap /\ g \in objects /\ g \in Obj
    BY <1>5 DEF External
  <2>2. refs[g] > Cardinality(InEdges(g))
    <3>1. refs[g] \in Nat /\ refs[g] >= 1
      BY <1>1, <2>1 DEF Counted, TypeOK
    <3>. QED BY <3>1 DEF External
  <2>3. refs[g] = Cardinality(VarsTo(g)) + Cardinality(EdgesTo(g))
    <3>1. refs[g] = Cardinality(VarsTo(g)) + Cardinality(EdgesTo(g))
                    + (IF g \in held THEN 1 ELSE 0) + (IF ref = g THEN 1 ELSE 0)
      BY <1>1, <2>1 DEF RefCountExact
    <3>2. g \notin held /\ ref # g
      BY <1>2, <1>3, <2>1, NullAssumption
    <3>3. Cardinality(VarsTo(g)) \in Nat /\ Cardinality(EdgesTo(g)) \in Nat
      BY <1>1, <2>1, CountsAreNat DEF Counts
    <3>. QED BY <3>1, <3>2, <3>3
  <2>4. CASE VarsTo(g) # {}
    <3>1. PICK v \in Var : var[v] = g
      BY <2>4 DEF VarsTo
    <3>2. g \in Pointees(var)
      BY <1>1, <2>1, <3>1, NullAssumption DEF Pointees, TypeOK
    <3>. QED BY <1>4, <3>2
  <2>5. CASE VarsTo(g) = {}
    <3>1. Cardinality(VarsTo(g)) = 0
      BY <2>5, FS_EmptySet
    <3>2. EdgesTo(g) # InEdges(g)
      <4>1. Cardinality(InEdges(g)) \in Nat /\ Cardinality(EdgesTo(g)) \in Nat
        BY FiniteEdge, FS_Subset, FS_CardinalityType, EdgesTo(g) \in SUBSET Edge,
           InEdges(g) \in SUBSET Edge DEF InEdges, EdgesTo
      <4>2. Cardinality(EdgesTo(g)) # Cardinality(InEdges(g))
        BY <2>2, <2>3, <3>1, <4>1
      <4>. QED BY <4>2
    <3>3. PICK e \in Edge : child[e] = g /\ e[1] \notin GcMap
      BY <3>2 DEF EdgesTo, InEdges
    <3>4. e[1] \in Live
      <4>1. child[e] # NULL
        BY <2>1, <3>3, NullAssumption
      <4>. QED BY <1>1, <1>3, <1>6, <3>3, <4>1 DEF Emptied
    <3>5. PICK s \in Slot : e = <<e[1], s>>
      BY DEF Edge
    <3>. QED BY <1>4, <2>1, <3>3, <3>4, <3>5
  <2>. QED BY <2>4, <2>5
<1>8. ReachIn(child, External) \subseteq Live
  <2>1. Closed(child, Live)
    BY <1>4 DEF Closed
  <2>. QED BY <1>4, <1>7, <2>1, ReachInLeast
<1>. QED BY <1>6, <1>8 DEF Garbage

(* Between taking and freeing, in a collection that the program waits for, *)
(* everything on the list is reachable or has been taken, and what is      *)
(* being freed has no links.                                               *)
BottomPart ==
  stack # <<>> /\ ~closed /\ BottomOf(stack).op \in {"unlink", "free"}
    => /\ objects \subseteq Live \cup held
       /\ BottomOf(stack).op = "free" => \A o \in held : Bare(o)

(* Such a collection is the only one.                                      *)
LEMMA BottomCollects ==
  ASSUME IInv, stack # <<>>, BottomOf(stack).op \in {"unlink", "free"}
  PROVE  /\ collecting
         /\ Top.op \in {"unlink", "free"} => Rest = <<>>
<1>1. /\ stack \in Seq(Frames) /\ HeldOK(stack, held, collecting) /\ collecting \in BOOLEAN
      /\ Len(stack) \in Nat \ {0}
  BY DEF IInv, TypeOK
<1>2. Len(stack) \in InCollect(stack)
  BY <1>1 DEF InCollect, BottomOf
<1>3. collecting
  <2>1. InCollect(stack) # {}
    BY <1>2
  <2>. QED BY <1>1, <2>1, Zenon DEF HeldOK
<1>4. ASSUME Top.op \in {"unlink", "free"}
      PROVE  Rest = <<>>
  <2>1. 1 \in InCollect(stack)
    BY <1>1, <1>4 DEF InCollect, Top
  <2>2. Len(stack) = 1
    BY <1>1, <1>2, <2>1 DEF HeldOK
  <2>. QED BY <1>1, <2>2, OneCall
<1>. QED BY <1>3, <1>4

(* The last reference of the collection is the last of all.                *)
LEMMA FreedIsGone ==
  ASSUME IInv, RInv, OnlyGarbageIsTaken, RefPart, BottomPart, ~closed,
         NEW o \in Obj, At("free"), o \in Top.objs, Rest = <<>>
  PROVE  refs[o] = 1
<1>1. TypeOK /\ RefCountExact /\ Emptied
  BY DEF IInv, RInv, TypeOK
<1>2. /\ stack \in Seq(Frames) /\ stack # <<>> /\ Head(stack) = Top /\ Top.op = "free"
      /\ Tail(stack) = <<>> /\ Top.objs = held
  BY TopFrame
<1>3. Len(stack) = 1 /\ DOMAIN stack = {1} /\ stack[1].op = "free"
  BY <1>2, OneCall
<1>4. /\ o \in held /\ objects \subseteq Live \cup held /\ \A x \in held : Bare(x)
  <2>1. BottomOf(stack).op = "free"
    BY <1>3 DEF BottomOf
  <2>. QED BY <1>2, <2>1 DEF BottomPart
<1>5. Dying = {} /\ ref = NULL
  <2>1. DyingOf(stack) = DyingOf(<<>>)
    BY <1>2, PopDying
  <2>2. ~InTeardown(stack)
    BY <1>3 DEF InTeardown
  <2>. QED BY <2>1, <2>2, IdleAlive DEF Dying, DyingOf, RefPart
<1>6. o \notin Live
  BY <1>4 DEF OnlyGarbageIsTaken
<1>7. /\ Pointees(var) \subseteq Live
      /\ \A x \in Live, s \in Slot : child[<<x, s>>] \in Obj => child[<<x, s>>] \in Live
  BY <1>1, Pointers, ReachInClosed DEF Live
<1>8. VarsTo(o) = {}
  <2> SUFFICES ASSUME NEW v \in Var, var[v] = o
               PROVE  FALSE
    BY DEF VarsTo
  <2>1. o \in Pointees(var)
    BY <1>1, NullAssumption DEF Pointees, TypeOK
  <2>. QED BY <1>6, <1>7, <2>1
<1>9. EdgesTo(o) = {}
  <2> SUFFICES ASSUME NEW e \in Edge, child[e] = o
               PROVE  FALSE
    BY DEF EdgesTo
  <2>1. child[e] # NULL
    BY NullAssumption
  <2>2. e[1] \in Live \cup held
    BY <1>1, <1>4, <1>5, <2>1 DEF Emptied
  <2>3. PICK s \in Slot : e = <<e[1], s>>
    BY DEF Edge
  <2>4. CASE e[1] \in held
    <3>1. child[<<e[1], s>>] = NULL
      BY <1>4, <2>4 DEF Bare
    <3>. QED BY <2>1, <2>3, <3>1
  <2>5. CASE e[1] \in Live
    <3>1. child[<<e[1], s>>] = o
      BY <2>3
    <3>. QED BY <1>6, <1>7, <2>5, <3>1
  <2>. QED BY <2>2, <2>4, <2>5
<1>10. Cardinality(VarsTo(o)) = 0 /\ Cardinality(EdgesTo(o)) = 0
  BY <1>8, <1>9, FS_EmptySet
<1>11. refs[o] = Cardinality(VarsTo(o)) + Cardinality(EdgesTo(o))
                 + (IF o \in held THEN 1 ELSE 0) + (IF ref = o THEN 1 ELSE 0)
  BY <1>1 DEF RefCountExact
<1>12. ref # o
  BY <1>5, NullAssumption
<1>. QED BY <1>4, <1>10, <1>11, <1>12

(* A call that neither takes nor frees keeps it so.                        *)
LEMMA BottomKept ==
  ASSUME IInv, OnlyGarbageIsTaken, BottomPart, closed' = closed, objects' \subseteq objects,
         UNCHANGED <<var, held>>,
         \/ child' = child
         \/ \E o \in Obj, s \in Slot : o \notin Live /\ child' = [child EXCEPT ![<<o, s>>] = NULL],
         \/ stack' = <<>>
         \/ BottomOf(stack').op \notin {"unlink", "free"}
         \/ stack # <<>> /\ BottomOf(stack') = BottomOf(stack)
  PROVE  BottomPart'
<1>1. TypeOK
  BY DEF IInv
<1>2. Live' = Live
  <2>1. PICK g : g = child'
    OBVIOUS
  <2>2. \A o \in Live, s \in Slot :
           g[<<o, s>>] = child[<<o, s>>] /\ child[<<o, s>>] \in ObjOrNull
    <3>1. \A o \in Live, s \in Slot : <<o, s>> \in Edge /\ child[<<o, s>>] \in ObjOrNull
      BY <1>1, Pointers
    <3>2. CASE child' = child
      BY <2>1, <3>1, <3>2
    <3>3. ASSUME NEW o \in Obj, NEW s \in Slot, o \notin Live,
                 child' = [child EXCEPT ![<<o, s>>] = NULL]
          PROVE  \A x \in Live, y \in Slot : g[<<x, y>>] = child[<<x, y>>]
      BY <1>1, <2>1, <3>1, <3>3 DEF TypeOK
    <3>. QED BY <3>1, <3>2, <3>3
  <2>3. ReachIn(g, Pointees(var)) = ReachIn(child, Pointees(var))
    BY <1>1, <2>2, Pointers, SameReach DEF Live
  <2>. QED BY <2>1, <2>3 DEF Live
<1>3. ASSUME NEW o \in held, Bare(o)
      PROVE  Bare(o)'
  <2>1. \A s \in Slot : <<o, s>> \in Edge /\ child[<<o, s>>] = NULL
    BY <1>1, <1>3 DEF Bare, TypeOK, Edge
  <2>2. \A s \in Slot : child'[<<o, s>>] = NULL
    BY <1>1, <2>1 DEF TypeOK
  <2>. QED BY <2>2 DEF Bare
<1> SUFFICES ASSUME stack' # <<>>, ~closed', BottomOf(stack').op \in {"unlink", "free"}
             PROVE  /\ objects' \subseteq Live' \cup held'
                    /\ BottomOf(stack').op = "free" => \A o \in held' : Bare(o)'
  BY DEF BottomPart, BottomOf
<1>4. stack # <<>> /\ BottomOf(stack') = BottomOf(stack)
  OBVIOUS
<1>5. /\ objects \subseteq Live \cup held
      /\ BottomOf(stack).op = "free" => \A o \in held : Bare(o)
  BY <1>4 DEF BottomPart
<1>. QED BY <1>2, <1>3, <1>4, <1>5

(* The calls keep it so.                                                   *)
LEMMA CallBottom ==
  ASSUME IInv, RInv, OnlyGarbageIsTaken, Found, Counted, RefPart, BottomPart, Calls
  PROVE  BottomPart'
<1>0. TypeOK /\ stack \in Seq(Frames) /\ objects \in SUBSET Obj
  BY DEF IInv, TypeOK
<1>1. ASSUME NEW op, At(op), UNCHANGED <<objects, var, child, held, closed>>,
             \/ stack' = Rest
             \/ \E o \in {"check", "collect"} : stack' = <<Frame(o, {})>> \o Rest
      PROVE  BottomPart'
  <2>1. /\ Rest \in Seq(Frames) /\ stack # <<>>
        /\ Rest # <<>> => BottomOf(stack) = BottomOf(Rest)
    BY <1>1, PopWaits DEF At
  <2>2. \/ stack' = <<>>
        \/ BottomOf(stack').op \notin {"unlink", "free"}
        \/ Rest # <<>> /\ BottomOf(stack') = BottomOf(Rest)
    <3>1. ASSUME NEW o \in {"check", "collect"}, stack' = <<Frame(o, {})>> \o Rest
          PROVE  \/ BottomOf(stack').op \notin {"unlink", "free"}
                 \/ Rest # <<>> /\ BottomOf(stack') = BottomOf(Rest)
      <4>1. PICK f \in Frames : f = Frame(o, {}) /\ f.op = o
        BY FrameHere
      <4>2. f.op \notin {"teardown", "clear"} /\ stack' = <<f>> \o Rest
        BY <3>1, <4>1
      <4>3. /\ Rest # <<>> => BottomOf(stack') = BottomOf(Rest)
            /\ Rest = <<>> => BottomOf(stack') = f
        BY <2>1, <4>2, PushQuiet
      <4>. QED BY <4>1, <4>3
    <3>. QED BY <1>1, <3>1
  <2>. QED BY <1>1, <2>1, <2>2, BottomKept
<1>2. ASSUME Check \/ Destroyed \/ CollectDone \/ Cleared
      PROVE  BottomPart'
  <2>1. PICK op : At(op)
    BY <1>2 DEF Check, Destroyed, CollectDone, Cleared
  <2>2. UNCHANGED <<objects, var, child, held, closed>>
    BY <1>2 DEF Check, Destroyed, CollectDone, Cleared
  <2>3. \/ stack' = Rest
        \/ \E o \in {"check", "collect"} : stack' = <<Frame(o, {})>> \o Rest
    BY <1>2 DEF Check, Destroyed, CollectDone, Cleared
  <2>. QED BY <1>1, <2>1, <2>2, <2>3
<1>3. ASSUME Collect
      PROVE  BottomPart'
  <2>1. At("collect") /\ UNCHANGED <<objects, var, child, closed>>
    BY <1>3 DEF Collect
  <2>2. CASE stack' = Rest /\ held' = held
    BY <1>1, <2>1, <2>2
  <2>3. CASE /\ ~collecting /\ held' = held \cup Garbage
             /\ stack' = <<Frame("unlink", Garbage)>> \o Rest
    <3>1. /\ Rest \in Seq(Frames) /\ stack # <<>>
          /\ Rest # <<>> => BottomOf(stack) = BottomOf(Rest)
      BY <2>1, PopWaits DEF At
    <3>2. PICK f \in Frames : f = Frame("unlink", Garbage) /\ f.op = "unlink"
      BY GarbageIsListed, FrameHere
    <3>3. f.op \notin {"teardown", "clear"} /\ stack' = <<f>> \o Rest
      BY <2>3, <3>2
    <3>4. /\ Rest # <<>> => BottomOf(stack') = BottomOf(Rest)
          /\ Rest = <<>> => BottomOf(stack') = f
      BY <3>1, <3>3, PushQuiet
    <3>5. CASE Rest # <<>>
      <4>1. BottomOf(stack).op \notin {"unlink", "free"}
        BY <2>3, <3>1, BottomCollects
      <4>2. BottomOf(stack').op \notin {"unlink", "free"}
        BY <3>1, <3>4, <3>5, <4>1
      <4>. QED BY <4>2 DEF BottomPart, BottomOf
    <3>6. CASE Rest = <<>>
      <4>1. objects \subseteq Live \cup Garbage
        BY <2>1, <2>3, <3>6, GarbageIsAll
      <4>2. Live' = Live
        BY <2>1 DEF Live
      <4>3. BottomOf(stack').op # "free"
        BY <3>2, <3>4, <3>6
      <4>. QED BY <2>1, <2>3, <4>1, <4>2, <4>3 DEF BottomPart, BottomOf
    <3>. QED BY <3>5, <3>6
  <2>. QED BY <1>3, <2>2, <2>3 DEF Collect
<1>4. ASSUME NEW o \in Obj, NEW s \in Slot, DestroyMember(o, s) \/ UnlinkMember(o, s)
      PROVE  BottomPart'
  <2>1. /\ child[<<o, s>>] # NULL /\ Drop(child[<<o, s>>], stack) /\ <<o, s>> \in Edge
        /\ child' = [child EXCEPT ![<<o, s>>] = NULL] /\ UNCHANGED <<var, held, closed>>
        /\ o \in Top.objs
        /\ At("dtor") \/ At("unlink") \/ At("clear")
    BY <1>4 DEF DestroyMember, UnlinkMember, Edge
  <2>2. PICK p \in Obj : p = child[<<o, s>>]
    BY <1>0, <2>1, Pointers DEF ObjOrNull
  <2>3. Drop(p, stack)
    BY <2>1, <2>2
  <2>4. stack # <<>> /\ BottomOf(stack') = BottomOf(stack)
    <3>1. stack # <<>>
      BY <2>1 DEF At
    <3>. QED BY <1>0, <2>3, <3>1, ReleaseWaits
  <2>5. objects' \subseteq objects
    BY <2>3, ReleaseTakes DEF Drop
  <2>6. CASE At("clear")
    <3>2. stack \in Seq(Frames) /\ stack # <<>> /\ Head(stack).op = "clear"
      BY <2>6, TopFrame
    <3>1. closed
      BY <3>2, PopOK DEF RInv
    <3>. QED BY <2>1, <3>1 DEF BottomPart
  <2>7. CASE At("unlink") \/ At("dtor")
    <3>1. o \notin Live
      <4>1. CASE At("unlink")
        BY <2>1, <4>1, TopFrame DEF OnlyGarbageIsTaken
      <4>2. CASE At("dtor")
        BY <2>1, <4>2, DestroyedIsDead
      <4>. QED BY <2>7, <4>1, <4>2
    <3>. QED BY <2>1, <2>4, <2>5, <3>1, BottomKept
  <2>. QED BY <2>1, <2>6, <2>7
<1>5. ASSUME Unlinked
      PROVE  BottomPart'
  <2>1. /\ At("unlink") /\ stack' = <<Frame("free", Top.objs)>> \o Rest
        /\ UNCHANGED <<objects, var, child, held, closed>>
        /\ \A o \in Top.objs : Bare(o)
    BY <1>5 DEF Unlinked, Bare
  <2>2. /\ Rest \in Seq(Frames) /\ stack # <<>> /\ Top.objs \in SUBSET Obj /\ Top.op = "unlink"
        /\ BottomOf(stack) = IF Rest = <<>> THEN Top ELSE BottomOf(Rest)
    BY <2>1, PopWaits DEF At
  <2>3. PICK f \in Frames : f = Frame("free", Top.objs) /\ f.op = "free"
    BY <2>2, FrameHere
  <2>4. f.op \notin {"teardown", "clear"} /\ stack' = <<f>> \o Rest
    BY <2>1, <2>3
  <2>5. /\ Rest # <<>> => BottomOf(stack') = BottomOf(Rest)
        /\ Rest = <<>> => BottomOf(stack') = f
    BY <2>2, <2>4, PushQuiet
  <2>6. CASE Rest # <<>>
    <3>1. BottomOf(stack') = BottomOf(stack)
      BY <2>2, <2>5, <2>6
    <3>. QED BY <2>1, <2>2, <3>1, BottomKept
  <2>7. CASE Rest = <<>> /\ ~closed
    <3>1. objects \subseteq Live \cup held
      BY <2>2, <2>7 DEF BottomPart
    <3>2. Live' = Live
      BY <2>1 DEF Live
    <3>3. \A o \in held : Bare(o)
      BY <2>1, TopFrame
    <3>4. \A o \in held' : Bare(o)'
      BY <2>1, <3>3 DEF Bare
    <3>. QED BY <2>1, <3>1, <3>2, <3>4 DEF BottomPart
  <2>8. CASE closed
    BY <2>1, <2>8 DEF BottomPart
  <2>. QED BY <2>6, <2>7, <2>8
<1>6. ASSUME NEW o \in Obj, FreeOne(o)
      PROVE  BottomPart'
  <2>1. /\ At("free") /\ o \in Top.objs /\ held' = held \ {o}
        /\ UNCHANGED <<var, child, closed>>
        /\ Drop(o, <<Frame("free", Top.objs \ {o})>> \o Rest)
    BY <1>6 DEF FreeOne
  <2>2. /\ Rest \in Seq(Frames) /\ stack # <<>> /\ Top.objs \in SUBSET Obj /\ Top.op = "free"
        /\ BottomOf(stack) = IF Rest = <<>> THEN Top ELSE BottomOf(Rest)
    BY <2>1, PopWaits DEF At
  <2>3. PICK f \in Frames : f = Frame("free", Top.objs \ {o}) /\ f.op = "free"
    BY <2>2, FrameHere
  <2>4. PICK rest : rest = <<f>> \o Rest
    OBVIOUS
  <2>5. f.op \notin {"teardown", "clear"}
    BY <2>3
  <2>6. /\ rest \in Seq(Frames) /\ rest # <<>>
        /\ Rest # <<>> => BottomOf(rest) = BottomOf(Rest)
    BY <2>2, <2>4, <2>5, PushQuiet
  <2>7. Drop(o, rest)
    BY <2>1, <2>3, <2>4
  <2>8. BottomOf(stack') = BottomOf(rest)
    BY <2>6, <2>7, ReleaseWaits
  <2>9. CASE Rest # <<>>
    <3>1. BottomOf(stack).op \notin {"unlink", "free"}
      BY <2>2, <2>9, BottomCollects
    <3>2. BottomOf(stack').op \notin {"unlink", "free"}
      BY <2>2, <2>6, <2>8, <2>9, <3>1
    <3>. QED BY <3>2 DEF BottomPart, BottomOf
  <2>10. CASE Rest = <<>> /\ ~closed
    <3>1. refs[o] = 1
      BY <2>1, <2>10, FreedIsGone
    <3>2. objects' = objects \ {o}
      BY <2>7, <3>1 DEF Drop, ReleaseIn
    <3>3. /\ objects \subseteq Live \cup held
          /\ \A x \in held : Bare(x)
      BY <2>2, <2>10 DEF BottomPart
    <3>4. Live' = Live
      BY <2>1 DEF Live
    <3>5. \A x \in held' : Bare(x)'
      BY <2>1, <3>3 DEF Bare
    <3>6. objects' \subseteq Live' \cup held'
      BY <2>1, <3>2, <3>3, <3>4
    <3>. QED BY <3>5, <3>6 DEF BottomPart
  <2>11. CASE closed
    BY <2>1, <2>11 DEF BottomPart
  <2>. QED BY <2>9, <2>10, <2>11
<1>7. ASSUME ResetRef \/ \E o \in Obj : NextObject(o)
      PROVE  BottomPart'
  <2>1. At("teardown") /\ closed' = closed
    BY <1>7 DEF ResetRef, NextObject
  <2>3. stack \in Seq(Frames) /\ stack # <<>> /\ Head(stack).op = "teardown"
    BY <2>1, TopFrame
  <2>2. closed
    BY <2>3, PopOK DEF RInv
  <2>. QED BY <2>1, <2>2 DEF BottomPart
<1>. QED BY <1>2, <1>3, <1>4, <1>5, <1>6, <1>7 DEF Calls

(* So does every step.                                                     *)
LEMMA BottomNext ==
  ASSUME IInv, RInv, OnlyGarbageIsTaken, Found, Counted, RefPart, BottomPart, [Next]_vars
  PROVE  BottomPart'
<1>0. TypeOK
  BY DEF IInv
<1>1. /\ \A v \in Var : var[v] \in ObjOrNull
      /\ \A o \in Obj, s \in Slot : child[<<o, s>>] \in ObjOrNull
  BY <1>0, Pointers DEF TypeOK
<1>2. ASSUME NEW q \in ObjOrNull, NEW old \in ObjOrNull, NEW objs, Repoint(q, old, objs, <<>>)
      PROVE  BottomPart'
  <2>1. <<>> \in Seq(Frames)
    OBVIOUS
  <2>2. stack' # <<>> => BottomOf(stack').op \in {"dtor", "check"}
    BY <1>2, <2>1, ReleaseWaits
  <2>. QED BY <2>2 DEF BottomPart, BottomOf
<1>3. CASE Program
  <2>1. ASSUME NEW v \in Var, NEW o \in Obj, New(v, o)
        PROVE  BottomPart'
    BY <1>1, <1>2, <2>1 DEF New, ObjOrNull
  <2>2. ASSUME NEW v \in Var, NEW q \in ObjOrNull, AssignVar(v, q)
        PROVE  BottomPart'
    BY <1>1, <1>2, <2>2 DEF AssignVar
  <2>3. ASSUME NEW o \in Obj, NEW s \in Slot, NEW q \in ObjOrNull, AssignMember(o, s, q)
        PROVE  BottomPart'
    BY <1>1, <1>2, <2>3 DEF AssignMember
  <2>4. CASE CallCollect
    <3>1. stack' = <<Frame("collect", {})>>
      BY <2>4 DEF CallCollect
    <3>2. BottomOf(stack').op = "collect"
      BY <3>1 DEF BottomOf, Frame
    <3>. QED BY <3>2 DEF BottomPart, BottomOf
  <2>5. CASE Close
    BY <2>5 DEF Close, BottomPart
  <2>. QED BY <1>3, <2>1, <2>2, <2>3, <2>4, <2>5 DEF Program
<1>4. CASE UNCHANGED vars
  <2>1. UNCHANGED <<objects, var, child, held, closed, stack>>
    BY <1>4 DEF vars
  <2>2. Live' = Live
    BY <2>1 DEF Live
  <2>. QED BY <2>1, <2>2 DEF BottomPart, BottomOf, Bare
<1>. QED BY <1>3, <1>4, CallBottom DEF Next, Over

(* All of it together.                                                     *)
CInv == /\ IInv /\ RInv /\ OnlyGarbageIsTaken
        /\ Found /\ Counted /\ RefPart /\ TearPart /\ BottomPart

LEMMA CompleteStart == Init => CInv
<1> SUFFICES ASSUME Init
             PROVE  CInv
  OBVIOUS
<1>1. IInv /\ RInv
  BY InitInv, HeapStart
<1>2. objects = {} /\ held = {} /\ ref = NULL /\ stack = <<>>
  BY DEF Init
<1>. QED BY <1>1, <1>2 DEF CInv, OnlyGarbageIsTaken, Found, Counted, RefPart, TearPart, BottomPart

LEMMA CompleteNext == CInv /\ [Next]_vars => CInv'
<1> SUFFICES ASSUME CInv, [Next]_vars
             PROVE  CInv'
  OBVIOUS
<1>1. /\ IInv /\ RInv /\ OnlyGarbageIsTaken
      /\ Found /\ Counted /\ RefPart /\ TearPart /\ BottomPart
  BY DEF CInv
<1>2. IInv' /\ RInv' /\ OnlyGarbageIsTaken'
  BY <1>1, NextInv, NextIsHeapStep, TakenStep
<1>3. Found'
  BY <1>1, <1>2, FoundNext
<1>4. Counted' /\ RefPart' /\ TearPart' /\ BottomPart'
  BY <1>1, CountedNext, TearNext, BottomNext
<1>. QED BY <1>2, <1>3, <1>4 DEF CInv

(* When the collector's destructor is over, only variables keep objects.   *)
LEMMA NothingLeaks ==
  ASSUME CInv, closed, stack = <<>>, Pointees(var) = {}
  PROVE  objects = {}
<1> SUFFICES ASSUME NEW o \in objects
             PROVE  FALSE
  OBVIOUS
<1>1. /\ TypeOK /\ RefCountExact /\ HeldOK(stack, held, collecting) /\ Emptied
      /\ collecting \in BOOLEAN /\ o \in Obj
  BY DEF CInv, IInv, RInv, TypeOK
<1>2. held = {}
  <2>1. InCollect(stack) = {}
    BY DEF InCollect
  <2>. QED BY <1>1, <2>1, Zenon DEF HeldOK
<1>3. ref = NULL /\ Dying = {} /\ ToDoOf(stack) = {}
  BY DEF CInv, RefPart, InTeardown, Dying, ToDoOf
<1>4. \A x \in objects : Bare(x)
  BY <1>3 DEF CInv, TearPart
<1>5. EdgesTo(o) = {}
  <2> SUFFICES ASSUME NEW e \in Edge, child[e] = o
               PROVE  FALSE
    BY DEF EdgesTo
  <2>1. child[e] # NULL
    BY <1>1, NullAssumption
  <2>2. e[1] \in objects
    BY <1>1, <1>3, <2>1 DEF Emptied
  <2>3. PICK s \in Slot : e = <<e[1], s>>
    BY DEF Edge
  <2>4. child[<<e[1], s>>] = NULL
    BY <1>4, <2>2 DEF Bare
  <2>. QED BY <2>1, <2>3, <2>4
<1>6. VarsTo(o) = {}
  <2> SUFFICES ASSUME NEW v \in Var, var[v] = o
               PROVE  FALSE
    BY DEF VarsTo
  <2>1. o \in Pointees(var)
    BY <1>1, NullAssumption DEF Pointees, TypeOK
  <2>. QED BY <2>1
<1>7. Cardinality(VarsTo(o)) = 0 /\ Cardinality(EdgesTo(o)) = 0
  BY <1>5, <1>6, FS_EmptySet
<1>8. refs[o] = Cardinality(VarsTo(o)) + Cardinality(EdgesTo(o))
                + (IF o \in held THEN 1 ELSE 0) + (IF ref = o THEN 1 ELSE 0)
  BY <1>1 DEF RefCountExact
<1>9. o \notin held /\ ref # o
  BY <1>1, <1>2, <1>3, NullAssumption
<1>10. refs[o] = 0
  BY <1>7, <1>8, <1>9
<1>11. refs[o] >= 1
  BY DEF CInv, Counted
<1>. QED BY <1>10, <1>11

(* When a collection that was not in vain comes back to the program, only  *)
(* what the program can reach is left.                                     *)
LEMMA NothingLostIsLeft ==
  ASSUME CInv, Next, Running',
         \/ At("free") /\ Top.objs = {}
         \/ At("collect") /\ ~collecting /\ numRoots # 0
  PROVE  objects' \subseteq Live'
<1>1. IInv /\ RInv /\ Found /\ Counted /\ RefPart /\ BottomPart
  BY DEF CInv
<1>2. stack' = <<>> /\ ~closed'
  BY DEF Running
<1>3. stack # <<>>
  BY DEF At
<1>4. CASE At("free") /\ Top.objs = {}
  <2>1. CollectDone
    BY <1>3, <1>4 DEF Next, Program, New, AssignVar, AssignMember, CallCollect, Close, Running,
       Over, Calls, Check, DestroyMember, Destroyed, Collect, UnlinkMember, Unlinked, FreeOne,
       NextObject, Cleared, ResetRef, At
  <2>2. Rest = <<>> /\ UNCHANGED <<objects, var, child, closed>>
    BY <1>2, <2>1 DEF CollectDone
  <2>3. Top.op = "free" /\ BottomOf(stack) = Top /\ held = {}
    BY <1>1, <1>4, <2>2, PopWaits, TopFrame
  <2>4. objects \subseteq Live
    BY <1>1, <1>2, <1>3, <2>2, <2>3 DEF BottomPart
  <2>. QED BY <2>2, <2>4 DEF Live
<1>5. CASE At("collect") /\ ~collecting /\ numRoots # 0
  <2>1. Collect
    BY <1>3, <1>5 DEF Next, Program, New, AssignVar, AssignMember, CallCollect, Close, Running,
       Over, Calls, Check, DestroyMember, Destroyed, CollectDone, UnlinkMember, Unlinked, FreeOne,
       NextObject, Cleared, ResetRef, At
  <2>2. Garbage = {} /\ stack' = Rest
    <3>1. ASSUME stack' = <<Frame("unlink", Garbage)>> \o Rest
          PROVE  FALSE
      <4>1. PICK f \in Frames : f = Frame("unlink", Garbage)
        BY <1>1, GarbageIsListed, FrameHere
      <4>2. Rest \in Seq(Frames)
        BY <1>1, <1>5, TopFrame
      <4>3. <<f>> \o Rest # <<>>
        BY <4>2, PushWaits
      <4>. QED BY <1>2, <3>1, <4>1, <4>3
    <3>. QED BY <1>5, <2>1, <3>1 DEF Collect
  <2>3. objects \subseteq Live \cup Garbage
    BY <1>1, <1>2, <1>5, <2>2, GarbageIsAll
  <2>4. UNCHANGED <<objects, var, child>>
    BY <2>1 DEF Collect
  <2>. QED BY <2>2, <2>3, <2>4 DEF Live
<1>. QED BY <1>4, <1>5

(* collectCycles: whenever it comes back to the program after it has       *)
(* looked for garbage, nothing is listed that the program cannot reach;    *)
(* and ~CycleCollector leaves nothing behind that no variable keeps.       *)
THEOREM NothingLostStays == Spec => CollectionIsComplete
<1>1. CInv => (closed /\ stack = <<>> /\ Pointees(var) = {} => objects = {})
  BY NothingLeaks
<1>2. CInv /\ [Next]_vars =>
        [/\ \/ At("free") /\ Top.objs = {}
            \/ At("collect") /\ ~collecting /\ numRoots # 0
         /\ Running'
         => objects' \subseteq Live']_vars
  BY NothingLostIsLeft
<1>. QED BY <1>1, <1>2, CompleteStart, CompleteNext, PTL DEF Spec, CollectionIsComplete

=============================================================================
