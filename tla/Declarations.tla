---------------------------- MODULE Declarations ----------------------------
(* The types a context makes from the declarations of a C program
   (Context::getTypeFromDeclType, Impl/Core.cpp).

   The declaration macros give the program one object for each type it uses,
   with the declarations of its parts: the members of a structure, the result
   and the arguments of a function, the element of a pointer or an array.  The
   look-up makes the types of the parts first.  A structure may have parts that
   lead back to it, and is therefore put into declCacheMap_ before its members
   are known; everything else goes there when it is complete.

   The recursion is a stack of frames, and a step is one part of the topmost
   declaration.  A type is an index into the sequence of the types made; types
   of pointers and arrays and built-in types are shared by the world, the others
   are made for each declaration.  A member with semantics, which every pointer
   has, does not get the type of its declaration but one made for the member
   alone, which refers to that type ("..._ANNOTATED").                        *)
EXTENDS Integers, Sequences, FiniteSets

CONSTANTS Decl,     \* the declarations of a program
          Programs  \* the programs: what every declaration is, and its parts

Shared == {"builtin", "pointer", "reference", "array"}
Made   == {"annotated", "enum", "func", "service", "opaque", "encrypted"}
Kinds  == Shared \cup Made \cup {"struct", "unknown"}

\* A program: "lacks" holds the structures with a main member they do not have,
\* "semantics" the members that are declared with semantics or as a char pointer
ProgramType == [kind : [Decl -> Kinds], parts : [Decl -> Seq(Decl)], lacks : SUBSET Decl,
                semantics : SUBSET (Decl \X Nat)]
ASSUME ProgramsAssumption == Programs \subseteq ProgramType

VARIABLES prog,   \* the program
          types,  \* the types of the world, in the order in which they were made
          cache,  \* declCacheMap_: the type of a declaration, 0 when there is none
          stack,  \* the calls of getTypeFromDeclType, the innermost last
          error,  \* the look-up has set the error of the context
          handed, \* history: the types given to the program for a declaration
          left    \* history: the types a look-up was building when it ended in an error

declVars == <<prog, types, cache, stack, error, handed, left>>
-----------------------------------------------------------------------------
Kind(d) == prog.kind[d]
Parts(d) == prog.parts[d]
Top == stack[Len(stack)]
Popped == SubSeq(stack, 1, Len(stack) - 1)
Frame(d, t) == [decl |-> d, type |-> t, elems |-> <<>>]

\* A type as it is made; "decls" is history: what it is the type of
NewType(d, elems) == [kind |-> Kind(d), elems |-> elems, decls |-> {d}]

\* The types of the world that d shares
SharedWith(d, elems) ==
  {t \in DOMAIN types : /\ types[t].kind = Kind(d) /\ Kind(d) \in Shared
                        /\ types[t].elems = elems
                        /\ Kind(d) = "builtin" => d \in types[t].decls}

\* Everything has been done for the parts of the topmost declaration
Finished(f) == Len(f.elems) = Len(Parts(f.decl))

\* The i-th member of a structure has semantics
HasSemantics(d, i) ==
  /\ Kind(d) = "struct"
  /\ Kind(Parts(d)[i]) = "pointer" \/ <<d, i>> \in prog.semantics

\* The type made for a member with semantics: it is that of no declaration
Annotation(t) == [kind |-> "semantics", elems |-> <<t>>, decls |-> {}]

\* s with the type e as the next part of its topmost declaration.  A structure
\* gets its member at once (setElementAt).
Given(s, e) == [s EXCEPT ![Len(s)].elems = Append(@, e)]
Member(ts, s, e) ==
  IF s[Len(s)].type = 0 THEN ts
  ELSE [ts EXCEPT ![s[Len(s)].type].elems = Append(@, e)]

\* The types and the stack when t was found for the next part (parseSemanticsField)
Gives(ts, s, t) ==
  IF HasSemantics(s[Len(s)].decl, Len(s[Len(s)].elems) + 1)
    THEN /\ types' = Member(Append(ts, Annotation(t)), s, Len(ts) + 1)
         /\ stack' = Given(s, Len(ts) + 1)
    ELSE types' = Member(ts, s, t) /\ stack' = Given(s, t)
-----------------------------------------------------------------------------
DeclInit ==
  /\ prog \in Programs
  /\ types = <<>>
  /\ cache = [d \in Decl |-> 0]
  /\ stack = <<>>
  /\ error = FALSE
  /\ handed = [d \in Decl |-> {}]
  /\ left = {}

\* getTypeFromDeclType up to the first part: only a structure exists already
Enter(s, d) ==
  IF Kind(d) = "struct"
    THEN /\ stack' = Append(s, Frame(d, Len(types) + 1))
         /\ types' = Append(types, NewType(d, <<>>))
         /\ cache' = [cache EXCEPT ![d] = Len(types) + 1]
    ELSE /\ stack' = Append(s, Frame(d, 0))
         /\ UNCHANGED <<types, cache>>

\* Mutant: the cache is not asked
GetTypeAnew(d) ==
  /\ stack = <<>>
  /\ error' = FALSE
  /\ Enter(stack, d)
  /\ UNCHANGED <<prog, handed, left>>

\* Context::getTypeFromDecl: the program asks for a type; the error of the
\* context is cleared
GetType(d) ==
  /\ stack = <<>>
  /\ error' = FALSE
  /\ IF cache[d] # 0
       THEN /\ handed' = [handed EXCEPT ![d] = @ \cup {cache[d]}]
            /\ UNCHANGED <<types, cache, stack>>
       ELSE Enter(stack, d) /\ UNCHANGED handed
  /\ UNCHANGED <<prog, left>>

\* Mutant: a part that is known is not stored
PartLost ==
  /\ stack # <<>> /\ ~Finished(Top)
  /\ LET p == Parts(Top.decl)[Len(Top.elems) + 1]
     IN  IF cache[p] # 0 THEN UNCHANGED <<types, cache, stack>> ELSE Enter(stack, p)
  /\ error' = FALSE
  /\ UNCHANGED <<prog, handed, left>>

\* The next part of the topmost declaration is looked up
Part ==
  /\ stack # <<>> /\ ~Finished(Top)
  /\ LET p == Parts(Top.decl)[Len(Top.elems) + 1]
     IN  IF cache[p] # 0
           THEN Gives(types, stack, cache[p]) /\ cache' = cache
           ELSE Enter(stack, p)
  /\ error' = FALSE
  /\ UNCHANGED <<prog, handed, left>>

\* An unknown built-in type, or a structure without the main member it names
Wrong(f) == Kind(f.decl) = "unknown" \/ f.decl \in prog.lacks

\* The types that the look-ups of the stack are building
Building == {stack[i].type : i \in DOMAIN stack} \ {0}

\* Mutant: the caller of a failed look-up goes on with the last type made
FailUnseen ==
  /\ stack # <<>> /\ Finished(Top) /\ Wrong(Top)
  /\ error' = TRUE
  /\ IF Len(stack) = 1 THEN stack' = <<>> /\ types' = types
                       ELSE Gives(types, Popped, Len(types))
  /\ left' = left \cup ({Top.type} \ {0})
  /\ UNCHANGED <<prog, cache, handed>>

\* The look-up ends in an error, and every caller in turn returns 0.  Nothing is
\* taken out of the cache.
Fail ==
  /\ stack # <<>> /\ Finished(Top) /\ Wrong(Top)
  /\ error' = TRUE
  /\ stack' = <<>>
  /\ left' = left \cup Building
  /\ UNCHANGED <<prog, types, cache, handed>>

\* The type t of the topmost declaration goes into the cache, over one that an
\* inner look-up of the same declaration may have put there, and to the caller
Return(ts, t) ==
  LET d == Top.decl
      marked == [ts EXCEPT ![t].decls = @ \cup {d}]
  IN  /\ cache' = [cache EXCEPT ![d] = t]
      /\ IF Len(stack) = 1 THEN stack' = <<>> /\ types' = marked
                           ELSE Gives(marked, Popped, t)
      /\ handed' = IF Len(stack) = 1 THEN [handed EXCEPT ![d] = @ \cup {t}] ELSE handed

\* The end of getTypeFromDeclType: a structure is complete, a shared type is
\* found or made, and any other type is made
Complete ==
  /\ stack # <<>> /\ Finished(Top) /\ ~Wrong(Top)
  /\ LET d == Top.decl
         found == SharedWith(d, Top.elems)
     IN  IF Top.type # 0 THEN Return(types, Top.type)
         ELSE IF found # {} THEN \E t \in found : Return(types, t)
         ELSE Return(Append(types, NewType(d, Top.elems)), Len(types) + 1)
  /\ UNCHANGED <<prog, error, left>>

Lookup == Part \/ Fail \/ Complete
DeclNext == (\E d \in Decl : GetType(d)) \/ Lookup
DeclSpec == DeclInit /\ [][DeclNext]_declVars
\* A look-up is a call that runs to its end
DeclFairSpec == DeclSpec /\ WF_declVars(Lookup)
-----------------------------------------------------------------------------
TypeIds == 1..Len(types)
FrameType == [decl : Decl, type : Nat, elems : Seq(Nat)]
TypeType == [kind : Kinds \cup {"semantics"}, elems : Seq(Nat), decls : SUBSET Decl]

\* The types of the variables
DeclTypeOK ==
  /\ prog \in Programs
  /\ types \in Seq(TypeType)
  /\ cache \in [Decl -> 0..Len(types)]
  /\ stack \in Seq(FrameType)
  /\ error \in BOOLEAN
  /\ handed \in [Decl -> SUBSET (1..Len(types))]
  /\ left \subseteq 1..Len(types)

\* The type t, among the types ts, is one for the i-th part of d
IsPart(ts, t, d, i) ==
  IF HasSemantics(d, i)
    THEN /\ ts[t].kind = "semantics" /\ Len(ts[t].elems) = 1
         /\ ts[t].elems[1] \in DOMAIN ts /\ Parts(d)[i] \in ts[ts[t].elems[1]].decls
    ELSE Parts(d)[i] \in ts[t].decls

Whole(t) == \A d \in types[t].decls : Len(types[t].elems) = Len(Parts(d))

\* The types are built as the declarations say: the parts of a type are types of
\* the declared parts, in their order, behind a type of their own exactly where a
\* member has semantics, whatever the chain of look-ups, failures and shared types
\* they come from; a type that lacks parts is a structure that is being looked up,
\* or one that was when a look-up failed (Core.cpp:420, 451-453)
TypesFollowDeclarations ==
  /\ \A t \in TypeIds : \A d \in types[t].decls :
       /\ types[t].kind = Kind(d)
       /\ \A i \in DOMAIN types[t].elems :
            i <= Len(Parts(d)) /\ IsPart(types, types[t].elems[i], d, i)
  /\ \A t \in TypeIds : Whole(t) \/ t \in left \cup Building

\* The program gets one type for a declaration, always the same one, although an
\* inner and an outer look-up of a declaration may have made two (Core.cpp:727);
\* and nothing that it reaches from there is still being built: the types made
\* until some moment refer to each other only, each is whole unless a failed
\* look-up has left it as it was, and all that was handed out is among them
HandedOutIsStable ==
  /\ \A d \in Decl : \A t \in handed[d] : t = cache[d]
  /\ \E n \in 0..Len(types) :
       /\ \A d \in Decl : handed[d] \subseteq 1..n
       /\ \A t \in 1..n : Whole(t) \/ t \in left
       /\ \A t \in 1..n : \A i \in DOMAIN types[t].elems : types[t].elems[i] \in 1..n

\* Every look-up comes to its end, although declarations refer to each other: only
\* the entry a structure has in the cache from the start ends the recursion
\* (Core.cpp:420, "prevent infinite loop")
LookupEnds == stack # <<>> ~> stack = <<>>
=============================================================================
