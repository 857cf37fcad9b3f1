--------------------------- MODULE ContextProofs ---------------------------
(* What a context and its services build, for all inputs.

   Declarations: whatever declarations a program has, and whatever it asks for in
   whatever order, the types are built as they say, also when a look-up fails or
   meets its own declaration again, and a declaration given to the program keeps
   its type.  A look-up is a stack of frames; the invariant says what each frame,
   and what the type of an unfinished structure, has so far.

   ServiceFunctions: for any methods, native types, functions and handlers and any
   number of registrations, a method never leads to an object that was destroyed,
   and a call runs what was registered for its method.

   The two share no state; each has its specification and its invariant.        *)
EXTENDS Declarations, ServiceFunctions, SequenceTheorems, TLAPS

\* The types elems, among ts, are those of the first parts of d
PartsOf(ts, elems, d) ==
  /\ Len(elems) <= Len(Parts(d))
  /\ \A i \in DOMAIN elems : elems[i] \in DOMAIN ts /\ IsPart(ts, elems[i], d, i)

\* What is asked of types ts whatever the look-up is at: a type is what its
\* declarations say, as far as it has parts
TypePart(ts) ==
  \A t \in DOMAIN ts : \A d \in ts[t].decls :
    ts[t].kind = Kind(d) /\ PartsOf(ts, ts[t].elems, d)

\* Types refer to types
ElemsPart(ts) == \A t \in DOMAIN ts : \A i \in DOMAIN ts[t].elems : ts[t].elems[i] \in DOMAIN ts

\* A frame has the types of the parts that were looked up, and if it is of a
\* structure, the type of the structure has them too
FramePart(ts, s) ==
  \A i \in DOMAIN s :
    /\ PartsOf(ts, s[i].elems, s[i].decl)
    /\ s[i].type # 0 <=> Kind(s[i].decl) = "struct"
    /\ s[i].type # 0 => /\ s[i].type \in DOMAIN ts /\ ts[s[i].type].decls = {s[i].decl}
                        /\ ts[s[i].type].kind = "struct"
                        /\ ts[s[i].type].elems = s[i].elems

\* Each frame looks up the next part of the one below, and no two frames work on
\* one type
ChainPart(s) ==
  /\ \A i \in DOMAIN s : i + 1 \in DOMAIN s =>
       /\ Len(s[i].elems) + 1 <= Len(Parts(s[i].decl))
       /\ s[i + 1].decl = Parts(s[i].decl)[Len(s[i].elems) + 1]
  /\ \A i, j \in DOMAIN s : s[i].type # 0 /\ s[i].type = s[j].type => i = j

\* Only what is being looked up and what has failed lacks parts
DonePart(ts, s, fl) ==
  \A t \in DOMAIN ts : \A d \in ts[t].decls :
    \/ Len(ts[t].elems) = Len(Parts(d)) \/ t \in fl
    \/ \E i \in DOMAIN s : s[i].type = t

Built(ts, s, fl) ==
  /\ ts \in Seq(TypeType) /\ s \in Seq(FrameType)
  /\ TypePart(ts) /\ ElemsPart(ts) /\ FramePart(ts, s) /\ ChainPart(s) /\ DonePart(ts, s, fl)

\* The first n types refer to each other, none is being built, and what h has was
\* given out from among them
Old(ts, s, n) ==
  /\ n \in Nat /\ 1..n \subseteq DOMAIN ts
  /\ \A t \in 1..n : \A i \in DOMAIN ts[t].elems : ts[t].elems[i] \in 1..n
  /\ \A i \in DOMAIN s : s[i].type \notin 1..n
OldPart(ts, s, h) == \E n \in Nat : Old(ts, s, n) /\ \A d \in Decl : h[d] \subseteq 1..n

\* A declaration in the cache has its type there, and what was given to the
\* program is still what the cache has
CachePart(ts, c) ==
  /\ c \in [Decl -> Nat]
  /\ \A d \in Decl : c[d] # 0 => c[d] \in DOMAIN ts /\ d \in ts[c[d]].decls

HandedPart ==
  /\ handed \in [Decl -> SUBSET Nat]
  /\ \A d \in Decl : handed[d] = {} \/ (cache[d] # 0 /\ handed[d] = {cache[d]})
  /\ \A i \in DOMAIN stack : handed[stack[i].decl] = {}

DeclInv ==
  /\ prog \in Programs /\ error \in BOOLEAN /\ left \subseteq DOMAIN types
  /\ Built(types, stack, left) /\ CachePart(types, cache) /\ HandedPart
  /\ OldPart(types, stack, handed)
-----------------------------------------------------------------------------
\* Sequences that grow and shrink at their end
LEMMA Appended ==
  ASSUME NEW S, NEW q \in Seq(S), NEW x \in S
  PROVE  /\ Append(q, x) \in Seq(S) /\ Len(q) \in Nat /\ Len(Append(q, x)) = Len(q) + 1
         /\ DOMAIN Append(q, x) = DOMAIN q \cup {Len(q) + 1} /\ Len(q) + 1 \notin DOMAIN q
         /\ Append(q, x)[Len(q) + 1] = x /\ \A i \in DOMAIN q : Append(q, x)[i] = q[i]
<1>1. PICK a : a = Append(q, x)
  OBVIOUS
<1>2. /\ a \in Seq(S) /\ Len(a) = Len(q) + 1 /\ a[Len(q) + 1] = x
      /\ \A i \in 1..Len(q) : a[i] = q[i]
  BY <1>1, AppendProperties
<1>3. DOMAIN q = 1..Len(q) /\ Len(q) \in Nat /\ DOMAIN a = 1..(Len(q) + 1)
  BY <1>2
<1>. QED BY <1>1, <1>2, <1>3

LEMMA Shortened ==
  ASSUME NEW S, NEW q \in Seq(S), q # <<>>
  PROVE  /\ Len(q) \in DOMAIN q /\ SubSeq(q, 1, Len(q) - 1) \in Seq(S)
         /\ DOMAIN SubSeq(q, 1, Len(q) - 1) = DOMAIN q \ {Len(q)}
         /\ Len(SubSeq(q, 1, Len(q) - 1)) = Len(q) - 1
         /\ \A i \in DOMAIN q \ {Len(q)} : SubSeq(q, 1, Len(q) - 1)[i] = q[i]
<1>1. Len(q) \in Nat \ {0} /\ DOMAIN q = 1..Len(q) /\ \A i \in 1..Len(q) : q[i] \in S
  BY EmptySeq
<1>2. PICK n \in Nat : n = Len(q) - 1
  <2>1. \A k \in Nat \ {0} : k - 1 \in Nat
    OBVIOUS
  <2>. QED BY <1>1, <2>1
<1>3. PICK b : b = SubSeq(q, 1, n)
  OBVIOUS
<1>4. /\ b \in Seq(S) /\ Len(b) = IF 1 <= n THEN n - 1 + 1 ELSE 0
      /\ \A i \in 1..(n - 1 + 1) : b[i] = q[1 + i - 1]
  <2>1. \A i \in 1..n : i \in 1..Len(q)
    BY <1>1, <1>2
  <2>. QED BY <1>1, <1>2, <1>3, <2>1, SubSeqProperties
<1>5. Len(b) = n /\ \A i \in 1..n : b[i] = q[i]
  BY <1>2, <1>4
<1>6. DOMAIN b = 1..n /\ 1..n = (1..Len(q)) \ {Len(q)}
  <2>1. \A k \in Nat \ {0} : 1..(k - 1) = (1..k) \ {k}
    OBVIOUS
  <2>2. DOMAIN b = 1..n
    BY <1>4, <1>5
  <2>. QED BY <1>1, <1>2, <2>1, <2>2
<1>. QED BY <1>1, <1>2, <1>3, <1>4, <1>5, <1>6

LEMMA Replaced ==
  ASSUME NEW S, NEW q \in Seq(S), NEW i \in DOMAIN q, NEW x \in S
  PROVE  /\ [q EXCEPT ![i] = x] \in Seq(S) /\ DOMAIN [q EXCEPT ![i] = x] = DOMAIN q
         /\ [q EXCEPT ![i] = x][i] = x
         /\ \A j \in DOMAIN q \ {i} : [q EXCEPT ![i] = x][j] = q[j]
<1>1. i \in 1..Len(q)
  OBVIOUS
<1>. QED BY <1>1, ExceptSeq

\* What a program is
LEMMA ProgramFacts ==
  ASSUME prog \in Programs
  PROVE  \A d \in Decl : Parts(d) \in Seq(Decl) /\ Kind(d) \in Kinds /\ Len(Parts(d)) \in Nat
<1>1. prog \in ProgramType
  BY ProgramsAssumption
<1>2. prog.kind \in [Decl -> Kinds] /\ prog.parts \in [Decl -> Seq(Decl)]
  BY <1>1 DEF ProgramType
<1>. QED BY <1>2 DEF Parts, Kind

\* What is known of a type and a frame
LEMMA BuiltTypes ==
  ASSUME NEW ts, NEW s, NEW fl, Built(ts, s, fl)
  PROVE  /\ Len(ts) \in Nat /\ DOMAIN ts = 1..Len(ts) /\ Len(s) \in Nat /\ DOMAIN s = 1..Len(s)
         /\ \A t \in DOMAIN ts : /\ ts[t] \in TypeType /\ ts[t].elems \in Seq(Nat)
                                 /\ ts[t].kind \in Kinds \cup {"semantics"} /\ ts[t].decls \subseteq Decl
         /\ \A i \in DOMAIN s : /\ s[i] \in FrameType /\ s[i].elems \in Seq(Nat)
                                /\ s[i].decl \in Decl /\ s[i].type \in Nat
<1>1. ts \in Seq(TypeType) /\ s \in Seq(FrameType)
  BY DEF Built
<1>2. \A t \in DOMAIN ts : ts[t] \in TypeType
  BY <1>1
<1>3. \A i \in DOMAIN s : s[i] \in FrameType
  BY <1>1
<1>. QED BY <1>1, <1>2, <1>3 DEF TypeType, FrameType

\* Types are added and get more declarations; only those the frames s build get parts
Grows(ts, us, s) ==
  /\ DOMAIN ts \subseteq DOMAIN us
  /\ \A t \in DOMAIN ts : ts[t].decls \subseteq us[t].decls /\ us[t].kind = ts[t].kind
  /\ \A t \in DOMAIN ts :
       ts[t].kind # "struct" \/ (\A i \in DOMAIN s : s[i].type # t) => us[t].elems = ts[t].elems

LEMMA PartsStay ==
  ASSUME NEW ts, NEW us, NEW s, Grows(ts, us, s), NEW elems, NEW d, PartsOf(ts, elems, d)
  PROVE  PartsOf(us, elems, d)
<1>1. ASSUME NEW t \in DOMAIN ts, NEW i, IsPart(ts, t, d, i) PROVE IsPart(us, t, d, i)
  <2>1. ts[t].kind = "semantics" => us[t].elems = ts[t].elems /\ us[t].kind = "semantics"
    BY DEF Grows
  <2>. QED BY <1>1, <2>1 DEF Grows, IsPart
<1>. QED BY <1>1 DEF Grows, PartsOf

\* What is old stays so under any frames that build nothing old
LEMMA OldStays ==
  ASSUME NEW ts, NEW us, NEW s, NEW r, Grows(ts, us, s), NEW h, OldPart(ts, s, h),
         \A i \in DOMAIN r : r[i].type \notin DOMAIN ts \/ \E j \in DOMAIN s : s[j].type = r[i].type
  PROVE  OldPart(us, r, h)
<1>1. PICK n \in Nat : Old(ts, s, n) /\ \A d \in Decl : h[d] \subseteq 1..n
  BY DEF OldPart
<1>2. \A t \in 1..n : t \in DOMAIN us /\ us[t].elems = ts[t].elems
  BY <1>1 DEF Old, Grows
<1>3. \A i \in DOMAIN r : r[i].type \notin 1..n
  BY <1>1 DEF Old
<1>. QED BY <1>1, <1>2, <1>3 DEF Old, OldPart

\* When nothing is being built, everything is old
LEMMA OldAll ==
  ASSUME NEW ts, NEW fl, NEW h, Built(ts, <<>>, fl), \A d \in Decl : h[d] \subseteq DOMAIN ts
  PROVE  OldPart(ts, <<>>, h)
<1>1. ts \in Seq(TypeType) /\ ElemsPart(ts)
  BY DEF Built
<1>2. Len(ts) \in Nat /\ DOMAIN ts = 1..Len(ts) /\ DOMAIN <<>> = {}
  BY <1>1
<1>3. Old(ts, <<>>, Len(ts))
  BY <1>1, <1>2 DEF Old, ElemsPart
<1>. QED BY <1>2, <1>3 DEF OldPart

\* A part more
LEMMA PartsGrow ==
  ASSUME NEW ts, NEW elems \in Seq(Nat), NEW d \in Decl, prog \in Programs, PartsOf(ts, elems, d),
         NEW t \in Nat, t \in DOMAIN ts, Len(elems) + 1 <= Len(Parts(d)),
         IsPart(ts, t, d, Len(elems) + 1)
  PROVE  PartsOf(ts, Append(elems, t), d) /\ Append(elems, t) \in Seq(Nat)
<1>1. PICK a : a = Append(elems, t)
  OBVIOUS
<1>2. /\ a \in Seq(Nat) /\ Len(a) = Len(elems) + 1 /\ a[Len(elems) + 1] = t
      /\ DOMAIN a = DOMAIN elems \cup {Len(elems) + 1} /\ \A i \in DOMAIN elems : a[i] = elems[i]
  BY <1>1, Appended
<1>. QED BY <1>1, <1>2 DEF PartsOf

\* A type is made with all its parts
LEMMA AddType ==
  ASSUME NEW ts, NEW s, NEW fl, Built(ts, s, fl), prog \in Programs, NEW d \in Decl,
         NEW elems \in Seq(Nat), PartsOf(ts, elems, d), Len(elems) = Len(Parts(d)),
         NEW us, us = Append(ts, NewType(d, elems))
  PROVE  /\ Built(us, s, fl) /\ Grows(ts, us, s) /\ Len(ts) + 1 \in DOMAIN us
         /\ d \in us[Len(ts) + 1].decls
<1>1. PICK n : n = NewType(d, elems)
  OBVIOUS
<1>2. /\ n \in TypeType /\ n.kind = Kind(d) /\ n.elems = elems /\ n.decls = {d}
  BY <1>1, ProgramFacts DEF NewType, TypeType
<1>3. /\ us \in Seq(TypeType) /\ DOMAIN us = DOMAIN ts \cup {Len(ts) + 1}
      /\ Len(ts) + 1 \notin DOMAIN ts
      /\ us[Len(ts) + 1] = n /\ \A t \in DOMAIN ts : us[t] = ts[t]
  BY <1>1, <1>2, Appended DEF Built
<1>4. Grows(ts, us, s)
  BY <1>3 DEF Grows
<1>5. TypePart(us) /\ ElemsPart(us)
  <2>1. TypePart(us)
    BY <1>2, <1>3, <1>4, PartsStay DEF Built, TypePart
  <2>2. ElemsPart(us)
    BY <1>2, <1>3 DEF Built, ElemsPart, PartsOf
  <2>. QED BY <2>1, <2>2
<1>6. FramePart(us, s)
  BY <1>3, <1>4, PartsStay DEF Built, FramePart
<1>7. DonePart(us, s, fl)
  BY <1>2, <1>3 DEF Built, DonePart
<1>. QED BY <1>2, <1>3, <1>4, <1>5, <1>6, <1>7 DEF Built

\* A type is made for a member
LEMMA AddAnnotation ==
  ASSUME NEW ts, NEW s, NEW fl, Built(ts, s, fl), prog \in Programs, NEW t \in DOMAIN ts,
         NEW us, us = Append(ts, Annotation(t))
  PROVE  /\ Built(us, s, fl) /\ Grows(ts, us, s) /\ Len(ts) + 1 \in DOMAIN us
         /\ us[Len(ts) + 1].kind = "semantics" /\ Len(us[Len(ts) + 1].elems) = 1
         /\ us[Len(ts) + 1].elems[1] = t /\ us[t] = ts[t]
<1>1. PICK n : n = Annotation(t)
  OBVIOUS
<1>2. n.kind = "semantics" /\ n.elems = <<t>> /\ n.decls = {} /\ t \in Nat
  BY <1>1, BuiltTypes DEF Annotation
<1>3. <<t>> \in Seq(Nat) /\ DOMAIN <<t>> = {1} /\ <<t>>[1] = t /\ Len(<<t>>) = 1
  BY <1>2
<1>4. n \in TypeType
  BY <1>1, <1>3 DEF Annotation, TypeType
<1>5. /\ us \in Seq(TypeType) /\ DOMAIN us = DOMAIN ts \cup {Len(ts) + 1}
      /\ Len(ts) + 1 \notin DOMAIN ts
      /\ us[Len(ts) + 1] = n /\ \A x \in DOMAIN ts : us[x] = ts[x]
  BY <1>1, <1>4, Appended DEF Built
<1>6. Grows(ts, us, s)
  BY <1>5 DEF Grows
<1>7. TypePart(us)
  BY <1>2, <1>5, <1>6, PartsStay DEF Built, TypePart
<1>8. ElemsPart(us)
  BY <1>2, <1>3, <1>5 DEF Built, ElemsPart
<1>9. FramePart(us, s)
  BY <1>5, <1>6, PartsStay DEF Built, FramePart
<1>10. DonePart(us, s, fl)
  BY <1>2, <1>5 DEF Built, DonePart
<1>. QED BY <1>2, <1>3, <1>5, <1>6, <1>7, <1>8, <1>9, <1>10 DEF Built

\* Where a new frame may be put
Fits(s, d) ==
  s # <<>> => /\ Len(s[Len(s)].elems) + 1 <= Len(Parts(s[Len(s)].decl))
              /\ d = Parts(s[Len(s)].decl)[Len(s[Len(s)].elems) + 1]

LEMMA NoParts ==
  ASSUME NEW ts, NEW d \in Decl, prog \in Programs
  PROVE  PartsOf(ts, << >>, d) /\ << >> \in Seq(Nat) /\ Len(<< >>) = 0
<1>1. << >> \in Seq(Nat) /\ Len(<< >>) = 0
  BY EmptySeq
<1>2. DOMAIN << >> = {} /\ Len(Parts(d)) \in Nat
  BY ProgramFacts
<1>. QED BY <1>1, <1>2 DEF PartsOf

LEMMA PushChain ==
  ASSUME NEW s \in Seq(FrameType), ChainPart(s), NEW f \in FrameType, Fits(s, f.decl),
         \A i \in DOMAIN s : s[i].type # 0 => s[i].type # f.type
  PROVE  ChainPart(Append(s, f))
<1>1. PICK r : r = Append(s, f)
  OBVIOUS
<1>2. /\ DOMAIN r = DOMAIN s \cup {Len(s) + 1} /\ Len(s) \in Nat /\ Len(s) + 1 \notin DOMAIN s
      /\ r[Len(s) + 1] = f /\ \A i \in DOMAIN s : r[i] = s[i]
  BY <1>1, Appended
<1>3. DOMAIN s = 1..Len(s)
  OBVIOUS
<1>4. ASSUME NEW i \in DOMAIN r, i + 1 \in DOMAIN r
      PROVE  /\ Len(r[i].elems) + 1 <= Len(Parts(r[i].decl))
             /\ r[i + 1].decl = Parts(r[i].decl)[Len(r[i].elems) + 1]
  <2>1. i \in DOMAIN s
    BY <1>2, <1>3, <1>4
  <2>2. CASE i + 1 \in DOMAIN s
    BY <1>2, <2>1, <2>2 DEF ChainPart
  <2>3. CASE i = Len(s)
    <3>1. s # <<>>
      BY <1>3, <2>1
    <3>. QED BY <1>2, <2>1, <2>3, <3>1 DEF Fits
  <2>. QED BY <1>2, <1>3, <1>4, <2>1, <2>2, <2>3
<1>5. \A i, j \in DOMAIN r : r[i].type # 0 /\ r[i].type = r[j].type => i = j
  BY <1>2 DEF ChainPart
<1>. QED BY <1>1, <1>4, <1>5 DEF ChainPart

\* A structure: its type is there before its members are known
LEMMA PushStruct ==
  ASSUME NEW ts, NEW s, NEW fl, Built(ts, s, fl), prog \in Programs, NEW d \in Decl,
         Kind(d) = "struct", Fits(s, d),
         NEW us, us = Append(ts, NewType(d, <<>>)),
         NEW r, r = Append(s, Frame(d, Len(ts) + 1))
  PROVE  /\ Built(us, r, fl) /\ Grows(ts, us, s) /\ Len(ts) + 1 \in DOMAIN us
         /\ d \in us[Len(ts) + 1].decls
<1>1. PICK n : n = NewType(d, <<>>)
  OBVIOUS
<1>2. n \in TypeType /\ n.kind = Kind(d) /\ n.elems = <<>> /\ n.decls = {d}
  BY <1>1, ProgramFacts, NoParts DEF NewType, TypeType
<1>3. /\ us \in Seq(TypeType) /\ DOMAIN us = DOMAIN ts \cup {Len(ts) + 1}
      /\ Len(ts) \in Nat /\ Len(ts) + 1 \notin DOMAIN ts
      /\ us[Len(ts) + 1] = n /\ \A t \in DOMAIN ts : us[t] = ts[t]
  BY <1>1, <1>2, Appended DEF Built
<1>4. PICK f : f = Frame(d, Len(ts) + 1)
  OBVIOUS
<1>5. f \in FrameType /\ f.decl = d /\ f.type = Len(ts) + 1 /\ f.elems = <<>> /\ f.type # 0
  BY <1>3, <1>4, NoParts DEF Frame, FrameType
<1>6. /\ r \in Seq(FrameType) /\ DOMAIN r = DOMAIN s \cup {Len(s) + 1}
      /\ r[Len(s) + 1] = f /\ \A i \in DOMAIN s : r[i] = s[i]
  BY <1>4, <1>5, Appended DEF Built
<1>7. Grows(ts, us, s) /\ PartsOf(us, <<>>, d)
  BY <1>3, NoParts DEF Grows
<1>8. TypePart(us) /\ ElemsPart(us)
  <2>1. TypePart(us)
    BY <1>2, <1>3, <1>7, PartsStay DEF Built, TypePart
  <2>2. DOMAIN <<>> = {}
    OBVIOUS
  <2>3. ElemsPart(us)
    BY <1>2, <1>3, <2>2 DEF Built, ElemsPart
  <2>. QED BY <2>1, <2>3
<1>9. FramePart(us, r)
  <2>. SUFFICES ASSUME NEW i \in DOMAIN r
                PROVE  /\ PartsOf(us, r[i].elems, r[i].decl)
                       /\ r[i].type # 0 <=> Kind(r[i].decl) = "struct"
                       /\ r[i].type # 0 => /\ r[i].type \in DOMAIN us
                                           /\ us[r[i].type].decls = {r[i].decl}
                                           /\ us[r[i].type].kind = "struct"
                                           /\ us[r[i].type].elems = r[i].elems
    BY DEF FramePart
  <2>1. CASE i = Len(s) + 1
    BY <1>2, <1>3, <1>5, <1>6, <1>7, <2>1
  <2>2. CASE i \in DOMAIN s
    BY <1>3, <1>6, <1>7, <2>2, PartsStay DEF Built, FramePart
  <2>. QED BY <1>6, <2>1, <2>2
<1>10. ChainPart(r)
  <2>1. \A i \in DOMAIN s : s[i].type # 0 => s[i].type # f.type
    BY <1>3, <1>5 DEF Built, FramePart
  <2>. QED BY <1>4, <1>5, <2>1, PushChain DEF Built
<1>11. DonePart(us, r, fl)
  BY <1>3, <1>5, <1>6 DEF Built, DonePart
<1>. QED BY <1>2, <1>3, <1>6, <1>7, <1>8, <1>9, <1>10, <1>11 DEF Built

\* Anything else has no type before it is complete
LEMMA PushOther ==
  ASSUME NEW ts, NEW s, NEW fl, Built(ts, s, fl), prog \in Programs, NEW d \in Decl,
         Kind(d) # "struct", Fits(s, d), NEW r, r = Append(s, Frame(d, 0))
  PROVE  Built(ts, r, fl)
<1>1. PICK f : f = Frame(d, 0)
  OBVIOUS
<1>2. f \in FrameType /\ f.decl = d /\ f.type = 0 /\ f.elems = <<>>
  BY <1>1, NoParts DEF Frame, FrameType
<1>3. /\ r \in Seq(FrameType) /\ DOMAIN r = DOMAIN s \cup {Len(s) + 1}
      /\ r[Len(s) + 1] = f /\ \A i \in DOMAIN s : r[i] = s[i]
  BY <1>1, <1>2, Appended DEF Built
<1>4. FramePart(ts, r)
  BY <1>2, <1>3, NoParts DEF Built, FramePart
<1>5. ChainPart(r)
  BY <1>1, <1>2, PushChain DEF Built
<1>6. DonePart(ts, r, fl)
  BY <1>3 DEF Built, DonePart
<1>. QED BY <1>3, <1>4, <1>5, <1>6 DEF Built

\* A type is found for another declaration, or is that of the declaration already
LEMMA MarkType ==
  ASSUME NEW ts, NEW s, NEW fl, Built(ts, s, fl), NEW d \in Decl, NEW t \in DOMAIN ts,
         \/ d \in ts[t].decls
         \/ /\ ts[t].kind # "struct" /\ ts[t].kind = Kind(d)
            /\ PartsOf(ts, ts[t].elems, d) /\ Len(ts[t].elems) = Len(Parts(d)),
         NEW us, us = [ts EXCEPT ![t].decls = @ \cup {d}]
  PROVE  /\ Built(us, s, fl) /\ Grows(ts, us, s) /\ t \in DOMAIN us /\ d \in us[t].decls
<1>1. PICK m : m = ts[t]
  OBVIOUS
<1>2. PICK n : n = [m EXCEPT !.decls = @ \cup {d}]
  OBVIOUS
<1>3. m \in TypeType /\ ts \in Seq(TypeType) /\ t \in 1..Len(ts)
  BY <1>1, BuiltTypes DEF Built
<1>4. n \in TypeType /\ n.kind = m.kind /\ n.elems = m.elems /\ n.decls = m.decls \cup {d}
  BY <1>2, <1>3 DEF TypeType
<1>5. us = [ts EXCEPT ![t] = n]
  BY <1>1, <1>2, <1>3
<1>6. /\ us \in Seq(TypeType) /\ DOMAIN us = DOMAIN ts /\ us[t] = n
      /\ \A x \in DOMAIN ts \ {t} : us[x] = ts[x]
  <2>1. PICK v : v = [ts EXCEPT ![t] = n]
    OBVIOUS
  <2>2. /\ v \in Seq(TypeType) /\ DOMAIN v = DOMAIN ts /\ v[t] = n
        /\ \A x \in DOMAIN ts \ {t} : v[x] = ts[x]
    BY <1>3, <1>4, <2>1, Replaced
  <2>3. us = v
    BY <1>5, <2>1, Zenon
  <2>. QED BY <2>2, <2>3, Zenon
<1>7. \A x \in DOMAIN ts : us[x].kind = ts[x].kind /\ us[x].elems = ts[x].elems
  BY <1>1, <1>4, <1>6
<1>8. Grows(ts, us, s)
  BY <1>1, <1>4, <1>6, <1>7 DEF Grows
<1>9. ASSUME NEW x \in DOMAIN us, NEW e \in us[x].decls
      PROVE  \/ e \in ts[x].decls
             \/ /\ x = t /\ e = d /\ ts[t].kind = Kind(d)
                /\ PartsOf(ts, ts[t].elems, d) /\ Len(ts[t].elems) = Len(Parts(d))
  BY <1>1, <1>4, <1>6, <1>9
<1>10. TypePart(us)
  <2>. SUFFICES ASSUME NEW x \in DOMAIN us, NEW e \in us[x].decls
                PROVE  us[x].kind = Kind(e) /\ PartsOf(us, us[x].elems, e)
    BY DEF TypePart
  <2>1. ts[x].kind = Kind(e) /\ PartsOf(ts, ts[x].elems, e)
    BY <1>6, <1>9 DEF Built, TypePart
  <2>. QED BY <1>6, <1>7, <1>8, <2>1, PartsStay
<1>11. FramePart(us, s)
  <2>. SUFFICES ASSUME NEW i \in DOMAIN s
                PROVE  /\ PartsOf(us, s[i].elems, s[i].decl)
                       /\ s[i].type # 0 <=> Kind(s[i].decl) = "struct"
                       /\ s[i].type # 0 => /\ s[i].type \in DOMAIN us
                                           /\ us[s[i].type].decls = {s[i].decl}
                                           /\ us[s[i].type].kind = "struct"
                                           /\ us[s[i].type].elems = s[i].elems
    BY DEF FramePart
  <2>1. PartsOf(us, s[i].elems, s[i].decl) /\ (s[i].type # 0 <=> Kind(s[i].decl) = "struct")
    BY <1>8, PartsStay DEF Built, FramePart
  <2>2. ASSUME s[i].type # 0
        PROVE  /\ s[i].type \in DOMAIN us /\ us[s[i].type].decls = {s[i].decl}
               /\ us[s[i].type].kind = "struct" /\ us[s[i].type].elems = s[i].elems
    <3>1. /\ s[i].type \in DOMAIN ts /\ ts[s[i].type].decls = {s[i].decl}
          /\ ts[s[i].type].kind = "struct" /\ ts[s[i].type].elems = s[i].elems
      BY <2>2 DEF Built, FramePart
    <3>2. us[s[i].type].decls = ts[s[i].type].decls
      BY <1>1, <1>4, <1>6, <3>1
    <3>. QED BY <1>6, <1>7, <3>1, <3>2
  <2>. QED BY <2>1, <2>2
<1>12. DonePart(us, s, fl) /\ ElemsPart(us)
  BY <1>6, <1>7, <1>9 DEF Built, DonePart, ElemsPart
<1>. QED BY <1>4, <1>6, <1>8, <1>10, <1>11, <1>12 DEF Built

\* The topmost look-up ends with all its parts
LEMMA PopFrame ==
  ASSUME NEW ts, NEW s, NEW fl, Built(ts, s, fl), s # <<>>,
         Len(s[Len(s)].elems) = Len(Parts(s[Len(s)].decl)),
         NEW r, r = SubSeq(s, 1, Len(s) - 1)
  PROVE  Built(ts, r, fl)
<1>1. /\ r \in Seq(FrameType) /\ DOMAIN r = DOMAIN s \ {Len(s)} /\ Len(s) \in DOMAIN s
      /\ \A i \in DOMAIN r : r[i] = s[i]
  BY Shortened DEF Built
<1>2. FramePart(ts, r)
  BY <1>1 DEF Built, FramePart
<1>3. ChainPart(r)
  <2>1. \A i \in DOMAIN r : i \in DOMAIN s
    BY <1>1
  <2>2. ChainPart(s)
    BY DEF Built
  <2>3. ASSUME NEW i \in DOMAIN r, i + 1 \in DOMAIN r
        PROVE  /\ Len(r[i].elems) + 1 <= Len(Parts(r[i].decl))
               /\ r[i + 1].decl = Parts(r[i].decl)[Len(r[i].elems) + 1]
    <3>1. i \in DOMAIN s /\ i + 1 \in DOMAIN s /\ r[i] = s[i] /\ r[i + 1] = s[i + 1]
      BY <1>1, <2>1, <2>3
    <3>. QED BY <2>2, <3>1 DEF ChainPart
  <2>4. \A i, j \in DOMAIN r : r[i].type # 0 /\ r[i].type = r[j].type => i = j
    <3>. TAKE i, j \in DOMAIN r
    <3>1. i \in DOMAIN s /\ j \in DOMAIN s /\ r[i] = s[i] /\ r[j] = s[j]
      BY <1>1, <2>1
    <3>. QED BY <2>2, <3>1 DEF ChainPart
  <2>. QED BY <2>3, <2>4 DEF ChainPart
<1>4. DonePart(ts, r, fl)
  <2>. SUFFICES ASSUME NEW t \in DOMAIN ts, NEW d \in ts[t].decls, Len(ts[t].elems) # Len(Parts(d)),
                       t \notin fl
                PROVE  \E i \in DOMAIN r : r[i].type = t
    BY DEF DonePart
  <2>1. PICK i \in DOMAIN s : s[i].type = t
    BY DEF Built, DonePart
  <2>2. i # Len(s)
    <3>1. t # 0
      BY BuiltTypes
    <3>. QED BY <2>1, <3>1 DEF Built, FramePart
  <2>. QED BY <1>1, <2>1, <2>2
<1>. QED BY <1>1, <1>2, <1>3, <1>4 DEF Built

\* Every look-up ends with an error
LEMMA FailAll ==
  ASSUME NEW ts, NEW s, NEW fl, Built(ts, s, fl),
         NEW gl, gl = fl \cup ({s[i].type : i \in DOMAIN s} \ {0})
  PROVE  Built(ts, <<>>, gl) /\ (fl \subseteq DOMAIN ts => gl \subseteq DOMAIN ts)
<1>1. <<>> \in Seq(FrameType) /\ DOMAIN <<>> = {}
  BY EmptySeq
<1>2. FramePart(ts, <<>>) /\ ChainPart(<<>>)
  BY <1>1 DEF FramePart, ChainPart
<1>3. DonePart(ts, <<>>, gl)
  <2>. SUFFICES ASSUME NEW t \in DOMAIN ts, NEW d \in ts[t].decls, Len(ts[t].elems) # Len(Parts(d)),
                       t \notin fl
                PROVE  t \in gl
    BY DEF DonePart
  <2>1. PICK i \in DOMAIN s : s[i].type = t
    BY DEF Built, DonePart
  <2>2. t # 0
    BY BuiltTypes
  <2>. QED BY <2>1, <2>2
<1>4. \A i \in DOMAIN s : s[i].type # 0 => s[i].type \in DOMAIN ts
  BY DEF Built, FramePart
<1>. QED BY <1>1, <1>2, <1>3, <1>4 DEF Built

\* The topmost declaration gets the type of its next part
LEMMA GivePart ==
  ASSUME NEW ts, NEW s, NEW fl, Built(ts, s, fl), prog \in Programs, s # <<>>,
         NEW t \in DOMAIN ts, Len(s[Len(s)].elems) + 1 <= Len(Parts(s[Len(s)].decl)),
         IsPart(ts, t, s[Len(s)].decl, Len(s[Len(s)].elems) + 1)
  PROVE  /\ Built(Member(ts, s, t), Given(s, t), fl) /\ Grows(ts, Member(ts, s, t), s)
         /\ DOMAIN Given(s, t) = DOMAIN s
         /\ \A i \in DOMAIN s : Given(s, t)[i].decl = s[i].decl /\ Given(s, t)[i].type = s[i].type
<1>1. PICK k : k = Len(s)
  OBVIOUS
<1>2. PICK f : f = s[k]
  OBVIOUS
<1>3. /\ k \in DOMAIN s /\ s \in Seq(FrameType) /\ f \in FrameType /\ f.elems \in Seq(Nat)
      /\ f.decl \in Decl /\ t \in Nat
  <2>1. k \in DOMAIN s
    BY <1>1, Shortened DEF Built
  <2>. QED BY <1>2, <2>1, BuiltTypes DEF Built
<1>4. PICK a : a = Append(f.elems, t)
  OBVIOUS
<1>5. PartsOf(ts, a, f.decl) /\ a \in Seq(Nat)
  <2>1. PartsOf(ts, f.elems, f.decl)
    BY <1>2, <1>3 DEF Built, FramePart
  <2>. QED BY <1>1, <1>2, <1>3, <1>4, <2>1, PartsGrow
<1>6. PICK g : g = [f EXCEPT !.elems = a]
  OBVIOUS
<1>7. g \in FrameType /\ g.decl = f.decl /\ g.type = f.type /\ g.elems = a
  BY <1>3, <1>5, <1>6 DEF FrameType
<1>8. PICK r : r = Given(s, t)
  OBVIOUS
<1>9. r = [s EXCEPT ![k] = g]
  BY <1>1, <1>2, <1>3, <1>4, <1>6, <1>8 DEF Given
<1>10. /\ r \in Seq(FrameType) /\ DOMAIN r = DOMAIN s /\ r[k] = g
       /\ \A i \in DOMAIN s \ {k} : r[i] = s[i]
  BY <1>3, <1>7, <1>9, Replaced
<1>11. \A i \in DOMAIN s : r[i].decl = s[i].decl /\ r[i].type = s[i].type
  BY <1>2, <1>7, <1>10
<1>12. ChainPart(r)
  <2>1. \A i \in DOMAIN s : i + 1 \in DOMAIN s => i # k
    BY <1>1, BuiltTypes
  <2>. QED BY <1>10, <1>11, <2>1 DEF Built, ChainPart
<1>13. PICK us : us = Member(ts, s, t)
  OBVIOUS
<1>14. ASSUME us \in Seq(TypeType), DOMAIN us = DOMAIN ts,
              \A x \in DOMAIN ts : us[x].decls = ts[x].decls /\ us[x].kind = ts[x].kind,
              \A x \in DOMAIN ts : x # f.type => us[x].elems = ts[x].elems,
              f.type # 0 => us[f.type].elems = a
       PROVE  Built(us, r, fl) /\ Grows(ts, us, s)
  <2>1. Grows(ts, us, s)
    <3>1. ASSUME NEW x \in DOMAIN ts, ts[x].kind # "struct" \/ \A i \in DOMAIN s : s[i].type # x
          PROVE  x # f.type
      BY <1>2, <1>3, <3>1, BuiltTypes DEF Built, FramePart
    <3>. QED BY <1>14, <3>1 DEF Grows
  <2>2. f.type # 0 => f.type \in DOMAIN ts /\ ts[f.type].decls = {f.decl}
    BY <1>2, <1>3 DEF Built, FramePart
  <2>3. TypePart(us)
    <3>. SUFFICES ASSUME NEW x \in DOMAIN us, NEW d \in us[x].decls
                  PROVE  us[x].kind = Kind(d) /\ PartsOf(us, us[x].elems, d)
      BY DEF TypePart
    <3>1. ts[x].kind = Kind(d) /\ PartsOf(ts, ts[x].elems, d)
      BY <1>14 DEF Built, TypePart
    <3>2. CASE x # f.type
      BY <1>14, <2>1, <3>1, <3>2, PartsStay
    <3>3. CASE x = f.type
      <4>1. f.type # 0
        BY <1>14, <3>3, BuiltTypes
      <4>2. d = f.decl /\ us[x].elems = a /\ us[x].kind = ts[x].kind
        BY <1>14, <2>2, <3>3, <4>1
      <4>3. PartsOf(us, a, f.decl)
        BY <1>5, <2>1, PartsStay
      <4>. QED BY <3>1, <4>2, <4>3
    <3>. QED BY <3>2, <3>3
  <2>4. FramePart(us, r)
    <3>. SUFFICES ASSUME NEW i \in DOMAIN r
                  PROVE  /\ PartsOf(us, r[i].elems, r[i].decl)
                         /\ r[i].type # 0 <=> Kind(r[i].decl) = "struct"
                         /\ r[i].type # 0 => /\ r[i].type \in DOMAIN us
                                             /\ us[r[i].type].decls = {r[i].decl}
                                             /\ us[r[i].type].kind = "struct"
                                             /\ us[r[i].type].elems = r[i].elems
      BY DEF FramePart
    <3>1. /\ PartsOf(ts, s[i].elems, s[i].decl)
          /\ s[i].type # 0 <=> Kind(s[i].decl) = "struct"
          /\ s[i].type # 0 => /\ s[i].type \in DOMAIN ts
                              /\ ts[s[i].type].decls = {s[i].decl}
                              /\ ts[s[i].type].kind = "struct"
                              /\ ts[s[i].type].elems = s[i].elems
      BY <1>10 DEF Built, FramePart
    <3>2. CASE i = k
      BY <1>2, <1>5, <1>7, <1>10, <1>14, <2>1, <3>1, <3>2, PartsStay
    <3>3. CASE i # k
      <4>1. s[i].type # 0 => s[i].type # f.type
        BY <1>2, <1>3, <1>10, <3>3 DEF Built, ChainPart
      <4>. QED BY <1>10, <1>14, <2>1, <3>1, <3>3, <4>1, PartsStay
    <3>. QED BY <3>2, <3>3
  <2>5. DonePart(us, r, fl)
    <3>. SUFFICES ASSUME NEW x \in DOMAIN us, NEW d \in us[x].decls
                  PROVE  \/ Len(us[x].elems) = Len(Parts(d)) \/ x \in fl
                         \/ \E i \in DOMAIN r : r[i].type = x
      BY DEF DonePart
    <3>1. CASE x = f.type
      BY <1>2, <1>3, <1>10, <1>11, <3>1
    <3>2. CASE x # f.type
      <4>1. x \in DOMAIN ts /\ d \in ts[x].decls /\ us[x].elems = ts[x].elems
        BY <1>14, <3>2
      <4>2. \/ Len(ts[x].elems) = Len(Parts(d)) \/ x \in fl
            \/ \E i \in DOMAIN s : s[i].type = x
        BY <4>1 DEF Built, DonePart
      <4>. QED BY <1>10, <1>11, <4>1, <4>2
    <3>. QED BY <3>1, <3>2
  <2>6. ElemsPart(us)
    <3>. SUFFICES ASSUME NEW x \in DOMAIN us, NEW i \in DOMAIN us[x].elems
                  PROVE  us[x].elems[i] \in DOMAIN ts
      BY <1>14 DEF ElemsPart
    <3>1. CASE x # f.type
      BY <1>14, <3>1 DEF Built, ElemsPart
    <3>2. CASE x = f.type
      <4>1. us[x].elems = a
        BY <1>14, <3>2, BuiltTypes
      <4>. QED BY <1>5, <4>1 DEF PartsOf
    <3>. QED BY <3>1, <3>2
  <2>. QED BY <1>10, <1>12, <1>14, <2>1, <2>3, <2>4, <2>5, <2>6 DEF Built
<1>15. CASE f.type = 0
  <2>1. us = ts
    BY <1>1, <1>2, <1>13, <1>15 DEF Member
  <2>2. ts \in Seq(TypeType)
    BY DEF Built
  <2>3. Built(us, r, fl) /\ Grows(ts, us, s)
    BY <1>14, <1>15, <2>1, <2>2
  <2>. QED BY <1>8, <1>10, <1>11, <1>13, <2>3
<1>16. CASE f.type # 0
  <2>1. PICK y : y = f.type
    OBVIOUS
  <2>2. y \in 1..Len(ts) /\ ts[y].elems = f.elems /\ ts[y] \in TypeType /\ ts \in Seq(TypeType)
    BY <1>2, <1>3, <1>16, <2>1, BuiltTypes DEF Built, FramePart
  <2>3. PICK m : m = ts[y]
    OBVIOUS
  <2>4. PICK n : n = [m EXCEPT !.elems = Append(@, t)]
    OBVIOUS
  <2>5. n \in TypeType /\ n.elems = a /\ n.kind = m.kind /\ n.decls = m.decls
    BY <1>4, <1>5, <2>2, <2>3, <2>4 DEF TypeType
  <2>6. us = [ts EXCEPT ![y] = n]
    BY <1>1, <1>2, <1>13, <1>16, <2>1, <2>2, <2>3, <2>4 DEF Member
  <2>7. /\ us \in Seq(TypeType) /\ DOMAIN us = DOMAIN ts /\ us[y] = n
        /\ \A x \in DOMAIN ts \ {y} : us[x] = ts[x]
    BY <2>2, <2>5, <2>6, Replaced
  <2>8. Built(us, r, fl) /\ Grows(ts, us, s)
    BY <1>14, <2>1, <2>3, <2>5, <2>7
  <2>. QED BY <1>8, <1>10, <1>11, <1>13, <2>8
<1>. QED BY <1>15, <1>16

\* The type itself is the part, or one that is made for the member
LEMMA GivesPart ==
  ASSUME NEW ts, NEW s, NEW fl, Built(ts, s, fl), prog \in Programs, s # <<>>,
         NEW t \in DOMAIN ts, Len(s[Len(s)].elems) + 1 <= Len(Parts(s[Len(s)].decl)),
         Parts(s[Len(s)].decl)[Len(s[Len(s)].elems) + 1] \in ts[t].decls, Gives(ts, s, t)
  PROVE  /\ Built(types', stack', fl) /\ Grows(ts, types', s) /\ DOMAIN stack' = DOMAIN s
         /\ \A i \in DOMAIN s : stack'[i].decl = s[i].decl /\ stack'[i].type = s[i].type
<1>1. PICK d, i : d = s[Len(s)].decl /\ i = Len(s[Len(s)].elems) + 1
  OBVIOUS
<1>2. CASE HasSemantics(d, i)
  <2>1. PICK us : us = Append(ts, Annotation(t))
    OBVIOUS
  <2>2. PICK e : e = Len(ts) + 1
    OBVIOUS
  <2>3. /\ Built(us, s, fl) /\ Grows(ts, us, s) /\ e \in DOMAIN us
        /\ us[e].kind = "semantics" /\ Len(us[e].elems) = 1 /\ us[e].elems[1] = t /\ us[t] = ts[t]
    <3>1. Built(ts, s, fl) /\ prog \in Programs /\ t \in DOMAIN ts
      OBVIOUS
    <3>2. Built(us, s, fl)
      BY <2>1, <3>1, AddAnnotation, Zenon
    <3>3. Grows(ts, us, s)
      BY <2>1, <3>1, AddAnnotation, Zenon
    <3>4. e \in DOMAIN us
      BY <2>1, <2>2, <3>1, AddAnnotation, Zenon
    <3>5. us[e].kind = "semantics" /\ Len(us[e].elems) = 1 /\ us[e].elems[1] = t /\ us[t] = ts[t]
      BY <2>1, <2>2, <3>1, AddAnnotation, SMT
    <3>. QED BY <3>2, <3>3, <3>4, <3>5
  <2>4. IsPart(us, e, d, i)
    <3>1. t \in DOMAIN us /\ Parts(d)[i] \in us[t].decls
      BY <1>1, <2>3 DEF Grows
    <3>. QED BY <1>2, <2>3, <3>1 DEF IsPart
  <2>5. types' = Member(us, s, e) /\ stack' = Given(s, e)
    BY <1>1, <1>2, <2>1, <2>2 DEF Gives
  <2>6. /\ Built(Member(us, s, e), Given(s, e), fl) /\ Grows(us, Member(us, s, e), s)
        /\ DOMAIN Given(s, e) = DOMAIN s
        /\ \A k \in DOMAIN s : Given(s, e)[k].decl = s[k].decl /\ Given(s, e)[k].type = s[k].type
    BY <1>1, <2>3, <2>4, GivePart
  <2>7. Grows(ts, Member(us, s, e), s)
    BY <2>3, <2>6 DEF Grows
  <2>. QED BY <2>5, <2>6, <2>7
<1>3. CASE ~HasSemantics(d, i)
  <2>1. IsPart(ts, t, d, i)
    BY <1>1, <1>3 DEF IsPart
  <2>2. types' = Member(ts, s, t) /\ stack' = Given(s, t)
    BY <1>1, <1>3 DEF Gives
  <2>. QED BY <1>1, <2>1, <2>2, GivePart
<1>. QED BY <1>2, <1>3

-----------------------------------------------------------------------------
\* The steps
LEMMA BuiltNext ==
  ASSUME prog' = prog, Built(types', stack', left')
  PROVE  Built(types, stack, left)'
  BY DEF Built, TypePart, ElemsPart, FramePart, ChainPart, DonePart, PartsOf, IsPart,
         HasSemantics, Parts, Kind

\* At the end of a look-up everything is old
LEMMA OldNext ==
  ASSUME stack' = <<>>, Built(types', stack', left'), CachePart(types', cache'), HandedPart'
  PROVE  OldPart(types, stack, handed)'
<1>1. \A d \in Decl : handed'[d] \subseteq DOMAIN types'
  BY DEF HandedPart, CachePart
<1>2. OldPart(types', stack', handed')
  BY <1>1, OldAll
<1>. QED BY <1>2 DEF OldPart, Old

LEMMA CacheStays ==
  ASSUME NEW ts, NEW us, NEW s, NEW c, Grows(ts, us, s), CachePart(ts, c)
  PROVE  CachePart(us, c)
  BY DEF Grows, CachePart

LEMMA CacheGets ==
  ASSUME NEW ts, NEW c, CachePart(ts, c), NEW d \in Decl, NEW t \in DOMAIN ts, t \in Nat,
         d \in ts[t].decls
  PROVE  CachePart(ts, [c EXCEPT ![d] = t])
  BY DEF CachePart

\* What is known of the topmost frame
LEMMA TopFrame ==
  ASSUME DeclInv, stack # <<>>
  PROVE  /\ Len(stack) \in DOMAIN stack /\ Top \in FrameType /\ Top.elems \in Seq(Nat)
         /\ Top.decl \in Decl /\ Top.type \in Nat /\ PartsOf(types, Top.elems, Top.decl)
         /\ handed[Top.decl] = {} /\ Len(Parts(Top.decl)) \in Nat /\ Len(Top.elems) \in Nat
<1>1. Len(stack) \in DOMAIN stack
  BY Shortened DEF DeclInv, Built
<1>2. Top \in FrameType /\ Top.elems \in Seq(Nat) /\ Top.decl \in Decl /\ Top.type \in Nat
  BY <1>1, BuiltTypes DEF DeclInv, Top
<1>3. PartsOf(types, Top.elems, Top.decl) /\ handed[Top.decl] = {}
  BY <1>1 DEF DeclInv, Built, FramePart, HandedPart, Top
<1>. QED BY <1>1, <1>2, <1>3, ProgramFacts DEF DeclInv

\* A look-up begins
LEMMA EnterStep ==
  ASSUME DeclInv, NEW d \in Decl, cache[d] = 0, Fits(stack, d), Enter(stack, d),
         UNCHANGED <<prog, handed, left>>, error' \in BOOLEAN
  PROVE  DeclInv'
<1>1. /\ Built(types, stack, left) /\ prog \in Programs /\ handed[d] = {}
      /\ types \in Seq(TypeType) /\ stack \in Seq(FrameType) /\ CachePart(types, cache)
  BY DEF DeclInv, Built, HandedPart
<1>2. /\ Built(types', stack', left) /\ CachePart(types', cache')
      /\ \A x \in Decl : x # d => cache'[x] = cache[x]
      /\ Grows(types, types', stack)
  <2>1. CASE Kind(d) = "struct"
    <3>1. /\ stack' = Append(stack, Frame(d, Len(types) + 1))
          /\ types' = Append(types, NewType(d, <<>>))
          /\ cache' = [cache EXCEPT ![d] = Len(types) + 1]
      BY <2>1 DEF Enter
    <3>2. /\ Built(types', stack', left) /\ Grows(types, types', stack)
          /\ Len(types) + 1 \in DOMAIN types' /\ d \in types'[Len(types) + 1].decls
      BY <1>1, <2>1, <3>1, PushStruct
    <3>3. Len(types) + 1 \in Nat
      BY BuiltTypes DEF DeclInv
    <3>4. CachePart(types', cache')
      BY <1>1, <3>1, <3>2, <3>3, CacheStays, CacheGets
    <3>. QED BY <1>1, <3>1, <3>2, <3>4 DEF CachePart
  <2>2. CASE Kind(d) # "struct"
    <3>1. stack' = Append(stack, Frame(d, 0)) /\ UNCHANGED <<types, cache>>
      BY <2>2 DEF Enter
    <3>2. Grows(types, types', stack)
      BY <3>1 DEF Grows
    <3>. QED BY <1>1, <2>2, <3>1, <3>2, PushOther
  <2>. QED BY <2>1, <2>2
<1>3. \A i \in DOMAIN stack' :
        \/ stack'[i].decl = d /\ stack'[i].type \notin DOMAIN types
        \/ i \in DOMAIN stack /\ stack'[i] = stack[i]
  <2>1. PICK f : f = IF Kind(d) = "struct" THEN Frame(d, Len(types) + 1) ELSE Frame(d, 0)
    OBVIOUS
  <2>2. f.decl = d /\ f \in FrameType /\ f.type \notin DOMAIN types
    <3>1. Len(types) + 1 \in Nat /\ 0 \in Nat
          /\ Len(types) + 1 \notin DOMAIN types /\ 0 \notin DOMAIN types
      BY BuiltTypes DEF DeclInv
    <3>. QED BY <2>1, <3>1, NoParts, <1>1 DEF Frame, FrameType
  <2>3. stack' = Append(stack, f)
    BY <2>1 DEF Enter
  <2>4. PICK q : q = Append(stack, f)
    OBVIOUS
  <2>5. /\ DOMAIN q = DOMAIN stack \cup {Len(stack) + 1} /\ q[Len(stack) + 1] = f
        /\ \A i \in DOMAIN stack : q[i] = stack[i]
    BY <1>1, <2>2, <2>4, Appended
  <2>6. \A i \in DOMAIN q : \/ q[i].decl = d /\ q[i].type \notin DOMAIN types
                            \/ i \in DOMAIN stack /\ q[i] = stack[i]
    BY <2>2, <2>5
  <2>. QED BY <2>3, <2>4, <2>6
<1>4. HandedPart'
  BY <1>1, <1>2, <1>3 DEF DeclInv, HandedPart
<1>5. Built(types, stack, left)'
  BY <1>2, BuiltNext
<1>6. CachePart(types, cache)'
  BY <1>2 DEF CachePart
<1>7. OldPart(types, stack, handed)'
  <2>1. OldPart(types', stack', handed)
    BY <1>2, <1>3, OldStays DEF DeclInv
  <2>. QED BY <2>1 DEF OldPart, Old
<1>8. left' \subseteq DOMAIN types'
  BY <1>2 DEF DeclInv, Grows
<1>. QED BY <1>1, <1>4, <1>5, <1>6, <1>7, <1>8 DEF DeclInv

LEMMA GetTypeStep ==
  ASSUME DeclInv, NEW d \in Decl, GetType(d)
  PROVE  DeclInv'
<1>1. CASE cache[d] # 0
  <2>1. /\ UNCHANGED <<prog, types, cache, stack, left>> /\ error' \in BOOLEAN
        /\ handed' = [handed EXCEPT ![d] = @ \cup {cache[d]}] /\ stack = <<>>
    BY <1>1 DEF GetType
  <2>2. DOMAIN stack = {}
    BY <2>1
  <2>3. HandedPart'
    <3>1. handed \in [Decl -> SUBSET Nat] /\ cache[d] \in Nat
      BY DEF DeclInv, HandedPart, CachePart
    <3>2. /\ handed' \in [Decl -> SUBSET Nat] /\ handed'[d] = handed[d] \cup {cache[d]}
          /\ \A x \in Decl \ {d} : handed'[x] = handed[x]
      BY <2>1, <3>1
    <3>3. handed[d] = {} \/ handed[d] = {cache[d]}
      BY DEF DeclInv, HandedPart
    <3>4. handed'[d] = {cache[d]}
      BY <3>2, <3>3
    <3>. QED BY <1>1, <2>1, <2>2, <3>2, <3>4 DEF DeclInv, HandedPart
  <2>4. Built(types, stack, left)' /\ CachePart(types, cache)'
    BY <2>1, BuiltNext DEF DeclInv, CachePart
  <2>5. Built(types', stack', left') /\ CachePart(types', cache')
    BY <2>1 DEF DeclInv
  <2>6. OldPart(types, stack, handed)'
    BY <2>1, <2>3, <2>5, OldNext
  <2>. QED BY <2>1, <2>3, <2>4, <2>6 DEF DeclInv
<1>2. CASE cache[d] = 0
  <2>1. /\ Enter(stack, d) /\ UNCHANGED <<prog, handed, left>> /\ error' \in BOOLEAN
        /\ Fits(stack, d)
    BY <1>2 DEF GetType, Fits
  <2>. QED BY <1>2, <2>1, EnterStep
<1>. QED BY <1>1, <1>2

LEMMA PartStep ==
  ASSUME DeclInv, Part
  PROVE  DeclInv'
<1>1. stack # <<>> /\ ~Finished(Top) /\ UNCHANGED <<prog, handed, left>> /\ error' \in BOOLEAN
  BY DEF Part
<1>2. PICK p : p = Parts(Top.decl)[Len(Top.elems) + 1]
  OBVIOUS
<1>3. Len(Top.elems) + 1 <= Len(Parts(Top.decl)) /\ p \in Decl /\ Fits(stack, p)
  <2>1. Len(Top.elems) <= Len(Parts(Top.decl)) /\ Len(Top.elems) # Len(Parts(Top.decl))
    BY <1>1, TopFrame DEF PartsOf, Finished
  <2>2. Len(Top.elems) + 1 <= Len(Parts(Top.decl))
    BY <1>1, <2>1, TopFrame
  <2>3. Parts(Top.decl) \in Seq(Decl) /\ Len(Top.elems) + 1 \in 1..Len(Parts(Top.decl))
    BY <1>1, <2>2, TopFrame, ProgramFacts DEF DeclInv
  <2>. QED BY <1>2, <2>2, <2>3 DEF Fits, Top
<1>4. CASE cache[p] # 0
  <2>1. Gives(types, stack, cache[p]) /\ cache' = cache
    BY <1>2, <1>4 DEF Part
  <2>2. cache[p] \in DOMAIN types /\ p \in types[cache[p]].decls
    BY <1>3, <1>4 DEF DeclInv, CachePart
  <2>3. /\ Built(types', stack', left) /\ Grows(types, types', stack)
        /\ DOMAIN stack' = DOMAIN stack
        /\ \A i \in DOMAIN stack : /\ stack'[i].decl = stack[i].decl
                                   /\ stack'[i].type = stack[i].type
    <3>1. Built(types, stack, left) /\ prog \in Programs
      BY DEF DeclInv
    <3>2. /\ Len(stack[Len(stack)].elems) + 1 <= Len(Parts(stack[Len(stack)].decl))
          /\ p = Parts(stack[Len(stack)].decl)[Len(stack[Len(stack)].elems) + 1]
      BY <1>2, <1>3 DEF Top
    <3>3. PICK c : c = cache[p]
      OBVIOUS
    <3>4. /\ c \in DOMAIN types /\ Gives(types, stack, c)
          /\ Parts(stack[Len(stack)].decl)[Len(stack[Len(stack)].elems) + 1] \in types[c].decls
      BY <2>1, <2>2, <3>2, <3>3
    <3>. QED BY <1>1, <3>1, <3>2, <3>4, GivesPart
  <2>4. HandedPart'
    BY <1>1, <2>1, <2>3 DEF DeclInv, HandedPart
  <2>5. Built(types, stack, left)'
    BY <1>1, <2>3, BuiltNext
  <2>6. CachePart(types, cache)'
    BY <2>1, <2>3, CacheStays DEF DeclInv, CachePart
  <2>7. OldPart(types, stack, handed)'
    <3>1. \A i \in DOMAIN stack' : \E j \in DOMAIN stack : stack[j].type = stack'[i].type
      BY <2>3
    <3>2. OldPart(types', stack', handed)
      BY <2>3, <3>1, OldStays DEF DeclInv
    <3>. QED BY <1>1, <3>2 DEF OldPart, Old
  <2>8. left' \subseteq DOMAIN types'
    BY <1>1, <2>3 DEF DeclInv, Grows
  <2>. QED BY <1>1, <2>4, <2>5, <2>6, <2>7, <2>8 DEF DeclInv
<1>5. CASE cache[p] = 0
  <2>1. Enter(stack, p)
    BY <1>2, <1>5 DEF Part
  <2>. QED BY <1>1, <1>3, <1>5, <2>1, EnterStep
<1>. QED BY <1>4, <1>5

LEMMA FailStep ==
  ASSUME DeclInv, Fail
  PROVE  DeclInv'
<1>1. /\ stack' = <<>> /\ left' = left \cup Building
      /\ UNCHANGED <<prog, types, cache, handed>> /\ error' \in BOOLEAN
  BY DEF Fail
<1>2. Built(types', stack', left') /\ left' \subseteq DOMAIN types'
  <2>1. left' = left \cup ({stack[i].type : i \in DOMAIN stack} \ {0})
    BY <1>1 DEF Building
  <2>. QED BY <1>1, <2>1, FailAll DEF DeclInv
<1>3. Built(types, stack, left)'
  BY <1>1, <1>2, BuiltNext
<1>5. DOMAIN stack' = {}
  BY <1>1
<1>6. HandedPart' /\ CachePart(types, cache)' /\ CachePart(types', cache')
  BY <1>1, <1>5 DEF DeclInv, HandedPart, CachePart
<1>7. OldPart(types, stack, handed)'
  BY <1>1, <1>2, <1>6, OldNext
<1>. QED BY <1>1, <1>2, <1>3, <1>6, <1>7 DEF DeclInv

\* The topmost look-up gives the type it has found or made
LEMMA ReturnStep ==
  ASSUME DeclInv, stack # <<>>, Finished(Top), NEW ts, Built(ts, stack, left), Grows(types, ts, stack),
         NEW t \in DOMAIN ts,
         \/ Top.decl \in ts[t].decls
         \/ /\ ts[t].kind # "struct" /\ ts[t].kind = Kind(Top.decl)
            /\ PartsOf(ts, ts[t].elems, Top.decl) /\ Len(ts[t].elems) = Len(Parts(Top.decl)),
         Return(ts, t), UNCHANGED <<prog, error, left>>
  PROVE  DeclInv'
<1>1. PICK d : d = Top.decl
  OBVIOUS
<1>2. PICK marked : marked = [ts EXCEPT ![t].decls = @ \cup {d}]
  OBVIOUS
<1>3. PICK r : r = Popped
  OBVIOUS
<1>4. /\ cache' = [cache EXCEPT ![d] = t]
      /\ Len(stack) = 1 => stack' = <<>> /\ types' = marked
      /\ Len(stack) # 1 => Gives(marked, r, t)
      /\ handed' = IF Len(stack) = 1 THEN [handed EXCEPT ![d] = @ \cup {t}] ELSE handed
  BY <1>1, <1>2, <1>3, Zenon DEF Return
<1>5. d \in Decl /\ handed[d] = {} /\ Len(stack) \in DOMAIN stack
  BY <1>1, TopFrame
<1>6. t \in Nat /\ t # 0
  BY BuiltTypes
<1>7. Built(marked, stack, left) /\ Grows(ts, marked, stack) /\ t \in DOMAIN marked /\ d \in marked[t].decls
  <2>1. \/ d \in ts[t].decls
        \/ /\ ts[t].kind # "struct" /\ ts[t].kind = Kind(d)
           /\ PartsOf(ts, ts[t].elems, d) /\ Len(ts[t].elems) = Len(Parts(d))
    BY <1>1
  <2>2. Built(ts, stack, left) /\ t \in DOMAIN ts /\ d \in Decl
    BY <1>5
  <2>3. \A us : us = [ts EXCEPT ![t].decls = @ \cup {d}] =>
          Built(us, stack, left) /\ Grows(ts, us, stack) /\ t \in DOMAIN us /\ d \in us[t].decls
    BY <2>1, <2>2, MarkType, Zenon
  <2>. QED BY <1>2, <2>3, Zenon
<1>8. Built(marked, r, left)
  <2>1. Len(stack[Len(stack)].elems) = Len(Parts(stack[Len(stack)].decl))
    BY DEF Finished, Top
  <2>. QED BY <1>3, <1>7, <2>1, PopFrame DEF Popped
<1>9. /\ r \in Seq(FrameType) /\ Len(r) = Len(stack) - 1 /\ DOMAIN r = DOMAIN stack \ {Len(stack)}
      /\ \A i \in DOMAIN r : r[i] = stack[i]
  <2>1. stack \in Seq(FrameType)
    BY DEF DeclInv, Built
  <2>. QED BY <1>3, <2>1, Shortened DEF Popped
<1>10. /\ Built(types', stack', left) /\ Grows(marked, types', stack)
       /\ DOMAIN stack' \subseteq DOMAIN stack
       /\ \A i \in DOMAIN stack' : /\ stack'[i].decl = stack[i].decl
                                   /\ stack'[i].type = stack[i].type
  <2>1. CASE Len(stack) = 1
    <3>1. r = <<>>
      BY <1>9, <2>1, EmptySeq
    <3>2. stack' = r /\ types' = marked
      BY <1>4, <2>1, <3>1
    <3>. QED BY <1>8, <1>9, <3>2 DEF Grows
  <2>2. CASE Len(stack) # 1
    <3>1. Gives(marked, r, t)
      BY <1>4, <2>2
    <3>2. PICK k : k = Len(r)
      OBVIOUS
    <3>3. k \in DOMAIN r /\ k + 1 = Len(stack) /\ k \in DOMAIN stack /\ r # <<>>
      <4>1. Len(stack) \in Nat /\ DOMAIN stack = 1..Len(stack) /\ Len(stack) # 0
        BY <1>5, BuiltTypes DEF DeclInv
      <4>2. \A n \in Nat : n # 0 /\ n # 1 => n - 1 \in (1..n) \ {n} /\ n - 1 + 1 = n
        OBVIOUS
      <4>3. k \in (1..Len(stack)) \ {Len(stack)} /\ k + 1 = Len(stack)
        BY <1>9, <2>2, <3>2, <4>1, <4>2
      <4>. QED BY <1>9, <4>1, <4>3
    <3>4. /\ Len(stack[k].elems) + 1 <= Len(Parts(stack[k].decl))
          /\ stack[k + 1].decl = Parts(stack[k].decl)[Len(stack[k].elems) + 1]
      BY <1>5, <3>3 DEF DeclInv, Built, ChainPart
    <3>5. /\ Len(r[Len(r)].elems) + 1 <= Len(Parts(r[Len(r)].decl))
          /\ d = Parts(r[Len(r)].decl)[Len(r[Len(r)].elems) + 1]
      <4>1. r[k] = stack[k] /\ d = stack[k + 1].decl
        BY <1>1, <1>9, <3>3 DEF Top
      <4>. QED BY <3>2, <3>4, <4>1
    <3>6. prog \in Programs
      BY DEF DeclInv
    <3>7. /\ Built(types', stack', left) /\ Grows(marked, types', r) /\ DOMAIN stack' = DOMAIN r
          /\ \A i \in DOMAIN r : stack'[i].decl = r[i].decl /\ stack'[i].type = r[i].type
      BY <1>7, <1>8, <3>1, <3>3, <3>5, <3>6, GivesPart
    <3>8. \A x : (\A i \in DOMAIN stack : stack[i].type # x) => \A i \in DOMAIN r : r[i].type # x
      BY <1>9
    <3>9. Grows(marked, types', stack)
      BY <3>7, <3>8 DEF Grows
    <3>. QED BY <1>9, <3>7, <3>9
  <2>. QED BY <2>1, <2>2
<1>11. CachePart(types', cache')
  <2>1. Grows(types, types', stack)
    BY <1>7, <1>10 DEF Grows
  <2>2. t \in DOMAIN types' /\ d \in types'[t].decls
    BY <1>7, <1>10 DEF Grows
  <2>3. CachePart(types', cache)
    BY <2>1, CacheStays DEF DeclInv
  <2>. QED BY <1>4, <1>5, <1>6, <2>2, <2>3, CacheGets
<1>12. HandedPart'
  <2>1. /\ handed \in [Decl -> SUBSET Nat] /\ cache \in [Decl -> Nat]
        /\ \A x \in Decl : handed[x] = {} \/ (cache[x] # 0 /\ handed[x] = {cache[x]})
        /\ \A i \in DOMAIN stack : handed[stack[i].decl] = {}
    BY DEF DeclInv, HandedPart, CachePart
  <2>2. cache'[d] = t /\ \A x \in Decl \ {d} : cache'[x] = cache[x]
    <3>1. cache' = [cache EXCEPT ![d] = t]
      BY <1>4
    <3>. QED BY <1>5, <2>1, <3>1
  <2>3. CASE Len(stack) = 1
    <3>1. handed' \in [Decl -> SUBSET Nat] /\ handed'[d] = {t} /\ \A x \in Decl \ {d} : handed'[x] = handed[x]
      BY <1>4, <1>5, <1>6, <2>1, <2>3
    <3>2. DOMAIN stack' = {}
      BY <1>4, <2>3
    <3>. QED BY <1>6, <2>1, <2>2, <3>1, <3>2 DEF HandedPart
  <2>4. CASE Len(stack) # 1
    BY <1>4, <1>5, <1>10, <2>1, <2>2, <2>4 DEF HandedPart
  <2>. QED BY <2>3, <2>4
<1>13. Built(types, stack, left)'
  BY <1>10, BuiltNext
<1>14. CachePart(types, cache)'
  BY <1>11 DEF CachePart
<1>15. OldPart(types, stack, handed)'
  <2>1. CASE Len(stack) = 1
    BY <1>4, <1>10, <1>11, <1>12, <2>1, OldNext
  <2>2. CASE Len(stack) # 1
    <3>1. handed' = handed
      BY <1>4, <2>2
    <3>2. Grows(types, types', stack)
      BY <1>7, <1>10 DEF Grows
    <3>3. \A i \in DOMAIN stack' : \E j \in DOMAIN stack : stack[j].type = stack'[i].type
      BY <1>10
    <3>4. OldPart(types', stack', handed)
      BY <3>2, <3>3, OldStays DEF DeclInv
    <3>. QED BY <3>1, <3>4 DEF OldPart, Old
  <2>. QED BY <2>1, <2>2
<1>16. left' \subseteq DOMAIN types'
  BY <1>7, <1>10 DEF DeclInv, Grows
<1>. QED BY <1>12, <1>13, <1>14, <1>15, <1>16 DEF DeclInv

\* A look-up is complete
LEMMA CompleteStep ==
  ASSUME DeclInv, Complete
  PROVE  DeclInv'
<1>1. /\ stack # <<>> /\ Finished(Top) /\ UNCHANGED <<prog, error, left>>
      /\ Built(types, stack, left) /\ prog \in Programs
  BY DEF Complete, DeclInv
<1>2. Top.decl \in Decl /\ Top.elems \in Seq(Nat) /\ PartsOf(types, Top.elems, Top.decl)
  BY <1>1, TopFrame
<1>3. Len(Top.elems) = Len(Parts(Top.decl))
  BY <1>1 DEF Finished
<1>4. Grows(types, types, stack)
  BY DEF Grows
<1>5. CASE Top.type # 0
  <2>1. Return(types, Top.type)
    BY <1>5 DEF Complete
  <2>2. Top.type \in DOMAIN types /\ Top.decl \in types[Top.type].decls
    <3>1. Len(stack) \in DOMAIN stack
      BY <1>1, TopFrame
    <3>. QED BY <1>1, <1>5, <3>1 DEF Built, FramePart, Top
  <2>. QED BY <1>1, <1>4, <2>1, <2>2, ReturnStep
<1>6. CASE Top.type = 0 /\ SharedWith(Top.decl, Top.elems) # {}
  <2>1. PICK t \in SharedWith(Top.decl, Top.elems) : Return(types, t)
    BY <1>6 DEF Complete
  <2>2. /\ t \in DOMAIN types /\ types[t].kind = Kind(Top.decl) /\ Kind(Top.decl) \in Shared
        /\ types[t].elems = Top.elems
    BY <2>1 DEF SharedWith
  <2>3. types[t].kind # "struct"
    BY <2>2 DEF Shared
  <2>. QED BY <1>1, <1>2, <1>3, <1>4, <2>1, <2>2, <2>3, ReturnStep
<1>7. CASE Top.type = 0 /\ SharedWith(Top.decl, Top.elems) = {}
  <2>1. PICK ts : ts = Append(types, NewType(Top.decl, Top.elems))
    OBVIOUS
  <2>2. Return(ts, Len(types) + 1)
    BY <1>7, <2>1 DEF Complete
  <2>3. /\ Built(ts, stack, left) /\ Grows(types, ts, stack) /\ Len(types) + 1 \in DOMAIN ts
        /\ Top.decl \in ts[Len(types) + 1].decls
    <3>1. PICK d \in Decl, elems \in Seq(Nat) : d = Top.decl /\ elems = Top.elems
      BY <1>2
    <3>2. PartsOf(types, elems, d) /\ Len(elems) = Len(Parts(d)) /\ ts = Append(types, NewType(d, elems))
      BY <1>2, <1>3, <2>1, <3>1
    <3>. QED BY <1>1, <3>1, <3>2, AddType
  <2>. QED BY <1>1, <2>2, <2>3, ReturnStep
<1>. QED BY <1>5, <1>6, <1>7
-----------------------------------------------------------------------------
LEMMA DeclStart == DeclInit => DeclInv
<1>. SUFFICES ASSUME DeclInit PROVE DeclInv
  OBVIOUS
<1>1. <<>> \in Seq(TypeType) /\ <<>> \in Seq(FrameType) /\ DOMAIN <<>> = {}
  BY EmptySeq
<1>2. types = <<>> /\ stack = <<>> /\ left = {} /\ error = FALSE /\ prog \in Programs
      /\ cache = [d \in Decl |-> 0] /\ handed = [d \in Decl |-> {}]
  BY DEF DeclInit
<1>3. /\ TypePart(types) /\ ElemsPart(types) /\ FramePart(types, stack) /\ ChainPart(stack)
      /\ DonePart(types, stack, left)
  BY <1>1, <1>2 DEF TypePart, ElemsPart, FramePart, ChainPart, DonePart
<1>4. CachePart(types, cache) /\ HandedPart
  BY <1>1, <1>2 DEF CachePart, HandedPart
<1>5. Built(types, <<>>, left) /\ \A d \in Decl : handed[d] \subseteq DOMAIN types
  BY <1>1, <1>2, <1>3 DEF Built
<1>6. OldPart(types, stack, handed)
  BY <1>2, <1>5, OldAll
<1>. QED BY <1>1, <1>2, <1>4, <1>5, <1>6 DEF DeclInv

LEMMA DeclSteps == DeclInv /\ [DeclNext]_declVars => DeclInv'
<1>. SUFFICES ASSUME DeclInv, [DeclNext]_declVars PROVE DeclInv'
  OBVIOUS
<1>1. ASSUME NEW d \in Decl, GetType(d) PROVE DeclInv'
  BY <1>1, GetTypeStep
<1>2. CASE Part
  BY <1>2, PartStep
<1>3. CASE Fail
  BY <1>3, FailStep
<1>4. CASE Complete
  BY <1>4, CompleteStep
<1>5. CASE UNCHANGED declVars
  <2>1. UNCHANGED <<prog, types, cache, stack, error, handed, left>>
    BY <1>5 DEF declVars
  <2>2. Built(types, stack, left)'
    BY <2>1, BuiltNext DEF DeclInv
  <2>. QED BY <2>1, <2>2 DEF DeclInv, HandedPart, CachePart, OldPart, Old
<1>. QED BY <1>1, <1>2, <1>3, <1>4, <1>5 DEF DeclNext, Lookup

LEMMA DeclInvariance == DeclSpec => []DeclInv
  BY DeclStart, DeclSteps, PTL DEF DeclSpec

\* The variables keep their types: what the cache, the stack and the types
\* themselves name as a type is one that was made
THEOREM DeclTypeCorrect == DeclSpec => []DeclTypeOK
<1>1. DeclInv => DeclTypeOK
  <2>. SUFFICES ASSUME DeclInv PROVE DeclTypeOK
    OBVIOUS
  <2>1. /\ types \in Seq(TypeType) /\ stack \in Seq(FrameType) /\ DOMAIN types = 1..Len(types)
        /\ Len(types) \in Nat
    BY BuiltTypes DEF DeclInv, Built
  <2>2. cache \in [Decl -> 0..Len(types)]
    BY <2>1 DEF DeclInv, CachePart
  <2>3. handed \in [Decl -> SUBSET (1..Len(types))]
    <3>1. \A d \in Decl : handed[d] \subseteq 1..Len(types)
      <4>. TAKE d \in Decl
      <4>1. handed[d] = {} \/ (cache[d] # 0 /\ handed[d] = {cache[d]})
        BY DEF DeclInv, HandedPart
      <4>. QED BY <2>1, <2>2, <4>1
    <3>2. handed \in [Decl -> SUBSET Nat]
      BY DEF DeclInv, HandedPart
    <3>. QED BY <3>1, <3>2
  <2>. QED BY <2>1, <2>2, <2>3 DEF DeclInv, DeclTypeOK
<1>. QED BY <1>1, DeclInvariance, PTL

\* Whatever declarations a program has and in whatever order it asks for them,
\* the types are built as the declarations say (Context::getTypeFromDeclType)
THEOREM TypesAreAsDeclared == DeclSpec => []TypesFollowDeclarations
<1>1. ASSUME DeclInv, NEW t \in TypeIds
      PROVE  /\ \A d \in types[t].decls :
                  /\ types[t].kind = Kind(d)
                  /\ \A i \in DOMAIN types[t].elems :
                       i <= Len(Parts(d)) /\ IsPart(types, types[t].elems[i], d, i)
             /\ Whole(t) \/ t \in left \cup Building
  <2>1. t \in DOMAIN types /\ types[t].elems \in Seq(Nat) /\ types[t].decls \subseteq Decl /\ t # 0
    BY <1>1, BuiltTypes DEF DeclInv, TypeIds
  <2>2. ASSUME NEW d \in types[t].decls, NEW i \in DOMAIN types[t].elems
        PROVE  i <= Len(Parts(d)) /\ IsPart(types, types[t].elems[i], d, i)
    <3>1. PICK e \in Seq(Nat) : e = types[t].elems
      BY <2>1
    <3>2. PartsOf(types, e, d)
      BY <1>1, <2>1, <3>1 DEF DeclInv, Built, TypePart
    <3>3. i \in 1..Len(e) /\ Len(e) \in Nat /\ Len(e) <= Len(Parts(d))
      BY <2>2, <3>1, <3>2 DEF PartsOf
    <3>4. Len(Parts(d)) \in Nat
      BY <1>1, <2>1, ProgramFacts DEF DeclInv
    <3>. QED BY <2>2, <3>1, <3>2, <3>3, <3>4 DEF PartsOf
  <2>3. \A d \in types[t].decls : types[t].kind = Kind(d)
    BY <1>1, <2>1 DEF DeclInv, Built, TypePart
  <2>4. Whole(t) \/ t \in left \cup Building
    BY <1>1, <2>1 DEF DeclInv, Built, DonePart, Whole, Building
  <2>. QED BY <2>2, <2>3, <2>4
<1>2. DeclInv => TypesFollowDeclarations
  BY <1>1 DEF TypesFollowDeclarations
<1>. QED BY <1>2, DeclInvariance, PTL

\* The program gets one type for a declaration and never another, also where an
\* inner look-up of the declaration made a type before the outer one did; and of
\* all it reaches from that type only what a failed look-up left lacks parts
THEOREM TypesGivenStay == DeclSpec => []HandedOutIsStable
<1>1. ASSUME DeclInv PROVE HandedOutIsStable
  <2>1. \A d \in Decl : \A t \in handed[d] : t = cache[d]
    BY <1>1 DEF DeclInv, HandedPart
  <2>2. PICK n \in Nat : Old(types, stack, n) /\ \A d \in Decl : handed[d] \subseteq 1..n
    BY <1>1 DEF DeclInv, OldPart
  <2>3. n \in 0..Len(types)
    <3>1. DOMAIN types = 1..Len(types) /\ Len(types) \in Nat
      BY <1>1, BuiltTypes DEF DeclInv
    <3>. QED BY <2>2, <3>1 DEF Old
  <2>4. \A t \in 1..n : Whole(t) \/ t \in left
    BY <1>1, <2>2 DEF DeclInv, Built, DonePart, Whole, Old
  <2>. QED BY <2>1, <2>2, <2>3, <2>4 DEF HandedOutIsStable, Old
<1>. QED BY <1>1, DeclInvariance, PTL
-----------------------------------------------------------------------------
\* No two entries of the dispatch maps share an object
Unshared ==
  \A h, k \in Handler : \A m, n \in Method :
    dispatch[h][m] # 0 /\ dispatch[h][m] = dispatch[k][n] => h = k /\ m = n

\* What a handler knows comes from the records it has compiled
KnownPart ==
  \A h \in Handler : \A f \in Func :
    objMap[h][f] # 0 => \E i \in Seen(h) : records[i].func = f

LinkPart ==
  \A h \in Handler : \A t \in Type :
    links[h][t] # None => \E i \in Seen(h) : records[i].type = t

CodePart ==
  \A h \in Handler : \A t \in Type :
    code[h][t] # None => \E i \in Seen(h) : records[i].type = t

\* The object of a method runs the function of a record that was compiled
Runs(h, m) == \E i \in Seen(h) : /\ records[i].method = m
                                 /\ records[i].func = objs[dispatch[h][m]].code.func

\* When nothing is registered twice, exactly the methods that were compiled have
\* an object, and it runs the function registered for them
DispatchPart ==
  Distinct => \A h \in Handler :
    /\ \A m \in Method : dispatch[h][m] # 0 => Runs(h, m)
    /\ \A i \in Seen(h) : dispatch[h][records[i].method] # 0

\* A type for which stubs were asked has one, that of a method asked for
StubPart == /\ \A t \in Type : stubs[t] # None => <<stubs[t], t>> \in asked
            /\ \A a \in asked : stubs[a[2]] # None

\* Who has served a call does not compile any more
CallPart == \A c \in calls : status[c.handler] = "ready"

IInv == /\ TypeOK /\ DispatchIsAlive /\ Unshared
        /\ KnownPart /\ LinkPart /\ CodePart /\ DispatchPart
        /\ StubPart /\ CallPart /\ CallsRunRegistered
-----------------------------------------------------------------------------
\* The record a handler compiles is one of the service's, and not one it has seen
LEMMA CurrentRecord ==
  ASSUME TypeOK, NEW h \in Handler, next[h] <= Len(records)
  PROVE  /\ next[h] \in DOMAIN records /\ next[h] \notin Seen(h)
         /\ Seen(h) \subseteq DOMAIN records
         /\ Current(h) = records[next[h]] /\ Current(h) \in Record
         /\ Current(h).method \in Method /\ Current(h).type \in Type
         /\ Current(h).func \in Func
<1>1. DOMAIN records = 1..Len(records) /\ Len(records) \in Nat /\ next[h] \in Nat \ {0}
  BY DEF TypeOK
<1>2. records[next[h]] \in Record
  BY <1>1 DEF TypeOK
<1>. QED BY <1>1, <1>2 DEF Seen, Current, Record

\* The records a handler has seen are the service's
LEMMA SeenRecords ==
  ASSUME TypeOK, NEW h \in Handler
  PROVE  /\ Seen(h) \subseteq DOMAIN records
         /\ \A i \in Seen(h) : /\ records[i].method \in Method
                               /\ records[i].type \in Type /\ records[i].func \in Func
<1>1. DOMAIN records = 1..Len(records) /\ Len(records) \in Nat /\ next[h] \in Nat
      /\ next[h] <= Len(records) + 1
  BY DEF TypeOK
<1>2. \A i \in DOMAIN records : records[i] \in Record
  BY DEF TypeOK
<1>. QED BY <1>1, <1>2 DEF Seen, Record

\* Registering keeps the records that are there
LEMMA RegisterKeeps ==
  ASSUME TypeOK, NEW r \in Record, Register(r)
  PROVE  /\ DOMAIN records \subseteq DOMAIN records'
         /\ \A i \in DOMAIN records : records'[i] = records[i]
         /\ Len(records') = Len(records) + 1
         /\ records' \in Seq(Record)
         /\ Distinct' => Distinct
<1>1. records \in Seq(Record) /\ records' = Append(records, r)
  BY DEF TypeOK, Register
<1>2. DOMAIN records = 1..Len(records) /\ DOMAIN records' = 1..Len(records)+1
      /\ Len(records) \in Nat
  BY <1>1
<1>3. /\ \A i \in DOMAIN records : records'[i] = records[i]
      /\ Len(records') = Len(records) + 1 /\ records' \in Seq(Record)
  BY <1>1
<1>4. DOMAIN records \subseteq DOMAIN records'
  BY <1>2
<1>. QED BY <1>3, <1>4 DEF Distinct

\* What a compiled skeleton is
LEMMA CompiledType ==
  ASSUME TypeOK, NEW h \in Handler, NEW r \in Record
  PROVE  Linked(h, r) \in Func /\ Compiled(h, r) \in Skeleton
<1>1. r.method \in Method /\ r.type \in Type /\ r.func \in Func
  BY DEF Record
<1>2. links[h][r.type] \in Func \cup {None} /\ code[h][r.type] \in Skeleton \cup {None}
  BY <1>1 DEF TypeOK
<1>3. Linked(h, r) \in Func
  BY <1>1, <1>2 DEF Linked
<1>. QED BY <1>1, <1>2, <1>3 DEF Compiled, Skeleton

\* What installing does to the objects: a new one, and an old one destroyed
LEMMA InstallObjects ==
  ASSUME TypeOK, NEW h \in Handler, NEW r \in Record, Install(h, r, Len(objs) + 1)
  PROVE  /\ objs' \in Seq(Object) /\ Len(objs') = Len(objs) + 1
         /\ \A n \in 1..Len(objs) : objs'[n].code = objs[n].code
         /\ \A n \in 1..Len(objs) : n # dispatch[h][r.method] => objs'[n] = objs[n]
         /\ objs'[Len(objs) + 1].code = Compiled(h, r)
         /\ ~objs'[Len(objs) + 1].freed
<1>. DEFINE old == dispatch[h][r.method]
            object == [type |-> r.type, code |-> Compiled(h, r), freed |-> FALSE]
            new == Append(objs, object)
<1>1. r.method \in Method /\ r.type \in Type
  BY DEF Record
<1>2. object \in Object
  BY <1>1, CompiledType DEF Object
<1>3. objs \in Seq(Object) /\ old \in 0..Len(objs) /\ Len(objs) \in Nat
  BY <1>1 DEF TypeOK
<1>. HIDE DEF object
<1>4. /\ new \in Seq(Object) /\ Len(new) = Len(objs) + 1
      /\ \A o \in 1..Len(objs) : new[o] = objs[o]
      /\ new[Len(objs) + 1] = object
  BY <1>2, <1>3
<1>5. objs' = IF old = 0 THEN new ELSE [new EXCEPT ![old].freed = TRUE]
  BY DEF Install, object
<1>6. object.code = Compiled(h, r) /\ ~object.freed
  BY DEF object
<1>7. CASE old = 0
  BY <1>3, <1>4, <1>5, <1>6, <1>7
<1>8. CASE old # 0
  <2>. HIDE DEF old, new
  <2>1. objs' = [new EXCEPT ![old] = [@ EXCEPT !.freed = TRUE]] /\ old \in 1..Len(objs)
    BY <1>3, <1>5, <1>8
  <2>2. DOMAIN new = 1..Len(objs) + 1 /\ old \in DOMAIN new /\ new[old] \in Object
    BY <1>3, <1>4, <2>1
  <2>3. [new[old] EXCEPT !.freed = TRUE] \in Object
        /\ [new[old] EXCEPT !.freed = TRUE].code = new[old].code
    BY <2>2 DEF Object
  <2>4. objs' \in Seq(Object) /\ Len(objs') = Len(objs) + 1
    BY <1>3, <1>4, <2>1, <2>2, <2>3
  <2>5. \A o \in 1..Len(objs) + 1 : objs'[o] = IF o = old THEN [new[old] EXCEPT !.freed = TRUE]
                                             ELSE new[o]
    BY <2>1, <2>2
  <2>6. Len(objs) + 1 # old /\ Len(objs) + 1 \in 1..Len(objs) + 1
        /\ 1..Len(objs) \subseteq 1..Len(objs) + 1
    BY <1>3, <2>1
  <2>7. objs'[Len(objs) + 1] = object
    BY <1>4, <2>5, <2>6
  <2>8. /\ \A n \in 1..Len(objs) : objs'[n].code = objs[n].code
        /\ \A n \in 1..Len(objs) : n # old => objs'[n] = objs[n]
    BY <1>4, <2>3, <2>5, <2>6
  <2>. QED BY <1>6, <2>4, <2>7, <2>8 DEF old
<1>. QED BY <1>7, <1>8
-----------------------------------------------------------------------------
\* Type correctness is inductive
LEMMA TypeStep ==
  ASSUME TypeOK, [Next]_vars
  PROVE  TypeOK'
<1>. USE DEF TypeOK
<1>1. ASSUME NEW r \in Record, Register(r) PROVE TypeOK'
  <2>1. records' \in Seq(Record) /\ Len(records') = Len(records) + 1 /\ Len(records) \in Nat
    BY <1>1, RegisterKeeps
  <2>2. \A h \in Handler : next'[h] <= Len(records')+1
    BY <1>1, <2>1 DEF Register
  <2>. QED BY <1>1, <2>1, <2>2 DEF Register
<1>2. CASE RegisterFails
  BY <1>2 DEF RegisterFails
<1>3. ASSUME NEW h \in Handler, NewHandler(h) PROVE TypeOK'
  BY <1>3 DEF NewHandler
<1>4. ASSUME NEW h \in Handler, Skip(h) PROVE TypeOK'
  <2>1. next' \in [Handler -> Nat \ {0}] /\ Len(records) \in Nat
    BY <1>4 DEF Skip
  <2>2. \A k \in Handler : next'[k] <= Len(records) + 1
    BY <1>4, <2>1 DEF Skip
  <2>. QED BY <1>4, <2>1, <2>2 DEF Skip
<1>5. ASSUME NEW h \in Handler, CompileFails(h) PROVE TypeOK'
  BY <1>5 DEF CompileFails
<1>6. ASSUME NEW h \in Handler, Compile(h) PROVE TypeOK'
  <2>. DEFINE r == Current(h)
              o == Len(objs) + 1
  <2>1. r \in Record /\ r.method \in Method /\ r.type \in Type /\ r.func \in Func
    BY <1>6, CurrentRecord DEF Compile
  <2>2. Linked(h, r) \in Func /\ Compiled(h, r) \in Skeleton
    BY <2>1, CompiledType
  <2>. HIDE DEF r
  <2>3. Install(h, r, o)
    BY <1>6 DEF Compile, r
  <2>4. objs' \in Seq(Object) /\ Len(objs') = o /\ Len(objs) \in Nat
    BY <2>1, <2>3, InstallObjects
  <2>5. /\ dispatch' = [dispatch EXCEPT ![h] = [@ EXCEPT ![r.method] = o]]
        /\ objMap' = [objMap EXCEPT ![h] = [@ EXCEPT ![r.func] = o]]
    BY <2>3 DEF Install
  <2>6. 0..Len(objs) \subseteq 0..o /\ o \in 0..o
    BY <2>4
  <2>7. dispatch' \in [Handler -> [Method -> 0..Len(objs')]]
    BY <2>1, <2>4, <2>5, <2>6
  <2>8. objMap' \in [Handler -> [Func -> 0..Len(objs')]]
    BY <2>1, <2>4, <2>5, <2>6
  <2>9. code' = [code EXCEPT ![h] = [@ EXCEPT ![r.type] = Compiled(h, r)]]
    BY <1>6 DEF Compile, r
  <2>10. links' = [links EXCEPT ![h] = [@ EXCEPT ![r.type] = Linked(h, r)]]
    BY <1>6 DEF Compile, r
  <2>11. code' \in [Handler -> [Type -> Skeleton \cup {None}]]
    BY <2>1, <2>2, <2>9
  <2>12. links' \in [Handler -> [Type -> Func \cup {None}]]
    BY <2>1, <2>2, <2>10
  <2>13. next' \in [Handler -> Nat \ {0}] /\ Len(records) \in Nat
    BY <1>6 DEF Compile
  <2>14. \A k \in Handler : next'[k] <= Len(records) + 1
    BY <1>6, <2>13 DEF Compile
  <2>. QED BY <1>6, <2>4, <2>7, <2>8, <2>11, <2>12, <2>13, <2>14 DEF Compile
<1>7. ASSUME NEW h \in Handler, HandlerReady(h) PROVE TypeOK'
  BY <1>7 DEF HandlerReady
<1>8. ASSUME NEW m \in Method, NEW t \in Type, GenerateStub(m, t) PROVE TypeOK'
  BY <1>8 DEF GenerateStub
<1>9. ASSUME NEW m \in Method, NEW t \in Type, NEW h \in Handler, Call(m, t, h) PROVE TypeOK'
  <2>1. PICK run : calls' = calls \cup {[method |-> m, type |-> t, handler |-> h, ran |-> run]}
    BY <1>9 DEF Call
  <2>. QED BY <1>9, <2>1 DEF Call
<1>10. CASE UNCHANGED vars
  BY <1>10 DEF vars
<1>. QED BY <1>1, <1>2, <1>3, <1>4, <1>5, <1>6, <1>7, <1>8, <1>9, <1>10 DEF Next
-----------------------------------------------------------------------------
\* Records are never changed, and what was asked for stays
LEMMA RecordsStay ==
  ASSUME TypeOK, [Next]_vars
  PROVE  /\ Distinct' => Distinct
         /\ asked \subseteq asked'
         /\ \A h \in Handler : \A i \in Seen(h) : records'[i] = records[i]
<1>1. ASSUME NEW r \in Record, Register(r)
      PROVE  /\ Distinct' => Distinct
             /\ asked \subseteq asked'
             /\ \A h \in Handler : \A i \in Seen(h) : records'[i] = records[i]
  BY <1>1, RegisterKeeps, SeenRecords DEF Register
<1>2. CASE ~\E r \in Record : Register(r)
  <2>1. records' = records /\ asked \subseteq asked'
    BY <1>2 DEF Next, vars, RegisterFails, NewHandler, Skip, CompileFails, Compile,
                HandlerReady, GenerateStub, Call
  <2>. QED BY <2>1 DEF Distinct
<1>. QED BY <1>1, <1>2

\* A handler sees one record more when it compiles or skips it, and no other does
LEMMA SeenOne ==
  ASSUME TypeOK, NEW h \in Handler, next[h] <= Len(records),
         next' = [next EXCEPT ![h] = @ + 1]
  PROVE  /\ Seen(h)' = Seen(h) \cup {next[h]}
         /\ \A k \in Handler : k # h => Seen(k)' = Seen(k)
<1>1. next[h] \in Nat \ {0} /\ next'[h] = next[h] + 1
      /\ \A k \in Handler : k # h => next'[k] = next[k]
  BY DEF TypeOK
<1>. QED BY <1>1 DEF Seen

\* Only a handler that is compiling sees more records
LEMMA SeenStays ==
  ASSUME TypeOK, [Next]_vars, NEW k \in Handler
  PROVE  /\ Seen(k) \subseteq Seen(k)'
         /\ status[k] # "compiling" => Seen(k)' = Seen(k)
<1>1. ASSUME NEW h \in Handler, Skip(h) \/ Compile(h)
      PROVE  /\ Seen(k) \subseteq Seen(k)'
             /\ status[k] # "compiling" => Seen(k)' = Seen(k)
  <2>1. /\ status[h] = "compiling" /\ next[h] <= Len(records)
        /\ next' = [next EXCEPT ![h] = @ + 1]
    BY <1>1 DEF Skip, Compile
  <2>. QED BY <2>1, SeenOne
<1>2. CASE ~\E h \in Handler : Skip(h) \/ Compile(h)
  <2>1. next' = next
    BY <1>2 DEF Next, vars, Register, RegisterFails, NewHandler, CompileFails,
                HandlerReady, GenerateStub, Call
  <2>. QED BY <2>1 DEF Seen
<1>. QED BY <1>1, <1>2

\* What compiling a record does to the maps of the handlers
LEMMA CompileChanges ==
  ASSUME TypeOK, NEW h \in Handler, Compile(h)
  PROVE  LET r == Current(h)
             o == Len(objs) + 1
         IN /\ \A k \in Handler, m \in Method :
                 /\ dispatch[k][m] \in 0..Len(objs)
                 /\ dispatch'[k][m] = IF k = h /\ m = r.method THEN o ELSE dispatch[k][m]
            /\ \A k \in Handler, f \in Func :
                 objMap'[k][f] = IF k = h /\ f = r.func THEN o ELSE objMap[k][f]
            /\ \A k \in Handler, t \in Type :
                 /\ links'[k][t] = IF k = h /\ t = r.type THEN Linked(h, r) ELSE links[k][t]
                 /\ code'[k][t] = IF k = h /\ t = r.type THEN Compiled(h, r) ELSE code[k][t]
<1>. DEFINE r == Current(h)
            o == Len(objs) + 1
<1>1. r.method \in Method /\ r.type \in Type /\ r.func \in Func
  BY CurrentRecord DEF Compile
<1>. HIDE DEF r
<1>2. /\ dispatch' = [dispatch EXCEPT ![h] = [@ EXCEPT ![r.method] = o]]
      /\ objMap' = [objMap EXCEPT ![h] = [@ EXCEPT ![r.func] = o]]
      /\ code' = [code EXCEPT ![h] = [@ EXCEPT ![r.type] = Compiled(h, r)]]
      /\ links' = [links EXCEPT ![h] = [@ EXCEPT ![r.type] = Linked(h, r)]]
  BY DEF Compile, Install, r
<1>3. /\ dispatch \in [Handler -> [Method -> 0..Len(objs)]]
      /\ objMap \in [Handler -> [Func -> 0..Len(objs)]]
      /\ code \in [Handler -> [Type -> Skeleton \cup {None}]]
      /\ links \in [Handler -> [Type -> Func \cup {None}]]
  BY DEF TypeOK
<1>4. \A k \in Handler, m \in Method :
        /\ dispatch[k][m] \in 0..Len(objs)
        /\ dispatch'[k][m] = IF k = h /\ m = r.method THEN o ELSE dispatch[k][m]
  BY <1>1, <1>2, <1>3
<1>5. \A k \in Handler, f \in Func :
        objMap'[k][f] = IF k = h /\ f = r.func THEN o ELSE objMap[k][f]
  BY <1>1, <1>2, <1>3
<1>6. \A k \in Handler, t \in Type :
        links'[k][t] = IF k = h /\ t = r.type THEN Linked(h, r) ELSE links[k][t]
  BY <1>1, <1>2, <1>3
<1>7. \A k \in Handler, t \in Type :
        code'[k][t] = IF k = h /\ t = r.type THEN Compiled(h, r) ELSE code[k][t]
  BY <1>1, <1>2, <1>3
<1>. QED BY <1>4, <1>5, <1>6, <1>7 DEF r

\* The steps that compile nothing leave the maps alone
LEMMA OthersLeave ==
  ASSUME [Next]_vars, ~\E h \in Handler : Compile(h)
  PROVE  UNCHANGED <<objs, dispatch, objMap, links, code>>
  BY DEF Next, vars, Register, RegisterFails, NewHandler, Skip, CompileFails,
         HandlerReady, GenerateStub, Call
-----------------------------------------------------------------------------
\* No object is shared, so that the one destroyed is the method's own
LEMMA AliveStep ==
  ASSUME TypeOK, DispatchIsAlive, Unshared, [Next]_vars
  PROVE  DispatchIsAlive' /\ Unshared'
<1>1. ASSUME NEW h \in Handler, Compile(h) PROVE DispatchIsAlive' /\ Unshared'
  <2>. DEFINE r == Current(h)
              o == Len(objs) + 1
  <2>1. /\ r \in Record /\ r.method \in Method /\ Len(objs) \in Nat
    BY <1>1, CurrentRecord DEF Compile, TypeOK
  <2>2. \A k \in Handler, m \in Method :
          /\ dispatch[k][m] \in 0..Len(objs)
          /\ dispatch'[k][m] = IF k = h /\ m = r.method THEN o ELSE dispatch[k][m]
    BY <1>1, CompileChanges
  <2>3. Install(h, r, o)
    BY <1>1 DEF Compile
  <2>. HIDE DEF r
  <2>4. /\ \A n \in 1..Len(objs) : n # dispatch[h][r.method] => objs'[n] = objs[n]
        /\ ~objs'[o].freed
    BY <2>1, <2>3, InstallObjects
  <2>5. Unshared'
    BY <2>1, <2>2 DEF Unshared
  <2>6. ASSUME NEW k \in Handler, NEW m \in Method, dispatch'[k][m] # 0
        PROVE  ~objs'[dispatch'[k][m]].freed
    <3>1. CASE k = h /\ m = r.method
      BY <2>2, <2>4, <3>1
    <3>2. CASE ~(k = h /\ m = r.method)
      <4>1. dispatch'[k][m] = dispatch[k][m] /\ dispatch[k][m] \in 1..Len(objs)
        BY <2>1, <2>2, <2>6, <3>2
      <4>2. dispatch[k][m] # dispatch[h][r.method]
        BY <2>1, <2>2, <3>2, <4>1 DEF Unshared
      <4>. QED BY <2>4, <4>1, <4>2 DEF DispatchIsAlive
    <3>. QED BY <3>1, <3>2
  <2>. QED BY <2>5, <2>6 DEF DispatchIsAlive
<1>2. CASE ~\E h \in Handler : Compile(h)
  BY <1>2, OthersLeave DEF DispatchIsAlive, Unshared
<1>. QED BY <1>1, <1>2

\* What is in the maps was in a record that has been seen
LEMMA MapsStep ==
  ASSUME TypeOK, KnownPart, LinkPart, CodePart, [Next]_vars
  PROVE  KnownPart' /\ LinkPart' /\ CodePart'
<1>1. \A k \in Handler : /\ Seen(k) \subseteq Seen(k)'
                         /\ \A i \in Seen(k) : records'[i] = records[i]
  BY SeenStays, RecordsStay
<1>2. ASSUME NEW h \in Handler, Compile(h) PROVE KnownPart' /\ LinkPart' /\ CodePart'
  <2>. DEFINE r == Current(h)
  <2>1. /\ next[h] \in Seen(h)' /\ records'[next[h]] = r
    BY <1>2, CurrentRecord, SeenOne DEF Compile
  <2>2. \A k \in Handler, f \in Func :
          objMap'[k][f] # 0 => (k = h /\ f = r.func) \/ objMap[k][f] # 0
    BY <1>2, CompileChanges
  <2>3. \A k \in Handler, t \in Type :
          /\ links'[k][t] # None => (k = h /\ t = r.type) \/ links[k][t] # None
          /\ code'[k][t] # None => (k = h /\ t = r.type) \/ code[k][t] # None
    BY <1>2, CompileChanges
  <2>. HIDE DEF r
  <2>4. KnownPart'
    BY <1>1, <2>1, <2>2 DEF KnownPart
  <2>5. LinkPart'
    BY <1>1, <2>1, <2>3 DEF LinkPart
  <2>6. CodePart'
    BY <1>1, <2>1, <2>3 DEF CodePart
  <2>. QED BY <2>4, <2>5, <2>6
<1>3. CASE ~\E h \in Handler : Compile(h)
  <2>1. UNCHANGED <<objMap, links, code>>
    BY <1>3, OthersLeave
  <2>. QED BY <1>1, <2>1 DEF KnownPart, LinkPart, CodePart
<1>. QED BY <1>2, <1>3

\* When nothing is registered twice, no record is skipped, and what is compiled
\* for a record runs its function
LEMMA NothingTwice ==
  ASSUME TypeOK, KnownPart, LinkPart, CodePart, Distinct,
         NEW h \in Handler, next[h] <= Len(records)
  PROVE  /\ ~Skip(h)
         /\ Compiled(h, Current(h)).func = Current(h).func
         /\ \A i \in Seen(h) : records[i].method # Current(h).method
<1>. DEFINE r == Current(h)
<1>1. /\ next[h] \in DOMAIN records /\ next[h] \notin Seen(h) /\ Seen(h) \subseteq DOMAIN records
      /\ r = records[next[h]] /\ r.type \in Type /\ r.func \in Func
  BY CurrentRecord
<1>2. \A i \in Seen(h) : /\ records[i].type # r.type /\ records[i].func # r.func
                         /\ records[i].method # r.method
  BY <1>1 DEF Distinct
<1>. HIDE DEF r
<1>3. objMap[h][r.func] = 0 /\ links[h][r.type] = None /\ code[h][r.type] = None
  BY <1>1, <1>2 DEF KnownPart, LinkPart, CodePart
<1>4. ~Skip(h)
  BY <1>3 DEF Skip, Known, r
<1>5. Compiled(h, r).func = r.func
  BY <1>3 DEF Compiled, Linked
<1>. QED BY <1>2, <1>4, <1>5 DEF r

\* Exactly the methods that were compiled run their functions
LEMMA DispatchStep ==
  ASSUME TypeOK, KnownPart, LinkPart, CodePart, DispatchPart, [Next]_vars
  PROVE  DispatchPart'
<1>. SUFFICES ASSUME Distinct'
              PROVE  \A k \in Handler :
                       /\ \A m \in Method : dispatch'[k][m] # 0 => Runs(k, m)'
                       /\ \A i \in Seen(k)' : dispatch'[k][records'[i].method] # 0
  BY DEF DispatchPart
<1>1. Distinct
  BY RecordsStay
<1>2. \A k \in Handler : /\ Seen(k) \subseteq Seen(k)'
                         /\ \A i \in Seen(k) : /\ records'[i] = records[i]
                                               /\ records[i].method \in Method
  BY SeenStays, RecordsStay, SeenRecords
<1>3. ASSUME NEW h \in Handler, Compile(h), NEW k \in Handler
      PROVE  /\ \A m \in Method : dispatch'[k][m] # 0 => Runs(k, m)'
             /\ \A i \in Seen(k)' : dispatch'[k][records'[i].method] # 0
  <2>. DEFINE r == Current(h)
              o == Len(objs) + 1
  <2>1. /\ r \in Record /\ r.method \in Method /\ Len(objs) \in Nat
        /\ next[h] <= Len(records) /\ records' = records /\ records[next[h]] = r
    BY <1>3, CurrentRecord DEF Compile, TypeOK
  <2>2. \A l \in Handler, m \in Method :
          /\ dispatch[l][m] \in 0..Len(objs)
          /\ dispatch'[l][m] = IF l = h /\ m = r.method THEN o ELSE dispatch[l][m]
    BY <1>3, CompileChanges
  <2>3. Install(h, r, o)
    BY <1>3 DEF Compile
  <2>4. Compiled(h, r).func = r.func
    BY <1>1, <2>1, NothingTwice
  <2>5. Seen(h)' = Seen(h) \cup {next[h]} /\ (k # h => Seen(k)' = Seen(k))
    BY <1>3, <2>1, SeenOne DEF Compile
  <2>. HIDE DEF r
  <2>6. /\ \A n \in 1..Len(objs) : objs'[n].code = objs[n].code
        /\ objs'[o].code = Compiled(h, r)
    BY <2>1, <2>3, InstallObjects
  <2>7. ASSUME NEW m \in Method, dispatch'[k][m] # 0
        PROVE  Runs(k, m)'
    <3>1. CASE k = h /\ m = r.method
      BY <2>1, <2>2, <2>4, <2>5, <2>6, <3>1 DEF Runs
    <3>2. CASE ~(k = h /\ m = r.method)
      <4>1. dispatch'[k][m] = dispatch[k][m] /\ dispatch[k][m] \in 1..Len(objs)
        BY <2>1, <2>2, <2>7, <3>2
      <4>2. Runs(k, m)
        BY <1>1, <4>1 DEF DispatchPart
      <4>3. objs'[dispatch'[k][m]].code = objs[dispatch[k][m]].code
        BY <2>6, <4>1
      <4>. QED BY <1>2, <4>2, <4>3 DEF Runs
    <3>. QED BY <3>1, <3>2
  <2>8. ASSUME NEW i \in Seen(k)'
        PROVE  dispatch'[k][records'[i].method] # 0
    <3>1. CASE k = h /\ i = next[h]
      BY <2>1, <2>2, <3>1
    <3>2. CASE i \in Seen(k)
      <4>1. dispatch[k][records[i].method] # 0 /\ records[i].method \in Method
        BY <1>1, <1>2, <3>2 DEF DispatchPart
      <4>. QED BY <2>1, <2>2, <4>1
    <3>. QED BY <2>5, <2>8, <3>1, <3>2
  <2>. QED BY <2>7, <2>8
<1>4. CASE ~\E h \in Handler : Compile(h)
  <2>1. UNCHANGED <<objs, dispatch>>
    BY <1>4, OthersLeave
  <2>2. ~\E h \in Handler : Skip(h)
    BY <1>1, NothingTwice DEF Skip
  <2>3. next' = next
    BY <1>4, <2>2 DEF Next, vars, Register, RegisterFails, NewHandler, CompileFails,
                      HandlerReady, GenerateStub, Call
  <2>4. \A k \in Handler : Seen(k)' = Seen(k)
    BY <2>3 DEF Seen
  <2>. QED BY <1>1, <1>2, <2>1, <2>4 DEF DispatchPart, Runs
<1>. QED BY <1>3, <1>4

\* A type for which stubs were asked has the stub of one that was asked for
LEMMA StubStep ==
  ASSUME TypeOK, StubPart, [Next]_vars
  PROVE  StubPart'
<1>1. ASSUME NEW m \in Method, NEW t \in Type, GenerateStub(m, t) PROVE StubPart'
  <2>1. stubs' = [stubs EXCEPT ![t] = IF @ = None THEN m ELSE @]
        /\ asked' = asked \cup {<<m, t>>}
    BY <1>1 DEF GenerateStub
  <2>2. /\ stubs \in [Type -> Method \cup {None}] /\ asked \subseteq Method \X Type
        /\ None \notin Method
    BY NoneAssumption DEF TypeOK
  <2>3. \A u \in Type : stubs'[u] = IF u = t /\ stubs[t] = None THEN m ELSE stubs[u]
    BY <2>1, <2>2
  <2>4. \A u \in Type : stubs'[u] # None => <<stubs'[u], u>> \in asked'
    BY <2>1, <2>3 DEF StubPart
  <2>5. ASSUME NEW a \in asked' PROVE stubs'[a[2]] # None
    <3>1. CASE a \in asked
      BY <2>2, <2>3, <3>1 DEF StubPart
    <3>2. CASE a \notin asked
      <4>1. a[2] = t
        BY <2>1, <3>2
      <4>. QED BY <2>2, <2>3, <4>1
    <3>. QED BY <3>1, <3>2
  <2>. QED BY <2>4, <2>5 DEF StubPart
<1>2. CASE ~\E m \in Method, t \in Type : GenerateStub(m, t)
  <2>1. UNCHANGED <<stubs, asked>>
    BY <1>2 DEF Next, vars, Register, RegisterFails, NewHandler, Skip, CompileFails,
                Compile, HandlerReady, Call
  <2>. QED BY <2>1 DEF StubPart
<1>. QED BY <1>1, <1>2

\* A handler that is ready stays ready
LEMMA CallStep ==
  ASSUME TypeOK, CallPart, [Next]_vars
  PROVE  CallPart'
<1>1. \A h \in Handler : status[h] = "ready" => status'[h] = "ready"
  BY DEF Next, vars, Register, RegisterFails, NewHandler, Skip, CompileFails, Compile,
         HandlerReady, GenerateStub, Call, TypeOK
<1>2. ASSUME NEW m \in Method, NEW t \in Type, NEW h \in Handler, Call(m, t, h)
      PROVE  CallPart'
  BY <1>2 DEF Call, CallPart
<1>3. CASE ~\E m \in Method, t \in Type, h \in Handler : Call(m, t, h)
  <2>1. calls' = calls
    BY <1>3 DEF Next, vars, Register, RegisterFails, NewHandler, Skip, CompileFails,
                Compile, HandlerReady, GenerateStub
  <2>2. \A c \in calls : c.handler \in Handler
    BY DEF TypeOK
  <2>. QED BY <1>1, <2>1, <2>2 DEF CallPart
<1>. QED BY <1>2, <1>3

\* What a call ran is a fact about what its handler had seen, and that stays
LEMMA RunStep ==
  ASSUME TypeOK, DispatchPart, StubPart, CallPart, CallsRunRegistered, [Next]_vars
  PROVE  CallsRunRegistered'
<1>. DEFINE Right(c) == \/ c.ran = None /\ \A i \in Seen(c.handler) : records[i].method # c.method
                        \/ \E i \in Seen(c.handler) : /\ records[i].method = c.method
                                                      /\ records[i].func = c.ran
<1>1. ASSUME NEW c \in calls, \A a \in asked' : a[2] = c.type => a[1] = c.method, Distinct'
      PROVE  Right(c)'
  <2>1. Right(c)
    BY <1>1, RecordsStay DEF CallsRunRegistered
  <2>2. c.handler \in Handler /\ status[c.handler] = "ready"
    BY DEF CallPart, TypeOK
  <2>3. /\ Seen(c.handler)' = Seen(c.handler)
        /\ \A i \in Seen(c.handler) : records'[i] = records[i]
    BY <2>2, SeenStays, RecordsStay
  <2>. QED BY <2>1, <2>3
<1>2. ASSUME NEW m \in Method, NEW t \in Type, NEW h \in Handler, Call(m, t, h)
      PROVE  CallsRunRegistered'
  <2>. DEFINE o == dispatch[h][stubs[t]]
  <2>1. PICK new : new = [method |-> m, type |-> t, handler |-> h,
                          ran |-> IF o = 0 THEN None ELSE objs[o].code.func]
    OBVIOUS
  <2>2. /\ calls' = calls \cup {new} /\ <<m, t>> \in asked
        /\ UNCHANGED <<asked, records, next>>
    BY <1>2, <2>1 DEF Call
  <2>3. /\ new.method = m /\ new.type = t /\ new.handler = h
        /\ new.ran = IF o = 0 THEN None ELSE objs[o].code.func
    BY <2>1
  <2>4. ASSUME \A a \in asked : a[2] = t => a[1] = m, Distinct
        PROVE  Right(new)
    <3>1. stubs[t] = m
      BY <2>2, <2>4 DEF StubPart, TypeOK
    <3>2. /\ dispatch[h][m] # 0 => Runs(h, m)
          /\ \A i \in Seen(h) : dispatch[h][records[i].method] # 0
      BY <2>4 DEF DispatchPart
    <3>. QED BY <2>3, <3>1, <3>2 DEF Runs
  <2>5. (Right(new)' <=> Right(new)) /\ (Distinct' <=> Distinct)
    BY <2>2 DEF Seen, Distinct
  <2>6. (\A a \in asked' : a[2] = new.type => a[1] = new.method) /\ Distinct' => Right(new)'
    BY <2>2, <2>3, <2>4, <2>5
  <2>. HIDE DEF Right
  <2>7. \A c \in calls' :
          (\A a \in asked' : a[2] = c.type => a[1] = c.method) /\ Distinct' => Right(c)'
    BY <1>1, <2>2, <2>6
  <2>. QED BY <2>7 DEF CallsRunRegistered, Right
<1>3. CASE ~\E m \in Method, t \in Type, h \in Handler : Call(m, t, h)
  <2>1. calls' = calls
    BY <1>3 DEF Next, vars, Register, RegisterFails, NewHandler, Skip, CompileFails,
                Compile, HandlerReady, GenerateStub
  <2>. QED BY <1>1, <2>1 DEF CallsRunRegistered
<1>. QED BY <1>2, <1>3
-----------------------------------------------------------------------------
\* Nothing is registered, made, asked for or called at first
LEMMA Initial == Init => IInv
<1>. SUFFICES ASSUME Init PROVE IInv
  OBVIOUS
<1>1. TypeOK
  <2>1. /\ records \in Seq(Record) /\ objs \in Seq(Object) /\ Len(records) = 0 /\ Len(objs) = 0
        /\ serviceError \in BOOLEAN /\ asked = {} /\ calls = {}
    <3>1. /\ records = <<>> /\ objs = <<>> /\ serviceError = FALSE
          /\ asked = {} /\ calls = {}
      BY DEF Init
    <3>2. /\ <<>> \in Seq(Record) /\ <<>> \in Seq(Object) /\ Len(<<>>) = 0
      OBVIOUS
    <3>. QED BY <3>1, <3>2
  <2>2. /\ status \in [Handler -> {"none", "compiling", "ready", "failed"}]
        /\ next \in [Handler -> Nat \ {0}] /\ \A h \in Handler : next[h] = 1
        /\ code \in [Handler -> [Type -> Skeleton \cup {None}]]
        /\ links \in [Handler -> [Type -> Func \cup {None}]]
        /\ stubs \in [Type -> Method \cup {None}]
    BY DEF Init
  <2>3. 0..Len(objs) = {0}
    BY <2>1
  <2>4. /\ dispatch \in [Handler -> [Method -> 0..Len(objs)]]
        /\ objMap \in [Handler -> [Func -> 0..Len(objs)]]
    BY <2>3 DEF Init
  <2>5. \A h \in Handler : next[h] <= Len(records) + 1
    BY <2>1, <2>2
  <2>. QED BY <2>1, <2>2, <2>4, <2>5 DEF TypeOK
<1>2. \A h \in Handler : Seen(h) = {}
  BY DEF Init, Seen
<1>3. \A h \in Handler : /\ \A m \in Method : dispatch[h][m] = 0
                         /\ \A f \in Func : objMap[h][f] = 0
                         /\ \A t \in Type : links[h][t] = None /\ code[h][t] = None
  BY DEF Init
<1>4. asked = {} /\ calls = {}
  BY DEF Init
<1>5. DispatchIsAlive /\ Unshared /\ KnownPart /\ LinkPart /\ CodePart
  BY <1>3 DEF DispatchIsAlive, Unshared, KnownPart, LinkPart, CodePart
<1>6. DispatchPart
  BY <1>2, <1>3 DEF DispatchPart
<1>7. StubPart /\ CallPart /\ CallsRunRegistered
  <2>1. \A t \in Type : stubs[t] = None
    BY DEF Init
  <2>. QED BY <1>4, <2>1 DEF StubPart, CallPart, CallsRunRegistered
<1>. QED BY <1>1, <1>5, <1>6, <1>7 DEF IInv

\* The inductive invariant: what the maps and the generated code of a handler hold
\* comes from records it has seen, entries of dispatchMap_ share no object, and
\* when nothing is registered twice every one of them runs its own function
THEOREM Invariance == Spec => []IInv
<1>1. IInv /\ [Next]_vars => IInv'
  <2>. SUFFICES ASSUME IInv, [Next]_vars PROVE IInv'
    OBVIOUS
  <2>1. /\ TypeOK /\ DispatchIsAlive /\ Unshared /\ KnownPart /\ LinkPart /\ CodePart
        /\ DispatchPart /\ StubPart /\ CallPart /\ CallsRunRegistered
    BY DEF IInv
  <2>2. TypeOK'
    BY <2>1, TypeStep
  <2>3. DispatchIsAlive' /\ Unshared'
    BY <2>1, AliveStep
  <2>4. KnownPart' /\ LinkPart' /\ CodePart'
    BY <2>1, MapsStep
  <2>5. DispatchPart'
    BY <2>1, DispatchStep
  <2>6. StubPart' /\ CallPart'
    BY <2>1, StubStep, CallStep
  <2>7. CallsRunRegistered'
    BY <2>1, RunStep
  <2>. QED BY <2>2, <2>3, <2>4, <2>5, <2>6, <2>7 DEF IInv
<1>. QED BY Initial, <1>1, PTL DEF Spec

\* Every state is well typed: no entry of the dispatch maps and of the maps of
\* functions leads behind the objects that were allocated
THEOREM TypeCorrect == Spec => []TypeOK
<1>1. IInv => TypeOK
  BY DEF IInv
<1>. QED BY Invariance, <1>1, PTL

\* A method never leads to an object that was destroyed, however often methods and
\* functions are registered (Network.cpp:999)
THEOREM MethodsStayAlive == Spec => []DispatchIsAlive
<1>1. IInv => DispatchIsAlive
  BY DEF IInv
<1>. QED BY Invariance, <1>1, PTL

\* A call runs a function that was registered for its method, or none if there is
\* none, when no native type is used for two methods and nothing is registered twice
THEOREM CallsReachTheirFunction == Spec => []CallsRunRegistered
<1>1. IInv => CallsRunRegistered
  BY DEF IInv
<1>. QED BY Invariance, <1>1, PTL
=============================================================================
