--------------------------- MODULE OpeningProofs ---------------------------
(* What every reachable state of Opening satisfies, whatever documents and
   configurations there are: the module of a context and the documents of its
   connections agree, documents are disjoint, and the endpoint that was chosen is
   a best one.                                                                *)
EXTENDS Opening, FiniteSetTheorems, TLAPS

\* What a definition binds its name to
Meaning(d) == [def |-> d.def, complete |-> ~d.untyped]

\* The first k definitions of a document are bound in x as the document has them
BoundUpTo(m, x, d, k) ==
  \A i \in 1..k : /\ i \in DOMAIN d
                  /\ Binds(d[i]) => m[x][d[i].name] = Meaning(d[i])

\* No name of the connections of x is among the first k of a document
DisjointUpTo(x, d, k) ==
  \A c \in conns : c.ctx = x =>
    \A j \in DOMAIN c.doc : \A i \in 1..k :
      Binds(c.doc[j]) /\ Binds(d[i]) => c.doc[j].name # d[i].name

\* A definition, of a type or of nothing
Defines == Define \/ DefineNothing

\* Where the constructor of a connection is before the servers are looked at
Early == {"load", "connect", "receive", "parse"}

\* The constructor has got through the document without an error
Through == \/ call.pc \in {"endpoints", "component", "transport"}
           \/ call.pc = "return" /\ call.env /\ call.err = "none"

ParsedPart ==
  call.pc # "idle" /\ ~call.faults =>
    /\ BoundUpTo(module, call.ctx, call.doc, call.item - 1)
    /\ DisjointUpTo(call.ctx, call.doc, call.item - 1)

WholeDocument == Through => ~call.faults /\ call.item = Len(call.doc) + 1

Beginning ==
  /\ call.pc \in {"connect", "receive"} => call.item = 1 /\ call.doc = <<>>
  /\ call.pc \in Early => call.at = 1 /\ call.chosen = 0
  /\ call.pc = "load" => ~call.env

\* The choice among the first k servers
Best(s, chosen, k) ==
  /\ chosen # 0 => chosen \in 1..k /\ Known(s[chosen])
  /\ \A i \in 1..k : Known(s[i]) =>
       chosen # 0 /\ Priority[s[chosen].transport] <= Priority[s[i].transport]

ChosenPart ==
  /\ call.pc # "idle" => call.at <= Len(call.servers) + 1
                         /\ Best(call.servers, call.chosen, call.at - 1)
  /\ Through /\ call.pc # "endpoints" =>
       call.chosen # 0 /\ call.at = Len(call.servers) + 1

IInv == /\ TypeOK /\ ParsedPart /\ WholeDocument /\ Beginning /\ ChosenPart
        /\ SpeaksItsIdl /\ NamesAreTakenOnce /\ BestEndpoint
-----------------------------------------------------------------------------
\* A call that begins
LEMMA IdleType == Idle \in Call
<1>1. <<>> \in Seq(Item) /\ <<>> \in Seq(Entry)
  OBVIOUS
<1>2. "idle" \in Steps /\ None \in Context \cup {None} /\ "none" \in Errors
  BY DEF Steps, Errors
<1>3. 1 \in Nat \ {0} /\ 0 \in Nat /\ FALSE \in BOOLEAN
  OBVIOUS
<1>. HIDE DEF Steps, Item, Entry
<1>. QED BY <1>1, <1>2, <1>3, Zenon DEF Idle, Call

\* Who has an environment and a URL loader: the counts, room for the connection
\* that is being made, and what its constructor has at each step
OwnersPart ==
  /\ LoadersAreOwned /\ IsFiniteSet(conns)
  /\ call.env => Cardinality(conns) < MaxConns
  /\ call.loader => call.env
  /\ call.pc \in {"idle", "load"} => ~call.env
  /\ call.pc = "connect" => call.env /\ ~call.loader
  /\ call.pc = "receive" => call.env /\ call.loader

LEMMA BeginType ==
  ASSUME NEW p \in Steps, NEW x \in Context, NEW d \in Seq(Item)
  PROVE  /\ [Idle EXCEPT !.pc = p, !.ctx = x, !.doc = d] \in Call
         /\ [Idle EXCEPT !.pc = p, !.ctx = x, !.env = TRUE] \in Call
         /\ [Idle EXCEPT !.pc = p, !.ctx = x, !.env = TRUE, !.err = "init"] \in Call
  BY IdleType DEF Call, Errors

\* So does a call that goes on to another step
LEMMA ChangeType ==
  ASSUME NEW r \in Call, NEW q \in Steps
  PROVE  [r EXCEPT !.pc = q] \in Call /\ [r EXCEPT !.pc = q].ctx = r.ctx
BY DEF Call

LEMMA ChangeLoader ==
  ASSUME NEW r \in Call, NEW q \in Steps
  PROVE  /\ [r EXCEPT !.pc = q, !.loader = TRUE] \in Call
         /\ [r EXCEPT !.pc = q, !.loader = TRUE].ctx = r.ctx
<1>1. [r EXCEPT !.pc = q, !.loader = TRUE] \in Call
  BY DEF Call
<1>2. [r EXCEPT !.pc = q, !.loader = TRUE].ctx = r.ctx
  BY DEF Call
<1>. QED BY <1>1, <1>2

LEMMA ChangeError ==
  ASSUME NEW r \in Call, NEW q \in Steps, NEW e \in Errors
  PROVE  /\ [r EXCEPT !.pc = q, !.err = e] \in Call
         /\ [r EXCEPT !.pc = q, !.err = e].ctx = r.ctx
<1>1. [r EXCEPT !.pc = q, !.err = e] \in Call
  BY DEF Call
<1>2. [r EXCEPT !.pc = q, !.err = e].ctx = r.ctx
  BY DEF Call
<1>. QED BY <1>1, <1>2

LEMMA ChangeEnd ==
  ASSUME NEW r \in Call, NEW q \in Steps, NEW e \in Errors
  PROVE  /\ [r EXCEPT !.pc = q, !.err = e, !.loader = FALSE] \in Call
         /\ [r EXCEPT !.pc = q, !.err = e, !.loader = FALSE].ctx = r.ctx
<1>1. [r EXCEPT !.pc = q, !.err = e, !.loader = FALSE] \in Call
  BY DEF Call
<1>2. [r EXCEPT !.pc = q, !.err = e, !.loader = FALSE].ctx = r.ctx
  BY DEF Call
<1>. QED BY <1>1, <1>2

\* Type correctness is inductive
LEMMA TypeStep == TypeOK /\ [Next]_vars => TypeOK'
<1>. SUFFICES ASSUME TypeOK, [Next]_vars PROVE TypeOK'
  OBVIOUS
<1>. DEFINE Same == module' = module /\ conns' \subseteq conns
<1>1. ASSUME Same, call' \in Call, call'.pc # "idle" => call'.ctx \in Context
      PROVE  TypeOK'
  BY <1>1 DEF TypeOK
<1>2. CASE UNCHANGED <<module, call, conns>>
  BY <1>2 DEF TypeOK
<1>3. CASE Initialize \/ \E x \in Context : NewContext(x) \/ FreeContext(x) \/ ClearError(x)
  BY <1>2, <1>3 DEF Initialize, NewContext, FreeContext, ClearError
<1>4. ASSUME NEW x \in Context, NEW d \in Document, LoadServiceIDL(x, d) PROVE TypeOK'
  <2>1. call' = [Idle EXCEPT !.pc = "load", !.ctx = x, !.doc = d] /\ Same
    BY <1>4 DEF LoadServiceIDL
  <2>2. "load" \in Steps /\ d \in Seq(Item)
    BY DocumentAssumption DEF Steps
  <2>3. [Idle EXCEPT !.pc = "load", !.ctx = x, !.doc = d] \in Call
    BY <2>2, BeginType
  <2>4. call'.ctx = x
    BY <2>1 DEF Idle
  <2>. QED BY <1>1, <2>1, <2>3, <2>4
<1>5. ASSUME NEW x \in Context, OpenConnection(x) PROVE TypeOK'
  <2>1. /\ \/ call' = [Idle EXCEPT !.pc = "connect", !.ctx = x, !.env = TRUE]
           \/ call' = [Idle EXCEPT !.pc = "return", !.ctx = x, !.env = TRUE, !.err = "init"]
        /\ Same
    BY <1>5 DEF OpenConnection
  <2>2. "connect" \in Steps /\ "return" \in Steps /\ <<>> \in Seq(Item)
    BY DEF Steps
  <2>3. /\ [Idle EXCEPT !.pc = "connect", !.ctx = x, !.env = TRUE] \in Call
        /\ [Idle EXCEPT !.pc = "return", !.ctx = x, !.env = TRUE, !.err = "init"] \in Call
    BY <2>2, BeginType
  <2>4. call'.ctx = x
    BY <2>1 DEF Idle
  <2>5. call' \in Call
    BY <2>1, <2>3
  <2>. QED BY <1>1, <2>1, <2>4, <2>5
<1>6. CASE Connect \/ ReceiveNothing \/ Parsed \/ Chosen \/ Load \/ OpenTransport
  <2>. DEFINE Moved == Same /\ call' \in Call /\ call'.ctx = call.ctx
  <2>a. call \in Call /\ (call.pc # "idle" => call.ctx \in Context)
    BY DEF TypeOK
  <2>b. {"receive", "return", "endpoints", "component", "transport"} \subseteq Steps
    BY DEF Steps
  <2>c. {"none", "connection", "network", "operation", "init"} \subseteq Errors
    BY DEF Errors
  <2>d. Same /\ call.pc # "idle"
    BY <1>6 DEF Connect, ReceiveNothing, Parsed, Chosen, Load, OpenTransport, Parsing, At
  <2>. HIDE DEF Same
  <2>e. ASSUME call' = call PROVE Moved
    BY <2>a, <2>d, <2>e
  <2>f. ASSUME NEW q \in {"return", "endpoints", "component", "transport"},
               call' = [call EXCEPT !.pc = q]
        PROVE  Moved
    <3>1. q \in Steps
      BY <2>b
    <3>. QED BY <2>a, <2>d, <2>f, <3>1, ChangeType
  <2>g. ASSUME NEW e \in {"connection", "operation", "init"}, FailWith(e)
        PROVE  Moved
    <3>1. "return" \in Steps /\ e \in Errors
      BY <2>b, <2>c
    <3>2. call' = [call EXCEPT !.pc = "return", !.err = e]
      BY <2>g DEF FailWith
    <3>. QED BY <2>a, <2>d, <3>1, <3>2, ChangeError
  <2>h. ASSUME NEW e \in {"none", "network"}, NEW b \in BOOLEAN,
               call' = [call EXCEPT !.pc = "return", !.err = e, !.session = b]
        PROVE  Moved
    <3>1. "return" \in Steps /\ e \in Errors
      BY <2>b, <2>c
    <3>. DEFINE new == [call EXCEPT !.pc = "return", !.err = e, !.session = b]
    <3>2. new \in Call
      BY <2>a, <3>1 DEF Call
    <3>3. new.ctx = call.ctx
      BY <2>a DEF Call
    <3>. QED BY <2>d, <2>h, <3>2, <3>3
  <2>1. ASSUME Connect PROVE Moved
    <3>1. CASE call' = [call EXCEPT !.pc = "receive", !.loader = TRUE]
      <4>1. "receive" \in Steps
        BY <2>b
      <4>. QED BY <2>a, <2>d, <3>1, <4>1, ChangeLoader
    <3>. QED BY <2>1, <2>e, <3>1 DEF Connect
  <2>2. ASSUME ReceiveNothing PROVE Moved
    <3>1. call' = [call EXCEPT !.pc = "return", !.err = "connection", !.loader = FALSE]
      BY <2>2 DEF ReceiveNothing
    <3>2. "return" \in Steps /\ "connection" \in Errors
      BY <2>b, <2>c
    <3>. QED BY <2>a, <2>d, <3>1, <3>2, ChangeEnd
  <2>. HIDE DEF Moved
  <2>3. ASSUME Parsed \/ Chosen \/ Load PROVE Moved
    <3>1. \/ \E q \in {"return", "endpoints", "component", "transport"} :
               call' = [call EXCEPT !.pc = q]
          \/ \E e \in {"connection", "operation", "init"} : FailWith(e)
      BY <2>3 DEF Parsed, Chosen, Load
    <3>. QED BY <3>1, <2>f, <2>g
  <2>4. ASSUME OpenTransport PROVE Moved
    <3>1. \/ \E e \in {"none", "network"}, b \in BOOLEAN :
               call' = [call EXCEPT !.pc = "return", !.err = e, !.session = b]
          \/ call' = call
      BY <2>4 DEF OpenTransport
    <3>. QED BY <3>1, <2>e, <2>h
  <2>5. Moved
    BY <1>6, <2>1, <2>2, <2>3, <2>4
  <2>. QED BY <1>1, <2>a, <2>d, <2>5 DEF Moved
<1>7. ASSUME NEW c \in Config, ReceiveNoIDL(c) PROVE TypeOK'
  <2>1. /\ Same /\ call.pc # "idle" /\ call \in Call /\ "return" \in Steps
        /\ "connection" \in Errors
        /\ call' = [call EXCEPT !.pc = "return", !.err = "connection"]
    BY <1>7 DEF ReceiveNoIDL, FailWith, At, Steps, Errors, TypeOK
  <2>2. call' \in Call /\ call'.ctx = call.ctx
    BY <2>1 DEF Call
  <2>. QED BY <1>1, <2>1, <2>2 DEF TypeOK
<1>8. ASSUME NEW c \in Config, NEW n \in 0..Len(c.servers), Receive(c, n) PROVE TypeOK'
  <2>1. c.doc \in Seq(Item) /\ SubSeq(c.servers, 1, n) \in Seq(Entry)
    BY ConfigAssumption
  <2>2. /\ Same /\ call.pc # "idle" /\ call \in Call /\ "parse" \in Steps
        /\ call' = [call EXCEPT !.pc = "parse", !.doc = c.doc,
                                !.servers = SubSeq(c.servers, 1, n)]
    BY <1>8 DEF Receive, At, Steps, TypeOK
  <2>3. call' \in Call /\ call'.ctx = call.ctx
    BY <2>1, <2>2 DEF Call
  <2>. QED BY <1>1, <2>2, <2>3 DEF TypeOK
<1>9. CASE Garbled \/ Consider \/ DefineNothing
  <2>1. call \in Call /\ call.pc # "idle" /\ Same
    BY <1>9 DEF Garbled, Consider, DefineNothing, At, Parsing, TypeOK
  <2>2. /\ call.item + 1 \in Nat \ {0} /\ Len(call.doc) + 1 \in Nat \ {0}
        /\ call.at + 1 \in Nat \ {0} /\ call.at \in Nat /\ call.chosen \in Nat
    BY <2>1 DEF Call
  <2>a. (call.faults \/ ~Found) \in BOOLEAN
    BY <2>1 DEF Call
  <2>3. \/ \E k \in Nat \ {0} : call' = [call EXCEPT !.faults = TRUE, !.item = k]
        \/ \E k \in Nat \ {0}, m \in Nat : call' = [call EXCEPT !.at = k, !.chosen = m]
        \/ call' = [call EXCEPT !.item = call.item + 1, !.faults = call.faults \/ ~Found]
    BY <1>9, <2>2 DEF Garbled, Consider, DefineNothing
  <2>4. call' \in Call /\ call'.ctx = call.ctx
    BY <2>1, <2>2, <2>a, <2>3 DEF Call
  <2>. QED BY <1>1, <2>1, <2>4 DEF TypeOK
<1>10. CASE Define
  <2>1. /\ Current \in Item /\ call.ctx \in Context /\ call \in Call
        /\ call.pc # "idle" /\ conns' = conns
    BY <1>10 DEF Define, Current, Parsing, At, TypeOK, Call
  <2>2. PICK b \in BOOLEAN : Bind(Current, b)
    BY <1>10 DEF Define, Found
  <2>3. \E k \in Nat \ {0}, f \in BOOLEAN : call' = [call EXCEPT !.item = k, !.faults = f]
    <3>1. call.item + 1 \in Nat \ {0} /\ call.faults \in BOOLEAN
      BY <2>1 DEF Call
    <3>. QED BY <2>2, <3>1 DEF Bind
  <2>4. call' \in Call /\ call'.ctx = call.ctx
    BY <2>1, <2>3 DEF Call
  <2>5. module' \in [Context -> [Name -> Bindings]]
    <3>1. module \in [Context -> [Name -> Bindings]] /\ Current.name \in Name
      BY <2>1 DEF TypeOK, Item
    <3>2. [def |-> Current.def, complete |-> b /\ ~Current.untyped] \in Bindings
      BY <2>1, <2>2 DEF Item, Bindings
    <3>. QED BY <2>1, <2>2, <3>1, <3>2 DEF Bind
  <2>. QED BY <2>1, <2>4, <2>5 DEF TypeOK
<1>11. CASE LoadReturns \/ OpenFails
  <2>1. Same /\ call' = Idle
    BY <1>11 DEF LoadReturns, OpenFails
  <2>. QED BY <1>1, <2>1, IdleType DEF Idle
<1>12. CASE OpenReturns
  <2>1. /\ module' = module /\ call' = Idle /\ conns' = conns \cup {Opened}
        /\ call \in Call /\ call.ctx \in Context
    BY <1>12 DEF OpenReturns, At, TypeOK
  <2>2. /\ Opened.ctx \in Context /\ Opened.doc \in Seq(Item)
        /\ Opened.servers \in Seq(Entry) /\ Opened.chosen \in Nat
    BY <2>1 DEF Opened, Call
  <2>3. call'.pc = "idle"
    BY <2>1 DEF Idle
  <2>. QED BY <2>1, <2>2, <2>3, IdleType DEF TypeOK
<1>13. ASSUME NEW c \in conns, Close(c) PROVE TypeOK'
  BY <1>13 DEF Close, TypeOK
<1>. QED
  BY <1>1, <1>2, <1>3, <1>4, <1>5, <1>6, <1>7, <1>8, <1>9, <1>10, <1>11,
     <1>12, <1>13 DEF Next, ApiCall, Work, Answer, vars
-----------------------------------------------------------------------------
(* The steps, by what they do to the parts of the state the invariant is about *)

\* Neither the call nor the modules change, and no connection is added
Kept == module' = module /\ call' = call /\ conns' \subseteq conns

\* A call begins
Begins ==
  /\ module' = module /\ conns' = conns
  /\ call'.pc \in {"load", "connect", "return"}
  /\ call'.item = 1
  /\ IF call'.pc = "load" THEN ~call'.env ELSE call'.doc = <<>>
  /\ call'.at = 1 /\ call'.chosen = 0 /\ call'.servers = <<>>
  /\ call'.pc = "return" => call'.err # "none"

\* A call comes back to the program without a connection
Ends == module' = module /\ conns' = conns /\ call' = Idle

\* The constructor goes on, or gives up, with what it has found so far
Moves ==
  /\ module' = module /\ conns' = conns
  /\ call.pc # "idle" /\ call'.pc # "idle"
  /\ call'.ctx = call.ctx /\ call'.doc = call.doc /\ call'.item = call.item
  /\ call'.faults = call.faults /\ call'.servers = call.servers
  /\ call'.at = call.at /\ call'.chosen = call.chosen /\ call'.env = call.env
  /\ call'.pc \in Early => call.pc = "connect" /\ call'.pc = "receive"
  /\ Through' => Through \/ (~call.faults /\ call.item > Len(call.doc))
  /\ Through' /\ call'.pc # "endpoints" =>
       \/ Through /\ call.pc # "endpoints"
       \/ call.chosen # 0 /\ call.at > Len(call.servers)

LEMMA StepKinds ==
  ASSUME TypeOK, Beginning, [Next]_vars
  PROVE  \/ Kept \/ Begins \/ Ends \/ Moves \/ OpenReturns \/ Defines \/ Garbled
         \/ Consider \/ \E c \in Config : \E n \in 0..Len(c.servers) : Receive(c, n)
<1>. call \in Call
  BY DEF TypeOK
<1>1. CASE UNCHANGED vars \/ Initialize \/ \E c \in conns : Close(c)
  BY <1>1 DEF vars, Initialize, Close, Kept
<1>2. ASSUME NEW x \in Context, NewContext(x) \/ FreeContext(x) \/ ClearError(x)
      PROVE  Kept
  BY <1>2 DEF NewContext, FreeContext, ClearError, Kept
<1>3. ASSUME NEW x \in Context, NEW d \in Document, LoadServiceIDL(x, d) PROVE Begins
  BY <1>3 DEF LoadServiceIDL, Idle, Begins
<1>4. ASSUME NEW x \in Context, OpenConnection(x) PROVE Begins
  <2>1. module' = module /\ conns' = conns
    BY <1>4 DEF OpenConnection
  <2>2. CASE call' = [Idle EXCEPT !.pc = "connect", !.ctx = x, !.env = TRUE]
    BY <2>1, <2>2 DEF Begins, Idle
  <2>3. CASE call' = [Idle EXCEPT !.pc = "return", !.ctx = x, !.env = TRUE, !.err = "init"]
    BY <2>1, <2>3 DEF Begins, Idle
  <2>. QED BY <1>4, <2>2, <2>3 DEF OpenConnection
<1>5. CASE Connect
  BY <1>5 DEF Connect, At, Kept, Moves, Early, Through, Call
<1>6. CASE ReceiveNothing \/ \E c \in Config : ReceiveNoIDL(c)
  <2>1. CASE ReceiveNothing
    BY <2>1 DEF ReceiveNothing, At, Moves, Early, Through, Call
  <2>2. ASSUME NEW c \in Config, ReceiveNoIDL(c) PROVE Moves
    BY <2>2 DEF ReceiveNoIDL, FailWith, At, Moves, Early, Through, Call
  <2>. QED BY <1>6, <2>1, <2>2
<1>7. CASE Parsed
  <2>1. ASSUME Accepted,
               call' = [call EXCEPT !.pc = IF @ = "load" THEN "return" ELSE "endpoints"]
        PROVE  Moves
    BY <1>7, <2>1 DEF Parsed, Accepted, At, Parsing, Moves, Early, Through, Call, Beginning
  <2>2. ASSUME NEW e \in {"operation", "connection"}, FailWith(e)
        PROVE  Moves
    BY <1>7, <2>2 DEF Parsed, FailWith, At, Parsing, Moves, Early, Through, Call
  <2>. QED BY <1>7, <2>1, <2>2 DEF Parsed
<1>8. CASE Chosen
  BY <1>8 DEF Chosen, FailWith, At, Moves, Early, Through, Call
<1>9. CASE Load
  <2>1. CASE call' = [call EXCEPT !.pc = "transport"]
    BY <1>9, <2>1 DEF Load, At, Moves, Early, Through, Call
  <2>2. ASSUME NEW e \in {"connection", "init"}, FailWith(e) PROVE Moves
    BY <1>9, <2>2 DEF Load, FailWith, At, Moves, Early, Through, Call
  <2>. QED BY <1>9, <2>1, <2>2 DEF Load
<1>10. CASE OpenTransport
  <2>1. ASSUME NEW e \in {"none", "network"}, NEW b \in BOOLEAN,
               call' = [call EXCEPT !.pc = "return", !.err = e, !.session = b]
        PROVE  Moves
    BY <1>10, <2>1 DEF OpenTransport, At, Moves, Early, Through, Call
  <2>2. CASE call' = call
    BY <1>10, <2>2 DEF OpenTransport, Kept
  <2>. QED BY <1>10, <2>1, <2>2 DEF OpenTransport
<1>11. CASE LoadReturns \/ OpenFails
  BY <1>11 DEF LoadReturns, OpenFails, Ends
<1>. QED
  BY <1>1, <1>2, <1>3, <1>4, <1>5, <1>6, <1>7, <1>8, <1>9, <1>10, <1>11
     DEF Next, ApiCall, Work, Answer, Defines
-----------------------------------------------------------------------------
\* What a definition does that brings no fault: its name was free, and is bound to
\* it, unless it is one that binds nothing
LEMMA DefineEffect ==
  ASSUME TypeOK, Defines
  PROVE  /\ call.ctx \in Context /\ call.item \in DOMAIN call.doc
         /\ conns' = conns /\ call.pc # "idle"
         /\ call'.pc = call.pc /\ call'.ctx = call.ctx /\ call'.doc = call.doc
         /\ call'.servers = call.servers /\ call'.at = call.at /\ call'.env = call.env
         /\ call'.chosen = call.chosen /\ call'.err = call.err
         /\ call'.item = call.item + 1 /\ (call.faults => call'.faults)
         /\ call.pc \in {"parse", "load"}
         /\ \A x \in Context, n \in Name : module[x][n] # None => module'[x][n] = module[x][n]
         /\ ~call'.faults /\ Binds(Current) =>
              /\ module[call.ctx][Current.name] = None
              /\ module'[call.ctx][Current.name] = Meaning(Current)
<1>1. /\ call \in Call /\ call.ctx \in Context /\ call.item \in DOMAIN call.doc
      /\ call.pc \in {"parse", "load"} /\ conns' = conns
      /\ module \in [Context -> [Name -> Bindings]]
  BY DEF Defines, Define, DefineNothing, Parsing, At, TypeOK, Call
<1>2. Current \in Item /\ Current.name \in Name
  <2>1. Current \in Item
    BY <1>1 DEF Current, Call
  <2>. QED BY <2>1 DEF Item
<1>3. CASE DefineNothing
  <2>1. /\ call' = [call EXCEPT !.item = @ + 1, !.faults = @ \/ ~Found]
        /\ module' = module /\ Current.kind = "typedef" /\ (~Found \/ Current.untyped)
    BY <1>3 DEF DefineNothing
  <2>2. ~call'.faults => Found
    BY <1>1, <2>1 DEF Call
  <2>3. ~call'.faults => ~Binds(Current)
    BY <2>1, <2>2 DEF Binds
  <2>4. /\ call'.pc = call.pc /\ call'.ctx = call.ctx /\ call'.doc = call.doc
        /\ call'.servers = call.servers /\ call'.at = call.at /\ call'.env = call.env
        /\ call'.chosen = call.chosen /\ call'.err = call.err
        /\ call'.item = call.item + 1 /\ (call.faults => call'.faults)
    BY <1>1, <2>1 DEF Call
  <2>. QED BY <1>1, <2>1, <2>3, <2>4
<1>4. CASE Define /\ Bound(Current.name)
  <2>1. call' = [call EXCEPT !.item = @ + 1, !.faults = TRUE] /\ module' = module
    BY <1>4 DEF Define, Bind
  <2>. QED BY <1>1, <2>1 DEF Call
<1>5. CASE Define /\ ~Bound(Current.name)
  <2>1. /\ call' = [call EXCEPT !.item = @ + 1, !.faults = @ \/ ~Found]
        /\ module' = [module EXCEPT ![call.ctx][Current.name] =
                        [def |-> Current.def, complete |-> Found /\ ~Current.untyped]]
        /\ module[call.ctx][Current.name] = None
    BY <1>5 DEF Define, Bind, Bound
  <2>2. \A x \in Context, n \in Name : module[x][n] # None => module'[x][n] = module[x][n]
    BY <1>1, <1>2, <2>1
  <2>3. ~call'.faults => Found
    BY <1>1, <2>1 DEF Call
  <2>4. module'[call.ctx][Current.name] =
          [def |-> Current.def, complete |-> Found /\ ~Current.untyped]
    BY <1>1, <1>2, <2>1
  <2>a. ~call'.faults => module'[call.ctx][Current.name] = Meaning(Current)
    <3>1. ASSUME Found PROVE (Found /\ ~Current.untyped) = ~Current.untyped
      BY <3>1, Zenon
    <3>. QED BY <2>3, <2>4, <3>1, Zenon DEF Meaning
  <2>5. /\ call'.pc = call.pc /\ call'.ctx = call.ctx /\ call'.doc = call.doc
        /\ call'.servers = call.servers /\ call'.at = call.at /\ call'.env = call.env
        /\ call'.chosen = call.chosen /\ call'.err = call.err
        /\ call'.item = call.item + 1 /\ (call.faults => call'.faults)
    BY <1>1, <2>1 DEF Call
  <2>. QED BY <1>1, <2>1, <2>2, <2>a, <2>5
<1>. QED BY <1>3, <1>4, <1>5 DEF Defines

\* A name that a document has defined is a name that is bound
LEMMA DefinedIsBound ==
  ASSUME NEW m, NEW x, NEW e \in Item, m[x][e.name] = Meaning(e)
  PROVE  m[x][e.name] # None
<1>1. [def |-> e.def, complete |-> ~e.untyped] \in [def : Int, complete : BOOLEAN]
  BY DEF Item
<1>. QED BY <1>1, NoneAssumption DEF Meaning

LEMMA ParsedStep ==
  ASSUME IInv, TypeOK', [Next]_vars PROVE ParsedPart'
<1>. USE DEF IInv
<1>. SUFFICES ASSUME call'.pc # "idle", ~call'.faults
     PROVE  /\ BoundUpTo(module, call.ctx, call.doc, call.item - 1)'
            /\ DisjointUpTo(call.ctx, call.doc, call.item - 1)'
  BY DEF ParsedPart
<1>a. call \in Call /\ call' \in Call /\ \A c \in conns : c.ctx \in Context /\ c.doc \in Seq(Item)
  BY DEF TypeOK
<1>1. CASE Kept \/ Moves
  BY <1>1 DEF Kept, Moves, ParsedPart, BoundUpTo, DisjointUpTo
<1>2. CASE Begins
  BY <1>2 DEF Begins, BoundUpTo, DisjointUpTo
<1>3. CASE Ends \/ OpenReturns
  BY <1>3 DEF Ends, OpenReturns, Idle
<1>4. CASE Defines
  <2>1. ~call.faults /\ call.pc # "idle"
    BY <1>4, DefineEffect
  <2>2. /\ BoundUpTo(module, call.ctx, call.doc, call.item - 1)
        /\ DisjointUpTo(call.ctx, call.doc, call.item - 1)
    BY <2>1 DEF ParsedPart
  <2>3. Current \in Item /\ Current = call.doc[call.item] /\ call.doc \in Seq(Item)
        /\ call.item \in Nat \ {0}
    BY <1>4, <1>a, DefineEffect DEF Current, Call
  <2>4. ASSUME NEW i \in 1..call.item
        PROVE  i \in DOMAIN call.doc /\
               (Binds(call.doc[i]) => module'[call.ctx][call.doc[i].name] = Meaning(call.doc[i]))
    <3>1. CASE i = call.item
      BY <1>4, <2>3, <3>1, DefineEffect
    <3>2. CASE i # call.item
      <4>1. /\ i \in DOMAIN call.doc
            /\ Binds(call.doc[i]) => module[call.ctx][call.doc[i].name] = Meaning(call.doc[i])
        BY <2>2, <2>3, <3>2 DEF BoundUpTo
      <4>2. call.doc[i] \in Item /\ call.doc[i].name \in Name
        <5>1. call.doc[i] \in Item
          BY <2>3, <4>1
        <5>. QED BY <5>1 DEF Item
      <4>3. Binds(call.doc[i]) => module[call.ctx][call.doc[i].name] # None
        BY <4>1, <4>2, DefinedIsBound
      <4>. QED BY <1>4, <4>1, <4>2, <4>3, DefineEffect
    <3>. QED BY <3>1, <3>2
  <2>5. ASSUME NEW c \in conns, c.ctx = call.ctx, NEW j \in DOMAIN c.doc, NEW i \in 1..call.item,
               Binds(c.doc[j]), Binds(call.doc[i])
        PROVE  c.doc[j].name # call.doc[i].name
    <3>1. CASE i = call.item
      <4>1. c.doc[j] \in Item
        BY <1>a
      <4>2. module[call.ctx][c.doc[j].name] = Meaning(c.doc[j])
        BY <2>5 DEF SpeaksItsIdl, Meaning
      <4>3. module[call.ctx][c.doc[j].name] # None
        BY <4>1, <4>2, DefinedIsBound
      <4>4. module[call.ctx][Current.name] = None
        BY <1>4, <2>3, <2>5, <3>1, DefineEffect
      <4>. QED BY <2>3, <3>1, <4>3, <4>4
    <3>2. CASE i # call.item
      BY <2>2, <2>3, <2>5, <3>2 DEF DisjointUpTo
    <3>. QED BY <3>1, <3>2
  <2>6. /\ call'.ctx = call.ctx /\ call'.doc = call.doc /\ conns' = conns
        /\ call'.item - 1 = call.item
    BY <1>4, <2>3, DefineEffect
  <2>. QED BY <2>4, <2>5, <2>6 DEF BoundUpTo, DisjointUpTo
<1>5. CASE Garbled
  BY <1>5, <1>a DEF Garbled, Call
<1>6. ASSUME NEW c \in Config, NEW n \in 0..Len(c.servers), Receive(c, n)
      PROVE  /\ BoundUpTo(module, call.ctx, call.doc, call.item - 1)'
             /\ DisjointUpTo(call.ctx, call.doc, call.item - 1)'
  <2>1. call'.item = 1
    BY <1>6, <1>a DEF Receive, At, Beginning, Call
  <2>. QED BY <2>1 DEF BoundUpTo, DisjointUpTo
<1>7. CASE Consider
  <2>1. /\ module' = module /\ conns' = conns /\ call'.item = call.item
        /\ call'.faults = call.faults /\ call'.doc = call.doc /\ call'.ctx = call.ctx
        /\ call.pc # "idle"
    BY <1>7, <1>a DEF Consider, At, Call
  <2>. QED BY <2>1 DEF ParsedPart, BoundUpTo, DisjointUpTo
<1>. QED BY <1>1, <1>2, <1>3, <1>4, <1>5, <1>6, <1>7, StepKinds

LEMMA WholeDocumentStep ==
  ASSUME IInv, TypeOK', [Next]_vars PROVE WholeDocument'
<1>. USE DEF IInv
<1>a. call \in Call /\ call' \in Call
  BY DEF TypeOK
<1>1. CASE Kept
  BY <1>1 DEF Kept, WholeDocument, Through
<1>2. CASE Moves
  <2>1. CASE ~call.faults /\ call.item > Len(call.doc) /\ call.pc # "idle"
    <3>1. call.item \in Nat \ {0} /\ call.doc \in Seq(Item)
      BY <1>a DEF Call
    <3>2. call.item - 1 = 0 \/ call.item - 1 \in DOMAIN call.doc
      <4>1. BoundUpTo(module, call.ctx, call.doc, call.item - 1)
        BY <2>1 DEF ParsedPart
      <4>2. call.item - 1 = 0 \/ call.item - 1 \in 1..call.item - 1
        BY <3>1
      <4>. QED BY <4>1, <4>2 DEF BoundUpTo
    <3>3. call.item = Len(call.doc) + 1
      BY <2>1, <3>1, <3>2
    <3>. QED BY <1>2, <2>1, <3>3 DEF Moves, WholeDocument
  <2>. QED BY <1>2, <2>1 DEF Moves, WholeDocument
<1>3. CASE Begins \/ Ends \/ OpenReturns
  BY <1>3 DEF Begins, Ends, OpenReturns, Idle, WholeDocument, Through
<1>4. CASE Defines
  BY <1>4, DefineEffect DEF WholeDocument, Through
<1>5. CASE Garbled
  BY <1>5, <1>a DEF Garbled, Parsing, At, Call, WholeDocument, Through
<1>6. ASSUME NEW c \in Config, NEW n \in 0..Len(c.servers), Receive(c, n)
      PROVE  WholeDocument'
  BY <1>6, <1>a DEF Receive, Call, WholeDocument, Through
<1>7. CASE Consider
  BY <1>7, <1>a DEF Consider, At, Call, WholeDocument, Through
<1>. QED BY <1>1, <1>2, <1>3, <1>4, <1>5, <1>6, <1>7, StepKinds

LEMMA BeginningStep ==
  ASSUME IInv, TypeOK', [Next]_vars PROVE Beginning'
<1>. USE DEF IInv
<1>a. call \in Call /\ call' \in Call
  BY DEF TypeOK
<1>1. CASE Kept \/ Moves
  BY <1>1 DEF Kept, Moves, Beginning, Early
<1>2. CASE Begins \/ Ends \/ OpenReturns
  BY <1>2 DEF Begins, Ends, OpenReturns, Idle, Beginning, Early
<1>3. CASE Defines
  BY <1>3, DefineEffect DEF Beginning, Early
<1>4. CASE Garbled
  BY <1>4, <1>a DEF Garbled, Parsing, At, Call, Beginning, Early
<1>5. ASSUME NEW c \in Config, NEW n \in 0..Len(c.servers), Receive(c, n)
      PROVE  Beginning'
  BY <1>5, <1>a DEF Receive, At, Call, Beginning, Early
<1>6. CASE Consider
  BY <1>6, <1>a DEF Consider, At, Call, Beginning, Early
<1>. QED BY <1>1, <1>2, <1>3, <1>4, <1>5, <1>6, StepKinds
-----------------------------------------------------------------------------
\* An entry that takes the place of the one chosen so far is as good as any before
LEMMA BestGrows ==
  ASSUME TypeOK, call.at \in 1..Len(call.servers),
         Best(call.servers, call.chosen, call.at - 1)
  PROVE  Best(call.servers, IF Takes(call.at) THEN call.at ELSE call.chosen, call.at)
<1>. DEFINE s == call.servers
            k == call.at
            P(i) == Priority[s[i].transport]
<1>1. \A i \in 1..k : Known(s[i]) => P(i) \in Int
  BY PriorityAssumption DEF Known
<1>2. k \in Nat \ {0} /\ call.chosen \in Nat
  BY DEF TypeOK, Call
<1>3. \A i \in 1..k - 1 : Known(s[i]) => call.chosen # 0 /\ P(call.chosen) <= P(i)
  BY DEF Best
<1>4. call.chosen # 0 => call.chosen \in 1..k - 1 /\ Known(s[call.chosen])
  BY DEF Best
<1>5. Takes(k) <=> Known(s[k]) /\ (call.chosen # 0 => P(call.chosen) >= P(k))
  BY DEF Takes, PriorityAt
<1>6. \A i \in 1..k : i = k \/ i \in 1..k - 1
  BY <1>2
<1>7. CASE Takes(k)
  <2>1. Known(s[k])
    BY <1>5, <1>7
  <2>3. k \in 1..k /\ k # 0
    BY <1>2
  <2>2. ASSUME NEW i \in 1..k, Known(s[i]) PROVE P(k) <= P(i)
    <3>1. CASE i = k
      BY <1>1, <2>2, <3>1
    <3>2. CASE i \in 1..k - 1
      <4>1. call.chosen # 0 /\ P(call.chosen) <= P(i) /\ P(call.chosen) >= P(k)
        BY <1>3, <1>5, <1>7, <2>2, <3>2
      <4>2. call.chosen \in 1..k /\ Known(s[call.chosen])
        BY <1>2, <1>4, <4>1
      <4>3. P(call.chosen) \in Int
        BY <1>1, <4>2
      <4>4. P(k) \in Int
        BY <1>1, <2>1, <2>3
      <4>5. P(i) \in Int
        BY <1>1, <2>2
      <4>. HIDE DEF P
      <4>. QED BY <4>1, <4>3, <4>4, <4>5
    <3>. QED BY <1>6, <3>1, <3>2
  <2>. QED BY <1>7, <2>1, <2>2, <2>3 DEF Best
<1>8. CASE ~Takes(k)
  <2>1. call.chosen # 0 => call.chosen \in 1..k /\ Known(s[call.chosen])
    BY <1>2, <1>4
  <2>2. ASSUME NEW i \in 1..k, Known(s[i]) PROVE call.chosen # 0 /\ P(call.chosen) <= P(i)
    <3>1. CASE i = k
      <4>1. call.chosen # 0 /\ ~(P(call.chosen) >= P(k))
        BY <1>5, <1>8, <2>2, <3>1
      <4>2. P(call.chosen) \in Int
        BY <1>1, <2>1, <4>1
      <4>3. P(k) \in Int
        BY <1>1, <2>2, <3>1
      <4>. HIDE DEF P
      <4>. QED BY <3>1, <4>1, <4>2, <4>3
    <3>2. CASE i \in 1..k - 1
      BY <1>3, <2>2, <3>2
    <3>. QED BY <1>6, <3>1, <3>2
  <2>. QED BY <1>8, <2>1, <2>2 DEF Best
<1>. QED BY <1>7, <1>8

LEMMA ChosenStep ==
  ASSUME IInv, TypeOK', [Next]_vars PROVE ChosenPart'
<1>. USE DEF IInv
<1>a. call \in Call /\ call' \in Call
  BY DEF TypeOK
<1>1. CASE Kept
  BY <1>1 DEF Kept, ChosenPart, Through
<1>2. CASE Moves
  <2>1. call'.at <= Len(call'.servers) + 1 /\ Best(call'.servers, call'.chosen, call'.at - 1)
    BY <1>2 DEF Moves, ChosenPart
  <2>2. \/ call'.at = Len(call'.servers) + 1 /\ call'.chosen # 0
        \/ ~(Through' /\ call'.pc # "endpoints")
    <3>1. CASE Through /\ call.pc # "endpoints"
      BY <1>2, <3>1 DEF Moves, ChosenPart
    <3>2. CASE call.chosen # 0 /\ call.at > Len(call.servers)
      <4>1. call.at <= Len(call.servers) + 1 /\ call.at \in Nat /\ Len(call.servers) \in Nat
        BY <1>2, <1>a DEF Moves, ChosenPart, Call
      <4>. QED BY <1>2, <3>2, <4>1 DEF Moves
    <3>. QED BY <1>2, <3>1, <3>2 DEF Moves
  <2>. QED BY <2>1, <2>2 DEF ChosenPart
<1>3. CASE Begins
  <2>1. /\ call'.at = 1 /\ call'.chosen = 0 /\ call'.servers = <<>> /\ ~Through'
    BY <1>3 DEF Begins, Through
  <2>. QED BY <2>1 DEF ChosenPart, Best
<1>4. CASE Ends \/ OpenReturns
  BY <1>4 DEF Ends, OpenReturns, Idle, ChosenPart, Through
<1>5. CASE Defines
  <2>1. /\ call'.at = call.at /\ call'.chosen = call.chosen /\ call'.servers = call.servers
        /\ call'.pc = call.pc /\ call.pc \in {"parse", "load"}
    BY <1>5, DefineEffect
  <2>. QED BY <2>1 DEF ChosenPart, Through
<1>6. CASE Garbled
  <2>1. /\ call'.at = call.at /\ call'.chosen = call.chosen /\ call'.servers = call.servers
        /\ call'.pc = call.pc /\ call.pc \in {"parse", "load"}
    BY <1>6, <1>a DEF Garbled, Parsing, At, Call
  <2>. QED BY <2>1 DEF ChosenPart, Through
<1>7. ASSUME NEW c \in Config, NEW n \in 0..Len(c.servers), Receive(c, n)
      PROVE  ChosenPart'
  <2>1. /\ call'.at = 1 /\ call'.chosen = 0 /\ call'.pc = "parse"
    BY <1>7, <1>a DEF Receive, At, Call, Beginning, Early
  <2>2. call'.servers \in Seq(Entry)
    BY <1>a DEF Call
  <2>. QED BY <2>1, <2>2 DEF ChosenPart, Best, Through
<1>8. CASE Consider
  <2>1. /\ call.at \in 1..Len(call.servers)
        /\ call'.at = call.at + 1 /\ call'.servers = call.servers
        /\ call'.chosen = IF Takes(call.at) THEN call.at ELSE call.chosen
        /\ call.pc = "endpoints" /\ call'.pc = "endpoints"
    BY <1>8, <1>a DEF Consider, At, Call
  <2>2. Best(call.servers, call.chosen, call.at - 1)
    BY <2>1 DEF ChosenPart
  <2>3. Best(call'.servers, call'.chosen, call.at)
    BY <2>1, <2>2, BestGrows
  <2>4. call'.at - 1 = call.at /\ call'.at <= Len(call'.servers) + 1
    BY <1>a, <2>1 DEF Call
  <2>. QED BY <2>1, <2>3, <2>4 DEF ChosenPart
<1>. QED BY <1>1, <1>2, <1>3, <1>4, <1>5, <1>6, <1>7, <1>8, StepKinds
-----------------------------------------------------------------------------
\* What the connections that are there keep, when no connection is added
LEMMA ConnectionsKept ==
  ASSUME IInv, [Next]_vars, ~OpenReturns
  PROVE  /\ conns' \subseteq conns
         /\ \A x \in Context, n \in Name : module[x][n] # None => module'[x][n] = module[x][n]
<1>. USE DEF IInv
<1>1. CASE Defines
  BY <1>1, DefineEffect
<1>2. CASE Kept \/ Begins \/ Ends \/ Moves \/ Garbled \/ Consider
  BY <1>2 DEF Kept, Begins, Ends, Moves, Garbled, Consider
<1>3. CASE \E c \in Config : \E n \in 0..Len(c.servers) : Receive(c, n)
  BY <1>3 DEF Receive
<1>. QED BY <1>1, <1>2, <1>3, StepKinds

\* The connection that is returned: its document is in the module, apart from those
\* of the others, and its endpoint is the best
LEMMA OpenedIsGood ==
  ASSUME IInv, OpenReturns
  PROVE  /\ module' = module /\ conns' = conns \cup {Opened}
         /\ Opened.ctx = call.ctx /\ Opened.doc = call.doc /\ Opened.err = "none"
         /\ Opened.servers = call.servers /\ Opened.chosen = call.chosen
         /\ BoundUpTo(module, call.ctx, call.doc, Len(call.doc))
         /\ DisjointUpTo(call.ctx, call.doc, Len(call.doc))
         /\ call.chosen # 0 /\ Best(call.servers, call.chosen, Len(call.servers))
         /\ call.doc \in Seq(Item) /\ call.servers \in Seq(Entry)
<1>. USE DEF IInv
<1>1. /\ module' = module /\ conns' = conns \cup {Opened} /\ call.pc = "return"
      /\ call.env /\ call.err = "none"
  BY DEF OpenReturns, At
<1>2. /\ Opened.ctx = call.ctx /\ Opened.doc = call.doc /\ Opened.err = "none"
      /\ Opened.servers = call.servers /\ Opened.chosen = call.chosen
  BY <1>1 DEF Opened
<1>3. call.doc \in Seq(Item) /\ call.servers \in Seq(Entry)
  BY DEF TypeOK, Call
<1>4. ~call.faults /\ call.item - 1 = Len(call.doc)
  BY <1>1, <1>3 DEF WholeDocument, Through
<1>5. call.chosen # 0 /\ call.at - 1 = Len(call.servers)
  BY <1>1, <1>3 DEF ChosenPart, Through
<1>6. /\ BoundUpTo(module, call.ctx, call.doc, Len(call.doc))
      /\ DisjointUpTo(call.ctx, call.doc, Len(call.doc))
  BY <1>1, <1>4 DEF ParsedPart
<1>7. Best(call.servers, call.chosen, Len(call.servers))
  BY <1>1, <1>5 DEF ChosenPart
<1>. QED BY <1>1, <1>2, <1>3, <1>5, <1>6, <1>7

LEMMA SpeaksStep ==
  ASSUME IInv, [Next]_vars PROVE SpeaksItsIdl'
<1>. USE DEF IInv
<1>a. SpeaksItsIdl <=>
        \A c \in conns : /\ c.err = "none"
                         /\ \A i \in DOMAIN c.doc : Binds(c.doc[i]) =>
                              module[c.ctx][c.doc[i].name] = Meaning(c.doc[i])
  BY DEF SpeaksItsIdl, Meaning
<1>b. SpeaksItsIdl' <=>
        \A c \in conns' : /\ c.err = "none"
                          /\ \A i \in DOMAIN c.doc : Binds(c.doc[i]) =>
                               module'[c.ctx][c.doc[i].name] = Meaning(c.doc[i])
  BY DEF SpeaksItsIdl, Meaning
<1>1. CASE ~OpenReturns
  <2>1. \A c \in conns' : c.err = "none"
    BY <1>1, ConnectionsKept DEF SpeaksItsIdl
  <2>2. ASSUME NEW c \in conns', NEW i \in DOMAIN c.doc, Binds(c.doc[i])
        PROVE  module'[c.ctx][c.doc[i].name] = Meaning(c.doc[i])
    <3>1. c \in conns /\ c.ctx \in Context /\ c.doc[i] \in Item
      BY <1>1, ConnectionsKept DEF TypeOK
    <3>2. module[c.ctx][c.doc[i].name] = Meaning(c.doc[i])
      BY <1>a, <2>2, <3>1
    <3>3. module[c.ctx][c.doc[i].name] # None
      BY <3>1, <3>2, DefinedIsBound
    <3>4. c.doc[i].name \in Name
      BY <3>1 DEF Item
    <3>. QED BY <1>1, <3>1, <3>2, <3>3, <3>4, ConnectionsKept
  <2>. QED BY <1>b, <2>1, <2>2
<1>2. CASE OpenReturns
  <2>1. \A i \in DOMAIN call.doc : Binds(call.doc[i]) =>
          module[call.ctx][call.doc[i].name] = Meaning(call.doc[i])
    <3>1. DOMAIN call.doc = 1..Len(call.doc)
      BY <1>2, OpenedIsGood
    <3>2. BoundUpTo(module, call.ctx, call.doc, Len(call.doc))
      BY <1>2, OpenedIsGood
    <3>. QED BY <3>1, <3>2 DEF BoundUpTo
  <2>2. /\ conns' = conns \cup {Opened} /\ module' = module /\ Opened.err = "none"
        /\ Opened.ctx = call.ctx /\ Opened.doc = call.doc
    BY <1>2, OpenedIsGood
  <2>3. ASSUME NEW c \in conns'
        PROVE  /\ c.err = "none"
               /\ \A i \in DOMAIN c.doc : Binds(c.doc[i]) =>
                    module'[c.ctx][c.doc[i].name] = Meaning(c.doc[i])
    <3>1. CASE c \in conns
      BY <1>a, <2>2, <3>1
    <3>2. CASE c = Opened
      BY <2>1, <2>2, <3>2
    <3>. QED BY <2>2, <3>1, <3>2
  <2>. QED BY <1>b, <2>3
<1>. QED BY <1>1, <1>2

LEMMA NamesStep ==
  ASSUME IInv, [Next]_vars PROVE NamesAreTakenOnce'
<1>. USE DEF IInv
<1>1. CASE ~OpenReturns
  BY <1>1, ConnectionsKept DEF NamesAreTakenOnce
<1>2. CASE OpenReturns
  <2>1. ASSUME NEW c \in conns, c.ctx = call.ctx
        PROVE  Names(c.doc) \cap Names(call.doc) = {}
    <3>1. DOMAIN call.doc = 1..Len(call.doc)
      BY <1>2, OpenedIsGood
    <3>2. DisjointUpTo(call.ctx, call.doc, Len(call.doc))
      BY <1>2, OpenedIsGood
    <3>3. \A j \in DOMAIN c.doc : \A i \in DOMAIN call.doc :
            Binds(c.doc[j]) /\ Binds(call.doc[i]) => c.doc[j].name # call.doc[i].name
      BY <2>1, <3>1, <3>2 DEF DisjointUpTo
    <3>. QED BY <3>3 DEF Names
  <2>2. /\ conns' = conns \cup {Opened} /\ Opened.ctx = call.ctx /\ Opened.doc = call.doc
    BY <1>2, OpenedIsGood
  <2>3. ASSUME NEW c \in conns, c.ctx = Opened.ctx
        PROVE  Names(c.doc) \cap Names(Opened.doc) = {}
    BY <2>1, <2>2, <2>3
  <2>4. ASSUME NEW c \in conns', NEW d \in conns', c # d, c.ctx = d.ctx
        PROVE  Names(c.doc) \cap Names(d.doc) = {}
    <3>1. CASE c \in conns /\ d \in conns
      BY <2>4, <3>1 DEF NamesAreTakenOnce
    <3>2. CASE c \in conns /\ d = Opened
      BY <2>3, <2>4, <3>2
    <3>3. CASE c = Opened /\ d \in conns
      BY <2>3, <2>4, <3>3
    <3>. QED BY <2>2, <2>4, <3>1, <3>2, <3>3
  <2>. QED BY <2>4 DEF NamesAreTakenOnce
<1>. QED BY <1>1, <1>2

LEMMA EndpointStep ==
  ASSUME IInv, [Next]_vars PROVE BestEndpoint'
<1>. USE DEF IInv
<1>1. CASE ~OpenReturns
  BY <1>1, ConnectionsKept DEF BestEndpoint
<1>2. CASE OpenReturns
  <2>1. /\ call.chosen \in DOMAIN call.servers /\ Known(call.servers[call.chosen])
        /\ \A i \in DOMAIN call.servers : Known(call.servers[i]) =>
             Priority[call.servers[call.chosen].transport] <= Priority[call.servers[i].transport]
    BY <1>2, OpenedIsGood DEF Best
  <2>. QED BY <1>2, <2>1, OpenedIsGood DEF BestEndpoint
<1>. QED BY <1>1, <1>2
-----------------------------------------------------------------------------
LEMMA InitIInv == Init => IInv
<1>. SUFFICES ASSUME Init PROVE IInv
  OBVIOUS
<1>1. call = Idle /\ conns = {} /\ call.pc = "idle"
  BY DEF Init, Idle
<1>2. module \in [Context -> [Name -> Bindings]]
  BY DEF Init, Bindings
<1>3. TypeOK
  BY <1>1, <1>2, IdleType DEF TypeOK
<1>4. ParsedPart /\ WholeDocument /\ Beginning /\ ChosenPart
  BY <1>1 DEF ParsedPart, WholeDocument, Beginning, ChosenPart, Through, Early
<1>5. SpeaksItsIdl /\ NamesAreTakenOnce /\ BestEndpoint
  BY <1>1 DEF SpeaksItsIdl, NamesAreTakenOnce, BestEndpoint
<1>. QED BY <1>3, <1>4, <1>5 DEF IInv

LEMMA NextIInv == IInv /\ [Next]_vars => IInv'
<1>. SUFFICES ASSUME IInv, [Next]_vars PROVE IInv'
  OBVIOUS
<1>1. TypeOK'
  BY TypeStep DEF IInv
<1>. QED BY <1>1, ParsedStep, WholeDocumentStep, BeginningStep, ChosenStep, SpeaksStep,
            NamesStep, EndpointStep DEF IInv

\* The inductive invariant holds of every reachable state, for every set of
\* documents, configurations and transports
THEOREM Invariance == Spec => []IInv
  BY InitIInv, NextIInv, PTL DEF Spec

\* The variables keep their types (Impl/Core.cpp, Impl/Network.cpp)
THEOREM TypeCorrect == Spec => []TypeOK
<1>1. IInv => TypeOK
  BY DEF IInv
<1>. QED BY <1>1, Invariance, PTL

\* A connection that the program holds speaks the IDL of its server: no document
\* that is loaded later, accepted or given up half way, changes or takes away a
\* type of it (Namespace::bindType, DB/Type.cpp:84)
THEOREM ConnectionsSpeakTheirIdl == Spec => []SpeaksItsIdl
<1>1. IInv => SpeaksItsIdl
  BY DEF IInv
<1>. QED BY <1>1, Invariance, PTL

\* Two connections of a context never have a type of the same name in their
\* documents, whichever calls came between them
THEOREM NamesOfConnectionsDiffer == Spec => []NamesAreTakenOnce
<1>1. IInv => NamesAreTakenOnce
  BY DEF IInv
<1>. QED BY <1>1, Invariance, PTL

\* The loop over the servers of a configuration leaves the one with the least
\* priority value, for every list of servers and every table of priorities
THEOREM EndpointIsBest == Spec => []BestEndpoint
<1>1. IInv => BestEndpoint
  BY DEF IInv
<1>. QED BY <1>1, Invariance, PTL
-----------------------------------------------------------------------------
\* A connection more, or less, is one owner more, or less, if it is one
LEMMA CountMore ==
  ASSUME NEW S, IsFiniteSet(S), NEW x, x \notin S
  PROVE  /\ Cardinality({c \in S \cup {x} : c.env}) =
              Cardinality({c \in S : c.env}) + Number(x.env)
         /\ Cardinality({c \in S \cup {x} : c.loader}) =
              Cardinality({c \in S : c.loader}) + Number(x.loader)
<1>1. ASSUME NEW T \in SUBSET S, NEW U, NEW b,
             U = IF b THEN T \cup {x} ELSE T
      PROVE  Cardinality(U) = Cardinality(T) + Number(b)
  <2>1. IsFiniteSet(T) /\ Cardinality(T) \in Nat /\ x \notin T
    BY FS_Subset, FS_CardinalityType
  <2>2. CASE b
    <3>1. Cardinality(T \cup {x}) = Cardinality(T) + 1
      BY <2>1, FS_AddElement
    <3>. QED BY <1>1, <2>2, <3>1 DEF Number
  <2>3. CASE ~b
    BY <1>1, <2>1, <2>3 DEF Number
  <2>. QED BY <2>2, <2>3
<1>2. /\ {c \in S : c.env} \in SUBSET S
      /\ {c \in S \cup {x} : c.env} =
           IF x.env THEN {c \in S : c.env} \cup {x} ELSE {c \in S : c.env}
  OBVIOUS
<1>3. /\ {c \in S : c.loader} \in SUBSET S
      /\ {c \in S \cup {x} : c.loader} =
           IF x.loader THEN {c \in S : c.loader} \cup {x} ELSE {c \in S : c.loader}
  OBVIOUS
<1>4. Cardinality({c \in S \cup {x} : c.env}) =
        Cardinality({c \in S : c.env}) + Number(x.env)
  BY <1>1, <1>2
<1>5. Cardinality({c \in S \cup {x} : c.loader}) =
        Cardinality({c \in S : c.loader}) + Number(x.loader)
  BY <1>1, <1>3
<1>. QED BY <1>4, <1>5

LEMMA CountsAreNat ==
  ASSUME NEW S, IsFiniteSet(S)
  PROVE  /\ Cardinality({c \in S : c.env}) \in Nat
         /\ Cardinality({c \in S : c.loader}) \in Nat
<1>1. {c \in S : c.env} \in SUBSET S /\ {c \in S : c.loader} \in SUBSET S
  OBVIOUS
<1>. QED BY <1>1, FS_Subset, FS_CardinalityType

LEMMA CountLess ==
  ASSUME NEW S, IsFiniteSet(S), NEW x \in S
  PROVE  /\ Cardinality({c \in S \ {x} : c.env}) =
              Cardinality({c \in S : c.env}) - Number(x.env)
         /\ Cardinality({c \in S \ {x} : c.loader}) =
              Cardinality({c \in S : c.loader}) - Number(x.loader)
<1>. DEFINE R == S \ {x}
<1>1. IsFiniteSet(R) /\ x \notin R /\ R \cup {x} = S
  BY FS_RemoveElement
<1>2. Number(x.env) \in Int /\ Number(x.loader) \in Int
  BY DEF Number
<1>. HIDE DEF R
<1>3. /\ Cardinality({c \in R : c.env}) \in Nat
      /\ Cardinality({c \in R : c.loader}) \in Nat
  BY <1>1, CountsAreNat
<1>4. /\ Cardinality({c \in R \cup {x} : c.env}) =
           Cardinality({c \in R : c.env}) + Number(x.env)
      /\ Cardinality({c \in R \cup {x} : c.loader}) =
           Cardinality({c \in R : c.loader}) + Number(x.loader)
  BY <1>1, CountMore
<1>5. /\ Cardinality({c \in S : c.env}) = Cardinality({c \in R : c.env}) + Number(x.env)
      /\ Cardinality({c \in S : c.loader}) = Cardinality({c \in R : c.loader}) + Number(x.loader)
  BY <1>1, <1>4, Zenon
<1>6. \A k, m, n \in Int : k = m + n => m = k - n
  OBVIOUS
<1>7. /\ Cardinality({c \in S : c.env}) \in Int
      /\ Cardinality({c \in S : c.loader}) \in Int
  BY CountsAreNat
<1>8. /\ Cardinality({c \in R : c.env}) = Cardinality({c \in S : c.env}) - Number(x.env)
      /\ Cardinality({c \in R : c.loader}) = Cardinality({c \in S : c.loader}) - Number(x.loader)
  BY <1>2, <1>3, <1>5, <1>6, <1>7
<1>. QED BY <1>8 DEF R

\* There is an address for the connection that is opened
LEMMA OpenedIsNew ==
  ASSUME IsFiniteSet(conns), Cardinality(conns) < MaxConns
  PROVE  Opened \notin conns
<1>. DEFINE ids == {c.id : c \in conns}
            f == [c \in conns |-> c.id]
<1>1. f \in Surjection(conns, ids)
  BY DEF Surjection
<1>2. IsFiniteSet(ids) /\ Cardinality(ids) <= Cardinality(conns)
  BY <1>1, FS_Surjection
<1>3. Cardinality(ids) \in Nat /\ Cardinality(conns) \in Nat
  BY <1>2, FS_CardinalityType
<1>4. Cardinality(1..MaxConns) = MaxConns
  <2>1. Cardinality(1..MaxConns) = IF 1 > MaxConns THEN 0 ELSE MaxConns - 1 + 1
    BY MaxConnsAssumption, FS_Interval
  <2>. QED BY <2>1, MaxConnsAssumption
<1>5. ASSUME 1..MaxConns \in SUBSET ids PROVE FALSE
  <2>1. Cardinality(1..MaxConns) <= Cardinality(ids)
    BY <1>2, <1>5, FS_Subset
  <2>. QED BY <1>2, <1>3, <1>4, <2>1, MaxConnsAssumption
<1>6. PICK i \in 1..MaxConns : i \notin ids
  BY <1>5
<1>7. \A c \in conns : c.id # i
  BY <1>6
<1>8. \A c \in conns : c.id # Opened.id
  BY <1>7 DEF Opened
<1>. QED BY <1>8

LEMMA OwnersInit == Init => OwnersPart
<1>. SUFFICES ASSUME Init PROVE OwnersPart
  OBVIOUS
<1>1. /\ conns = {} /\ envs = 0 /\ loaders = 0 /\ call.pc = "idle"
      /\ call.env = FALSE /\ call.loader = FALSE
  BY DEF Init, Idle
<1>2. {c \in conns : c.env} = {} /\ {c \in conns : c.loader} = {}
  BY <1>1
<1>3. IsFiniteSet({}) /\ Cardinality({}) = 0
  BY FS_EmptySet, Zenon
<1>. QED BY <1>1, <1>2, <1>3 DEF OwnersPart, LoadersAreOwned, Number

\* A step that touches no owner and leaves the call with what it had
LEMMA OwnersFrame ==
  ASSUME OwnersPart, conns' = conns, envs' = envs, loaders' = loaders,
         crashed = "no", call'.env = call.env, call'.loader = call.loader,
         call'.pc = call.pc \/ call'.pc \notin {"idle", "load", "connect", "receive"}
  PROVE  OwnersPart'
<1>1. LoadersAreOwned'
  BY DEF OwnersPart, LoadersAreOwned
<1>. QED BY <1>1 DEF OwnersPart
\* Every environment and every loader stays somebody's
LEMMA OwnersStep ==
  ASSUME IInv, OwnersPart, [Next]_vars PROVE OwnersPart'
<1>a. call \in Call /\ IsFiniteSet(conns)
  BY DEF IInv, TypeOK, OwnersPart
<1>b. ASSUME crashed' # "no", conns' = conns, call' = call PROVE OwnersPart'
  BY <1>b DEF OwnersPart, LoadersAreOwned
<1>1. CASE UNCHANGED <<call, conns, envs, loaders, crashed>>
  BY <1>1 DEF OwnersPart, LoadersAreOwned
<1>2. CASE Initialize \/ \E x \in Context : NewContext(x) \/ FreeContext(x) \/ ClearError(x)
  BY <1>1, <1>2 DEF Initialize, NewContext, FreeContext, ClearError
<1>3. ASSUME NEW x \in Context, NEW d \in Document, LoadServiceIDL(x, d) PROVE OwnersPart'
  <2>1. /\ call.pc = "idle" /\ call'.pc = "load" /\ ~call'.env /\ ~call'.loader
        /\ UNCHANGED <<conns, envs, loaders, crashed>>
    BY <1>3 DEF LoadServiceIDL, Ready, At, Idle
  <2>2. ~call.env /\ ~call.loader
    BY <2>1 DEF OwnersPart
  <2>3. LoadersAreOwned'
    BY <2>1, <2>2 DEF OwnersPart, LoadersAreOwned, Number
  <2>. QED BY <2>1, <2>3 DEF OwnersPart
<1>4. ASSUME NEW x \in Context, OpenConnection(x) PROVE OwnersPart'
  <2>1. /\ call.pc = "idle" /\ crashed = "no" /\ Cardinality(conns) < MaxConns
        /\ conns' = conns /\ envs' = envs + 1 /\ loaders' = loaders
    BY <1>4 DEF OpenConnection, Ready, At
  <2>2. call'.pc \in {"connect", "return"} /\ call'.env = TRUE /\ call'.loader = FALSE
    <3>1. CASE call' = [Idle EXCEPT !.pc = "connect", !.ctx = x, !.env = TRUE]
      BY <3>1 DEF Idle
    <3>2. CASE call' = [Idle EXCEPT !.pc = "return", !.ctx = x, !.env = TRUE, !.err = "init"]
      BY <3>2 DEF Idle
    <3>. QED BY <1>4, <3>1, <3>2 DEF OpenConnection
  <2>3. ~call.env /\ ~call.loader
    BY <2>1 DEF OwnersPart
  <2>4. /\ envs = Cardinality({c \in conns : c.env})
        /\ loaders = Cardinality({c \in conns : c.loader})
    BY <1>a, <2>1, <2>3, CountsAreNat DEF OwnersPart, LoadersAreOwned, Number
  <2>5. LoadersAreOwned'
    BY <1>a, <2>1, <2>2, <2>4, CountsAreNat DEF LoadersAreOwned, Number
  <2>. QED BY <2>1, <2>2, <2>5 DEF OwnersPart
<1>5. CASE Connect
  <2>1. /\ call.pc = "connect" /\ crashed = "no" /\ loaders' = loaders + 1
        /\ conns' = conns /\ envs' = envs
    BY <1>5 DEF Connect, At
  <2>2. CASE call' = [call EXCEPT !.pc = "receive", !.loader = TRUE]
    <3>1. call'.pc = "receive" /\ call'.loader = TRUE /\ call'.env = call.env
      BY <1>a, <2>2 DEF Call
    <3>2. call.env /\ ~call.loader
      BY <2>1 DEF OwnersPart
    <3>3. /\ envs = Cardinality({c \in conns : c.env}) + 1
          /\ loaders = Cardinality({c \in conns : c.loader})
      BY <1>a, <2>1, <3>2, CountsAreNat DEF OwnersPart, LoadersAreOwned, Number
    <3>4. LoadersAreOwned'
      BY <2>1, <3>1, <3>2, <3>3 DEF LoadersAreOwned, Number
    <3>. QED BY <2>1, <3>1, <3>2, <3>4 DEF OwnersPart
  <2>3. CASE call' = call /\ crashed' = "no session"
    BY <1>b, <2>1, <2>3
  <2>. QED BY <1>5, <2>2, <2>3 DEF Connect
<1>6. CASE ReceiveNothing
  <2>1. /\ call.pc = "receive" /\ crashed = "no" /\ loaders' = loaders - 1
        /\ conns' = conns /\ envs' = envs
    BY <1>6 DEF ReceiveNothing, At
  <2>2. call'.pc = "return" /\ call'.loader = FALSE /\ call'.env = call.env
    BY <1>6, <1>a DEF ReceiveNothing, Call
  <2>3. call.env /\ call.loader
    BY <2>1 DEF OwnersPart
  <2>4. /\ envs = Cardinality({c \in conns : c.env}) + 1
        /\ loaders = Cardinality({c \in conns : c.loader}) + 1
    BY <2>1, <2>3 DEF OwnersPart, LoadersAreOwned, Number
  <2>5. loaders' = Cardinality({c \in conns : c.loader})
    BY <1>a, <2>1, <2>4, CountsAreNat
  <2>6. LoadersAreOwned'
    BY <1>a, <2>1, <2>2, <2>3, <2>4, <2>5, CountsAreNat DEF LoadersAreOwned, Number
  <2>. QED BY <2>1, <2>2, <2>3, <2>6 DEF OwnersPart
<1>7. ASSUME NEW c \in Config,
             ReceiveNoIDL(c) \/ \E n \in 0..Len(c.servers) : Receive(c, n)
      PROVE  OwnersPart'
  <2>1. /\ crashed = "no" /\ UNCHANGED <<conns, envs, loaders>>
    BY <1>7 DEF ReceiveNoIDL, Receive, At
  <2>2. CASE ReceiveNoIDL(c)
    BY <1>a, <2>1, <2>2, OwnersFrame DEF ReceiveNoIDL, FailWith, Call
  <2>3. ASSUME NEW n \in 0..Len(c.servers), Receive(c, n) PROVE OwnersPart'
    BY <1>a, <2>1, <2>3, OwnersFrame DEF Receive, Call
  <2>. QED BY <1>7, <2>2, <2>3
<1>8. CASE Defines \/ Garbled \/ Consider
  <2>1. /\ crashed = "no" /\ UNCHANGED <<conns, envs, loaders>>
    BY <1>8 DEF Defines, Define, DefineNothing, Garbled, Consider, Parsing, At
  <2>2. call'.pc = call.pc /\ call'.env = call.env /\ call'.loader = call.loader
    <3>1. CASE Defines
      <4>1. CASE Define
        BY <1>a, <4>1 DEF Define, Bind, Call
      <4>2. CASE DefineNothing
        BY <1>a, <4>2 DEF DefineNothing, Call
      <4>. QED BY <3>1, <4>1, <4>2 DEF Defines
    <3>2. CASE Garbled
      BY <1>a, <3>2 DEF Garbled, Call
    <3>3. CASE Consider
      BY <1>a, <3>3 DEF Consider, Call
    <3>. QED BY <1>8, <3>1, <3>2, <3>3
  <2>. QED BY <2>1, <2>2, OwnersFrame
<1>9. CASE Parsed \/ Chosen \/ Load
  <2>1. /\ crashed = "no" /\ UNCHANGED <<conns, envs, loaders>>
    BY <1>9 DEF Parsed, Chosen, Load, Parsing, At
  <2>2. \/ \E q \in {"return", "endpoints", "component", "transport"} :
             call' = [call EXCEPT !.pc = q]
        \/ \E e \in {"connection", "operation", "init"} : FailWith(e)
    BY <1>9 DEF Parsed, Chosen, Load
  <2>3. /\ call'.pc \in {"return", "endpoints", "component", "transport"}
        /\ call'.env = call.env /\ call'.loader = call.loader
    BY <1>a, <2>2 DEF FailWith, Call
  <2>. QED BY <2>1, <2>3, OwnersFrame
<1>10. CASE OpenTransport
  <2>1. /\ crashed = "no" /\ UNCHANGED <<conns, envs, loaders>>
    BY <1>10 DEF OpenTransport, At
  <2>2. ASSUME NEW e \in {"none", "network"}, NEW b \in BOOLEAN,
               call' = [call EXCEPT !.pc = "return", !.err = e, !.session = b]
        PROVE  OwnersPart'
    <3>1. call'.pc = "return" /\ call'.env = call.env /\ call'.loader = call.loader
      BY <1>a, <2>2 DEF Call
    <3>. QED BY <2>1, <3>1, OwnersFrame
  <2>3. CASE call' = call /\ crashed' = "no getMimeType"
    BY <1>b, <2>1, <2>3
  <2>. QED BY <1>10, <2>2, <2>3 DEF OpenTransport
<1>11. CASE LoadReturns
  <2>1. /\ call.pc = "return" /\ ~call.env /\ call' = Idle
        /\ UNCHANGED <<conns, envs, loaders, crashed>>
    BY <1>11 DEF LoadReturns, At
  <2>2. ~call.loader
    BY <2>1 DEF OwnersPart
  <2>3. call'.pc = "idle" /\ ~call'.env /\ ~call'.loader
    BY <2>1 DEF Idle
  <2>4. LoadersAreOwned'
    BY <2>1, <2>2, <2>3 DEF OwnersPart, LoadersAreOwned, Number
  <2>. QED BY <2>1, <2>3, <2>4 DEF OwnersPart
<1>12. CASE OpenFails
  <2>1. /\ call.pc = "return" /\ call.env /\ call' = Idle /\ crashed = "no"
        /\ envs' = envs - Number(call.env) /\ loaders' = loaders - Number(call.loader)
        /\ UNCHANGED <<conns, crashed>>
    BY <1>12 DEF OpenFails, At, Destroy
  <2>2. /\ envs' = Cardinality({c \in conns : c.env})
        /\ loaders' = Cardinality({c \in conns : c.loader})
    BY <1>a, <2>1, CountsAreNat DEF OwnersPart, LoadersAreOwned, Number
  <2>3. call'.pc = "idle" /\ ~call'.env /\ ~call'.loader
    BY <2>1 DEF Idle
  <2>4. LoadersAreOwned'
    BY <1>a, <2>1, <2>2, <2>3, CountsAreNat DEF LoadersAreOwned, Number
  <2>. QED BY <2>1, <2>3, <2>4 DEF OwnersPart
<1>13. CASE OpenReturns
  <2>1. /\ call.pc = "return" /\ call.env /\ call' = Idle /\ crashed = "no"
        /\ conns' = conns \cup {Opened} /\ UNCHANGED <<envs, loaders, crashed>>
    BY <1>13 DEF OpenReturns, At
  <2>2. /\ envs = Cardinality({c \in conns : c.env}) + Number(call.env)
        /\ loaders = Cardinality({c \in conns : c.loader}) + Number(call.loader)
    BY <2>1 DEF OwnersPart, LoadersAreOwned
  <2>3. Opened \notin conns
    BY <2>1, OpenedIsNew DEF OwnersPart
  <2>4. Opened.env = call.env /\ Opened.loader = call.loader
    BY DEF Opened
  <2>. DEFINE new == conns \cup {Opened}
  <2>a. /\ Cardinality({c \in new : c.env}) =
             Cardinality({c \in conns : c.env}) + Number(Opened.env)
        /\ Cardinality({c \in new : c.loader}) =
             Cardinality({c \in conns : c.loader}) + Number(Opened.loader)
    BY <1>a, <2>3, CountMore
  <2>b. conns' = new /\ envs' = envs /\ loaders' = loaders
    BY <2>1
  <2>. HIDE DEF new
  <2>5. /\ envs' = Cardinality({c \in conns' : c.env})
        /\ loaders' = Cardinality({c \in conns' : c.loader})
    BY <2>2, <2>4, <2>a, <2>b, Zenon
  <2>6. IsFiniteSet(conns')
    BY <1>a, <2>1, FS_AddElement
  <2>7. call'.pc = "idle" /\ ~call'.env /\ ~call'.loader
    BY <2>1 DEF Idle
  <2>8. LoadersAreOwned'
    BY <2>5, <2>6, <2>7, CountsAreNat DEF LoadersAreOwned, Number
  <2>. QED BY <2>6, <2>7, <2>8 DEF OwnersPart
<1>14. ASSUME NEW c \in conns, Close(c) PROVE OwnersPart'
  <2>1. /\ call.pc = "idle" /\ crashed = "no" /\ call' = call /\ conns' = conns \ {c}
        /\ envs' = envs - Number(c.env) /\ loaders' = loaders - Number(c.loader)
    BY <1>14 DEF Close, At, Destroy
  <2>2. ~call.env /\ ~call.loader
    BY <2>1 DEF OwnersPart
  <2>3. /\ envs = Cardinality({d \in conns : d.env})
        /\ loaders = Cardinality({d \in conns : d.loader})
    BY <1>a, <2>1, <2>2, CountsAreNat DEF OwnersPart, LoadersAreOwned, Number
  <2>4. /\ envs' = Cardinality({d \in conns' : d.env})
        /\ loaders' = Cardinality({d \in conns' : d.loader})
    BY <1>a, <2>1, <2>3, CountLess
  <2>5. IsFiniteSet(conns')
    BY <1>a, <2>1, FS_RemoveElement
  <2>6. LoadersAreOwned'
    BY <2>1, <2>2, <2>4, <2>5, CountsAreNat DEF LoadersAreOwned, Number
  <2>. QED BY <2>1, <2>2, <2>5, <2>6 DEF OwnersPart
<1>. QED
  BY <1>1, <1>2, <1>3, <1>4, <1>5, <1>6, <1>7, <1>8, <1>9, <1>10, <1>11, <1>12, <1>13, <1>14
     DEF Next, ApiCall, Work, Answer, Defines, vars

\* Every runtime environment and every URL loader that exists belongs to a
\* connection of the program or to the one that is being made, whichever step of
\* the constructor of ClientConnection has failed, for every number of connections
THEOREM OwnersAreKept == Spec => []LoadersAreOwned
<1>1. OwnersPart => LoadersAreOwned
  BY DEF OwnersPart
<1>2. IInv /\ OwnersPart /\ [Next]_vars => OwnersPart'
  BY OwnersStep
<1>. QED BY <1>1, <1>2, OwnersInit, Invariance, PTL DEF Spec
=============================================================================
