------------------------------ MODULE Opening ------------------------------
(* The C functions that make contexts, services and connections (Impl/Core.cpp),
   what the constructor of ClientConnection does with the answer of a server
   (Impl/Network.cpp, Utils/ServerConfiguration.cpp), and how an IDL document gets
   into the module of a context (IDL/kiaray.yy).

   A context has one module and one error.  Every document a service loads and
   every document a connection gets from its server is parsed into that module,
   where a name is bound once: what an earlier call has bound, also one that has
   failed, is what a later call meets.  The calls of a program are one after
   another; each step of one can fail on its own.                             *)
EXTENDS Integers, Sequences, FiniteSets

CONSTANTS Context,
          Name,      \* names of types in IDL documents
          Document,  \* sequences of [kind, name, def, uses, untyped]: a "struct" or a
                     \* "typedef", or text that is "garbled" or has a "bad token"
          Config,    \* what a server may send: [from, doc, servers]
          Priority,  \* the priority value of each transport that is registered
          Dummy,     \* the transports whose connection is a dummy
          None,
          MaxConns   \* bound: connections open at a time

\* untyped: the struct has a member, or the typedef is of, type binary or slist, for
\* which the parser returns no type and notes no error
Item == [kind : {"struct", "typedef", "garbled", "bad token"}, name : Name, def : Int,
         uses : SUBSET Name, untyped : BOOLEAN]
Entry == [transport : STRING, part : {"whole", "no url", "broken"}]

ASSUME MaxConnsAssumption == MaxConns \in Nat
ASSUME NoneAssumption == None \notin [def : Int, complete : BOOLEAN]
ASSUME PriorityAssumption == \A t \in DOMAIN Priority : Priority[t] \in Int
ASSUME DocumentAssumption == Document \subseteq Seq(Item)
ASSUME ConfigAssumption ==
  \A c \in Config : c.doc \in Seq(Item) /\ c.servers \in Seq(Entry)

VARIABLES initialized, \* Global::initialized_
          context,     \* "none", "live" or "freed"
          error,       \* the error of a context
          module,      \* what its names are bound to
          call,        \* the call that runs, and the connection it is making
          conns,       \* the connections the program has
          envs,        \* runtime environments that exist
          loaders,     \* URL loader connections that exist
          crashed      \* what the process has not survived

vars == <<initialized, context, error, module, call, conns, envs, loaders, crashed>>
-----------------------------------------------------------------------------
Idle == [pc |-> "idle", ctx |-> None, doc |-> <<>>, item |-> 1, faults |-> FALSE,
         servers |-> <<>>, at |-> 1, chosen |-> 0, err |-> "none",
         env |-> FALSE, loader |-> FALSE, session |-> FALSE]

At(pc) == call.pc = pc /\ crashed = "no"
Ready(x) == At("idle") /\ context[x] = "live"

\* The constructor or loadIDL sets an error and returns
FailWith(e) == call' = [call EXCEPT !.pc = "return", !.err = e]

Init == /\ initialized = FALSE
        /\ context = [x \in Context |-> "none"]
        /\ error = [x \in Context |-> "none"]
        /\ module = [x \in Context |-> [n \in Name |-> None]]
        /\ call = Idle /\ conns = {} /\ envs = 0 /\ loaders = 0 /\ crashed = "no"
-----------------------------------------------------------------------------
\* kiaraInit, kiaraFinalize: an error when there is nothing to do
Initialize == /\ At("idle") /\ initialized' = ~initialized
              /\ UNCHANGED <<context, error, module, call, conns, envs, loaders, crashed>>

\* kiaraNewContext: null unless the library is initialised
NewContext(x) == /\ At("idle") /\ initialized /\ context[x] = "none"
                 /\ context' = [context EXCEPT ![x] = "live"]
                 /\ UNCHANGED <<initialized, error, module, call, conns, envs, loaders,
                                crashed>>

\* kiaraFreeContext: whatever the context is used by
FreeContext(x) == /\ Ready(x)
                  /\ context' = [context EXCEPT ![x] = "freed"]
                  /\ UNCHANGED <<initialized, error, module, call, conns, envs, loaders,
                                 crashed>>

\* kiaraClearContextError; a look-up of a declared type begins with it too
ClearError(x) == /\ Ready(x) /\ error' = [error EXCEPT ![x] = "none"]
                 /\ UNCHANGED <<initialized, context, module, call, conns, envs, loaders,
                                crashed>>

\* kiaraLoadServiceIDL, kiaraLoadServiceIDLFromString of a service in x
LoadServiceIDL(x, d) ==
  /\ Ready(x)
  /\ call' = [Idle EXCEPT !.pc = "load", !.ctx = x, !.doc = d]
  /\ UNCHANGED <<initialized, context, error, module, conns, envs, loaders, crashed>>

\* kiaraOpenConnection: null while the context has an error.  The environment is
\* created and reads stdlib.kl.
OpenConnection(x) ==
  /\ Ready(x) /\ error[x] = "none" /\ Cardinality(conns) < MaxConns
  /\ envs' = envs + 1
  /\ \/ call' = [Idle EXCEPT !.pc = "connect", !.ctx = x, !.env = TRUE]
     \/ call' = [Idle EXCEPT !.pc = "return", !.ctx = x, !.env = TRUE, !.err = "init"]
  /\ UNCHANGED <<initialized, context, error, module, conns, loaders, crashed>>

\* The connection to the configuration port: a failure is printed, and the
\* session that is missing is sent through
Connect ==
  /\ At("connect")
  /\ loaders' = loaders + 1
  /\ \/ call' = [call EXCEPT !.pc = "receive", !.loader = TRUE] /\ UNCHANGED crashed
     \/ crashed' = "no session" /\ UNCHANGED call
  /\ UNCHANGED <<initialized, context, error, module, conns, envs>>

\* Mutant: the loader is deleted and kept
ReceiveNothingKept ==
  /\ At("receive")
  /\ FailWith("connection")
  /\ loaders' = loaders - 1
  /\ UNCHANGED <<initialized, context, error, module, conns, envs, crashed>>

\* A receive that fails, or an answer without a configuration in it
ReceiveNothing ==
  /\ At("receive")
  /\ call' = [call EXCEPT !.pc = "return", !.err = "connection", !.loader = FALSE]
  /\ loaders' = loaders - 1
  /\ UNCHANGED <<initialized, context, error, module, conns, envs, crashed>>

\* ServerConfiguration::fromJSON: the list of servers ends, after n entries, with
\* the first that cannot be read, and what was read of that entry counts
Extracted(servers, n) ==
  /\ \A i \in 1..n - 1 : servers[i].part = "whole"
  /\ n = Len(servers) \/ (n > 0 /\ servers[n].part # "whole")

\* A configuration that has the IDL in it, or behind a URL
Receive(c, n) ==
  /\ At("receive") /\ c.from \in {"contents", "url"}
  /\ Extracted(c.servers, n)
  /\ call' = [call EXCEPT !.pc = "parse", !.doc = c.doc,
                          !.servers = SubSeq(c.servers, 1, n)]
  /\ UNCHANGED <<initialized, context, error, module, conns, envs, loaders, crashed>>

\* A configuration without IDL, or with the URL of one that cannot be loaded
ReceiveNoIDL(c) ==
  /\ At("receive") /\ c.from \in {"url", "none"}
  /\ FailWith("connection")
  /\ UNCHANGED <<initialized, context, error, module, conns, envs, loaders, crashed>>
-----------------------------------------------------------------------------
Current == call.doc[call.item]
Bound(n) == module[call.ctx][n] # None

\* Are the types found that the definition uses?
Found == \A n \in Current.uses : Bound(n)

\* Mutant: a name that is taken is bound again
BindOver(d, found) ==
  /\ module' = [module EXCEPT ![call.ctx][d.name] =
                  [def |-> d.def, complete |-> found /\ ~d.untyped]]
  /\ call' = [call EXCEPT !.item = @ + 1, !.faults = @ \/ ~found]

\* Namespace::bindType throws, and the parser notes an error, when the name is taken
Bind(d, found) ==
  IF Bound(d.name)
    THEN /\ call' = [call EXCEPT !.item = @ + 1, !.faults = TRUE]
         /\ UNCHANGED module
    ELSE /\ module' = [module EXCEPT ![call.ctx][d.name] =
                         [def |-> d.def, complete |-> found /\ ~d.untyped]]
         /\ call' = [call EXCEPT !.item = @ + 1, !.faults = @ \/ ~found]

Parsing == At("parse") \/ At("load")

\* The definition of a struct drops a member without type, and that of a typedef
\* without type binds nothing; a type that is not found is an error
Define ==
  /\ Parsing /\ call.item <= Len(call.doc)
  /\ \/ Current.kind = "struct"
     \/ Current.kind = "typedef" /\ Found /\ ~Current.untyped
  /\ Bind(Current, Found)
  /\ UNCHANGED <<initialized, context, error, conns, envs, loaders, crashed>>

DefineNothing ==
  /\ Parsing /\ call.item <= Len(call.doc)
  /\ Current.kind = "typedef" /\ (~Found \/ Current.untyped)
  /\ call' = [call EXCEPT !.item = @ + 1, !.faults = @ \/ ~Found]
  /\ UNCHANGED <<initialized, context, error, module, conns, envs, loaders, crashed>>

\* Text that is no definition: the parser notes an error and drops it.  A token
\* that cannot be read ends the document.
Garbled ==
  /\ Parsing /\ call.item <= Len(call.doc) /\ Current.kind \in {"garbled", "bad token"}
  /\ call' = [call EXCEPT !.faults = TRUE,
                          !.item = IF Current.kind = "garbled" THEN @ + 1
                                   ELSE Len(call.doc) + 1]
  /\ UNCHANGED <<initialized, context, error, module, conns, envs, loaders, crashed>>

\* Mutant: error recovery instead of strict parsing
AcceptedLoosely == TRUE

\* IDLParserContext::parse(strict)
Accepted == ~call.faults

\* The document is parsed into the module of the context
Parsed ==
  /\ Parsing /\ call.item > Len(call.doc)
  /\ \/ Accepted /\ call' = [call EXCEPT !.pc = IF @ = "load" THEN "return" ELSE "endpoints"]
     \/ ~Accepted /\ FailWith(IF At("load") THEN "operation" ELSE "connection")
  /\ UNCHANGED <<initialized, context, error, module, conns, envs, loaders, crashed>>
-----------------------------------------------------------------------------
\* Transport::getTransportByName
Known(s) == s.part # "broken" /\ s.transport \in DOMAIN Priority

PriorityAt(i) == Priority[call.servers[i].transport]

\* Mutant: the comparison of priorities is the other way round
TakesReversed(i) == Known(call.servers[i]) /\ (call.chosen # 0 => PriorityAt(call.chosen) <= PriorityAt(i))

\* Is entry i taken in place of the one chosen so far?
Takes(i) == Known(call.servers[i]) /\ (call.chosen # 0 => PriorityAt(call.chosen) >= PriorityAt(i))

\* The loop over the servers of the configuration
Consider ==
  /\ At("endpoints") /\ call.at <= Len(call.servers)
  /\ call' = [call EXCEPT !.at = @ + 1, !.chosen = IF Takes(call.at) THEN call.at ELSE @]
  /\ UNCHANGED <<initialized, context, error, module, conns, envs, loaders, crashed>>

Chosen ==
  /\ At("endpoints") /\ call.at > Len(call.servers)
  /\ \/ call.chosen # 0 /\ call' = [call EXCEPT !.pc = "component"]
     \/ call.chosen = 0 /\ FailWith("connection")
  /\ UNCHANGED <<initialized, context, error, module, conns, envs, loaders, crashed>>

\* The program's LLVM modules and the component of the protocol; then api.kl
Load ==
  /\ At("component")
  /\ \/ call' = [call EXCEPT !.pc = "transport"]
     \/ FailWith("connection") \/ FailWith("init")
  /\ UNCHANGED <<initialized, context, error, module, conns, envs, loaders, crashed>>

\* The transport is opened.  An invalid URL is an error, and the constructor goes
\* on; a tcp connection that cannot be made is printed and no error; getMimeType is
\* called whether the component has it or not.
OpenTransport ==
  /\ At("transport")
  /\ \/ \E e \in {"none", "network"}, s \in BOOLEAN :
          /\ call.servers[call.chosen].transport \in Dummy => s
          /\ call' = [call EXCEPT !.pc = "return", !.err = e, !.session = s]
          /\ UNCHANGED crashed
     \/ crashed' = "no getMimeType" /\ UNCHANGED call
  /\ UNCHANGED <<initialized, context, error, module, conns, envs, loaders>>
-----------------------------------------------------------------------------
Number(b) == IF b THEN 1 ELSE 0

\* ~ClientConnection, ~Connection: the loader and the environment go
Destroy(c) == /\ envs' = envs - Number(c.env)
              /\ loaders' = loaders - Number(c.loader)

\* The connection that was made, at an address no other connection has
Opened == [id |-> CHOOSE i \in 1..MaxConns : \A c \in conns : c.id # i,
           ctx |-> call.ctx, doc |-> call.doc, servers |-> call.servers,
           chosen |-> call.chosen, session |-> call.session, env |-> call.env,
           loader |-> call.loader, err |-> call.err]

\* kiaraLoadServiceIDL returns the error of the service
LoadReturns ==
  /\ At("return") /\ ~call.env
  /\ call' = Idle
  /\ UNCHANGED <<initialized, context, error, module, conns, envs, loaders, crashed>>

\* kiaraOpenConnection: the error of the connection goes to the context, and the
\* connection is deleted
OpenFails ==
  /\ At("return") /\ call.env /\ call.err # "none"
  /\ error' = [error EXCEPT ![call.ctx] = call.err]
  /\ Destroy(call)
  /\ call' = Idle
  /\ UNCHANGED <<initialized, context, module, conns, crashed>>

OpenReturns ==
  /\ At("return") /\ call.env /\ call.err = "none"
  /\ conns' = conns \cup {Opened}
  /\ call' = Idle
  /\ UNCHANGED <<initialized, context, error, module, envs, loaders, crashed>>

\* kiaraCloseConnection: the environment refers to the context, which may be freed
Close(c) ==
  /\ At("idle") /\ c \in conns
  /\ conns' = conns \ {c}
  /\ Destroy(c)
  /\ \/ UNCHANGED crashed
     \/ context[c.ctx] = "freed" /\ crashed' = "freed context"
  /\ UNCHANGED <<initialized, context, error, module, call>>

ApiCall == \/ Initialize
           \/ \E x \in Context : \/ NewContext(x) \/ FreeContext(x) \/ ClearError(x)
                                 \/ OpenConnection(x)
                                 \/ \E d \in Document : LoadServiceIDL(x, d)
           \/ \E c \in conns : Close(c)

\* What the library does without waiting for a server
Work == \/ Connect \/ Define \/ DefineNothing \/ Garbled \/ Parsed \/ Consider \/ Chosen
        \/ Load \/ OpenTransport \/ LoadReturns \/ OpenFails \/ OpenReturns

\* What comes from the server, if anything does
Answer == \/ ReceiveNothing
          \/ \E c \in Config : \/ ReceiveNoIDL(c)
                               \/ \E n \in 0..Len(c.servers) : Receive(c, n)

Next == ApiCall \/ Work \/ Answer

Spec == Init /\ [][Next]_vars
-----------------------------------------------------------------------------
Bindings == [def : Int, complete : BOOLEAN] \cup {None}
Steps == {"idle", "load", "connect", "receive", "parse", "endpoints", "component",
          "transport", "return"}
Errors == {"none", "init", "connection", "network", "operation"}

Call == [pc : Steps, ctx : Context \cup {None}, doc : Seq(Item), item : Nat \ {0},
         faults : BOOLEAN, servers : Seq(Entry), at : Nat \ {0}, chosen : Nat,
         err : Errors, env : BOOLEAN, loader : BOOLEAN, session : BOOLEAN]

\* The types of the variables
TypeOK ==
  /\ module \in [Context -> [Name -> Bindings]]
  /\ call \in Call
  /\ call.pc # "idle" => call.ctx \in Context
  /\ \A c \in conns : /\ c.ctx \in Context /\ c.doc \in Seq(Item)
                      /\ c.servers \in Seq(Entry) /\ c.chosen \in Nat 

\* Does a definition bind its name where no error is noted?
Binds(d) == d.kind = "struct" \/ ~d.untyped

\* A connection the program holds has no error, and the module of its context
\* has every type of the document its server sent, as the server defined it, also
\* after other documents were loaded, some in part (kiara.h:530, "Connection
\* contains all types provided in IDL").  It has every member, except of type
\* binary or slist, which the parser drops without an error, like a typedef of one
SpeaksItsIdl ==
  \A c \in conns :
    /\ c.err = "none"
    /\ \A i \in DOMAIN c.doc : Binds(c.doc[i]) =>
         module[c.ctx][c.doc[i].name] =
           [def |-> c.doc[i].def, complete |-> ~c.doc[i].untyped]

\* The names that a document binds
Names(doc) == {doc[i].name : i \in {j \in DOMAIN doc : Binds(doc[j])}}

\* The servers of two connections of a context, and the documents loaded in
\* between, never share a name: not even a second connection to the same server
\* can be opened when its document defines a type (Namespace::bindType)
NamesAreTakenOnce ==
  \A c, d \in conns :
    c # d /\ c.ctx = d.ctx => Names(c.doc) \cap Names(d.doc) = {}

\* The endpoint of a connection is one whose transport is known, and no entry
\* that could be read has a transport of a better priority (Network.cpp:236)
BestEndpoint ==
  \A c \in conns :
    /\ c.chosen \in DOMAIN c.servers /\ Known(c.servers[c.chosen])
    /\ \A i \in DOMAIN c.servers : Known(c.servers[i]) =>
         Priority[c.servers[c.chosen].transport] <= Priority[c.servers[i].transport]

\* Every environment and every URL loader belongs to a connection, or to the one
\* being made, wherever its constructor gave up.  The URL and the KT_Zeromq a
\* constructor creates (Network.cpp:130, 137) belong to nobody and are not counted
LoadersAreOwned ==
  LET owners == {c \in conns : c.env}
  IN  crashed = "no" =>
        /\ envs = Cardinality(owners) + Number(call.env)
        /\ loaders = Cardinality({c \in conns : c.loader}) + Number(call.loader)

=============================================================================
