# KIARA: a verification project

KIARA is a communication middleware: a program declares services in an IDL,
opens connections and calls remote functions with its own data types; the
library compiles serialisers for them at run time, negotiates transport and
protocol with the peer and moves the messages.  This directory holds TLA+
modules that model the library, configurations with which TLC checks them on
small instances, and proofs that TLAPS checks for every instance.

Paths below are relative to `src/src/KIARA/`.

1. Inventory
2. How the parts work together
3. The modules and the code they model
4. The runs: what is checked, within which bounds
5. Fairness
6. Proofs
7. What the models show about the code
8. Plan
9. What is not modelled

## 1. Inventory

| component | state | operations | hard part | what makes it correct |
|---|---|---|---|---|
| Garbage collector, `Core/` | list of objects, reference counts, possible-root flags, estimate of roots, `collecting_` | addRef, release, collectCycles, destructor | a release runs destructors, these release, and any release may start a collection in the middle of the cascade | counts are exact, only garbage is taken, all of it, the recursion ends |
| Service server, `Impl/Network.cpp` (`Server`) | `transportEntries_`, `serviceHandlers_`, `services_`, one ZeroMQ listener per host and port | addService, removeService, the callback handlers, the configuration document, `~Server` | the listeners' threads read without a lock what the program's thread writes; one session object per listener names the peer | answers go to who asked, a listed handler is alive, an address has one handler |
| Transport library, `Transport/KT_*`, `k_transport.cpp` | sessions, `interupted`, poller thread, socket states | connect, send, recv, disconnect, run, stop, user data | a poller that blocks without a timeout; the user data is handed over between threads | an answer belongs to the last request, one poller, stop and disconnect return |
| Remote calls, `Impl/FuncObjGenerator.cpp`, `ServiceHandlerGenerator.cpp`, `Network.cpp` (`ServiceHandler`), `Components/JSONRPC/` | the stub's status, the state of the REQ socket, the response message | createRequestMessage, sendMessageSync, performCallZmq, the function of the service | nothing but the order of answers pairs them with calls; a failure in the middle | what the caller is told is what has happened, a function runs at most once |
| Registered functions and stubs, `Service`, `ServiceHandler`, `Runtime/RuntimeEnvironment` | `serviceFuncList_`, `dispatchMap_`, `syncServiceFuncObjMap_`, `functionLinkMap_`, the functions in the module of an environment | registerServiceFunc, compileServiceFunc, installServiceFunc, generateClientFuncObj, performCall | generated functions have the name of their native type and the first one of a name stays; an object lives in two maps, of which one learns of its end | a method leads to a live object and to the function registered for it |
| Opening a connection, `Impl/Core.cpp`, `Impl/Network.cpp` (`ClientConnection`), `Utils/ServerConfiguration.cpp`, `IDL/kiaray.yy` | a context's module and error; the connection's environment, loader and session | initialise, contexts, load an IDL, fetch the configuration, parse, choose, connect, close | every step can fail; documents of all calls go into one module, also of calls that failed | a connection speaks its server's IDL over the best endpoint, and environments and URL loaders keep an owner |
| Declared types, `Impl/Core.cpp` (`Context::getTypeFromDeclType`) | `declCacheMap_`, the types of the world | the look-up of a declaration | declarations lead back to themselves; a structure is known before its members are | a type is what was declared, one for a declaration, and the look-up ends |
| Negotiation, `Transport/negotiation.c`, `registry.c`, `reco_engine.cpp` | local and remote capabilities, the document of decisions, final capabilities, `client_nego` | set, offer with PUT and GET, decide, take over, configure | announcements accumulate; sides decide from mirrored inputs; a document keeps what it was first told | the decision is the best pair, and what is agreed both sides can do |
| Message protocol TBP and its buffers, `Components/TBP/`, `CDT/kr_dbuffer.c` | one buffer, size and offset per message | encode, decode, clear, replace a response by an error | two ways to write and three to read a length, chosen by what is left in the buffer; a buffer that is used again | decode inverts encode, nothing behind the end is read, nothing earlier is left over |
| Asio server and block connections, `Transport/Server.cpp`, `TcpBlockTransport.cpp` | outstanding operations, members shared by the handlers of a connection | accept, read, write and stop handlers on a pool of threads | handlers of reads run outside the strand | one operation per connection at a time, answers in order and framed |
| HTTP connection, `Transport/HttpTransport.cpp`, `HttpRequestParser.cpp` | request, response, buffer, parser state | read and write handlers, parser callbacks | a read ends anywhere; requests that are pipelined, rejected, or expect an early answer | every request gets its own answer |
| Message protocols FastCDR and ORTE-CDR, `Components/` | one buffer per message | encode, decode | third-party serialisers | not modelled |
| HTTP messages, file serving, utilities, header preprocessor | strings | text in, text out | none of the above | not modelled |
| Compiler, `IDL/` (lexer and grammar), `Compiler/`, `IRGen/`, `LLVM/` | one compilation at a time | lexer to code generator | sequential; its meaning is LLVM's | not modelled |

## 2. How the parts work together

A program creates a `Server`, which at once opens an HTTP listener for its
configuration document, and adds services.  Each service address with a new
host and port gets a listener of its own: a KT_Zeromq connection whose thread
receives requests and calls back into the server.  The callback finds the
handler of a service and lets it perform the call; the handler decodes the
request, runs the program's function and encodes the response.  A client opens
a connection: it fetches the configuration document, parses the IDL in it into
its context, chooses an endpoint and connects a REQ socket.  Calling a remote
function means running a stub that was generated for it: it encodes the
arguments, sends, blocks, and decodes.  The native types that stubs and
registered functions are generated for come from the program's declarations.
Types and the code of stubs and skeletons are objects of the garbage collector.

The Boost.Asio server and its block and HTTP connections are an older road for
the same traffic, and the negotiation of capabilities is the beginning of a
newer one.  Both are part of the library, and the listeners and connections of
today's `Server` and `ClientConnection` do not pass through them; they are
modelled as the library offers them.

The modules meet where the code does.  `Opening` ends with a connection,
`ServiceFunctions` says which stub and which function a call on it reaches,
`ServiceCall` has the inside of that call, from one stub to the function and
back, with one worker, and `TrivialProtocol` the bytes it may travel as.
`ServiceServer` has the listeners' threads and what they share with the
program, with a call as one step; `KTZeromq` has the life of the transport under
both.  `Declarations` makes the types that `ServiceFunctions` takes as given.
`CycleCollector` has a specification of its own, `GCHeap`, that says what its
users may rely on.

## 3. The modules and the code they model

| module | models | as |
|---|---|---|
| `Reachability` | gcApply, the walks of `CycleCollector.cpp` | objects with members as a graph; what can be reached is the least closed set |
| `GCHeap` | what the collector promises | a heap that only gives back what the program cannot reach |
| `CycleCollector` | `Core/GCObject.*`, `Core/CycleCollector.*` | the C++ call stack is the variable `stack`, an action is one release or one iteration of a loop |
| `ServiceServer` | `Impl/Network.cpp`: `Server` and both callback handlers; `KT_Zeromq.cpp`: bind, recv | an action is what a thread does up to the next point at which another one can interfere |
| `KTZeromq` | `KT_Zeromq.cpp`, `k_transport.cpp`, `reco_engine.cpp`: RunServer | one server connection, its poller threads, clients |
| `ServiceCall` | `FuncObjGenerator.cpp`, `ServiceHandlerGenerator.cpp`, `JSONRPC/message.c`, `TcpBlockTransport.cpp` (openConnection, sendData), `KT_Zeromq.cpp` (worker), `Network.cpp` (performCallZmq) | the stubs of several clients, one worker, a server that may crash and come back |
| `ServiceFunctions` | `ServiceHandlerGenerator.cpp`, `Network.cpp` (`ServiceHandler`), `FuncObjGenerator.cpp`, `CodeGen.cpp` (createFunction), `RuntimeEnvironment.cpp` | registered functions, the handlers' environments and maps, and the stubs of a client |
| `Opening` | `Core.cpp` (initialise, contexts, services), `Network.cpp` (`ClientConnection`), `ServerConfiguration.cpp`, `kiaray.yy`, `DB/` (binding of names) | one program, one call at a time, each step of which may fail |
| `Declarations` | `Core.cpp`: getTypeFromDeclType | the recursion as a stack of frames, one step per part of a declaration |
| `Negotiation` | `negotiation.c`, `registry.c`, `reco_engine.cpp`, `KT_Configuration.cpp` (negotiation) | several programs, each with its context, which offer and serve |
| `TrivialProtocol` | `Components/TBP/tbp.c`, `CDT/kr_dbuffer.c`, `Network.cpp` (performCall) | calls one after another on a connection, every byte of every message, numbers scaled down |
| `TcpBlockServer` | `Transport/Server.cpp`, `TcpBlockTransport.cpp` | operations and their handlers, run by a pool of threads |
| `HttpConnection` | `HttpTransport.cpp`, `HttpRequestParser.cpp` | a message is the sequence of parser callbacks it causes, cut into reads at any of them |
| `CycleCollectorProofs`, `OpeningProofs`, `NegotiationProofs`, `ServiceCallProofs`, `TcpBlockServerProofs`, `ServiceServerProofs` | | theorems about the module they are named after |
| `TransportProofs` | | theorems about `KTZeromq` and about `HttpConnection` |
| `ContextProofs` | | theorems about `Declarations` and about `ServiceFunctions` |

`MC*` modules define the constants a configuration needs.  Definitions marked
"Mutant" are not part of any specification: each is a plausible slip in the
definition below it, and some property of a run fails when it takes the place
of that definition.

Correspondences that are not obvious:

- **CycleCollector.**  `objects` is the intrusive list, `cycleRoots` the flags
  `possibleCycleRoot_`, `numRoots` is `numPossibleCycleRoots_`.  A frame
  `dtor` is a destructor that has members left to release, `check` the
  comparison in onObjectRelease, `collect` a collection before its garbage
  vector is complete, `unlink` and `free` its two loops, `teardown` and `clear`
  the destructor of the collector.  `held` is the garbage vector, `ref` the
  local smart pointer of that destructor; both count as references, as they do
  in the code.  The walk with its map and its edge counts has no side effects
  and is one expression: `GcMap`, `InEdges`, `External`, `Garbage`.  The list
  is a set: nothing depends on the order in which the destructor meets the
  objects, so the model allows every order.
- **ServiceServer.**  `vector` is `serviceHandlers_` with its order.  Erasing
  from it in removeService goes on with iterators that the erase has
  invalidated; `EraseAt` and `Removed` say what a contiguous vector makes of
  that.  Any service may be removed, one that is not there too.  A URL, its
  parser and the errors that leave addService before anything has changed are one
  address and no step.  The configuration path is compared as a prefix
  (`Network.cpp:550`): `ConfigPaths` are the paths that begin with it.  The program
  and the listeners' threads are interleaved at every point; nobody waits for
  anybody.  `crashed` records that a step was taken that the process does not
  survive: the walk over a handler that has been deleted (691-694), or over a
  vector that is changed under it, is one; the latter may also go well.
- **KTZeromq.**  The sockets are ZeroMQ's.  The model has what the code relies
  on: a REQ socket alternates between send and receive, a REP socket answers
  the request it received last and receives no other until then, an answer to a
  closed socket is dropped, and a context is destroyed when what its sockets sent
  has been carried away.  A callback may return without an answer; a receive may
  fail, in the poller's loop (`KT_Zeromq.cpp:231-235`) and in kt_recv (263-266).  A
  connect that fails (82-152) changes nothing the model has and is no step.
- **ServiceCall.**  A method is what changes the way of its outcome: does it
  return something, does it declare an exception type, does the service know
  it.  A request is the number of its call, which only the model can see: on
  the wire the id is always 1.  Where a result, an argument or an exception is
  converted, the conversion may fail.  The bytes of a response are copied out
  of a message that has been closed: they are the response, or garbage that
  the JSON parser rejects (`INVALID_RESPONSE`).
- **TcpBlockServer.**  `member` is what the handlers of one connection share.
  A read writes it when it completes and a write reads it when it completes,
  not when it is started.
- **HttpConnection.**  All handlers run on one strand, so each is a step.  The
  tokens of a message stand for the callbacks of http_parser: `begin` is the
  begin of a message and its first header field.  A response that is written
  refers to `response_`: if that has changed in the meantime, garbage arrives.
- **ServiceFunctions.**  A native type stands for the name that generated
  functions and external functions get from it.  `objs` holds every
  `KIARA_ServiceFuncObj` that was ever allocated, `freed` says that installing
  another one for the method has destroyed it; `syncServiceFuncObjMap_` may go on
  pointing to it, and what compileServiceFunc then reads is any type or none.
- **Opening.**  A document is what its items do to the module: a "struct" binds a
  name, also when it lacks a member whose type is not known; a "typedef" of a type
  that is not known binds nothing (`kiaray.yy:577`); "garbled" text is skipped by
  the grammar's error recovery, a "bad token" ends the parse.  `untyped` items have
  a member, or are, of type binary or slist, for which the grammar returns no type
  and notes no error (969-970).  `faults` says that something was wrong and strict parsing will
  refuse.  `Receive(c, n)` has the failure of reading the list of servers at its
  n-th entry; what was read of that entry counts.  `crashed` is the null session
  of a failed connect.
- **Declarations.**  A frame is a call of getTypeFromDeclType with the parts it
  has looked up so far; a structure's frame names its unfinished type.  `types`
  is the world; the kinds in `Shared` are looked up in it, the others are made.  A
  member with semantics, which every pointer and char* member has (171-188), does
  not get the type that was looked up but one made for it alone, named
  "..._ANNOTATED", that refers to it (239-244, 451-453): `Annotation`.  `left` is
  history: the types that were being built when a look-up failed.
- **Negotiation.**  neg_negotiate is a loop over the local capabilities with one
  step each (`Consider`, `NegotiateRemote`), and `work` holds its locals.  The
  dictionary of remote capabilities is looked up with a pointer to a temporary
  string: `Told` and `FoundAgain` have both outcomes.  A client that is refused
  sets `client_nego` when the answer to its GET arrives (`reco_engine.cpp:192`);
  the model sets it with the refusal, which no one can see in between because
  the program does nothing else while its offer runs.
- **TrivialProtocol.**  A group of a variable length integer is a digit to the
  base `Radix` instead of 7 bits, a word has `PartRange` values instead of 2^32,
  and the integer `ValueRange` instead of 2^64; what is kept is how many groups
  fit in a part, how many parts there are, and where a part overflows its word.
  A string, a method name and a binary stream are a length and bytes.

## 4. The runs: what is checked, within which bounds

| run | instance | what it shows |
|---|---|---|
| `gc` | three objects with one member, two variables, a collection whenever the estimate exceeds 1 | exact counts; no dangling pointer; only garbage is taken; a collection that looked is complete; the collector implements `GCHeap`; every cascade ends |
| `server_program` | four addresses on one host, two services, two peers, four handlers, everything interleaved | what the program's calls leave in the vector: a listed handler is alive and alone at its address, a service registered once is removed exactly |
| `server_concurrent` | two hosts, four addresses on two ports, one service, two peers, two handlers, everything interleaved | answers go to those who asked; a thread stands before a crash only inside the call that leads there; all who ask are answered while the process lives |
| `transport` | two clients with two requests each, kt_run_server twice, callbacks that do not answer, receives that fail | an answer is the answer to the last request; one poller and no callback after stop; requests to a running server are answered unless a callback has left one unanswered; stop returns with the next request, disconnect where there is a server |
| `service_call` | two clients, three calls, three methods, one failed receive, one crash | which call an answer belongs to, at most one execution, what a status means, calls return |
| `service_functions` | three registrations of two functions for two methods with two types, one pair of which does not fit; one handler | no method leads to a destroyed object; a call runs a function registered for its method |
| `opening` | two contexts, two names, nine answers of servers, two documents loaded in between, two connections | a connection has its server's IDL, names are taken once, the endpoint is the best, every environment and URL loader has an owner |
| `declarations` | programs with two structures, a pointer, an annotated or a function type, a built-in and an unknown type, in 104 ways to refer to each other, members with and without semantics | types follow declarations, also after failures; one type is handed out per declaration, and nothing it reaches is still being built; every look-up ends |
| `negotiation` | three programs each of which may offer or serve, a web site, two profiles, two capabilities and one offer per program | the decision is the best pair seen so far, what is agreed both can do, nothing decided is withdrawn |
| `trivial_protocol` | two calls, base 2 with two groups in a part: lengths of one to six bytes; 21 argument lists, four results, errors, unknown methods, foreign requests | both encodings and all decodings of a length agree; arguments and answers arrive whole |
| `tcp_server` | two connections, two threads, two blocks, one result other than SEND_RESPONSE | no two handlers of a connection meet and answers are in order; everything is answered; run() returns after a signal |
| `http` | three messages of eight kinds cut in every way, three answers | the buffer has one reader, who waits gets the right answer, everything is answered |

Why the bounds are enough to be interesting:

- **Collector.**  A garbage cycle needs two objects; the third makes a cycle
  that hangs on another one, an object that dies while a collection that its
  own death has started runs, and a cycle that is kept alive from outside.  A
  maximum of 1 makes collections start inside destructors and inside the
  destructor of the collector.
- **Server.**  Four handlers allow an address to be added, replaced, removed
  and added again with another service in between, on a vector of up to three
  entries; one of the addresses lies below the configuration path.  Two hosts with
  one port each provide both the bind that fails and the listener that is shared.  Two peers suffice to take each other's answers.
- **Transport.**  The second kt_run_server is the one that meets the port of
  the first; the second request is the one that could get the first one's
  answer, or none because the first one's callback has left it unanswered.
- **Calls.**  A stale answer needs two calls on one connection with a failed
  receive between them; the third call is the one that gets it while another
  client is served; a crash may come between any two steps of these.
- **Functions.**  An object is destroyed by the second registration of a method;
  the third is the one that meets it through the other map.  The theorems have
  no bound.
- **Opening.**  Two documents that share a name, two that need a name of
  another, as a typedef and as a member, one with text that does not parse, one
  with the types the parser drops, two connections of one context.
- **Declarations.**  A cycle through one structure, through both, and through a
  type that is no structure; a mistake inside and outside of the cycle.
- **Negotiation.**  Two profiles with conflicting wishes, and a third program
  whose offer crosses the other two's decision in the server's one document.
- **TBP.**  The lengths lie on both sides of every change in the number of bytes
  and parts, near the end of the buffer and far from it; the second call meets
  the buffer of the first.  `VarintsAgree` is over all values and all bytes that
  may follow.
- **Asio.**  Handlers of one connection can overlap only with two threads;
  blocks can be mixed up only if there are two.
- **HTTP.**  One message that is rejected or answered early, the one that
  follows, and one more behind that.

Some properties are stated with a condition, because the code breaks them
without it; section 7 lists what lies behind the condition.
`CollectionIsComplete` is about collections that did not return at once,
`OwnAnswer` is about connections no receive of which has failed, `StatusIsReal`
has an exception for undeclared exceptions, `Returns` ends with the first crash
of the server, `TcpBlockServer`'s properties with the first result other than
SEND_RESPONSE (`Late`), `HttpConnection`'s `AnswersMatch` is about clients that
wait for their answers and send what they should (`orderly`), `ListedIsAlive` says
that no listed handler was deleted of the states between two calls of the program,
`RemovalIsExact` is about services with one address, the server's `Answered` holds
while the process lives and the transport's until a callback has left a request
unanswered (`Stuck`), the disconnect of `StopAndDisconnectReturn` and `Returns` need
a server, `CallsRunRegistered` is about programs that use a native type for one
method only, `AgreedIsShared` holds for both sides when the peer had not negotiated
with others, `SpeaksItsIdl` excepts members of type binary and slist,
`TypesFollowDeclarations` lets the types that a failed look-up has left (`left`)
lack parts, though none that they have may be wrong, and `LoadersAreOwned` counts
environments and URL loaders, where the process has not crashed.  The states beyond
the conditions are in the same state space and the other properties hold there.

`ExposedOnlyInCalls` is the other side of such a condition: the server does crash
when a request comes at the wrong moment, and the property says which moments these
are.  There are four kinds, each inside one call of addService, and none between
the calls.

Every module has a type invariant (`TypeOK`, `HttpTypeOK`, `DeclTypeOK`).  It is a
theorem of all of them but `TrivialProtocol`, where it holds in the instance of the
run (an `INVARIANT TypeOK` line in the .cfg shows it).  It is left out of the runs
because no change of the code that matters would first show there.

Deadlock is not checked where the system may stop: a program that has made its
calls is finished.  The collector's run and that of the declarations check it.

## 5. Fairness

- **Collector**: `WF(Calls)`.  A call that has started runs on, as a sequential
  program does.  The program never has to do anything.
- **Declarations**: `WF(Lookup)`, for the same reason.
- **Server**: a call of the server by the program runs to its end, and the
  thread of every listener is scheduled.  Neither the program nor a peer has to
  call or ask.
- **Transport**: threads are scheduled and ZeroMQ carries what was sent to a
  bound socket; kt_recv returns what has arrived; the destructor of a context
  returns when it may.  A receive that fails at once, because an answer is owed, is
  a step of the thread like others (`Polls`); one that is interrupted is allowed,
  never demanded.  Nobody has to run, stop, send or disconnect.
- **Calls**: the same for stubs, worker and network; ZeroMQ's fair queuing lets
  the worker take every client's request in turn (`WF(Take(c))` per client).  A
  server that has crashed comes back: the property that uses this, `Returns`,
  holds without it as well and would not be helped by it beyond the crash.
- **Asio**: handlers return, operations complete, and a completed operation is
  taken by the pool (`SF(Take(c))`: the queue of an io_service is first in,
  first out, while a thread may be busy again and again when one connection's
  turn comes).
- **HTTP**: the network delivers and the threads of the io_service run handlers.

`Opening`, `ServiceFunctions`, `Negotiation` and `TrivialProtocol` state safety
only: their programs are sequential calls without a wait in them that a property
here could be about.

## 6. Proofs

Of the collector (`CycleCollectorProofs`), for heaps of any finite size, any
finite number of members and variables, and any maximum of roots:

| theorem | says |
|---|---|
| `TypeCorrect` | every state is well typed; in particular no count and no estimate ever drops below zero |
| `CountsAreExact` | the count of an object is the number of smart pointers to it, at every step of every cascade |
| `NothingDangles` | nobody refers to an object whose destruction has started |
| `NothingLiveIsTaken` | a collection takes nothing the program can reach, wherever in a cascade it has started |
| `NothingLostStays` | when a collection that has looked for garbage comes back to the program, nothing is listed that the program cannot reach; its destructor leaves nothing when no variable keeps anything |
| `CollectorIsInvisible` | refinement: every behaviour is one of `GCHeap`, that is, each step of a destructor, of a collection or of the collector's end shows to the program as a step of its heap or not at all |
| `Invariance` | the inductive invariant below |

Assumptions, named in the modules: `FiniteAssumption` (objects, members and
variables are finitely many), `NullAssumption` (the null pointer is no object)
and `MaxAssumption` (the maximum is a number, or -1 for no automatic runs).

**The inductive invariant** `IInv` has four parts.  Types alone are not
inductive: a release could take a count below zero.  So the counts must be
exact (`RefCountExact`), with the garbage vector and the destructor's local
pointer among the holders.  Then whoever releases holds a pointer, so the count
was at least one (`PointedToIsCounted`).  That says nothing yet about an object
whose destructor runs: it has left the list, and a pointer to it would dangle.
`Listed` adds that an object with a count is on the list.  An object leaves
the list exactly when its count drops to zero, so nothing points to it
(`PointedToIsListed`).  Last, the vector of garbage: the loops "unlink" and
"free" walk over a copy of it in their frame while releases push further
frames, and one of those could be another collection.  `HeldOK` says that at
most one frame of the stack belongs to a collection, that its objects are
exactly the vector, and that `collecting_` is true exactly then; the early
return on `collecting_` is what keeps it so.

**That nothing live is taken** needs more than an invariant of the state.  The
argument is `GarbageIsNotLive`: if an object of the garbage were reachable from
a variable, there would be a first object of the garbage on that path; what
refers to it is a variable or an object outside of what the collection has
visited, so its count exceeds the links that have been counted
(`OutsideShows`), which makes it a root, and roots are not garbage.  Later
steps only cut links (`LiveShrinks`).

**That all garbage is taken** (`CInv`) depends on what the program did since the
last collection, because a collection starts only from the objects flagged as
possible roots.  `Found` says that this is enough: whatever is on the list can be
reached from a variable, a flagged object, an object whose destructor runs, or what
the collector holds.  It is kept because a release flags the object or starts its
destructor, and because only addRef takes a flag away, for somebody from whom the
object is then reachable (`KeptCloses`, `ReleaseMarks`, `AssignFound`).  So when no
destructor runs, what the program has lost hangs on flagged objects, all of which the
walk visits; an object it has visited without counting all its references is
referred to by a variable or by an object outside of the walk, and what is outside
is reached by the program (`GarbageIsAll`; `Counted`: what is on the list has a
reference).
A collection that starts inside a destructor may miss some; the property is about
those the program waits for, which are at the bottom of the stack.  From their
taking to their last free, everything listed is reachable or taken, and what is
being freed has no links any more (`BottomPart`), so each is gone when its last
reference is dropped (`FreedIsGone`), whatever the destructors in between release or
collect.  For the collector's destructor, `TearPart` says that each object still
listed has no links or is still to be visited; at the end nothing has links, and
what has a reference has it from a variable.

**That the collector implements its heap.**  What the program sees (`View`) are its
variables and the links of what it can reach.  The objects whose
memory is there are those on the list and those whose destructors are on the
stack; so the stack must be known.  `RInv`
adds to `IInv` that a destructor runs once, for one object that is off the list,
that the collector's destructor runs only when it has been entered (`StackOK`),
and that memory without an owner has no links (`Emptied`), without which a new
object could be born with somebody else's.  Then there is one lemma per way to
change the heap: an assignment of the program shows as that assignment
(`ViewMoves`, `ViewLinked`), also when the release of the old value starts a
cascade, whose first step belongs to the same action; members of an object that is
being destroyed, or that a collection has taken, are not reachable, so cutting
them shows nothing (`MemberGoneUnseen`, `ViewStays`); giving memory back shows
nothing (`MemoryGivenBack`); the vector of garbage and the local pointers are the
collector's own (`OwnPointers`).  Only its destructor cuts links of objects in
use, which `GCHeap` allows once the program has closed it.  `NextIsHeapStep` puts
them together.

Of opening a connection (`OpeningProofs`), for any contexts, names and documents,
any answers of servers, any table of priorities and any number of connections:

| theorem | says |
|---|---|
| `TypeCorrect` | every state is well typed |
| `ConnectionsSpeakTheirIdl` | a connection has every type of its server's document in its context, as the server defined it and with every member except those of type binary and slist |
| `NamesOfConnectionsDiffer` | two connections of a context have no name of their documents in common |
| `EndpointIsBest` | the endpoint of a connection is known, and none that could be read is better |
| `OwnersAreKept` | the environments and URL loaders there are belong to a connection or to the call under way, whatever has failed, unless the process has crashed; other resources of a call are not counted |
| `Invariance` | the inductive invariant below |

Assumptions: `MaxConnsAssumption`, `NoneAssumption`, `PriorityAssumption`
(priorities are integers), `DocumentAssumption` and `ConfigAssumption`
(documents and lists of servers are finite sequences of their items).

**The inductive invariant** says what a call under way has achieved so far.
`ParsedPart`: as long as the parse has met no fault, the items before the
present one are bound as defined, no name twice, and none of them is a name of
a connection's document.  `WholeDocument`: behind the parse that holds for all
items, or there is an error.  `Beginning`: a parse starts at the first item and a
choice at the first server.  `ChosenPart`: the choice is the best of the known
entries seen so far, and has been made or nothing known was seen.  A connection
is handed out at the end only without an error, which gives the three
properties, and these are kept because a bound name is never bound again.
`OwnersPart` is about what a call owns at each of its steps: an environment from the
first step of the constructor on, a loader from its connect to the end, and room
for the connection that is to come; every way out either hands both to a
connection or frees what there is.  The connections are a finite set, so one more
owner is one more in the count.

Of negotiation (`NegotiationProofs`), for any programs and web sites, any
capabilities, profiles and numbers of offers:

| theorem | says |
|---|---|
| `TypeCorrect` | every state is well typed |
| `DecisionIsBest` | at every pass of the loop of neg_negotiate the decision of a group has the greatest weight of the pairs seen so far, and there is one as soon as a weight is positive |
| `AgreementIsShared` | what is final for a program, a peer it asked can do; and so can the program itself, unless that peer had negotiated with others |
| `NothingIsWithdrawn` | nothing that was decided or taken over is withdrawn |
| `Invariance` | the inductive invariant below |

Assumptions: `BoundsAssumption`, `NoneAssumption` and `DecisionAssumption` (null is
no context, decision or state of the loop), `ProfileAssumption` (a program sets
finitely many capabilities in a row), `SiteAssumption` (a web site is not one of
the programs).

**The inductive invariant** follows a capability from the program that has it to the
one that takes it for agreed.  `WorkOK`: a loop runs for a client that waits for it
on this server, or for the program itself; so nobody else's offer is answered with
its result.  `PassOK`: it does not leave the local capabilities, which no one adds
to meanwhile.  `ToldOK`: what a program was told, and what its loop has left to
compare, somebody has told it who can do it.  `DecidedOK`: what it decided, it can
do and somebody it has heard can.  `AnswerOK`: the answer a client holds is
something its peer can do, and when the peer has decided, somebody that peer had
heard can do it too.  `HeardOK`: a program that has not served has heard only those it
asked; this is what makes "its peer heard only me" mean that both can do what was
agreed.  Capabilities are never taken back (`HasStays`), so all this survives
what the others do.  `DecisionIsBest` is the invariant of the loop: a pass compares
the present pair with the decision of its group and keeps the one with the greater
weight, while a removed or absent counterpart leaves the decision as it is.

Of registered functions (`ContextProofs`), for any methods, types,
functions and handlers and any number of registrations:

| theorem | says |
|---|---|
| `TypeCorrect` | every state is well typed |
| `MethodsStayAlive` | a method never leads to an object that was destroyed |
| `CallsReachTheirFunction` | a call runs a function registered for its method, or none when there is none |
| `Invariance` | the inductive invariant below |

Assumptions: `MaxRecordsAssumption`, `NoneAssumption` (null is no method or
function) and `NotMappedAssumption`.

**The inductive invariant.**  An object is destroyed when its method gets another
one; that leaves every other method's alive only if no two entries of the
dispatch maps, of any handlers, share an object (`Unshared`).  What a map, the
link map and the module of a handler hold comes from records it has seen
(`KnownPart`, `LinkPart`, `CodePart`); so when nothing is registered twice a new
record meets nothing that is there already, is neither skipped nor linked to
another's function (`NothingTwice`), and exactly the methods seen have an object,
with their own function (`DispatchPart`).  `StubPart` says that a type's stub is
that of a method asked for, and `CallPart` that who has served a call sees no
more records, so that what the call ran stays right.

Of the transport library (`TransportProofs`), for any clients, any number of
requests and any number of times the server is run:

| theorem | says |
|---|---|
| `TypeCorrect` | every state is well typed |
| `AnswersMatchRequests` | a client gets the answer to the request it sent last, whatever it and others asked and gave up |
| `CallbacksEnd` | no callback runs when the user data has been handed back, and one thread polls at most |
| `Invariance` | the inductive invariant below |

Assumptions: `BoundsAssumption` and `NoneAssumption` (no request is `NONE`) of
`KTZeromq`.

**The inductive invariant.**  `ServerPart`: the only thread there can be is the one
of the call that got the port, it exists only after that call, and it has ended
when the stop has returned; the user data is handed back only then.  `InboxPart`:
what waits at a socket answers the last request of a client that still waits.
The REQ socket makes that so: it drops what comes from an identity it has given
up, and a client that gives up opens another.

Of a remote call (`ServiceCallProofs`), for any clients, methods, number of calls,
failed receives and crashes:

| theorem | says |
|---|---|
| `TypeCorrect` | every state is well typed |
| `AnswersAreOwn` | until a receive of its connection fails, a call returns with the answer to itself |
| `CallsRunOnce` | no call is executed twice, and one that gave up before it was sent is not executed |
| `StatusesAreReal` | a status says what was executed for the call that was answered |
| `Invariance` | the inductive invariant below |

Assumptions: `MethodAssumption`, `BoundsAssumption` and `NoneAssumption` (no result
is `NONE`).

**The inductive invariant** is about the place of a request.  `OnePlace`: one
request or response of a connection is under way, in one of four places, and none
when its socket may send.  `DonePart`: it belongs to a call that was made, and has
been executed exactly when it is a response; so nothing runs twice.  `OwnPart`: as
long as no receive has failed, what is under way belongs to the call that waits,
although the protocol names no request in a response.  `RepliedPart` and
`StatusPart` say what a response, and then a stub, may claim; `IncompletePart` and
`AnsweredPart` settle the calls that never were sent and those that have
returned.  A failed receive only breaks `OwnPart`: all others survive it, and
crashes.

Of the block server (`TcpBlockServerProofs`), for any number of connections,
threads and blocks:

| theorem | says |
|---|---|
| `TypeCorrect` | every state is well typed |
| `BlocksAreAnsweredInOrder` | where the handler has always answered, one operation or handler of a connection is there at a time, and answers come in order with their sizes |
| `Invariance` | the inductive invariant below |

Assumption: `BoundAssumption`.

**The inductive invariant.**  `UnusedPart`: a connection that was not started does
nothing, and one that was not accepted has nothing.  `StreamPart`: what is in the
stream is what the peer sent last.  `ChainPart` is about the connections whose
handler has always answered: there is one operation or one handler (`OneChain`),
and its kind and state tell how much of the stream has been read and what the
shared members hold (`At`).  The threads are not in it: that one chain never forks
is all that keeps them apart.

Of the server (`ServiceServerProofs`), for any addresses, services, peers and
number of handlers:

| theorem | says |
|---|---|
| `TypeCorrect` | every state is well typed, the vector after each removeService included |
| `AnswersGoBack` | an answer reaches the peer whose request it was made for, whatever the program does at the same time |
| `HandlersAreAlive` | between two calls of the program no listed handler has been deleted, and an address has one handler at most |
| `RemovalKeepsTheOthers` | a service with one address is removed, and the other entries stay in their order |
| `OnlyCallsExpose` | while the server exists, a thread meets a listener without session or server, or a deleted handler in the list, only inside the call that opens that listener or replaces that handler |
| `Invariance` | the session of a listener names the peer of the request that is carried out, or nobody |

Assumptions: `AddrAssumption` (an address is of one of the two transports),
`NoneAssumption` (null is no address, service, peer or transport),
`ConfigAssumption` and `BoundAssumption`.  No theorem assumes anything about the
order in which the program and the threads take their steps.

**Whose answer.**  The one session of an http listener is named anew by every
request; what makes that safe is that its one thread takes no request between
a receive and the send.  That the thread may find a deleted handler in between does
not matter here.

**What removeService leaves.**  `Removed` is a recursive function: the memory of
the vector after each step of a walk that goes on with iterators which its own erase
has invalidated.  What it computes is shown for every vector by the least
counterexample: were there an input for which the claim fails, there would be a
first step at which it fails (`LeastOf`), and the step before leads to it.  So the
walk exists (`WalkExists`); what it leaves are entries of the vector, none twice
(`RemovedSelects`), which is enough for types and for listed handlers; and when one
entry is of the service, that one is taken out (`RemovedOne`).

**Listed handlers.**  `IdPart`: handlers are numbered as they are made, so the one
to be listed differs from those that are.  `AlivePart`: a deleted handler is in the
list only between the delete of addService and the assignment after it, and when
the server has been freed.  `UniquePart`: addService looks for the address before it appends.

**Where a thread is exposed.**  `ListenPart` says of every point of addService what
each listener has got to: one that was bound has its session and its server,
unless it is the one this call is opening.  A thread runs
only for such an endpoint, so it can meet a missing session or server in that call
only (`Network.cpp:499`, `KT_Zeromq.cpp:322`).  The rest is `AlivePart`: a deleted
handler is in the list only while addService replaces it (782), so what a thread
has found and is now deleted was replaced in between and is in the list no more.

Of declared types (`ContextProofs`), for any declarations and any look-ups in any
order:

| theorem | says |
|---|---|
| `DeclTypeCorrect` | every state is well typed |
| `TypesAreAsDeclared` | a type has the kind and, in their order, types for the parts of its declaration, behind a type of their own exactly for members with semantics; all of them, unless it is being built or was when a look-up failed |
| `TypesGivenStay` | a declaration whose type the program has got never gets another, and what is reached from that type is whole but for what failed look-ups have left |

Assumption: `ProgramsAssumption`.

**The inductive invariant** `DeclInv` is about the stack of look-ups.  `FramePart`:
a frame has the types of the first parts of its declaration, and if that is a
structure, the type that is known already has the same parts; `PartsOf` says of
each part whether the type looked up was stored or the annotation that refers to it.
`ChainPart`: each
frame looks up the next part of the one below, so that the type it returns is put
in the right place, and no two frames fill the same type.  `DonePart`: a type that
lacks parts is one a frame is at work on, or one that a failure has left.
`HandedPart`: a declaration whose type was given out is not looked up any more, so
that nothing replaces its entry; that an inner look-up of the same declaration may
have replaced it before does not matter, because only the outermost is given out.
`OldPart`: the types made until the last complete look-up refer only to each other,
and no frame is at work on one of them; so a program that follows the parts of a
type it was given never comes to one that is still growing.
The types of a world only grow, so that what was said of a type's parts stays true
(`PartsStay`, `AddType`), except for the one that gets a part (`GivePart`).

Of the HTTP connection (`TransportProofs`), for any number of messages and answers:

| theorem | says |
|---|---|
| `HttpTypeCorrect` | every state is well typed |
| `OneAtATime` | the buffer never has two readers, whatever clients send; with a client that waits for its answers, one operation is under way, and none only when the client has gone |
| `EveryRequestItsAnswer` | to a client that waits for its answers, whatever its requests and however they are cut into reads, the i-th answer is the one to the i-th request |

Assumption: `HttpBounds`.

**The inductive invariant** `HttpInv` says of a client that waits where its one
message is (`Dialogue`).  `Reading`: all answers have been received and nothing is
in the network, or the network has the last part of a message and the parser is
exactly where the first part leaves it (`At`): which header is half read, how much
of the body has come, what is in the request.  `Writing`: the response to it is on
its way and nothing else.  `Written`: it has arrived, and the next message may be
in the network before the connection reads again.  `Ended`: the client has gone.  Of
other clients only the types and `readInProgress` are in the invariant: it is true
exactly when a read is under way, which is all that keeps two apart.  What a read
does to the parser is a recursive function over the callbacks of its tokens; one
callback moves the parser from one `At` to the next (`StageStep`), and that the
whole of a read does so for every cut is again shown by the least counterexample
(`TurnsKeep`, `ParseStage`).

**Only model-checked** are:

- `VarintsAgree`, `ArgumentsArrive` and `AnswerIsWhole` of `TrivialProtocol`.  They
  are about folds over messages and about digits to a base that is a constant, and
  the prover's arithmetic is linear.
- Liveness, which is out of the prover's reach: `CallsEnd`, `Answered` and
  `StopAndDisconnectReturn`, `Returns`, `StopEnds`, `RequestsAnswered`,
  `LookupEnds`.

## 7. What the models show about the code

No run expects a violation.  What follows was met while the code was modelled;
each of it is in the models, behind the condition of a property or without one,
unless it says so.

**Collector.**  `collectCycles()` returns at once when the estimate of roots is
zero (`CycleCollector.cpp:171`), but every addRef on any object lowers the
estimate (316-320).  The test that calls it and counts objects afterwards
(`tests/collectortest.cpp:171-174`) does not meet such a heap.

**Server.**
- acceptConnection returns true before it compares (`HttpTransport.cpp:74`,
  `TcpBlockTransport.cpp:141`), so every call is given to the handler added
  first (`Network.cpp:831`), against `Network.hpp:280`.
- `Network.cpp:416` says that a port can have only one transport, but the table
  is by host and port (450): another spelling of the host reaches a bind that
  fails, and its session is dereferenced (497-499).
- A request can arrive before the server is known to its session (499), before the
  session is in the map (`KT_Zeromq.cpp:320-322`), and can find a handler that is
  being deleted (`Network.cpp:782`, 441); the configuration document is made from
  services the program changes at the same time (691).  `ExposedOnlyInCalls` says
  that these are the only moments, until `~Server`, after which every request is
  answered through a pointer to a server that is gone.
- The configuration path is compared as a prefix (550): a service whose path begins
  with it is listed in the document and cannot be reached.
- A service under several addresses: removeService's walk goes on with iterators
  that its own erase has invalidated (800), and keeps or drops the wrong entries.
- Without a model: a request that cannot be parsed leaves the response empty
  (`Network.cpp:1054-1060`), and messages leak at 1071 and in the branch before.

**Transport.**
- unbind joins a thread that is blocked in a receive without timeout
  (`KT_Zeromq.cpp:400-406`): a stop returns with the next request, if there is one.
- A callback that returns without an answer leaves a socket that receives nothing any
  more: recv fails at once, the poller's loop turns without a pause and makes a new
  message each time (231-235), and nobody is answered again.  A stop still ends.
- Without a model: the result of sending a binary payload is compared with the
  size of the other payload (`KT_Zeromq.cpp:186`).

**Calls.**
- `TcpBlockTransport.cpp:74` and `:77`: the results of send and receive
  are ignored.  After an interrupted receive the socket still has to receive:
  the next request is refused and its stub takes the answer to the call before
  for its own.
- A call whose request is lost in a crash of the server never returns, although
  the server comes back: the receive has no timeout.
- A function that returns KIARA_EXCEPTION without a declared exception type:
  the prepared `"result": null` goes out, and a caller without a result is told
  SUCCESS (`ServiceHandlerGenerator.cpp:607`).
- A native type used for two methods: the stub of the first is the stub of both,
  and the function registered first for the type is the one that runs
  (`ServiceHandlerGenerator.cpp:688`).  An object destroyed by the second
  registration of its method stays in `syncServiceFuncObjMap_`
  (`Network.cpp:999`), and the next compileServiceFunc for its function reads it.

**Opening.**
- A connect that fails is only printed (`TcpBlockTransport.cpp:209`), and the null
  session is used (`Network.cpp:142`); `kiara.h:532` lets the caller expect an
  error of the context.
- `Network.cpp:236-237` says that an endpoint is taken "only if priority is
  higher"; one of the same priority that comes later wins.
- kiaraFreeContext frees whatever the context is used by (`Core.cpp:867`, against
  `kiara.h:430`), connections included.
- A connection cannot be opened a second time in a context when the server's
  document defines a type: the first one has bound the names, and strict parsing
  refuses.
- The configuration of servers in a list ends with the first entry that cannot
  be read, and what was read of that entry stays (`ServerConfiguration.cpp:196`).
- Members and typedefs of type binary or slist: the grammar returns no type and notes
  no error (`kiaray.yy:969-970`), so strict parsing accepts a document of which these
  are missing.
- Not counted in the model: the URL of a connection (`Network.cpp:130`), its
  KT_Zeromq (137) and the session of that are not freed on any path, also when the
  connection is closed.

**Declared types.**  After a look-up that failed the cache goes on holding its
unfinished structures (`Core.cpp:420`), and the next look-up of one succeeds.

**Negotiation.**
- What a context has decided for one peer stays in the document it sends to the
  next (`registry.c:236`), and json_object_update never changes it.
- The weight `l*r + (l - r)` (`negotiation.c:207`) is not symmetric: the two sides
  may weigh the same pairs differently.  Which of the two decides matters.
- `client_nego` is never lowered (`reco_engine.cpp:192`): who was refused once
  refuses the offers of others.
- neg_run_server starts its thread before the session has its context: a request
  in between dereferences null (`reco_engine.cpp:75`).

**TBP.**  Without a model: readMessage_user_string passes an uninitialised
pointer to readMessage_string, which frees it first.

**Asio and HTTP.**
- `Transport.hpp:109-110` says of start() "Start the first asynchronous operation
  for the connection. Don't call multiple times !!!";
  `TcpBlockTransport.cpp:427` calls it in the middle of a chain and writes all
  the same.
- `Transport.hpp:173` says that the strand keeps the handlers of a connection
  apart; the reads of `TcpBlockTransport.cpp:384-408` do not go through it.
  `AnswersInOrder` holds because there is only ever one operation.
- `HttpRequestParser::reset()` (`HttpRequestParser.hpp:31`, "Reset to initial
  parser state"; `.cpp:51`) leaves `lastWasValue` and `header`, and a header of a
  request that was rejected turns up in the next.
- An `Expect` header is answered (`HttpTransport.cpp:348`) from the same
  `response_` that the final answer replaces, two completions start the next
  round, and a value other than 100-continue is refused while the request is
  carried out.
- After a request that was rejected in its first byte nothing of the buffer is
  kept, otherwise the rest is parsed as a new request, again and again.

## 8. Plan

Done, in this order: the collector with its abstract heap and the proof of its
safety; the server; the transport under it; the call from stub to function; the
Asio server; the HTTP connection; the negotiation; declared types; registered
functions with their proofs; contexts, documents and connections with their
proofs; the trivial protocol.

Also done: the proofs of the transport, of calls, of the block server, of
negotiation, of the server, of declared types and of the HTTP connection, and that
the collector takes all garbage and implements its abstract heap.

Theorem worth proving next: `ArgumentsArrive` of `TrivialProtocol`, the one safety
property left whose proof needs more than the installed provers have (induction
over the fields of a message, and digits to a base).

Models worth adding: the synchronous side of `TcpBlockConnection` (send, receive
and their framing) against `TcpBlockServer`; publish and subscribe, once
something uses it.

## 9. What is not modelled

- The text of JSON-RPC: what travels is which call a message belongs to and which
  of three kinds it is.  FastCDR, ORTE-CDR, binaryio and the loopback component:
  thin layers over third-party serialisers or a copy per operation.
- The compiler from IDL and native declarations to machine code: it is
  sequential, and what it produces is defined by LLVM.  That is most of the
  source: `LLVM/AsmParser` is a copy of LLVM's, `lemon.c` and `http_parser.c` are
  third party.  What is modelled of it is the order of the steps of a stub and of
  a skeleton (`ServiceCall`), the names of generated functions
  (`ServiceFunctions`) and what the grammar's actions bind (`Opening`).
- TBP: writeVarint64's fast path is never reached by a stub, because a written
  message ends at its offset; it is in `VarintsAgree`.  Begin and end of
  structures write nothing.
- RunServer's return after sleep(600), the dump functions of the collector, and C
  functions that read a field.
- Errors that change nothing the models have: of connect (`KT_Zeromq.cpp:82-152`), of
  the connect, send and receive of the negotiation's client (`RecoClient`), a
  getaddrinfo that returns 1, a request that does not parse
  (`Network.cpp:1054-1061`).
- Calls no program should make: a second kt_stop_server, or one before the server
  runs.  Of RunServer, a bind that fails and begin() of an empty map.  That the plain
  bool `interupted` is seen by the poller at some time is assumed.
- startAccept with a connection that was not made (`Server.cpp:109-115`).
- Lengths near 2^64 in foreign TBP messages: offset + size (`kr_dbuffer.c:349`) and
  malloc(len + 1) (`tbp.c:1088`) wrap there.  The comparison with what is left is
  exact in the model; the scaled numbers have no word that the buffer's offset shares.
- File serving, MIME types, HTTP messages as text, URL loading, string and
  base64 helpers, the header preprocessor: input, output and text.
- ZeroMQ, Boost.Asio, http_parser, jansson and LLVM are external; of the first
  four the models have what the code relies on.
- Memory exhaustion and exceptions out of Boost or the standard library, except
  the failure of bind.
