--------------------------- MODULE ServiceServer ---------------------------
(***************************************************************************)
(* The server side of KIARA (Impl/Network.cpp: class Server and its two    *)
(* callback handlers).  The program creates a server, adds and removes     *)
(* services; every host and port a service names gets a ZeroMQ listener    *)
(* with a thread of its own, which takes the requests of the peers, looks  *)
(* for a service handler and sends what the handler answers.               *)
(*                                                                         *)
(* The threads share transportEntries_, serviceHandlers_ and services_     *)
(* with the program without a lock.  Every action is what a thread does    *)
(* between two points at which another thread can be seen to interfere.    *)
(***************************************************************************)
EXTENDS Integers, Sequences, FiniteSets

CONSTANTS
  Addr,         (* service addresses: [transport, host, port, path]        *)
  ConfigAddr,   (* where the configuration document is served              *)
  ConfigPaths,  (* the paths that begin with that of ConfigAddr            *)
  Service,      (* the services of the program                             *)
  Peer,         (* connections of remote peers                             *)
  MaxHandlers,  (* bound: service handlers the program ever creates        *)
  NONE

ASSUME ConfigAssumption ==
  ConfigAddr \in Addr /\ ConfigAddr.transport = "http" /\ ConfigAddr.path \in ConfigPaths
ASSUME BoundAssumption == MaxHandlers \in Nat

Endpoint(a) == <<a.host, a.port>>
Endpoints == {Endpoint(a) : a \in Addr}
Transports == {"http", "tcp"}

ASSUME AddrAssumption == \A a \in Addr : a.transport \in Transports
ASSUME NoneAssumption ==
  NONE \notin Addr /\ NONE \notin Service /\ NONE \notin Peer /\ NONE \notin Transports

Handler == 1..MaxHandlers

VARIABLES
  entries,   (* transportEntries_                                          *)
  listener,  (* what the ZeroMQ side of an endpoint has got to             *)
  userData,  (* endpoints whose session has k_user_data                    *)
  vector,    (* serviceHandlers_: [addr, id, service]                      *)
  freed,     (* handlers that have been deleted                            *)
  used,      (* number of handlers created                                 *)
  services,  (* services_                                                  *)
  app,       (* where the program is in its call of the server             *)
  thread,    (* where the thread of each endpoint is                       *)
  identity,  (* the peer the session of an endpoint names                  *)
  inbox,     (* requests that wait at an endpoint                          *)
  asked,     (* the address a peer waits for an answer from                *)
  answer,    (* the last answer a peer has got                             *)
  crashed    (* the process has done what it does not survive              *)

serverVars == <<entries, listener, userData, vector, freed, used, services, app>>
threadVars == <<thread, identity>>
peerVars == <<inbox, asked, answer>>
vars == <<serverVars, threadVars, peerVars, crashed>>

Idle == [pc |-> "idle", addr |-> NONE, service |-> NONE, id |-> 0]
Waiting == [pc |-> "recv", peer |-> NONE, addr |-> NONE, found |-> 0, reply |-> NONE]

(* An answer: the peer whose request it was made for, and what it is.      *)
Answer(p, kind) == [for |-> p, kind |-> kind]

Running == crashed = "no"

(* equals(): the transport, the host and the port, and for http the path.  *)
Equals(a, b) ==
  /\ a.transport = b.transport
  /\ Endpoint(a) = Endpoint(b)
  /\ a.transport = "http" => a.path = b.path

(* acceptConnection() of both transports returns true at once.             *)
Accepts(registered, wanted) == TRUE

-----------------------------------------------------------------------------
(* The program. *)

(* A new handler is made for the service; the errors of the URL, of the    *)
(* transport and of the handler return before anything is changed.         *)
AddService(a, s) ==
  /\ Running
  /\ app = Idle
  /\ used < MaxHandlers
  /\ used' = used + 1
  /\ app' = [pc |-> "listen", addr |-> a, service |-> s, id |-> used']
  /\ UNCHANGED <<entries, listener, userData, vector, freed, services,
                 threadVars, peerVars, crashed>>

(* What comes after addPortListener: the constructor has nothing to do.    *)
AfterListen == IF app.service = NONE THEN Idle ELSE [app EXCEPT !.pc = "register"]

(* Two sockets cannot listen on one port.  *)
PortTaken(e) == \E x \in Endpoints : x[2] = e[2] /\ listener[x] # "none"

(* addPortListener: up to and including bind().  The result of bind is not *)
(* looked at: a session that is not there is dereferenced, or the proxy    *)
(* thread throws.                                                          *)
Listen ==
  LET e == Endpoint(app.addr)
  IN /\ Running /\ app.pc = "listen"
     /\ \/ /\ entries[e] # NONE
           /\ app' = IF entries[e] = app.addr.transport THEN AfterListen ELSE Idle
           /\ UNCHANGED <<entries, listener, crashed>>
        \/ /\ entries[e] = NONE /\ ~PortTaken(e)
           /\ entries' = [entries EXCEPT ![e] = app.addr.transport]
           /\ listener' = [listener EXCEPT ![e] =
                             IF app.addr.transport = "tcp" THEN "proxy" ELSE "open"]
           /\ app' = [app EXCEPT !.pc =
                        IF app.addr.transport = "tcp" THEN "session" ELSE "userdata"]
           /\ UNCHANGED crashed
        \/ /\ entries[e] = NONE /\ PortTaken(e)
           /\ entries' = [entries EXCEPT ![e] = app.addr.transport]
           /\ crashed' = "bind failed"
           /\ UNCHANGED <<listener, app>>
     /\ UNCHANGED <<userData, vector, freed, used, services, threadVars, peerVars>>

(* bind() of the multithreaded kind puts its session into the map after it *)
(* has started the thread.                                                 *)
InsertSession ==
  /\ Running
  /\ app.pc = "session"
  /\ listener' = [listener EXCEPT ![Endpoint(app.addr)] = "open"]
  /\ app' = [app EXCEPT !.pc = "userdata"]
  /\ UNCHANGED <<entries, userData, vector, freed, used, services, crashed,
                 threadVars, peerVars>>

\* Mutant: the session of the configuration listener gets the pointer.
SetUserDataOfConfig ==
  /\ Running
  /\ app.pc = "userdata"
  /\ userData' = userData \cup {Endpoint(ConfigAddr)}
  /\ app' = AfterListen
  /\ UNCHANGED <<entries, listener, vector, freed, used, services, crashed,
                 threadVars, peerVars>>

SetUserData ==
  /\ Running
  /\ app.pc = "userdata"
  /\ userData' = userData \cup {Endpoint(app.addr)}
  /\ app' = AfterListen
  /\ UNCHANGED <<entries, listener, vector, freed, used, services, crashed,
                 threadVars, peerVars>>

(* A change of the vector under a thread that walks it may move what the   *)
(* thread reads.                                                           *)
Walking == \E e \in Endpoints : thread[e].pc \in {"config", "find"}
WalksSurvive ==
  \/ UNCHANGED crashed
  \/ Walking /\ vector' # vector /\ crashed' = "list changed"

Entry == [addr |-> app.addr, id |-> app.id, service |-> app.service]

(* The end of addService: the handler of an equal address is deleted and   *)
(* its place is taken, or the handler is added to the end.                 *)
Register ==
  /\ Running
  /\ app.pc = "register"
  /\ \/ \E i \in DOMAIN vector :
           /\ Equals(vector[i].addr, app.addr)
           /\ \A j \in 1..(i - 1) : ~Equals(vector[j].addr, app.addr)
           /\ freed' = freed \cup {vector[i].id}
           /\ app' = [app EXCEPT !.pc = "replace"]
           /\ UNCHANGED <<vector, services, crashed>>
     \/ /\ \A i \in DOMAIN vector : ~Equals(vector[i].addr, app.addr)
        /\ vector' = Append(vector, Entry)
        /\ services' = services \cup {app.service}
        /\ app' = Idle
        /\ WalksSurvive
        /\ UNCHANGED freed
  /\ UNCHANGED <<entries, listener, userData, used, threadVars, peerVars>>

\* Mutant: the pointer to the deleted handler stays in the vector.
ReplaceNothing ==
  /\ Running
  /\ app.pc = "replace"
  /\ services' = services \cup {app.service}
  /\ app' = Idle
  /\ UNCHANGED <<entries, listener, userData, vector, freed, used, crashed,
                 threadVars, peerVars>>

Replace ==
  /\ Running
  /\ app.pc = "replace"
  /\ \E i \in DOMAIN vector :
        /\ vector[i].id \in freed
        /\ vector' = [vector EXCEPT ![i] = [@ EXCEPT !.id = app.id, !.service = app.service]]
  /\ services' = services \cup {app.service}
  /\ app' = Idle
  /\ WalksSurvive
  /\ UNCHANGED <<entries, listener, userData, freed, used, threadVars, peerVars>>

(* removeService erases from a vector while it walks to the end the vector *)
(* had at the start.  slots is the memory of the vector and size its       *)
(* current size; an erase at or behind the new end moves nothing and drops *)
(* the last element.                                                       *)
EraseAt(m, i) ==
  [slots |-> [j \in DOMAIN m.slots |->
                IF i =< j /\ j < m.size THEN m.slots[j + 1] ELSE m.slots[j]],
   size |-> m.size - 1]

\* Mutant: the iterator is advanced before the erase.
RemovedNext(v, s) ==
  LET walk[i \in 0..Len(v)] ==
        IF i = 0 THEN [slots |-> v, size |-> Len(v)]
        ELSE IF walk[i - 1].slots[i].service = s THEN EraseAt(walk[i - 1], i + 1)
        ELSE walk[i - 1]
  IN SubSeq(walk[Len(v)].slots, 1, walk[Len(v)].size)

Removed(v, s) ==
  LET walk[i \in 0..Len(v)] ==
        IF i = 0 THEN [slots |-> v, size |-> Len(v)]
        ELSE IF walk[i - 1].slots[i].service = s THEN EraseAt(walk[i - 1], i)
        ELSE walk[i - 1]
  IN SubSeq(walk[Len(v)].slots, 1, walk[Len(v)].size)

RemoveService(s) ==
  /\ Running
  /\ app = Idle
  /\ vector' = Removed(vector, s)
  /\ services' = services \ {s}
  /\ WalksSurvive
  /\ UNCHANGED <<entries, listener, userData, freed, used, app, threadVars, peerVars>>

(* ~Server deletes the handlers.  Nobody tells the listeners: their        *)
(* threads, sessions and the pointers to the server stay.                  *)
FreeServer ==
  /\ Running
  /\ app = Idle
  /\ freed' = freed \cup {vector[i].id : i \in DOMAIN vector}
  /\ app' = [Idle EXCEPT !.pc = "gone"]
  /\ UNCHANGED <<entries, listener, userData, vector, used, services,
                 threadVars, peerVars, crashed>>

-----------------------------------------------------------------------------
(* The thread of an endpoint: the poller, or the proxy and its worker.     *)

\* Mutant: only the first peer's identity is stored.
RecvFirstIdentity(e) ==
  /\ Running
  /\ thread[e] = Waiting
  /\ inbox[e] # <<>>
  /\ LET r == Head(inbox[e])
     IN /\ listener[e] = "open"
        /\ thread' = [thread EXCEPT ![e] =
                        [Waiting EXCEPT !.pc = "callback", !.peer = r.peer, !.addr = r.addr]]
        /\ identity' = [identity EXCEPT ![e] =
                          IF entries[e] = "http" /\ @ = NONE THEN r.peer ELSE @]
        /\ inbox' = [inbox EXCEPT ![e] = Tail(@)]
  /\ UNCHANGED <<asked, answer, crashed, serverVars>>

(* recv() stores the identity of the sender in the session of the listener *)
(* (http); the worker of a tcp listener looks its session up instead.      *)
Recv(e) ==
  /\ Running
  /\ thread[e] = Waiting
  /\ inbox[e] # <<>>
  /\ LET r == Head(inbox[e])
     IN \/ /\ entries[e] = "tcp" /\ listener[e] = "proxy"
           /\ crashed' = "no session"
           /\ UNCHANGED <<thread, identity, inbox>>
        \/ /\ listener[e] = "open"
           /\ thread' = [thread EXCEPT ![e] =
                           [Waiting EXCEPT !.pc = "callback", !.peer = r.peer, !.addr = r.addr]]
           /\ identity' = [identity EXCEPT ![e] = IF entries[e] = "http" THEN r.peer ELSE NONE]
           /\ inbox' = [inbox EXCEPT ![e] = Tail(@)]
           /\ UNCHANGED crashed
  /\ UNCHANGED <<asked, answer, serverVars>>

(* callback_handler, callback_handler_mt: the server is what k_user_data   *)
(* points to; http requests below the configuration path get the document. *)
Callback(e) ==
  /\ Running
  /\ thread[e].pc = "callback"
  /\ \/ /\ e \notin userData \/ app.pc = "gone"
        /\ crashed' = "no server"
        /\ UNCHANGED thread
     \/ /\ e \in userData /\ app.pc # "gone"
        /\ thread' = [thread EXCEPT ![e].pc =
                        IF entries[e] = "http" /\ thread[e].addr.path \in ConfigPaths
                        THEN "config" ELSE "find"]
        /\ UNCHANGED crashed
  /\ UNCHANGED <<identity, peerVars, serverVars>>

(* generateServerConfiguration: each listed handler is asked for its part  *)
(* of the document.                                                        *)
Configured(e) ==
  /\ Running
  /\ thread[e].pc = "config"
  /\ \/ /\ \E i \in DOMAIN vector : vector[i].id \in freed
        /\ crashed' = "deleted handler"
        /\ UNCHANGED thread
     \/ /\ \A i \in DOMAIN vector : vector[i].id \notin freed
        /\ thread' = [thread EXCEPT ![e].pc = "reply",
                                    ![e].reply = Answer(thread[e].peer, "configuration")]
        /\ UNCHANGED crashed
  /\ UNCHANGED <<identity, peerVars, serverVars>>

\* Mutant: nothing is sent when no handler is found.
FindOrDrop(e) ==
  /\ Running
  /\ thread[e].pc = "find"
  /\ \/ \E i \in DOMAIN vector :
           /\ i = 1
           /\ thread' = [thread EXCEPT ![e].pc = "call", ![e].found = vector[i].id]
     \/ /\ vector = <<>>
        /\ thread' = [thread EXCEPT ![e] = Waiting]
  /\ UNCHANGED <<identity, peerVars, crashed, serverVars>>

(* findAcceptingServiceHandler: the first handler that accepts.  Without   *)
(* one the answer is empty.                                                *)
Find(e) ==
  /\ Running
  /\ thread[e].pc = "find"
  /\ \/ \E i \in DOMAIN vector :
           /\ Accepts(vector[i].addr, thread[e].addr)
           /\ \A j \in 1..(i - 1) : ~Accepts(vector[j].addr, thread[e].addr)
           /\ thread' = [thread EXCEPT ![e].pc = "call", ![e].found = vector[i].id]
     \/ /\ \A i \in DOMAIN vector : ~Accepts(vector[i].addr, thread[e].addr)
        /\ thread' = [thread EXCEPT ![e].pc = "reply",
                                    ![e].reply = Answer(thread[e].peer, "empty")]
  /\ UNCHANGED <<identity, peerVars, crashed, serverVars>>

(* performCallZmq on the handler that was found.                           *)
Call(e) ==
  /\ Running
  /\ thread[e].pc = "call"
  /\ \/ /\ thread[e].found \in freed
        /\ crashed' = "deleted handler"
        /\ UNCHANGED thread
     \/ /\ thread[e].found \notin freed
        /\ thread' = [thread EXCEPT ![e].pc = "reply",
                                    ![e].reply = Answer(thread[e].peer, "result")]
        /\ UNCHANGED crashed
  /\ UNCHANGED <<identity, peerVars, serverVars>>

(* send(): to the identity in the session, or back along the request.  What *)
(* is sent to a peer that is not waiting is dropped.                       *)
Reply(e) ==
  LET p == IF identity[e] = NONE THEN thread[e].peer ELSE identity[e]
  IN /\ Running /\ thread[e].pc = "reply"
     /\ thread' = [thread EXCEPT ![e] = Waiting]
     /\ IF asked[p] # NONE
        THEN /\ answer' = [answer EXCEPT ![p] = thread[e].reply]
             /\ asked' = [asked EXCEPT ![p] = NONE]
        ELSE UNCHANGED <<answer, asked>>
     /\ UNCHANGED <<identity, inbox, crashed, serverVars>>

-----------------------------------------------------------------------------
(* A peer sends a request to an address whose endpoint listens and waits.  *)
Send(p, a) ==
  /\ Running
  /\ asked[p] = NONE
  /\ listener[Endpoint(a)] # "none"
  /\ entries[Endpoint(a)] = a.transport
  /\ asked' = [asked EXCEPT ![p] = a]
  /\ answer' = [answer EXCEPT ![p] = NONE]
  /\ inbox' = [inbox EXCEPT ![Endpoint(a)] = Append(@, [peer |-> p, addr |-> a])]
  /\ UNCHANGED <<serverVars, threadVars, crashed>>

Init ==
  /\ entries = [e \in Endpoints |-> NONE]
  /\ listener = [e \in Endpoints |-> "none"]
  /\ userData = {}
  /\ vector = <<>>
  /\ freed = {}
  /\ used = 0
  /\ services = {}
  /\ app = [Idle EXCEPT !.pc = "listen", !.addr = ConfigAddr]
  /\ thread = [e \in Endpoints |-> Waiting]
  /\ identity = [e \in Endpoints |-> NONE]
  /\ inbox = [e \in Endpoints |-> <<>>]
  /\ asked = [p \in Peer |-> NONE]
  /\ answer = [p \in Peer |-> NONE]
  /\ crashed = "no"

AppStep == Listen \/ InsertSession \/ SetUserData \/ Register \/ Replace

ThreadStep(e) == Recv(e) \/ Callback(e) \/ Configured(e) \/ Find(e) \/ Call(e) \/ Reply(e)

Next ==
  \/ \E a \in Addr \ {ConfigAddr}, s \in Service : AddService(a, s)
  \/ \E s \in Service : RemoveService(s)
  \/ FreeServer
  \/ AppStep
  \/ \E e \in Endpoints : ThreadStep(e)
  \/ \E p \in Peer, a \in Addr : Send(p, a)

(* A call of the server runs to its end, and every thread is scheduled.    *)
Fairness == WF_vars(AppStep) /\ \A e \in Endpoints : WF_vars(ThreadStep(e))

Spec == Init /\ [][Next]_vars /\ Fairness

-----------------------------------------------------------------------------
Entries == [addr : Addr, id : Handler, service : Service]
Answers == [for : Peer, kind : {"configuration", "empty", "result"}]
Calls == [pc : {"idle", "listen", "session", "userdata", "register", "replace", "gone"},
          addr : Addr \cup {NONE}, service : Service \cup {NONE}, id : 0..MaxHandlers]
Threads == [pc : {"recv", "callback", "config", "find", "call", "reply"},
            peer : Peer \cup {NONE}, addr : Addr \cup {NONE}, found : 0..MaxHandlers,
            reply : Answers \cup {NONE}]

TypeOK ==
  /\ entries \in [Endpoints -> Transports \cup {NONE}]
  /\ listener \in [Endpoints -> {"none", "proxy", "open"}]
  /\ userData \subseteq Endpoints
  /\ vector \in Seq(Entries)
  /\ freed \subseteq Handler
  /\ used \in 0..MaxHandlers
  /\ services \subseteq Service
  /\ app \in Calls /\ thread \in [Endpoints -> Threads]
  /\ inbox \in [Endpoints -> Seq([peer : Peer, addr : Addr])]
  /\ answer \in [Peer -> Answers \cup {NONE}]
  /\ identity \in [Endpoints -> Peer \cup {NONE}]
  /\ asked \in [Peer -> Addr \cup {NONE}]
  /\ crashed \in {"no", "bind failed", "no session", "no server", "deleted handler",
                  "list changed"}

(* Whoever gets an answer asked for it: the session of a listener is       *)
(* shared by all its peers, and the identity in it is overwritten by every *)
(* request.                                                                *)
AnswersBelong == \A p \in Peer : answer[p] # NONE => answer[p].for = p

(* Between the calls of the program no listed handler has been deleted, so *)
(* no request finds one; and an address has at most one handler, also when *)
(* it was added again or services were removed in between.                 *)
ListedIsAlive ==
  /\ app = Idle => \A i \in DOMAIN vector : vector[i].id \notin freed
  /\ \A i, j \in DOMAIN vector : Equals(vector[i].addr, vector[j].addr) => i = j

(* While the server exists a thread stands before a step the process does  *)
(* not survive only within the call of addService that leads there: while  *)
(* its own listener is being opened (Network.cpp:499, KT_Zeromq.cpp:322),  *)
(* while a handler is being replaced (782), or with a handler that was     *)
(* found before it was replaced.  Between the calls every listener has its *)
(* session and its server, whoever asks at whatever moment.                *)
ExposedOnlyInCalls ==
  Running /\ app.pc # "gone" => \A e \in Endpoints :
    /\ thread[e] = Waiting /\ inbox[e] # <<>> /\ listener[e] # "open"
         => app.pc = "session" /\ Endpoint(app.addr) = e
    /\ thread[e].pc = "callback" /\ e \notin userData
         => app.pc = "userdata" /\ Endpoint(app.addr) = e
    /\ thread[e].pc = "config" /\ (\E i \in DOMAIN vector : vector[i].id \in freed)
         => app.pc = "replace"
    /\ thread[e].pc = "call" /\ thread[e].found \in freed
         => app.pc = "replace" \/ \A i \in DOMAIN vector : vector[i].id # thread[e].found

(* A service that is registered once is removed, alone, although the       *)
(* iterators that removeService uses are invalid after the first erase.    *)
RemovalIsExact ==
  [][\A s \in services \ services', i \in DOMAIN vector :
        (\A j \in DOMAIN vector : vector[j].service = s <=> j = i)
          => vector' = SubSeq(vector, 1, i - 1) \o SubSeq(vector, i + 1, Len(vector))]_vars

(* Every request gets an answer, an empty one if there is no handler, as   *)
(* long as the process lives.                                              *)
Answered == \A p \in Peer : asked[p] # NONE ~> asked[p] = NONE \/ ~Running

=============================================================================
