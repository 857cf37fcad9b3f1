------------------------------ MODULE KTZeromq ------------------------------
(***************************************************************************)
(* The request/reply transport library (Transport/KT_Zeromq.cpp and its C  *)
(* wrapper k_transport.cpp): one server connection, whose poller thread    *)
(* hands every message to a callback, and clients that connect, send,      *)
(* receive and disconnect.  The sockets are ZeroMQ's REQ and REP: external *)
(* code, modelled by what connect(), send() and recv() rely on.            *)
(***************************************************************************)
EXTENDS Integers, Sequences, FiniteSets

CONSTANTS
  Client,       (* programs that use the client functions                  *)
  MaxRuns,      (* bound: calls of kt_run_server                           *)
  MaxRequests,  (* bound: messages a client sends                          *)
  NONE

ASSUME BoundsAssumption == MaxRuns \in Nat \ {0} /\ MaxRequests \in Nat

Run == 1..MaxRuns
Request == [client : Client, number : 1..MaxRequests]
ASSUME NoneAssumption == NONE \notin Request

VARIABLES
  program,     (* where the server's program is                            *)
  runs,        (* calls of kt_run_server so far                            *)
  bound,       (* the call whose socket holds the port, 0 if none          *)
  interupted,  (* KT_Zeromq::interupted                                    *)
  poller,      (* the poller thread each call has started                  *)
  serving,     (* the request the REP socket must answer before the next   *)
  userData,    (* k_user_data of the session: none, set, or handed back    *)
  client,      (* where each client is in its calls                        *)
  number,      (* requests a client has sent                               *)
  outbox,      (* sent by a client and not yet with the server             *)
  queue,       (* requests that have arrived at the server's socket        *)
  inbox,       (* answers that have arrived at a client's socket           *)
  got          (* what a client's last kt_recv returned                    *)

serverVars == <<program, runs, bound, interupted, poller, serving, userData>>
clientVars == <<client, number, outbox, inbox, got>>
vars == <<serverVars, clientVars, queue>>

Current(c) == [client |-> c, number |-> number[c]]
Alive(r) == poller[r] \notin {"none", "ended"}

Init ==
  /\ program = "ready" /\ runs = 0 /\ bound = 0
  /\ interupted = FALSE
  /\ poller = [r \in Run |-> "none"]
  /\ serving = NONE /\ userData = "none"
  /\ client = [c \in Client |-> "apart"]
  /\ number = [c \in Client |-> 0]
  /\ outbox = [c \in Client |-> NONE]
  /\ queue = <<>>
  /\ inbox = [c \in Client |-> NONE]
  /\ got = [c \in Client |-> NONE]

-----------------------------------------------------------------------------
(* The server's program. *)

(* kt_run_server up to zmq_bind.  unbind() never closes a socket, so the   *)
(* port of an earlier call is still taken and the call returns -1.         *)
Bind ==
  /\ program \in {"ready", "running", "stopped"} /\ runs < MaxRuns
  /\ runs' = runs + 1
  /\ \/ bound = 0 /\ bound' = runs' /\ program' = "bound"
     \/ bound # 0 /\ UNCHANGED <<bound, program>>
  /\ UNCHANGED <<interupted, poller, serving, userData, clientVars, queue>>

(* The rest of bind(): the thread is started.                              *)
StartPoller ==
  /\ program = "bound"
  /\ interupted' = FALSE
  /\ poller' = [poller EXCEPT ![runs] = "check"]
  /\ program' = "running"
  /\ UNCHANGED <<runs, bound, serving, userData, clientVars, queue>>

(* The session is known only after the server runs, so its user data is    *)
(* set behind the back of the poller.                                      *)
SetUserData ==
  /\ program = "running" /\ userData = "none"
  /\ userData' = "set"
  /\ UNCHANGED <<program, runs, bound, interupted, poller, serving, clientVars, queue>>

\* Mutant: the poller is not waited for.
UnbindWithoutJoin ==
  /\ program = "running"
  /\ interupted' = TRUE
  /\ program' = "stopped"
  /\ userData' = "returned"
  /\ UNCHANGED <<runs, bound, poller, serving, clientVars, queue>>

(* kt_stop_server: unbind() raises the flag and joins the thread.          *)
Unbind ==
  /\ program = "running"
  /\ interupted' = TRUE
  /\ program' = "joining"
  /\ UNCHANGED <<runs, bound, poller, serving, userData, clientVars, queue>>

(* The thread has ended and kt_stop_server hands the user data back.       *)
Joined ==
  /\ program = "joining"
  /\ poller[bound] = "ended"
  /\ program' = "stopped"
  /\ userData' = "returned"
  /\ UNCHANGED <<runs, bound, interupted, poller, serving, clientVars, queue>>

-----------------------------------------------------------------------------
(* The poller thread of a call. *)

\* Mutant: the loop does not look at the flag.
CheckNothing(r) ==
  /\ poller[r] = "check"
  /\ poller' = [poller EXCEPT ![r] = "recv"]
  /\ UNCHANGED <<program, runs, bound, interupted, serving, userData, clientVars, queue>>

(* The condition of the loop.  *)
Check(r) ==
  /\ poller[r] = "check"
  /\ poller' = [poller EXCEPT ![r] = IF interupted THEN "ended" ELSE "recv"]
  /\ UNCHANGED <<program, runs, bound, interupted, serving, userData, clientVars, queue>>

(* recv() blocks until there is a message.  The REP socket remembers who   *)
(* sent it, and receives nothing else until that is answered.              *)
Recv(r) ==
  /\ poller[r] = "recv" /\ queue # <<>> /\ serving = NONE
  /\ serving' = Head(queue)
  /\ queue' = Tail(queue)
  /\ poller' = [poller EXCEPT ![r] = "callback"]
  /\ UNCHANGED <<program, runs, bound, interupted, userData, clientVars>>

(* recv() fails, at once when an answer is owed, or when a wait is         *)
(* interrupted, and the loop goes on.                                      *)
RecvFails(r) ==
  /\ poller[r] = "recv" /\ (serving # NONE \/ queue = <<>>)
  /\ poller' = [poller EXCEPT ![r] = "check"]
  /\ UNCHANGED <<program, runs, bound, interupted, serving, userData, clientVars, queue>>

(* The answer goes to the client of the request, and is dropped if that    *)
(* socket has been closed.                                                 *)
AnswerArrives ==
  /\ \/ /\ client[serving.client] = "waiting"
        /\ number[serving.client] = serving.number
        /\ inbox' = [inbox EXCEPT ![serving.client] = serving]
     \/ /\ \/ client[serving.client] # "waiting"
           \/ number[serving.client] # serving.number
        /\ UNCHANGED inbox
  /\ serving' = NONE

\* Mutant: the thread handles one message and ends.
CallbackOnce(r) ==
  /\ poller[r] = "callback"
  /\ AnswerArrives \/ UNCHANGED <<inbox, serving>>
  /\ poller' = [poller EXCEPT ![r] = "ended"]
  /\ UNCHANGED <<program, runs, bound, interupted, userData, client, number, outbox, got, queue>>

(* The callback sends an answer, or returns without one.                   *)
Callback(r) ==
  /\ poller[r] = "callback"
  /\ AnswerArrives \/ UNCHANGED <<inbox, serving>>
  /\ poller' = [poller EXCEPT ![r] = "check"]
  /\ UNCHANGED <<program, runs, bound, interupted, userData, client, number, outbox, got, queue>>

-----------------------------------------------------------------------------
(* The clients. *)

(* A kt_connect that fails leaves the client where it is: no step.         *)
Connect(c) ==
  /\ client[c] = "apart"
  /\ client' = [client EXCEPT ![c] = "connected"]
  /\ got' = [got EXCEPT ![c] = NONE]
  /\ UNCHANGED <<serverVars, number, outbox, inbox, queue>>

(* kt_send on a REQ socket; a second one before the answer returns -1 and  *)
(* changes nothing.                                                        *)
Send(c) ==
  /\ client[c] = "connected" /\ number[c] < MaxRequests
  /\ number' = [number EXCEPT ![c] = @ + 1]
  /\ outbox' = [outbox EXCEPT ![c] = Current(c)']
  /\ client' = [client EXCEPT ![c] = "waiting"]
  /\ UNCHANGED <<serverVars, inbox, got, queue>>

(* ZeroMQ carries a request to the bound socket. *)
Deliver(c) ==
  /\ outbox[c] # NONE /\ bound # 0
  /\ queue' = Append(queue, outbox[c])
  /\ outbox' = [outbox EXCEPT ![c] = NONE]
  /\ UNCHANGED <<serverVars, client, number, inbox, got>>

Receive(c) ==
  /\ client[c] = "waiting" /\ inbox[c] # NONE
  /\ got' = [got EXCEPT ![c] = inbox[c]]
  /\ inbox' = [inbox EXCEPT ![c] = NONE]
  /\ client' = [client EXCEPT ![c] = "connected"]
  /\ UNCHANGED <<serverVars, number, outbox, queue>>

(* kt_recv returns null: the wait is interrupted, or the client has sent   *)
(* nothing that could be answered.                                         *)
ReceiveFails(c) ==
  /\ client[c] \in {"connected", "waiting"}
  /\ got' = [got EXCEPT ![c] = NONE]
  /\ UNCHANGED <<serverVars, client, number, outbox, inbox, queue>>

\* Mutant: what arrived for the old socket is left for the next one.
CloseAndKeep(c) ==
  /\ client[c] \in {"connected", "waiting"}
  /\ client' = [client EXCEPT ![c] = "closing"]
  /\ UNCHANGED <<serverVars, inbox, number, outbox, got, queue>>

(* kt_disconnect closes the socket ...  *)
Close(c) ==
  /\ client[c] \in {"connected", "waiting"}
  /\ client' = [client EXCEPT ![c] = "closing"]
  /\ inbox' = [inbox EXCEPT ![c] = NONE]
  /\ UNCHANGED <<serverVars, number, outbox, got, queue>>

(* ... and destroys the context, which waits (there is no linger) until    *)
(* what the socket has sent is gone.                                       *)
Destroy(c) ==
  /\ client[c] = "closing" /\ outbox[c] = NONE
  /\ client' = [client EXCEPT ![c] = "apart"]
  /\ UNCHANGED <<serverVars, number, outbox, inbox, got, queue>>

-----------------------------------------------------------------------------
ServerStep == Bind \/ StartPoller \/ SetUserData \/ Unbind \/ Joined
PollerStep(r) == Check(r) \/ Recv(r) \/ RecvFails(r) \/ Callback(r)
ClientStep(c) == \/ Connect(c) \/ Send(c) \/ Deliver(c)
                 \/ Receive(c) \/ ReceiveFails(c) \/ Close(c) \/ Destroy(c)

Next ==
  \/ ServerStep
  \/ \E r \in Run : PollerStep(r)
  \/ \E c \in Client : ClientStep(c)

(* What the poller does without an interruption of its wait.               *)
Polls(r) == Check(r) \/ Recv(r) \/ Callback(r) \/ (serving # NONE /\ RecvFails(r))

(* Threads are scheduled, ZeroMQ delivers, and calls that can return do.   *)
(* Nobody has to start a call, and nothing interrupts a wait.              *)
Fairness ==
  /\ WF_vars(StartPoller) /\ WF_vars(Joined)
  /\ \A r \in Run : WF_vars(Polls(r))
  /\ \A c \in Client : WF_vars(Deliver(c)) /\ WF_vars(Receive(c)) /\ WF_vars(Destroy(c))

Spec == Init /\ [][Next]_vars /\ Fairness

-----------------------------------------------------------------------------
TypeOK ==
  /\ program \in {"ready", "bound", "running", "joining", "stopped"}
  /\ runs \in 0..MaxRuns /\ bound \in 0..MaxRuns
  /\ interupted \in BOOLEAN
  /\ poller \in [Run -> {"none", "check", "recv", "callback", "ended"}]
  /\ serving \in Request \cup {NONE}
  /\ \A r \in Run : poller[r] = "callback" => serving # NONE
  /\ userData \in {"none", "set", "returned"}
  /\ client \in [Client -> {"apart", "connected", "waiting", "closing"}]
  /\ number \in [Client -> 0..MaxRequests]
  /\ outbox \in [Client -> Request \cup {NONE}]
  /\ queue \in Seq(Request)
  /\ inbox \in [Client -> Request \cup {NONE}]
  /\ got \in [Client -> Request \cup {NONE}]

(* A client gets the answer to the request it sent last, whatever it and   *)
(* others asked and gave up before.                                        *)
RepliesMatch ==
  \A c \in Client : client[c] = "connected" /\ got[c] # NONE => got[c] = Current(c)

(* Once kt_stop_server has returned the user data ("Take ownership of the  *)
(* data structure", k_transport.cpp:377) no callback uses it; and at most  *)
(* one thread polls, also when the server is run, stopped and run again.   *)
NoCallbackAfterStop ==
  /\ userData = "returned" => \A r \in Run : poller[r] # "callback"
  /\ \A r, s \in Run : Alive(r) /\ Alive(s) => r = s

(* A callback has returned without an answer: the socket receives nothing  *)
(* any more, and no connection is answered.                                *)
Stuck == serving # NONE /\ \A r \in Run : poller[r] # "callback"

(* While the server runs every client that waits is answered, unless a     *)
(* callback leaves a request without an answer, its own or another's.      *)
Answered ==
  \A c \in Client :
     client[c] = "waiting" /\ program = "running"
       ~> client[c] # "waiting" \/ program # "running" \/ Stuck

(* A server that is being stopped stops if a request arrives, or if it     *)
(* receives nothing any more, and kt_disconnect returns if the server is   *)
(* there: a stop joins a thread that waits in recv, and a disconnect waits *)
(* for what was sent.                                                      *)
StopAndDisconnectReturn ==
  /\ program = "joining" /\ (queue # <<>> \/ Stuck) ~> program = "stopped"
  /\ \A c \in Client : client[c] = "closing" /\ bound # 0 ~> client[c] = "apart"

=============================================================================
