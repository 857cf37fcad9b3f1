--------------------------- MODULE TcpBlockServer ---------------------------
(***************************************************************************)
(* The Boost.Asio server (Transport/Server.cpp) with connections that      *)
(* exchange sized blocks (Transport/TcpBlockTransport.cpp).  A pool of     *)
(* threads runs the handlers of completed operations; what one connection  *)
(* owns (the size, the block, request and response) is shared by all its   *)
(* operations and handlers without a lock.  Asio itself is external.       *)
(***************************************************************************)
EXTENDS Integers, Sequences, FiniteSets, FiniteSetsExt

CONSTANTS
  MaxConn,    (* bound: connections, numbered as they are accepted         *)
  MaxLate,    (* bound: handlers' results other than SEND_RESPONSE         *)
  Thread,     (* the thread pool                                           *)
  MaxBlocks   (* bound: blocks that peers send                             *)

ASSUME BoundAssumption == MaxBlocks \in Nat /\ MaxConn \in Nat /\ MaxLate \in Nat

Conn == 1..MaxConn
Block == 1..MaxBlocks

VARIABLES
  stopped,    (* the io_service has been stopped                           *)
  running,    (* the operation whose handler a thread runs                 *)
  accepting,  (* the connection async_accept waits with                    *)
  open,       (* connections with a peer                                   *)
  started,    (* calls of start() for each connection                      *)
  ops,        (* outstanding and completed operations of each connection   *)
  next,       (* numbers the operations of each connection                 *)
  member,     (* blockSizeData_, request_ and response_                    *)
  sent,       (* blocks a peer has sent                                    *)
  stream,     (* sizes and blocks on their way to the server               *)
  received    (* blocks a peer has got back                                *)

serverVars == <<stopped, running, accepting>>
connVars == <<started, ops, next, member>>
peerVars == <<open, sent, stream, received>>
vars == <<serverVars, connVars, peerVars>>

(* What a thread runs when it runs no handler. *)
Free == [conn |-> 0, id |-> 0, kind |-> "free", state |-> "done"]
Ended == [Free EXCEPT !.kind = "ended"]

Init ==
  /\ stopped = FALSE
  /\ running = [t \in Thread |-> Free]
  /\ accepting = 1
  /\ open = {}
  /\ started = [c \in Conn |-> 0]
  /\ ops = [c \in Conn |-> {}]
  /\ next = [c \in Conn |-> 1]
  /\ member = [c \in Conn |-> [size |-> 0, request |-> 0, response |-> 0]]
  /\ sent = [c \in Conn |-> 0]
  /\ stream = [c \in Conn |-> <<>>]
  /\ received = [c \in Conn |-> <<>>]

(* The threads of the pool that may take a handler.  *)
Idle == {t \in Thread : running[t] = Free}

(* The handler of a connection has not always returned SEND_RESPONSE, as   *)
(* the one of ServiceServerImpl does.                                      *)
Late(c) == started[c] > 1

(* Operations that a handler starts: numbered, and none when it fails.     *)
Op(c, i, kind) == [conn |-> c, id |-> next[c] + i, kind |-> kind, state |-> "pending"]

-----------------------------------------------------------------------------
(* Server. *)

\* Mutant: the connection is not started.
HandleAcceptUnstarted ==
  /\ ~stopped /\ Idle # {} /\ accepting \in Conn
  /\ open' = open \cup {accepting}
  /\ accepting' = accepting + 1
  /\ UNCHANGED <<stopped, running, connVars, sent, stream, received>>

(* handleAccept on some thread: the connection is started, unless accept   *)
(* has failed, and the next is waited for.                                 *)
HandleAccept ==
  /\ ~stopped /\ Idle # {} /\ accepting \in Conn
  /\ \/ /\ open' = open \cup {accepting}
        /\ started' = [started EXCEPT ![accepting] = @ + 1]
        /\ ops' = [ops EXCEPT ![accepting] = {Op(accepting, 0, "size")}]
        /\ next' = [next EXCEPT ![accepting] = @ + 1]
     \/ UNCHANGED <<open, started, ops, next>>
  /\ accepting' = accepting + 1
  /\ UNCHANGED <<stopped, running, member, sent, stream, received>>

(* handleStop, for a signal.  *)
HandleStop ==
  /\ ~stopped /\ Idle # {}
  /\ stopped' = TRUE
  /\ UNCHANGED <<running, accepting, connVars, peerVars>>

\* Mutant: threads end when all connections have gone.
ThreadEndsUnused(t) ==
  /\ stopped /\ running[t] = Free /\ open = {}
  /\ running' = [running EXCEPT ![t] = Ended]
  /\ UNCHANGED <<stopped, accepting, connVars, peerVars>>

(* io_service::run returns in a thread that has finished its handler.      *)
ThreadEnds(t) ==
  /\ stopped /\ running[t] = Free
  /\ running' = [running EXCEPT ![t] = Ended]
  /\ UNCHANGED <<stopped, accepting, connVars, peerVars>>

(* A thread takes the handler of a completed operation.  The handlers of   *)
(* writes are wrapped in the connection's strand; those of reads are not.  *)
Dispatch(t, c, op) ==
  /\ ~stopped /\ t \in Idle
  /\ op \in ops[c] /\ op.state # "pending"
  /\ op.kind = "write" =>
       \A u \in Thread : running[u].conn # c \/ running[u].kind # "write"
  /\ running' = [running EXCEPT ![t] = op]
  /\ ops' = [ops EXCEPT ![c] = @ \ {op}]
  /\ UNCHANGED <<stopped, accepting, started, next, member, peerVars>>

-----------------------------------------------------------------------------
(* TcpBlockConnection: the handlers.  An error ends the chain.             *)

Finishes(t, kind, state) ==
  /\ running[t].kind = kind /\ running[t].state = state
  /\ running' = [running EXCEPT ![t] = Free]

Starts(c, kinds) ==
  /\ ops' = [ops EXCEPT ![c] = @ \cup {Op(c, i, kinds[i]) : i \in DOMAIN kinds}]
  /\ next' = [next EXCEPT ![c] = @ + Len(kinds) + 1]

HandleError(t) ==
  /\ \E kind \in {"size", "block", "write"} : Finishes(t, kind, "failed")
  /\ UNCHANGED <<stopped, accepting, connVars, peerVars>>

(* handleReadBlockSize: the block buffer gets its size.                    *)
HandleReadBlockSize(t) ==
  LET c == running[t].conn
  IN /\ Finishes(t, "size", "done")
     /\ Starts(c, <<"block">>)
     /\ UNCHANGED <<stopped, accepting, started, member, peerVars>>

\* Mutant: the next size is read before the response is written.
HandleReadBlockAhead(t) ==
  LET c == running[t].conn
  IN /\ Finishes(t, "block", "done")
     /\ member' = [member EXCEPT ![c].response = member[c].request,
                                 ![c].size = member[c].request]
     /\ Starts(c, <<"size", "write">>)
     /\ UNCHANGED <<stopped, accepting, started, peerVars>>

(* handleReadBlock: the handler has looked at the request.  If its result  *)
(* is not SEND_RESPONSE the response is cleared, start() is called, and    *)
(* the empty response is written all the same.                             *)
HandleReadBlock(t) ==
  LET c == running[t].conn
  IN /\ Finishes(t, "block", "done")
     /\ \/ /\ member' = [member EXCEPT ![c].response = member[c].request,
                                       ![c].size = member[c].request]
           /\ Starts(c, <<"write">>)
           /\ UNCHANGED started
        \/ /\ MapThenSumSet(LAMBDA d : started[d] - 1, {d \in Conn : Late(d)}) < MaxLate
           /\ member' = [member EXCEPT ![c].response = 0, ![c].size = 0]
           /\ started' = [started EXCEPT ![c] = @ + 1]
           /\ Starts(c, <<"size", "write">>)
     /\ UNCHANGED <<stopped, accepting, peerVars>>

HandleWriteBlock(t) ==
  LET c == running[t].conn
  IN /\ Finishes(t, "write", "done")
     /\ member' = [member EXCEPT ![c].response = 0]
     /\ Starts(c, <<"size">>)
     /\ UNCHANGED <<stopped, accepting, started, peerVars>>

-----------------------------------------------------------------------------
(* Asio and the peers. *)

Complete(c, op, state) == [ops EXCEPT ![c] = (@ \ {op}) \cup {[op EXCEPT !.state = state]}]

(* A read takes what comes next in the stream, into a member all share.    *)
ReadDone(c, op) ==
  /\ op \in ops[c] /\ op.state = "pending" /\ op.kind # "write"
  /\ c \in open /\ stream[c] # <<>>
  /\ ops' = Complete(c, op, "done")
  /\ member' = IF op.kind = "size" THEN [member EXCEPT ![c].size = Head(stream[c]).of]
               ELSE [member EXCEPT ![c].request = Head(stream[c]).of]
  /\ stream' = [stream EXCEPT ![c] = Tail(@)]
  /\ UNCHANGED <<serverVars, started, next, open, sent, received>>

(* A write sends what the size and the response are by then.               *)
WriteDone(c, op) ==
  /\ op \in ops[c] /\ op.state = "pending" /\ op.kind = "write"
  /\ c \in open
  /\ ops' = Complete(c, op, "done")
  /\ received' = [received EXCEPT ![c] =
                    Append(@, [size |-> member[c].size, block |-> member[c].response])]
  /\ UNCHANGED <<serverVars, started, next, member, open, sent, stream>>

Failed(c, op) ==
  /\ op \in ops[c] /\ op.state = "pending" /\ c \notin open
  /\ ops' = Complete(c, op, "failed")
  /\ UNCHANGED <<serverVars, started, next, member, peerVars>>

Send(c) ==
  /\ c \in open /\ MapThenSumSet(LAMBDA d : sent[d], Conn) < MaxBlocks
  /\ sent' = [sent EXCEPT ![c] = @ + 1]
  /\ stream' = [stream EXCEPT ![c] = @ \o <<[of |-> sent'[c], is |-> "size"],
                                           [of |-> sent'[c], is |-> "block"]>>]
  /\ UNCHANGED <<serverVars, connVars, open, received>>

Close(c) ==
  /\ c \in open
  /\ open' = open \ {c}
  /\ UNCHANGED <<serverVars, connVars, sent, stream, received>>

-----------------------------------------------------------------------------
Handle(t) ==
  HandleError(t) \/ HandleReadBlockSize(t) \/ HandleReadBlock(t) \/ HandleWriteBlock(t)

Transfer(c) == \E op \in ops[c] : ReadDone(c, op) \/ WriteDone(c, op) \/ Failed(c, op)

Take(c) == \E t \in Thread : \E op \in ops[c] : Dispatch(t, c, op)

Next ==
  \/ HandleAccept \/ HandleStop
  \/ \E t \in Thread : ThreadEnds(t) \/ Handle(t)
  \/ \E c \in Conn : Take(c) \/ Transfer(c) \/ Send(c) \/ Close(c)

(* Handlers return, the network moves, the pool takes what is ready.       *)
Fairness ==
  /\ \A t \in Thread : WF_vars(Handle(t)) /\ WF_vars(ThreadEnds(t))
  /\ \A c \in Conn : WF_vars(Transfer(c)) /\ SF_vars(Take(c))

Spec == Init /\ [][Next]_vars /\ Fairness

-----------------------------------------------------------------------------
Handlers(c) == {t \in Thread : running[t].conn = c}

Operation == [conn : Conn, id : Nat, kind : {"size", "block", "write"},
              state : {"pending", "done", "failed"}]

TypeOK ==
  /\ stopped \in BOOLEAN
  /\ accepting \in 1..(MaxConn + 1)
  /\ open \subseteq Conn
  /\ started \in [Conn -> Nat]
  /\ next \in [Conn -> Nat]
  /\ sent \in [Conn -> Nat]
  /\ member \in [Conn -> [size : Nat, request : Nat, response : Nat]]
  /\ stream \in [Conn -> Seq([of : Nat, is : {"size", "block"}])]
  /\ received \in [Conn -> Seq([size : Nat, block : Nat])]
  /\ ops \in [Conn -> SUBSET Operation]
  /\ \A c \in Conn : \A op \in ops[c] : op.conn = c /\ op.id < next[c]
  /\ running \in [Thread -> {Free, Ended} \cup Operation]

(* Peers get the answers to their blocks in order, size and contents.  A   *)
(* connection has one operation outstanding or one handler running, which  *)
(* is all that protects what its handlers share.                           *)
AnswersInOrder ==
  \A c \in Conn : ~Late(c) =>
    /\ Cardinality(ops[c]) + Cardinality(Handlers(c)) =< 1
    /\ \A i \in DOMAIN received[c] : received[c][i] = [size |-> i, block |-> i]

(* A block that has been sent is answered unless someone hangs up.         *)
Answered ==
  \A c \in Conn, n \in Block :
     sent[c] >= n ~> Len(received[c]) >= n \/ Late(c) \/ c \notin open \/ stopped

(* run() returns after a signal. *)
StopEnds == stopped ~> \A t \in Thread : running[t] = Ended

=============================================================================
