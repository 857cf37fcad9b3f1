------------------------ MODULE TcpBlockServerProofs ------------------------
(***************************************************************************)
(* What every reachable state of TcpBlockServer satisfies, for any number  *)
(* of connections, threads and blocks: the chain of operations of a        *)
(* connection does not fork, and its present link tells what has been read *)
(* and what the members hold.                                              *)
(***************************************************************************)
EXTENDS TcpBlockServer, FiniteSetTheorems, TLAPS

(* Sizes and blocks that were read from the stream of c.                   *)
Taken(c) == 2 * sent[c] - Len(stream[c])

(* A connection that was not started does nothing, and one that was not    *)
(* accepted has nothing.                                                   *)
UnusedPart(c) ==
  /\ started[c] = 0 => ops[c] = {} /\ Handlers(c) = {}
  /\ c >= accepting =>
       /\ started[c] = 0 /\ c \notin open
       /\ sent[c] = 0 /\ stream[c] = <<>> /\ received[c] = <<>>

(* The stream has what the peer sent last: of each block a size, then the  *)
(* block.                                                                  *)
StreamPart(c) ==
  /\ Taken(c) >= 0
  /\ \A i \in 1..Len(stream[c]) : 2 * stream[c][i].of \in {Taken(c) + i, Taken(c) + i + 1}

(* One operation, or one handler.                                          *)
OneChain(c) ==
  /\ \A p, q \in ops[c] : p = q
  /\ \A t, u \in Handlers(c) : t = u
  /\ ops[c] # {} => Handlers(c) = {}

(* What an operation that has not failed says about its connection.        *)
At(c, op) ==
  LET n == Len(received[c])
  IN /\ op.kind = "size" /\ op.state = "pending" => Taken(c) = 2 * n
     /\ op.kind = "size" /\ op.state = "done" => Taken(c) = 2 * n + 1
     /\ op.kind = "block" /\ op.state = "pending" => Taken(c) = 2 * n + 1
     /\ op.kind = "block" /\ op.state = "done" =>
          Taken(c) = 2 * n + 2 /\ member[c].request = n + 1
     /\ op.kind = "write" /\ op.state = "pending" =>
          Taken(c) = 2 * n + 2 /\ member[c].size = n + 1 /\ member[c].response = n + 1
     /\ op.kind = "write" /\ op.state = "done" => Taken(c) = 2 * n

ChainPart(c) ==
  ~Late(c) =>
    /\ OneChain(c)
    /\ \A op \in ops[c] : At(c, op)
    /\ \A t \in Handlers(c) : At(c, running[t])
    /\ \A i \in DOMAIN received[c] : received[c][i] = [size |-> i, block |-> i]

Local(c) == UnusedPart(c) /\ StreamPart(c) /\ ChainPart(c)

IInv == TypeOK /\ \A c \in Conn : Local(c)

-----------------------------------------------------------------------------
(* A thread that runs nothing belongs to no connection.                    *)
LEMMA NoHandler ==
  ASSUME NEW c \in Conn
  PROVE  Free.conn # c /\ Ended.conn # c /\ Free.kind = "free" /\ Ended.kind = "ended"
  BY BoundAssumption DEF Free, Ended, Conn

(* What a thread runs, if it runs a handler.                               *)
LEMMA Handling ==
  ASSUME TypeOK, NEW t \in Thread, NEW kind \in {"size", "block", "write"},
         NEW state, Finishes(t, kind, state)
  PROVE  /\ running[t] \in Operation /\ running[t].kind = kind
         /\ running[t].state = state
         /\ running' \in [Thread -> {Free, Ended} \cup Operation]
         /\ running' = [running EXCEPT ![t] = Free]
<1>1. running[t] \in {Free, Ended} \cup Operation
  BY DEF TypeOK
<1>2. Free.kind = "free" /\ Ended.kind = "ended"
  BY DEF Free, Ended
<1>. QED BY <1>1, <1>2 DEF TypeOK, Finishes

(* The operations a handler starts.                                        *)
LEMMA OpType ==
  ASSUME TypeOK, NEW c \in Conn, NEW i \in Nat, NEW kind \in {"size", "block", "write"}
  PROVE  /\ Op(c, i, kind) \in Operation
         /\ Op(c, i, kind).conn = c /\ Op(c, i, kind).id = next[c] + i
         /\ Op(c, i, kind).kind = kind /\ Op(c, i, kind).state = "pending"
  BY DEF Op, Operation, TypeOK

(* Starting one or two operations keeps the types.                         *)
LEMMA StartsType ==
  ASSUME TypeOK, NEW c \in Conn,
         NEW kinds \in Seq({"size", "block", "write"}), Starts(c, kinds)
  PROVE  /\ ops' \in [Conn -> SUBSET Operation]
         /\ next' \in [Conn -> Nat]
         /\ \A d \in Conn : \A op \in ops'[d] : op.conn = d /\ op.id < next'[d]
<1>. DEFINE New == {Op(c, i, kinds[i]) : i \in DOMAIN kinds}
<1>1. \A op \in New : op \in Operation /\ op.conn = c /\ op.id < next[c] + Len(kinds) + 1
  <2>. SUFFICES ASSUME NEW i \in DOMAIN kinds
                PROVE  LET op == Op(c, i, kinds[i])
                       IN op \in Operation /\ op.conn = c /\ op.id < next[c] + Len(kinds) + 1
    OBVIOUS
  <2>1. i \in Nat /\ i =< Len(kinds) /\ kinds[i] \in {"size", "block", "write"}
    OBVIOUS
  <2>2. next[c] \in Nat /\ Len(kinds) \in Nat
    BY DEF TypeOK
  <2>3. /\ Op(c, i, kinds[i]) \in Operation
        /\ Op(c, i, kinds[i]).conn = c /\ Op(c, i, kinds[i]).id = next[c] + i
    BY <2>1, OpType
  <2>. QED BY <2>1, <2>2, <2>3
<1>2. next[c] \in Nat /\ Len(kinds) \in Nat
  BY DEF TypeOK
<1>3. /\ ops' = [ops EXCEPT ![c] = @ \cup New]
      /\ next' = [next EXCEPT ![c] = @ + Len(kinds) + 1]
  BY DEF Starts
<1>. HIDE DEF New
<1>4. ops' \in [Conn -> SUBSET Operation]
  BY <1>1, <1>3 DEF TypeOK
<1>5. next' \in [Conn -> Nat]
  BY <1>2, <1>3 DEF TypeOK
<1>6. ASSUME NEW d \in Conn, NEW op \in ops'[d]
      PROVE  op.conn = d /\ op.id < next'[d]
  <2>1. CASE d # c
    BY <1>3, <1>6, <2>1 DEF TypeOK
  <2>2. CASE d = c /\ op \in New
    BY <1>1, <1>3, <2>2 DEF TypeOK
  <2>3. CASE d = c /\ op \in ops[c]
    <3>1. op.conn = c /\ op.id < next[c] /\ op.id \in Nat
      BY <2>3 DEF TypeOK, Operation
    <3>. QED BY <1>2, <1>3, <2>3, <3>1 DEF TypeOK
  <2>. QED BY <1>3, <1>6, <2>1, <2>2, <2>3 DEF TypeOK
<1>. QED BY <1>4, <1>5, <1>6

(* Every handler keeps the types.                                          *)
LEMMA HandleType ==
  ASSUME TypeOK, NEW t \in Thread, Handle(t)
  PROVE  TypeOK'
<1>. DEFINE c == running[t].conn
<1>. DEFINE Kinds == {"size", "block", "write"}
<1>1. CASE HandleError(t)
  <2>1. PICK kind \in Kinds : Finishes(t, kind, "failed")
    BY <1>1 DEF HandleError
  <2>. QED BY <1>1, <2>1, Handling DEF HandleError, TypeOK, connVars, peerVars
<1>2. CASE HandleReadBlockSize(t)
  <2>1. c \in Conn /\ running' \in [Thread -> {Free, Ended} \cup Operation]
    BY <1>2, Handling DEF HandleReadBlockSize, Operation
  <2>2. <<"block">> \in Seq(Kinds) /\ Starts(c, <<"block">>)
    BY <1>2 DEF HandleReadBlockSize
  <2>. HIDE DEF c
  <2>3. /\ ops' \in [Conn -> SUBSET Operation] /\ next' \in [Conn -> Nat]
        /\ \A d \in Conn : \A op \in ops'[d] : op.conn = d /\ op.id < next'[d]
    BY <2>1, <2>2, StartsType
  <2>. QED BY <1>2, <2>1, <2>3 DEF HandleReadBlockSize, TypeOK, peerVars
<1>3. CASE HandleReadBlock(t)
  <2>1. c \in Conn /\ running' \in [Thread -> {Free, Ended} \cup Operation]
    BY <1>3, Handling DEF HandleReadBlock, Operation
  <2>2. \E kinds \in Seq(Kinds) : Starts(c, kinds)
    <3>1. <<"write">> \in Seq(Kinds) /\ <<"size", "write">> \in Seq(Kinds)
      OBVIOUS
    <3>. QED BY <1>3, <3>1 DEF HandleReadBlock
  <2>3. /\ member' \in [Conn -> [size : Nat, request : Nat, response : Nat]]
        /\ started' \in [Conn -> Nat]
    <3>1. \/ /\ member' = [member EXCEPT ![c].response = member[c].request,
                                         ![c].size = member[c].request]
             /\ started' = started
          \/ /\ member' = [member EXCEPT ![c].response = 0, ![c].size = 0]
             /\ started' = [started EXCEPT ![c] = @ + 1]
      BY <1>3 DEF HandleReadBlock
    <3>2. member[c] \in [size : Nat, request : Nat, response : Nat] /\ started[c] \in Nat
      BY <2>1 DEF TypeOK
    <3>. HIDE DEF c
    <3>3. CASE /\ member' = [member EXCEPT ![c].response = member[c].request,
                                          ![c].size = member[c].request]
               /\ started' = started
      BY <2>1, <3>2, <3>3 DEF TypeOK
    <3>4. CASE /\ member' = [member EXCEPT ![c].response = 0, ![c].size = 0]
               /\ started' = [started EXCEPT ![c] = @ + 1]
      <4>1. member' \in [Conn -> [size : Nat, request : Nat, response : Nat]]
        BY <2>1, <3>2, <3>4 DEF TypeOK
      <4>2. started' \in [Conn -> Nat]
        BY <2>1, <3>2, <3>4 DEF TypeOK
      <4>. QED BY <4>1, <4>2
    <3>. QED BY <3>1, <3>3, <3>4
  <2>. HIDE DEF c
  <2>4. /\ ops' \in [Conn -> SUBSET Operation] /\ next' \in [Conn -> Nat]
        /\ \A d \in Conn : \A op \in ops'[d] : op.conn = d /\ op.id < next'[d]
    BY <2>1, <2>2, StartsType
  <2>. QED BY <1>3, <2>1, <2>3, <2>4 DEF HandleReadBlock, TypeOK, peerVars
<1>4. CASE HandleWriteBlock(t)
  <2>1. c \in Conn /\ running' \in [Thread -> {Free, Ended} \cup Operation]
    BY <1>4, Handling DEF HandleWriteBlock, Operation
  <2>2. <<"size">> \in Seq(Kinds) /\ Starts(c, <<"size">>)
    BY <1>4 DEF HandleWriteBlock
  <2>3. member' = [member EXCEPT ![c].response = 0]
    BY <1>4 DEF HandleWriteBlock
  <2>. HIDE DEF c
  <2>4. member' \in [Conn -> [size : Nat, request : Nat, response : Nat]]
    BY <2>1, <2>3 DEF TypeOK
  <2>5. /\ ops' \in [Conn -> SUBSET Operation] /\ next' \in [Conn -> Nat]
        /\ \A d \in Conn : \A op \in ops'[d] : op.conn = d /\ op.id < next'[d]
    BY <2>1, <2>2, StartsType
  <2>. QED BY <1>4, <2>1, <2>4, <2>5 DEF HandleWriteBlock, TypeOK, peerVars
<1>. QED BY <1>1, <1>2, <1>3, <1>4 DEF Handle

LEMMA AcceptingNat == TypeOK => accepting \in Nat
<1>1. TypeOK => accepting \in 1..(MaxConn + 1)
  BY Zenon DEF TypeOK
<1>2. 1..(MaxConn + 1) \subseteq Nat
  OBVIOUS
<1>. QED BY <1>1, <1>2

(* An operation that completes stays one of its connection.                *)
LEMMA CompleteType ==
  ASSUME TypeOK, NEW c \in Conn, NEW op \in ops[c], NEW state \in {"done", "failed"},
         ops' = Complete(c, op, state)
  PROVE  /\ ops' \in [Conn -> SUBSET Operation]
         /\ \A d \in Conn : \A p \in ops'[d] : p.conn = d /\ p.id < next[d]
<1>. DEFINE done == [op EXCEPT !.state = state]
<1>1. op \in Operation /\ op.conn = c /\ op.id < next[c]
  BY DEF TypeOK
<1>2. done \in Operation /\ done.conn = c /\ done.id < next[c]
  BY <1>1 DEF Operation
<1>3. ops' = [ops EXCEPT ![c] = (@ \ {op}) \cup {done}]
  BY DEF Complete
<1>. HIDE DEF done
<1>4. ops \in [Conn -> SUBSET Operation]
  BY DEF TypeOK
<1>5. ops' \in [Conn -> SUBSET Operation]
  <2>1. (ops[c] \ {op}) \cup {done} \in SUBSET Operation
    BY <1>2, <1>4
  <2>. QED BY <1>3, <1>4, <2>1
<1>6. ASSUME NEW d \in Conn, NEW p \in ops'[d] PROVE p.conn = d /\ p.id < next[d]
  <2>1. p \in ops[d] => p.conn = d /\ p.id < next[d]
    BY DEF TypeOK
  <2>2. p \in ops[d] \/ (d = c /\ p = done)
    BY <1>3, <1>4, <1>6
  <2>. QED BY <1>2, <2>1, <2>2
<1>. QED BY <1>5, <1>6

(* Every step keeps the types.                                             *)
LEMMA TypeStep ==
  ASSUME TypeOK, [Next]_vars
  PROVE  TypeOK'
<1>1. CASE HandleAccept
  <2>1. accepting \in Conn /\ accepting' \in 1..(MaxConn + 1)
    BY <1>1, BoundAssumption DEF HandleAccept, Conn
  <2>2. CASE UNCHANGED <<open, started, ops, next>>
    BY <1>1, <2>1, <2>2 DEF HandleAccept, TypeOK
  <2>3. CASE /\ open' = open \cup {accepting}
             /\ started' = [started EXCEPT ![accepting] = @ + 1]
             /\ ops' = [ops EXCEPT ![accepting] = {Op(accepting, 0, "size")}]
             /\ next' = [next EXCEPT ![accepting] = @ + 1]
    <3>1. /\ Op(accepting, 0, "size") \in Operation
          /\ Op(accepting, 0, "size").conn = accepting
          /\ Op(accepting, 0, "size").id = next[accepting] + 0
      BY <2>1, OpType
    <3>2. started' \in [Conn -> Nat]
      BY <2>1, <2>3 DEF TypeOK
    <3>3. next' \in [Conn -> Nat] /\ ops' \in [Conn -> SUBSET Operation]
      BY <2>1, <2>3, <3>1 DEF TypeOK
    <3>4. ASSUME NEW c \in Conn, NEW op \in ops'[c]
          PROVE  op.conn = c /\ op.id < next'[c]
      <4>1. CASE c # accepting
        <5>1. ops'[c] = ops[c] /\ next'[c] = next[c]
          BY <2>3, <4>1 DEF TypeOK
        <5>. QED BY <3>4, <5>1 DEF TypeOK
      <4>2. CASE c = accepting
        <5>1. /\ next[c] \in Nat /\ next'[c] = next[c] + 1
              /\ op = Op(accepting, 0, "size")
          BY <2>1, <2>3, <3>4, <4>2 DEF TypeOK
        <5>. QED BY <3>1, <4>2, <5>1
      <4>. QED BY <4>1, <4>2
    <3>5. open' \subseteq Conn
      BY <2>1, <2>3 DEF TypeOK
    <3>. QED BY <1>1, <2>1, <3>2, <3>3, <3>4, <3>5 DEF HandleAccept, TypeOK
  <2>. QED BY <1>1, <2>2, <2>3 DEF HandleAccept
<1>2. CASE HandleStop
  BY <1>2 DEF HandleStop, TypeOK, connVars, peerVars
<1>3. ASSUME NEW t \in Thread, ThreadEnds(t)
      PROVE  TypeOK'
  BY <1>3 DEF ThreadEnds, TypeOK, connVars, peerVars
<1>4. ASSUME NEW t \in Thread, Handle(t)
      PROVE  TypeOK'
  BY <1>4, HandleType
<1>5. ASSUME NEW c \in Conn, Take(c)
      PROVE  TypeOK'
  <2>1. PICK t \in Thread : \E op \in ops[c] : Dispatch(t, c, op)
    BY <1>5 DEF Take
  <2>2. PICK op \in ops[c] : Dispatch(t, c, op)
    BY <2>1
  <2>3. op \in Operation
    BY <2>2 DEF TypeOK
  <2>4. running' \in [Thread -> {Free, Ended} \cup Operation]
    BY <2>2, <2>3 DEF Dispatch, TypeOK
  <2>5. /\ ops' \in [Conn -> SUBSET Operation]
        /\ \A d \in Conn : \A q \in ops'[d] : q.conn = d /\ q.id < next[d]
    BY <2>2 DEF Dispatch, TypeOK
  <2>. QED BY <2>2, <2>4, <2>5 DEF Dispatch, TypeOK, peerVars
<1>6. ASSUME NEW c \in Conn, Transfer(c)
      PROVE  TypeOK'
  <2>1. PICK op \in ops[c] : ReadDone(c, op) \/ WriteDone(c, op) \/ Failed(c, op)
    BY <1>6 DEF Transfer
  <2>2. /\ ops' \in [Conn -> SUBSET Operation]
        /\ \A d \in Conn : \A p \in ops'[d] : p.conn = d /\ p.id < next[d]
    BY <2>1, CompleteType DEF ReadDone, WriteDone, Failed
  <2>3. CASE ReadDone(c, op)
    <3>. DEFINE Item == [of : Nat, is : {"size", "block"}]
    <3>1. Head(stream[c]) \in Item /\ Tail(stream[c]) \in Seq(Item)
      <4>1. stream[c] \in Seq(Item) /\ stream[c] # <<>>
        BY <2>3 DEF ReadDone, TypeOK
      <4>. HIDE DEF Item
      <4>. QED BY <4>1
    <3>2. Head(stream[c]).of \in Nat /\ Tail(stream[c]) \in Seq([of : Nat, is : {"size", "block"}])
      BY <3>1
    <3>3. member' \in [Conn -> [size : Nat, request : Nat, response : Nat]]
      <4>1. member[c] \in [size : Nat, request : Nat, response : Nat]
        BY DEF TypeOK
      <4>2. CASE op.kind = "size"
        BY <2>3, <3>2, <4>1, <4>2 DEF ReadDone, TypeOK
      <4>3. CASE op.kind # "size"
        BY <2>3, <3>2, <4>1, <4>3 DEF ReadDone, TypeOK
      <4>. QED BY <4>2, <4>3
    <3>4. stream' \in [Conn -> Seq([of : Nat, is : {"size", "block"}])]
      BY <2>3, <3>2 DEF ReadDone, TypeOK
    <3>. QED BY <2>2, <2>3, <3>3, <3>4 DEF ReadDone, TypeOK, serverVars
  <2>4. CASE WriteDone(c, op)
    <3>. DEFINE Answer == [size |-> member[c].size, block |-> member[c].response]
    <3>1. Answer \in [size : Nat, block : Nat]
      BY DEF TypeOK
    <3>2. received' = [received EXCEPT ![c] = Append(@, Answer)]
      BY <2>4 DEF WriteDone
    <3>. HIDE DEF Answer
    <3>3. received' \in [Conn -> Seq([size : Nat, block : Nat])]
      BY <3>1, <3>2 DEF TypeOK
    <3>. QED BY <2>2, <2>4, <3>3 DEF WriteDone, TypeOK, serverVars
  <2>5. CASE Failed(c, op)
    BY <2>2, <2>5 DEF Failed, TypeOK, serverVars, peerVars
  <2>. QED BY <2>1, <2>3, <2>4, <2>5
<1>7. ASSUME NEW c \in Conn, Send(c)
      PROVE  TypeOK'
  <2>1. sent' \in [Conn -> Nat] /\ sent'[c] \in Nat
    BY <1>7 DEF Send, TypeOK
  <2>. DEFINE size == [of |-> sent'[c], is |-> "size"]
  <2>. DEFINE block == [of |-> sent'[c], is |-> "block"]
  <2>2. <<size, block>> \in Seq([of : Nat, is : {"size", "block"}])
    BY <2>1
  <2>3. stream' = [stream EXCEPT ![c] = @ \o <<size, block>>]
    BY <1>7 DEF Send
  <2>. HIDE DEF size, block
  <2>4. stream' \in [Conn -> Seq([of : Nat, is : {"size", "block"}])]
    BY <2>2, <2>3 DEF TypeOK
  <2>. QED BY <1>7, <2>1, <2>4 DEF Send, TypeOK, serverVars, connVars
<1>8. ASSUME NEW c \in Conn, Close(c)
      PROVE  TypeOK'
  BY <1>8 DEF Close, TypeOK, serverVars, connVars
<1>9. CASE UNCHANGED vars
  BY <1>9 DEF TypeOK, vars, serverVars, connVars, peerVars
<1>. QED BY <1>1, <1>2, <1>3, <1>4, <1>5, <1>6, <1>7, <1>8, <1>9 DEF Next

-----------------------------------------------------------------------------
(* A step that leaves alone what belongs to c.                             *)
LEMMA Frame ==
  ASSUME TypeOK, NEW c \in Conn, Local(c),
         accepting' \in Nat, accepting' >= accepting, c \in open' => c \in open,
         started'[c] = started[c], ops'[c] = ops[c], member'[c] = member[c],
         sent'[c] = sent[c], stream'[c] = stream[c], received'[c] = received[c],
         \A t \in Thread : running'[t].conn = c \/ running[t].conn = c => running'[t] = running[t]
  PROVE  Local(c)'
<1>1. Handlers(c)' = Handlers(c) /\ \A t \in Handlers(c) : running'[t] = running[t]
  BY DEF Handlers
<1>2. Taken(c)' = Taken(c)
  BY DEF Taken
<1>3. UnusedPart(c)'
  <2>1. c >= accepting' => c >= accepting
    BY DEF TypeOK, Conn
  <2>. QED BY <1>1, <2>1 DEF Local, UnusedPart
<1>4. StreamPart(c)'
  BY <1>2 DEF Local, StreamPart
<1>5. ChainPart(c)'
  <2>. SUFFICES ASSUME ~Late(c)' PROVE ChainPart(c)'
    BY DEF ChainPart
  <2>1. ~Late(c)
    BY DEF Late
  <2>2. \A op : At(c, op)' <=> At(c, op)
    BY <1>2 DEF At
  <2>3. OneChain(c)'
    BY <1>1, <2>1 DEF Local, ChainPart, OneChain
  <2>4. \A op \in ops'[c] : At(c, op)'
    BY <2>1, <2>2 DEF Local, ChainPart
  <2>5. (\A t \in Handlers(c) : At(c, running[t]))'
    <3>. SUFFICES ASSUME NEW t \in Handlers(c) PROVE At(c, running[t])'
      BY <1>1
    <3>1. PICK op : op = running[t]
      OBVIOUS
    <3>2. op = running'[t] /\ At(c, op)
      BY <1>1, <2>1, <3>1 DEF Local, ChainPart
    <3>3. At(c, op)'
      BY <2>2, <3>2
    <3>. QED BY <3>2, <3>3 DEF At
  <2>. QED BY <2>1, <2>3, <2>4, <2>5 DEF Local, ChainPart
<1>. QED BY <1>3, <1>4, <1>5 DEF Local

-----------------------------------------------------------------------------
(* The handlers.  The one that runs is the chain's only link.              *)
LEMMA HandlerChain ==
  ASSUME IInv, NEW t \in Thread, NEW kind \in {"size", "block", "write"},
         NEW state, Finishes(t, kind, state), NEW c, c = running[t].conn
  PROVE  /\ c \in Conn /\ c < accepting /\ started[c] >= 1
         /\ ~Late(c) => ops[c] = {} /\ Handlers(c)' = {} /\ At(c, running[t])
         /\ \A d \in Conn \ {c} : \A u \in Thread :
               running'[u].conn = d \/ running[u].conn = d => running'[u] = running[u]
<1>1. TypeOK
  BY DEF IInv
<1>2. /\ running[t] \in Operation
      /\ running \in [Thread -> {Free, Ended} \cup Operation]
      /\ running' = [running EXCEPT ![t] = Free]
  BY <1>1, Handling DEF TypeOK
<1>3. c \in Conn /\ t \in Handlers(c)
  BY <1>2 DEF Operation, Handlers
<1>4. Local(c)
  BY <1>3 DEF IInv
<1>5. c < accepting /\ started[c] >= 1
  <2>1. accepting \in Nat /\ c \in Nat /\ started[c] \in Nat
    BY <1>1, <1>3 DEF TypeOK, Conn
  <2>2. c < accepting
    BY <1>3, <1>4, <2>1 DEF Local, UnusedPart
  <2>3. started[c] >= 1
    BY <1>3, <1>4, <2>1 DEF Local, UnusedPart
  <2>. QED BY <2>2, <2>3
<1>6. ~Late(c) => ops[c] = {} /\ At(c, running[t]) /\ \A u \in Handlers(c) : u = t
  BY <1>3, <1>4 DEF Local, ChainPart, OneChain
<1>7. ~Late(c) => Handlers(c)' = {}
  BY <1>2, <1>3, <1>6, NoHandler DEF Handlers
<1>8. \A d \in Conn \ {c} : \A u \in Thread :
        running'[u].conn = d \/ running[u].conn = d => running'[u] = running[u]
  BY <1>2, NoHandler
<1>. QED BY <1>3, <1>5, <1>6, <1>7, <1>8

(* What there is to show for the connection whose handler has run.         *)
LEMMA NextLink ==
  ASSUME NEW c \in Conn, Local(c), c < accepting, started[c] >= 1, TypeOK, TypeOK',
         accepting' = accepting,
         sent'[c] = sent[c], stream'[c] = stream[c], received'[c] = received[c],
         started'[c] >= started[c],
         started'[c] = started[c] /\ ~Late(c) =>
           Handlers(c)' = {} /\ \A op \in ops'[c] : At(c, op)' /\ \A q \in ops'[c] : q = op
  PROVE  Local(c)'
<1>1. UnusedPart(c)'
  BY DEF UnusedPart, TypeOK, Conn
<1>2. Taken(c)' = Taken(c)
  BY DEF Taken
<1>3. StreamPart(c)'
  BY <1>2 DEF StreamPart, Local
<1>4. ChainPart(c)'
  <2>. SUFFICES ASSUME ~Late(c)' PROVE ChainPart(c)'
    BY DEF ChainPart
  <2>1. started[c] \in Nat /\ started'[c] \in Nat
    BY DEF TypeOK
  <2>2. started'[c] = started[c] /\ ~Late(c)
    BY <2>1 DEF Late
  <2>3. OneChain(c)'
    BY <2>2 DEF OneChain
  <2>4. \A i \in DOMAIN received'[c] : received'[c][i] = [size |-> i, block |-> i]
    BY <2>2 DEF Local, ChainPart
  <2>5. (\A q \in ops[c] : At(c, q))' /\ (\A u \in Handlers(c) : At(c, running[u]))'
    BY <2>2
  <2>. QED BY <2>3, <2>4, <2>5 DEF ChainPart
<1>. QED BY <1>1, <1>3, <1>4 DEF Local

(* A handler that starts one operation.                                    *)
LEMMA StartsOne ==
  ASSUME TypeOK, NEW c \in Conn, NEW kind \in {"size", "block", "write"}, Starts(c, <<kind>>)
  PROVE  \E o : /\ o.kind = kind /\ o.state = "pending"
                /\ ops' = [ops EXCEPT ![c] = @ \cup {o}]
<1>1. {Op(c, i, <<kind>>[i]) : i \in DOMAIN <<kind>>} = {Op(c, 1, kind)}
  <2>1. DOMAIN <<kind>> = {1} /\ <<kind>>[1] = kind
    OBVIOUS
  <2>. QED BY <2>1
<1>2. Op(c, 1, kind).kind = kind /\ Op(c, 1, kind).state = "pending"
  BY OpType
<1>. QED BY <1>1, <1>2 DEF Starts

(* Connections that a handler does not belong to.                          *)
LEMMA OthersOfHandler ==
  ASSUME IInv, NEW t \in Thread, Handle(t), TypeOK',
         NEW d \in Conn, d # running[t].conn
  PROVE  Local(d)'
<1>. DEFINE c == running[t].conn
<1>1. TypeOK /\ Local(d)
  BY DEF IInv
<1>2. PICK kind \in {"size", "block", "write"}, state \in {"done", "failed"} :
        Finishes(t, kind, state)
  BY DEF Handle, HandleError, HandleReadBlockSize, HandleReadBlock, HandleWriteBlock
<1>3. /\ c \in Conn
      /\ \A u \in Thread : running'[u].conn = d \/ running[u].conn = d => running'[u] = running[u]
  BY <1>2, HandlerChain
<1>4. /\ accepting' = accepting /\ open' = open /\ sent' = sent
      /\ stream' = stream /\ received' = received
  BY DEF Handle, HandleError, HandleReadBlockSize, HandleReadBlock, HandleWriteBlock,
         connVars, peerVars
<1>5. started'[d] = started[d] /\ ops'[d] = ops[d] /\ member'[d] = member[d]
  <2>1. CASE HandleError(t)
    BY <2>1 DEF HandleError, connVars
  <2>2. CASE HandleReadBlockSize(t)
    <3>1. Starts(c, <<"block">>) /\ started' = started /\ member' = member
      BY <2>2 DEF HandleReadBlockSize
    <3>. QED BY <1>1, <3>1 DEF Starts, TypeOK
  <2>3. CASE HandleReadBlock(t)
    <3>1. \E kinds : Starts(c, kinds)
      BY <2>3 DEF HandleReadBlock
    <3>2. ops'[d] = ops[d]
      BY <1>1, <3>1 DEF Starts, TypeOK
    <3>3. \/ started' = started
          \/ started' = [started EXCEPT ![c] = @ + 1]
      BY <2>3 DEF HandleReadBlock
    <3>4. started'[d] = started[d]
      BY <1>1, <3>3 DEF TypeOK
    <3>5. \/ member' = [member EXCEPT ![c].response = member[c].request,
                                      ![c].size = member[c].request]
          \/ member' = [member EXCEPT ![c].response = 0, ![c].size = 0]
      BY <2>3 DEF HandleReadBlock
    <3>6. member \in [Conn -> [size : Nat, request : Nat, response : Nat]]
      BY <1>1 DEF TypeOK
    <3>7. member'[d] = member[d]
      <4>1. CASE member' = [member EXCEPT ![c].response = member[c].request,
                                          ![c].size = member[c].request]
        BY <1>1, <3>6, <4>1
      <4>2. CASE member' = [member EXCEPT ![c].response = 0, ![c].size = 0]
        BY <1>1, <3>6, <4>2
      <4>. QED BY <3>5, <4>1, <4>2
    <3>. QED BY <3>2, <3>4, <3>7
  <2>4. CASE HandleWriteBlock(t)
    <3>1. /\ Starts(c, <<"size">>) /\ started' = started
          /\ member' = [member EXCEPT ![c].response = 0]
      BY <2>4 DEF HandleWriteBlock
    <3>. QED BY <1>1, <3>1 DEF Starts, TypeOK
  <2>. QED BY <2>1, <2>2, <2>3, <2>4 DEF Handle
<1>6. accepting \in Nat
  BY <1>1 DEF TypeOK
<1>. QED BY <1>1, <1>3, <1>4, <1>5, <1>6, Frame

(* The connection a handler belongs to: the next link of its chain.        *)
LEMMA HandleLocal ==
  ASSUME IInv, NEW t \in Thread, Handle(t), TypeOK', NEW d \in Conn
  PROVE  Local(d)'
<1>. DEFINE c == running[t].conn
<1>1. CASE d # c
  BY <1>1, OthersOfHandler
<1>2. CASE d = c
  <2>1. TypeOK /\ Local(d)
    BY DEF IInv
  <2>a. ops \in [Conn -> SUBSET Operation]
    BY <2>1, Zenon DEF TypeOK
  <2>2. PICK kind \in {"size", "block", "write"}, state \in {"done", "failed"} :
          Finishes(t, kind, state)
    BY DEF Handle, HandleError, HandleReadBlockSize, HandleReadBlock, HandleWriteBlock
  <2>3. /\ d < accepting /\ started[d] >= 1
        /\ ~Late(d) => ops[d] = {} /\ Handlers(d)' = {} /\ At(d, running[t])
    <3>1. d = running[t].conn
      BY <1>2
    <3>. HIDE DEF c
    <3>. QED BY <2>2, <3>1, HandlerChain
  <2>4. /\ accepting' = accepting /\ sent' = sent
        /\ stream' = stream /\ received' = received
    BY DEF Handle, HandleError, HandleReadBlockSize, HandleReadBlock, HandleWriteBlock,
           connVars, peerVars
  <2>5. Taken(d)' = Taken(d)
    BY <2>4 DEF Taken
  <2>6. member[d] \in [size : Nat, request : Nat, response : Nat] /\ started[d] \in Nat
    BY <2>1 DEF TypeOK
  <2>7. CASE HandleError(t)
    <3>1. started' = started /\ ops' = ops
      BY <2>7 DEF HandleError, connVars
    <3>2. started'[d] >= started[d]
      BY <2>6, <3>1
    <3>. QED BY <2>1, <2>3, <2>4, <3>1, <3>2, NextLink
  <2>8. CASE HandleReadBlockSize(t)
    <3>1. Starts(d, <<"block">>) /\ started' = started
      BY <1>2, <2>8 DEF HandleReadBlockSize
    <3>2. PICK o : /\ o.kind = "block" /\ o.state = "pending"
                   /\ ops' = [ops EXCEPT ![d] = @ \cup {o}]
      BY <2>1, <3>1, StartsOne
    <3>3. ASSUME ~Late(d) PROVE ops'[d] = {o} /\ At(d, o)'
      <4>1. running[t].kind = "size" /\ running[t].state = "done" /\ At(d, running[t])
        BY <2>3, <2>8, <3>3 DEF HandleReadBlockSize, Finishes
      <4>2. Taken(d)' = 2 * Len(received'[d]) + 1
        BY <2>4, <2>5, <4>1 DEF At
      <4>3. ops'[d] = {o}
        BY <2>a, <2>3, <3>2, <3>3
      <4>. QED BY <3>2, <4>2, <4>3 DEF At
    <3>4. started'[d] >= started[d]
      BY <2>6, <3>1
    <3>. QED BY <2>1, <2>3, <2>4, <3>3, <3>4, NextLink
  <2>9. CASE HandleReadBlock(t)
    <3>1. CASE /\ member' = [member EXCEPT ![d].response = member[d].request,
                                           ![d].size = member[d].request]
               /\ Starts(d, <<"write">>)
               /\ started' = started
      <4>1. PICK o : /\ o.kind = "write" /\ o.state = "pending"
                     /\ ops' = [ops EXCEPT ![d] = @ \cup {o}]
        BY <2>1, <3>1, StartsOne
      <4>2. ASSUME ~Late(d) PROVE ops'[d] = {o} /\ At(d, o)'
        <5>1. running[t].kind = "block" /\ running[t].state = "done" /\ At(d, running[t])
          BY <2>3, <2>9, <4>2 DEF HandleReadBlock, Finishes
        <5>2. /\ Taken(d)' = 2 * Len(received'[d]) + 2
              /\ member[d].request = Len(received'[d]) + 1
          BY <2>4, <2>5, <5>1 DEF At
        <5>3. member'[d].size = member[d].request /\ member'[d].response = member[d].request
          BY <2>1, <2>6, <3>1 DEF TypeOK
        <5>4. ops'[d] = {o}
          BY <2>a, <2>3, <4>1, <4>2
        <5>. QED BY <4>1, <5>2, <5>3, <5>4 DEF At
      <4>3. started'[d] >= started[d]
        BY <2>6, <3>1
      <4>. QED BY <2>1, <2>3, <2>4, <4>2, <4>3, NextLink
    <3>2. CASE started' = [started EXCEPT ![d] = @ + 1]
      <4>1. started'[d] = started[d] + 1
        BY <2>1, <3>2 DEF TypeOK
      <4>2. started'[d] >= started[d] /\ started'[d] # started[d]
        BY <2>6, <4>1
      <4>. QED BY <2>1, <2>3, <2>4, <4>2, NextLink
    <3>. QED BY <1>2, <2>9, <3>1, <3>2 DEF HandleReadBlock
  <2>10. CASE HandleWriteBlock(t)
    <3>1. Starts(d, <<"size">>) /\ started' = started
      BY <1>2, <2>10 DEF HandleWriteBlock
    <3>2. PICK o : /\ o.kind = "size" /\ o.state = "pending"
                   /\ ops' = [ops EXCEPT ![d] = @ \cup {o}]
      BY <2>1, <3>1, StartsOne
    <3>3. ASSUME ~Late(d) PROVE ops'[d] = {o} /\ At(d, o)'
      <4>1. running[t].kind = "write" /\ running[t].state = "done" /\ At(d, running[t])
        BY <2>3, <2>10, <3>3 DEF HandleWriteBlock, Finishes
      <4>2. Taken(d)' = 2 * Len(received'[d])
        BY <2>4, <2>5, <4>1 DEF At
      <4>3. ops'[d] = {o}
        BY <2>a, <2>3, <3>2, <3>3
      <4>. QED BY <3>2, <4>2, <4>3 DEF At
    <3>4. started'[d] >= started[d]
      BY <2>6, <3>1
    <3>. QED BY <2>1, <2>3, <2>4, <3>3, <3>4, NextLink
  <2>. QED BY <2>7, <2>8, <2>9, <2>10 DEF Handle
<1>. QED BY <1>1, <1>2

-----------------------------------------------------------------------------
(* A thread takes a handler: the same link, now as a handler.              *)
LEMMA TakeLocal ==
  ASSUME IInv, NEW c \in Conn, Take(c), NEW d \in Conn
  PROVE  Local(d)'
<1>1. TypeOK /\ Local(d) /\ Local(c)
  BY DEF IInv
<1>2. PICK t \in Thread : \E o \in ops[c] : Dispatch(t, c, o)
  BY DEF Take
<1>3. PICK op \in ops[c] : Dispatch(t, c, op)
  BY <1>2
<1>4. /\ op \in Operation /\ op.conn = c /\ running[t] = Free
      /\ running' = [running EXCEPT ![t] = op] /\ ops' = [ops EXCEPT ![c] = @ \ {op}]
      /\ UNCHANGED <<accepting, started, member, open, sent, stream, received>>
  BY <1>1, <1>3 DEF Dispatch, Idle, TypeOK, peerVars
<1>5. /\ ops \in [Conn -> SUBSET Operation]
      /\ running \in [Thread -> {Free, Ended} \cup Operation]
      /\ accepting \in Nat
  BY <1>1, AcceptingNat, Zenon DEF TypeOK
<1>6. CASE d # c
  <2>1. \A u \in Thread : running'[u].conn = d \/ running[u].conn = d => running'[u] = running[u]
    BY <1>4, <1>5, <1>6, NoHandler
  <2>. QED BY <1>1, <1>4, <1>5, <1>6, <2>1, Frame
<1>7. CASE d = c
  <2>1. started[c] # 0 /\ (c >= accepting => FALSE)
    BY <1>1 DEF Local, UnusedPart
  <2>2. Taken(c)' = Taken(c)
    BY <1>4 DEF Taken
  <2>3. UnusedPart(c)'
    BY <1>4, <2>1 DEF UnusedPart
  <2>4. StreamPart(c)'
    BY <1>1, <1>4, <2>2 DEF Local, StreamPart
  <2>5. ASSUME ~Late(c)' PROVE ChainPart(c)'
    <3>1. /\ ~Late(c) /\ OneChain(c) /\ At(c, op) /\ ops[c] = {op} /\ Handlers(c) = {}
          /\ \A i \in DOMAIN received[c] : received[c][i] = [size |-> i, block |-> i]
      BY <1>1, <1>4, <2>5 DEF Local, ChainPart, OneChain, Late
    <3>2. ops'[c] = {} /\ \A u \in Handlers(c)' : u = t
      BY <1>4, <1>5, <3>1 DEF Handlers
    <3>3. running'[t] = op /\ At(c, op)'
      BY <1>4, <1>5, <2>2, <3>1 DEF At
    <3>4. At(c, running[t])'
      BY <3>3 DEF At
    <3>5. OneChain(c)'
      BY <3>2 DEF OneChain
    <3>. QED BY <1>4, <3>1, <3>2, <3>4, <3>5 DEF ChainPart
  <2>. QED BY <1>7, <2>3, <2>4, <2>5 DEF Local, ChainPart
<1>. QED BY <1>6, <1>7

(* Of the connection an operation completes for: no thread is concerned,   *)
(* and the operation is the chain's only link.                             *)
LEMMA CompleteChain ==
  ASSUME IInv, NEW c \in Conn, NEW op \in ops[c], NEW state,
         ops' = Complete(c, op, state), running' = running
  PROVE  /\ c < accepting /\ started[c] # 0 /\ Handlers(c)' = Handlers(c)
         /\ \A d \in Conn \ {c} : ops'[d] = ops[d]
         /\ ~Late(c) => /\ Handlers(c) = {} /\ At(c, op)
                        /\ ops'[c] = {[op EXCEPT !.state = state]}
<1>1. TypeOK /\ Local(c)
  BY DEF IInv
<1>2. c < accepting /\ started[c] # 0
  BY <1>1 DEF Local, UnusedPart, TypeOK, Conn
<1>3. ~Late(c) => Handlers(c) = {} /\ At(c, op) /\ ops[c] = {op}
  BY <1>1 DEF Local, ChainPart, OneChain
<1>4. ops' = [ops EXCEPT ![c] = (@ \ {op}) \cup {[op EXCEPT !.state = state]}]
  BY DEF Complete
<1>5. Handlers(c)' = Handlers(c)
  BY DEF Handlers
<1>. QED BY <1>1, <1>2, <1>3, <1>4, <1>5 DEF TypeOK

(* What there is to show for that connection.                              *)
LEMMA Completed ==
  ASSUME IInv, NEW c \in Conn, NEW op \in ops[c], NEW state,
         ops' = Complete(c, op, state), running' = running,
         UNCHANGED <<accepting, started, sent, open>>,
         StreamPart(c)',
         ~Late(c) => /\ At(c, [op EXCEPT !.state = state])'
                     /\ \A i \in DOMAIN received'[c] : received'[c][i] = [size |-> i, block |-> i]
  PROVE  Local(c)'
<1>. DEFINE p == [op EXCEPT !.state = state]
<1>1. /\ c < accepting /\ started[c] # 0 /\ Handlers(c)' = Handlers(c)
      /\ ~Late(c) => Handlers(c) = {} /\ ops'[c] = {p}
  BY CompleteChain
<1>2. ~Late(c) => At(c, p)'
  OBVIOUS
<1>. HIDE DEF p
<1>3. UnusedPart(c)'
  BY <1>1 DEF UnusedPart, IInv, TypeOK, Conn
<1>4. ASSUME ~Late(c) PROVE ChainPart(c)'
  <2>1. OneChain(c)'
    BY <1>1, <1>4 DEF OneChain
  <2>. QED BY <1>1, <1>2, <1>4, <2>1 DEF ChainPart
<1>5. Late(c)' <=> Late(c)
  BY DEF Late
<1>. QED BY <1>3, <1>4, <1>5 DEF Local, ChainPart

(* Counting what is left in a stream.                                      *)
LEMMA Counting ==
  ASSUME NEW s \in Nat, NEW l \in Nat
  PROVE  /\ 2 * s - (l - 1) = (2 * s - l) + 1
         /\ 2 * (s + 1) - (l + 2) = 2 * s - l
         /\ 2 * (s + 1) = (2 * s - l) + (l + 1) + 1
         /\ 2 * (s + 1) = (2 * s - l) + (l + 2)
  OBVIOUS

(* The operations complete.                                                *)
LEMMA TransferLocal ==
  ASSUME IInv, NEW c \in Conn, Transfer(c), NEW d \in Conn
  PROVE  Local(d)'
<1>1. TypeOK /\ Local(d) /\ Local(c) /\ accepting \in Nat
  <2>1. TypeOK /\ Local(d) /\ Local(c)
    BY DEF IInv
  <2>2. accepting \in Nat
    BY <2>1 DEF TypeOK
  <2>. QED BY <2>1, <2>2
<1>2. PICK op \in ops[c] : ReadDone(c, op) \/ WriteDone(c, op) \/ Failed(c, op)
  BY DEF Transfer
<1>3. PICK state \in {"done", "failed"} : ops' = Complete(c, op, state)
  BY <1>2 DEF ReadDone, WriteDone, Failed
<1>4. /\ running' = running /\ accepting' = accepting /\ started' = started
      /\ sent' = sent /\ open' = open
  BY <1>2 DEF ReadDone, WriteDone, Failed, serverVars, peerVars
<1>5. op \in Operation
  BY <1>1 DEF TypeOK
<1>6. CASE d # c
  <2>1. ops'[d] = ops[d]
    BY <1>3, <1>4, <1>6, CompleteChain
  <2>2. member'[d] = member[d] /\ stream'[d] = stream[d] /\ received'[d] = received[d]
    <3>1. CASE ReadDone(c, op)
      BY <1>1, <1>6, <3>1 DEF ReadDone, TypeOK
    <3>2. CASE WriteDone(c, op)
      BY <1>1, <1>6, <3>2 DEF WriteDone, TypeOK
    <3>3. CASE Failed(c, op)
      BY <3>3 DEF Failed, peerVars
    <3>. QED BY <1>2, <3>1, <3>2, <3>3
  <2>. QED BY <1>1, <1>4, <2>1, <2>2, Frame
<1>7. CASE ReadDone(c, op)
  <2>. DEFINE Item == [of : Nat, is : {"size", "block"}]
  <2>1. /\ ops' = Complete(c, op, "done") /\ received' = received
        /\ stream[c] # <<>> /\ stream' = [stream EXCEPT ![c] = Tail(@)]
        /\ op.state = "pending" /\ op.kind \in {"size", "block"}
    BY <1>5, <1>7 DEF ReadDone, Operation
  <2>2. stream[c] \in Seq(Item) /\ sent[c] \in Nat /\ received[c] \in Seq([size : Nat, block : Nat])
    BY <1>1 DEF TypeOK
  <2>3. stream'[c] = Tail(stream[c])
    BY <1>1, <2>1 DEF TypeOK
  <2>. HIDE DEF Item
  <2>4. /\ Len(stream[c]) \in Nat /\ Len(stream[c]) >= 1
        /\ Len(stream'[c]) = Len(stream[c]) - 1
        /\ \A i \in 1..Len(stream'[c]) : stream'[c][i] = stream[c][i + 1]
        /\ Head(stream[c]) = stream[c][1] /\ stream[c][1] \in Item
    <3>1. Len(stream[c]) \in Nat /\ Len(stream[c]) >= 1
      BY <2>1, <2>2
    <3>2. /\ Len(Tail(stream[c])) = Len(stream[c]) - 1
          /\ \A i \in 1..Len(Tail(stream[c])) : Tail(stream[c])[i] = stream[c][i + 1]
      BY <2>2, <3>1
    <3>3. Head(stream[c]) = stream[c][1] /\ stream[c][1] \in Item
      BY <2>2, <3>1
    <3>. QED BY <2>3, <3>1, <3>2, <3>3
  <2>5. Taken(c)' = Taken(c) + 1 /\ Taken(c) \in Int
    <3>1. sent'[c] = sent[c]
      BY <1>4
    <3>2. 2 * sent[c] - (Len(stream[c]) - 1) = (2 * sent[c] - Len(stream[c])) + 1
      BY <2>2, <2>4, Counting
    <3>. QED BY <2>2, <2>4, <3>1, <3>2 DEF Taken
  <2>6. /\ Taken(c) >= 0 /\ stream[c][1].of \in Nat
        /\ 2 * stream[c][1].of \in {Taken(c) + 1, Taken(c) + 2}
    BY <1>1, <2>4, <2>5 DEF Local, StreamPart, Item
  <2>7. StreamPart(c)'
    <3>1. ASSUME NEW i \in 1..Len(stream'[c])
          PROVE  2 * stream'[c][i].of \in {Taken(c) + 1 + i, Taken(c) + 1 + i + 1}
      <4>1. i + 1 \in 1..Len(stream[c]) /\ i \in Nat
        BY <2>4
      <4>2. 2 * stream[c][i + 1].of \in {Taken(c) + (i + 1), Taken(c) + (i + 1) + 1}
        BY <1>1, <4>1 DEF Local, StreamPart
      <4>3. stream'[c][i] = stream[c][i + 1]
        BY <2>4
      <4>4. Taken(c) + 1 + i = Taken(c) + (i + 1)
        BY <2>5, <4>1
      <4>. QED BY <4>2, <4>3, <4>4
    <3>2. Taken(c)' >= 0
      BY <2>5, <2>6
    <3>. QED BY <2>5, <3>1, <3>2 DEF StreamPart
  <2>8. ASSUME ~Late(c)
        PROVE  /\ At(c, [op EXCEPT !.state = "done"])'
               /\ \A i \in DOMAIN received'[c] : received'[c][i] = [size |-> i, block |-> i]
    <3>. DEFINE p == [op EXCEPT !.state = "done"]
    <3>1. p.kind = op.kind /\ p.state = "done"
      BY <1>5 DEF Operation
    <3>2. At(c, op)
      BY <1>3, <1>4, <2>8, CompleteChain
    <3>3. Len(received'[c]) = Len(received[c]) /\ Len(received[c]) \in Nat
      BY <2>1, <2>2
    <3>. HIDE DEF p
    <3>4. CASE op.kind = "size"
      <4>1. Taken(c)' = 2 * Len(received'[c]) + 1
        BY <2>1, <2>5, <3>2, <3>3, <3>4 DEF At
      <4>2. At(c, p)'
        BY <3>1, <3>4, <4>1 DEF At
      <4>. QED BY <1>1, <2>1, <2>8, <4>2 DEF p, Local, ChainPart
    <3>5. CASE op.kind = "block"
      <4>1. Taken(c) = 2 * Len(received[c]) + 1
        BY <2>1, <3>2, <3>5 DEF At
      <4>2. Taken(c)' = 2 * Len(received'[c]) + 2
        BY <2>5, <3>3, <4>1
      <4>3. stream[c][1].of = Len(received'[c]) + 1
        BY <2>6, <3>3, <4>1
      <4>4. member'[c].request = stream[c][1].of
        <5>1. member' = [member EXCEPT ![c].request = Head(stream[c]).of]
          BY <1>7, <3>5 DEF ReadDone
        <5>2. member[c] \in [size : Nat, request : Nat, response : Nat]
          BY <1>1 DEF TypeOK
        <5>. QED BY <1>1, <2>4, <5>1, <5>2 DEF TypeOK
      <4>5. At(c, p)'
        BY <3>1, <3>5, <4>2, <4>3, <4>4 DEF At
      <4>. QED BY <1>1, <2>1, <2>8, <4>5 DEF p, Local, ChainPart
    <3>. QED BY <2>1, <3>4, <3>5
  <2>9. Local(c)'
    BY <1>4, <2>1, <2>7, <2>8, Completed
  <2>. QED BY <1>6, <2>9
<1>8. CASE WriteDone(c, op)
  <2>. DEFINE answer == [size |-> member[c].size, block |-> member[c].response]
  <2>1. /\ ops' = Complete(c, op, "done") /\ stream' = stream
        /\ received' = [received EXCEPT ![c] = Append(@, answer)]
        /\ op.state = "pending" /\ op.kind = "write"
    BY <1>8 DEF WriteDone
  <2>2. received[c] \in Seq([size : Nat, block : Nat]) /\ received'[c] = Append(received[c], answer)
    BY <1>1, <2>1 DEF TypeOK
  <2>3. answer \in [size : Nat, block : Nat]
    BY <1>1 DEF TypeOK
  <2>4. Taken(c)' = Taken(c)
    BY <1>4, <2>1 DEF Taken
  <2>5. StreamPart(c)'
    BY <1>1, <2>1, <2>4 DEF Local, StreamPart
  <2>6. ASSUME ~Late(c)
        PROVE  /\ At(c, [op EXCEPT !.state = "done"])'
               /\ \A i \in DOMAIN received'[c] : received'[c][i] = [size |-> i, block |-> i]
    <3>. DEFINE p == [op EXCEPT !.state = "done"]
    <3>. DEFINE n == Len(received[c])
    <3>1. p.kind = "write" /\ p.state = "done"
      BY <1>5, <2>1 DEF Operation
    <3>2. At(c, op)
      BY <1>3, <1>4, <2>6, CompleteChain
    <3>3. Taken(c) = 2 * n + 2 /\ answer = [size |-> n + 1, block |-> n + 1]
      BY <2>1, <3>2 DEF At
    <3>4. \A i \in DOMAIN received[c] : received[c][i] = [size |-> i, block |-> i]
      BY <1>1, <2>6 DEF Local, ChainPart
    <3>. HIDE DEF answer, p
    <3>5. /\ n \in Nat /\ Len(received'[c]) = n + 1 /\ DOMAIN received'[c] = 1..(n + 1)
          /\ received'[c][n + 1] = answer
          /\ \A i \in 1..n : i \in DOMAIN received[c] /\ received'[c][i] = received[c][i]
      BY <2>2, <2>3
    <3>6. Taken(c)' = 2 * Len(received'[c])
      BY <2>4, <3>3, <3>5
    <3>7. At(c, p)'
      BY <3>1, <3>6 DEF At
    <3>8. ASSUME NEW i \in DOMAIN received'[c]
          PROVE  received'[c][i] = [size |-> i, block |-> i]
      <4>1. i \in 1..n \/ i = n + 1
        BY <3>5
      <4>2. CASE i \in 1..n
        BY <3>4, <3>5, <4>2
      <4>3. CASE i = n + 1
        BY <3>3, <3>5, <4>3
      <4>. QED BY <4>1, <4>2, <4>3
    <3>. QED BY <3>7, <3>8 DEF p
  <2>7. Local(c)'
    BY <1>4, <2>1, <2>5, <2>6, Completed
  <2>. QED BY <1>6, <2>7
<1>9. CASE Failed(c, op)
  <2>1. /\ ops' = Complete(c, op, "failed") /\ stream' = stream /\ received' = received
    BY <1>9 DEF Failed, peerVars
  <2>2. Taken(c)' = Taken(c)
    BY <1>4, <2>1 DEF Taken
  <2>3. StreamPart(c)'
    BY <1>1, <2>1, <2>2 DEF Local, StreamPart
  <2>4. At(c, [op EXCEPT !.state = "failed"])'
    <3>1. [op EXCEPT !.state = "failed"].state = "failed"
      BY <1>5 DEF Operation
    <3>. QED BY <3>1 DEF At
  <2>5. ~Late(c) => \A i \in DOMAIN received'[c] : received'[c][i] = [size |-> i, block |-> i]
    BY <1>1, <2>1 DEF Local, ChainPart
  <2>6. Local(c)'
    BY <1>4, <2>1, <2>3, <2>4, <2>5, Completed
  <2>. QED BY <1>6, <2>6
<1>. QED BY <1>2, <1>7, <1>8, <1>9

(* A peer sends a block.                                                   *)
LEMMA SendLocal ==
  ASSUME IInv, NEW c \in Conn, Send(c), NEW d \in Conn
  PROVE  Local(d)'
<1>. DEFINE size == [of |-> sent'[c], is |-> "size"]
<1>. DEFINE block == [of |-> sent'[c], is |-> "block"]
<1>. DEFINE Item == [of : Nat, is : {"size", "block"}]
<1>1. TypeOK /\ Local(d) /\ Local(c) /\ accepting \in Nat
  <2>1. TypeOK /\ Local(d) /\ Local(c)
    BY DEF IInv
  <2>2. accepting \in Nat
    BY <2>1 DEF TypeOK
  <2>. QED BY <2>1, <2>2
<1>2. /\ c \in open /\ sent' = [sent EXCEPT ![c] = @ + 1]
      /\ stream' = [stream EXCEPT ![c] = @ \o <<size, block>>]
      /\ UNCHANGED <<accepting, running, started, ops, member, open, received>>
  BY DEF Send, serverVars, connVars
<1>3. sent[c] \in Nat /\ stream[c] \in Seq(Item) /\ sent'[c] = sent[c] + 1
  BY <1>1, <1>2 DEF TypeOK
<1>4. size \in Item /\ block \in Item /\ size.of = sent[c] + 1 /\ block.of = sent[c] + 1
  BY <1>3
<1>5. stream'[c] = stream[c] \o <<size, block>>
  BY <1>1, <1>2 DEF TypeOK
<1>. HIDE DEF size, block, Item
<1>6. CASE d # c
  <2>1. sent'[d] = sent[d] /\ stream'[d] = stream[d]
    BY <1>1, <1>2, <1>6 DEF TypeOK
  <2>2. accepting' = accepting /\ accepting' >= accepting
    BY <1>1, <1>2
  <2>. QED BY <1>1, <1>2, <2>1, <2>2, Frame
<1>7. CASE d = c
  <2>1. /\ Len(stream[c]) \in Nat /\ Len(stream'[c]) = Len(stream[c]) + 2
        /\ \A i \in 1..Len(stream[c]) : stream'[c][i] = stream[c][i]
        /\ stream'[c][Len(stream[c]) + 1] = size
        /\ stream'[c][Len(stream[c]) + 2] = block
    BY <1>3, <1>4, <1>5
  <2>2. Taken(c)' = Taken(c) /\ Taken(c) = 2 * sent[c] - Len(stream[c])
    <3>1. 2 * (sent[c] + 1) - (Len(stream[c]) + 2) = 2 * sent[c] - Len(stream[c])
      BY <1>3, <2>1, Counting
    <3>. QED BY <1>3, <2>1, <3>1 DEF Taken
  <2>3. ASSUME NEW i \in 1..Len(stream'[c])
        PROVE  2 * stream'[c][i].of \in {Taken(c) + i, Taken(c) + i + 1}
    <3>1. i \in 1..Len(stream[c]) \/ i = Len(stream[c]) + 1 \/ i = Len(stream[c]) + 2
      BY <2>1
    <3>2. CASE i \in 1..Len(stream[c])
      BY <1>1, <2>1, <3>2 DEF Local, StreamPart
    <3>3. CASE i = Len(stream[c]) + 1
      <4>1. stream'[c][i].of = sent[c] + 1
        BY <1>4, <2>1, <3>3
      <4>2. 2 * (sent[c] + 1) = Taken(c) + i + 1
        BY <1>3, <2>1, <2>2, <3>3, Counting
      <4>. QED BY <4>1, <4>2
    <3>4. CASE i = Len(stream[c]) + 2
      <4>1. stream'[c][i].of = sent[c] + 1
        BY <1>4, <2>1, <3>4
      <4>2. 2 * (sent[c] + 1) = Taken(c) + i
        BY <1>3, <2>1, <2>2, <3>4, Counting
      <4>. QED BY <4>1, <4>2
    <3>. QED BY <3>1, <3>2, <3>3, <3>4
  <2>4. StreamPart(c)'
    BY <1>1, <2>2, <2>3 DEF Local, StreamPart
  <2>5. Handlers(c)' = Handlers(c) /\ (Late(c)' <=> Late(c))
    BY <1>2 DEF Handlers, Late
  <2>6. UnusedPart(c)'
    BY <1>1, <1>2, <2>5 DEF Local, UnusedPart
  <2>7. ASSUME ~Late(c) PROVE ChainPart(c)'
    <3>1. OneChain(c)'
      BY <1>1, <1>2, <2>5, <2>7 DEF Local, ChainPart, OneChain
    <3>2. \A op : At(c, op) => At(c, op)'
      BY <1>2, <2>2 DEF At
    <3>3. (\A op \in ops[c] : At(c, op))'
      BY <1>1, <1>2, <2>7, <3>2 DEF Local, ChainPart
    <3>4. (\A t \in Handlers(c) : At(c, running[t]))'
      <4>. SUFFICES ASSUME NEW t \in Handlers(c) PROVE At(c, running[t])'
        BY <2>5
      <4>1. PICK op : op = running[t]
        OBVIOUS
      <4>2. At(c, op)'
        BY <1>1, <2>7, <3>2, <4>1 DEF Local, ChainPart
      <4>. QED BY <1>2, <4>1, <4>2 DEF At
    <3>. QED BY <1>1, <1>2, <2>7, <3>1, <3>3, <3>4 DEF Local, ChainPart
  <2>. QED BY <1>7, <2>4, <2>5, <2>6, <2>7 DEF Local, ChainPart
<1>. QED BY <1>6, <1>7

(* A connection is accepted, or its accept has failed.                     *)
LEMMA AcceptLocal ==
  ASSUME IInv, HandleAccept, NEW d \in Conn
  PROVE  Local(d)'
<1>. DEFINE c == accepting
<1>1. TypeOK /\ Local(d) /\ c \in Conn /\ c \in Nat
  BY DEF IInv, TypeOK, HandleAccept, Conn
<1>2. /\ accepting' = accepting + 1
      /\ UNCHANGED <<running, member, sent, stream, received>>
  BY DEF HandleAccept
<1>3. CASE UNCHANGED <<open, started, ops, next>>
  BY <1>1, <1>2, <1>3, Frame
<1>4. CASE /\ open' = open \cup {c}
           /\ started' = [started EXCEPT ![c] = @ + 1]
           /\ ops' = [ops EXCEPT ![c] = {Op(c, 0, "size")}]
           /\ next' = [next EXCEPT ![c] = @ + 1]
  <2>1. CASE d # c
    <3>1. started'[d] = started[d] /\ ops'[d] = ops[d] /\ (d \in open' => d \in open)
      BY <1>1, <1>4, <2>1 DEF TypeOK
    <3>. QED BY <1>1, <1>2, <3>1, Frame
  <2>2. CASE d = c
    <3>1. /\ started[d] = 0 /\ Handlers(d) = {} /\ sent[d] = 0
          /\ stream[d] = <<>> /\ received[d] = <<>>
      BY <1>1, <2>2 DEF Local, UnusedPart
    <3>2. PICK o : o = Op(c, 0, "size")
      OBVIOUS
    <3>3. o.kind = "size" /\ o.state = "pending"
      BY <1>1, <3>2, OpType
    <3>4. started'[d] = 1 /\ ops'[d] = {o}
      BY <1>1, <1>4, <2>2, <3>1, <3>2 DEF TypeOK
    <3>5. Handlers(d)' = {} /\ Taken(d)' = 0 /\ stream'[d] = <<>> /\ received'[d] = <<>>
      <4>1. sent'[d] = 0 /\ stream'[d] = <<>> /\ received'[d] = <<>> /\ 2 * 0 - 0 = 0
        BY <1>2, <3>1
      <4>2. Taken(d)' = 0
        BY <4>1 DEF Taken
      <4>. QED BY <1>2, <3>1, <4>1, <4>2 DEF Handlers
    <3>6. UnusedPart(d)'
      BY <1>1, <1>2, <2>2, <3>4 DEF UnusedPart
    <3>7. StreamPart(d)'
      BY <3>5 DEF StreamPart
    <3>8. OneChain(d)'
      BY <3>4, <3>5 DEF OneChain
    <3>9. At(d, o)'
      BY <3>3, <3>5 DEF At
    <3>10. ChainPart(d)'
      BY <3>4, <3>5, <3>8, <3>9 DEF ChainPart
    <3>. QED BY <3>6, <3>7, <3>10 DEF Local
  <2>. QED BY <2>1, <2>2
<1>. QED BY <1>3, <1>4 DEF HandleAccept

(* Every step keeps what is said of each connection.                       *)
LEMMA LocalStep ==
  ASSUME IInv, [Next]_vars
  PROVE  (\A c \in Conn : Local(c))'
<1>1. TypeOK /\ TypeOK' /\ accepting \in Nat
  <2>1. TypeOK /\ TypeOK'
    BY TypeStep DEF IInv
  <2>. QED BY <2>1, AcceptingNat
<1>. SUFFICES ASSUME NEW d \in Conn PROVE Local(d)'
  OBVIOUS
<1>2. Local(d)
  BY DEF IInv
<1>3. CASE HandleAccept
  BY <1>3, AcceptLocal
<1>4. CASE HandleStop
  BY <1>1, <1>2, <1>4, Frame DEF HandleStop, connVars, peerVars
<1>5. ASSUME NEW t \in Thread, ThreadEnds(t)
      PROVE  Local(d)'
  <2>1. \A u \in Thread : running'[u].conn = d \/ running[u].conn = d => running'[u] = running[u]
    BY <1>1, <1>5, NoHandler DEF ThreadEnds, TypeOK
  <2>. QED BY <1>1, <1>2, <1>5, <2>1, Frame DEF ThreadEnds, connVars, peerVars
<1>6. ASSUME NEW t \in Thread, Handle(t)
      PROVE  Local(d)'
  BY <1>1, <1>6, HandleLocal
<1>7. ASSUME NEW c \in Conn, Take(c) \/ Transfer(c) \/ Send(c)
      PROVE  Local(d)'
  BY <1>7, TakeLocal, TransferLocal, SendLocal
<1>8. ASSUME NEW c \in Conn, Close(c)
      PROVE  Local(d)'
  BY <1>1, <1>2, <1>8, Frame DEF Close, serverVars, connVars
<1>9. CASE UNCHANGED vars
  BY <1>1, <1>2, <1>9, Frame DEF vars, serverVars, connVars, peerVars
<1>. QED BY <1>3, <1>4, <1>5, <1>6, <1>7, <1>8, <1>9 DEF Next

(* The initial state.                                                      *)
LEMMA Initial == Init => IInv
<1>. SUFFICES ASSUME Init PROVE IInv
  OBVIOUS
<1>1. TypeOK
  <2>1. accepting \in 1..(MaxConn + 1)
    BY BoundAssumption DEF Init
  <2>2. /\ stopped \in BOOLEAN /\ open \subseteq Conn
        /\ started \in [Conn -> Nat] /\ next \in [Conn -> Nat] /\ sent \in [Conn -> Nat]
        /\ member \in [Conn -> [size : Nat, request : Nat, response : Nat]]
    BY DEF Init
  <2>3. \A S : <<>> \in Seq(S)
    OBVIOUS
  <2>4. /\ stream \in [Conn -> Seq([of : Nat, is : {"size", "block"}])]
        /\ received \in [Conn -> Seq([size : Nat, block : Nat])]
    BY <2>3 DEF Init
  <2>5. /\ ops \in [Conn -> SUBSET Operation]
        /\ \A c \in Conn : ops[c] = {}
        /\ running \in [Thread -> {Free, Ended} \cup Operation]
    BY DEF Init
  <2>. QED BY <2>1, <2>2, <2>4, <2>5 DEF TypeOK
<1>2. ASSUME NEW c \in Conn PROVE Local(c)
  <2>1. Handlers(c) = {}
    BY NoHandler DEF Init, Handlers
  <2>2. UnusedPart(c)
    BY <2>1 DEF Init, UnusedPart
  <2>3. StreamPart(c)
    BY DEF Init, StreamPart, Taken
  <2>4. ChainPart(c)
    BY <2>1 DEF Init, ChainPart, OneChain
  <2>. QED BY <2>2, <2>3, <2>4 DEF Local
<1>. QED BY <1>1, <1>2 DEF IInv

-----------------------------------------------------------------------------
(* The inductive invariant: as long as the handler of a connection has     *)
(* always answered, its chain has one link, whose kind and state tell what *)
(* has been read of the stream and what the members hold.                  *)
THEOREM Invariance == Spec => []IInv
<1>1. IInv /\ [Next]_vars => IInv'
  BY TypeStep, LocalStep DEF IInv
<1>. QED BY Initial, <1>1, PTL DEF Spec

(* Every state is well typed.                                              *)
THEOREM TypeCorrect == Spec => []TypeOK
<1>1. IInv => TypeOK
  BY DEF IInv
<1>. QED BY Invariance, <1>1, PTL

(* A connection whose handler has always answered has one operation or one *)
(* handler at a time, which is all that protects its members, and its peer *)
(* gets the answers in order, size and contents                            *)
(* (TcpBlockTransport.cpp:412, 446).                                       *)
THEOREM BlocksAreAnsweredInOrder == Spec => []AnswersInOrder
<1>1. IInv => AnswersInOrder
  <2>. SUFFICES ASSUME IInv, NEW c \in Conn, ~Late(c)
                PROVE  /\ Cardinality(ops[c]) + Cardinality(Handlers(c)) =< 1
                       /\ \A i \in DOMAIN received[c] :
                             received[c][i] = [size |-> i, block |-> i]
    BY DEF AnswersInOrder
  <2>1. ChainPart(c)
    BY DEF IInv, Local
  <2>2. \/ ops[c] = {} /\ Handlers(c) = {}
        \/ (\E op : ops[c] = {op}) /\ Handlers(c) = {}
        \/ ops[c] = {} /\ \E t : Handlers(c) = {t}
    <3>1. OneChain(c)
      BY <2>1 DEF ChainPart
    <3>2. ops[c] # {} => \E op : ops[c] = {op}
      BY <3>1 DEF OneChain
    <3>3. Handlers(c) # {} => \E t : Handlers(c) = {t}
      BY <3>1 DEF OneChain
    <3>. QED BY <3>1, <3>2, <3>3 DEF OneChain
  <2>3. Cardinality({}) = 0 /\ \A x : Cardinality({x}) = 1
    BY FS_EmptySet, FS_Singleton
  <2>4. Cardinality(ops[c]) + Cardinality(Handlers(c)) =< 1
    <3>1. 0 + 0 =< 1 /\ 1 + 0 =< 1 /\ 0 + 1 =< 1
      OBVIOUS
    <3>. QED BY <2>2, <2>3, <3>1, Zenon
  <2>. QED BY <2>1, <2>4 DEF ChainPart
<1>. QED BY Invariance, <1>1, PTL

=============================================================================
