-------------------------- MODULE ServiceCallProofs --------------------------
(***************************************************************************)
(* What every reachable state of ServiceCall satisfies, for any number of  *)
(* clients, calls, failed receives and crashes: where the one request of a *)
(* connection is, and with it which call an answer belongs to, how often a *)
(* function runs and what a status means.                                  *)
(***************************************************************************)
EXTENDS ServiceCall, TLAPS

InWorker(c) == worker.pc # "recv" /\ worker.client = c

(* The call n of c waits to be executed, or has a response on its way.     *)
Unexecuted(c, n) == \/ outbox[c] = n
                    \/ arrived[c] = n
                    \/ InWorker(c) /\ worker.pc # "reply" /\ worker.number = n
Replied(c, n) == \/ InWorker(c) /\ worker.pc = "reply" /\ worker.number = n
                 \/ inbox[c] # NONE /\ inbox[c].number = n
Pending(c, n) == Unexecuted(c, n) \/ Replied(c, n)

(* A connection has one request or response under way, and none when its   *)
(* socket may send.                                                        *)
OnePlace(c) ==
  /\ outbox[c] # 0 => arrived[c] = 0 /\ ~InWorker(c) /\ inbox[c] = NONE
  /\ arrived[c] # 0 => ~InWorker(c) /\ inbox[c] = NONE
  /\ InWorker(c) => inbox[c] = NONE
  /\ socket[c] = "ready" =>
       outbox[c] = 0 /\ arrived[c] = 0 /\ ~InWorker(c) /\ inbox[c] = NONE

(* What is under way belongs to a call that was made, and what was not     *)
(* made or waits to be executed has not been executed.                     *)
DonePart(c) ==
  \A n \in Number :
    /\ Pending(c, n) => n =< Calls(c)
    /\ done[c][n].times =< 1
    /\ done[c][n].times = 0 => done[c][n].result = NONE
    /\ n > Calls(c) \/ Unexecuted(c, n) => done[c][n].times = 0

(* A call that gave up before it sent has nothing under way.               *)
IncompletePart(c) ==
  stub[c].pc = "idle" /\ stub[c].status = "FAILURE" /\ stub[c].answered = 0 =>
    /\ Calls(c) \in Number /\ done[c][Calls(c)].times = 0
    /\ ~Pending(c, Calls(c))

(* Who has an answer has nothing else under way.                           *)
AnsweredPart(c) ==
  stub[c].answered # 0 =>
    stub[c].pc = "idle" /\ socket[c] = "ready" /\ stub[c].answered =< Calls(c)

(* Before a receive has failed, what is under way is the call that waits.  *)
OwnPart(c) ==
  failed[c] = 0 =>
    /\ stub[c].pc # "gone"
    /\ stub[c].pc = "idle" => socket[c] = "ready"
    /\ \A n \in Number : stub[c].pc = "recv" /\ Pending(c, n) => n = Calls(c)
    /\ Answered(c) => stub[c].answered = Calls(c)

(* What a kind of response says of the call n of c.                        *)
Says(c, n, kind) ==
  /\ kind = "error" => (done[c][n].result = "SUCCESS" => ~asked[c][n].void)
  /\ kind # "error" => /\ done[c][n].times = 1
                       /\ \/ done[c][n].result = "SUCCESS"
                          \/ /\ kind = "null" /\ done[c][n].result = "EXCEPTION"
                             /\ ~asked[c][n].declares

RepliedPart(c) ==
  /\ InWorker(c) /\ worker.pc = "reply" => Says(c, worker.number, worker.kind)
  /\ inbox[c] # NONE => Says(c, inbox[c].number, inbox[c].kind)

StatusPart(c) ==
  Answered(c) =>
    /\ stub[c].status = "SUCCESS" =>
         \/ Done(c).times = 1 /\ Done(c).result = "SUCCESS"
         \/ /\ Done(c).result = "EXCEPTION"
            /\ ~asked[c][stub[c].answered].declares
            /\ Current(c).void
    /\ stub[c].status = "EXCEPTION" =>
         (Done(c).result = "SUCCESS" => ~asked[c][stub[c].answered].void)

Local(c) == /\ OnePlace(c) /\ DonePart(c) /\ IncompletePart(c) /\ AnsweredPart(c)
            /\ OwnPart(c) /\ RepliedPart(c) /\ StatusPart(c)

(* What the worker holds while it is not receiving.                        *)
WorkerPart ==
  /\ worker.pc # "recv" => worker.client \in Client /\ worker.number \in Number
  /\ worker.pc = "reply" => worker.kind \in Kinds
  /\ server = "down" => worker.pc = "recv"

IInv == TypeOK /\ WorkerPart /\ \A c \in Client : Local(c)

-----------------------------------------------------------------------------
(* What a stub returns with is well typed.                                 *)
LEMMA ReturnType ==
  ASSUME TypeOK, NEW c \in Client, NEW status \in Results \cup {"INVALID_RESPONSE"},
         NEW answered \in 0..MaxCalls, Return(c, status, answered)
  PROVE  stub' \in [Client -> Stub]
<1>1. [pc |-> "idle", status |-> status, answered |-> answered] \in Stub
  BY DEF Stub
<1>. QED BY <1>1 DEF Return, TypeOK

(* A call appends a method to those the client has called.                 *)
LEMMA CallAppends ==
  ASSUME TypeOK, NEW c \in Client, NEW m \in Method, Call(c, m)
  PROVE  /\ asked' \in [Client -> Seq(Method)]
         /\ asked'[c] = Append(asked[c], m) /\ asked[c] \in Seq(Method)
         /\ Calls(c) \in Nat /\ Calls(c) < MaxCalls
         /\ Calls(c)' = Calls(c) + 1 /\ Calls(c)' \in Number
         /\ \A n \in 1..Calls(c) : asked'[c][n] = asked[c][n]
         /\ \A d \in Client : d # c => asked'[d] = asked[d]
         /\ calls' \in 0..MaxCalls /\ \A d \in Client : Calls(d)' =< calls'
<1>1. /\ asked \in [Client -> Seq(Method)] /\ calls \in 0..MaxCalls
      /\ calls < MaxCalls /\ calls' = calls + 1 /\ MaxCalls \in Nat
      /\ asked' = [asked EXCEPT ![c] = Append(@, m)]
      /\ \A d \in Client : Calls(d) =< calls
  BY BoundsAssumption DEF TypeOK, Call
<1>2. asked[c] \in Seq(Method) /\ asked'[c] = Append(asked[c], m)
      /\ \A d \in Client : d # c => asked'[d] = asked[d]
  BY <1>1
<1>3. Append(asked[c], m) \in Seq(Method) /\ Len(Append(asked[c], m)) = Len(asked[c]) + 1
      /\ Len(asked[c]) \in Nat
      /\ \A n \in 1..Len(asked[c]) : Append(asked[c], m)[n] = asked[c][n]
  BY <1>2
<1>4. asked' \in [Client -> Seq(Method)]
  BY <1>1, <1>3
<1>5. \A d \in Client : Calls(d) \in Nat
  BY <1>1 DEF Calls
<1>6. Calls(c)' = Calls(c) + 1 /\ Calls(c) < MaxCalls
  BY <1>1, <1>2, <1>3 DEF Calls
<1>7. Calls(c)' \in Number
  BY <1>1, <1>5, <1>6 DEF Number
<1>8. \A d \in Client : Calls(d)' =< calls'
  <2>1. \A d \in Client : d # c => Calls(d)' = Calls(d)
    BY <1>2 DEF Calls
  <2>. QED BY <1>1, <1>5, <1>6, <2>1
<1>9. calls' \in 0..MaxCalls
  BY <1>1
<1>. QED BY <1>2, <1>3, <1>4, <1>5, <1>6, <1>7, <1>8, <1>9 DEF Calls

(* The steps of a client and of its requests.                              *)
LEMMA ClientType ==
  ASSUME TypeOK, NEW c \in Client,
         (\E m \in Method : Call(c, m)) \/ Receive(c) \/ FailReceive(c) \/ Deliver(c)
  PROVE  TypeOK'
<1>. USE DEF serverVars
<1>1. 0 \in 0..MaxCalls /\ MaxCalls \in Nat /\ MaxFailed \in Nat
  BY BoundsAssumption
<1>2. ASSUME NEW m \in Method, Call(c, m) PROVE TypeOK'
  <2>1. /\ asked' \in [Client -> Seq(Method)] /\ Calls(c)' \in Number
        /\ calls' \in 0..MaxCalls /\ \A d \in Client : Calls(d)' =< calls'
    BY <1>2, CallAppends
  <2>2. stub' \in [Client -> Stub]
    <3>1. [pc |-> "recv", status |-> NONE, answered |-> 0] \in Stub
      BY <1>1 DEF Stub
    <3>2. CASE Return(c, "FAILURE", 0)
      BY <1>1, <3>2, ReturnType DEF Results
    <3>3. CASE stub' = [stub EXCEPT ![c] = [pc |-> "recv", status |-> NONE, answered |-> 0]]
      BY <3>1, <3>3 DEF TypeOK
    <3>. QED BY <1>2, <3>2, <3>3 DEF Call
  <2>3. outbox' \in [Client -> 0..MaxCalls]
    <3>1. Len(asked'[c]) \in 0..MaxCalls
      BY <1>1, <2>1 DEF Calls, Number
    <3>2. outbox \in [Client -> 0..MaxCalls]
      BY DEF TypeOK
    <3>3. outbox' = [outbox EXCEPT ![c] = Len(asked'[c])] \/ outbox' = outbox
      BY <1>2 DEF Call
    <3>. QED BY <3>1, <3>2, <3>3
  <2>4. socket' \in [Client -> {"ready", "waiting"}]
    BY <1>2 DEF Call, TypeOK
  <2>5. UNCHANGED <<failed, arrived, inbox, server, crashes, worker, done>>
    BY <1>2 DEF Call
  <2>. QED BY <2>1, <2>2, <2>3, <2>4, <2>5 DEF TypeOK
<1>3. CASE Receive(c)
  <2>1. inbox[c] \in Response
    BY <1>3 DEF Receive, TypeOK
  <2>2. inbox[c].number \in 0..MaxCalls
    BY <1>1, <2>1 DEF Response, Number
  <2>3. stub' \in [Client -> Stub]
    <3>1. PICK s \in Statuses(Current(c), inbox[c].kind) \cup {"INVALID_RESPONSE"} :
            Return(c, s, inbox[c].number)
      BY <1>3 DEF Receive
    <3>2. s \in Results \cup {"INVALID_RESPONSE"}
      BY DEF Statuses, Results
    <3>. QED BY <2>2, <3>1, <3>2, ReturnType
  <2>4. socket' \in [Client -> {"ready", "waiting"}] /\ inbox' \in [Client -> Response \cup {NONE}]
    BY <1>3 DEF Receive, TypeOK
  <2>5. UNCHANGED <<asked, calls, failed, outbox, arrived, server, crashes, worker, done>>
    BY <1>3 DEF Receive
  <2>. QED BY <2>3, <2>4, <2>5 DEF TypeOK, Calls
<1>4. CASE FailReceive(c)
  <2>1. stub' \in [Client -> Stub]
    <3>1. CASE Return(c, "INVALID_RESPONSE", 0)
      BY <1>1, <3>1, ReturnType
    <3>2. CASE stub' = [stub EXCEPT ![c].pc = "gone"]
      <4>1. stub[c] \in Stub
        BY DEF TypeOK
      <4>2. [stub[c] EXCEPT !.pc = "gone"] \in Stub
        BY <4>1 DEF Stub
      <4>. QED BY <3>2, <4>2 DEF TypeOK
    <3>. QED BY <1>4, <3>1, <3>2 DEF FailReceive
  <2>2. failed' \in [Client -> 0..MaxFailed]
    BY <1>1, <1>4 DEF FailReceive, TypeOK
  <2>3. UNCHANGED <<asked, calls, socket, outbox, arrived, inbox, server, crashes, worker, done>>
    BY <1>4 DEF FailReceive, netVars
  <2>. QED BY <2>1, <2>2, <2>3 DEF TypeOK, Calls
<1>5. CASE Deliver(c)
  <2>1. arrived' \in [Client -> 0..MaxCalls] /\ outbox' \in [Client -> 0..MaxCalls]
    BY <1>1, <1>5 DEF Deliver, TypeOK
  <2>2. UNCHANGED <<asked, calls, stub, socket, failed, inbox, server, crashes, worker, done>>
    BY <1>5 DEF Deliver, clientVars
  <2>. QED BY <2>1, <2>2 DEF TypeOK, Calls
<1>. QED BY <1>2, <1>3, <1>4, <1>5

(* What a result of a function becomes.                                    *)
LEMMA ResponseKinds ==
  ASSUME NEW m \in Method, NEW result \in Results, NEW kind \in Responses(m, result)
  PROVE  /\ kind \in Kinds
         /\ kind = "error" => (result = "SUCCESS" => ~m.void)
         /\ kind # "error" => \/ result = "SUCCESS"
                              \/ kind = "null" /\ result = "EXCEPTION" /\ ~m.declares
  BY MethodAssumption DEF Responses, Results, Kinds

(* The steps of the server and of its worker.                              *)
LEMMA ServerType ==
  ASSUME TypeOK, WorkerPart, Crash \/ Restart \/ WorkerStep
  PROVE  TypeOK' /\ WorkerPart'
<1>1. /\ 0 \in 0..MaxCalls /\ MaxCalls \in Nat /\ MaxCrashes \in Nat
      /\ worker \in Worker
  BY BoundsAssumption DEF TypeOK
<1>2. Free \in Worker /\ Free.pc = "recv"
  BY <1>1 DEF Free, Worker
<1>3. CASE Crash
  <2>1. arrived' \in [Client -> 0..MaxCalls] /\ crashes' \in 0..MaxCrashes /\ worker' = Free
    BY <1>1, <1>3 DEF Crash, TypeOK
  <2>2. server' = "down" /\ UNCHANGED <<asked, calls, stub, socket, failed, outbox, inbox, done>>
    BY <1>3 DEF Crash, clientVars
  <2>. QED BY <1>2, <2>1, <2>2 DEF TypeOK, Calls, WorkerPart
<1>4. CASE Restart
  BY <1>4 DEF Restart, TypeOK, Calls, WorkerPart, clientVars, netVars
<1>5. ASSUME NEW c \in Client, Take(c) PROVE TypeOK' /\ WorkerPart'
  <2>1. arrived[c] \in Number /\ arrived[c] \in 0..MaxCalls
    BY <1>1, <1>5 DEF Take, TypeOK, Number
  <2>2. worker' = [pc |-> "dispatch", client |-> c, number |-> arrived[c], kind |-> NONE]
    BY <1>5 DEF Take
  <2>3. worker' \in Worker
    BY <2>1, <2>2 DEF Worker
  <2>4. arrived' \in [Client -> 0..MaxCalls]
    BY <1>1, <1>5 DEF Take, TypeOK
  <2>5. server = "up" /\ UNCHANGED <<asked, calls, stub, socket, failed, outbox, inbox, server, crashes, done>>
    BY <1>5 DEF Take, clientVars
  <2>. QED BY <2>1, <2>2, <2>3, <2>4, <2>5 DEF TypeOK, Calls, WorkerPart
<1>6. CASE Dispatch
  <2>1. /\ worker' \in Worker /\ worker'.client = worker.client /\ worker'.number = worker.number
        /\ \/ worker'.pc = "run"
           \/ worker'.pc = "reply" /\ worker'.kind = "error"
    BY <1>1, <1>6 DEF Dispatch, Worker, Kinds
  <2>2. UNCHANGED <<asked, calls, stub, socket, failed, outbox, arrived, inbox, server, crashes, done>>
    BY <1>6 DEF Dispatch, clientVars, netVars
  <2>3. worker.pc = "dispatch"
    BY <1>6 DEF Dispatch
  <2>. QED BY <2>1, <2>2, <2>3 DEF TypeOK, Calls, WorkerPart, Kinds
<1>7. CASE Execute
  <2>1. worker.pc = "run" /\ worker.client \in Client /\ worker.number \in Number
    BY <1>7 DEF Execute, WorkerPart
  <2>2. PICK result \in Results :
          /\ done' = [done EXCEPT ![worker.client][worker.number] =
                        [times |-> @.times + 1, result |-> result]]
          /\ \E kind \in Responses(Asked(worker), result) :
               worker' = [worker EXCEPT !.pc = "reply", !.kind = kind]
    BY <1>7 DEF Execute
  <2>3. PICK kind \in Responses(Asked(worker), result) :
          worker' = [worker EXCEPT !.pc = "reply", !.kind = kind]
    BY <2>2
  <2>4. kind \in Kinds
    BY DEF Responses, Results, Kinds
  <2>5. worker' \in Worker /\ worker'.client = worker.client /\ worker'.number = worker.number
        /\ worker'.kind = kind
    BY <1>1, <2>3, <2>4 DEF Worker
  <2>6. done' \in [Client -> [Number -> Execution]]
    <3>1. done \in [Client -> [Number -> Execution]]
      BY DEF TypeOK
    <3>2. done[worker.client][worker.number] \in Execution
      BY <2>1, <3>1
    <3>3. [times |-> done[worker.client][worker.number].times + 1, result |-> result] \in Execution
      BY <3>2 DEF Execution
    <3>. QED BY <2>1, <2>2, <3>1, <3>3
  <2>7. UNCHANGED <<asked, calls, stub, socket, failed, outbox, arrived, inbox, server, crashes>>
    BY <1>7 DEF Execute, clientVars, netVars
  <2>. QED BY <2>1, <2>4, <2>5, <2>6, <2>7 DEF TypeOK, Calls, WorkerPart
<1>8. CASE Reply
  <2>1. worker.client \in Client /\ worker.number \in Number /\ worker.kind \in Kinds
    BY <1>8 DEF Reply, WorkerPart
  <2>2. [number |-> worker.number, kind |-> worker.kind] \in Response
    BY <2>1 DEF Response
  <2>3. inbox' \in [Client -> Response \cup {NONE}]
    BY <1>8, <2>1, <2>2 DEF Reply, TypeOK
  <2>4. worker' = Free /\ UNCHANGED <<asked, calls, stub, socket, failed, outbox, arrived, server, crashes, done>>
    BY <1>8 DEF Reply, clientVars
  <2>. QED BY <1>2, <2>3, <2>4 DEF TypeOK, Calls, WorkerPart
<1>. QED BY <1>3, <1>4, <1>5, <1>6, <1>7, <1>8 DEF WorkerStep

(* Types, and what the worker holds.                                       *)
LEMMA TypeStep ==
  ASSUME TypeOK, WorkerPart, [Next]_vars
  PROVE  TypeOK' /\ WorkerPart'
<1>1. CASE UNCHANGED vars
  BY <1>1 DEF vars, clientVars, netVars, serverVars, TypeOK, Calls, WorkerPart
<1>2. ASSUME NEW c \in Client,
             (\E m \in Method : Call(c, m)) \/ Receive(c) \/ FailReceive(c) \/ Deliver(c)
      PROVE  TypeOK' /\ WorkerPart'
  <2>1. TypeOK'
    BY <1>2, ClientType
  <2>2. UNCHANGED <<worker, server>>
    BY <1>2 DEF Call, Receive, FailReceive, Deliver, serverVars
  <2>. QED BY <2>1, <2>2 DEF WorkerPart
<1>. QED BY <1>1, <1>2, ServerType DEF Next
-----------------------------------------------------------------------------
(* What does not touch a connection keeps what is true of it.              *)
LEMMA Frame ==
  ASSUME NEW c \in Client, Local(c),
         asked'[c] = asked[c], stub'[c] = stub[c], socket'[c] = socket[c],
         failed'[c] = failed[c], outbox'[c] = outbox[c], arrived'[c] = arrived[c],
         inbox'[c] = inbox[c], done'[c] = done[c],
         InWorker(c)' <=> InWorker(c), InWorker(c) => worker' = worker
  PROVE  Local(c)'
<1>1. \A n : (Unexecuted(c, n)' <=> Unexecuted(c, n)) /\ (Replied(c, n)' <=> Replied(c, n))
  BY DEF Unexecuted, Replied
<1>2. Calls(c)' = Calls(c)
  BY DEF Calls
<1>3. \A n : Pending(c, n)' <=> Pending(c, n)
  BY <1>1 DEF Pending
<1>4. OnePlace(c)'
  BY DEF Local, OnePlace
<1>5. DonePart(c)' /\ IncompletePart(c)'
  BY <1>1, <1>2, <1>3 DEF Local, DonePart, IncompletePart
<1>6. AnsweredPart(c)' /\ OwnPart(c)'
  BY <1>2, <1>3 DEF Local, AnsweredPart, OwnPart, Answered
<1>7. RepliedPart(c)' /\ StatusPart(c)'
  BY <1>2 DEF Local, RepliedPart, StatusPart, Says, Answered, Done, Current
<1>. QED BY <1>4, <1>5, <1>6, <1>7 DEF Local

(* A connection that has nothing under way.                                *)
LEMMA NothingPending ==
  ASSUME NEW c \in Client, OnePlace(c), socket[c] = "ready"
  PROVE  \A n \in Number : ~Pending(c, n)
  BY DEF OnePlace, Pending, Unexecuted, Replied, Number

LEMMA CallLocal ==
  ASSUME TypeOK, WorkerPart, NEW c \in Client, Local(c), NEW m \in Method, Call(c, m)
  PROVE  Local(c)'
<1>1. /\ asked'[c] = Append(asked[c], m) /\ asked[c] \in Seq(Method)
      /\ Calls(c) \in Nat /\ Calls(c) < MaxCalls
      /\ Calls(c)' = Calls(c) + 1 /\ Calls(c)' \in Number
      /\ \A n \in 1..Calls(c) : asked'[c][n] = asked[c][n]
  BY CallAppends
<1>2. /\ stub[c].pc = "idle"
      /\ UNCHANGED <<failed, arrived, inbox, worker, done>>
      /\ outbox \in [Client -> 0..MaxCalls] /\ stub \in [Client -> Stub]
      /\ socket \in [Client -> {"ready", "waiting"}] /\ MaxCalls \in Nat
  BY BoundsAssumption DEF Call, TypeOK, serverVars
<1>3. \A n \in Number : (Replied(c, n)' <=> Replied(c, n)) /\ n \in Nat /\ n # 0
  BY <1>2 DEF Replied, InWorker, Number
<1>4. InWorker(c)' <=> InWorker(c)
  BY <1>2 DEF InWorker
<1>5. /\ InWorker(c) /\ worker.pc = "reply" => Replied(c, worker.number) /\ worker.number \in Number
      /\ inbox[c] # NONE => Replied(c, inbox[c].number) /\ inbox[c].number \in Number
  BY DEF Replied, InWorker, WorkerPart, TypeOK, Response
<1>6. RepliedPart(c)'
  <2>1. \A n \in Number : Replied(c, n) => n \in 1..Calls(c)
    BY <1>1, <1>3 DEF Local, DonePart, Pending
  <2>2. \A n \in 1..Calls(c), kind \in Kinds : Says(c, n, kind) => Says(c, n, kind)'
    BY <1>1, <1>2 DEF Says
  <2>3. /\ InWorker(c) /\ worker.pc = "reply" => worker.number \in 1..Calls(c) /\ worker.kind \in Kinds
        /\ inbox[c] # NONE => inbox[c].number \in 1..Calls(c) /\ inbox[c].kind \in Kinds
    BY <1>5, <2>1 DEF WorkerPart, TypeOK, Response
  <2>. QED BY <1>2, <1>4, <2>2, <2>3 DEF Local, RepliedPart
<1>7. CASE /\ stub' = [stub EXCEPT ![c] = [pc |-> "idle", status |-> "FAILURE", answered |-> 0]]
           /\ UNCHANGED <<outbox, socket>>
  <2>1. stub'[c].pc = "idle" /\ stub'[c].answered = 0
    BY <1>2, <1>7
  <2>2. \A n \in Number : (Unexecuted(c, n)' <=> Unexecuted(c, n)) /\ (Pending(c, n)' <=> Pending(c, n))
    BY <1>2, <1>3, <1>7 DEF Unexecuted, Pending, InWorker
  <2>3. OnePlace(c)'
    BY <1>2, <1>4, <1>7 DEF Local, OnePlace
  <2>4. DonePart(c)'
    BY <1>1, <1>2, <1>3, <2>2 DEF Local, DonePart
  <2>5. IncompletePart(c)'
    BY <1>1, <1>2, <1>3, <2>2 DEF Local, DonePart, IncompletePart
  <2>6. AnsweredPart(c)' /\ StatusPart(c)'
    BY <2>1 DEF AnsweredPart, StatusPart, Answered
  <2>7. OwnPart(c)'
    BY <1>2, <1>7, <2>1 DEF Local, OwnPart, Answered
  <2>. QED BY <1>6, <2>3, <2>4, <2>5, <2>6, <2>7 DEF Local
<1>8. CASE /\ stub' = [stub EXCEPT ![c] = [pc |-> "recv", status |-> NONE, answered |-> 0]]
           /\ socket' = [socket EXCEPT ![c] = "waiting"]
           /\ \/ socket[c] = "ready" /\ outbox' = [outbox EXCEPT ![c] = Len(asked'[c])]
              \/ socket[c] = "waiting" /\ UNCHANGED outbox
  <2>1. stub'[c].pc = "recv" /\ stub'[c].answered = 0 /\ socket'[c] = "waiting"
    BY <1>2, <1>8
  <2>2. \/ socket[c] = "ready" /\ outbox'[c] = Calls(c)'
        \/ socket[c] = "waiting" /\ outbox'[c] = outbox[c]
    BY <1>2, <1>8 DEF Calls
  <2>3. \A n \in Number : /\ Unexecuted(c, n)' => n = Calls(c)' \/ Unexecuted(c, n)
                          /\ Pending(c, n)' => n = Calls(c)' \/ Pending(c, n)
    BY <1>2, <1>3, <2>2 DEF Unexecuted, Pending, InWorker
  <2>4. OnePlace(c)'
    BY <1>2, <1>4, <2>1, <2>2 DEF Local, OnePlace
  <2>5. DonePart(c)'
    BY <1>1, <1>2, <1>3, <2>3 DEF Local, DonePart
  <2>6. IncompletePart(c)' /\ AnsweredPart(c)' /\ StatusPart(c)'
    BY <2>1 DEF IncompletePart, AnsweredPart, StatusPart, Answered
  <2>7. OwnPart(c)'
    <3>1. ASSUME failed[c] = 0, NEW n \in Number, Pending(c, n)' PROVE n = Calls(c)'
      <4>1. socket[c] = "ready"
        BY <1>2, <3>1 DEF Local, OwnPart
      <4>2. ~Pending(c, n)
        BY <4>1, NothingPending DEF Local
      <4>. QED BY <2>3, <3>1, <4>2
    <3>. QED BY <1>2, <2>1, <3>1 DEF OwnPart, Answered
  <2>. QED BY <1>6, <2>4, <2>5, <2>6, <2>7 DEF Local
<1>. QED BY <1>7, <1>8 DEF Call, Return

LEMMA ReceiveLocal ==
  ASSUME TypeOK, WorkerPart, NEW c \in Client, Local(c), Receive(c)
  PROVE  Local(c)'
<1>1. /\ stub[c].pc = "recv" /\ inbox[c] # NONE
      /\ inbox'[c] = NONE /\ socket'[c] = "ready"
      /\ UNCHANGED <<asked, failed, outbox, arrived, worker, done>>
  BY DEF Receive, TypeOK, serverVars
<1>2. PICK status \in Statuses(Current(c), inbox[c].kind) \cup {"INVALID_RESPONSE"} :
        Return(c, status, inbox[c].number)
  BY DEF Receive
<1>3. stub'[c].pc = "idle" /\ stub'[c].status = status /\ stub'[c].answered = inbox[c].number
  BY <1>2 DEF Return, TypeOK
<1>4. inbox[c].number \in Number /\ inbox[c].kind \in Kinds /\ inbox[c].number # 0
  BY <1>1 DEF TypeOK, Response, Number
<1>5. outbox[c] = 0 /\ arrived[c] = 0 /\ ~InWorker(c)
  BY <1>1 DEF Local, OnePlace
<1>6. OnePlace(c)'
  BY <1>1, <1>5 DEF OnePlace, InWorker
<1>7. \A n \in Number : ~Unexecuted(c, n)' /\ ~Pending(c, n)'
  BY <1>1, <1>5 DEF Pending, Unexecuted, Replied, InWorker, Number
<1>8. Calls(c)' = Calls(c) /\ inbox[c].number =< Calls(c)
  <2>1. Pending(c, inbox[c].number)
    BY <1>1 DEF Pending, Replied
  <2>. QED BY <1>1, <1>4, <2>1 DEF Calls, Local, DonePart
<1>9. DonePart(c)' /\ IncompletePart(c)' /\ AnsweredPart(c)'
  BY <1>1, <1>3, <1>4, <1>7, <1>8 DEF Local, DonePart, IncompletePart, AnsweredPart
<1>10. OwnPart(c)'
  <2>1. failed[c] = 0 => inbox[c].number = Calls(c)
    BY <1>1, <1>4 DEF Local, OwnPart, Pending, Replied
  <2>. QED BY <1>1, <1>3, <1>8, <2>1 DEF OwnPart, Answered
<1>11. RepliedPart(c)'
  BY <1>1, <1>5 DEF RepliedPart, InWorker
<1>12. StatusPart(c)'
  <2>1. Says(c, inbox[c].number, inbox[c].kind)
    BY <1>1 DEF Local, RepliedPart
  <2>2. /\ status = "SUCCESS" => /\ inbox[c].kind # "error"
                                 /\ inbox[c].kind = "null" => Current(c).void
        /\ status = "EXCEPTION" => inbox[c].kind = "error"
    BY <1>4 DEF Statuses, Kinds
  <2>3. Done(c)' = done[c][inbox[c].number] /\ Current(c)' = Current(c)
    BY <1>1, <1>3, <1>8 DEF Done, Current
  <2>. QED BY <1>1, <1>3, <2>1, <2>2, <2>3 DEF StatusPart, Says
<1>. QED BY <1>6, <1>9, <1>10, <1>11, <1>12 DEF Local

LEMMA FailReceiveLocal ==
  ASSUME TypeOK, NEW c \in Client, Local(c), FailReceive(c)
  PROVE  Local(c)'
<1>1. /\ UNCHANGED <<asked, socket, outbox, arrived, inbox, worker, done>>
      /\ failed'[c] # 0 /\ stub[c].pc = "recv"
  BY DEF FailReceive, netVars, serverVars, TypeOK
<1>2. stub'[c].status # "FAILURE" \/ stub'[c].pc = "gone"
  BY DEF FailReceive, Return, TypeOK, Stub
<1>3. stub'[c].answered = 0
  <2>1. stub[c].answered = 0 /\ stub[c] \in Stub
    BY <1>1 DEF Local, AnsweredPart, TypeOK
  <2>. QED BY <2>1 DEF FailReceive, Return, TypeOK, Stub
<1>4. \A n : (Unexecuted(c, n)' <=> Unexecuted(c, n)) /\ (Pending(c, n)' <=> Pending(c, n))
  BY <1>1 DEF Pending, Unexecuted, Replied, InWorker
<1>5. OnePlace(c)' /\ DonePart(c)'
  BY <1>1, <1>4 DEF Local, OnePlace, DonePart, InWorker, Calls
<1>6. IncompletePart(c)' /\ AnsweredPart(c)' /\ OwnPart(c)' /\ StatusPart(c)'
  BY <1>1, <1>2, <1>3 DEF IncompletePart, AnsweredPart, OwnPart, StatusPart, Answered
<1>7. RepliedPart(c)'
  BY <1>1 DEF Local, RepliedPart, Says, InWorker
<1>. QED BY <1>5, <1>6, <1>7 DEF Local

LEMMA DeliverLocal ==
  ASSUME TypeOK, NEW c \in Client, Local(c), Deliver(c)
  PROVE  Local(c)'
<1>1. /\ outbox[c] # 0 /\ outbox'[c] = 0 /\ arrived'[c] = outbox[c]
      /\ UNCHANGED <<asked, stub, socket, failed, inbox, worker, done>>
  BY DEF Deliver, TypeOK, clientVars, serverVars
<1>2. arrived[c] = 0 /\ ~InWorker(c) /\ inbox[c] = NONE /\ socket[c] # "ready"
  BY <1>1 DEF Local, OnePlace
<1>3. \A n \in Number : /\ Unexecuted(c, n)' <=> Unexecuted(c, n)
                        /\ Pending(c, n)' <=> Pending(c, n)
  BY <1>1, <1>2 DEF Pending, Unexecuted, Replied, InWorker, Number
<1>4. OnePlace(c)'
  BY <1>1, <1>2 DEF OnePlace, InWorker
<1>5. DonePart(c)' /\ IncompletePart(c)' /\ OwnPart(c)'
  BY <1>1, <1>3 DEF Local, DonePart, IncompletePart, OwnPart, Answered, Calls
<1>6. AnsweredPart(c)' /\ RepliedPart(c)' /\ StatusPart(c)'
  BY <1>1 DEF Local, AnsweredPart, RepliedPart, StatusPart, Says, Answered, Done, Current,
              InWorker, Calls
<1>. QED BY <1>4, <1>5, <1>6 DEF Local

LEMMA CrashLocal ==
  ASSUME TypeOK, NEW c \in Client, Local(c), Crash
  PROVE  Local(c)'
<1>1. /\ arrived'[c] = 0 /\ ~InWorker(c)'
      /\ UNCHANGED <<asked, stub, socket, failed, outbox, inbox, done>>
  BY DEF Crash, InWorker, Free, clientVars
<1>2. \A n \in Number : /\ Unexecuted(c, n)' => Unexecuted(c, n)
                        /\ Pending(c, n)' => Pending(c, n)
  BY <1>1 DEF Pending, Unexecuted, Replied, Number
<1>3. OnePlace(c)'
  BY <1>1 DEF Local, OnePlace
<1>4. DonePart(c)' /\ OwnPart(c)'
  BY <1>1, <1>2 DEF Local, DonePart, OwnPart, Answered, Calls
<1>5. IncompletePart(c)'
  BY <1>1, <1>2 DEF Local, IncompletePart, Calls
<1>6. AnsweredPart(c)' /\ RepliedPart(c)' /\ StatusPart(c)'
  BY <1>1 DEF Local, AnsweredPart, RepliedPart, StatusPart, Says, Answered, Done, Current, Calls
<1>. QED BY <1>3, <1>4, <1>5, <1>6 DEF Local

LEMMA TakeLocal ==
  ASSUME TypeOK, NEW c \in Client, Local(c), Take(c)
  PROVE  Local(c)'
<1>1. /\ worker.pc = "recv" /\ arrived[c] # 0 /\ arrived'[c] = 0
      /\ worker' = [pc |-> "dispatch", client |-> c, number |-> arrived[c], kind |-> NONE]
      /\ UNCHANGED <<asked, stub, socket, failed, outbox, inbox, done>>
  BY DEF Take, TypeOK, clientVars
<1>2. outbox[c] = 0 /\ ~InWorker(c) /\ inbox[c] = NONE /\ socket[c] # "ready"
  BY <1>1 DEF Local, OnePlace
<1>3. worker'.pc = "dispatch" /\ worker'.client = c /\ worker'.number = arrived[c]
  BY <1>1
<1>4. \A n \in Number : /\ Unexecuted(c, n)' <=> Unexecuted(c, n)
                        /\ Pending(c, n)' <=> Pending(c, n)
  BY <1>1, <1>2, <1>3 DEF Pending, Unexecuted, Replied, InWorker, Number
<1>5. OnePlace(c)'
  BY <1>1, <1>2, <1>3 DEF OnePlace, InWorker
<1>6. DonePart(c)' /\ IncompletePart(c)' /\ OwnPart(c)'
  BY <1>1, <1>4 DEF Local, DonePart, IncompletePart, OwnPart, Answered, Calls
<1>7. AnsweredPart(c)' /\ RepliedPart(c)' /\ StatusPart(c)'
  BY <1>1, <1>2, <1>3 DEF Local, AnsweredPart, RepliedPart, StatusPart, Says, Answered, Done,
                          Current, InWorker, Calls
<1>. QED BY <1>5, <1>6, <1>7 DEF Local

(* Nothing has been executed for a request that is dispatched.             *)
LEMMA DispatchLocal ==
  ASSUME TypeOK, WorkerPart, NEW c \in Client, Local(c), Dispatch, worker.client = c
  PROVE  Local(c)'
<1>1. /\ worker.pc = "dispatch" /\ worker.number \in Number
      /\ worker'.client = c /\ worker'.number = worker.number
      /\ worker'.pc = "run" \/ (worker'.pc = "reply" /\ worker'.kind = "error")
      /\ UNCHANGED <<asked, stub, socket, failed, outbox, arrived, inbox, done>>
  BY DEF Dispatch, WorkerPart, TypeOK, Worker, clientVars, netVars
<1>2. InWorker(c) /\ InWorker(c)'
  BY <1>1 DEF InWorker
<1>3. inbox[c] = NONE
  BY <1>2 DEF Local, OnePlace
<1>4. \A n \in Number : /\ Unexecuted(c, n)' => Unexecuted(c, n)
                        /\ Pending(c, n)' <=> Pending(c, n)
  BY <1>1, <1>2 DEF Pending, Unexecuted, Replied
<1>5. OnePlace(c)'
  BY <1>1, <1>2 DEF Local, OnePlace
<1>6. DonePart(c)' /\ IncompletePart(c)' /\ OwnPart(c)'
  BY <1>1, <1>4 DEF Local, DonePart, IncompletePart, OwnPart, Answered, Calls
<1>7. RepliedPart(c)'
  <2>1. Unexecuted(c, worker.number)
    BY <1>1, <1>2 DEF Unexecuted
  <2>2. done[c][worker.number].result # "SUCCESS"
    BY <1>1, <2>1, NoneAssumption DEF Local, DonePart, Results
  <2>. QED BY <1>1, <1>3, <2>2 DEF RepliedPart, Says
<1>8. AnsweredPart(c)' /\ StatusPart(c)'
  BY <1>1 DEF Local, AnsweredPart, StatusPart, Answered, Done, Current, Calls
<1>. QED BY <1>5, <1>6, <1>7, <1>8 DEF Local

(* The function runs for the first time for its call.                      *)
LEMMA ExecuteLocal ==
  ASSUME TypeOK, WorkerPart, NEW c \in Client, Local(c), Execute, worker.client = c
  PROVE  Local(c)'
<1>. DEFINE k == worker.number
<1>1. /\ worker.pc = "run" /\ k \in Number
      /\ UNCHANGED <<asked, stub, socket, failed, outbox, arrived, inbox>>
  BY DEF Execute, WorkerPart, clientVars, netVars
<1>2. PICK result \in Results :
        /\ done' = [done EXCEPT ![c][k] = [times |-> @.times + 1, result |-> result]]
        /\ \E kind \in Responses(Asked(worker), result) :
             worker' = [worker EXCEPT !.pc = "reply", !.kind = kind]
  BY DEF Execute
<1>3. PICK kind \in Responses(Asked(worker), result) :
        worker' = [worker EXCEPT !.pc = "reply", !.kind = kind]
  BY <1>2
<1>4. worker'.pc = "reply" /\ worker'.client = c /\ worker'.number = k /\ worker'.kind = kind
  BY <1>3 DEF TypeOK, Worker
<1>5. InWorker(c) /\ InWorker(c)' /\ Unexecuted(c, k)
  BY <1>1, <1>4 DEF InWorker, Unexecuted
<1>6. outbox[c] = 0 /\ arrived[c] = 0 /\ inbox[c] = NONE /\ socket[c] # "ready"
  BY <1>5 DEF Local, OnePlace
<1>7. done[c][k].times = 0 /\ k =< Calls(c)
  BY <1>1, <1>5 DEF Local, DonePart, Pending
<1>8. /\ done'[c][k].times = 1 /\ done'[c][k].result = result
      /\ \A n \in Number : n # k => done'[c][n] = done[c][n]
  <2>1. done \in [Client -> [Number -> Execution]]
    BY DEF TypeOK
  <2>2. /\ done'[c][k] = [times |-> done[c][k].times + 1, result |-> result]
        /\ \A n \in Number : n # k => done'[c][n] = done[c][n]
    BY <1>1, <1>2, <2>1
  <2>. QED BY <1>7, <2>2
<1>9. Asked(worker) = asked[c][k] /\ asked[c][k] \in Method
  <2>1. asked[c] \in Seq(Method)
    BY DEF TypeOK
  <2>2. k \in 1..Len(asked[c])
    BY <1>1, <1>7, <2>1 DEF Number, Calls
  <2>. QED BY <2>1, <2>2 DEF Asked
<1>10. /\ kind = "error" => (result = "SUCCESS" => ~asked[c][k].void)
       /\ kind # "error" => \/ result = "SUCCESS"
                            \/ kind = "null" /\ result = "EXCEPTION" /\ ~asked[c][k].declares
  BY <1>9, ResponseKinds
<1>. HIDE DEF k
<1>11. \A n \in Number : ~Unexecuted(c, n)' /\ (Pending(c, n)' => Pending(c, n))
  BY <1>1, <1>4, <1>5, <1>6 DEF Pending, Unexecuted, Replied, Number, k
<1>12. OnePlace(c)'
  BY <1>1, <1>5, <1>6 DEF OnePlace
<1>13. DonePart(c)'
  <2>1. Calls(c)' = Calls(c) /\ ~(k > Calls(c))
    <3>1. k \in Nat /\ Calls(c) \in Nat
      BY <1>1 DEF Number, Calls, TypeOK
    <3>. QED BY <1>1, <1>7, <3>1 DEF Calls
  <2>2. NONE # result /\ 1 # 0
    BY NoneAssumption
  <2>3. \A n \in Number : n # k \/ n = k
    OBVIOUS
  <2>. QED BY <1>7, <1>8, <1>11, <2>1, <2>2 DEF Local, DonePart
<1>14. stub[c].answered = 0
  BY <1>6 DEF Local, AnsweredPart
<1>15. IncompletePart(c)'
  <2>1. Pending(c, k)
    BY <1>5 DEF Pending
  <2>. QED BY <1>1, <1>8, <1>11, <2>1 DEF Local, IncompletePart, Calls
<1>16. OwnPart(c)'
  BY <1>1, <1>11 DEF Local, OwnPart, Answered, Calls
<1>17. AnsweredPart(c)' /\ StatusPart(c)'
  BY <1>1, <1>14 DEF AnsweredPart, StatusPart, Answered
<1>18. RepliedPart(c)'
  BY <1>1, <1>4, <1>6, <1>8, <1>10 DEF RepliedPart, Says, k
<1>. QED BY <1>12, <1>13, <1>15, <1>16, <1>17, <1>18 DEF Local

LEMMA ReplyLocal ==
  ASSUME TypeOK, WorkerPart, NEW c \in Client, Local(c), Reply, worker.client = c
  PROVE  Local(c)'
<1>1. /\ worker.pc = "reply" /\ ~InWorker(c)'
      /\ inbox'[c] = [number |-> worker.number, kind |-> worker.kind]
      /\ UNCHANGED <<asked, stub, socket, failed, outbox, arrived, done>>
  BY DEF Reply, TypeOK, InWorker, Free, clientVars
<1>2. inbox'[c].number = worker.number /\ inbox'[c].kind = worker.kind
  BY <1>1
<1>3. InWorker(c)
  BY <1>1 DEF InWorker
<1>4. outbox[c] = 0 /\ arrived[c] = 0 /\ inbox[c] = NONE /\ socket[c] # "ready"
  BY <1>3 DEF Local, OnePlace
<1>5. \A n \in Number : ~Unexecuted(c, n)' /\ (Pending(c, n)' => Pending(c, n))
  BY <1>1, <1>2, <1>3, <1>4 DEF Pending, Unexecuted, Replied, Number
<1>6. OnePlace(c)'
  BY <1>1, <1>4 DEF OnePlace
<1>7. DonePart(c)' /\ IncompletePart(c)' /\ OwnPart(c)'
  BY <1>1, <1>5 DEF Local, DonePart, IncompletePart, OwnPart, Answered, Calls
<1>8. RepliedPart(c)'
  BY <1>1, <1>2, <1>3 DEF Local, RepliedPart, Says
<1>9. AnsweredPart(c)' /\ StatusPart(c)'
  BY <1>1 DEF Local, AnsweredPart, StatusPart, Answered, Done, Current, Calls
<1>. QED BY <1>6, <1>7, <1>8, <1>9 DEF Local

(* A step disturbs one connection, but for a crash.                        *)
LEMMA LocalStep ==
  ASSUME TypeOK, WorkerPart, \A c \in Client : Local(c), [Next]_vars, NEW d \in Client
  PROVE  Local(d)'
<1>1. ASSUME NEW c \in Client,
             (\E m \in Method : Call(c, m)) \/ Receive(c) \/ FailReceive(c) \/ Deliver(c)
      PROVE  Local(d)'
  <2>1. CASE c = d
    BY <1>1, <2>1, CallLocal, ReceiveLocal, FailReceiveLocal, DeliverLocal
  <2>2. CASE c # d
    <3>1. UNCHANGED <<worker, done>>
      BY <1>1 DEF Call, Receive, FailReceive, Deliver, serverVars
    <3>2. /\ asked'[d] = asked[d] /\ stub'[d] = stub[d] /\ socket'[d] = socket[d]
          /\ failed'[d] = failed[d] /\ outbox'[d] = outbox[d] /\ arrived'[d] = arrived[d]
          /\ inbox'[d] = inbox[d]
      BY <1>1, <2>2 DEF Call, Return, Receive, FailReceive, Deliver, TypeOK, clientVars, netVars
    <3>. QED BY <3>1, <3>2, Frame DEF InWorker
  <2>. QED BY <2>1, <2>2
<1>2. CASE Crash
  BY <1>2, CrashLocal
<1>3. CASE Restart \/ UNCHANGED vars
  <2>1. UNCHANGED <<asked, stub, socket, failed, outbox, arrived, inbox, worker, done>>
    BY <1>3 DEF Restart, vars, clientVars, netVars, serverVars
  <2>. QED BY <2>1, Frame DEF InWorker
<1>4. ASSUME NEW c \in Client, Take(c) PROVE Local(d)'
  <2>1. CASE c = d
    BY <1>4, <2>1, TakeLocal
  <2>2. CASE c # d
    <3>1. arrived'[d] = arrived[d] /\ ~InWorker(d) /\ ~InWorker(d)'
      BY <1>4, <2>2 DEF Take, TypeOK, InWorker
    <3>2. UNCHANGED <<asked, stub, socket, failed, outbox, inbox, done>>
      BY <1>4 DEF Take, clientVars
    <3>. QED BY <3>1, <3>2, Frame
  <2>. QED BY <2>1, <2>2
<1>5. CASE Dispatch \/ Execute \/ Reply
  <2>1. CASE worker.client = d
    BY <1>5, <2>1, DispatchLocal, ExecuteLocal, ReplyLocal
  <2>2. CASE worker.client # d
    <3>1. ~InWorker(d) /\ ~InWorker(d)'
      <4>1. CASE Dispatch \/ Execute
        <5>1. worker'.client = worker.client
          BY <4>1 DEF Dispatch, Execute, TypeOK, Worker
        <5>. QED BY <2>2, <5>1 DEF InWorker
      <4>2. CASE Reply
        BY <2>2, <4>2 DEF Reply, Free, InWorker
      <4>. QED BY <1>5, <4>1, <4>2
    <3>2. done'[d] = done[d] /\ inbox'[d] = inbox[d]
      BY <1>5, <2>2 DEF Dispatch, Execute, Reply, TypeOK, netVars
    <3>3. UNCHANGED <<asked, stub, socket, failed, outbox, arrived>>
      BY <1>5 DEF Dispatch, Execute, Reply, clientVars, netVars
    <3>. QED BY <3>1, <3>2, <3>3, Frame
  <2>. QED BY <2>1, <2>2
<1>. QED BY <1>1, <1>2, <1>3, <1>4, <1>5 DEF Next, WorkerStep

-----------------------------------------------------------------------------
(* Nobody has called at first.                                             *)
LEMMA Initial == Init => IInv
<1>. SUFFICES ASSUME Init PROVE IInv
  OBVIOUS
<1>1. /\ MaxCalls \in Nat /\ 0 \in 0..MaxCalls /\ 0 \in 0..MaxFailed /\ 0 \in 0..MaxCrashes
      /\ \A n \in Number : n \in Nat /\ n > 0
  BY BoundsAssumption DEF Number
<1>2. /\ worker.pc = "recv" /\ worker \in Worker /\ server = "up"
  BY <1>1 DEF Init, Free, Worker
<1>3. \A c \in Client : /\ asked[c] = <<>> /\ Calls(c) = 0
                        /\ stub[c].pc = "idle" /\ stub[c].status = NONE /\ stub[c].answered = 0
                        /\ socket[c] = "ready"
                        /\ outbox[c] = 0 /\ arrived[c] = 0 /\ inbox[c] = NONE
  BY DEF Init, Calls
<1>4. \A c \in Client, n \in Number : done[c][n].times = 0 /\ done[c][n].result = NONE
  BY DEF Init
<1>5. TypeOK
  <2>1. asked \in [Client -> Seq(Method)]
    <3>1. <<>> \in Seq(Method)
      OBVIOUS
    <3>. QED BY <3>1 DEF Init
  <2>2. [pc |-> "idle", status |-> NONE, answered |-> 0] \in Stub
    BY <1>1 DEF Stub
  <2>3. [times |-> 0, result |-> NONE] \in Execution
    BY DEF Execution
  <2>4. stub \in [Client -> Stub] /\ done \in [Client -> [Number -> Execution]]
    BY <2>2, <2>3 DEF Init
  <2>5. \A c \in Client : Calls(c) =< calls
    BY <1>3 DEF Init
  <2>. QED BY <1>1, <1>2, <2>1, <2>4, <2>5 DEF Init, TypeOK
<1>6. WorkerPart
  BY <1>2 DEF WorkerPart
<1>7. ASSUME NEW c \in Client PROVE Local(c)
  <2>1. ~InWorker(c)
    BY <1>2 DEF InWorker
  <2>2. \A n \in Number : ~Pending(c, n) /\ ~Unexecuted(c, n)
    BY <1>1, <1>3, <2>1 DEF Pending, Unexecuted, Replied
  <2>3. NONE # "FAILURE"
    BY NoneAssumption DEF Results
  <2>4. OnePlace(c) /\ DonePart(c)
    BY <1>1, <1>3, <1>4, <2>1, <2>2 DEF OnePlace, DonePart
  <2>5. IncompletePart(c) /\ AnsweredPart(c) /\ StatusPart(c)
    BY <1>3, <2>3 DEF IncompletePart, AnsweredPart, StatusPart, Answered
  <2>6. OwnPart(c) /\ RepliedPart(c)
    BY <1>3, <2>1, <2>2 DEF OwnPart, RepliedPart, Answered
  <2>. QED BY <2>4, <2>5, <2>6 DEF Local
<1>. QED BY <1>5, <1>6, <1>7 DEF IInv

(* The inductive invariant: a connection has one request or response under *)
(* way, it belongs to a call that was made and is executed only on its way *)
(* through the worker, and a response says what was done.                  *)
THEOREM Invariance == Spec => []IInv
<1>1. IInv /\ [Next]_vars => IInv'
  BY TypeStep, LocalStep DEF IInv
<1>. QED BY Initial, <1>1, PTL DEF Spec

(* Every state is well typed.                                              *)
THEOREM TypeCorrect == Spec => []TypeOK
<1>1. IInv => TypeOK
  BY DEF IInv
<1>. QED BY Invariance, <1>1, PTL

(* Until a receive of its connection fails, a call never returns what      *)
(* belongs to another one, although no response names its request          *)
(* (JSONRPC/message.c:341).                                                *)
THEOREM AnswersAreOwn == Spec => []OwnAnswer
<1>1. IInv => OwnAnswer
  BY DEF IInv, OwnAnswer, Local, OwnPart
<1>. QED BY Invariance, <1>1, PTL

(* No call executes a function twice, however calls, failed receives and   *)
(* crashes follow each other, and one that gave up before it sent executes *)
(* none (TcpBlockTransport.cpp:77).                                        *)
THEOREM CallsRunOnce == Spec => []AtMostOnce
<1>1. IInv => AtMostOnce
  BY DEF IInv, AtMostOnce, Local, DonePart, IncompletePart
<1>. QED BY Invariance, <1>1, PTL

(* A status says what was executed for the call that was answered          *)
(* (ServiceHandlerGenerator.cpp:607, 649).                                 *)
THEOREM StatusesAreReal == Spec => []StatusIsReal
<1>1. IInv => StatusIsReal
  BY DEF IInv, StatusIsReal, Local, StatusPart
<1>. QED BY Invariance, <1>1, PTL

=============================================================================
