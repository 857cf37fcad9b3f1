---------------------------- MODULE ServiceCall ----------------------------
(***************************************************************************)
(* A remote call from the generated stub of a client to the function of a  *)
(* service and back: FuncObjGenerator's stub, the JSON-RPC messages        *)
(* (Components/JSONRPC/message.c), the tcp transport with its REQ socket,  *)
(* the worker of the server, performCallZmq and ServiceHandlerGenerator's  *)
(* skeleton.  Every message carries the id 1 and nobody compares it, so    *)
(* only the order of the answers tells a stub which one is its own.        *)
(***************************************************************************)
EXTENDS Integers, Sequences, FiniteSets

CONSTANTS
  Client,      (* connections, each used by one thread                     *)
  Method,      (* [void, declares, known]: see MethodAssumption            *)
  MaxCalls,    (* bound: calls of all clients together                     *)
  MaxFailed,   (* bound: failed receives of a client                       *)
  MaxCrashes,  (* bound: crashes of the server                             *)
  NONE

(* A method returns nothing or a value, declares an exception type or not, *)
(* and is known to the service or not.                                     *)
ASSUME MethodAssumption ==
  Method \subseteq [void : BOOLEAN, declares : BOOLEAN, known : BOOLEAN]
ASSUME BoundsAssumption ==
  MaxCalls \in Nat \ {0} /\ MaxFailed \in Nat /\ MaxCrashes \in Nat

VARIABLES
  asked,    (* the methods a client has called                             *)
  calls,    (* calls of all clients so far (bound)                         *)
  stub,     (* the stub's state, and what its last call returned           *)
  socket,   (* the REQ socket: may it send, or must it receive             *)
  failed,   (* receives of a client that have failed                       *)
  outbox,   (* the request that is on its way to the server                *)
  arrived,  (* the request that waits at the server                        *)
  inbox,    (* the response that waits at the client's socket              *)
  server,   (* "up" or "down"                                              *)
  crashes,  (* how often the server has crashed                            *)
  worker,   (* the server's worker thread                                  *)
  done      (* what has been executed for each call                        *)

clientVars == <<asked, calls, stub, socket, failed>>
netVars == <<outbox, arrived, inbox>>
serverVars == <<server, crashes, worker, done>>
vars == <<clientVars, netVars, serverVars>>

Number == 1..MaxCalls
Kinds == {"value", "null", "error"}
Results == {"SUCCESS", "EXCEPTION", "FAILURE"}
ASSUME NoneAssumption == NONE \notin Results

Calls(c) == Len(asked[c])
Current(c) == asked[c][Calls(c)]
Free == [pc |-> "recv", client |-> NONE, number |-> 0, kind |-> NONE]
Asked(w) == asked[w.client][w.number]

Init ==
  /\ asked = [c \in Client |-> <<>>] /\ calls = 0
  /\ stub = [c \in Client |-> [pc |-> "idle", status |-> NONE, answered |-> 0]]
  /\ socket = [c \in Client |-> "ready"]
  /\ failed = [c \in Client |-> 0]
  /\ outbox = [c \in Client |-> 0]
  /\ arrived = [c \in Client |-> 0]
  /\ inbox = [c \in Client |-> NONE]
  /\ server = "up" /\ crashes = 0
  /\ worker = Free
  /\ done = [c \in Client |-> [n \in Number |-> [times |-> 0, result |-> NONE]]]

-----------------------------------------------------------------------------
(* The client. *)

Return(c, status, answered) ==
  stub' = [stub EXCEPT ![c] = [pc |-> "idle", status |-> status, answered |-> answered]]

\* Mutant: an argument that cannot be written does not end the call.
CallIncomplete(c, m) ==
  /\ stub[c].pc = "idle" /\ calls < MaxCalls
  /\ calls' = calls + 1
  /\ asked' = [asked EXCEPT ![c] = Append(@, m)]
  /\ \/ /\ Return(c, "FAILURE", 0)
        /\ outbox' = [outbox EXCEPT ![c] = IF socket[c] = "ready" THEN Len(asked'[c]) ELSE @]
        /\ socket' = [socket EXCEPT ![c] = "waiting"]
     \/ /\ stub' = [stub EXCEPT ![c] = [pc |-> "recv", status |-> NONE, answered |-> 0]]
        /\ outbox' = [outbox EXCEPT ![c] = IF socket[c] = "ready" THEN Len(asked'[c]) ELSE @]
        /\ socket' = [socket EXCEPT ![c] = "waiting"]
  /\ UNCHANGED <<failed, arrived, inbox, serverVars>>

(* The stub writes the arguments, and returns if one cannot be written.    *)
(* Then it sends: a socket that must receive first refuses, which nobody   *)
(* looks at.                                                               *)
Call(c, m) ==
  /\ stub[c].pc = "idle" /\ calls < MaxCalls
  /\ calls' = calls + 1
  /\ asked' = [asked EXCEPT ![c] = Append(@, m)]
  /\ \/ /\ Return(c, "FAILURE", 0)
        /\ UNCHANGED <<outbox, socket>>
     \/ /\ stub' = [stub EXCEPT ![c] = [pc |-> "recv", status |-> NONE, answered |-> 0]]
        /\ socket' = [socket EXCEPT ![c] = "waiting"]
        /\ \/ socket[c] = "ready" /\ outbox' = [outbox EXCEPT ![c] = Len(asked'[c])]
           \/ socket[c] = "waiting" /\ UNCHANGED outbox
  /\ UNCHANGED <<failed, arrived, inbox, serverVars>>

(* What a stub makes of a response.  An exception that is declared is read *)
(* into the caller's variable and a result into the caller's result; the   *)
(* type the caller gave for either may refuse it.                          *)
Statuses(m, kind) ==
  IF kind = "error" THEN {"EXCEPTION"} \cup (IF m.declares THEN {"FAILURE"} ELSE {})
  ELSE IF m.void THEN {"SUCCESS"}
  ELSE IF kind = "value" THEN {"SUCCESS", "FAILURE"}
  ELSE {"FAILURE"}

\* Mutant: the receive does not wait.
ReceiveAtOnce(c) ==
  /\ stub[c].pc = "recv"
  /\ \/ /\ inbox[c] = NONE
        /\ Return(c, "INVALID_RESPONSE", 0)
        /\ UNCHANGED <<socket, inbox>>
     \/ /\ inbox[c] # NONE
        /\ \E s \in Statuses(Current(c), inbox[c].kind) : Return(c, s, inbox[c].number)
        /\ socket' = [socket EXCEPT ![c] = "ready"]
        /\ inbox' = [inbox EXCEPT ![c] = NONE]
  /\ UNCHANGED <<asked, calls, failed, outbox, arrived, serverVars>>

(* The next response is taken for the answer.  Its bytes are copied after  *)
(* the message that holds them is closed, when they may be anything.       *)
Receive(c) ==
  /\ stub[c].pc = "recv"
  /\ inbox[c] # NONE
  /\ \E s \in Statuses(Current(c), inbox[c].kind) \cup {"INVALID_RESPONSE"} :
        Return(c, s, inbox[c].number)
  /\ socket' = [socket EXCEPT ![c] = "ready"]
  /\ inbox' = [inbox EXCEPT ![c] = NONE]
  /\ UNCHANGED <<asked, calls, failed, outbox, arrived, serverVars>>

(* A signal interrupts the receive.  Nobody looks at its result: the reply *)
(* that is read then has never been written, and reading it yields garbage *)
(* or ends the process.  The socket still has to receive.                  *)
FailReceive(c) ==
  /\ stub[c].pc = "recv"
  /\ failed[c] < MaxFailed
  /\ failed' = [failed EXCEPT ![c] = @ + 1]
  /\ \/ Return(c, "INVALID_RESPONSE", 0)
     \/ stub' = [stub EXCEPT ![c].pc = "gone"]
  /\ UNCHANGED <<asked, calls, socket, netVars, serverVars>>

-----------------------------------------------------------------------------
(* The network and the server's process: external. *)

Deliver(c) ==
  /\ server = "up"
  /\ outbox[c] # 0
  /\ arrived' = [arrived EXCEPT ![c] = outbox[c]]
  /\ outbox' = [outbox EXCEPT ![c] = 0]
  /\ UNCHANGED <<clientVars, inbox, serverVars>>

Crash ==
  /\ server = "up" /\ crashes < MaxCrashes
  /\ server' = "down"
  /\ crashes' = crashes + 1
  /\ arrived' = [c \in Client |-> 0]
  /\ worker' = Free
  /\ UNCHANGED <<clientVars, outbox, inbox, done>>

Restart ==
  /\ server = "down"
  /\ server' = "up"
  /\ UNCHANGED <<clientVars, netVars, crashes, worker, done>>

-----------------------------------------------------------------------------
(* The server's only worker. *)

Take(c) ==
  /\ server = "up" /\ worker.pc = "recv"
  /\ arrived[c] # 0
  /\ worker' = [pc |-> "dispatch", client |-> c, number |-> arrived[c], kind |-> NONE]
  /\ arrived' = [arrived EXCEPT ![c] = 0]
  /\ UNCHANGED <<clientVars, outbox, inbox, server, crashes, done>>

\* Mutant: the worker forgets the request for an unknown method.
DispatchSilent ==
  /\ worker.pc = "dispatch"
  /\ worker' = IF Asked(worker).known THEN [worker EXCEPT !.pc = "run"] ELSE Free
  /\ UNCHANGED <<clientVars, netVars, server, crashes, done>>

(* performCallZmq finds the method, and the skeleton reads the arguments,  *)
(* which may not be what it expects.                                       *)
Dispatch ==
  /\ worker.pc = "dispatch"
  /\ \/ worker' = [worker EXCEPT !.pc = "reply", !.kind = "error"]
     \/ Asked(worker).known /\ worker' = [worker EXCEPT !.pc = "run"]
  /\ UNCHANGED <<clientVars, netVars, server, crashes, done>>

\* Mutant: only a failure that the service knows becomes an error message.
ResponsesUnset(m, result) ==
  IF m.declares /\ result = "EXCEPTION" THEN {"error"}
  ELSE IF result = "SUCCESS" /\ ~m.void THEN {"value", "error"}
  ELSE {"null"}

(* What the skeleton and performCallZmq make of the function's result.     *)
(* The response holds "result": null from the start.  An exception that is *)
(* not declared goes out like that; a result that cannot be written, and   *)
(* every other status, becomes an error.                                   *)
Responses(m, result) ==
  CASE result = "SUCCESS" -> IF m.void THEN {"null"} ELSE {"value", "error"}
    [] result = "EXCEPTION" -> IF m.declares THEN {"error"} ELSE {"null"}
    [] result = "FAILURE" -> {"error"}

(* The function of the service runs, and the response is made.             *)
Execute ==
  /\ worker.pc = "run"
  /\ \E result \in Results :
        /\ done' = [done EXCEPT ![worker.client][worker.number] =
                      [times |-> @.times + 1, result |-> result]]
        /\ \E kind \in Responses(Asked(worker), result) :
              worker' = [worker EXCEPT !.pc = "reply", !.kind = kind]
  /\ UNCHANGED <<clientVars, netVars, server, crashes>>

Reply ==
  /\ worker.pc = "reply"
  /\ inbox' = [inbox EXCEPT ![worker.client] =
                 [number |-> worker.number, kind |-> worker.kind]]
  /\ worker' = Free
  /\ UNCHANGED <<clientVars, outbox, arrived, server, crashes, done>>

WorkerStep == (\E c \in Client : Take(c)) \/ Dispatch \/ Execute \/ Reply

Next ==
  \/ \E c \in Client :
        \/ \E m \in Method : Call(c, m)
        \/ Receive(c)
        \/ FailReceive(c)
        \/ Deliver(c)
  \/ Crash \/ Restart
  \/ WorkerStep

(* ZeroMQ delivers, its sockets take turns, and threads are scheduled.     *)
Fairness ==
  /\ \A c \in Client : WF_vars(Receive(c)) /\ WF_vars(Deliver(c)) /\ WF_vars(Take(c))
  /\ WF_vars(Dispatch \/ Execute \/ Reply)
  /\ WF_vars(Restart)

Spec == Init /\ [][Next]_vars /\ Fairness

-----------------------------------------------------------------------------
Stub == [pc : {"idle", "recv", "gone"}, status : Results \cup {"INVALID_RESPONSE", NONE},
         answered : 0..MaxCalls]
Response == [number : Number, kind : Kinds]
Worker == [pc : {"recv", "dispatch", "run", "reply"}, client : Client \cup {NONE},
           number : 0..MaxCalls, kind : Kinds \cup {NONE}]
Execution == [times : Nat, result : Results \cup {NONE}]

TypeOK ==
  /\ asked \in [Client -> Seq(Method)]
  /\ calls \in 0..MaxCalls /\ \A c \in Client : Calls(c) =< calls
  /\ stub \in [Client -> Stub]
  /\ socket \in [Client -> {"ready", "waiting"}]
  /\ failed \in [Client -> 0..MaxFailed]
  /\ outbox \in [Client -> 0..MaxCalls]
  /\ arrived \in [Client -> 0..MaxCalls]
  /\ inbox \in [Client -> Response \cup {NONE}]
  /\ server \in {"up", "down"}
  /\ crashes \in 0..MaxCrashes
  /\ worker \in Worker
  /\ done \in [Client -> [Number -> Execution]]

Answered(c) == stub[c].pc = "idle" /\ stub[c].answered # 0
Done(c) == done[c][stub[c].answered]

(* A call never returns what belongs to another one, as long as no receive *)
(* of its connection has failed: the REQ socket is all that pairs answers  *)
(* with calls.                                                             *)
OwnAnswer ==
  \A c \in Client : Answered(c) /\ failed[c] = 0 => stub[c].answered = Calls(c)

(* However calls, failed receives and crashes of the server follow each    *)
(* other, no call executes a function twice, and one whose arguments could *)
(* not be written executes none.                                           *)
AtMostOnce ==
  \A c \in Client :
     /\ \A n \in Number : done[c][n].times =< 1
     /\ stub[c].pc = "idle" /\ stub[c].status = "FAILURE" /\ stub[c].answered = 0
          => done[c][Calls(c)].times = 0

(* SUCCESS means that the function has succeeded; the exception is one     *)
(* that throws although the service declares no exception type and the     *)
(* caller expects no result.  EXCEPTION means that nothing was executed,   *)
(* that the function has not succeeded, or that its result could not be    *)
(* written: a function without result that has succeeded is never reported *)
(* as failed.                                                              *)
StatusIsReal ==
  \A c \in Client : Answered(c) =>
    /\ stub[c].status = "SUCCESS" =>
         \/ Done(c).times = 1 /\ Done(c).result = "SUCCESS"
         \/ /\ Done(c).result = "EXCEPTION"
            /\ ~asked[c][stub[c].answered].declares
            /\ Current(c).void
    /\ stub[c].status = "EXCEPTION" =>
         (Done(c).result = "SUCCESS" => ~asked[c][stub[c].answered].void)

(* Every call returns while the server does not crash, also the calls      *)
(* whose request the socket has refused after a failed receive.            *)
Returns ==
  \A c \in Client : stub[c].pc = "recv" ~> stub[c].pc # "recv" \/ crashes > 0

=============================================================================
