-------------------------- MODULE TransportProofs --------------------------
(***************************************************************************)
(* What every reachable state of two transports satisfies, for any bounds. *)
(*                                                                         *)
(* KTZeromq, for any number of clients, requests and calls of              *)
(* kt_run_server: an answer belongs to the last request, one thread polls, *)
(* and none calls back after a stop.                                       *)
(*                                                                         *)
(* HttpConnection, for any number of messages and any way to cut them into *)
(* reads: no two reads fill the buffer, one operation is under way, and    *)
(* every request of an orderly client gets its own answer.  The parser is  *)
(* a recursive function over the tokens; what it makes of them is shown by *)
(* induction on their number, as the least number of tokens for which it   *)
(* would be wrong.                                                         *)
(*                                                                         *)
(* The two share no state; each has its specification and its invariant.   *)
(***************************************************************************)
EXTENDS KTZeromq, HttpConnection, SequenceTheorems, WellFoundedInduction, TLAPS

(* KTZeromq. *)

(* The server has one thread at most: that of the call that got the port.  *)
(* It has ended when the stop has returned, and only then is the user      *)
(* data handed back.                                                       *)
ServerPart ==
  /\ bound = 0 <=> program = "ready"
  /\ program = "bound" => runs = bound
  /\ \A r \in Run : poller[r] # "none" => r = bound /\ program \notin {"ready", "bound"}
  /\ program = "stopped" => \A r \in Run : ~Alive(r)
  /\ userData = "returned" => program = "stopped"

(* What is at a socket is the answer to what it asked last.                *)
InboxPart ==
  \A c \in Client : inbox[c] # NONE => client[c] = "waiting" /\ inbox[c] = Current(c)

IInv == TypeOK /\ ServerPart /\ InboxPart /\ RepliesMatch

-----------------------------------------------------------------------------
(* At most one thread is alive.                                            *)
LEMMA OneThread ==
  ASSUME ServerPart, NEW r \in Run, NEW s \in Run, Alive(r), Alive(s)
  PROVE  r = s
  BY DEF ServerPart, Alive

(* The steps of the server's program.                                      *)
LEMMA ServerType ==
  ASSUME TypeOK, ServerPart, ServerStep
  PROVE  TypeOK'
<1>1. bound \in 0..MaxRuns /\ runs \in 0..MaxRuns /\ MaxRuns \in Nat
  BY BoundsAssumption DEF TypeOK
<1>2. CASE Bind
  <2>1. runs' \in 0..MaxRuns /\ bound' \in 0..MaxRuns
    BY <1>1, <1>2 DEF Bind
  <2>. QED BY <1>2, <2>1 DEF Bind, TypeOK, clientVars
<1>3. CASE StartPoller
  <2>2. \A r \in Run : poller'[r] = "callback" => poller[r] = "callback"
    BY <1>3 DEF StartPoller, TypeOK
  <2>3. poller' \in [Run -> {"none", "check", "recv", "callback", "ended"}]
    BY <1>3 DEF StartPoller, TypeOK
  <2>. QED BY <1>3, <2>2, <2>3 DEF StartPoller, TypeOK, clientVars
<1>4. CASE SetUserData \/ Unbind \/ Joined
  BY <1>4 DEF SetUserData, Unbind, Joined, TypeOK, clientVars
<1>. QED BY <1>2, <1>3, <1>4 DEF ServerStep

(* The steps of a poller thread.                                           *)
LEMMA PollerType ==
  ASSUME TypeOK, ServerPart, NEW r \in Run, PollerStep(r)
  PROVE  TypeOK'
<1>. DEFINE States == {"none", "check", "recv", "callback", "ended"}
<1>1. poller \in [Run -> States] /\ queue \in Seq(Request)
  BY DEF TypeOK
<1>2. \A s \in Run : poller[s] = "callback" => Alive(s)
  BY DEF Alive
<1>3. CASE Check(r)
  <2>1. poller' \in [Run -> States]
    BY <1>1, <1>3 DEF Check
  <2>2. \A s \in Run : poller'[s] = "callback" => poller[s] = "callback"
    BY <1>1, <1>3 DEF Check
  <2>. QED BY <1>3, <2>1, <2>2 DEF Check, TypeOK, clientVars
<1>6. CASE RecvFails(r)
  <2>1. poller' \in [Run -> States]
    BY <1>1, <1>6 DEF RecvFails
  <2>2. \A s \in Run : poller'[s] = "callback" => poller[s] = "callback"
    BY <1>1, <1>6 DEF RecvFails
  <2>. QED BY <1>6, <2>1, <2>2 DEF RecvFails, TypeOK, clientVars
<1>4. CASE Recv(r)
  <2>1. poller' \in [Run -> States] /\ poller'[r] = "callback"
    BY <1>1, <1>4 DEF Recv
  <2>2. Head(queue) \in Request /\ Tail(queue) \in Seq(Request)
    BY <1>1, <1>4 DEF Recv
  <2>3. serving' \in Request /\ serving' # NONE
    BY <1>4, <2>2, NoneAssumption DEF Recv
  <2>. QED BY <1>4, <2>1, <2>2, <2>3 DEF Recv, TypeOK, clientVars
<1>5. CASE Callback(r)
  <2>1. poller' \in [Run -> States]
    BY <1>1, <1>5 DEF Callback
  <2>2. \A s \in Run : poller'[s] # "callback"
    <3>1. poller[r] = "callback" /\ Alive(r)
      BY <1>5, <1>2 DEF Callback
    <3>2. \A s \in Run : poller[s] = "callback" => s = r
      BY <1>2, <3>1, OneThread
    <3>. QED BY <1>1, <1>5, <3>2 DEF Callback
  <2>3. serving \in Request /\ serving' \in Request \cup {NONE}
    BY <1>5 DEF Callback, AnswerArrives, TypeOK
  <2>4. inbox' \in [Client -> Request \cup {NONE}]
    BY <1>5, <2>3 DEF Callback, AnswerArrives, TypeOK
  <2>. QED BY <1>5, <2>1, <2>2, <2>3, <2>4 DEF Callback, TypeOK
<1>. QED BY <1>3, <1>4, <1>5, <1>6 DEF PollerStep

(* The steps of a client.                                                  *)
LEMMA ClientType ==
  ASSUME TypeOK, NEW c \in Client, ClientStep(c)
  PROVE  TypeOK'
<1>. USE DEF TypeOK, serverVars
<1>1. CASE Connect(c) \/ Close(c) \/ Destroy(c)
  BY <1>1 DEF Connect, Close, Destroy
<1>2. CASE Send(c)
  <2>1. number[c] \in 0..MaxRequests /\ MaxRequests \in Nat /\ number[c] < MaxRequests
    BY <1>2, BoundsAssumption DEF Send
  <2>2. number' \in [Client -> 0..MaxRequests] /\ number'[c] = number[c] + 1
    BY <1>2, <2>1 DEF Send
  <2>3. Current(c)' \in Request
    BY <2>1, <2>2 DEF Current, Request
  <2>4. outbox' \in [Client -> Request \cup {NONE}]
    BY <1>2, <2>3 DEF Send
  <2>. QED BY <1>2, <2>2, <2>4 DEF Send
<1>3. CASE Deliver(c)
  BY <1>3 DEF Deliver
<1>4. CASE Receive(c) \/ ReceiveFails(c)
  BY <1>4, NoneAssumption DEF Receive, ReceiveFails
<1>. QED BY <1>1, <1>2, <1>3, <1>4 DEF ClientStep

(* Type correctness, with one thread at most.                              *)
LEMMA TypeStep ==
  ASSUME TypeOK, ServerPart, [Next]_vars
  PROVE  TypeOK'
<1>1. CASE UNCHANGED vars
  BY <1>1 DEF vars, serverVars, clientVars, TypeOK
<1>. QED BY <1>1, ServerType, PollerType, ClientType DEF Next

-----------------------------------------------------------------------------
(* One thread, which has ended before the stop returns.                    *)
LEMMA ServerPartStep ==
  ASSUME TypeOK, ServerPart, [Next]_vars
  PROVE  ServerPart'
<1>1. /\ bound \in 0..MaxRuns /\ runs \in 0..MaxRuns /\ MaxRuns \in Nat
      /\ poller \in [Run -> {"none", "check", "recv", "callback", "ended"}]
  BY BoundsAssumption DEF TypeOK
<1>2. CASE Bind
  BY <1>1, <1>2 DEF Bind, ServerPart, Alive
<1>3. CASE StartPoller
  <2>1. runs \in Run /\ runs = bound /\ bound # 0
    BY <1>1, <1>3 DEF StartPoller, ServerPart, Run
  <2>2. \A s \in Run : poller'[s] = IF s = bound THEN "check" ELSE poller[s]
    BY <1>1, <1>3, <2>1 DEF StartPoller
  <2>. QED BY <1>3, <2>1, <2>2 DEF StartPoller, ServerPart, Alive
<1>4. CASE SetUserData
  BY <1>4 DEF SetUserData, ServerPart, Alive
<1>5. CASE Unbind
  BY <1>5 DEF Unbind, ServerPart, Alive
<1>6. CASE Joined
  BY <1>6 DEF Joined, ServerPart, Alive
<1>7. ASSUME NEW r \in Run, PollerStep(r) PROVE ServerPart'
  <2>1. /\ poller[r] # "none" /\ poller[r] # "ended"
        /\ \E p \in {"check", "recv", "callback", "ended"} : poller' = [poller EXCEPT ![r] = p]
        /\ UNCHANGED <<program, runs, bound, userData>>
    BY <1>7 DEF PollerStep, Check, Recv, RecvFails, Callback
  <2>2. r = bound /\ program # "stopped" /\ program # "ready" /\ program # "bound"
    BY <2>1 DEF ServerPart, Alive
  <2>3. \A s \in Run : s # r => poller'[s] = poller[s]
    BY <1>1, <2>1
  <2>. QED BY <2>1, <2>2, <2>3 DEF ServerPart, Alive
<1>8. ASSUME NEW c \in Client, ClientStep(c) PROVE ServerPart'
  <2>1. UNCHANGED serverVars
    BY <1>8 DEF ClientStep, Connect, Send, Deliver, Receive, ReceiveFails, Close, Destroy
  <2>. QED BY <2>1 DEF serverVars, ServerPart, Alive
<1>9. CASE UNCHANGED vars
  BY <1>9 DEF vars, serverVars, ServerPart, Alive
<1>. QED BY <1>2, <1>3, <1>4, <1>5, <1>6, <1>7, <1>8, <1>9 DEF Next, ServerStep

(* A client's socket holds the answer to its last request, and kt_recv     *)
(* returns that.                                                           *)
LEMMA ReplyStep ==
  ASSUME TypeOK, InboxPart, RepliesMatch, [Next]_vars
  PROVE  InboxPart' /\ RepliesMatch'
<1>1. /\ client \in [Client -> {"apart", "connected", "waiting", "closing"}]
      /\ number \in [Client -> 0..MaxRequests]
      /\ inbox \in [Client -> Request \cup {NONE}] /\ got \in [Client -> Request \cup {NONE}]
  BY DEF TypeOK
<1>2. CASE UNCHANGED <<client, number, inbox, got>>
  BY <1>2 DEF InboxPart, RepliesMatch, Current
<1>3. ASSUME NEW r \in Run, Callback(r) PROVE InboxPart' /\ RepliesMatch'
  <2>1. serving \in Request
    BY <1>3 DEF Callback, TypeOK
  <2>2. serving = [client |-> serving.client, number |-> serving.number]
        /\ serving.client \in Client
    BY <2>1 DEF Request
  <2>3. UNCHANGED <<client, number, got>>
    BY <1>3 DEF Callback
  <2>4. CASE UNCHANGED inbox
    BY <1>2, <2>3, <2>4
  <2>5. CASE /\ client[serving.client] = "waiting"
             /\ number[serving.client] = serving.number
             /\ inbox' = [inbox EXCEPT ![serving.client] = serving]
    <3>1. \A c \in Client : inbox'[c] = IF c = serving.client THEN serving ELSE inbox[c]
      BY <1>1, <2>2, <2>5
    <3>2. serving = Current(serving.client)
      BY <2>2, <2>5 DEF Current
    <3>. QED BY <2>3, <2>5, <3>1, <3>2 DEF InboxPart, RepliesMatch, Current
  <2>. QED BY <1>3, <2>4, <2>5 DEF Callback, AnswerArrives
<1>4. ASSUME NEW c \in Client, Connect(c) PROVE InboxPart' /\ RepliesMatch'
  BY <1>1, <1>4 DEF Connect, InboxPart, RepliesMatch, Current
<1>5. ASSUME NEW c \in Client, Send(c) PROVE InboxPart' /\ RepliesMatch'
  <2>1. inbox[c] = NONE
    BY <1>1, <1>5 DEF Send, InboxPart
  <2>. QED BY <1>1, <1>5, <2>1 DEF Send, InboxPart, RepliesMatch, Current
<1>6. ASSUME NEW c \in Client, Receive(c) PROVE InboxPart' /\ RepliesMatch'
  BY <1>1, <1>6 DEF Receive, InboxPart, RepliesMatch, Current
<1>13. ASSUME NEW c \in Client, ReceiveFails(c) PROVE InboxPart' /\ RepliesMatch'
  BY <1>1, <1>13 DEF ReceiveFails, InboxPart, RepliesMatch, Current
<1>7. ASSUME NEW c \in Client, Close(c) PROVE InboxPart' /\ RepliesMatch'
  BY <1>1, <1>7 DEF Close, InboxPart, RepliesMatch, Current
<1>8. ASSUME NEW c \in Client, Destroy(c) PROVE InboxPart' /\ RepliesMatch'
  BY <1>1, <1>8 DEF Destroy, InboxPart, RepliesMatch, Current
<1>9. CASE ServerStep
  BY <1>2, <1>9 DEF ServerStep, Bind, StartPoller, SetUserData, Unbind, Joined, clientVars
<1>10. ASSUME NEW r \in Run, Check(r) \/ Recv(r) \/ RecvFails(r)
       PROVE  InboxPart' /\ RepliesMatch'
  BY <1>2, <1>10 DEF Check, Recv, RecvFails, clientVars
<1>11. ASSUME NEW c \in Client, Deliver(c) PROVE InboxPart' /\ RepliesMatch'
  BY <1>2, <1>11 DEF Deliver
<1>12. CASE UNCHANGED vars
  BY <1>2, <1>12 DEF vars, clientVars
<1>. QED BY <1>3, <1>4, <1>5, <1>6, <1>7, <1>8, <1>9, <1>10, <1>11, <1>12, <1>13
         DEF Next, PollerStep, ClientStep

-----------------------------------------------------------------------------
(* Nobody has called at first.                                             *)
LEMMA Initial == Init => IInv
<1>. SUFFICES ASSUME Init PROVE IInv
  OBVIOUS
<1>1. TypeOK
  <2>1. MaxRuns \in Nat /\ MaxRequests \in Nat /\ 0 \in 0..MaxRuns /\ 0 \in 0..MaxRequests
    BY BoundsAssumption
  <2>2. queue \in Seq(Request)
    BY DEF Init
  <2>3. serving = NONE /\ \A r \in Run : poller[r] # "callback"
    BY DEF Init
  <2>. QED BY <2>1, <2>2, <2>3 DEF Init, TypeOK
<1>2. ServerPart
  BY DEF Init, ServerPart
<1>3. InboxPart /\ RepliesMatch
  BY DEF Init, InboxPart, RepliesMatch
<1>. QED BY <1>1, <1>2, <1>3 DEF IInv

(* The inductive invariant: the only thread is that of the call that got   *)
(* the port (ServerPart), and what is at a socket answers what it asked    *)
(* last (InboxPart).                                                       *)
THEOREM Invariance == Spec => []IInv
<1>1. IInv /\ [Next]_vars => IInv'
  BY TypeStep, ServerPartStep, ReplyStep DEF IInv
<1>. QED BY Initial, <1>1, PTL DEF Spec

(* Every state is well typed, and the socket remembers a request while a   *)
(* callback runs.                                                          *)
THEOREM TypeCorrect == Spec => []TypeOK
<1>1. IInv => TypeOK
  BY DEF IInv
<1>. QED BY Invariance, <1>1, PTL

(* A client gets the answer to the request it sent last, whatever it and   *)
(* others asked and gave up before (KT_Zeromq.cpp:240).                    *)
THEOREM AnswersMatchRequests == Spec => []RepliesMatch
<1>1. IInv => RepliesMatch
  BY DEF IInv
<1>. QED BY Invariance, <1>1, PTL

(* No callback runs when the user data has been handed back, and at most   *)
(* one thread polls (k_transport.cpp:377, 390).                            *)
THEOREM CallbacksEnd == Spec => []NoCallbackAfterStop
<1>1. IInv => NoCallbackAfterStop
  <2>. SUFFICES ASSUME IInv PROVE NoCallbackAfterStop
    OBVIOUS
  <2>1. ServerPart
    BY DEF IInv
  <2>2. userData = "returned" => \A r \in Run : poller[r] # "callback"
    BY <2>1 DEF ServerPart, Alive
  <2>. QED BY <2>1, <2>2, OneThread DEF NoCallbackAfterStop
<1>. QED BY Invariance, <1>1, PTL

-----------------------------------------------------------------------------
(* HttpConnection. *)

TokenKinds == {"begin", "name", "value", "continue", "other", "end", "last", "upgrade", "part",
               "body", "crlf", "bad"}
Token == [of : Message, is : TokenKinds]
Header == [from : SUBSET Message, expect : {"none", "continue", "other"}]
RequestType == [of : Message \cup {NOBODY}, headers : SUBSET Header, payload : Nat]
ResponseType ==
  [is : {"none", "answer", "continue", "expectation failed", "bad request", "garbage"},
   to : RequestType]
Statuses == {"failed", "headers", "content", "finished"}
ConnType ==
  [parsed : Statuses \ {"failed"}, lastWasValue : BOOLEAN, header : Header,
   request : RequestType, response : ResponseType, status : Statuses, left : Seq(Token),
   readInProgress : BOOLEAN, reads : Nat, writes : Seq(ResponseType), written : Nat]

(* What the parser leaves alone. *)
Same(c, d) ==
  /\ d.response = c.response /\ d.left = c.left /\ d.readInProgress = c.readInProgress
  /\ d.reads = c.reads /\ d.writes = c.writes /\ d.written = c.written

Kept(c, d) == d \in ConnType /\ Same(c, d) /\ d.status = c.status

(* The request: its fields. *)
Req(r, m, headers, payload) == r.of = m /\ r.headers = headers /\ r.payload = payload

-----------------------------------------------------------------------------
(* The callbacks. *)
LEMMA ConnFields ==
  ASSUME NEW c \in ConnType
  PROVE  /\ c.parsed \in Statuses \ {"failed"} /\ c.lastWasValue \in BOOLEAN /\ c.header \in Header
         /\ c.request \in RequestType /\ c.response \in ResponseType /\ c.status \in Statuses
         /\ c.left \in Seq(Token) /\ c.readInProgress \in BOOLEAN /\ c.reads \in Nat
         /\ c.writes \in Seq(ResponseType) /\ c.written \in Nat
  BY DEF ConnType

LEMMA NothingTypes == NoHeader \in Header /\ NoRequest \in RequestType
  BY DEF NoHeader, Header, NoRequest, RequestType

LEMMA AddHeaderIs ==
  ASSUME NEW c \in ConnType
  PROVE  /\ Kept(c, AddHeader(c)) /\ AddHeader(c).parsed = c.parsed
         /\ AddHeader(c).lastWasValue = c.lastWasValue /\ AddHeader(c).header = NoHeader
         /\ Req(AddHeader(c).request, c.request.of, c.request.headers \cup {c.header}, c.request.payload)
<1>1. PICK r : r = [c.request EXCEPT !.headers = @ \cup {c.header}]
  OBVIOUS
<1>2. r \in RequestType /\ Req(r, c.request.of, c.request.headers \cup {c.header}, c.request.payload)
  BY <1>1, ConnFields DEF RequestType, Req
<1>3. PICK d : d = [c EXCEPT !.request = r, !.header = NoHeader]
  OBVIOUS
<1>4. AddHeader(c) = d
  BY <1>1, <1>3 DEF AddHeader, ConnType
<1>5. Kept(c, d) /\ d.parsed = c.parsed /\ d.lastWasValue = c.lastWasValue /\ d.header = NoHeader
      /\ d.request = r
  BY <1>2, <1>3, NothingTypes DEF ConnType, Kept, Same
<1>. QED BY <1>2, <1>4, <1>5

LEMMA MessageBeginIs ==
  ASSUME NEW c \in ConnType, NEW m \in Message
  PROVE  /\ Kept(c, MessageBegin(c, m)) /\ MessageBegin(c, m).parsed = "headers"
         /\ MessageBegin(c, m).lastWasValue = c.lastWasValue /\ MessageBegin(c, m).header = c.header
         /\ Req(MessageBegin(c, m).request, m, {}, 0)
<1>1. PICK r : r = [NoRequest EXCEPT !.of = m]
  OBVIOUS
<1>2. r \in RequestType /\ Req(r, m, {}, 0)
  BY <1>1 DEF RequestType, Req, NoRequest
<1>3. PICK d : d = [c EXCEPT !.request = r, !.parsed = "headers"]
  OBVIOUS
<1>4. Kept(c, d) /\ d.parsed = "headers" /\ d.lastWasValue = c.lastWasValue /\ d.header = c.header
      /\ d.request = r
  BY <1>2, <1>3 DEF ConnType, Kept, Same, Statuses
<1>. QED BY <1>1, <1>2, <1>3, <1>4 DEF MessageBegin

LEMMA HeaderFieldIs ==
  ASSUME NEW c \in ConnType, NEW m \in Message
  PROVE  LET d == HeaderField(c, m)
             h == IF c.lastWasValue THEN NoHeader ELSE c.header
         IN  /\ Kept(c, d) /\ d.parsed = c.parsed /\ d.lastWasValue = FALSE
             /\ d.header = [from |-> h.from \cup {m}, expect |-> h.expect]
             /\ Req(d.request, c.request.of,
                    IF c.lastWasValue THEN c.request.headers \cup {c.header} ELSE c.request.headers,
                    c.request.payload)
<1>1. PICK b : b = IF c.lastWasValue THEN AddHeader(c) ELSE c
  OBVIOUS
<1>2. PICK h : h = IF c.lastWasValue THEN NoHeader ELSE c.header
  OBVIOUS
<1>3. /\ b \in ConnType /\ Kept(c, b) /\ b.parsed = c.parsed /\ b.header = h
      /\ Req(b.request, c.request.of,
             IF c.lastWasValue THEN c.request.headers \cup {c.header} ELSE c.request.headers,
             c.request.payload)
  BY <1>1, <1>2, AddHeaderIs DEF Kept, Same, Req
<1>4. PICK g : g = [h EXCEPT !.from = @ \cup {m}]
  OBVIOUS
<1>5. g \in Header /\ g = [from |-> h.from \cup {m}, expect |-> h.expect]
  BY <1>3, <1>4, ConnFields DEF Header
<1>6. PICK d : d = [b EXCEPT !.header = g, !.lastWasValue = FALSE]
  OBVIOUS
<1>7. HeaderField(c, m) = d
  BY <1>1, <1>3, <1>4, <1>6 DEF HeaderField, ConnType
<1>8. Kept(b, d) /\ d.parsed = b.parsed /\ d.lastWasValue = FALSE /\ d.header = g
      /\ d.request = b.request
  BY <1>3, <1>5, <1>6 DEF ConnType, Kept, Same
<1>9. Kept(c, d)
  BY <1>3, <1>8 DEF Kept, Same
<1>. QED BY <1>2, <1>3, <1>5, <1>7, <1>8, <1>9

LEMMA HeaderValueIs ==
  ASSUME NEW c \in ConnType, NEW m \in Message, NEW e \in {"none", "continue", "other"}
  PROVE  LET d == HeaderValue(c, m, e)
         IN  /\ Kept(c, d) /\ d.parsed = c.parsed /\ d.lastWasValue = TRUE
             /\ d.header = [from |-> c.header.from \cup {m}, expect |-> e]
             /\ d.request = c.request
<1>1. PICK g : g = [from |-> c.header.from \cup {m}, expect |-> e]
  OBVIOUS
<1>2. g \in Header /\ c.header \in Header
  BY <1>1, ConnFields DEF Header
<1>3. PICK f : f = [c.header EXCEPT !.from = @ \cup {m}]
  OBVIOUS
<1>4. PICK d : d = [c EXCEPT !.header = g, !.lastWasValue = TRUE]
  OBVIOUS
<1>5. HeaderValue(c, m, e) = d
  <2>1. f \in Header /\ f.from = c.header.from \cup {m}
    BY <1>2, <1>3 DEF Header
  <2>2. [f EXCEPT !.expect = e] = g
    BY <1>1, <2>1 DEF Header
  <2>. QED BY <1>3, <1>4, <2>2 DEF HeaderValue, ConnType
<1>6. Kept(c, d) /\ d.parsed = c.parsed /\ d.lastWasValue = TRUE /\ d.header = g
      /\ d.request = c.request
  BY <1>2, <1>4 DEF ConnType, Kept, Same
<1>. QED BY <1>1, <1>5, <1>6

LEMMA HeadersCompleteIs ==
  ASSUME NEW c \in ConnType
  PROVE  LET d == HeadersComplete(c)
         IN  /\ Kept(c, d) /\ d.lastWasValue = FALSE
             /\ ~c.lastWasValue => d = c
             /\ c.lastWasValue => /\ d.parsed = "content" /\ d.header = NoHeader
                                  /\ Req(d.request, c.request.of, c.request.headers \cup {c.header},
                                         c.request.payload)
<1>1. CASE c.lastWasValue
  <2>1. PICK b : b = AddHeader(c)
    OBVIOUS
  <2>2. /\ b \in ConnType /\ Kept(c, b) /\ b.header = NoHeader
        /\ Req(b.request, c.request.of, c.request.headers \cup {c.header}, c.request.payload)
    BY <2>1, AddHeaderIs DEF Kept
  <2>3. PICK d : d = [b EXCEPT !.lastWasValue = FALSE, !.parsed = "content"]
    OBVIOUS
  <2>4. Kept(b, d) /\ d.parsed = "content" /\ d.lastWasValue = FALSE /\ d.header = b.header
        /\ d.request = b.request
    BY <2>2, <2>3 DEF ConnType, Kept, Same, Statuses
  <2>5. Kept(c, d)
    BY <2>2, <2>4 DEF Kept, Same
  <2>6. HeadersComplete(c) = d
    BY <1>1, <2>1, <2>3 DEF HeadersComplete
  <2>. QED BY <1>1, <2>2, <2>4, <2>5, <2>6
<1>2. CASE ~c.lastWasValue
  <2>1. HeadersComplete(c) = c /\ c.lastWasValue = FALSE
    BY <1>2, ConnFields DEF HeadersComplete
  <2>. QED BY <1>2, <2>1 DEF Kept, Same
<1>. QED BY <1>1, <1>2

LEMMA BodyIs ==
  ASSUME NEW c \in ConnType
  PROVE  LET d == Body(c)
         IN  /\ Kept(c, d) /\ d.parsed = c.parsed /\ d.lastWasValue = c.lastWasValue
             /\ d.header = c.header
             /\ Req(d.request, c.request.of, c.request.headers, c.request.payload + 1)
<1>1. PICK r : r = [c.request EXCEPT !.payload = @ + 1]
  OBVIOUS
<1>2. r \in RequestType /\ Req(r, c.request.of, c.request.headers, c.request.payload + 1)
  BY <1>1, ConnFields DEF RequestType, Req
<1>3. PICK d : d = [c EXCEPT !.request = r]
  OBVIOUS
<1>4. Body(c) = d
  BY <1>1, <1>3 DEF Body, ConnType
<1>5. Kept(c, d) /\ d.parsed = c.parsed /\ d.lastWasValue = c.lastWasValue /\ d.header = c.header
      /\ d.request = r
  BY <1>2, <1>3 DEF ConnType, Kept, Same
<1>. QED BY <1>2, <1>4, <1>5

LEMMA MessageCompleteIs ==
  ASSUME NEW c \in ConnType
  PROVE  LET d == MessageComplete(c)
         IN  /\ Kept(c, d) /\ d.parsed = "finished" /\ d.lastWasValue = c.lastWasValue
             /\ d.header = c.header /\ d.request = c.request
  BY DEF MessageComplete, ConnType, Kept, Same, Statuses

LEMMA KeptTwice ==
  ASSUME NEW b, NEW c, NEW d, Kept(b, c), Kept(c, d)
  PROVE  Kept(b, d)
  BY DEF Kept, Same

(* What a token calls. *)
LEMMA CallbackIs ==
  ASSUME NEW c, NEW t
  PROVE  /\ t.is = "begin" => Callbacks(c, t) = HeaderField(MessageBegin(c, t.of), t.of)
         /\ t.is = "name" => Callbacks(c, t) = HeaderField(c, t.of)
         /\ t.is = "value" => Callbacks(c, t) = HeaderValue(c, t.of, "none")
         /\ t.is \in {"continue", "other"} => Callbacks(c, t) = HeaderValue(c, t.of, t.is)
         /\ t.is = "end" => Callbacks(c, t) = HeadersComplete(c)
         /\ t.is \in {"last", "upgrade"} => Callbacks(c, t) = MessageComplete(HeadersComplete(c))
         /\ t.is = "part" => Callbacks(c, t) = Body(c)
         /\ t.is = "body" => Callbacks(c, t) = MessageComplete(Body(c))
         /\ t.is = "crlf" => Callbacks(c, t) = c
  BY DEF Callbacks

LEMMA CallbackKeeps ==
  ASSUME NEW c \in ConnType, NEW t \in Token, t.is # "bad"
  PROVE  Kept(c, Callbacks(c, t))
<1>1. t.of \in Message /\ t.is \in TokenKinds
  BY DEF Token
<1>2. CASE t.is = "begin"
  <2>1. PICK b : b = MessageBegin(c, t.of)
    OBVIOUS
  <2>2. Kept(c, b) /\ b \in ConnType
    BY <1>1, <2>1, MessageBeginIs DEF Kept
  <2>3. Kept(b, HeaderField(b, t.of))
    BY <1>1, <2>2, HeaderFieldIs
  <2>. QED BY <1>2, <2>1, <2>2, <2>3, KeptTwice, CallbackIs
<1>3. CASE t.is = "name"
  <2>1. Kept(c, HeaderField(c, t.of))
    BY <1>1, HeaderFieldIs
  <2>. QED BY <1>3, <2>1, CallbackIs
<1>4. CASE t.is \in {"value", "continue", "other"}
  <2>1. Kept(c, HeaderValue(c, t.of, "none"))
    BY <1>1, HeaderValueIs
  <2>2. t.is # "value" => Kept(c, HeaderValue(c, t.of, t.is))
    BY <1>1, <1>4, HeaderValueIs
  <2>. QED BY <1>4, <2>1, <2>2, CallbackIs
<1>5. CASE t.is = "end"
  <2>1. Kept(c, HeadersComplete(c))
    BY HeadersCompleteIs
  <2>. QED BY <1>5, <2>1, CallbackIs
<1>6. CASE t.is \in {"last", "upgrade"}
  <2>1. PICK b : b = HeadersComplete(c)
    OBVIOUS
  <2>2. Kept(c, b) /\ b \in ConnType
    BY <2>1, HeadersCompleteIs DEF Kept
  <2>3. Kept(b, MessageComplete(b))
    BY <2>2, MessageCompleteIs
  <2>. QED BY <1>6, <2>1, <2>2, <2>3, KeptTwice, CallbackIs
<1>7. CASE t.is = "part"
  BY <1>7, BodyIs, CallbackIs
<1>8. CASE t.is = "body"
  <2>1. PICK b : b = Body(c)
    OBVIOUS
  <2>2. Kept(c, b) /\ b \in ConnType
    BY <2>1, BodyIs DEF Kept
  <2>3. Kept(b, MessageComplete(b))
    BY <2>2, MessageCompleteIs
  <2>. QED BY <1>8, <2>1, <2>2, <2>3, KeptTwice, CallbackIs
<1>9. CASE t.is = "crlf"
  BY <1>9, CallbackIs DEF Kept, Same
<1>. QED BY <1>1, <1>2, <1>3, <1>4, <1>5, <1>6, <1>7, <1>8, <1>9 DEF TokenKinds

-----------------------------------------------------------------------------
(* The parser and an orderly client: what it has made of the first k       *)
(* tokens of message m.                                                    *)
Own(m) == [from |-> {m}, expect |-> "none"]

Stage(c, m, parsed, value, header, headers, payload) ==
  /\ c.parsed = parsed /\ c.lastWasValue = value /\ c.header = header
  /\ Req(c.request, m, headers, payload)

Fresh(c) == c.lastWasValue = FALSE /\ c.header = NoHeader

At(c, kind, k, m) ==
  \/ k = 0 /\ Fresh(c)
  \/ k = 1 /\ Stage(c, m, "headers", FALSE, Own(m), {}, 0)
  \/ k = 2 /\ Stage(c, m, "headers", TRUE, Own(m), {}, 0)
  \/ k = 3 /\ kind = "get" /\ Stage(c, m, "headers", FALSE, Own(m), {Own(m)}, 0)
  \/ k = 4 /\ kind = "get" /\ Stage(c, m, "headers", TRUE, Own(m), {Own(m)}, 0)
  \/ k = 5 /\ kind = "get" /\ Stage(c, m, "finished", FALSE, NoHeader, {Own(m)}, 0)
  \/ k = 3 /\ kind = "post" /\ Stage(c, m, "content", FALSE, NoHeader, {Own(m)}, 0)
  \/ k = 4 /\ kind = "post" /\ Stage(c, m, "content", FALSE, NoHeader, {Own(m)}, 1)
  \/ k = 5 /\ kind = "post" /\ Stage(c, m, "finished", FALSE, NoHeader, {Own(m)}, 2)

LEMMA Scripts ==
  /\ Len(Script("get")) = 5 /\ DOMAIN Script("get") = 1..5
  /\ Script("get")[1] = "begin" /\ Script("get")[2] = "value" /\ Script("get")[3] = "name"
  /\ Script("get")[4] = "value" /\ Script("get")[5] = "last"
  /\ Len(Script("post")) = 5 /\ DOMAIN Script("post") = 1..5
  /\ Script("post")[1] = "begin" /\ Script("post")[2] = "value" /\ Script("post")[3] = "end"
  /\ Script("post")[4] = "part" /\ Script("post")[5] = "body"
<1>1. Script("get") = <<"begin", "value", "name", "value", "last">>
  BY DEF Script
<1>2. Script("post") = <<"begin", "value", "end", "part", "body">>
  BY DEF Script
<1>. QED BY <1>1, <1>2

LEMMA StageStep ==
  ASSUME NEW c \in ConnType, NEW m \in Message, NEW kind \in {"get", "post"}, NEW k \in 0..4,
         At(c, kind, k, m), NEW t \in Token, t.of = m, t.is = Script(kind)[k + 1]
  PROVE  At(Callbacks(c, t), kind, k + 1, m)
<1>. DEFINE d == Callbacks(c, t)
<1>1. CASE k = 0
  <2>1. PICK b : b = MessageBegin(c, m)
    OBVIOUS
  <2>2. b \in ConnType /\ b.parsed = "headers" /\ b.lastWasValue = FALSE /\ b.header = NoHeader
        /\ Req(b.request, m, {}, 0)
    BY <1>1, <2>1, MessageBeginIs DEF Kept, At, Fresh
  <2>3. d = HeaderField(b, m)
    BY <1>1, <2>1, CallbackIs, Scripts
  <2>4. PICK e : e = HeaderField(b, m)
    OBVIOUS
  <2>5. /\ e.parsed = b.parsed /\ e.lastWasValue = FALSE
        /\ e.header = [from |-> NoHeader.from \cup {m}, expect |-> NoHeader.expect]
        /\ Req(e.request, b.request.of, b.request.headers, b.request.payload)
    BY <2>2, <2>4, HeaderFieldIs
  <2>6. NoHeader.from \cup {m} = {m} /\ NoHeader.expect = "none"
    BY DEF NoHeader
  <2>7. Stage(e, m, "headers", FALSE, Own(m), {}, 0)
    BY <2>2, <2>5, <2>6 DEF Stage, Own, Req
  <2>8. Stage(d, m, "headers", FALSE, Own(m), {}, 0)
    BY <2>3, <2>4, <2>7, Zenon
  <2>9. At(d, kind, 1, m)
    <3>. HIDE DEF d
    <3>. QED BY <2>8 DEF At
  <2>10. k + 1 = 1
    BY <1>1
  <2>. QED BY <2>9, <2>10
<1>2. CASE k = 1 \/ (k = 3 /\ kind = "get")
  <2>1. d = HeaderValue(c, m, "none")
    BY <1>2, CallbackIs, Scripts
  <2>2. c.header = Own(m)
    BY <1>2 DEF At, Stage
  <2>3. PICK e : e = HeaderValue(c, m, "none")
    OBVIOUS
  <2>4. /\ e.parsed = c.parsed /\ e.lastWasValue = TRUE /\ e.request = c.request
        /\ e.header = [from |-> c.header.from \cup {m}, expect |-> "none"]
    BY <2>3, HeaderValueIs
  <2>5. e.header = Own(m)
    BY <2>2, <2>4 DEF Own
  <2>. QED BY <1>2, <2>1, <2>3, <2>4, <2>5 DEF At, Stage
<1>3. CASE k = 2 /\ kind = "get"
  <2>1. d = HeaderField(c, m)
    BY <1>3, CallbackIs, Scripts
  <2>2. c.parsed = "headers" /\ c.lastWasValue = TRUE /\ c.header = Own(m) /\ Req(c.request, m, {}, 0)
    BY <1>3 DEF At, Stage
  <2>3. PICK e : e = HeaderField(c, m)
    OBVIOUS
  <2>4. /\ e.parsed = "headers" /\ e.lastWasValue = FALSE
        /\ e.header = [from |-> NoHeader.from \cup {m}, expect |-> NoHeader.expect]
        /\ Req(e.request, m, {} \cup {Own(m)}, 0)
    <3>1. /\ e.parsed = c.parsed /\ e.lastWasValue = FALSE
          /\ e.header = [from |-> NoHeader.from \cup {m}, expect |-> NoHeader.expect]
          /\ Req(e.request, c.request.of, c.request.headers \cup {c.header}, c.request.payload)
      BY <2>2, <2>3, HeaderFieldIs
    <3>. QED BY <2>2, <3>1 DEF Req
  <2>5. NoHeader.from \cup {m} = {m} /\ NoHeader.expect = "none" /\ {} \cup {Own(m)} = {Own(m)}
    BY DEF NoHeader
  <2>. QED BY <1>3, <2>1, <2>3, <2>4, <2>5 DEF At, Stage, Own
<1>4. CASE k = 2 /\ kind = "post"
  <2>1. d = HeadersComplete(c)
    BY <1>4, CallbackIs, Scripts
  <2>2. c.lastWasValue = TRUE /\ c.header = Own(m) /\ Req(c.request, m, {}, 0)
    BY <1>4 DEF At, Stage
  <2>3. PICK e : e = HeadersComplete(c)
    OBVIOUS
  <2>4. e.parsed = "content" /\ e.lastWasValue = FALSE /\ e.header = NoHeader
        /\ Req(e.request, m, {Own(m)}, 0)
    BY <2>2, <2>3, HeadersCompleteIs DEF Req
  <2>. QED BY <1>4, <2>1, <2>3, <2>4 DEF At, Stage
<1>5. CASE k = 3 /\ kind = "post"
  BY <1>5, BodyIs, CallbackIs, Scripts DEF At, Stage, Req
<1>6. CASE k = 4 /\ kind = "get"
  <2>1. PICK b : b = HeadersComplete(c)
    OBVIOUS
  <2>2. c.lastWasValue = TRUE /\ c.header = Own(m) /\ Req(c.request, m, {Own(m)}, 0)
    BY <1>6 DEF At, Stage
  <2>3. b \in ConnType /\ b.lastWasValue = FALSE /\ b.header = NoHeader
        /\ Req(b.request, m, {Own(m)}, 0)
    BY <2>1, <2>2, HeadersCompleteIs DEF Req, Kept
  <2>4. d = MessageComplete(b)
    BY <1>6, <2>1, CallbackIs, Scripts
  <2>. QED BY <1>6, <2>3, <2>4, MessageCompleteIs DEF At, Stage
<1>7. CASE k = 4 /\ kind = "post"
  <2>1. PICK b : b = Body(c)
    OBVIOUS
  <2>2. c.lastWasValue = FALSE /\ c.header = NoHeader /\ Req(c.request, m, {Own(m)}, 1)
    BY <1>7 DEF At, Stage
  <2>3. b \in ConnType /\ b.lastWasValue = FALSE /\ b.header = NoHeader
        /\ Req(b.request, m, {Own(m)}, 2)
    BY <2>1, <2>2, BodyIs DEF Req, Kept
  <2>4. d = MessageComplete(b)
    BY <1>7, <2>1, CallbackIs, Scripts
  <2>. QED BY <1>7, <2>3, <2>4, MessageCompleteIs DEF At, Stage
<1>. QED BY <1>1, <1>2, <1>3, <1>4, <1>5, <1>6, <1>7

-----------------------------------------------------------------------------
(* A set of natural numbers has a least one: the induction of the proofs   *)
(* about recursive functions.                                              *)
LEMMA LeastOf ==
  ASSUME NEW T, T \subseteq Nat, T # {}
  PROVE  \E x \in T : \A y \in T : x <= y
<1>1. IsWellFoundedOn(OpToRel(<, Nat), Nat)
  BY NatLessThanWellFounded, Zenon
<1>2. PICK R : R = OpToRel(<, Nat)
  OBVIOUS
<1>3. \E x \in T : \A y \in T : ~ (<<y, x>> \in R)
  BY <1>1, <1>2, WFMin, Zenon
<1>4. \A x, y \in Nat : <<y, x>> \in R <=> y < x
  BY <1>2, Zenon DEF OpToRel
<1>5. \A x, y \in Nat : ~ (y < x) => x <= y
  OBVIOUS
<1>6. \A x, y \in T : ~ (<<y, x>> \in R) => x <= y
  BY <1>4, <1>5
<1>. QED BY <1>3, <1>6

(* What http_parser accepts of the data it is given.                       *)
LEMMA AcceptedIs ==
  ASSUME NEW ts \in Seq(Token)
  PROVE  /\ Accepted(ts) \in 0..Len(ts) /\ Len(ts) \in Nat
         /\ \A i \in 1..Accepted(ts) : ts[i].is # "bad"
         /\ (\A i \in 1..Len(ts) : ts[i].is \notin {"upgrade", "bad"}) => Accepted(ts) = Len(ts)
<1>. DEFINE I == {i \in 1..Len(ts) : ts[i].is \in {"upgrade", "bad"}}
<1>1. PICK stop : stop = IF I # {} THEN Min(I) ELSE 0
  OBVIOUS
<1>2. Accepted(ts) = IF stop = 0 THEN Len(ts)
                     ELSE IF ts[stop].is = "bad" THEN stop - 1 ELSE stop
  BY <1>1 DEF Accepted, SelectInSeq
<1>3. Len(ts) \in Nat
  OBVIOUS
<1>4. CASE I = {}
  <2>1. stop = 0
    BY <1>1, <1>4
  <2>2. \A i \in 1..Len(ts) : ts[i].is \notin {"upgrade", "bad"}
    BY <1>4
  <2>. HIDE DEF I
  <2>. QED BY <1>2, <1>3, <2>1, <2>2
<1>5. CASE I # {}
  <2>1. I \subseteq Nat /\ I \subseteq 1..Len(ts)
    BY <1>3
  <2>2. stop \in I /\ \A i \in I : stop <= i
    <3>. HIDE DEF I
    <3>1. \E x \in I : \A y \in I : x <= y
      BY <1>5, <2>1, LeastOf
    <3>. QED BY <1>1, <1>5, <3>1, Zenon DEF Min
  <2>3. \A i \in 1..(stop - 1) : ts[i].is # "bad"
    <3>. SUFFICES ASSUME NEW i \in 1..(stop - 1), ts[i].is = "bad" PROVE FALSE
      OBVIOUS
    <3>1. i \in 1..Len(ts) /\ ~ (stop <= i)
      BY <1>3, <2>1, <2>2
    <3>. QED BY <2>2, <3>1
  <2>4. stop \in 1..Len(ts) /\ ts[stop].is \in {"upgrade", "bad"}
    BY <2>2
  <2>. HIDE DEF I
  <2>. QED BY <1>2, <1>3, <2>3, <2>4
<1>. QED BY <1>4, <1>5

(* The callbacks in turn: what the first i of n tokens have made of c.     *)
Turn(w, n, c, ts) == [i \in 0..n |-> IF i = 0 THEN c ELSE Callbacks(w[i - 1], ts[i])]

LEMMA TurnExists ==
  ASSUME NEW c, NEW ts, NEW n \in Nat
  PROVE  \E w : w = Turn(w, n, c, ts)
<1>. DEFINE T == {k \in 0..n : ~ \E w : w = Turn(w, k, c, ts)}
<1>1. SUFFICES ASSUME T # {} PROVE FALSE
  OBVIOUS
<1>2. PICK k \in T : \A j \in T : k <= j
  <2>1. T \subseteq Nat
    OBVIOUS
  <2>. HIDE DEF T
  <2>. QED BY <1>1, <2>1, LeastOf
<1>3. CASE k = 0
  <2>1. PICK w : w = [i \in 0..0 |-> c]
    OBVIOUS
  <2>2. w = Turn(w, 0, c, ts)
    BY <2>1 DEF Turn
  <2>. QED BY <1>2, <1>3, <2>2
<1>4. CASE k # 0
  <2>1. k - 1 \in 0..n /\ k - 1 \notin T /\ k \in 0..n
    BY <1>2, <1>4
  <2>2. PICK w : w = Turn(w, k - 1, c, ts)
    BY <2>1
  <2>3. PICK u : u = [i \in 0..k |-> IF i < k THEN w[i] ELSE Callbacks(w[k - 1], ts[k])]
    OBVIOUS
  <2>4. \A i \in 0..k : u[i] = IF i = 0 THEN c ELSE Callbacks(u[i - 1], ts[i])
    <3>. TAKE i \in 0..k
    <3>1. CASE i < k
      <4>1. i \in 0..(k - 1) /\ u[i] = w[i] /\ (i # 0 => i - 1 \in 0..k /\ i - 1 < k)
        BY <2>1, <2>3, <3>1
      <4>2. w[i] = IF i = 0 THEN c ELSE Callbacks(w[i - 1], ts[i])
        BY <2>2, <4>1 DEF Turn
      <4>3. i # 0 => u[i - 1] = w[i - 1]
        BY <2>3, <4>1
      <4>. QED BY <4>1, <4>2, <4>3
    <3>2. CASE i = k
      <4>1. k - 1 \in 0..k /\ k - 1 < k /\ ~ (k < k)
        BY <2>1
      <4>2. u[k - 1] = w[k - 1] /\ u[k] = Callbacks(w[k - 1], ts[k])
        BY <2>1, <2>3, <4>1
      <4>. QED BY <1>4, <3>2, <4>2
    <3>. QED BY <2>1, <3>1, <3>2
  <2>5. u = Turn(u, k, c, ts)
    BY <2>3, <2>4 DEF Turn
  <2>. QED BY <1>2, <2>5
<1>. QED BY <1>3, <1>4

LEMMA ParseIs ==
  ASSUME NEW c, NEW ts \in Seq(Token)
  PROVE  \E w : /\ w = Turn(w, Accepted(ts), c, ts)
                /\ Parse(c, ts) =
                     [w[Accepted(ts)] EXCEPT !.status =
                        IF Accepted(ts) < Len(ts)
                           /\ ~ (Accepted(ts) > 0 /\ ts[Accepted(ts)].is = "upgrade")
                        THEN "failed" ELSE w[Accepted(ts)].parsed]
<1>1. PICK w : w = CHOOSE x : x = Turn(x, Accepted(ts), c, ts)
  OBVIOUS
<1>2. w = Turn(w, Accepted(ts), c, ts)
  <2>1. Accepted(ts) \in Nat
    BY AcceptedIs
  <2>. QED BY <1>1, <2>1, TurnExists
<1>3. Parse(c, ts) =
        [w[Accepted(ts)] EXCEPT !.status =
           IF Accepted(ts) < Len(ts) /\ ~ (Accepted(ts) > 0 /\ ts[Accepted(ts)].is = "upgrade")
           THEN "failed" ELSE w[Accepted(ts)].parsed]
  BY <1>1 DEF Parse, Turn
<1>. QED BY <1>2, <1>3

(* After every token: a property of the callbacks' arguments that they     *)
(* keep.                                                                   *)
LEMMA TurnsKeep ==
  ASSUME NEW c \in ConnType, NEW ts \in Seq(Token), NEW w, w = Turn(w, Accepted(ts), c, ts)
  PROVE  \A k \in 0..Accepted(ts) : Kept(c, w[k])
<1>. DEFINE T == {k \in 0..Accepted(ts) : ~ Kept(c, w[k])}
<1>0. Accepted(ts) \in Nat /\ \A i \in 1..Accepted(ts) : ts[i] \in Token /\ ts[i].is # "bad"
  <2>1. \A i \in 1..Len(ts) : ts[i] \in Token
    OBVIOUS
  <2>. QED BY <2>1, AcceptedIs
<1>1. SUFFICES ASSUME T # {} PROVE FALSE
  OBVIOUS
<1>2. PICK k \in T : \A j \in T : k <= j
  <2>1. T \subseteq Nat
    BY <1>0
  <2>. HIDE DEF T
  <2>. QED BY <1>1, <2>1, LeastOf
<1>3. k \in 0..Accepted(ts) /\ ~ Kept(c, w[k])
  BY <1>2
<1>4. w[k] = IF k = 0 THEN c ELSE Callbacks(w[k - 1], ts[k])
  BY <1>3 DEF Turn
<1>5. CASE k = 0
  BY <1>3, <1>4, <1>5 DEF Kept, Same
<1>6. CASE k # 0
  <2>1. k - 1 \in 0..Accepted(ts) /\ ~ (k <= k - 1) /\ k \in 1..Accepted(ts)
    BY <1>0, <1>3, <1>6
  <2>2. Kept(c, w[k - 1])
    BY <1>2, <2>1
  <2>3. Kept(w[k - 1], Callbacks(w[k - 1], ts[k]))
    BY <1>0, <2>1, <2>2, CallbackKeeps DEF Kept
  <2>. QED BY <1>3, <1>4, <1>6, <2>2, <2>3, KeptTwice
<1>. QED BY <1>5, <1>6

LEMMA ParseKeeps ==
  ASSUME NEW c \in ConnType, NEW ts \in Seq(Token)
  PROVE  /\ Parse(c, ts) \in ConnType /\ Same(c, Parse(c, ts))
         /\ Accepted(ts) = Len(ts) => Parse(c, ts).status = Parse(c, ts).parsed
<1>1. PICK n : n = Accepted(ts)
  OBVIOUS
<1>2. PICK w : /\ w = Turn(w, n, c, ts)
               /\ Parse(c, ts) =
                     [w[n] EXCEPT !.status =
                        IF n < Len(ts) /\ ~ (n > 0 /\ ts[n].is = "upgrade")
                        THEN "failed" ELSE w[n].parsed]
  BY <1>1, ParseIs
<1>3. PICK e : e = w[n]
  OBVIOUS
<1>4. Kept(c, e) /\ n \in Nat /\ Len(ts) \in Nat
  BY <1>1, <1>2, <1>3, TurnsKeep, AcceptedIs
<1>5. PICK s : s = IF n < Len(ts) /\ ~ (n > 0 /\ ts[n].is = "upgrade") THEN "failed" ELSE e.parsed
  OBVIOUS
<1>6. s \in Statuses /\ (n = Len(ts) => s = e.parsed)
  BY <1>4, <1>5 DEF Kept, ConnType, Statuses
<1>7. PICK d : d = [e EXCEPT !.status = s]
  OBVIOUS
<1>8. d \in ConnType /\ Same(e, d) /\ d.status = s /\ d.parsed = e.parsed
  BY <1>4, <1>6, <1>7 DEF Kept, ConnType, Same
<1>9. Parse(c, ts) = d
  BY <1>2, <1>3, <1>5, <1>7
<1>10. Same(c, d)
  BY <1>4, <1>8 DEF Kept, Same
<1>. QED BY <1>1, <1>6, <1>8, <1>9, <1>10

-----------------------------------------------------------------------------
(* Data from an orderly client: n tokens behind the first k of message m.  *)
Piece(ts, kind, k, m) ==
  /\ ts \in Seq(Token) /\ k + Len(ts) <= 5
  /\ \A i \in 1..Len(ts) : ts[i].of = m /\ ts[i].is = Script(kind)[k + i]

LEMMA PieceAccepted ==
  ASSUME NEW kind \in {"get", "post"}, NEW k \in 0..5, NEW m \in Message, NEW ts, Piece(ts, kind, k, m)
  PROVE  Accepted(ts) = Len(ts)
<1>1. \A j \in 1..5 : Script(kind)[j] \notin {"upgrade", "bad"}
  <2>1. CASE kind = "get"
    <3>1. \A j \in 1..5 : j = 1 \/ j = 2 \/ j = 3 \/ j = 4 \/ j = 5
      OBVIOUS
    <3>. QED BY <2>1, <3>1, Scripts
  <2>2. CASE kind = "post"
    <3>1. \A j \in 1..5 : j = 1 \/ j = 2 \/ j = 3 \/ j = 4 \/ j = 5
      OBVIOUS
    <3>. QED BY <2>2, <3>1, Scripts
  <2>. QED BY <2>1, <2>2
<1>2. \A i \in 1..Len(ts) : k + i \in 1..5
  BY DEF Piece
<1>3. \A i \in 1..Len(ts) : ts[i].is \notin {"upgrade", "bad"}
  BY <1>1, <1>2 DEF Piece
<1>. QED BY <1>3, AcceptedIs DEF Piece

LEMMA ParseStage ==
  ASSUME NEW c \in ConnType, NEW m \in Message, NEW kind \in {"get", "post"}, NEW k \in 0..5,
         At(c, kind, k, m), NEW ts, Piece(ts, kind, k, m)
  PROVE  At(Parse(c, ts), kind, k + Len(ts), m)
<1>1. PICK n : n = Accepted(ts)
  OBVIOUS
<1>0. ts \in Seq(Token)
  BY DEF Piece
<1>2. n = Len(ts) /\ n \in Nat /\ ts \in Seq(Token) /\ k + n <= 5
  <2>1. n = Len(ts)
    BY <1>1, PieceAccepted
  <2>2. k + Len(ts) <= 5 /\ Len(ts) \in Nat
    BY <1>0 DEF Piece
  <2>. QED BY <1>0, <2>1, <2>2
<1>3. PICK w : /\ w = Turn(w, n, c, ts)
               /\ Parse(c, ts) =
                     [w[n] EXCEPT !.status =
                        IF n < Len(ts) /\ ~ (n > 0 /\ ts[n].is = "upgrade")
                        THEN "failed" ELSE w[n].parsed]
  BY <1>0, <1>1, ParseIs
<1>4. \A j \in 0..n : Kept(c, w[j])
  BY <1>1, <1>2, <1>3, TurnsKeep
<1>5. \A j \in 0..n : At(w[j], kind, k + j, m)
  <2>. DEFINE T == {j \in 0..n : ~ At(w[j], kind, k + j, m)}
  <2>1. SUFFICES ASSUME T # {} PROVE FALSE
    OBVIOUS
  <2>2. PICK j \in T : \A i \in T : j <= i
    <3>1. T \subseteq Nat
      BY <1>2
    <3>. HIDE DEF T
    <3>. QED BY <2>1, <3>1, LeastOf
  <2>3. j \in 0..n /\ ~ At(w[j], kind, k + j, m)
    BY <2>2
  <2>4. w[j] = IF j = 0 THEN c ELSE Callbacks(w[j - 1], ts[j])
    BY <1>3, <2>3 DEF Turn
  <2>5. CASE j = 0
    BY <2>3, <2>4, <2>5
  <2>6. CASE j # 0
    <3>1. j - 1 \in 0..n /\ ~ (j <= j - 1) /\ j \in 1..Len(ts) /\ k + (j - 1) \in 0..4
      BY <1>2, <2>3, <2>6
    <3>2. At(w[j - 1], kind, k + (j - 1), m)
      BY <2>2, <3>1
    <3>3. PICK t \in Token : t = ts[j]
      BY <1>2, <3>1
    <3>4. t.of = m /\ t.is = Script(kind)[k + j] /\ k + j = k + (j - 1) + 1
      BY <3>1, <3>3 DEF Piece
    <3>5. w[j - 1] \in ConnType
      BY <1>4, <3>1 DEF Kept
    <3>6. At(Callbacks(w[j - 1], t), kind, k + (j - 1) + 1, m)
      BY <3>1, <3>2, <3>4, <3>5, StageStep
    <3>. QED BY <2>3, <2>4, <2>6, <3>3, <3>4, <3>6
  <2>. QED BY <2>5, <2>6
<1>6. PICK e : e = w[n]
  OBVIOUS
<1>7. PICK d : d = Parse(c, ts)
  OBVIOUS
<1>8. d.parsed = e.parsed /\ d.lastWasValue = e.lastWasValue /\ d.header = e.header
      /\ d.request = e.request
  <2>1. e \in ConnType
    BY <1>2, <1>4, <1>6 DEF Kept
  <2>2. PICK s : d = [e EXCEPT !.status = s]
    BY <1>3, <1>6, <1>7
  <2>. QED BY <2>1, <2>2 DEF ConnType
<1>9. At(e, kind, k + Len(ts), m)
  BY <1>2, <1>5, <1>6
<1>. QED BY <1>7, <1>8, <1>9 DEF At, Stage, Fresh

-----------------------------------------------------------------------------
(* The handlers. *)

(* A connection that is well typed and knows whether a read is under way.  *)
Sound(c) == c \in ConnType /\ c.reads \in 0..1 /\ (c.readInProgress <=> c.reads = 1)

(* The operations of a connection.                                         *)
Ops(c, reads, writes, written) == c.reads = reads /\ c.writes = writes /\ c.written = written

LEMMA StartReadIs ==
  ASSUME NEW c, Sound(c)
  PROVE  LET d == StartRead(c)
         IN  /\ Sound(d) /\ d.reads = 1 /\ d.writes = c.writes /\ d.written = c.written
             /\ d.parsed = c.parsed /\ d.lastWasValue = c.lastWasValue /\ d.header = c.header
             /\ d.request = c.request /\ d.response = c.response /\ d.status = c.status
             /\ d.left = c.left
<1>1. CASE c.readInProgress
  BY <1>1 DEF StartRead, Sound
<1>2. CASE ~c.readInProgress
  <2>1. PICK n : n = c.reads + 1
    OBVIOUS
  <2>2. n = 1 /\ c \in ConnType
    BY <1>2, <2>1, ConnFields DEF Sound
  <2>3. PICK d : d = [c EXCEPT !.readInProgress = TRUE, !.reads = n]
    OBVIOUS
  <2>4. StartRead(c) = d
    BY <1>2, <2>1, <2>2, <2>3 DEF StartRead, ConnType
  <2>5. d \in ConnType /\ d.readInProgress = TRUE /\ d.reads = 1
    BY <2>2, <2>3 DEF ConnType
  <2>6. /\ d.writes = c.writes /\ d.written = c.written
        /\ d.parsed = c.parsed /\ d.lastWasValue = c.lastWasValue /\ d.header = c.header
        /\ d.request = c.request /\ d.response = c.response /\ d.status = c.status
        /\ d.left = c.left
    BY <2>2, <2>3 DEF ConnType
  <2>. QED BY <2>4, <2>5, <2>6 DEF Sound
<1>. QED BY <1>1, <1>2

LEMMA RespondIs ==
  ASSUME NEW c, Sound(c), NEW r \in ResponseType
  PROVE  LET d == Respond(c, r)
         IN  /\ Sound(d) /\ d.reads = c.reads /\ d.writes = Append(c.writes, r)
             /\ d.written = c.written /\ d.response = r
             /\ d.parsed = c.parsed /\ d.lastWasValue = c.lastWasValue /\ d.header = c.header
             /\ d.request = c.request /\ d.status = c.status /\ d.left = c.left
             /\ d.readInProgress = c.readInProgress
<1>1. PICK ws : ws = Append(c.writes, r)
  OBVIOUS
<1>2. ws \in Seq(ResponseType) /\ c \in ConnType
  BY <1>1, ConnFields, AppendProperties DEF Sound
<1>3. PICK d : d = [c EXCEPT !.response = r, !.writes = ws]
  OBVIOUS
<1>4. Respond(c, r) = d
  BY <1>1, <1>2, <1>3 DEF Respond, ConnType
<1>5. d \in ConnType /\ d.writes = ws /\ d.response = r
  BY <1>2, <1>3 DEF ConnType
<1>6. /\ d.reads = c.reads /\ d.written = c.written /\ d.readInProgress = c.readInProgress
      /\ d.parsed = c.parsed /\ d.lastWasValue = c.lastWasValue /\ d.header = c.header
      /\ d.request = c.request /\ d.status = c.status /\ d.left = c.left
  BY <1>2, <1>3 DEF ConnType
<1>. QED BY <1>1, <1>4, <1>5, <1>6 DEF Sound

LEMMA PageTypes ==
  /\ \A s \in {"none", "continue", "expectation failed", "bad request", "garbage"} :
        Page(s) \in ResponseType
  /\ \A r \in RequestType : Answer(r) \in ResponseType
  BY NothingTypes DEF Page, Answer, ResponseType

LEMMA ExpectationIs ==
  ASSUME NEW c, Sound(c)
  PROVE  LET d == Expectation(c)
         IN  /\ Sound(d) /\ d.left = c.left /\ d.status = c.status
             /\ (\A h \in c.request.headers : h.expect = "none") => d = c
<1>1. c \in ConnType /\ c.request \in RequestType
  BY ConnFields DEF Sound
<1>2. CASE \E h \in c.request.headers : h.expect = "continue"
  <2>1. PICK b : b = Respond(c, Page("continue"))
    OBVIOUS
  <2>2. Sound(b) /\ b.left = c.left /\ b.status = c.status /\ b.request \in RequestType
    BY <1>1, <2>1, PageTypes, RespondIs
  <2>3. PICK r : r = [b.request EXCEPT !.headers = {h \in @ : h.expect # "continue"}]
    OBVIOUS
  <2>4. r \in RequestType
    BY <2>2, <2>3 DEF RequestType
  <2>5. PICK d : d = [b EXCEPT !.request = r]
    OBVIOUS
  <2>6. Expectation(c) = d
    <3>1. Expectation(c) = [b EXCEPT !.request.headers = {h \in @ : h.expect # "continue"}]
      <4>1. Expectation(c) = [Respond(c, Page("continue")) EXCEPT
                                !.request.headers = {h \in @ : h.expect # "continue"}]
        BY <1>2, Zenon DEF Expectation
      <4>. QED BY <2>1, <4>1
    <3>2. b \in ConnType
      BY <2>2 DEF Sound
    <3>. QED BY <2>3, <2>5, <3>1, <3>2 DEF ConnType
  <2>7. Sound(d) /\ d.left = b.left /\ d.status = b.status
    BY <2>2, <2>4, <2>5 DEF Sound, ConnType
  <2>. QED BY <1>2, <2>2, <2>6, <2>7
<1>3. CASE /\ ~ \E h \in c.request.headers : h.expect = "continue"
           /\ \E h \in c.request.headers : h.expect = "other"
  <2>1. Expectation(c) = Respond(c, Page("expectation failed"))
    BY <1>3 DEF Expectation
  <2>2. PICK b : b = Respond(c, Page("expectation failed"))
    OBVIOUS
  <2>3. Sound(b) /\ b.left = c.left /\ b.status = c.status
    BY <2>2, PageTypes, RespondIs
  <2>. QED BY <1>3, <2>1, <2>2, <2>3
<1>4. CASE \A h \in c.request.headers : h.expect \notin {"continue", "other"}
  <2>1. Expectation(c) = c
    BY <1>4 DEF Expectation
  <2>. QED BY <2>1
<1>. QED BY <1>2, <1>3, <1>4

LEMMA HandleBufferKeeps ==
  ASSUME NEW c, Sound(c), NEW ts \in Seq(Token), NEW offset \in BOOLEAN
  PROVE  Sound(HandleBuffer(c, ts, offset))
<1>1. PICK p : p = Parse(c, ts)
  OBVIOUS
<1>2. p \in ConnType /\ Same(c, p)
  BY <1>1, ParseKeeps DEF Sound
<1>3. PICK rest : rest = IF Accepted(ts) = 0 /\ ~offset THEN <<>>
                         ELSE SubSeq(ts, Accepted(ts) + 1, Len(ts))
  OBVIOUS
<1>4. rest \in Seq(Token)
  <2>1. Accepted(ts) \in 0..Len(ts) /\ Len(ts) \in Nat
    BY AcceptedIs
  <2>2. \A i \in (Accepted(ts) + 1)..Len(ts) : i \in 1..Len(ts)
    BY <2>1
  <2>3. SubSeq(ts, Accepted(ts) + 1, Len(ts)) \in Seq(Token)
    BY <2>1, <2>2, SubSeqProperties
  <2>. QED BY <1>3, <2>3, EmptySeq
<1>5. PICK d : d = [p EXCEPT !.left = rest]
  OBVIOUS
<1>6. Sound(d)
  BY <1>2, <1>4, <1>5 DEF Same, Sound, ConnType
<1>7. PICK e : e = Expectation(d)
  OBVIOUS
<1>8. Sound(e) /\ e.request \in RequestType
  <2>1. Sound(e)
    BY <1>6, <1>7, ExpectationIs
  <2>. QED BY <2>1, ConnFields DEF Sound
<1>9. d.status \in Statuses
  BY <1>6, ConnFields DEF Sound
<1>10. /\ d.status = "failed" => HandleBuffer(c, ts, offset) = Respond(d, Page("bad request"))
       /\ d.status = "headers" => HandleBuffer(c, ts, offset) = StartRead(d)
       /\ d.status = "content" => HandleBuffer(c, ts, offset) = StartRead(e)
       /\ d.status = "finished" => HandleBuffer(c, ts, offset) = Respond(e, Answer(e.request))
  BY <1>1, <1>3, <1>5, <1>7 DEF HandleBuffer
<1>11. /\ Sound(Respond(d, Page("bad request"))) /\ Sound(StartRead(d))
       /\ Sound(StartRead(e)) /\ Sound(Respond(e, Answer(e.request)))
  <2>1. Page("bad request") \in ResponseType /\ Answer(e.request) \in ResponseType
    BY <1>8, PageTypes
  <2>. QED BY <1>6, <1>8, <2>1, RespondIs, StartReadIs
<1>. QED BY <1>9, <1>10, <1>11 DEF Statuses

(* An orderly message, or a part of it, has arrived.                       *)
Waits(c) == Ops(c, 1, <<>>, 0) /\ c.left = <<>>
Responds(c, m) ==
  /\ Ops(c, 0, <<c.response>>, 0) /\ c.left = <<>> /\ c.status = "finished" /\ Fresh(c)
  /\ c.response \in {Answer(request) : request \in Proper(m)}

LEMMA HandleBufferStage ==
  ASSUME NEW c, Sound(c), Ops(c, 0, <<>>, 0), NEW kind \in {"get", "post"}, NEW k \in 0..4,
         NEW m \in Message, At(c, kind, k, m), NEW ts, Piece(ts, kind, k, m), Len(ts) > 0
  PROVE  LET d == HandleBuffer(c, ts, FALSE)
         IN  /\ k + Len(ts) < 5 => Waits(d) /\ At(d, kind, k + Len(ts), m)
             /\ k + Len(ts) = 5 => Responds(d, m)
<1>1. PICK p : p = Parse(c, ts)
  OBVIOUS
<1>2. ts \in Seq(Token) /\ k \in 0..5 /\ c \in ConnType
  BY DEF Piece, Sound
<1>3. p \in ConnType /\ Same(c, p) /\ p.status = p.parsed /\ Accepted(ts) = Len(ts)
  BY <1>1, <1>2, ParseKeeps, PieceAccepted
<1>4. PICK n \in Nat : n = k + Len(ts)
  BY <1>2
<1>5. n \in 1..5 /\ At(p, kind, n, m)
  <2>1. At(p, kind, n, m)
    BY <1>1, <1>2, <1>4, ParseStage
  <2>. QED BY <1>2, <1>4, <2>1 DEF Piece
<1>6. SubSeq(ts, Accepted(ts) + 1, Len(ts)) = <<>>
  <2>1. PICK s : s = SubSeq(ts, Len(ts) + 1, Len(ts))
    OBVIOUS
  <2>2. Len(ts) \in Nat /\ ~ (Len(ts) + 1 <= Len(ts)) /\ \A i \in (Len(ts) + 1)..Len(ts) : i \in 1..Len(ts)
    BY <1>2
  <2>3. s \in Seq(Token) /\ Len(s) = 0
    BY <1>2, <2>1, <2>2, SubSeqProperties
  <2>4. s = <<>>
    BY <2>3, EmptySeq
  <2>. QED BY <1>3, <2>1, <2>4
<1>7. PICK d : d = [p EXCEPT !.left = <<>>]
  OBVIOUS
<1>8. d = [Parse(c, ts) EXCEPT !.left = IF Accepted(ts) = 0 /\ ~FALSE THEN <<>>
                                       ELSE SubSeq(ts, Accepted(ts) + 1, Len(ts))]
  BY <1>1, <1>6, <1>7
<1>9. <<>> \in Seq(Token)
  BY EmptySeq
<1>10. /\ Sound(d) /\ Ops(d, 0, <<>>, 0) /\ d.left = <<>> /\ d.status = d.parsed
       /\ d.request = p.request /\ d.header = p.header /\ d.parsed = p.parsed
       /\ d.lastWasValue = p.lastWasValue
  BY <1>3, <1>7, <1>9 DEF Same, Sound, ConnType, Ops
<1>11. At(d, kind, n, m)
  BY <1>5, <1>10 DEF At, Stage, Fresh
<1>12. \A h \in d.request.headers : h.expect = "none"
  BY <1>5, <1>11 DEF At, Stage, Req, Own
<1>13. Expectation(d) = d
  BY <1>10, <1>12, ExpectationIs
<1>14. /\ d.status = "headers" => HandleBuffer(c, ts, FALSE) = StartRead(d)
       /\ d.status = "content" => HandleBuffer(c, ts, FALSE) = StartRead(d)
       /\ d.status = "finished" => HandleBuffer(c, ts, FALSE) = Respond(d, Answer(d.request))
  BY <1>8, <1>13 DEF HandleBuffer
<1>15. CASE n < 5
  <2>1. d.status \in {"headers", "content"}
    BY <1>5, <1>10, <1>11, <1>15 DEF At, Stage
  <2>2. PICK e : e = StartRead(d)
    OBVIOUS
  <2>3. Waits(e) /\ At(e, kind, n, m)
    BY <1>10, <1>11, <2>2, StartReadIs DEF Waits, Ops, At, Stage, Fresh
  <2>4. HandleBuffer(c, ts, FALSE) = e
    BY <1>14, <2>1, <2>2
  <2>5. k + Len(ts) # 5 /\ At(e, kind, k + Len(ts), m)
    BY <1>4, <1>15, <2>3
  <2>. QED BY <2>3, <2>4, <2>5
<1>16. CASE n = 5
  <2>1. d.status = "finished" /\ Fresh(d)
    BY <1>10, <1>11, <1>16 DEF At, Stage, Fresh
  <2>2. d.request \in Proper(m) /\ d.request \in RequestType
    <3>1. d.request \in RequestType
      BY <1>10, ConnFields DEF Sound
    <3>2. Req(d.request, m, {Own(m)}, 0) \/ Req(d.request, m, {Own(m)}, 2)
      BY <1>11, <1>16 DEF At, Stage
    <3>3. \A r \in RequestType : r = [of |-> r.of, headers |-> r.headers, payload |-> r.payload]
      BY DEF RequestType
    <3>. QED BY <3>1, <3>2, <3>3 DEF Req, Proper, Own
  <2>3. PICK e : e = Respond(d, Answer(d.request))
    OBVIOUS
  <2>4. /\ e.reads = 0 /\ e.writes = Append(<<>>, e.response) /\ e.written = 0 /\ e.left = <<>>
        /\ e.status = "finished" /\ Fresh(e) /\ e.response = Answer(d.request)
    <3>1. Answer(d.request) \in ResponseType
      BY <2>2, PageTypes
    <3>. QED BY <1>10, <2>1, <2>3, <3>1, RespondIs DEF Ops, Fresh
  <2>5. Responds(e, m)
    BY <2>2, <2>4 DEF Responds, Ops
  <2>6. HandleBuffer(c, ts, FALSE) = e
    BY <1>14, <2>1, <2>3
  <2>7. ~ (k + Len(ts) < 5)
    BY <1>4, <1>16
  <2>. QED BY <2>5, <2>6, <2>7
<1>. QED BY <1>4, <1>5, <1>15, <1>16

LEMMA HandleStartKeeps ==
  ASSUME NEW c, Sound(c)
  PROVE  /\ Sound(HandleStart(c))
         /\ Ops(c, 0, <<>>, 0) /\ c.left = <<>> /\ Fresh(c) =>
              Waits(HandleStart(c)) /\ Fresh(HandleStart(c))
<1>1. c \in ConnType
  BY DEF Sound
<1>2. PICK b : b = IF c.status \in {"failed", "finished"}
                   THEN [c EXCEPT !.request = NoRequest, !.status = "finished"] ELSE c
  OBVIOUS
<1>3. Sound(b) /\ b.reads = c.reads /\ b.writes = c.writes /\ b.written = c.written
      /\ b.left = c.left /\ b.lastWasValue = c.lastWasValue /\ b.header = c.header
  <2>1. CASE c.status \in {"failed", "finished"}
    BY <1>1, <1>2, <2>1, NothingTypes DEF Sound, ConnType, Statuses
  <2>2. CASE c.status \notin {"failed", "finished"}
    BY <1>2, <2>2
  <2>. QED BY <2>1, <2>2
<1>4. PICK d : d = [b EXCEPT !.response = Page("none")]
  OBVIOUS
<1>5. Sound(d) /\ d.reads = c.reads /\ d.writes = c.writes /\ d.written = c.written
      /\ d.left = c.left /\ d.lastWasValue = c.lastWasValue /\ d.header = c.header
  <2>1. Page("none") \in ResponseType
    BY PageTypes
  <2>. QED BY <1>3, <1>4, <2>1 DEF Sound, ConnType
<1>6. HandleStart(c) = IF d.left # <<>> THEN HandleBuffer(d, d.left, TRUE) ELSE StartRead(d)
  BY <1>2, <1>4 DEF HandleStart, ParserReset
<1>7. Sound(HandleStart(c))
  <2>1. d.left \in Seq(Token)
    BY <1>5, ConnFields DEF Sound
  <2>. QED BY <1>5, <1>6, <2>1, HandleBufferKeeps, StartReadIs
<1>8. ASSUME Ops(c, 0, <<>>, 0), c.left = <<>>, Fresh(c)
      PROVE  Waits(HandleStart(c)) /\ Fresh(HandleStart(c))
  <2>1. HandleStart(c) = StartRead(d)
    BY <1>5, <1>6, <1>8
  <2>2. PICK e : e = StartRead(d)
    OBVIOUS
  <2>3. Waits(e) /\ Fresh(e)
    BY <1>5, <1>8, <2>2, StartReadIs DEF Waits, Ops, Fresh
  <2>. QED BY <2>1, <2>2, <2>3
<1>. QED BY <1>7, <1>8

-----------------------------------------------------------------------------
(* The messages. *)
AnyKind == {"get", "post", "expect", "expect other", "crlf", "upgrade", "bad name", "bad value"}

LEMMA ScriptTypes == \A kind \in AnyKind : Script(kind) \in Seq(TokenKinds)
<1>1. /\ Script("get") \in Seq(TokenKinds) /\ Script("post") \in Seq(TokenKinds)
      /\ Script("expect") \in Seq(TokenKinds) /\ Script("expect other") \in Seq(TokenKinds)
  BY DEF Script, TokenKinds
<1>2. /\ Script("crlf") \in Seq(TokenKinds) /\ Script("upgrade") \in Seq(TokenKinds)
      /\ Script("bad name") \in Seq(TokenKinds) /\ Script("bad value") \in Seq(TokenKinds)
  BY DEF Script, TokenKinds
<1>. QED BY <1>1, <1>2 DEF AnyKind

LEMMA TokensAre ==
  ASSUME NEW kind \in AnyKind, NEW m \in Message
  PROVE  /\ Tokens(m, kind) \in Seq(Token) /\ Len(Tokens(m, kind)) = Len(Script(kind))
         /\ \A i \in 1..Len(Script(kind)) :
              Tokens(m, kind)[i].of = m /\ Tokens(m, kind)[i].is = Script(kind)[i]
<1>1. PICK s \in Seq(TokenKinds) : s = Script(kind)
  BY ScriptTypes
<1>2. Len(s) \in Nat /\ DOMAIN s = 1..Len(s) /\ \A i \in 1..Len(s) : s[i] \in TokenKinds
  OBVIOUS
<1>3. PICK t : t = [i \in 1..Len(s) |-> [of |-> m, is |-> s[i]]]
  OBVIOUS
<1>4. t = Tokens(m, kind)
  BY <1>1, <1>2, <1>3, Zenon DEF Tokens
<1>5. \A i \in 1..Len(s) : t[i] \in Token /\ t[i].of = m /\ t[i].is = s[i]
  BY <1>2, <1>3 DEF Token
<1>6. t \in [1..Len(s) -> Token]
  BY <1>3, <1>5
<1>7. t \in Seq(Token) /\ Len(t) = Len(s)
  <2>1. t \in Seq(Token)
    BY <1>2, <1>6, SeqDef, Zenon
  <2>2. DOMAIN t = 1..Len(s)
    BY <1>6
  <2>. QED BY <1>2, <2>1, <2>2, LenProperties
<1>. QED BY <1>1, <1>4, <1>5, <1>7

-----------------------------------------------------------------------------
(* Between its messages an orderly client waits, so that the connection is *)
(* always at one thing: it reads the rest of a message, ...                *)
Rest(kind, k) == Piece(wire, kind, k, sent) /\ k + Len(wire) = 5
Between == sent = Len(answers) /\ wire = <<>>

Reading ==
  /\ Waits(conn)
  /\ ~broken => \/ Between /\ Fresh(conn)
                \/ /\ sent = Len(answers) + 1 /\ sent \in Message
                   /\ \E kind \in {"get", "post"}, k \in 0..4 :
                        Rest(kind, k) /\ At(conn, kind, k, sent)

(* ... writes the response to it, ...                                      *)
Writing ==
  /\ Responds(conn, sent)
  /\ ~broken => sent = Len(answers) + 1 /\ wire = <<>>

(* ... or has written it, and the next message may have been sent, ...     *)
Written ==
  /\ Ops(conn, 0, <<>>, 1) /\ conn.left = <<>> /\ Fresh(conn)
  /\ ~broken => \/ Between
                \/ /\ sent = Len(answers) + 1 /\ sent \in Message
                   /\ \E kind \in {"get", "post"} : Rest(kind, 0)

(* ... until the client has gone.                                          *)
Ended == broken /\ Ops(conn, 0, <<>>, 0)

HttpTypes ==
  /\ orderly \in BOOLEAN /\ broken \in BOOLEAN /\ sent \in 0..MaxMessages
  /\ wire \in Seq(Token) /\ answers \in Seq(ResponseType) /\ Sound(conn)

Dialogue == orderly => Reading \/ Writing \/ Written \/ Ended

HttpInv == HttpTypes /\ Dialogue /\ AnswersMatch

LEMMA HttpStart == HttpInit => HttpInv
<1>. SUFFICES ASSUME HttpInit PROVE HttpInv
  OBVIOUS
<1>1. <<>> \in Seq(Token) /\ <<>> \in Seq(ResponseType) /\ Len(<<>>) = 0 /\ DOMAIN <<>> = {}
  BY EmptySeq
<1>2. PICK c : c = NewConnection
  OBVIOUS
<1>3. Sound(c) /\ Ops(c, 0, <<>>, 0) /\ c.left = <<>> /\ Fresh(c)
  <2>1. Page("none") \in ResponseType
    BY PageTypes
  <2>. QED BY <1>1, <1>2, <2>1, NothingTypes
       DEF NewConnection, Sound, ConnType, Statuses, Ops, Fresh
<1>4. Sound(conn) /\ Waits(conn) /\ Fresh(conn)
  BY <1>2, <1>3, HandleStartKeeps DEF HttpInit
<1>5. orderly \in BOOLEAN /\ broken = FALSE /\ sent = 0 /\ wire = <<>> /\ answers = <<>>
  BY DEF HttpInit
<1>6. HttpTypes
  <2>1. 0 \in 0..MaxMessages
    BY HttpBounds
  <2>2. sent \in 0..MaxMessages /\ wire \in Seq(Token) /\ answers \in Seq(ResponseType)
    BY <1>1, <1>5, <2>1, Zenon
  <2>. QED BY <1>4, <1>5, <2>2 DEF HttpTypes
<1>7. Dialogue
  BY <1>1, <1>4, <1>5 DEF Dialogue, Reading, Between
<1>8. AnswersMatch
  BY <1>1, <1>5 DEF AnswersMatch
<1>. QED BY <1>6, <1>7, <1>8 DEF HttpInv

LEMMA AnswersStay ==
  ASSUME AnswersMatch, UNCHANGED <<orderly, answers>>
  PROVE  AnswersMatch'
  BY DEF AnswersMatch, Proper, Answer

LEMMA ClientSendStep ==
  ASSUME HttpInv, NEW kind \in Kinds, ClientSend(kind)
  PROVE  HttpInv'
<1>1. /\ sent' = sent + 1 /\ sent < MaxMessages /\ ~broken
      /\ orderly => Len(answers) >= sent
      /\ UNCHANGED <<orderly, broken, answers, conn>>
  BY DEF ClientSend
<1>2. PICK m \in Message : m = sent' /\ sent' \in 0..MaxMessages /\ sent \in Nat
  BY <1>1, HttpBounds DEF HttpInv, HttpTypes, Message
<1>3. PICK t : t = Tokens(m, kind)
  OBVIOUS
<1>4. kind \in AnyKind
  BY DEF Kinds, AnyKind
<1>5. /\ t \in Seq(Token) /\ Len(t) = Len(Script(kind))
      /\ \A i \in 1..Len(Script(kind)) : t[i].of = m /\ t[i].is = Script(kind)[i]
  BY <1>3, <1>4, TokensAre
<1>6. wire' = wire \o t
  BY <1>2, <1>3 DEF ClientSend
<1>7. wire \in Seq(Token) /\ answers \in Seq(ResponseType) /\ Len(answers) \in Nat /\ Sound(conn)
  BY DEF HttpInv, HttpTypes
<1>8. wire' \in Seq(Token)
  BY <1>5, <1>6, <1>7, ConcatProperties
<1>9. HttpTypes'
  BY <1>1, <1>2, <1>8 DEF HttpInv, HttpTypes, Sound
<1>10. ASSUME orderly PROVE (Reading \/ Written)'
  <2>1. kind \in {"get", "post"}
    BY <1>10 DEF Kinds
  <2>2. sent # Len(answers) + 1
    BY <1>1, <1>2, <1>7, <1>10
  <2>3. Between /\ ((Reading /\ Fresh(conn)) \/ Written)
    BY <1>1, <1>10, <2>2 DEF HttpInv, Dialogue, Reading, Writing, Written, Ended
  <2>4. wire' = t
    BY <1>5, <1>6, <2>3, ConcatEmptySeq DEF Between
  <2>5. Len(t) = 5 /\ \A i \in 1..5 : t[i].of = m /\ t[i].is = Script(kind)[i]
    BY <1>5, <2>1, Scripts
  <2>6. Piece(t, kind, 0, m) /\ 0 + Len(t) = 5
    <3>1. \A i \in 1..5 : 0 + i = i
      OBVIOUS
    <3>. QED BY <1>5, <2>5, <3>1 DEF Piece
  <2>7. Rest(kind, 0)'
    BY <1>2, <2>4, <2>6 DEF Rest, Piece
  <2>8. sent' = Len(answers) + 1 /\ sent' \in Message
    BY <1>1, <1>2, <2>3 DEF Between
  <2>9. CASE Reading /\ Fresh(conn)
    <3>1. Waits(conn)' /\ At(conn', kind, 0, sent')
      BY <1>1, <2>9 DEF Reading, Waits, Ops, At, Fresh
    <3>2. 0 \in 0..4
      OBVIOUS
    <3>. QED BY <1>1, <2>1, <2>7, <2>8, <3>1, <3>2 DEF Reading, Rest
  <2>10. CASE Written
    BY <1>1, <2>1, <2>7, <2>8, <2>10 DEF Written, Ops, Fresh
  <2>. QED BY <2>3, <2>9, <2>10
<1>11. Dialogue'
  BY <1>1, <1>10 DEF Dialogue
<1>12. AnswersMatch'
  BY <1>1, AnswersStay DEF HttpInv
<1>. QED BY <1>9, <1>11, <1>12 DEF HttpInv

LEMMA HangUpStep ==
  ASSUME HttpInv, HangUp
  PROVE  HttpInv'
<1>1. broken' = TRUE /\ wire' = <<>> /\ UNCHANGED <<orderly, sent, answers, conn>>
  BY DEF HangUp
<1>2. <<>> \in Seq(Token)
  BY EmptySeq
<1>3. HttpTypes'
  BY <1>1, <1>2 DEF HttpInv, HttpTypes, Sound
<1>4. Reading => Reading'
  BY <1>1 DEF Reading, Waits, Ops
<1>5. Writing => Writing'
  BY <1>1 DEF Writing, Responds, Ops, Fresh, Proper
<1>6. Written => Written'
  BY <1>1 DEF Written, Ops, Fresh
<1>7. Ended => Ended'
  BY <1>1 DEF Ended, Ops
<1>8. Dialogue'
  BY <1>1, <1>4, <1>5, <1>6, <1>7 DEF HttpInv, Dialogue
<1>9. AnswersMatch'
  BY <1>1, AnswersStay DEF HttpInv
<1>. QED BY <1>3, <1>8, <1>9 DEF HttpInv

LEMMA HandleReadStep ==
  ASSUME HttpInv, NEW n \in 1..Len(wire), HandleRead(n)
  PROVE  HttpInv'
<1>1. ~broken /\ conn.reads > 0 /\ UNCHANGED <<orderly, sent, broken, answers>>
  BY DEF HandleRead
<1>2. wire \in Seq(Token) /\ Len(wire) \in Nat /\ Sound(conn) /\ conn \in ConnType
  BY DEF HttpInv, HttpTypes, Sound
<1>3. PICK ts : ts = SubSeq(wire, 1, n)
  OBVIOUS
<1>4. PICK c : c = [conn EXCEPT !.reads = @ - 1, !.readInProgress = FALSE]
  OBVIOUS
<1>5. conn' = HandleBuffer(c, ts, FALSE)
  BY <1>3, <1>4 DEF HandleRead
<1>6. ts \in Seq(Token) /\ Len(ts) = n /\ \A i \in 1..n : ts[i] = wire[i]
  <2>1. \A i \in 1..n : i \in 1..Len(wire)
    BY <1>2
  <2>2. /\ ts \in Seq(Token) /\ Len(ts) = IF 1 <= n THEN n - 1 + 1 ELSE 0
        /\ \A i \in 1..(n - 1 + 1) : ts[i] = wire[1 + i - 1]
    BY <1>2, <1>3, <2>1, SubSeqProperties
  <2>. QED BY <2>2
<1>7. PICK ws : ws = SubSeq(wire, n + 1, Len(wire))
  OBVIOUS
<1>8. /\ ws \in Seq(Token) /\ Len(ws) = Len(wire) - n
      /\ \A i \in 1..(Len(wire) - n) : ws[i] = wire[n + i]
  <2>1. \A i \in (n + 1)..Len(wire) : i \in 1..Len(wire)
    BY <1>2
  <2>2. /\ ws \in Seq(Token)
        /\ Len(ws) = IF n + 1 <= Len(wire) THEN Len(wire) - (n + 1) + 1 ELSE 0
        /\ \A i \in 1..(Len(wire) - (n + 1) + 1) : ws[i] = wire[(n + 1) + i - 1]
    BY <1>2, <1>7, <2>1, SubSeqProperties
  <2>3. Len(wire) - (n + 1) + 1 = Len(wire) - n
    BY <1>2
  <2>4. Len(ws) = Len(wire) - n
    BY <1>2, <2>2
  <2>5. \A i \in 1..(Len(wire) - n) : (n + 1) + i - 1 = n + i
    BY <1>2
  <2>6. \A i \in 1..(Len(wire) - n) : ws[i] = wire[(n + 1) + i - 1]
    BY <2>2, <2>3
  <2>7. \A i \in 1..(Len(wire) - n) : ws[i] = wire[n + i]
    BY <2>5, <2>6
  <2>. QED BY <2>2, <2>4, <2>7
<1>9. wire' = ws
  BY <1>7 DEF HandleRead
<1>10. conn.reads = 1
  BY <1>1, <1>2 DEF Sound
<1>11. /\ Sound(c) /\ c.reads = 0 /\ c.writes = conn.writes /\ c.written = conn.written
       /\ c.parsed = conn.parsed /\ c.lastWasValue = conn.lastWasValue /\ c.header = conn.header
       /\ c.request = conn.request /\ c.left = conn.left
  <2>1. PICK r : r = conn.reads - 1
    OBVIOUS
  <2>2. r = 0
    BY <1>10, <2>1
  <2>3. c = [conn EXCEPT !.reads = r, !.readInProgress = FALSE]
    BY <1>2, <1>4, <2>1 DEF ConnType
  <2>4. c \in ConnType /\ c.reads = 0 /\ c.readInProgress = FALSE
    BY <1>2, <2>2, <2>3 DEF ConnType
  <2>5. /\ c.writes = conn.writes /\ c.written = conn.written
        /\ c.parsed = conn.parsed /\ c.lastWasValue = conn.lastWasValue /\ c.header = conn.header
        /\ c.request = conn.request /\ c.left = conn.left
    BY <1>2, <2>3 DEF ConnType
  <2>. QED BY <2>4, <2>5 DEF Sound
<1>12. Sound(conn')
  BY <1>5, <1>6, <1>11, HandleBufferKeeps
<1>13. HttpTypes'
  BY <1>1, <1>8, <1>9, <1>12 DEF HttpInv, HttpTypes, Sound
<1>14. ASSUME orderly PROVE (Reading \/ Writing)'
  <2>1. Reading
    BY <1>1, <1>10, <1>14 DEF HttpInv, Dialogue, Writing, Responds, Written, Ended, Ops
  <2>2. wire # <<>>
    <3>1. Len(wire) # 0
      BY <1>2
    <3>. QED BY <3>1, EmptySeq
  <2>3. sent = Len(answers) + 1 /\ sent \in Message
    BY <1>1, <2>1, <2>2 DEF Reading, Between
  <2>4. PICK kind \in {"get", "post"}, k \in 0..4 : Rest(kind, k) /\ At(conn, kind, k, sent)
    BY <1>1, <2>1, <2>2 DEF Reading, Between
  <2>5. Ops(c, 0, <<>>, 0) /\ At(c, kind, k, sent)
    BY <1>11, <2>1, <2>4 DEF Reading, Waits, Ops, At, Stage, Fresh
  <2>6. k + Len(wire) = 5 /\ \A i \in 1..Len(wire) : wire[i].of = sent /\ wire[i].is = Script(kind)[k + i]
    BY <2>4 DEF Rest, Piece
  <2>7. Piece(ts, kind, k, sent) /\ Len(ts) > 0
    <3>1. k + n <= 5 /\ n > 0 /\ \A i \in 1..n : i \in 1..Len(wire)
      BY <1>2, <2>6
    <3>. QED BY <1>6, <2>6, <3>1 DEF Piece
  <2>8. PICK d : d = HandleBuffer(c, ts, FALSE)
    OBVIOUS
  <2>9. /\ k + n < 5 => Waits(d) /\ At(d, kind, k + n, sent)
        /\ k + n = 5 => Responds(d, sent)
    BY <1>6, <1>11, <2>3, <2>5, <2>7, <2>8, HandleBufferStage
  <2>10. conn' = d
    BY <1>5, <2>8
  <2>11. CASE k + n < 5
    <3>1. k + n \in 0..4 /\ (k + n) + Len(ws) = 5
      BY <1>2, <1>8, <2>6, <2>11
    <3>2. \A i \in 1..Len(ws) : ws[i].of = sent /\ ws[i].is = Script(kind)[(k + n) + i]
      <4>1. \A i \in 1..Len(ws) : n + i \in 1..Len(wire) /\ k + (n + i) = (k + n) + i
        BY <1>2, <1>8
      <4>. QED BY <1>8, <2>6, <4>1
    <3>3. Piece(ws, kind, k + n, sent)
      <4>1. (k + n) + Len(ws) <= 5
        BY <3>1
      <4>. QED BY <1>8, <3>2, <4>1 DEF Piece
    <3>4. Rest(kind, k + n)'
      BY <1>1, <1>9, <3>1, <3>3 DEF Rest, Piece
    <3>5. Waits(conn)' /\ At(conn, kind, k + n, sent)'
      BY <1>1, <2>9, <2>10, <2>11 DEF Waits, Ops, At, Stage, Fresh
    <3>6. sent' = Len(answers)' + 1 /\ sent' \in Message
      BY <1>1, <2>3
    <3>. QED BY <3>1, <3>4, <3>5, <3>6 DEF Reading
  <2>12. CASE k + n = 5
    <3>1. Responds(conn', sent')
      BY <1>1, <2>9, <2>10, <2>12
    <3>2. Len(ws) = 0
      BY <1>2, <1>8, <2>6, <2>12
    <3>3. wire' = <<>>
      BY <1>8, <1>9, <3>2, EmptySeq
    <3>. QED BY <1>1, <2>3, <3>1, <3>3 DEF Writing, Responds, Ops, Fresh, Proper
  <2>13. k + n <= 5
    BY <1>2, <2>6
  <2>. QED BY <2>11, <2>12, <2>13
<1>15. Dialogue'
  BY <1>1, <1>14 DEF Dialogue
<1>16. AnswersMatch'
  BY <1>1, AnswersStay DEF HttpInv
<1>. QED BY <1>13, <1>15, <1>16 DEF HttpInv

LEMMA WriteStep ==
  ASSUME HttpInv, Write
  PROVE  HttpInv'
<1>1. /\ ~broken /\ conn.writes # <<>> /\ UNCHANGED <<orderly, sent, wire, broken>>
  BY DEF Write
<1>2. /\ answers \in Seq(ResponseType) /\ Sound(conn) /\ conn \in ConnType
      /\ conn.writes \in Seq(ResponseType) /\ conn.written \in Nat /\ conn.response \in ResponseType
  BY ConnFields DEF HttpInv, HttpTypes, Sound
<1>3. PICK r : r = IF conn.response = Head(conn.writes) THEN conn.response ELSE Page("garbage")
  OBVIOUS
<1>4. answers' = Append(answers, r) /\ r \in ResponseType
  BY <1>2, <1>3, PageTypes DEF Write
<1>5. PICK a : a = Append(answers, r)
  OBVIOUS
<1>6. /\ a \in Seq(ResponseType) /\ Len(a) = Len(answers) + 1 /\ a[Len(answers) + 1] = r
      /\ \A i \in 1..Len(answers) : a[i] = answers[i]
  BY <1>2, <1>4, <1>5, AppendProperties
<1>7. PICK t, u : t = Tail(conn.writes) /\ u = conn.written + 1
  OBVIOUS
<1>8. t \in Seq(ResponseType) /\ u \in Nat
  BY <1>1, <1>2, <1>7, HeadTailProperties
<1>9. conn' = [conn EXCEPT !.writes = t, !.written = u]
  BY <1>2, <1>7 DEF Write, ConnType
<1>10. /\ Sound(conn') /\ conn'.reads = conn.reads /\ conn'.writes = t /\ conn'.written = u
       /\ conn'.left = conn.left /\ conn'.lastWasValue = conn.lastWasValue
       /\ conn'.header = conn.header
  BY <1>2, <1>8, <1>9 DEF Sound, ConnType
<1>11. HttpTypes'
  BY <1>1, <1>4, <1>5, <1>6, <1>10 DEF HttpInv, HttpTypes
<1>12. ASSUME orderly PROVE Writing /\ Written'
  <2>1. Writing
    BY <1>1, <1>12 DEF HttpInv, Dialogue, Reading, Waits, Written, Ended, Ops
  <2>2. conn.writes = <<conn.response>> /\ conn.written = 0 /\ conn.reads = 0 /\ conn.left = <<>>
        /\ Fresh(conn)
    BY <2>1 DEF Writing, Responds, Ops
  <2>3. t = <<>> /\ u = 1
    BY <1>7, <2>2
  <2>4. sent = Len(answers) + 1 /\ wire = <<>>
    BY <1>1, <2>1 DEF Writing
  <2>5. Between'
    BY <1>1, <1>4, <1>5, <1>6, <2>4 DEF Between
  <2>6. Ops(conn', 0, <<>>, 1) /\ conn'.left = <<>> /\ Fresh(conn')
    BY <1>10, <2>2, <2>3 DEF Ops, Fresh
  <2>. QED BY <2>1, <2>5, <2>6 DEF Written, Ops, Fresh
<1>13. Dialogue'
  BY <1>1, <1>12 DEF Dialogue
<1>14. AnswersMatch'
  <2>. SUFFICES ASSUME orderly', NEW i \in DOMAIN answers'
                PROVE  answers'[i] \in {Answer(request) : request \in Proper(i)}
    BY DEF AnswersMatch, Proper, Answer
  <2>1. orderly
    BY <1>1
  <2>2. DOMAIN answers = 1..Len(answers) /\ Len(answers) \in Nat
    BY <1>2
  <2>3. answers' = a /\ DOMAIN a = 1..(Len(answers) + 1)
    BY <1>4, <1>5, <1>6
  <2>4. CASE i \in DOMAIN answers
    BY <1>6, <2>1, <2>2, <2>3, <2>4 DEF HttpInv, AnswersMatch
  <2>5. CASE i = Len(answers) + 1
    <3>1. Responds(conn, sent) /\ sent = i
      BY <1>1, <1>12, <2>1, <2>5 DEF Writing
    <3>2. conn.response = Head(conn.writes)
      BY <3>1 DEF Responds, Ops
    <3>3. r = conn.response
      BY <1>3, <3>2
    <3>. QED BY <1>6, <2>3, <2>5, <3>1, <3>3 DEF Responds
  <2>. QED BY <2>2, <2>3, <2>4, <2>5
<1>. QED BY <1>11, <1>13, <1>14 DEF HttpInv

LEMMA HandleWriteStep ==
  ASSUME HttpInv, HandleWrite
  PROVE  HttpInv'
<1>1. conn.written > 0 /\ UNCHANGED <<orderly, sent, wire, broken, answers>>
  BY DEF HandleWrite
<1>2. Sound(conn) /\ conn \in ConnType /\ conn.written \in Nat
  BY ConnFields DEF HttpInv, HttpTypes, Sound
<1>3. PICK u \in Nat : u = conn.written - 1
  BY <1>1, <1>2
<1>4. PICK c : c = [conn EXCEPT !.written = u]
  OBVIOUS
<1>5. conn' = HandleStart(c)
  BY <1>2, <1>3, <1>4 DEF HandleWrite, ConnType
<1>6. /\ Sound(c) /\ c.reads = conn.reads /\ c.writes = conn.writes /\ c.written = u
      /\ c.left = conn.left /\ c.lastWasValue = conn.lastWasValue /\ c.header = conn.header
  BY <1>2, <1>3, <1>4 DEF Sound, ConnType
<1>7. HttpTypes'
  BY <1>1, <1>5, <1>6, HandleStartKeeps DEF HttpInv, HttpTypes
<1>8. ASSUME orderly PROVE Reading'
  <2>1. Written
    BY <1>1, <1>8 DEF HttpInv, Dialogue, Reading, Waits, Writing, Responds, Ended, Ops
  <2>2. Ops(c, 0, <<>>, 0) /\ c.left = <<>> /\ Fresh(c)
    BY <1>3, <1>6, <2>1 DEF Written, Ops, Fresh
  <2>3. Waits(conn') /\ Fresh(conn')
    BY <1>5, <1>6, <2>2, HandleStartKeeps
  <2>4. ~broken => \/ Between
                   \/ /\ sent = Len(answers) + 1 /\ sent \in Message
                      /\ \E kind \in {"get", "post"} : Rest(kind, 0)
    BY <2>1 DEF Written
  <2>5. Between => Between'
    BY <1>1 DEF Between
  <2>6. \A kind \in {"get", "post"} : Rest(kind, 0) => Rest(kind, 0)' /\ At(conn, kind, 0, sent)'
    BY <1>1, <2>3 DEF Rest, Piece, At, Fresh
  <2>7. Waits(conn)' /\ Fresh(conn)'
    BY <2>3 DEF Waits, Ops, Fresh
  <2>8. 0 \in 0..4
    OBVIOUS
  <2>. QED BY <1>1, <2>4, <2>5, <2>6, <2>7, <2>8 DEF Reading
<1>9. Dialogue'
  BY <1>1, <1>8 DEF Dialogue
<1>10. AnswersMatch'
  BY <1>1, AnswersStay DEF HttpInv
<1>. QED BY <1>7, <1>9, <1>10 DEF HttpInv

LEMMA HandleErrorStep ==
  ASSUME HttpInv, HandleError
  PROVE  HttpInv'
<1>1. broken /\ UNCHANGED <<orderly, sent, wire, broken, answers>>
  BY DEF HandleError
<1>2. Sound(conn) /\ conn \in ConnType /\ conn.writes \in Seq(ResponseType)
  BY ConnFields DEF HttpInv, HttpTypes, Sound
<1>3. AnswersMatch'
  BY <1>1, AnswersStay DEF HttpInv
<1>4. CASE conn.reads > 0 /\ conn' = [conn EXCEPT !.reads = @ - 1, !.readInProgress = FALSE]
  <2>1. conn.reads = 1
    BY <1>2, <1>4 DEF Sound
  <2>2. PICK r : r = conn.reads - 1
    OBVIOUS
  <2>3. r = 0 /\ conn' = [conn EXCEPT !.reads = r, !.readInProgress = FALSE]
    BY <1>2, <1>4, <2>1, <2>2 DEF ConnType
  <2>4. Sound(conn') /\ conn'.reads = 0 /\ conn'.writes = conn.writes /\ conn'.written = conn.written
    <3>1. conn' \in ConnType /\ conn'.reads = 0 /\ conn'.readInProgress = FALSE
      BY <1>2, <2>3 DEF ConnType
    <3>2. conn'.writes = conn.writes /\ conn'.written = conn.written
      BY <1>2, <2>3 DEF ConnType
    <3>. QED BY <3>1, <3>2 DEF Sound
  <2>5. HttpTypes'
    BY <1>1, <2>4 DEF HttpInv, HttpTypes
  <2>6. orderly => Ended'
    <3>1. orderly => Reading
      BY <2>1 DEF HttpInv, Dialogue, Writing, Responds, Written, Ended, Ops
    <3>. QED BY <1>1, <2>4, <3>1 DEF Reading, Waits, Ended, Ops
  <2>7. Dialogue'
    BY <1>1, <2>6 DEF Dialogue
  <2>. QED BY <1>3, <2>5, <2>7 DEF HttpInv
<1>5. CASE conn.writes # <<>> /\ conn' = [conn EXCEPT !.writes = Tail(@)]
  <2>1. PICK t : t = Tail(conn.writes)
    OBVIOUS
  <2>2. t \in Seq(ResponseType)
    BY <1>2, <1>5, <2>1, HeadTailProperties
  <2>3. conn' = [conn EXCEPT !.writes = t]
    BY <1>2, <1>5, <2>1 DEF ConnType
  <2>4. Sound(conn') /\ conn'.reads = conn.reads /\ conn'.writes = t /\ conn'.written = conn.written
    BY <1>2, <2>2, <2>3 DEF Sound, ConnType
  <2>5. HttpTypes'
    BY <1>1, <2>4 DEF HttpInv, HttpTypes
  <2>6. orderly => Ended'
    <3>1. orderly => Writing
      BY <1>5 DEF HttpInv, Dialogue, Reading, Waits, Written, Ended, Ops
    <3>2. ASSUME Writing PROVE t = <<>> /\ conn.reads = 0 /\ conn.written = 0
      BY <2>1, <3>2 DEF Writing, Responds, Ops
    <3>. QED BY <1>1, <2>4, <3>1, <3>2 DEF Ended, Ops
  <2>7. Dialogue'
    BY <1>1, <2>6 DEF Dialogue
  <2>. QED BY <1>3, <2>5, <2>7 DEF HttpInv
<1>. QED BY <1>4, <1>5 DEF HandleError

LEMMA HttpSteps == HttpInv /\ [HttpNext]_httpVars => HttpInv'
<1>. SUFFICES ASSUME HttpInv, [HttpNext]_httpVars PROVE HttpInv'
  OBVIOUS
<1>1. ASSUME NEW kind \in Kinds, ClientSend(kind) PROVE HttpInv'
  BY <1>1, ClientSendStep
<1>2. ASSUME NEW n \in 1..Len(wire), HandleRead(n) PROVE HttpInv'
  BY <1>2, HandleReadStep
<1>3. CASE Write
  BY <1>3, WriteStep
<1>4. CASE HandleWrite
  BY <1>4, HandleWriteStep
<1>5. CASE HandleError
  BY <1>5, HandleErrorStep
<1>6. CASE HangUp
  BY <1>6, HangUpStep
<1>7. CASE UNCHANGED httpVars
  <2>1. UNCHANGED <<orderly, sent, wire, broken, answers, conn>>
    BY <1>7 DEF httpVars
  <2>2. HttpTypes'
    BY <2>1 DEF HttpInv, HttpTypes, Sound
  <2>3. AnswersMatch'
    BY <2>1, AnswersStay DEF HttpInv
  <2>4. Between' = Between /\ \A kind, k : Rest(kind, k)' = Rest(kind, k)
    BY <2>1 DEF Between, Rest, Piece
  <2>5. (Reading => Reading') /\ (Written => Written')
    BY <2>1, <2>4 DEF Reading, Written, Waits, Ops, Fresh, At, Stage
  <2>6. (Writing => Writing') /\ (Ended => Ended')
    BY <2>1 DEF Writing, Ended, Responds, Ops, Fresh, Proper
  <2>7. Dialogue'
    BY <2>1, <2>5, <2>6 DEF HttpInv, Dialogue
  <2>. QED BY <2>2, <2>3, <2>7 DEF HttpInv
<1>. QED BY <1>1, <1>2, <1>3, <1>4, <1>5, <1>6, <1>7 DEF HttpNext

LEMMA HttpInvariance == HttpSpec => []HttpInv
  BY HttpStart, HttpSteps, PTL DEF HttpSpec

(* Every reachable state of the connection and its parser is well typed.   *)
THEOREM HttpTypeCorrect == HttpSpec => []HttpTypeOK
<1>1. HttpInv => HttpTypeOK
  <2>. SUFFICES ASSUME HttpInv PROVE HttpTypeOK
    OBVIOUS
  <2>1. Sound(conn) /\ conn \in ConnType
    BY DEF HttpInv, HttpTypes, Sound
  <2>2. conn.header.from \subseteq Message /\ conn.request.of \in Message \cup {NOBODY}
    BY <2>1, ConnFields DEF Header, RequestType
  <2>. QED BY <2>1, <2>2, ConnFields DEF HttpInv, HttpTypes, HttpTypeOK, Sound, Statuses
<1>. QED BY <1>1, HttpInvariance, PTL

(* Whatever clients send and however it is cut up, no two reads ever fill  *)
(* the buffer of a connection; and with an orderly client exactly one      *)
(* operation is under way until it goes (HttpConnection::startRead).       *)
THEOREM OneAtATime == HttpSpec => []OneOperation
<1>1. HttpInv => OneOperation
  <2>. SUFFICES ASSUME HttpInv PROVE OneOperation
    OBVIOUS
  <2>1. conn.reads <= 1
    BY DEF HttpInv, HttpTypes, Sound
  <2>2. \A r \in ResponseType : Len(<<r>>) = 1
    OBVIOUS
  <2>3. Len(<<>>) = 0
    BY EmptySeq
  <2>4. conn.response \in ResponseType
    BY ConnFields DEF HttpInv, HttpTypes, Sound
  <2>5. ASSUME orderly
        PROVE  \/ conn.reads + Len(conn.writes) + conn.written = 1
               \/ (broken /\ conn.reads + Len(conn.writes) + conn.written = 0)
    <3>1. CASE Reading
      BY <2>3, <3>1 DEF Reading, Waits, Ops
    <3>2. CASE Writing
      BY <2>2, <2>4, <3>2 DEF Writing, Responds, Ops
    <3>3. CASE Written
      BY <2>3, <3>3 DEF Written, Ops
    <3>4. CASE Ended
      BY <2>3, <3>4 DEF Ended, Ops
    <3>. QED BY <2>5, <3>1, <3>2, <3>3, <3>4 DEF HttpInv, Dialogue
  <2>. QED BY <2>1, <2>5 DEF OneOperation
<1>. QED BY <1>1, HttpInvariance, PTL

(* An orderly client gets the answer to each of its requests, in order,    *)
(* made for the headers and the body it has sent, wherever reads have cut  *)
(* them (HttpConnection::handleBuffer, HttpRequestParser).                 *)
THEOREM EveryRequestItsAnswer == HttpSpec => []AnswersMatch
  BY HttpInvariance, PTL DEF HttpInv

=============================================================================
