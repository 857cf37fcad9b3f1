------------------------ MODULE ServiceServerProofs ------------------------
(***************************************************************************)
(* The server, for any addresses, services, peers and number of handlers.  *)
(* Whatever the program does at the same time: the session a thread        *)
(* answers through is the one of the request it has taken, no listed       *)
(* handler has been deleted between two calls, and removeService takes     *)
(* what it should; and a thread meets a half made listener or a deleted    *)
(* handler in the list only inside the call that is making the change.     *)
(***************************************************************************)
EXTENDS ServiceServer, TLAPS, SequenceTheorems, WellFoundedInduction

(* A thread's state, whatever handler it has found.                        *)
State(r) ==
  r \in [pc : {r.pc}, peer : {r.peer}, addr : {r.addr}, found : {r.found}, reply : {r.reply}]

Typed ==
  /\ DOMAIN thread = Endpoints /\ \A e \in Endpoints : State(thread[e])
  /\ thread = [e \in Endpoints |-> thread[e]]
  /\ identity = [e \in Endpoints |-> identity[e]]
  /\ answer = [p \in Peer |-> answer[p]]

(* The session names the peer of the request that is carried out, or       *)
(* nobody, and the reply is made for that peer.                            *)
SessionPart(e) ==
  thread[e].pc # "recv" =>
    /\ identity[e] \in {thread[e].peer, NONE}
    /\ thread[e].pc = "reply" => thread[e].reply.for = thread[e].peer

IInv == Typed /\ (\A e \in Endpoints : SessionPart(e)) /\ AnswersBelong

-----------------------------------------------------------------------------
(* What the program and the senders do leaves threads and sessions alone.  *)
LEMMA Elsewhere ==
  ASSUME IInv, UNCHANGED threadVars, UNCHANGED answer
  PROVE  IInv'
  BY DEF IInv, Typed, SessionPart, AnswersBelong, threadVars

(* A thread that goes on to its next point, with the same request.         *)
LEMMA Advance ==
  ASSUME IInv, NEW e \in Endpoints, NEW r, State(r),
         thread' = [thread EXCEPT ![e] = r], UNCHANGED <<identity, answer>>,
         thread[e].pc # "recv", r.peer = thread[e].peer,
         r.pc = "reply" => r.reply.for = r.peer
  PROVE  IInv'
<1>1. Typed'
  BY DEF IInv, Typed
<1>2. thread'[e] = r /\ \A d \in Endpoints \ {e} : thread'[d] = thread[d]
  BY DEF IInv, Typed
<1>3. ASSUME NEW d \in Endpoints PROVE SessionPart(d)'
  <2>1. CASE d = e
    BY <1>2, <2>1 DEF IInv, SessionPart
  <2>2. CASE d # e
    BY <1>2, <2>2 DEF IInv, SessionPart
  <2>. QED BY <2>1, <2>2
<1>4. AnswersBelong'
  BY DEF IInv, AnswersBelong
<1>. QED BY <1>1, <1>3, <1>4 DEF IInv

(* A request is taken: its peer and the session are set together.          *)
LEMMA RecvStep ==
  ASSUME IInv, NEW e \in Endpoints, Recv(e)
  PROVE  IInv'
<1>1. CASE UNCHANGED <<thread, identity>>
  BY <1>1, Elsewhere DEF Recv, threadVars
<1>2. ASSUME NEW r,
             thread' = [thread EXCEPT ![e] =
                          [Waiting EXCEPT !.pc = "callback", !.peer = r.peer, !.addr = r.addr]],
             identity' = [identity EXCEPT ![e] = IF entries[e] = "http" THEN r.peer ELSE NONE]
      PROVE  IInv'
  <2>. DEFINE taken == [Waiting EXCEPT !.pc = "callback", !.peer = r.peer, !.addr = r.addr]
  <2>1. State(taken) /\ taken.pc = "callback" /\ taken.peer = r.peer
    BY DEF State, Waiting
  <2>2. thread' = [thread EXCEPT ![e] = taken]
    BY <1>2
  <2>. HIDE DEF taken
  <2>3. thread'[e] = taken /\ identity'[e] \in {r.peer, NONE}
    BY <1>2, <2>2 DEF IInv, Typed
  <2>4. \A d \in Endpoints \ {e} : thread'[d] = thread[d] /\ identity'[d] = identity[d]
    BY <1>2, <2>2 DEF IInv, Typed
  <2>5. answer' = answer
    BY DEF Recv
  <2>6. Typed'
    <3>1. DOMAIN thread' = Endpoints /\ thread' = [d \in Endpoints |-> thread'[d]]
      BY <2>2 DEF IInv, Typed
    <3>2. \A d \in Endpoints : State(thread'[d])
      BY <2>1, <2>3, <2>4 DEF IInv, Typed
    <3>3. identity' = [d \in Endpoints |-> identity'[d]]
      BY <1>2 DEF IInv, Typed
    <3>4. answer' = [p \in Peer |-> answer'[p]]
      BY <2>5 DEF IInv, Typed
    <3>. QED BY <3>1, <3>2, <3>3, <3>4 DEF Typed
  <2>7. ASSUME NEW d \in Endpoints PROVE SessionPart(d)'
    <3>1. CASE d = e
      BY <2>1, <2>3, <3>1 DEF SessionPart
    <3>2. CASE d # e
      BY <2>4, <3>2 DEF IInv, SessionPart
    <3>. QED BY <3>1, <3>2
  <2>8. AnswersBelong'
    BY <2>5 DEF IInv, AnswersBelong
  <2>. QED BY <2>6, <2>7, <2>8 DEF IInv
<1>. QED BY <1>1, <1>2 DEF Recv

(* The points between a request and its answer.                            *)
LEMMA PointStep ==
  ASSUME IInv, NEW e \in Endpoints, Callback(e) \/ Configured(e) \/ Find(e) \/ Call(e)
  PROVE  IInv'
<1>1. UNCHANGED <<identity, answer>> /\ thread[e].pc # "recv"
  BY DEF Callback, Configured, Find, Call, peerVars
<1>2. State(thread[e]) /\ DOMAIN thread = Endpoints
  BY DEF IInv, Typed
<1>3. PICK r : r = thread[e]
  OBVIOUS
<1>4. \A k : Answer(thread[e].peer, k).for = thread[e].peer
  BY DEF Answer
<1>5. ASSUME NEW p \in {"config", "find"}, thread' = [thread EXCEPT ![e].pc = p]
      PROVE  IInv'
  <2>1. PICK n : n = [r EXCEPT !.pc = p]
    OBVIOUS
  <2>2. State(n) /\ n.pc = p /\ n.peer = r.peer
    BY <1>2, <1>3, <2>1 DEF State
  <2>3. thread' = [thread EXCEPT ![e] = n]
    BY <1>3, <1>5, <2>1
  <2>. QED BY <1>1, <1>3, <2>2, <2>3, Advance
<1>6. ASSUME NEW f, thread' = [thread EXCEPT ![e].pc = "call", ![e].found = f]
      PROVE  IInv'
  <2>1. PICK n : n = [r EXCEPT !.pc = "call", !.found = f]
    OBVIOUS
  <2>2. State(n) /\ n.pc = "call" /\ n.peer = r.peer
    BY <1>2, <1>3, <2>1 DEF State
  <2>3. thread' = [thread EXCEPT ![e] = n]
    BY <1>2, <1>3, <1>6, <2>1
  <2>. QED BY <1>1, <1>3, <2>2, <2>3, Advance
<1>7. ASSUME NEW k, thread' = [thread EXCEPT ![e].pc = "reply",
                                            ![e].reply = Answer(thread[e].peer, k)]
      PROVE  IInv'
  <2>1. PICK n : n = [r EXCEPT !.pc = "reply", !.reply = Answer(thread[e].peer, k)]
    OBVIOUS
  <2>2. State(n) /\ n.pc = "reply" /\ n.peer = r.peer /\ n.reply.for = r.peer
    BY <1>2, <1>3, <1>4, <2>1 DEF State
  <2>3. thread' = [thread EXCEPT ![e] = n]
    BY <1>2, <1>3, <1>7, <2>1
  <2>. QED BY <1>1, <1>3, <2>2, <2>3, Advance
<1>8. CASE thread' = thread
  BY <1>1, <1>8, Elsewhere DEF threadVars
<1>9. CASE Callback(e)
  BY <1>5, <1>8, <1>9 DEF Callback
<1>10. CASE Configured(e)
  BY <1>7, <1>8, <1>10 DEF Configured
<1>11. CASE Find(e)
  BY <1>6, <1>7, <1>11 DEF Find
<1>12. CASE Call(e)
  BY <1>7, <1>8, <1>12 DEF Call
<1>. QED BY <1>9, <1>10, <1>11, <1>12

(* The answer goes to the peer it was made for.                            *)
LEMMA ReplyStep ==
  ASSUME IInv, NEW e \in Endpoints, Reply(e)
  PROVE  IInv'
<1>1. PICK p : p = IF identity[e] = NONE THEN thread[e].peer ELSE identity[e]
  OBVIOUS
<1>2. thread[e].reply.for = p
  BY <1>1 DEF Reply, IInv, SessionPart
<1>3. /\ thread' = [thread EXCEPT ![e] = Waiting] /\ identity' = identity
      /\ answer' = [answer EXCEPT ![p] = thread[e].reply] \/ answer' = answer
  BY <1>1 DEF Reply
<1>4. State(Waiting) /\ Waiting.pc = "recv"
  BY DEF Waiting, State
<1>5. Typed'
  BY <1>3, <1>4 DEF IInv, Typed
<1>6. ASSUME NEW d \in Endpoints PROVE SessionPart(d)'
  <2>1. CASE d = e
    BY <1>3, <1>4, <2>1 DEF IInv, Typed, SessionPart
  <2>2. CASE d # e
    <3>1. thread'[d] = thread[d]
      BY <1>3, <2>2 DEF IInv, Typed
    <3>. QED BY <1>3, <3>1 DEF IInv, SessionPart
  <2>. QED BY <2>1, <2>2
<1>7. AnswersBelong'
  <2>1. CASE answer' = answer
    BY <2>1 DEF IInv, AnswersBelong
  <2>2. CASE answer' = [answer EXCEPT ![p] = thread[e].reply]
    BY <1>2, <2>2 DEF IInv, Typed, AnswersBelong
  <2>. QED BY <1>3, <2>1, <2>2
<1>. QED BY <1>5, <1>6, <1>7 DEF IInv

(* A peer forgets its last answer when it asks again.                      *)
LEMMA SendStep ==
  ASSUME IInv, NEW p \in Peer, NEW a \in Addr, Send(p, a)
  PROVE  IInv'
<1>1. answer' = [answer EXCEPT ![p] = NONE] /\ UNCHANGED <<thread, identity>>
  BY DEF Send, threadVars
<1>2. Typed' /\ \A e \in Endpoints : SessionPart(e)'
  BY <1>1 DEF IInv, Typed, SessionPart
<1>3. AnswersBelong'
  BY <1>1 DEF IInv, Typed, AnswersBelong
<1>. QED BY <1>2, <1>3 DEF IInv

LEMMA Initial == Init => IInv
<1>. SUFFICES ASSUME Init PROVE IInv
  OBVIOUS
<1>1. State(Waiting) /\ Waiting.pc = "recv"
  BY DEF Waiting, State
<1>2. Typed
  BY <1>1 DEF Init, Typed
<1>3. \A e \in Endpoints : SessionPart(e)
  BY <1>1 DEF Init, SessionPart
<1>4. AnswersBelong
  BY DEF Init, AnswersBelong
<1>. QED BY <1>2, <1>3, <1>4 DEF IInv

(* The inductive invariant: the session names the peer of the request that *)
(* is carried out, or nobody.                                              *)
THEOREM Invariance == Spec => []IInv
<1>1. ASSUME IInv, [Next]_vars PROVE IInv'
  <2>1. ASSUME NEW a \in Addr \ {ConfigAddr}, NEW s \in Service, AddService(a, s) PROVE IInv'
    BY <1>1, <2>1, Elsewhere DEF AddService, peerVars
  <2>2. ASSUME NEW s \in Service, RemoveService(s) PROVE IInv'
    BY <1>1, <2>2, Elsewhere DEF RemoveService, peerVars
  <2>3. CASE FreeServer
    BY <1>1, <2>3, Elsewhere DEF FreeServer, peerVars
  <2>4. CASE AppStep
    BY <1>1, <2>4, Elsewhere
       DEF AppStep, Listen, InsertSession, SetUserData, Register, Replace, peerVars
  <2>5. ASSUME NEW e \in Endpoints, ThreadStep(e) PROVE IInv'
    BY <1>1, <2>5, RecvStep, PointStep, ReplyStep DEF ThreadStep
  <2>6. ASSUME NEW p \in Peer, NEW a \in Addr, Send(p, a) PROVE IInv'
    BY <1>1, <2>6, SendStep
  <2>7. CASE UNCHANGED vars
    BY <1>1, <2>7, Elsewhere DEF vars, peerVars
  <2>. QED BY <1>1, <2>1, <2>2, <2>3, <2>4, <2>5, <2>6, <2>7 DEF Next
<1>. QED BY Initial, <1>1, PTL DEF Spec

(* Whoever gets an answer asked for it, although the session of a listener *)
(* is shared by its peers and named anew by each request                   *)
(* (KT_Zeromq.cpp:223, Network.cpp:607).                                   *)
THEOREM AnswersGoBack == Spec => []AnswersBelong
<1>1. IInv => AnswersBelong
  BY DEF IInv
<1>. QED BY Invariance, <1>1, PTL

-----------------------------------------------------------------------------
(* A set of natural numbers has a least one: the induction of the proofs   *)
(* about recursive functions.                                              *)
LEMMA LeastOf ==
  ASSUME NEW T, T \subseteq Nat, T # {}
  PROVE  \E x \in T : \A y \in T : x <= y
<1>1. IsWellFoundedOn(OpToRel(<, Nat), Nat)
  BY NatLessThanWellFounded, Zenon
<1>2. PICK R : R = OpToRel(<, Nat)
  OBVIOUS
<1>3. \E x \in T : \A y \in T : ~ (<<y, x>> \in R)
  BY <1>1, <1>2, WFMin, Zenon
<1>4. \A x, y \in Nat : <<y, x>> \in R <=> y < x
  BY <1>2, Zenon DEF OpToRel
<1>5. \A x, y \in Nat : ~ (y < x) => x <= y
  OBVIOUS
<1>6. \A x, y \in T : ~ (<<y, x>> \in R) => x <= y
  BY <1>4, <1>5
<1>. QED BY <1>3, <1>6

(* The walk of removeService: what it has made of the vector at step i.    *)
WalkStep(m, i, s) == IF m.slots[i].service = s THEN EraseAt(m, i) ELSE m
Walk(w, n, v, s) ==
  [i \in 0..n |-> IF i = 0 THEN [slots |-> v, size |-> Len(v)] ELSE WalkStep(w[i - 1], i, s)]

LEMMA WalkExists ==
  ASSUME NEW v, NEW s, NEW n \in Nat
  PROVE  \E w : w = Walk(w, n, v, s)
<1>. DEFINE T == {k \in 0..n : ~ \E w : w = Walk(w, k, v, s)}
<1>1. SUFFICES ASSUME T # {} PROVE FALSE
  OBVIOUS
<1>2. PICK k \in T : \A j \in T : k <= j
  <2>1. T \subseteq Nat
    OBVIOUS
  <2>. HIDE DEF T
  <2>. QED BY <1>1, <2>1, LeastOf
<1>3. CASE k = 0
  <2>1. PICK w : w = [i \in 0..0 |-> [slots |-> v, size |-> Len(v)]]
    OBVIOUS
  <2>2. w = Walk(w, 0, v, s)
    BY <2>1 DEF Walk
  <2>. QED BY <1>2, <1>3, <2>2
<1>4. CASE k # 0
  <2>1. k - 1 \in 0..n /\ k - 1 \notin T /\ k \in 0..n
    BY <1>2, <1>4
  <2>2. PICK w : w = Walk(w, k - 1, v, s)
    BY <2>1
  <2>3. PICK u : u = [i \in 0..k |-> IF i < k THEN w[i] ELSE WalkStep(w[k - 1], k, s)]
    OBVIOUS
  <2>4. \A i \in 0..k : u[i] = IF i = 0 THEN [slots |-> v, size |-> Len(v)]
                               ELSE WalkStep(u[i - 1], i, s)
    <3>. TAKE i \in 0..k
    <3>1. CASE i = 0
      <4>1. u[i] = w[0]
        BY <1>4, <2>1, <2>3, <3>1
      <4>2. 0 \in 0..(k - 1)
        BY <2>1
      <4>3. w[0] = [slots |-> v, size |-> Len(v)]
        BY <2>2, <4>2 DEF Walk
      <4>. QED BY <3>1, <4>1, <4>3
    <3>2. CASE i # 0 /\ i < k
      <4>1. i \in 0..(k - 1) /\ i - 1 \in 0..k /\ i - 1 < k
        BY <2>1, <3>2
      <4>2. w[i] = WalkStep(w[i - 1], i, s)
        BY <2>2, <3>2, <4>1 DEF Walk
      <4>3. u[i] = w[i] /\ u[i - 1] = w[i - 1]
        BY <2>3, <3>2, <4>1
      <4>. QED BY <3>2, <4>2, <4>3
    <3>3. CASE i = k
      <4>1. k - 1 \in 0..k /\ k - 1 < k /\ ~ (k < k)
        BY <2>1
      <4>2. u[k - 1] = w[k - 1] /\ u[k] = WalkStep(w[k - 1], k, s)
        BY <2>1, <2>3, <4>1
      <4>. QED BY <1>4, <3>3, <4>2
    <3>. QED BY <2>1, <3>1, <3>2, <3>3
  <2>5. u = Walk(u, k, v, s)
    BY <2>3, <2>4 DEF Walk
  <2>. QED BY <1>2, <2>5
<1>. QED BY <1>3, <1>4

LEMMA RemovedIs ==
  ASSUME NEW v, NEW s, Len(v) \in Nat
  PROVE  \E w : /\ w = Walk(w, Len(v), v, s)
                /\ Removed(v, s) = SubSeq(w[Len(v)].slots, 1, w[Len(v)].size)
<1>1. PICK w : w = CHOOSE x : x = Walk(x, Len(v), v, s)
  OBVIOUS
<1>2. Removed(v, s) = SubSeq(w[Len(v)].slots, 1, w[Len(v)].size)
  BY <1>1 DEF Removed, Walk, WalkStep
<1>3. w = Walk(w, Len(v), v, s)
  BY <1>1, WalkExists
<1>. QED BY <1>2, <1>3

(* The memory m after step n: what is in the vector are elements of v, no  *)
(* one twice.                                                              *)
Chosen(m, f, v) ==
  /\ f \in [1..m.size -> 1..Len(v)]
  /\ \A k \in 1..m.size : m.slots[k] = v[f[k]]
  /\ \A j, k \in 1..m.size : f[j] = f[k] => j = k

Memory(m, n, v) ==
  /\ m.size \in Nat /\ Len(v) - n <= m.size /\ m.size <= Len(v)
  /\ DOMAIN m.slots = 1..Len(v)
  /\ \E f : Chosen(m, f, v)

LEMMA EraseKeeps ==
  ASSUME NEW v, Len(v) \in Nat, NEW i \in 1..Len(v), NEW m, Memory(m, i - 1, v)
  PROVE  Memory(EraseAt(m, i), i, v)
<1>. DEFINE e == EraseAt(m, i)
<1>1. /\ e.size = m.size - 1 /\ DOMAIN e.slots = 1..Len(v)
      /\ \A j \in 1..Len(v) : e.slots[j] = IF i <= j /\ j < m.size THEN m.slots[j + 1]
                                            ELSE m.slots[j]
  BY DEF Memory, EraseAt
<1>2. PICK f : Chosen(m, f, v)
  BY DEF Memory
<1>3. /\ e.size \in Nat /\ Len(v) - i <= e.size /\ e.size <= Len(v)
      /\ m.size \in Nat /\ m.size <= Len(v)
  <2>1. \A a, b, c \in Int : c \in 1..a /\ a - (c - 1) <= b /\ b <= a
                             => b - 1 >= 0 /\ a - c <= b - 1 /\ b - 1 <= a
    OBVIOUS
  <2>. QED BY <1>1, <2>1 DEF Memory
<1>. HIDE DEF e
<1>4. PICK g : g = [k \in 1..e.size |-> IF i <= k THEN f[k + 1] ELSE f[k]]
  OBVIOUS
<1>5. \A k \in 1..e.size : k \in 1..m.size /\ k + 1 \in 1..m.size /\ k < m.size /\ k \in 1..Len(v)
  BY <1>1, <1>3
<1>6. g \in [1..e.size -> 1..Len(v)]
  BY <1>2, <1>4, <1>5 DEF Chosen
<1>7. \A k \in 1..e.size : e.slots[k] = v[g[k]]
  BY <1>1, <1>2, <1>4, <1>5 DEF Chosen
<1>8. ASSUME NEW j \in 1..e.size, NEW k \in 1..e.size, g[j] = g[k]
      PROVE  j = k
  <2>1. PICK a \in 1..m.size : a = IF i <= j THEN j + 1 ELSE j
    BY <1>5
  <2>2. PICK b \in 1..m.size : b = IF i <= k THEN k + 1 ELSE k
    BY <1>5
  <2>3. f[a] = f[b]
    BY <1>4, <1>8, <2>1, <2>2
  <2>4. a = b
    BY <1>2, <2>3 DEF Chosen
  <2>. QED BY <1>3, <2>1, <2>2, <2>4
<1>9. Chosen(e, g, v)
  BY <1>6, <1>7, <1>8 DEF Chosen
<1>. QED BY <1>1, <1>3, <1>9 DEF Memory, e

LEMMA WalkKeeps ==
  ASSUME NEW v, NEW s, Len(v) \in Nat, DOMAIN v = 1..Len(v),
         NEW w, w = Walk(w, Len(v), v, s)
  PROVE  Memory(w[Len(v)], Len(v), v)
<1>. DEFINE T == {n \in 0..Len(v) : ~ Memory(w[n], n, v)}
<1>1. SUFFICES ASSUME T # {} PROVE FALSE
  OBVIOUS
<1>2. PICK n \in T : \A j \in T : n <= j
  <2>1. T \subseteq Nat
    OBVIOUS
  <2>. HIDE DEF T
  <2>. QED BY <1>1, <2>1, LeastOf
<1>3. CASE n = 0
  <2>1. w[0] = [slots |-> v, size |-> Len(v)]
    BY DEF Walk
  <2>2. PICK f : f = [k \in 1..Len(v) |-> k]
    OBVIOUS
  <2>3. Chosen(w[0], f, v)
    BY <2>1, <2>2 DEF Chosen
  <2>4. Memory(w[0], 0, v)
    BY <2>1, <2>3 DEF Memory
  <2>. QED BY <1>2, <1>3, <2>4
<1>4. CASE n # 0
  <2>1. n \in 1..Len(v) /\ n - 1 \in 0..Len(v) /\ n - 1 \notin T
    BY <1>2, <1>4
  <2>2. Memory(w[n - 1], n - 1, v)
    BY <2>1
  <2>3. w[n] = WalkStep(w[n - 1], n, s)
    BY <2>1 DEF Walk
  <2>4. Memory(w[n - 1], n, v)
    <3>1. \A a, b, c \in Int : a - (b - 1) <= c => a - b <= c
      OBVIOUS
    <3>. QED BY <2>1, <2>2, <3>1 DEF Memory
  <2>5. Memory(EraseAt(w[n - 1], n), n, v)
    BY <2>1, <2>2, EraseKeeps
  <2>6. Memory(w[n], n, v)
    BY <2>3, <2>4, <2>5 DEF WalkStep
  <2>. QED BY <1>2, <2>6
<1>. QED BY <1>3, <1>4

(* Whatever the walk does with its invalid iterators, what removeService   *)
(* leaves are elements of the vector, each at most once.                   *)
LEMMA RemovedSelects ==
  ASSUME NEW S, NEW v \in Seq(S), NEW s
  PROVE  /\ Removed(v, s) \in Seq(S)
         /\ \E f : /\ f \in [DOMAIN Removed(v, s) -> DOMAIN v]
                   /\ \A k \in DOMAIN Removed(v, s) : Removed(v, s)[k] = v[f[k]]
                   /\ \A j, k \in DOMAIN Removed(v, s) : f[j] = f[k] => j = k
<1>1. Len(v) \in Nat /\ DOMAIN v = 1..Len(v) /\ \A k \in 1..Len(v) : v[k] \in S
  OBVIOUS
<1>2. PICK w : /\ w = Walk(w, Len(v), v, s)
               /\ Removed(v, s) = SubSeq(w[Len(v)].slots, 1, w[Len(v)].size)
  BY <1>1, RemovedIs
<1>3. Memory(w[Len(v)], Len(v), v)
  BY <1>1, <1>2, WalkKeeps
<1>4. PICK m : m = w[Len(v)]
  OBVIOUS
<1>5. PICK f : Chosen(m, f, v)
  BY <1>3, <1>4 DEF Memory
<1>6. m.size \in Nat /\ \A k \in 1..m.size : m.slots[k] \in S
  BY <1>1, <1>3, <1>4, <1>5 DEF Memory, Chosen
<1>7. PICK r : r = SubSeq(m.slots, 1, m.size)
  OBVIOUS
<1>8. r \in Seq(S) /\ Len(r) = m.size /\ \A k \in 1..m.size : r[k] = m.slots[k]
  <2>1. /\ r \in Seq(S) /\ Len(r) = IF 1 <= m.size THEN m.size - 1 + 1 ELSE 0
        /\ \A k \in 1..(m.size - 1 + 1) : r[k] = m.slots[1 + k - 1]
    BY <1>6, <1>7, SubSeqProperties
  <2>2. \A k \in 1..m.size : 1 + k - 1 = k /\ k \in 1..(m.size - 1 + 1)
    BY <1>6
  <2>. QED BY <1>6, <2>1, <2>2
<1>9. DOMAIN r = 1..m.size
  BY <1>8
<1>10. Removed(v, s) = r
  BY <1>2, <1>4, <1>7
<1>11. /\ f \in [DOMAIN r -> DOMAIN v]
       /\ \A k \in DOMAIN r : r[k] = v[f[k]]
       /\ \A j, k \in DOMAIN r : f[j] = f[k] => j = k
  BY <1>1, <1>5, <1>8, <1>9 DEF Chosen
<1>. QED BY <1>8, <1>10, <1>11

(* A service with one entry: the walk takes that one out, and no other.    *)
LEMMA WalkOne ==
  ASSUME NEW v, NEW s, Len(v) \in Nat, DOMAIN v = 1..Len(v),
         NEW p \in 1..Len(v), \A j \in 1..Len(v) : v[j].service = s <=> j = p,
         NEW w, w = Walk(w, Len(v), v, s)
  PROVE  w[Len(v)] = EraseAt([slots |-> v, size |-> Len(v)], p)
<1>0. PICK m : m = [slots |-> v, size |-> Len(v)]
  OBVIOUS
<1>. DEFINE At(n) == w[n] = IF n < p THEN m ELSE EraseAt(m, p)
            T == {n \in 0..Len(v) : ~ At(n)}
<1>1. ASSUME T # {} PROVE FALSE
  <2>1. PICK n \in T : \A j \in T : n <= j
    <3>1. T \subseteq Nat
      OBVIOUS
    <3>. HIDE DEF T
    <3>. QED BY <1>1, <3>1, LeastOf
  <2>2. CASE n = 0
    <3>1. w[0] = m
      BY <1>0 DEF Walk
    <3>2. At(0)
      BY <3>1
    <3>. QED BY <2>1, <2>2, <3>2
  <2>3. CASE n # 0
    <3>1. n \in 1..Len(v) /\ n - 1 \in 0..Len(v) /\ n - 1 \notin T
      BY <2>1, <2>3
    <3>2. At(n - 1)
      BY <3>1
    <3>3. w[n] = WalkStep(w[n - 1], n, s)
      <4>1. n \in 0..Len(v) /\ n # 0
        BY <3>1
      <4>. HIDE DEF At, T
      <4>. QED BY <4>1 DEF Walk
    <3>4. CASE n <= p
      <4>1. n - 1 < p
        BY <3>1, <3>4
      <4>2. w[n - 1] = m
        BY <3>2, <4>1
      <4>3. m.slots[n].service = s <=> n = p
        BY <1>0, <3>1
      <4>4. w[n] = IF n = p THEN EraseAt(m, p) ELSE m
        BY <3>3, <4>2, <4>3 DEF WalkStep
      <4>5. At(n)
        BY <3>1, <3>4, <4>4
      <4>. QED BY <2>1, <4>5
    <3>5. CASE n > p
      <4>1. ~ (n - 1 < p) /\ ~ (n < p) /\ p <= n
        BY <3>1, <3>5
      <4>2. w[n - 1] = EraseAt(m, p)
        BY <3>2, <4>1
      <4>3. EraseAt(m, p).slots[n] = IF n < Len(v) THEN v[n + 1] ELSE v[n]
        BY <1>0, <3>1, <4>1 DEF EraseAt
      <4>4. n < Len(v) => n + 1 \in 1..Len(v) /\ n + 1 # p
        BY <3>1, <3>5
      <4>5. EraseAt(m, p).slots[n].service # s
        BY <3>1, <3>5, <4>3, <4>4
      <4>6. w[n] = EraseAt(m, p)
        BY <3>3, <4>2, <4>5 DEF WalkStep
      <4>7. At(n)
        BY <4>1, <4>6
      <4>. QED BY <2>1, <4>7
    <3>. QED BY <3>1, <3>4, <3>5
  <2>. QED BY <2>2, <2>3
<1>2. At(Len(v))
  BY <1>1
<1>3. ~ (Len(v) < p)
  OBVIOUS
<1>. QED BY <1>0, <1>2, <1>3

LEMMA RemovedOne ==
  ASSUME NEW S, NEW v \in Seq(S), NEW s, NEW p \in DOMAIN v,
         \A j \in DOMAIN v : v[j].service = s <=> j = p
  PROVE  Removed(v, s) = SubSeq(v, 1, p - 1) \o SubSeq(v, p + 1, Len(v))
<1>1. /\ Len(v) \in Nat /\ DOMAIN v = 1..Len(v) /\ p \in 1..Len(v)
      /\ \A k \in 1..Len(v) : v[k] \in S
  OBVIOUS
<1>2. PICK w : /\ w = Walk(w, Len(v), v, s)
               /\ Removed(v, s) = SubSeq(w[Len(v)].slots, 1, w[Len(v)].size)
  BY <1>1, RemovedIs
<1>3. PICK m : m = EraseAt([slots |-> v, size |-> Len(v)], p)
  OBVIOUS
<1>4. w[Len(v)] = m
  BY <1>1, <1>2, <1>3, WalkOne
<1>5. PICK n \in Nat : n = Len(v) - 1
  <2>1. \A a \in Nat : \A b \in 1..a : a - 1 \in Nat
    OBVIOUS
  <2>2. Len(v) - 1 \in Nat
    BY <1>1, <2>1
  <2>. QED BY <2>2
<1>6. /\ m.size = n
      /\ \A k \in 1..n : m.slots[k] = IF p <= k THEN v[k + 1] ELSE v[k]
  <2>1. \A k \in 1..n : k \in 1..Len(v) /\ k < Len(v)
    BY <1>1, <1>5
  <2>. QED BY <1>1, <1>3, <1>5, <2>1 DEF EraseAt
<1>7. \A k \in 1..n : k \in 1..Len(v) /\ k + 1 \in 1..Len(v) /\ 1 + k - 1 = k
                      /\ k \in 1..(n - 1 + 1)
  BY <1>1, <1>5
<1>8. PICK a : a = SubSeq(m.slots, 1, n)
  OBVIOUS
<1>9. a \in Seq(S) /\ Len(a) = n /\ \A k \in 1..n : a[k] = IF p <= k THEN v[k + 1] ELSE v[k]
  <2>1. \A k \in 1..n : m.slots[k] \in S
    BY <1>1, <1>6, <1>7
  <2>2. /\ a \in Seq(S) /\ Len(a) = IF 1 <= n THEN n - 1 + 1 ELSE 0
        /\ \A k \in 1..(n - 1 + 1) : a[k] = m.slots[1 + k - 1]
    BY <1>5, <1>8, <2>1, SubSeqProperties
  <2>3. Len(a) = n
    BY <1>5, <2>2
  <2>4. \A k \in 1..n : a[k] = m.slots[k]
    BY <1>7, <2>2
  <2>. QED BY <1>6, <2>2, <2>3, <2>4
<1>10. PICK b : b = SubSeq(v, 1, p - 1)
  OBVIOUS
<1>11. b \in Seq(S) /\ Len(b) = p - 1 /\ \A k \in 1..(p - 1) : b[k] = v[k]
  <2>1. \A k \in 1..(p - 1) : k \in 1..Len(v) /\ 1 + k - 1 = k /\ k \in 1..(p - 1 - 1 + 1)
    BY <1>1
  <2>2. /\ b \in Seq(S) /\ Len(b) = IF 1 <= p - 1 THEN p - 1 - 1 + 1 ELSE 0
        /\ \A k \in 1..(p - 1 - 1 + 1) : b[k] = v[1 + k - 1]
    BY <1>1, <1>10, <2>1, SubSeqProperties
  <2>3. Len(b) = p - 1
    BY <1>1, <2>2
  <2>. QED BY <2>1, <2>2, <2>3
<1>12. PICK c : c = SubSeq(v, p + 1, Len(v))
  OBVIOUS
<1>13. c \in Seq(S) /\ Len(c) = Len(v) - p /\ \A k \in 1..(Len(v) - p) : c[k] = v[p + k]
  <2>1. \A k \in (p + 1)..Len(v) : k \in 1..Len(v)
    BY <1>1
  <2>2. /\ c \in Seq(S) /\ Len(c) = IF p + 1 <= Len(v) THEN Len(v) - (p + 1) + 1 ELSE 0
        /\ \A k \in 1..(Len(v) - (p + 1) + 1) : c[k] = v[p + 1 + k - 1]
    BY <1>1, <1>12, <2>1, SubSeqProperties
  <2>3. Len(c) = Len(v) - p
    BY <1>1, <2>2
  <2>4. \A k \in 1..(Len(v) - p) : k \in 1..(Len(v) - (p + 1) + 1) /\ p + 1 + k - 1 = p + k
    BY <1>1
  <2>. QED BY <2>2, <2>3, <2>4
<1>14. /\ b \o c \in Seq(S) /\ Len(b \o c) = n
       /\ \A k \in 1..n : (b \o c)[k] = IF k <= p - 1 THEN b[k] ELSE c[k - (p - 1)]
  <2>1. /\ b \o c \in Seq(S) /\ Len(b \o c) = Len(b) + Len(c)
        /\ \A k \in 1..(Len(b) + Len(c)) :
             (b \o c)[k] = IF k <= Len(b) THEN b[k] ELSE c[k - Len(b)]
    BY <1>11, <1>13, ConcatProperties
  <2>2. Len(b) + Len(c) = n
    BY <1>1, <1>5, <1>11, <1>13
  <2>. QED BY <1>11, <2>1, <2>2
<1>15. \A k \in 1..n : a[k] = (b \o c)[k]
  <2>. TAKE k \in 1..n
  <2>1. CASE p <= k
    <3>1. ~ (k <= p - 1) /\ k - (p - 1) \in 1..(Len(v) - p) /\ p + (k - (p - 1)) = k + 1
      BY <1>1, <1>5, <2>1
    <3>2. c[k - (p - 1)] = v[k + 1]
      BY <1>13, <3>1
    <3>. QED BY <1>9, <1>14, <2>1, <3>1, <3>2
  <2>2. CASE ~ (p <= k)
    <3>1. k <= p - 1 /\ k \in 1..(p - 1)
      BY <1>1, <1>5, <2>2
    <3>. QED BY <1>9, <1>11, <1>14, <2>2, <3>1
  <2>. QED BY <2>1, <2>2
<1>16. a = b \o c
  BY <1>9, <1>14, <1>15, SeqEqual
<1>17. Removed(v, s) = a
  BY <1>2, <1>4, <1>6, <1>8
<1>. QED BY <1>10, <1>12, <1>16, <1>17

-----------------------------------------------------------------------------
(* What a call of the program works on, and that a thread works for a peer. *)
AppPart ==
  /\ app.pc \in {"listen", "session", "userdata", "register", "replace"} => app.addr \in Addr
  /\ app.pc \in {"register", "replace"} => app.service \in Service
  /\ app.pc = "idle" => app = Idle
  /\ app.service # NONE => app.id \in Handler

Busy(e) == thread[e].pc # "recv"
PeerPart == \A e \in Endpoints : Busy(e) => thread[e].peer \in Peer /\ thread[e].addr \in Addr

TypeInv == TypeOK /\ AppPart /\ PeerPart

LEMMA IdleType ==
  /\ Idle \in Calls /\ [Idle EXCEPT !.pc = "gone"] \in Calls
  /\ Waiting \in Threads /\ Waiting.pc = "recv"
  /\ Idle.pc = "idle" /\ Idle.service = NONE
  /\ [Idle EXCEPT !.pc = "gone"].pc = "gone" /\ [Idle EXCEPT !.pc = "gone"].service = NONE
<1>1. 0 \in 0..MaxHandlers
  BY BoundAssumption
<1>. QED BY <1>1 DEF Idle, Waiting, Calls, Threads

(* A call that goes on.                                                    *)
LEMMA CallType ==
  ASSUME NEW r \in Calls, NEW q \in {"session", "userdata", "register", "replace"}
  PROVE  /\ [r EXCEPT !.pc = q] \in Calls /\ [r EXCEPT !.pc = q].pc = q
         /\ [r EXCEPT !.pc = q].addr = r.addr /\ [r EXCEPT !.pc = q].service = r.service
         /\ [r EXCEPT !.pc = q].id = r.id
  BY DEF Calls

LEMMA AfterListenType ==
  ASSUME TypeInv, app.pc \in {"listen", "session", "userdata"}
  PROVE  /\ AfterListen \in Calls
         /\ \/ AfterListen = Idle /\ app.service = NONE
            \/ /\ AfterListen = [app EXCEPT !.pc = "register"] /\ app.service \in Service
               /\ AfterListen.pc = "register" /\ AfterListen.addr = app.addr
               /\ AfterListen.service = app.service /\ AfterListen.id = app.id
<1>1. app \in Calls
  BY DEF TypeInv, TypeOK
<1>2. app.service \in Service \cup {NONE}
  BY <1>1 DEF Calls
<1>3. CASE app.service = NONE
  BY <1>3, IdleType DEF AfterListen
<1>4. CASE app.service # NONE
  BY <1>1, <1>2, <1>4, CallType DEF AfterListen
<1>. QED BY <1>3, <1>4

(* What the program does to its own part of the state.                     *)
LEMMA AddServiceType ==
  ASSUME TypeInv, NEW a \in Addr, NEW s \in Service, AddService(a, s)
  PROVE  TypeInv'
<1>1. used' = used + 1 /\ used' \in Handler /\ used' \in 0..MaxHandlers
  <2>1. \A n \in Nat : \A k \in 0..n : k < n => k + 1 \in 1..n /\ k + 1 \in 0..n
    OBVIOUS
  <2>2. used \in 0..MaxHandlers /\ used < MaxHandlers /\ used' = used + 1
    BY DEF AddService, TypeInv, TypeOK
  <2>. QED BY <2>1, <2>2, BoundAssumption DEF Handler
<1>2. PICK n : n = [pc |-> "listen", addr |-> a, service |-> s, id |-> used']
  OBVIOUS
<1>3. n \in Calls /\ n.pc = "listen" /\ n.addr = a /\ n.id = used'
  BY <1>1, <1>2 DEF Calls
<1>4. /\ app' = n
      /\ UNCHANGED <<entries, listener, userData, vector, freed, services, thread, identity,
                     inbox, asked, answer, crashed>>
  BY <1>2 DEF AddService, threadVars, peerVars
<1>5. TypeOK'
  BY <1>1, <1>3, <1>4 DEF TypeInv, TypeOK
<1>6. AppPart' /\ PeerPart'
  BY <1>1, <1>3, <1>4 DEF TypeInv, AppPart, PeerPart, Busy
<1>. QED BY <1>5, <1>6 DEF TypeInv

(* A call of the program that has not got to the handlers yet.             *)
GoesOn ==
  /\ UNCHANGED <<vector, freed, used, inbox, asked, thread>>
  /\ \/ app' = app
     \/ app.pc \in {"listen", "session", "userdata"} /\ app' = Idle
     \/ /\ app.pc \in {"listen", "session", "userdata"}
        /\ app'.pc \in {"register", "session", "userdata"}
        /\ app'.addr = app.addr /\ app'.service = app.service /\ app'.id = app.id

LEMMA ListenType ==
  ASSUME TypeInv, Listen
  PROVE  TypeInv' /\ GoesOn
<1>1. app \in Calls /\ app.addr \in Addr /\ app.pc = "listen"
  BY DEF Listen, TypeInv, TypeOK, AppPart
<1>2. PICK e \in Endpoints : e = Endpoint(app.addr)
  BY <1>1 DEF Endpoints
<1>3. app.addr.transport \in Transports
  BY <1>1, AddrAssumption
<1>4. entries' \in [Endpoints -> Transports \cup {NONE}]
  BY <1>2, <1>3 DEF Listen, TypeInv, TypeOK
<1>5. listener' \in [Endpoints -> {"none", "proxy", "open"}]
  BY <1>2 DEF Listen, TypeInv, TypeOK
<1>6. /\ app' \in Calls
      /\ \/ app' = Idle \/ app' = app
         \/ /\ app'.addr = app.addr /\ app'.service = app.service /\ app'.id = app.id
            /\ app'.pc \in {"register", "session", "userdata"}
            /\ app'.pc = "register" => app.service \in Service
  <2>1. \/ app' = AfterListen \/ app' = Idle \/ app' = app
        \/ app' = [app EXCEPT !.pc = "session"] \/ app' = [app EXCEPT !.pc = "userdata"]
    BY DEF Listen
  <2>2. CASE app' = AfterListen
    BY <1>1, <2>2, AfterListenType, IdleType
  <2>3. CASE app' = Idle \/ app' = app
    BY <1>1, <2>3, IdleType
  <2>4. CASE app' = [app EXCEPT !.pc = "session"]
    BY <1>1, <2>4, CallType
  <2>5. CASE app' = [app EXCEPT !.pc = "userdata"]
    BY <1>1, <2>5, CallType
  <2>. QED BY <2>1, <2>2, <2>3, <2>4, <2>5
<1>7. crashed' \in {"no", "bind failed"}
  BY DEF Listen, Running
<1>8. UNCHANGED <<userData, vector, freed, used, services, thread, identity, inbox, asked, answer>>
  BY DEF Listen, threadVars, peerVars
<1>9. TypeOK'
  BY <1>4, <1>5, <1>6, <1>7, <1>8 DEF TypeInv, TypeOK
<1>10. AppPart'
  <2>1. CASE app' = Idle
    BY <2>1, IdleType DEF AppPart
  <2>2. CASE app' = app
    BY <2>2 DEF AppPart, TypeInv
  <2>3. CASE /\ app'.addr = app.addr /\ app'.service = app.service /\ app'.id = app.id
             /\ app'.pc \in {"register", "session", "userdata"}
             /\ app'.pc = "register" => app.service \in Service
    BY <1>1, <2>3 DEF AppPart, TypeInv
  <2>. QED BY <1>6, <2>1, <2>2, <2>3
<1>11. PeerPart'
  BY <1>8 DEF TypeInv, PeerPart, Busy
<1>. QED BY <1>1, <1>6, <1>8, <1>9, <1>10, <1>11 DEF TypeInv, GoesOn

LEMMA SessionType ==
  ASSUME TypeInv, InsertSession \/ SetUserData
  PROVE  TypeInv' /\ GoesOn
<1>1. app \in Calls /\ app.addr \in Addr /\ app.pc \in {"session", "userdata"}
  BY DEF InsertSession, SetUserData, TypeInv, TypeOK, AppPart
<1>2. PICK e \in Endpoints : e = Endpoint(app.addr)
  BY <1>1 DEF Endpoints
<1>3. /\ listener' \in [Endpoints -> {"none", "proxy", "open"}] /\ userData' \subseteq Endpoints
      /\ UNCHANGED <<entries, vector, freed, used, services, crashed, thread, identity, inbox,
                     asked, answer>>
  BY <1>2 DEF InsertSession, SetUserData, TypeInv, TypeOK, threadVars, peerVars
<1>4. /\ app' \in Calls
      /\ \/ app' = Idle
         \/ /\ app'.addr = app.addr /\ app'.service = app.service /\ app'.id = app.id
            /\ app'.pc \in {"register", "userdata"}
            /\ app'.pc = "register" => app.service \in Service
  <2>1. app' = AfterListen \/ app' = [app EXCEPT !.pc = "userdata"]
    BY DEF InsertSession, SetUserData
  <2>2. CASE app' = AfterListen
    BY <1>1, <2>2, AfterListenType, IdleType
  <2>3. CASE app' = [app EXCEPT !.pc = "userdata"]
    BY <1>1, <2>3, CallType
  <2>. QED BY <2>1, <2>2, <2>3
<1>5. TypeOK'
  BY <1>3, <1>4 DEF TypeInv, TypeOK
<1>6. AppPart'
  <2>1. CASE app' = Idle
    BY <2>1, IdleType DEF AppPart
  <2>2. CASE app' # Idle
    BY <1>1, <1>4, <2>2 DEF AppPart, TypeInv
  <2>. QED BY <2>1, <2>2
<1>7. PeerPart'
  BY <1>3 DEF TypeInv, PeerPart, Busy
<1>. QED BY <1>1, <1>3, <1>4, <1>5, <1>6, <1>7 DEF TypeInv, GoesOn

(* The vector is extended, an entry of it gets a new handler, or some      *)
(* entries leave it.                                                       *)
LEMMA RegisterType ==
  ASSUME TypeInv, Register
  PROVE  /\ TypeInv' /\ app.addr \in Addr /\ app.service \in Service /\ app.id \in Handler
         /\ Entry \in Entries /\ Entry.addr = app.addr /\ Entry.id = app.id
<1>1. app \in Calls /\ app.addr \in Addr /\ app.service \in Service /\ app.pc = "register"
  BY DEF Register, TypeInv, TypeOK, AppPart
<1>2. app.id \in Handler
  BY <1>1, NoneAssumption DEF TypeInv, AppPart
<1>3. Entry \in Entries /\ Entry.addr = app.addr /\ Entry.id = app.id
  BY <1>1, <1>2 DEF Entry, Entries
<1>4. /\ app' \in Calls
      /\ \/ app' = Idle
         \/ /\ app'.pc = "replace" /\ app'.addr = app.addr /\ app'.service = app.service
            /\ app'.id = app.id
  <2>1. app' = Idle \/ app' = [app EXCEPT !.pc = "replace"]
    BY DEF Register
  <2>2. CASE app' = Idle
    BY <2>2, IdleType
  <2>3. CASE app' = [app EXCEPT !.pc = "replace"]
    BY <1>1, <2>3, CallType
  <2>. QED BY <2>1, <2>2, <2>3
<1>5. vector' \in Seq(Entries)
  <2>1. vector' = vector \/ vector' = Append(vector, Entry)
    BY DEF Register
  <2>2. vector \in Seq(Entries)
    BY DEF TypeInv, TypeOK
  <2>3. Append(vector, Entry) \in Seq(Entries)
    BY <1>3, <2>2, AppendProperties
  <2>. QED BY <2>1, <2>2, <2>3
<1>6. freed' \subseteq Handler
  <2>1. ASSUME NEW i \in DOMAIN vector PROVE vector[i].id \in Handler
    <3>1. vector \in Seq(Entries)
      BY DEF TypeInv, TypeOK
    <3>2. vector[i] \in Entries
      BY <3>1
    <3>. QED BY <3>2 DEF Entries
  <2>2. freed' = freed \/ \E i \in DOMAIN vector : freed' = freed \cup {vector[i].id}
    BY DEF Register
  <2>3. freed \subseteq Handler
    BY DEF TypeInv, TypeOK
  <2>. QED BY <2>1, <2>2, <2>3
<1>7. /\ services' \subseteq Service
      /\ UNCHANGED <<entries, listener, userData, used, thread, identity, inbox, asked, answer>>
      /\ crashed' \in {crashed, "list changed"}
  BY <1>1 DEF Register, TypeInv, TypeOK, threadVars, peerVars, WalksSurvive
<1>8. TypeOK'
  BY <1>4, <1>5, <1>6, <1>7 DEF TypeInv, TypeOK
<1>9. AppPart'
  <2>1. CASE app' = Idle
    BY <2>1, IdleType DEF AppPart
  <2>2. CASE app' # Idle
    BY <1>1, <1>2, <1>4, <2>2 DEF AppPart
  <2>. QED BY <2>1, <2>2
<1>10. PeerPart'
  BY <1>7 DEF TypeInv, PeerPart, Busy
<1>. QED BY <1>1, <1>2, <1>3, <1>8, <1>9, <1>10 DEF TypeInv

LEMMA ReplaceType ==
  ASSUME TypeInv, Replace
  PROVE  /\ TypeInv' /\ app.service \in Service
         /\ \E i \in DOMAIN vector, n \in Entries :
               /\ vector[i].id \in freed /\ vector' = [vector EXCEPT ![i] = n]
               /\ n.addr = vector[i].addr /\ n.id = app.id
<1>1. app \in Calls /\ app.service \in Service /\ app.pc = "replace"
  BY DEF Replace, TypeInv, TypeOK, AppPart
<1>2. app.id \in Handler
  BY <1>1, NoneAssumption DEF TypeInv, AppPart
<1>3. PICK i \in DOMAIN vector :
        /\ vector[i].id \in freed
        /\ vector' = [vector EXCEPT ![i] = [@ EXCEPT !.id = app.id, !.service = app.service]]
  BY DEF Replace
<1>4. vector \in Seq(Entries) /\ i \in 1..Len(vector) /\ vector[i] \in Entries
  <2>1. vector \in Seq(Entries)
    BY DEF TypeInv, TypeOK
  <2>. QED BY <2>1
<1>5. PICK r : r = vector[i]
  OBVIOUS
<1>6. PICK n : n = [r EXCEPT !.id = app.id, !.service = app.service]
  OBVIOUS
<1>7. n \in Entries /\ n.addr = r.addr /\ n.id = app.id
  BY <1>1, <1>2, <1>4, <1>5, <1>6 DEF Entries
<1>8. vector' = [vector EXCEPT ![i] = n]
  BY <1>3, <1>4, <1>5, <1>6
<1>9. vector' \in Seq(Entries)
  BY <1>4, <1>7, <1>8, ExceptSeq
<1>10. /\ services' \subseteq Service /\ app' = Idle
       /\ UNCHANGED <<entries, listener, userData, freed, used, thread, identity, inbox, asked,
                      answer>>
       /\ crashed' \in {crashed, "list changed"}
  BY <1>1 DEF Replace, TypeInv, TypeOK, threadVars, peerVars, WalksSurvive
<1>11. TypeOK'
  BY <1>9, <1>10, IdleType DEF TypeInv, TypeOK
<1>12. AppPart' /\ PeerPart'
  BY <1>10, IdleType DEF TypeInv, AppPart, PeerPart, Busy
<1>. QED BY <1>1, <1>3, <1>5, <1>7, <1>8, <1>11, <1>12 DEF TypeInv

LEMMA RemoveType ==
  ASSUME TypeInv, NEW s \in Service, RemoveService(s)
  PROVE  TypeInv'
<1>1. vector' \in Seq(Entries)
  BY RemovedSelects DEF RemoveService, TypeInv, TypeOK
<1>2. services' \subseteq Service
  BY DEF RemoveService, TypeInv, TypeOK
<1>3. /\ UNCHANGED <<entries, listener, userData, freed, used, app, thread, identity, inbox,
                     asked, answer>>
      /\ crashed' \in {crashed, "list changed"}
  BY DEF RemoveService, threadVars, peerVars, WalksSurvive
<1>4. TypeOK'
  BY <1>1, <1>2, <1>3 DEF TypeInv, TypeOK
<1>. QED BY <1>3, <1>4 DEF TypeInv, AppPart, PeerPart, Busy

LEMMA FreeType ==
  ASSUME TypeInv, FreeServer
  PROVE  TypeInv'
<1>1. \A i \in DOMAIN vector : vector[i].id \in Handler
  <2>1. vector \in Seq(Entries)
    BY DEF TypeInv, TypeOK
  <2>2. \A i \in DOMAIN vector : vector[i] \in Entries
    BY <2>1
  <2>. QED BY <2>2 DEF Entries
<1>2. freed' \subseteq Handler
  BY <1>1 DEF FreeServer, TypeInv, TypeOK
<1>3. /\ app' = [Idle EXCEPT !.pc = "gone"]
      /\ UNCHANGED <<entries, listener, userData, vector, used, services, crashed, thread,
                     identity, inbox, asked, answer>>
  BY DEF FreeServer, threadVars, peerVars
<1>4. TypeOK'
  BY <1>2, <1>3, IdleType DEF TypeInv, TypeOK
<1>. QED BY <1>3, <1>4, IdleType DEF TypeInv, AppPart, PeerPart, Busy

(* A thread that has taken a request, goes on or waits again.              *)
LEMMA ThreadType ==
  ASSUME TypeInv, NEW e \in Endpoints, NEW n \in Threads, thread' = [thread EXCEPT ![e] = n],
         n.pc # "recv" => n.peer \in Peer /\ n.addr \in Addr,
         inbox' \in [Endpoints -> Seq([peer : Peer, addr : Addr])],
         identity' \in [Endpoints -> Peer \cup {NONE}],
         answer' \in [Peer -> Answers \cup {NONE}], asked' \in [Peer -> Addr \cup {NONE}],
         UNCHANGED <<serverVars, crashed>>
  PROVE  TypeInv'
<1>1. /\ thread \in [Endpoints -> Threads] /\ thread'[e] = n
      /\ \A d \in Endpoints \ {e} : thread'[d] = thread[d]
  BY DEF TypeInv, TypeOK
<1>2. thread' \in [Endpoints -> Threads]
  BY <1>1
<1>3. UNCHANGED <<entries, listener, userData, vector, freed, used, services, app, crashed>>
  BY DEF serverVars
<1>4. TypeOK'
  BY <1>2, <1>3 DEF TypeInv, TypeOK
<1>5. AppPart'
  BY <1>3 DEF TypeInv, AppPart
<1>6. PeerPart'
  <2>. SUFFICES ASSUME NEW d \in Endpoints, thread'[d].pc # "recv"
                PROVE  thread'[d].peer \in Peer /\ thread'[d].addr \in Addr
    BY DEF PeerPart, Busy
  <2>1. CASE d = e
    BY <1>1, <2>1
  <2>2. CASE d # e
    BY <1>1, <2>2 DEF TypeInv, PeerPart, Busy
  <2>. QED BY <2>1, <2>2
<1>. QED BY <1>4, <1>5, <1>6 DEF TypeInv

(* A thread stops the process.                                             *)
LEMMA CrashType ==
  ASSUME TypeInv, UNCHANGED <<serverVars, threadVars, peerVars>>,
         crashed' \in {"no session", "no server", "deleted handler"} \/ crashed' = crashed
  PROVE  TypeInv'
<1>1. UNCHANGED <<entries, listener, userData, vector, freed, used, services, app, thread,
                  identity, inbox, asked, answer>>
  BY DEF serverVars, threadVars, peerVars
<1>2. TypeOK'
  BY <1>1 DEF TypeInv, TypeOK
<1>. QED BY <1>1, <1>2 DEF TypeInv, AppPart, PeerPart, Busy

(* What a thread that takes a request does.                                *)
LEMMA RecvEffect ==
  ASSUME TypeInv, NEW e \in Endpoints, Recv(e)
  PROVE  /\ TypeInv' /\ UNCHANGED <<serverVars, asked, answer>>
         /\ ~Busy(e) /\ inbox[e] # <<>> /\ Head(inbox[e]) \in [peer : Peer, addr : Addr]
         /\ \/ crashed' = "no session" /\ listener[e] = "proxy" /\ UNCHANGED <<thread, inbox>>
            \/ \E n \in Threads :
                 /\ thread' = [thread EXCEPT ![e] = n] /\ n.pc = "callback"
                 /\ n.peer = Head(inbox[e]).peer /\ n.addr = Head(inbox[e]).addr
                 /\ inbox' = [inbox EXCEPT ![e] = Tail(inbox[e])]
                 /\ listener[e] = "open" /\ crashed' = crashed
<1>1. thread[e] = Waiting /\ inbox[e] # <<>> /\ UNCHANGED <<serverVars, asked, answer>>
  BY DEF Recv
<1>2. PICK M : M = [peer : Peer, addr : Addr]
  OBVIOUS
<1>3. inbox \in [Endpoints -> Seq(M)]
  BY <1>2 DEF TypeInv, TypeOK
<1>4. inbox[e] \in Seq(M)
  BY <1>3
<1>5. Head(inbox[e]) \in M /\ Tail(inbox[e]) \in Seq(M)
  BY <1>1, <1>4, HeadTailProperties
<1>6. PICK r : r = Head(inbox[e])
  OBVIOUS
<1>7. r.peer \in Peer /\ r.addr \in Addr
  BY <1>2, <1>5, <1>6
<1>8. CASE crashed' = "no session" /\ listener[e] = "proxy" /\ UNCHANGED <<thread, identity, inbox>>
  <2>1. TypeInv'
    BY <1>1, <1>8, CrashType DEF threadVars, peerVars
  <2>. QED BY <1>1, <1>2, <1>5, <1>8, <2>1, IdleType DEF Busy
<1>9. CASE /\ listener[e] = "open" /\ UNCHANGED crashed
           /\ thread' = [thread EXCEPT ![e] =
                           [Waiting EXCEPT !.pc = "callback", !.peer = r.peer, !.addr = r.addr]]
           /\ identity' = [identity EXCEPT ![e] = IF entries[e] = "http" THEN r.peer ELSE NONE]
           /\ inbox' = [inbox EXCEPT ![e] = Tail(@)]
  <2>0. PICK w : w = Waiting
    OBVIOUS
  <2>1. PICK n : n = [w EXCEPT !.pc = "callback", !.peer = r.peer, !.addr = r.addr]
    OBVIOUS
  <2>2. n \in Threads /\ n.pc = "callback" /\ n.peer = r.peer /\ n.addr = r.addr
    <3>1. w \in Threads
      BY <2>0, IdleType
    <3>. QED BY <1>7, <2>1, <3>1 DEF Threads
  <2>3. thread' = [thread EXCEPT ![e] = n]
    BY <1>9, <2>0, <2>1
  <2>4. identity' \in [Endpoints -> Peer \cup {NONE}]
    BY <1>7, <1>9 DEF TypeInv, TypeOK
  <2>5. /\ inbox' = [inbox EXCEPT ![e] = Tail(inbox[e])]
        /\ inbox' \in [Endpoints -> Seq(M)]
    BY <1>3, <1>5, <1>9
  <2>6. answer' \in [Peer -> Answers \cup {NONE}] /\ asked' \in [Peer -> Addr \cup {NONE}]
    BY <1>1 DEF TypeInv, TypeOK
  <2>7. TypeInv'
    BY <1>1, <1>2, <1>7, <1>9, <2>2, <2>3, <2>4, <2>5, <2>6, ThreadType
  <2>. QED BY <1>1, <1>2, <1>5, <1>6, <1>9, <2>2, <2>3, <2>5, <2>7, IdleType DEF Busy
<1>. QED BY <1>6, <1>8, <1>9 DEF Recv

(* The points between a request and its answer.                            *)
LEMMA PointEffect ==
  ASSUME TypeInv, NEW e \in Endpoints, Callback(e) \/ Configured(e) \/ Find(e) \/ Call(e)
  PROVE  /\ TypeInv' /\ UNCHANGED <<serverVars, peerVars>> /\ Busy(e)
         /\ \/ UNCHANGED thread
            \/ \E n \in Threads :
                 /\ thread' = [thread EXCEPT ![e] = n] /\ n.pc # "recv" /\ crashed' = crashed
                 /\ n.peer = thread[e].peer /\ n.addr = thread[e].addr
                 /\ n.pc = "call" => \E i \in DOMAIN vector : vector[i].id = n.found
<1>1. UNCHANGED <<identity, serverVars, peerVars>> /\ Busy(e)
  BY DEF Callback, Configured, Find, Call, Busy
<1>2. PICK r : r = thread[e]
  OBVIOUS
<1>3. thread \in [Endpoints -> Threads]
  BY DEF TypeInv, TypeOK
<1>4. r \in Threads /\ r.pc # "recv" /\ r.peer \in Peer /\ r.addr \in Addr
  BY <1>1, <1>2, <1>3 DEF TypeInv, PeerPart, Busy
<1>5. ASSUME NEW n \in Threads, thread' = [thread EXCEPT ![e] = n], n.pc # "recv",
             crashed' = crashed, n.peer = r.peer, n.addr = r.addr,
             n.pc = "call" => \E i \in DOMAIN vector : vector[i].id = n.found
      PROVE  /\ TypeInv' /\ UNCHANGED <<serverVars, peerVars>> /\ Busy(e)
             /\ \/ UNCHANGED thread
                \/ \E x \in Threads :
                     /\ thread' = [thread EXCEPT ![e] = x] /\ x.pc # "recv" /\ crashed' = crashed
                     /\ x.peer = thread[e].peer /\ x.addr = thread[e].addr
                     /\ x.pc = "call" => \E i \in DOMAIN vector : vector[i].id = x.found
  <2>1. /\ inbox' \in [Endpoints -> Seq([peer : Peer, addr : Addr])]
        /\ identity' \in [Endpoints -> Peer \cup {NONE}]
        /\ answer' \in [Peer -> Answers \cup {NONE}] /\ asked' \in [Peer -> Addr \cup {NONE}]
    BY <1>1 DEF TypeInv, TypeOK, peerVars
  <2>2. TypeInv'
    BY <1>1, <1>4, <1>5, <2>1, ThreadType
  <2>. QED BY <1>1, <1>2, <1>5, <2>2
<1>6. ASSUME NEW p \in {"config", "find"}, thread' = [thread EXCEPT ![e].pc = p],
             crashed' = crashed
      PROVE  \E n \in Threads :
               /\ thread' = [thread EXCEPT ![e] = n] /\ n.pc = p
               /\ n.peer = r.peer /\ n.addr = r.addr
  <2>1. PICK n : n = [r EXCEPT !.pc = p]
    OBVIOUS
  <2>2. n \in Threads /\ n.pc = p /\ n.peer = r.peer /\ n.addr = r.addr
    BY <1>4, <2>1 DEF Threads
  <2>3. thread' = [thread EXCEPT ![e] = n]
    BY <1>2, <1>6, <2>1
  <2>. QED BY <2>2, <2>3
<1>7. ASSUME NEW f \in 0..MaxHandlers, thread' = [thread EXCEPT ![e].pc = "call", ![e].found = f]
      PROVE  \E n \in Threads :
               /\ thread' = [thread EXCEPT ![e] = n] /\ n.pc = "call" /\ n.found = f
               /\ n.peer = r.peer /\ n.addr = r.addr
  <2>1. PICK n : n = [r EXCEPT !.pc = "call", !.found = f]
    OBVIOUS
  <2>2. n \in Threads /\ n.pc = "call" /\ n.found = f /\ n.peer = r.peer /\ n.addr = r.addr
    BY <1>4, <2>1 DEF Threads
  <2>3. thread' = [thread EXCEPT ![e] = n]
    BY <1>2, <1>3, <1>7, <2>1
  <2>. QED BY <2>2, <2>3
<1>8. ASSUME NEW k \in {"configuration", "empty", "result"},
             thread' = [thread EXCEPT ![e].pc = "reply",
                                      ![e].reply = Answer(thread[e].peer, k)]
      PROVE  \E n \in Threads :
               /\ thread' = [thread EXCEPT ![e] = n] /\ n.pc = "reply"
               /\ n.peer = r.peer /\ n.addr = r.addr
  <2>1. PICK a : a = Answer(r.peer, k)
    OBVIOUS
  <2>2. a \in Answers
    BY <1>4, <2>1 DEF Answer, Answers
  <2>3. PICK n : n = [r EXCEPT !.pc = "reply", !.reply = a]
    OBVIOUS
  <2>4. n \in Threads /\ n.pc = "reply" /\ n.peer = r.peer /\ n.addr = r.addr
    BY <1>4, <2>2, <2>3 DEF Threads
  <2>5. thread' = [thread EXCEPT ![e] = n]
    BY <1>2, <1>3, <1>8, <2>1, <2>3
  <2>. QED BY <2>4, <2>5
<1>9. ASSUME UNCHANGED thread,
             crashed' \in {"no session", "no server", "deleted handler"} \/ crashed' = crashed
      PROVE  TypeInv'
  BY <1>1, <1>9, CrashType DEF threadVars
<1>10. CASE Callback(e)
  <2>1. CASE UNCHANGED thread
    <3>1. crashed' = "no server" \/ crashed' = crashed
      BY <1>10 DEF Callback
    <3>. QED BY <1>1, <1>9, <2>1, <3>1
  <2>2. CASE \E p \in {"config", "find"} : thread' = [thread EXCEPT ![e].pc = p] /\ crashed' = crashed
    BY <1>5, <1>6, <2>2
  <2>. QED BY <1>10, <2>1, <2>2 DEF Callback
<1>11. CASE Configured(e)
  <2>1. CASE crashed' = "deleted handler" /\ UNCHANGED thread
    BY <1>1, <1>9, <2>1
  <2>2. CASE /\ crashed' = crashed
             /\ thread' = [thread EXCEPT ![e].pc = "reply",
                                         ![e].reply = Answer(thread[e].peer, "configuration")]
    BY <1>5, <1>8, <2>2
  <2>. QED BY <1>11, <2>1, <2>2 DEF Configured
<1>12. CASE Find(e)
  <2>1. crashed' = crashed
    BY <1>12 DEF Find
  <2>2. CASE \E i \in DOMAIN vector :
               thread' = [thread EXCEPT ![e].pc = "call", ![e].found = vector[i].id]
    <3>1. PICK i \in DOMAIN vector :
            thread' = [thread EXCEPT ![e].pc = "call", ![e].found = vector[i].id]
      BY <2>2
    <3>2. vector \in Seq(Entries)
      BY DEF TypeInv, TypeOK
    <3>3. vector[i] \in Entries
      BY <3>2
    <3>4. vector[i].id \in 0..MaxHandlers
      BY <3>3, BoundAssumption DEF Entries, Handler
    <3>5. PICK n \in Threads :
            /\ thread' = [thread EXCEPT ![e] = n] /\ n.pc = "call" /\ n.found = vector[i].id
            /\ n.peer = r.peer /\ n.addr = r.addr
      BY <1>7, <3>1, <3>4
    <3>. QED BY <1>5, <2>1, <3>5
  <2>3. CASE thread' = [thread EXCEPT ![e].pc = "reply",
                                      ![e].reply = Answer(thread[e].peer, "empty")]
    BY <1>5, <1>8, <2>1, <2>3
  <2>. QED BY <1>12, <2>2, <2>3 DEF Find
<1>13. CASE Call(e)
  <2>1. CASE crashed' = "deleted handler" /\ UNCHANGED thread
    BY <1>1, <1>9, <2>1
  <2>2. CASE /\ crashed' = crashed
             /\ thread' = [thread EXCEPT ![e].pc = "reply",
                                         ![e].reply = Answer(thread[e].peer, "result")]
    BY <1>5, <1>8, <2>2
  <2>. QED BY <1>13, <2>1, <2>2 DEF Call
<1>. QED BY <1>10, <1>11, <1>12, <1>13

(* A thread that has answered waits again; the peer it has answered waits  *)
(* no more.                                                                *)
LEMMA ReplyEffect ==
  ASSUME TypeInv, NEW e \in Endpoints, Reply(e)
  PROVE  /\ TypeInv' /\ UNCHANGED <<serverVars, inbox, crashed>> /\ Busy(e)
         /\ thread' = [thread EXCEPT ![e] = Waiting]
         /\ \E p \in Peer : /\ p = IF identity[e] = NONE THEN thread[e].peer ELSE identity[e]
                            /\ asked' = [asked EXCEPT ![p] = NONE]
<1>1. /\ UNCHANGED <<serverVars, identity, inbox, crashed>> /\ Busy(e)
      /\ thread' = [thread EXCEPT ![e] = Waiting]
  BY DEF Reply, Busy
<1>2. PICK p : p = IF identity[e] = NONE THEN thread[e].peer ELSE identity[e]
  OBVIOUS
<1>3. p \in Peer
  BY <1>1, <1>2 DEF TypeInv, TypeOK, PeerPart
<1>4. thread[e].reply \in Answers \cup {NONE}
  <2>1. thread[e] \in Threads
    BY DEF TypeInv, TypeOK
  <2>. QED BY <2>1 DEF Threads
<1>5. asked \in [Peer -> Addr \cup {NONE}] /\ answer \in [Peer -> Answers \cup {NONE}]
  BY DEF TypeInv, TypeOK
<1>6. asked' = [asked EXCEPT ![p] = NONE] /\ (answer' = answer \/ answer' = [answer EXCEPT ![p] = thread[e].reply])
  <2>1. CASE asked[p] # NONE
    BY <1>2, <2>1 DEF Reply
  <2>2. CASE asked[p] = NONE
    BY <1>2, <1>3, <1>5, <2>2 DEF Reply
  <2>. QED BY <2>1, <2>2
<1>7. answer' \in [Peer -> Answers \cup {NONE}] /\ asked' \in [Peer -> Addr \cup {NONE}]
  BY <1>3, <1>4, <1>5, <1>6
<1>8. /\ inbox' \in [Endpoints -> Seq([peer : Peer, addr : Addr])]
      /\ identity' \in [Endpoints -> Peer \cup {NONE}]
  BY <1>1 DEF TypeInv, TypeOK
<1>9. TypeInv'
  BY <1>1, <1>7, <1>8, IdleType, ThreadType
<1>. QED BY <1>1, <1>2, <1>3, <1>6, <1>9

LEMMA SendEffect ==
  ASSUME TypeInv, NEW p \in Peer, NEW a \in Addr, Send(p, a)
  PROVE  /\ TypeInv' /\ UNCHANGED <<serverVars, thread, crashed>>
         /\ asked[p] = NONE /\ asked' = [asked EXCEPT ![p] = a]
         /\ Endpoint(a) \in Endpoints /\ listener[Endpoint(a)] # "none"
         /\ \E r \in [peer : Peer, addr : Addr] :
              /\ r.peer = p
              /\ inbox' = [inbox EXCEPT ![Endpoint(a)] = Append(inbox[Endpoint(a)], r)]
<1>1. /\ UNCHANGED <<serverVars, thread, identity, crashed>>
      /\ asked[p] = NONE /\ asked' = [asked EXCEPT ![p] = a]
      /\ answer' = [answer EXCEPT ![p] = NONE] /\ listener[Endpoint(a)] # "none"
  BY DEF Send, threadVars
<1>2. PICK M : M = [peer : Peer, addr : Addr]
  OBVIOUS
<1>3. PICK r : r = [peer |-> p, addr |-> a]
  OBVIOUS
<1>4. r \in M /\ r.peer = p
  BY <1>2, <1>3
<1>5. PICK e \in Endpoints : e = Endpoint(a)
  BY DEF Endpoints
<1>6. inbox \in [Endpoints -> Seq(M)]
  BY <1>2 DEF TypeInv, TypeOK
<1>7. inbox[e] \in Seq(M)
  BY <1>6
<1>8. Append(inbox[e], r) \in Seq(M)
  BY <1>4, <1>7, AppendProperties
<1>9. inbox' = [inbox EXCEPT ![e] = Append(inbox[e], r)]
  BY <1>3, <1>5 DEF Send
<1>10. inbox' \in [Endpoints -> Seq(M)]
  BY <1>6, <1>8, <1>9
<1>11. answer' \in [Peer -> Answers \cup {NONE}] /\ asked' \in [Peer -> Addr \cup {NONE}]
  BY <1>1 DEF TypeInv, TypeOK
<1>12. UNCHANGED <<entries, listener, userData, vector, freed, used, services, app, thread,
                   identity, crashed>>
  BY <1>1 DEF serverVars
<1>13. TypeOK'
  BY <1>2, <1>10, <1>11, <1>12 DEF TypeInv, TypeOK
<1>14. TypeInv'
  BY <1>12, <1>13 DEF TypeInv, AppPart, PeerPart, Busy
<1>. QED BY <1>1, <1>2, <1>4, <1>5, <1>9, <1>14

LEMMA InitialType == Init => TypeInv
<1>. SUFFICES ASSUME Init PROVE TypeInv
  OBVIOUS
<1>1. ConfigAddr \in Addr
  BY ConfigAssumption
<1>2. app \in Calls /\ app.pc = "listen" /\ app.addr = ConfigAddr /\ app.service = NONE
  <2>1. PICK r : r = Idle
    OBVIOUS
  <2>2. r \in Calls /\ r.service = NONE
    BY <2>1, IdleType
  <2>3. app = [r EXCEPT !.pc = "listen", !.addr = ConfigAddr]
    BY <2>1 DEF Init
  <2>. QED BY <1>1, <2>2, <2>3 DEF Calls
<1>3. vector \in Seq(Entries)
  BY EmptySeq DEF Init
<1>4. inbox \in [Endpoints -> Seq([peer : Peer, addr : Addr])]
  <2>1. PICK M : M = [peer : Peer, addr : Addr]
    OBVIOUS
  <2>2. << >> \in Seq(M)
    BY EmptySeq
  <2>3. inbox \in [Endpoints -> Seq(M)]
    BY <2>2 DEF Init
  <2>. QED BY <2>1, <2>3
<1>5. thread \in [Endpoints -> Threads] /\ \A e \in Endpoints : ~Busy(e)
  BY IdleType DEF Init, Busy
<1>6. /\ entries \in [Endpoints -> Transports \cup {NONE}]
      /\ listener \in [Endpoints -> {"none", "proxy", "open"}]
      /\ userData \subseteq Endpoints /\ freed \subseteq Handler /\ services \subseteq Service
      /\ answer \in [Peer -> Answers \cup {NONE}]
      /\ identity \in [Endpoints -> Peer \cup {NONE}]
      /\ asked \in [Peer -> Addr \cup {NONE}]
      /\ crashed = "no"
  BY DEF Init
<1>7. used \in 0..MaxHandlers
  BY BoundAssumption DEF Init
<1>8. TypeOK
  BY <1>2, <1>3, <1>4, <1>5, <1>6, <1>7 DEF TypeOK
<1>. QED BY <1>1, <1>2, <1>5, <1>8 DEF TypeInv, AppPart, PeerPart

(* Every step keeps the types.                                             *)
LEMMA StepType ==
  ASSUME TypeInv, [Next]_vars
  PROVE  TypeInv'
<1>1. ASSUME NEW a \in Addr \ {ConfigAddr}, NEW s \in Service, AddService(a, s) PROVE TypeInv'
  BY <1>1, AddServiceType
<1>2. ASSUME NEW s \in Service, RemoveService(s) PROVE TypeInv'
  BY <1>2, RemoveType
<1>3. CASE FreeServer
  BY <1>3, FreeType
<1>4. CASE AppStep
  BY <1>4, ListenType, SessionType, RegisterType, ReplaceType DEF AppStep
<1>5. ASSUME NEW e \in Endpoints, ThreadStep(e) PROVE TypeInv'
  BY <1>5, RecvEffect, PointEffect, ReplyEffect DEF ThreadStep
<1>6. ASSUME NEW p \in Peer, NEW a \in Addr, Send(p, a) PROVE TypeInv'
  BY <1>6, SendEffect
<1>7. CASE UNCHANGED vars
  BY <1>7, CrashType DEF vars
<1>. QED BY <1>1, <1>2, <1>3, <1>4, <1>5, <1>6, <1>7 DEF Next

LEMMA Typing == Spec => []TypeInv
  BY InitialType, StepType, PTL DEF Spec

(* Every variable keeps its type; the walk of removeService leaves a       *)
(* vector of the handlers that were in it.                                 *)
THEOREM TypeCorrect == Spec => []TypeOK
<1>1. TypeInv => TypeOK
  BY DEF TypeInv
<1>. QED BY Typing, <1>1, PTL

(* Only removeService takes a service out of services_; if one entry of    *)
(* the vector is of that service, this entry goes and the others stay in   *)
(* their order (Network.cpp: removeService).                               *)
THEOREM RemovalKeepsTheOthers == Spec => RemovalIsExact
<1>. DEFINE Exact == \A s \in services \ services', i \in DOMAIN vector :
                       (\A j \in DOMAIN vector : vector[j].service = s <=> j = i)
                         => vector' = SubSeq(vector, 1, i - 1)
                                        \o SubSeq(vector, i + 1, Len(vector))
<1>1. ASSUME TypeInv, [Next]_vars, NEW s \in services \ services', NEW i \in DOMAIN vector,
             \A j \in DOMAIN vector : vector[j].service = s <=> j = i
      PROVE  vector' = SubSeq(vector, 1, i - 1) \o SubSeq(vector, i + 1, Len(vector))
  <2>1. PICK x \in Service : RemoveService(x)
    <3>1. CASE AppStep
      BY <1>1, <3>1 DEF AppStep, Listen, InsertSession, SetUserData, Register, Replace
    <3>2. ASSUME NEW e \in Endpoints, ThreadStep(e) PROVE FALSE
      BY <1>1, <3>2 DEF ThreadStep, Recv, Callback, Configured, Find, Call, Reply, serverVars
    <3>3. CASE UNCHANGED vars
      BY <1>1, <3>3 DEF vars, serverVars
    <3>. QED BY <1>1, <3>1, <3>2, <3>3 DEF Next, AddService, FreeServer, Send, serverVars
  <2>2. x = s /\ vector' = Removed(vector, s)
    BY <1>1, <2>1 DEF RemoveService
  <2>3. vector \in Seq(Entries)
    BY <1>1 DEF TypeInv, TypeOK
  <2>4. Removed(vector, s) = SubSeq(vector, 1, i - 1) \o SubSeq(vector, i + 1, Len(vector))
    BY <1>1, <2>3, RemovedOne
  <2>. QED BY <2>2, <2>4
<1>2. TypeInv /\ [Next]_vars => [Exact]_vars
  BY <1>1
<1>. QED BY Typing, <1>2, PTL DEF Spec, RemovalIsExact

-----------------------------------------------------------------------------
(* Handlers are numbered as they are made: a listed one and the one that   *)
(* the program is about to list are different, and neither has been        *)
(* deleted but for the one that Register has deleted and Replace has not   *)
(* yet replaced.                                                           *)
IdPart ==
  /\ \A i \in DOMAIN vector : vector[i].id <= used
  /\ \A i, j \in DOMAIN vector : vector[i].id = vector[j].id => i = j
  /\ \A h \in freed : h <= used
  /\ app.service # NONE =>
       app.id = used /\ used \notin freed /\ \A i \in DOMAIN vector : vector[i].id # used

AlivePart ==
  /\ app.pc \notin {"replace", "gone"} => \A i \in DOMAIN vector : vector[i].id \notin freed
  /\ app.pc = "replace" =>
       \A i, j \in DOMAIN vector : vector[i].id \in freed /\ vector[j].id \in freed => i = j

UniquePart == \A i, j \in DOMAIN vector : Equals(vector[i].addr, vector[j].addr) => i = j

ListInv == IdPart /\ AlivePart /\ UniquePart

LEMMA EqualsSymmetric == ASSUME NEW a, NEW b, Equals(a, b) PROVE Equals(b, a)
  BY DEF Equals

LEMMA VectorType ==
  ASSUME TypeInv
  PROVE  /\ vector \in Seq(Entries) /\ Len(vector) \in Nat /\ DOMAIN vector = 1..Len(vector)
         /\ \A i \in DOMAIN vector : vector[i] \in Entries /\ vector[i].id \in Nat
         /\ used \in Nat /\ app.id \in Nat /\ freed \subseteq Nat
<1>1. vector \in Seq(Entries) /\ used \in 0..MaxHandlers /\ app \in Calls /\ freed \subseteq Handler
  BY DEF TypeInv, TypeOK
<1>2. \A i \in DOMAIN vector : vector[i] \in Entries
  BY <1>1
<1>3. \A n \in Entries : n.id \in Nat
  BY BoundAssumption DEF Entries, Handler
<1>4. app.id \in Nat
  BY <1>1, BoundAssumption DEF Calls
<1>. QED BY <1>1, <1>2, <1>3, <1>4, BoundAssumption DEF Handler

(* Nothing is said of the handlers.                                        *)
LEMMA GoesOnList ==
  ASSUME ListInv, GoesOn
  PROVE  ListInv'
<1>1. CASE app' = app
  BY <1>1 DEF GoesOn, ListInv, IdPart, AlivePart, UniquePart
<1>2. CASE app.pc \in {"listen", "session", "userdata"} /\ app' = Idle
  BY <1>2, IdleType DEF GoesOn, ListInv, IdPart, AlivePart, UniquePart
<1>3. CASE /\ app.pc \in {"listen", "session", "userdata"}
           /\ app'.pc \in {"register", "session", "userdata"}
           /\ app'.addr = app.addr /\ app'.service = app.service /\ app'.id = app.id
  BY <1>3 DEF GoesOn, ListInv, IdPart, AlivePart, UniquePart
<1>. QED BY <1>1, <1>2, <1>3 DEF GoesOn

LEMMA AddServiceList ==
  ASSUME TypeInv, ListInv, NEW a \in Addr, NEW s \in Service, AddService(a, s)
  PROVE  ListInv'
<1>1. /\ app.pc = "idle" /\ used' = used + 1 /\ UNCHANGED <<vector, freed>>
      /\ app'.pc = "listen" /\ app'.id = used'
  BY IdleType DEF AddService
<1>2. \A h \in Nat : h <= used => h <= used' /\ h # used'
  BY <1>1, VectorType
<1>3. IdPart'
  BY <1>1, <1>2, VectorType DEF ListInv, IdPart
<1>4. AlivePart' /\ UniquePart'
  BY <1>1 DEF ListInv, AlivePart, UniquePart
<1>. QED BY <1>3, <1>4 DEF ListInv

LEMMA RegisterList ==
  ASSUME TypeInv, ListInv, Register
  PROVE  ListInv'
<1>1. app.service # NONE /\ app.pc = "register" /\ used' = used
  BY RegisterType, NoneAssumption DEF Register
<1>2. CASE \E i \in DOMAIN vector :
             /\ freed' = freed \cup {vector[i].id} /\ vector' = vector
             /\ app' = [app EXCEPT !.pc = "replace"]
  <2>1. PICK k \in DOMAIN vector : freed' = freed \cup {vector[k].id} /\ vector' = vector
    BY <1>2
  <2>2. app \in Calls
    BY DEF TypeInv, TypeOK
  <2>3. app'.pc = "replace" /\ app'.service = app.service /\ app'.id = app.id
    BY <1>2, <2>2, CallType
  <2>4. IdPart'
    BY <1>1, <2>1, <2>3 DEF ListInv, IdPart
  <2>5. AlivePart'
    BY <1>1, <2>1, <2>3 DEF ListInv, IdPart, AlivePart
  <2>. QED BY <2>1, <2>4, <2>5 DEF ListInv, UniquePart
<1>3. CASE /\ \A i \in DOMAIN vector : ~Equals(vector[i].addr, app.addr)
           /\ vector' = Append(vector, Entry) /\ app' = Idle /\ freed' = freed
  <2>1. /\ DOMAIN vector' = 1..(Len(vector) + 1) /\ vector'[Len(vector) + 1] = Entry
        /\ \A i \in DOMAIN vector : vector'[i] = vector[i]
    <3>1. /\ vector' \in Seq(Entries) /\ Len(vector') = Len(vector) + 1
          /\ \A i \in 1..Len(vector) : vector'[i] = vector[i]
          /\ vector'[Len(vector) + 1] = Entry
      BY <1>3, RegisterType, VectorType, AppendProperties
    <3>. QED BY <3>1, VectorType
  <2>2. \A i \in DOMAIN vector' : i \in DOMAIN vector \/ i = Len(vector) + 1
    BY <2>1, VectorType
  <2>3. Entry.id = used /\ Entry.addr = app.addr
    BY <1>1, RegisterType DEF ListInv, IdPart
  <2>4. IdPart'
    BY <1>1, <1>3, <2>1, <2>2, <2>3, IdleType, VectorType DEF ListInv, IdPart
  <2>5. AlivePart'
    BY <1>1, <1>3, <2>1, <2>2, <2>3, IdleType DEF ListInv, IdPart, AlivePart
  <2>6. UniquePart'
    BY <1>3, <2>1, <2>2, <2>3, EqualsSymmetric DEF ListInv, UniquePart
  <2>. QED BY <2>4, <2>5, <2>6 DEF ListInv
<1>. QED BY <1>2, <1>3 DEF Register

LEMMA ReplaceList ==
  ASSUME TypeInv, ListInv, Replace
  PROVE  ListInv'
<1>1. app.service # NONE /\ app.pc = "replace" /\ UNCHANGED <<used, freed>> /\ app' = Idle
  BY ReplaceType, NoneAssumption DEF Replace
<1>2. PICK k \in DOMAIN vector, n \in Entries :
        /\ vector[k].id \in freed /\ vector' = [vector EXCEPT ![k] = n]
        /\ n.addr = vector[k].addr /\ n.id = app.id
  BY ReplaceType
<1>3. /\ DOMAIN vector' = DOMAIN vector /\ vector'[k] = n
      /\ \A i \in DOMAIN vector \ {k} : vector'[i] = vector[i]
  BY <1>2, VectorType
<1>4. n.id = used
  BY <1>1, <1>2 DEF ListInv, IdPart
<1>5. IdPart'
  BY <1>1, <1>3, <1>4, IdleType, VectorType DEF ListInv, IdPart
<1>6. AlivePart'
  BY <1>1, <1>2, <1>3, <1>4, IdleType DEF ListInv, IdPart, AlivePart
<1>7. UniquePart'
  <2>1. \A i \in DOMAIN vector : vector'[i].addr = vector[i].addr
    BY <1>2, <1>3
  <2>. QED BY <1>3, <2>1 DEF ListInv, UniquePart
<1>. QED BY <1>5, <1>6, <1>7 DEF ListInv

LEMMA RemoveList ==
  ASSUME TypeInv, ListInv, NEW s \in Service, RemoveService(s)
  PROVE  ListInv'
<1>1. UNCHANGED <<app, used, freed>> /\ app = Idle
  BY DEF RemoveService
<1>2. PICK f : /\ f \in [DOMAIN vector' -> DOMAIN vector]
               /\ \A k \in DOMAIN vector' : vector'[k] = vector[f[k]]
               /\ \A j, k \in DOMAIN vector' : f[j] = f[k] => j = k
  <2>1. vector' = Removed(vector, s)
    BY DEF RemoveService
  <2>2. PICK v : v = Removed(vector, s)
    OBVIOUS
  <2>3. \E f : /\ f \in [DOMAIN v -> DOMAIN vector]
               /\ \A k \in DOMAIN v : v[k] = vector[f[k]]
               /\ \A j, k \in DOMAIN v : f[j] = f[k] => j = k
    <3>1. vector \in Seq(Entries)
      BY VectorType
    <3>2. \A S, t : \A w \in Seq(S) :
             \E f : /\ f \in [DOMAIN Removed(w, t) -> DOMAIN w]
                    /\ \A k \in DOMAIN Removed(w, t) : Removed(w, t)[k] = w[f[k]]
                    /\ \A j, k \in DOMAIN Removed(w, t) : f[j] = f[k] => j = k
      BY RemovedSelects, Zenon
    <3>3. \E f : /\ f \in [DOMAIN Removed(vector, s) -> DOMAIN vector]
                 /\ \A k \in DOMAIN Removed(vector, s) : Removed(vector, s)[k] = vector[f[k]]
                 /\ \A j, k \in DOMAIN Removed(vector, s) : f[j] = f[k] => j = k
      BY <3>1, <3>2
    <3>. QED BY <2>2, <3>3, Zenon
  <2>4. vector' = v
    BY <2>1, <2>2
  <2>. QED BY <2>3, <2>4, Zenon
<1>3. \A k \in DOMAIN vector' : f[k] \in DOMAIN vector
  BY <1>2
<1>4. IdPart'
  BY <1>1, <1>2, <1>3 DEF ListInv, IdPart
<1>5. AlivePart'
  BY <1>1, <1>2, <1>3, IdleType DEF ListInv, AlivePart
<1>6. UniquePart'
  BY <1>2, <1>3 DEF ListInv, UniquePart
<1>. QED BY <1>4, <1>5, <1>6 DEF ListInv

LEMMA FreeList ==
  ASSUME TypeInv, ListInv, FreeServer
  PROVE  ListInv'
<1>1. /\ UNCHANGED <<vector, used>> /\ freed' = freed \cup {vector[i].id : i \in DOMAIN vector}
      /\ app' = [Idle EXCEPT !.pc = "gone"]
  BY DEF FreeServer
<1>2. IdPart'
  BY <1>1, IdleType DEF ListInv, IdPart
<1>3. AlivePart' /\ UniquePart'
  BY <1>1, IdleType DEF ListInv, AlivePart, UniquePart
<1>. QED BY <1>2, <1>3 DEF ListInv

LEMMA ListInvariance == Spec => [](TypeInv /\ ListInv)
<1>1. Init => TypeInv /\ ListInv
  <2>. SUFFICES ASSUME Init PROVE TypeInv /\ ListInv
    OBVIOUS
  <2>1. TypeInv
    BY InitialType
  <2>2. DOMAIN vector = {} /\ freed = {}
    BY DEF Init
  <2>3. app.service = NONE
    BY DEF Init, Idle
  <2>. QED BY <2>1, <2>2, <2>3 DEF ListInv, IdPart, AlivePart, UniquePart
<1>2. ASSUME TypeInv, ListInv, [Next]_vars PROVE ListInv'
  <2>1. ASSUME NEW a \in Addr \ {ConfigAddr}, NEW s \in Service, AddService(a, s) PROVE ListInv'
    BY <1>2, <2>1, AddServiceList
  <2>2. ASSUME NEW s \in Service, RemoveService(s) PROVE ListInv'
    BY <1>2, <2>2, RemoveList
  <2>3. CASE FreeServer
    BY <1>2, <2>3, FreeList
  <2>4. CASE AppStep
    BY <1>2, <2>4, ListenType, SessionType, GoesOnList, RegisterList, ReplaceList DEF AppStep
  <2>5. CASE UNCHANGED <<vector, freed, used, app>>
    BY <1>2, <2>5 DEF ListInv, IdPart, AlivePart, UniquePart
  <2>6. ASSUME NEW e \in Endpoints, ThreadStep(e) PROVE ListInv'
    BY <2>5, <2>6 DEF ThreadStep, Recv, Callback, Configured, Find, Call, Reply, serverVars
  <2>7. ASSUME NEW p \in Peer, NEW a \in Addr, Send(p, a) PROVE ListInv'
    BY <2>5, <2>7 DEF Send, serverVars
  <2>8. CASE UNCHANGED vars
    BY <2>5, <2>8 DEF vars, serverVars
  <2>. QED BY <1>2, <2>1, <2>2, <2>3, <2>4, <2>6, <2>7, <2>8 DEF Next
<1>. QED BY <1>1, <1>2, StepType, PTL DEF Spec

(* Between the calls of the program no handler in serviceHandlers_ has     *)
(* been deleted, and no address is there twice, whatever was added,        *)
(* replaced and removed (Network.cpp: addService, removeService).          *)
THEOREM HandlersAreAlive == Spec => []ListedIsAlive
<1>1. ListInv => ListedIsAlive
  BY IdleType DEF ListInv, AlivePart, UniquePart, ListedIsAlive
<1>. QED BY ListInvariance, <1>1, PTL

-----------------------------------------------------------------------------
(* How far an endpoint has got: only the call that opens it sees it        *)
(* without session or pointer, and only an open one has requests.          *)
ListenPart ==
  \A e \in Endpoints :
    /\ listener[e] # "none" => entries[e] # NONE
    /\ app.pc = "session" /\ Endpoint(app.addr) = e => entries[e] # NONE
    /\ listener[e] = "proxy" => app.pc = "session" /\ Endpoint(app.addr) = e
    /\ listener[e] = "open" => e \in userData \/ (app.pc = "userdata" /\ Endpoint(app.addr) = e)
    /\ inbox[e] # <<>> => listener[e] # "none"
    /\ Busy(e) => listener[e] = "open"

LEMMA ListenListen ==
  ASSUME TypeInv, ListenPart, Listen
  PROVE  ListenPart'
<1>1. /\ app.pc = "listen" /\ UNCHANGED <<userData, inbox, thread>>
      /\ app.addr \in Addr /\ app \in Calls
  BY DEF Listen, TypeInv, TypeOK, AppPart, threadVars, peerVars
<1>2. PICK e \in Endpoints : e = Endpoint(app.addr)
  BY <1>1 DEF Endpoints
<1>3. app.addr.transport \in Transports /\ app.addr.transport # NONE
  BY <1>1, AddrAssumption, NoneAssumption
<1>4. \A d \in Endpoints : listener[d] # "proxy" /\ (listener[d] = "open" => d \in userData)
  BY <1>1 DEF ListenPart
<1>5. CASE UNCHANGED <<entries, listener>> /\ app' \in {AfterListen, Idle}
  <2>1. app'.pc # "session"
    BY <1>1, <1>5, AfterListenType, IdleType
  <2>. QED BY <1>1, <1>4, <1>5, <2>1 DEF ListenPart, Busy
<1>6. entries \in [Endpoints -> Transports \cup {NONE}]
      /\ listener \in [Endpoints -> {"none", "proxy", "open"}]
  BY DEF TypeInv, TypeOK
<1>7. CASE /\ entries[e] = NONE /\ entries' = [entries EXCEPT ![e] = app.addr.transport]
           /\ listener' = listener /\ app' = app
  <2>1. \A d \in Endpoints : entries[d] # NONE => entries'[d] # NONE
    BY <1>3, <1>6, <1>7
  <2>. QED BY <1>1, <1>4, <1>7, <2>1 DEF ListenPart, Busy
<1>8. CASE /\ entries[e] = NONE /\ entries' = [entries EXCEPT ![e] = app.addr.transport]
           /\ listener' = [listener EXCEPT ![e] =
                             IF app.addr.transport = "tcp" THEN "proxy" ELSE "open"]
           /\ app' = [app EXCEPT !.pc = IF app.addr.transport = "tcp" THEN "session" ELSE "userdata"]
  <2>1. /\ app'.addr = app.addr
        /\ app'.pc = IF app.addr.transport = "tcp" THEN "session" ELSE "userdata"
    BY <1>1, <1>8 DEF Calls
  <2>2. /\ entries'[e] # NONE
        /\ listener'[e] = IF app.addr.transport = "tcp" THEN "proxy" ELSE "open"
        /\ \A d \in Endpoints \ {e} : entries'[d] = entries[d] /\ listener'[d] = listener[d]
    BY <1>3, <1>6, <1>8
  <2>3. listener[e] = "none"
    BY <1>6, <1>8 DEF ListenPart
  <2>. SUFFICES ASSUME NEW d \in Endpoints
                PROVE  /\ listener'[d] # "none" => entries'[d] # NONE
                       /\ app'.pc = "session" /\ Endpoint(app'.addr) = d => entries'[d] # NONE
                       /\ listener'[d] = "proxy" => app'.pc = "session" /\ Endpoint(app'.addr) = d
                       /\ listener'[d] = "open" =>
                            d \in userData' \/ (app'.pc = "userdata" /\ Endpoint(app'.addr) = d)
                       /\ inbox'[d] # <<>> => listener'[d] # "none"
                       /\ Busy(d)' => listener'[d] = "open"
    BY DEF ListenPart
  <2>4. CASE d = e
    BY <1>1, <1>2, <2>1, <2>2, <2>3, <2>4 DEF ListenPart, Busy
  <2>5. CASE d # e
    BY <1>1, <1>2, <1>4, <2>1, <2>2, <2>5 DEF ListenPart, Busy
  <2>. QED BY <2>4, <2>5
<1>. QED BY <1>2, <1>5, <1>7, <1>8 DEF Listen

LEMMA SessionListen ==
  ASSUME TypeInv, ListenPart, InsertSession \/ SetUserData
  PROVE  ListenPart'
<1>1. /\ UNCHANGED <<entries, inbox, thread>>
      /\ app.addr \in Addr /\ app \in Calls /\ app.pc \in {"session", "userdata"}
  BY DEF InsertSession, SetUserData, TypeInv, TypeOK, AppPart, threadVars, peerVars
<1>2. PICK e \in Endpoints : e = Endpoint(app.addr)
  BY <1>1 DEF Endpoints
<1>3. CASE InsertSession
  <2>1. /\ app'.pc = "userdata" /\ app'.addr = app.addr /\ app.pc = "session"
        /\ userData' = userData
    BY <1>1, <1>3 DEF InsertSession, Calls
  <2>2. listener' = [listener EXCEPT ![e] = "open"]
    BY <1>2, <1>3 DEF InsertSession
  <2>3. listener'[e] = "open" /\ \A d \in Endpoints \ {e} : listener'[d] = listener[d]
    BY <2>2 DEF TypeInv, TypeOK
  <2>4. entries[e] # NONE
    BY <1>2, <2>1 DEF ListenPart
  <2>. QED BY <1>1, <1>2, <2>1, <2>3 DEF ListenPart, Busy
<1>4. CASE SetUserData
  <2>1. /\ userData' = userData \cup {e} /\ UNCHANGED listener /\ app.pc = "userdata"
        /\ app' = AfterListen
    BY <1>2, <1>4 DEF SetUserData
  <2>2. app'.pc # "session"
    BY <1>1, <2>1, AfterListenType, IdleType
  <2>. QED BY <1>1, <1>2, <2>1, <2>2 DEF ListenPart, Busy
<1>. QED BY <1>3, <1>4

LEMMA OtherListen ==
  ASSUME ListenPart, UNCHANGED <<entries, listener, userData, inbox, thread>>,
         app' = app \/ (app.pc \notin {"session", "userdata"} /\ app'.pc # "session")
  PROVE  ListenPart'
  BY DEF ListenPart, Busy

LEMMA ThreadListen ==
  ASSUME TypeInv, ListenPart, NEW e \in Endpoints, ThreadStep(e)
  PROVE  ListenPart'
<1>1. UNCHANGED <<entries, listener, userData, app>>
  BY DEF ThreadStep, Recv, Callback, Configured, Find, Call, Reply, serverVars
<1>2. thread \in [Endpoints -> Threads]
  BY DEF TypeInv, TypeOK
<1>3. CASE UNCHANGED <<thread, inbox>>
  BY <1>1, <1>3, OtherListen
<1>4. ASSUME NEW n \in Threads, thread' = [thread EXCEPT ![e] = n], listener[e] = "open",
             \A d \in Endpoints \ {e} : inbox'[d] = inbox[d]
      PROVE  ListenPart'
  <2>1. \A d \in Endpoints \ {e} : thread'[d] = thread[d] /\ inbox'[d] = inbox[d]
    BY <1>2, <1>4
  <2>. SUFFICES ASSUME NEW d \in Endpoints
                PROVE  /\ inbox'[d] # <<>> => listener[d] # "none"
                       /\ Busy(d)' => listener[d] = "open"
    BY <1>1 DEF ListenPart
  <2>2. CASE d = e
    BY <1>4, <2>2
  <2>3. CASE d # e
    BY <2>1, <2>3 DEF ListenPart, Busy
  <2>. QED BY <2>2, <2>3
<1>5. CASE Recv(e)
  <2>1. CASE UNCHANGED <<thread, inbox>>
    BY <1>3, <2>1
  <2>2. CASE \E n \in Threads : /\ thread' = [thread EXCEPT ![e] = n] /\ listener[e] = "open"
                                /\ inbox' = [inbox EXCEPT ![e] = Tail(inbox[e])]
    <3>1. \A d \in Endpoints \ {e} : inbox'[d] = inbox[d]
      BY <2>2 DEF TypeInv, TypeOK
    <3>. QED BY <1>4, <2>2, <3>1
  <2>. QED BY <1>5, <2>1, <2>2, RecvEffect
<1>6. CASE Callback(e) \/ Configured(e) \/ Find(e) \/ Call(e)
  <2>1. inbox' = inbox /\ listener[e] = "open"
    BY <1>6, PointEffect DEF peerVars, ListenPart
  <2>2. UNCHANGED thread \/ \E n \in Threads : thread' = [thread EXCEPT ![e] = n]
    BY <1>6, PointEffect
  <2>. QED BY <1>3, <1>4, <2>1, <2>2
<1>7. CASE Reply(e)
  <2>1. inbox' = inbox /\ listener[e] = "open" /\ thread' = [thread EXCEPT ![e] = Waiting]
    BY <1>7, ReplyEffect DEF ListenPart
  <2>. QED BY <1>4, <2>1, IdleType
<1>. QED BY <1>5, <1>6, <1>7 DEF ThreadStep

LEMMA SendListen ==
  ASSUME TypeInv, ListenPart, NEW p \in Peer, NEW a \in Addr, Send(p, a)
  PROVE  ListenPart'
<1>1. PICK e \in Endpoints : e = Endpoint(a)
  BY DEF Endpoints
<1>2. /\ UNCHANGED <<entries, listener, userData, app, thread>> /\ listener[e] # "none"
      /\ \A d \in Endpoints \ {e} : inbox'[d] = inbox[d]
  <2>1. UNCHANGED <<serverVars, thread>> /\ listener[e] # "none"
    BY <1>1, SendEffect
  <2>2. PICK r \in [peer : Peer, addr : Addr] : inbox' = [inbox EXCEPT ![e] = Append(inbox[e], r)]
    BY <1>1, SendEffect
  <2>3. inbox \in [Endpoints -> Seq([peer : Peer, addr : Addr])]
    BY DEF TypeInv, TypeOK
  <2>4. \A d \in Endpoints \ {e} : inbox'[d] = inbox[d]
    BY <2>2, <2>3
  <2>. QED BY <2>1, <2>4 DEF serverVars
<1>. SUFFICES ASSUME NEW d \in Endpoints, inbox'[d] # <<>> PROVE listener[d] # "none"
  BY <1>2 DEF ListenPart, Busy
<1>. QED BY <1>2 DEF ListenPart

LEMMA ListenInvariance == Spec => []ListenPart
<1>1. Init => ListenPart
  BY DEF Init, ListenPart, Busy, Waiting, Idle
<1>2. ASSUME TypeInv, ListenPart, [Next]_vars PROVE ListenPart'
  <2>1. ASSUME NEW a \in Addr \ {ConfigAddr}, NEW s \in Service, AddService(a, s) PROVE ListenPart'
    BY <1>2, <2>1, OtherListen, IdleType DEF AddService, threadVars, peerVars
  <2>2. ASSUME NEW s \in Service, RemoveService(s) PROVE ListenPart'
    BY <1>2, <2>2, OtherListen DEF RemoveService, threadVars, peerVars
  <2>3. CASE FreeServer
    BY <1>2, <2>3, OtherListen, IdleType DEF FreeServer, threadVars, peerVars
  <2>4. CASE Listen \/ InsertSession \/ SetUserData
    BY <1>2, <2>4, ListenListen, SessionListen
  <2>5. CASE Register \/ Replace
    <3>1. UNCHANGED <<entries, listener, userData, inbox, thread>>
      BY <2>5 DEF Register, Replace, threadVars, peerVars
    <3>2. app.pc \in {"register", "replace"} /\ app'.pc \in {"idle", "replace"}
      <4>1. app.pc \in {"register", "replace"} /\ app \in Calls
        BY <1>2, <2>5 DEF Register, Replace, TypeInv, TypeOK
      <4>2. CASE app' = Idle
        BY <4>1, <4>2, IdleType
      <4>3. CASE app' = [app EXCEPT !.pc = "replace"]
        BY <4>1, <4>3, CallType
      <4>. QED BY <2>5, <4>2, <4>3 DEF Register, Replace
    <3>. QED BY <1>2, <3>1, <3>2, OtherListen
  <2>6. ASSUME NEW e \in Endpoints, ThreadStep(e) PROVE ListenPart'
    BY <1>2, <2>6, ThreadListen
  <2>7. ASSUME NEW p \in Peer, NEW a \in Addr, Send(p, a) PROVE ListenPart'
    BY <1>2, <2>7, SendListen
  <2>8. CASE UNCHANGED vars
    BY <1>2, <2>8, OtherListen DEF vars, serverVars, threadVars, peerVars
  <2>. QED BY <1>2, <2>1, <2>2, <2>3, <2>4, <2>5, <2>6, <2>7, <2>8 DEF Next, AppStep
<1>. QED BY <1>1, <1>2, Typing, PTL DEF Spec

(* Whatever requests arrive at whatever moment: while the server exists a  *)
(* thread meets a listener without session or server, or a deleted handler *)
(* in the list, only inside the call of the program that is opening that   *)
(* listener or replacing that handler (Network.cpp:499, 782,               *)
(* KT_Zeromq.cpp:322).                                                     *)
THEOREM OnlyCallsExpose == Spec => []ExposedOnlyInCalls
<1>1. ASSUME TypeInv, ListInv, ListenPart PROVE ExposedOnlyInCalls
  <2>. SUFFICES ASSUME app.pc # "gone", NEW e \in Endpoints
                PROVE  /\ thread[e] = Waiting /\ inbox[e] # <<>> /\ listener[e] # "open"
                            => app.pc = "session" /\ Endpoint(app.addr) = e
                       /\ thread[e].pc = "callback" /\ e \notin userData
                            => app.pc = "userdata" /\ Endpoint(app.addr) = e
                       /\ thread[e].pc = "config" /\ (\E i \in DOMAIN vector : vector[i].id \in freed)
                            => app.pc = "replace"
                       /\ thread[e].pc = "call" /\ thread[e].found \in freed
                            => \/ app.pc = "replace"
                               \/ \A i \in DOMAIN vector : vector[i].id # thread[e].found
    BY DEF ExposedOnlyInCalls
  <2>1. listener[e] \in {"none", "proxy", "open"}
    BY <1>1 DEF TypeInv, TypeOK
  <2>2. inbox[e] # <<>> /\ listener[e] # "open" => app.pc = "session" /\ Endpoint(app.addr) = e
    BY <1>1, <2>1 DEF ListenPart
  <2>3. thread[e].pc = "callback" /\ e \notin userData => app.pc = "userdata" /\ Endpoint(app.addr) = e
    BY <1>1 DEF ListenPart, Busy
  <2>4. app.pc = "replace" \/ \A i \in DOMAIN vector : vector[i].id \notin freed
    BY <1>1 DEF ListInv, AlivePart
  <2>. QED BY <2>2, <2>3, <2>4
<1>. QED BY <1>1, ListInvariance, ListenInvariance, PTL

=============================================================================
