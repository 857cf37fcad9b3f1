--------------------------- MODULE HttpConnection ---------------------------
(***************************************************************************)
(* The server's end of an HTTP connection (Transport/HttpTransport.cpp and *)
(* HttpRequestParser.cpp): reads fill a buffer, the parser takes what has  *)
(* come, a complete request is handled and its response written, and the   *)
(* completion of a write starts the next round.  All handlers run on one   *)
(* strand, so each of them is a step.                                      *)
(*                                                                         *)
(* The bytes of a message are the tokens at which http_parser, which is    *)
(* external code, calls back; a read may end between any two of them.      *)
(***************************************************************************)
EXTENDS Integers, Sequences, SequencesExt

CONSTANTS
  MaxMessages,  (* bound: messages the client sends                        *)
  MaxAnswers,   (* bound: responses that reach the client                  *)
  NOBODY

ASSUME HttpBounds == MaxMessages \in Nat /\ MaxAnswers \in Nat

Message == 1..MaxMessages

VARIABLES
  orderly,   (* the client is well-behaved: see Kinds and ClientSend       *)
  sent,      (* messages the client has sent                               *)
  wire,      (* tokens on their way to the server                          *)
  broken,    (* the client has gone                                        *)
  answers,   (* responses that have reached the client                     *)
  conn       (* the members of the HttpConnection and of its parser        *)

httpVars == <<orderly, sent, wire, broken, answers, conn>>

(* The kinds of messages: an orderly client sends requests as they should  *)
(* be, others anything.                                                    *)
Kinds ==
  {"get", "post"} \cup (IF orderly THEN {} ELSE {"expect", "expect other", "crlf", "upgrade", "bad name",
                                      "bad value"})

(* What http_parser sees of a message: names ("begin" for the first) and   *)
(* values of headers, the end of the headers ("last" when no body          *)
(* follows), parts of a body, a line end some clients add to a body, and   *)
(* what it rejects.                                                        *)
Script(kind) ==
  CASE kind = "get"       -> <<"begin", "value", "name", "value", "last">>
    [] kind = "post"      -> <<"begin", "value", "end", "part", "body">>
    [] kind = "expect"    -> <<"begin", "continue", "end", "body">>
    [] kind = "expect other" -> <<"begin", "other", "end", "body">>
    [] kind = "crlf"      -> <<"begin", "value", "end", "body", "crlf">>
    [] kind = "upgrade"   -> <<"begin", "value", "upgrade">>
    [] kind = "bad name"  -> <<"begin", "bad">>
    [] kind = "bad value" -> <<"begin", "value", "bad">>

Tokens(m, kind) == [i \in DOMAIN Script(kind) |-> [of |-> m, is |-> Script(kind)[i]]]

(* A header: the messages whose text it is made of, and whether it is an   *)
(* Expect header, with the value 100-continue ("continue") or another.     *)
NoHeader == [from |-> {}, expect |-> "none"]
NoRequest == [of |-> NOBODY, headers |-> {}, payload |-> 0]

(* A response: what it is, and the request it is made for.                 *)
Answer(request) == [is |-> "answer", to |-> request]
Page(status) == [is |-> status, to |-> NoRequest]

-----------------------------------------------------------------------------
(* HttpRequestParser: PrivateImpl and its callbacks. *)

AddHeader(c) == [c EXCEPT !.request.headers = @ \cup {c.header}, !.header = NoHeader]

MessageBegin(c, m) ==
  [c EXCEPT !.request = [NoRequest EXCEPT !.of = m], !.parsed = "headers"]

HeaderField(c, m) ==
  LET d == IF c.lastWasValue THEN AddHeader(c) ELSE c
  IN [d EXCEPT !.header.from = @ \cup {m}, !.lastWasValue = FALSE]

HeaderValue(c, m, expect) ==
  [c EXCEPT !.header.from = @ \cup {m}, !.header.expect = expect, !.lastWasValue = TRUE]

HeadersComplete(c) ==
  IF c.lastWasValue
  THEN [AddHeader(c) EXCEPT !.lastWasValue = FALSE, !.parsed = "content"]
  ELSE c

\* Mutant: a part of the body takes the place of the last.
BodyReplaced(c) == [c EXCEPT !.request.payload = 1]

Body(c) == [c EXCEPT !.request.payload = @ + 1]

MessageComplete(c) == [c EXCEPT !.parsed = "finished"]

Callbacks(c, t) ==
  CASE t.is = "begin"  -> HeaderField(MessageBegin(c, t.of), t.of)
    [] t.is = "name"   -> HeaderField(c, t.of)
    [] t.is = "value"  -> HeaderValue(c, t.of, "none")
    [] t.is \in {"continue", "other"} -> HeaderValue(c, t.of, t.is)
    [] t.is = "end"    -> HeadersComplete(c)
    [] t.is \in {"last", "upgrade"} -> MessageComplete(HeadersComplete(c))
    [] t.is = "part"   -> Body(c)
    [] t.is = "body"   -> MessageComplete(Body(c))
    [] t.is = "crlf"   -> c

(* http_parser_execute goes on behind the end of a message, stops behind a *)
(* request to upgrade and before what it rejects.                          *)
Accepted(ts) ==
  LET stop == SelectInSeq(ts, LAMBDA t : t.is \in {"upgrade", "bad"})
  IN IF stop = 0 THEN Len(ts) ELSE IF ts[stop].is = "bad" THEN stop - 1 ELSE stop

Parse(c, ts) ==
  LET n == Accepted(ts)
      state[i \in 0..n] == IF i = 0 THEN c ELSE Callbacks(state[i - 1], ts[i])
      upgrade == n > 0 /\ ts[n].is = "upgrade"
  IN [state[n] EXCEPT !.status = IF n < Len(ts) /\ ~upgrade THEN "failed" ELSE state[n].parsed]

(* reset() initialises http_parser, and nothing of PrivateImpl.            *)
ParserReset(c) == c

-----------------------------------------------------------------------------
(* HttpConnection. *)

\* Mutant: a read is started while another one is under way.
StartReadAlways(c) == [c EXCEPT !.readInProgress = TRUE, !.reads = @ + 1]

StartRead(c) ==
  IF c.readInProgress THEN c
  ELSE [c EXCEPT !.readInProgress = TRUE, !.reads = @ + 1]

(* Set the response and hand its buffers to a write.  *)
Respond(c, response) ==
  [c EXCEPT !.response = response, !.writes = Append(@, response)]

(* Expect: 100-continue is answered at once and the header is erased; any  *)
(* other value is refused, and the request goes on all the same.           *)
Expectation(c) ==
  LET expects(value) == \E h \in c.request.headers : h.expect = value
  IN CASE expects("continue") -> [Respond(c, Page("continue"))
             EXCEPT !.request.headers = {h \in @ : h.expect # "continue"}]
       [] expects("other") /\ ~expects("continue") -> Respond(c, Page("expectation failed"))
       [] OTHER -> c

(* handleBuffer.  offset says that the data do not begin at the start of   *)
(* the buffer; bufferOffset_ = 0 means that nothing is left over, also     *)
(* when nothing at all has been accepted of what a read has delivered.     *)
HandleBuffer(c, ts, offset) ==
  LET n == Accepted(ts)
      d == [Parse(c, ts) EXCEPT
              !.left = IF n = 0 /\ ~offset THEN <<>> ELSE SubSeq(ts, n + 1, Len(ts))]
  IN CASE d.status = "failed"   -> Respond(d, Page("bad request"))
       [] d.status = "headers"  -> StartRead(d)
       [] d.status = "content"  -> StartRead(Expectation(d))
       [] d.status = "finished" -> Respond(Expectation(d), Answer(Expectation(d).request))

\* Mutant: the response is cleared and nothing is read any more.
HandleStartOnce(c) == [c EXCEPT !.response = Page("none")]

HandleStart(c) ==
  LET d == [IF c.status \in {"failed", "finished"}
            THEN [ParserReset(c) EXCEPT !.request = NoRequest, !.status = "finished"]
            ELSE c EXCEPT !.response = Page("none")]
  IN IF d.left # <<>> THEN HandleBuffer(d, d.left, TRUE) ELSE StartRead(d)

NewConnection ==
  [parsed |-> "headers", lastWasValue |-> FALSE, header |-> NoHeader,
   request |-> NoRequest, response |-> Page("none"), status |-> "finished", left |-> <<>>,
   readInProgress |-> FALSE, reads |-> 0, writes |-> <<>>, written |-> 0]

-----------------------------------------------------------------------------
HttpInit ==
  /\ orderly \in BOOLEAN
  /\ sent = 0
  /\ wire = <<>>
  /\ broken = FALSE
  /\ answers = <<>>
  /\ conn = HandleStart(NewConnection)

(* The client sends a message, an orderly one after the answer to its last. *)
ClientSend(kind) ==
  /\ ~broken /\ sent < MaxMessages
  /\ orderly => Len(answers) >= sent
  /\ sent' = sent + 1
  /\ wire' = wire \o Tokens(sent', kind)
  /\ UNCHANGED <<orderly, broken, answers, conn>>

(* The client goes, and what it has sent is lost.                          *)
HangUp ==
  /\ ~broken
  /\ broken' = TRUE
  /\ wire' = <<>>
  /\ UNCHANGED <<orderly, sent, answers, conn>>

(* A read ends with the first n tokens.  *)
HandleRead(n) ==
  /\ ~broken /\ conn.reads > 0
  /\ wire' = SubSeq(wire, n + 1, Len(wire))
  /\ conn' = HandleBuffer([conn EXCEPT !.reads = @ - 1, !.readInProgress = FALSE],
                          SubSeq(wire, 1, n), FALSE)
  /\ UNCHANGED <<orderly, sent, broken, answers>>

(* A write ends.  Its buffers point into response_: if that has changed,   *)
(* what is written is not what was meant.                                  *)
Write ==
  /\ ~broken /\ conn.writes # <<>> /\ Len(answers) < MaxAnswers
  /\ answers' = Append(answers, IF conn.response = Head(conn.writes)
                                THEN conn.response ELSE Page("garbage"))
  /\ conn' = [conn EXCEPT !.writes = Tail(@), !.written = @ + 1]
  /\ UNCHANGED <<orderly, sent, wire, broken>>

(* A read or a write ends with an error: nothing new is started.           *)
HandleError ==
  /\ broken
  /\ \/ conn.reads > 0 /\ conn' = [conn EXCEPT !.reads = @ - 1, !.readInProgress = FALSE]
     \/ conn.writes # <<>> /\ conn' = [conn EXCEPT !.writes = Tail(@)]
  /\ UNCHANGED <<orderly, sent, wire, broken, answers>>

(* The handler of the write starts the next round.  *)
HandleWrite ==
  /\ conn.written > 0
  /\ conn' = HandleStart([conn EXCEPT !.written = @ - 1])
  /\ UNCHANGED <<orderly, sent, wire, broken, answers>>

HttpNext ==
  \/ \E kind \in Kinds : ClientSend(kind)
  \/ \E n \in 1..Len(wire) : HandleRead(n)
  \/ Write
  \/ HandleWrite
  \/ HandleError
  \/ HangUp

(* The network delivers and the threads of the io_service run handlers.    *)
HttpFairness ==
  /\ WF_httpVars(\E n \in 1..Len(wire) : HandleRead(n))
  /\ WF_httpVars(Write) /\ WF_httpVars(HandleWrite) /\ WF_httpVars(HandleError)

HttpSpec == HttpInit /\ [][HttpNext]_httpVars /\ HttpFairness

-----------------------------------------------------------------------------
(* The request message m stands for: its headers and the parts of its body. *)
Proper(m) ==
  {[of |-> m, headers |-> {[from |-> {m}, expect |-> "none"]}, payload |-> n] : n \in {0, 2}}

HttpTypeOK ==
  /\ orderly \in BOOLEAN /\ broken \in BOOLEAN
  /\ sent \in 0..MaxMessages
  /\ conn.parsed \in {"headers", "content", "finished"}
  /\ conn.status \in {"failed", "headers", "content", "finished"}
  /\ conn.header.from \subseteq Message /\ conn.request.of \in Message \cup {NOBODY}
  /\ conn.lastWasValue \in BOOLEAN /\ conn.readInProgress \in BOOLEAN
  /\ conn.reads \in Nat /\ conn.written \in Nat
  /\ conn.readInProgress <=> conn.reads > 0

(* A read is under way, or a response is on its way, and never two of      *)
(* these: that is what keeps the connection alive and lets its handlers    *)
(* share the request, the response and the buffer.  When the client has    *)
(* gone the chain ends and the connection with it.  Whatever clients send  *)
(* and pipeline, no two reads ever fill the buffer at the same time.       *)
OneOperation ==
  LET operations == conn.reads + Len(conn.writes) + conn.written
  IN  /\ conn.reads =< 1
      /\ orderly => operations = 1 \/ (broken /\ operations = 0)

(* Every request gets its own answer, in order, however it was cut up.     *)
AnswersMatch ==
  orderly => \A i \in DOMAIN answers : answers[i] \in {Answer(request) : request \in Proper(i)}

(* A request that has been sent is answered, unless the client has gone.   *)
RequestsAnswered == \A m \in Message : orderly /\ sent >= m ~> Len(answers) >= m \/ broken

=============================================================================
