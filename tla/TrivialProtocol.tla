-------------------------- MODULE TrivialProtocol --------------------------
(***************************************************************************)
(* The trivial binary protocol (Components/TBP/tbp.c) over its buffers     *)
(* (CDT/kr_dbuffer.c): calls that follow each other on one connection of a *)
(* server that answers with ServiceHandler::performCall.  A message is     *)
(* a buffer and an offset; the reader has to find every value where the    *)
(* writer has put it, strings and method names behind a variable length    *)
(* integer with two ways to write it and three to read it.                 *)
(*                                                                         *)
(* Numbers are scaled down: a byte has the values 0..2*Radix-1, a group of *)
(* a variable length integer (7 bits) is a digit to the base Radix, and    *)
(* the integer is worked on in parts of PartGroups groups (4), each in     *)
(* a word of PartRange values (32 bits); ValueRange stands for 64 bits.    *)
(***************************************************************************)
EXTENDS Integers, Sequences, FiniteSetsExt, SequencesExt

CONSTANTS
  Radix, PartGroups, PartRange, ValueRange,
  Known,      (* the names of the service's methods                        *)
  Names,      (* the names that clients call                               *)
  Arguments,  (* the argument lists of a call                              *)
  Outputs,    (* the results of a method, as the members of a structure    *)
  Errors,     (* the errors of a method: an error code and a text          *)
  NoSuchMethod, InvalidRequest, Failure,  (* what the server says itself   *)
  Foreign,    (* what a client that speaks another protocol sends          *)
  MaxCalls    (* bound: calls on the connection                            *)

ASSUME NumbersAssumption ==
  /\ Radix \in Nat \ {0, 1} /\ PartGroups \in Nat \ {0}
  /\ PartRange >= Radix^PartGroups
  /\ ValueRange =< Radix^(2 * PartGroups + 2)
  /\ ValueRange =< PartRange * Radix^(2 * PartGroups)

MaxVarintBytes == 2 * PartGroups + 2
Byte == 0..(2 * Radix - 1)
ASSUME MessagesAssumption ==
  /\ Known \cup Names \cup Foreign \subseteq Seq(Byte)
  /\ \A list \in Arguments \cup Outputs \cup Errors \cup {NoSuchMethod, InvalidRequest, Failure} :
        list \in Seq([tag : {"fixed", "string"}, bytes : Seq(Byte)])
  /\ MaxCalls \in Nat \ {0}

NotAMessage == 0
Request == 1
Response == 2
Exception == 3

-----------------------------------------------------------------------------
(* The buffer: its memory, whose length is the capacity, and its size.  It *)
(* never shrinks, so that what a buffer has held stays in its memory.      *)

EmptyBuffer == [mem |-> <<>>, size |-> 0]
Contents(buf) == SubSeq(buf.mem, 1, buf.size)
Larger(a, b) == IF a > b THEN a ELSE b

(* Where the contents are kept, and where they need not be.                *)
EnsureCapacityNocopy(buf, n) ==
  IF Len(buf.mem) >= n THEN buf
  ELSE [mem |-> [i \in 1..Larger(2 * Len(buf.mem), n) |-> 0], size |-> 0]

EnsureCapacity(buf, n) ==
  IF Len(buf.mem) >= n THEN buf
  ELSE [buf EXCEPT !.mem =
          @ \o [i \in 1..(Larger(2 * Len(@), n) - Len(@)) |-> 0]]

Resize(buf, n) == [EnsureCapacity(buf, n) EXCEPT !.size = n]

Overwrite(mem, at, bytes) ==
  [i \in 1..Len(mem) |-> IF i \in (at + 1)..(at + Len(bytes)) THEN bytes[i - at] ELSE mem[i]]

(* Nothing is copied, and nothing cleared, for no bytes.                   *)
CopyMem(buf, bytes) ==
  IF bytes = <<>> THEN buf
  ELSE [mem |-> Overwrite(EnsureCapacityNocopy(buf, Len(bytes)).mem, 0, bytes),
        size |-> Len(bytes)]

Assign(dest, src) ==
  IF src.size = 0 THEN [dest EXCEPT !.size = 0] ELSE CopyMem(dest, Contents(src))

-----------------------------------------------------------------------------
(* Messages.  A reader returns the message it leaves behind, and what it   *)
(* has read.                                                               *)

NewMessage(kind, buf) == [kind |-> kind, buf |-> buf, offset |-> 0, method |-> <<>>]
ClearMessage(msg, kind) == NewMessage(kind, [msg.buf EXCEPT !.size = 0])

WriteData(msg, bytes) ==
  LET required == msg.offset + Len(bytes)
      buf == IF required > msg.buf.size THEN Resize(msg.buf, required) ELSE msg.buf
  IN  [msg EXCEPT !.buf = [buf EXCEPT !.mem = Overwrite(@, msg.offset, bytes)],
                  !.offset = required]

Left(msg) == msg.buf.size - msg.offset
ByteAt(msg, i) == msg.buf.mem[msg.offset + i]
Failed(msg) == [ok |-> FALSE, msg |-> msg, value |-> <<>>]
Read(msg, n, value) == [ok |-> TRUE, msg |-> [msg EXCEPT !.offset = @ + n], value |-> value]

ReadData(msg, n) ==
  IF n > Left(msg) THEN Failed(msg)
  ELSE Read(msg, n, [i \in 1..n |-> ByteAt(msg, i)])

-----------------------------------------------------------------------------
(* Variable length integers: the groups of seven bits from the lowest to   *)
(* the highest, the eighth bit of a byte set if another one follows.       *)

Weight(digits) == MapThenSumSet(LAMBDA i : digits[i] * Radix^(i - 1), DOMAIN digits)
Group(value, i) == (value \div Radix^i) % Radix
Continued(digits) ==
  [i \in 1..Len(digits) |-> IF i < Len(digits) THEN digits[i] + Radix ELSE digits[i]]

(* The way for a buffer that is nearly full: a loop over the groups.       *)
VarintBytes(value) ==
  LET size == CHOOSE n \in 1..MaxVarintBytes :
                value < Radix^n /\ \A k \in 1..(n - 1) : value >= Radix^k
  IN  Continued([i \in 1..size |-> Group(value, i - 1)])

Part(value, p) == (value \div Radix^(p * PartGroups)) % PartRange
PartSize(part, most) ==
  CHOOSE n \in 1..most :
    (n = most \/ part < Radix^n) /\ \A k \in 1..(n - 1) : part >= Radix^k

\* Mutant: the number of bytes follows the lower parts alone.
VarintArrayShort(value) ==
  LET size == IF Part(value, 1) = 0 THEN PartSize(Part(value, 0), PartGroups)
              ELSE PartGroups + PartSize(Part(value, 1), PartGroups)
  IN  Continued([i \in 1..size |->
        Group(Part(value, (i - 1) \div PartGroups), (i - 1) % PartGroups)])

(* The other way: three words, and a search for the number of bytes.       *)
VarintArray(value) ==
  LET size == IF Part(value, 2) # 0 THEN 2 * PartGroups + PartSize(Part(value, 2), 2)
              ELSE IF Part(value, 1) # 0 THEN PartGroups + PartSize(Part(value, 1), PartGroups)
              ELSE PartSize(Part(value, 0), PartGroups)
  IN  Continued([i \in 1..size |->
        Group(Part(value, (i - 1) \div PartGroups), (i - 1) % PartGroups)])

WriteVarint64(msg, value) ==
  WriteData(msg, IF Left(msg) >= MaxVarintBytes THEN VarintArray(value) ELSE VarintBytes(value))

Ends(msg) ==
  {i \in 1..MaxVarintBytes : i =< Left(msg) /\ ByteAt(msg, i) < Radix}
Size(msg) == CHOOSE i \in Ends(msg) : \A j \in Ends(msg) : i =< j
Digits(msg, first, last) ==
  [i \in 1..(last - first + 1) |-> ByteAt(msg, first + i - 1) % Radix]

(* A failure leaves the offset where the loop has got to.                  *)
ReadVarint64Slow(msg) ==
  IF Ends(msg) = {}
  THEN Failed([msg EXCEPT !.offset = @ + (IF Left(msg) < MaxVarintBytes THEN Left(msg)
                                          ELSE MaxVarintBytes)])
  ELSE Read(msg, Size(msg), Weight(Digits(msg, 1, Size(msg))) % ValueRange)

\* Mutant: the second word starts one group too low.
ReadVarint64FallbackLow(msg) ==
  IF Left(msg) < MaxVarintBytes THEN ReadVarint64Slow(msg)
  ELSE IF Ends(msg) = {} THEN Failed(msg)
  ELSE LET size == Size(msg)
           part(p) == LET last == (p + 1) * PartGroups
                      IN  Weight(Digits(msg, p * PartGroups + 1, IF last < size THEN last ELSE size))
       IN  Read(msg, size,
                (part(0) + part(1) * Radix^(PartGroups - 1) + part(2) * Radix^(2 * PartGroups))
                   % ValueRange)

(* With enough bytes left the groups go into three words.  A failure       *)
(* leaves the offset where it was.                                         *)
ReadVarint64Fallback(msg) ==
  IF Left(msg) < MaxVarintBytes THEN ReadVarint64Slow(msg)
  ELSE IF Ends(msg) = {} THEN Failed(msg)
  ELSE LET size == Size(msg)
           part(p) == LET last == (p + 1) * PartGroups
                      IN  Weight(Digits(msg, p * PartGroups + 1, IF last < size THEN last ELSE size))
       IN  Read(msg, size,
                (part(0) + part(1) * Radix^PartGroups + part(2) * Radix^(2 * PartGroups))
                   % ValueRange)

ReadVarint64(msg) ==
  IF Left(msg) > 0 /\ ByteAt(msg, 1) < Radix THEN Read(msg, 1, ByteAt(msg, 1))
  ELSE ReadVarint64Fallback(msg)

-----------------------------------------------------------------------------
(* Values.  A list of values is written and read in order, up to the first *)
(* one that fails.                                                         *)

WriteString(msg, bytes) == WriteData(WriteVarint64(msg, Len(bytes)), bytes)

ReadString(msg) ==
  LET length == ReadVarint64(msg)
  IN  IF length.ok THEN ReadData(length.msg, length.value) ELSE length

WriteValues(msg, list) ==
  FoldLeft(LAMBDA m, item : IF item.tag = "string" THEN WriteString(m, item.bytes)
                            ELSE WriteData(m, item.bytes), msg, list)

(* The types of the list are known to the reader, which is all it takes    *)
(* from it.                                                                *)
ReadValues(msg, list) ==
  FoldLeft(LAMBDA r, item :
             IF ~r.ok THEN r
             ELSE LET next == IF item.tag = "string" THEN ReadString(r.msg)
                              ELSE ReadData(r.msg, Len(item.bytes))
                  IN  [next EXCEPT !.value = Append(r.value, [tag |-> item.tag, bytes |-> @])],
           Read(msg, 0, <<>>), list)

WriteMessageHeader(msg) ==
  LET kind == WriteData(msg, <<msg.kind>>)
  IN  IF msg.kind = Request THEN WriteString(kind, msg.method) ELSE kind

ReadMessageHeader(msg) ==
  LET code == ReadData(msg, 1)
      kind == IF code.value[1] \in {Request, Response, Exception} THEN code.value[1]
              ELSE NotAMessage
      known == [code EXCEPT !.msg.kind = kind]
      name == ReadString(known.msg)
  IN  IF ~code.ok THEN code
      ELSE IF kind = NotAMessage THEN Failed(known.msg)
      ELSE IF kind # Request THEN known
      ELSE IF name.ok THEN [name EXCEPT !.msg.method = name.value] ELSE name

CreateRequestMessage(name) ==
  WriteMessageHeader([NewMessage(Request, EmptyBuffer) EXCEPT !.method = name])

CreateRequestMessageFromData(data) ==
  ReadMessageHeader(NewMessage(Request, CopyMem(EmptyBuffer, data)))

CreateResponseMessage == WriteMessageHeader(NewMessage(Response, EmptyBuffer))

\* Mutant: the message that becomes an error keeps what it holds.
SetGenericErrorMessageBehind(msg, error) ==
  WriteValues(WriteMessageHeader([msg EXCEPT !.kind = Exception]), error)

SetGenericErrorMessage(msg, error) ==
  WriteValues(WriteMessageHeader(ClearMessage(msg, Exception)), error)

(* The status of sendMessageSync.                                          *)
ResponseStatus(header) ==
  IF ~header.ok THEN "FAILURE"
  ELSE IF header.msg.kind = Exception THEN "EXCEPTION" ELSE "SUCCESS"

-----------------------------------------------------------------------------
VARIABLES
  calls,    (* how many calls have begun                                   *)
  pc,       (* what comes next                                             *)
  asked,    (* the method and the arguments of the call                    *)
  msg,      (* the stub's message, for the request and for its answer      *)
  inMsg,    (* the request as performCall reads it                         *)
  got,      (* the arguments the method has been given, in a set           *)
  meant,    (* what the server has answered: the status and its values     *)
  answer,   (* the connection's buffer for answers                         *)
  reply     (* what the caller has got: the status and its values          *)

vars == <<calls, pc, asked, msg, inMsg, got, meant, answer, reply>>

Nothing == [status |-> "none", list |-> <<>>]

Init ==
  /\ calls = 0 /\ pc = "idle"
  /\ asked = [name |-> <<>>, args |-> <<>>]
  /\ msg = NewMessage(Request, EmptyBuffer) /\ inMsg = msg
  /\ got = {} /\ meant = Nothing /\ reply = Nothing
  /\ answer = EmptyBuffer

Begin ==
  /\ pc = "idle" /\ calls < MaxCalls
  /\ calls' = calls + 1
  /\ pc' = "request"
  /\ got' = {} /\ meant' = Nothing /\ reply' = Nothing
  /\ UNCHANGED <<inMsg, answer>>

(* The stub makes a request of the method's name and its arguments.        *)
Call(name, args) ==
  /\ Begin
  /\ asked' = [name |-> name, args |-> args]
  /\ msg' = WriteValues(CreateRequestMessage(name), args)

(* A client of another protocol, or of another version of the service,     *)
(* sends its own request for a method that has these arguments.            *)
CallForeign(data, args) ==
  /\ Begin
  /\ asked' = [name |-> <<>>, args |-> args]
  /\ msg' = NewMessage(NotAMessage, CopyMem(EmptyBuffer, data))

Respond(outMsg, status, list) ==
  /\ answer' = Assign(answer, outMsg.buf)
  /\ meant' = [status |-> status, list |-> list]
  /\ pc' = "answer"

RespondError(outMsg, error) == Respond(SetGenericErrorMessage(outMsg, error), "EXCEPTION", error)

(* performCall, up to the method: it reads the header of the request and   *)
(* finds the method, whose skeleton reads the arguments.                   *)
PerformCall ==
  LET header == CreateRequestMessageFromData(Contents(msg.buf))
      args == ReadValues(header.msg, asked.args)
  IN  /\ pc = "request"
      /\ inMsg' = args.msg
      /\ \/ /\ ~header.ok
            /\ RespondError(CreateResponseMessage, InvalidRequest)
            /\ UNCHANGED got
         \/ /\ header.ok /\ header.msg.method \notin Known
            /\ RespondError(CreateResponseMessage, NoSuchMethod)
            /\ UNCHANGED got
         \/ /\ header.ok /\ header.msg.method \in Known /\ ~args.ok
            /\ RespondError(CreateResponseMessage, Failure)
            /\ UNCHANGED got
         \/ /\ header.ok /\ header.msg.method \in Known /\ args.ok
            /\ got' = {args.value}
            /\ pc' = "method"
            /\ UNCHANGED <<answer, meant>>
      /\ UNCHANGED <<calls, asked, msg, reply>>

(* The method succeeds, or throws the error that it declares; or writing   *)
(* its result fails behind the first members, which performCall turns into *)
(* an error in the same message.                                           *)
RunMethod ==
  /\ pc = "method"
  /\ \/ \E list \in Outputs :
           Respond(WriteValues(CreateResponseMessage, list), "SUCCESS", list)
     \/ \E error \in Errors : RespondError(CreateResponseMessage, error)
     \/ \E list \in Outputs : \E n \in 0..(Len(list) - 1) :
           RespondError(WriteValues(CreateResponseMessage, SubSeq(list, 1, n)), Failure)
  /\ UNCHANGED <<calls, asked, msg, inMsg, got, reply>>

(* sendMessageSync returns to the stub, which reads the error or the       *)
(* result from the message it has sent.                                    *)
Receive ==
  LET header == ReadMessageHeader(NewMessage(NotAMessage, CopyMem(EmptyBuffer, Contents(answer))))
      list == ReadValues(header.msg, meant.list)
  IN  /\ pc = "answer"
      /\ msg' = list.msg
      /\ reply' = IF list.ok THEN [status |-> ResponseStatus(header), list |-> list.value]
                  ELSE [status |-> "FAILURE", list |-> <<>>]
      /\ pc' = "idle"
      /\ UNCHANGED <<calls, asked, inMsg, got, meant, answer>>

Next ==
  \/ \E name \in Names, args \in Arguments : Call(name, args)
  \/ \E data \in Foreign, args \in Arguments : CallForeign(data, args)
  \/ PerformCall
  \/ RunMethod
  \/ Receive

Spec == Init /\ [][Next]_vars

-----------------------------------------------------------------------------
MessageType == [kind : NotAMessage..Exception, buf : [mem : Seq(Byte), size : Nat],
                offset : Nat, method : Seq(Byte)]

(* No buffer ends behind its memory and no offset is behind its buffer's   *)
(* end, which getBufferSize needs: it subtracts numbers without a sign.    *)
TypeOK ==
  /\ calls \in 0..MaxCalls
  /\ pc \in {"idle", "request", "method", "answer"}
  /\ {msg, inMsg} \subseteq MessageType
  /\ \A m \in {msg, inMsg} : m.offset =< m.buf.size /\ m.buf.size =< Len(m.buf.mem)
  /\ answer.size =< Len(answer.mem)

(* The two ways to write a variable length integer give the same bytes,    *)
(* and the two ways to read it give the number that was written and stop   *)
(* behind it, whatever follows in the buffer.  It does not depend on the   *)
(* state and is looked at before the first call.                           *)
VarintsAgree ==
  calls = 0 => \A value \in 0..(ValueRange - 1), next \in Byte :
    LET bytes == VarintBytes(value)
        padded == [i \in 1..(Len(bytes) + MaxVarintBytes) |->
                     IF i =< Len(bytes) THEN bytes[i] ELSE next]
        m == NewMessage(Request, CopyMem(EmptyBuffer, padded))
        exact == NewMessage(Request, CopyMem(EmptyBuffer, bytes))
    IN  /\ VarintArray(value) = bytes
        /\ ReadVarint64(m) = Read(m, Len(bytes), value)
        /\ ReadVarint64Slow(m) = Read(m, Len(bytes), value)
        /\ ReadVarint64(exact) = Read(exact, Len(bytes), value)

(* A method that the service knows gets exactly the arguments the caller   *)
(* has written, and everything the message holds is read.  No call of a    *)
(* stub for such a method fails before the method runs.                    *)
ArgumentsArrive ==
  /\ pc = "method" => /\ asked.name \in {inMsg.method, <<>>}
                      /\ got = {asked.args}
                      /\ inMsg.offset = inMsg.buf.size
  /\ pc = "answer" /\ asked.name \in Known => got # {}

(* A caller gets exactly the result or the error the server has meant,     *)
(* with the buffer of earlier answers behind it, and also when the error   *)
(* replaces a response that was partly written: nothing is left over.      *)
AnswerIsWhole ==
  pc = "idle" /\ calls > 0 => /\ reply = meant
                              /\ msg.offset = msg.buf.size

=============================================================================
