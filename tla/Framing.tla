------------------------------ MODULE Framing -------------------------------
(***************************************************************************)
(* The readers and the writer of bytes the other end cuts as it likes: the   *)
(* SOCKS5 greeting and request (src/socks5/socks5.go, over io.ReadFull), the *)
(* FTP control replies (ftpReplyReader of src/connector/ftp.go) and the      *)
(* pairing line (readPairingLine of src/link/tailcat_adapter.go with         *)
(* src/link/tailcat.go), both over a bufio.Reader, and writeAll.             *)
(*                                                                          *)
(* One operation runs on one stream, which ends after its last byte.  A Read *)
(* or a Write of the connection moves any number of bytes that fit.  Bytes   *)
(* are numbers, those of text as in ASCII but for digits, which are their    *)
(* value; the pairing's prefix is one byte, and so is a Tailcat address.     *)
(***************************************************************************)
EXTENDS Integers, SequencesExt

CONSTANTS
  Inputs,      \* [op, stream]: the operations and the bytes they meet
  MaxReply,    \* ftpReplyReader.maxBytes
  MaxLine,     \* maxPairingLine
  MaxReplies   \* bound: how many replies are read in a row

NL == 10
CR == 13
SP == 32
Dash == 45
Dot == 46
Colon == 58
Address == 97
Prefix == 110
Digits == 0..9
Ports == 1..65535

Socks == {"ReadGreeting", "ReadRequest"}
Lines == {"ReadReply", "readPairingLine"}

\* The operations meet sequences of bytes; the limits are numbers.
Wellformed ==
  /\ Inputs \subseteq [op : Socks \cup Lines \cup {"writeAll"}, stream : Seq(0..255)]
  /\ MaxReply \in Nat /\ MaxLine \in Nat /\ MaxReplies \in Nat

ASSUME FramingAssumption == Wellformed

VARIABLES
  op, stream,
  taken,    \* how many bytes Reads have taken from the stream, or Writes put
  done,     \* how many of them the operation has consumed
  phase,    \* the part of the message it reads
  want,     \* the size of that part (SOCKS5)
  used,     \* the bytes of this reply so far (FTP)
  code,     \* the code of this reply (FTP)
  result,   \* what has been decoded
  outcome   \* "running", "ok" or "error"

input == <<op, stream>>
vars == <<op, stream, taken, done, phase, want, used, code, result, outcome>>

TypeOK ==
  /\ [op |-> op, stream |-> stream] \in Inputs
  /\ taken \in 0..Len(stream) /\ done \in 0..taken
  /\ phase \in {"header", "methods", "ipv4", "ipv6", "length", "domain", "port", "first", "more", "write"}
  /\ want \in Nat /\ used \in 0..MaxReply /\ code \in Int
  /\ outcome \in {"running", "ok", "error"}

Init ==
  /\ \E i \in Inputs : op = i.op /\ stream = i.stream
  /\ taken = 0 /\ done = 0
  /\ phase = CASE op \in Socks -> "header" [] op \in Lines -> "first" [] OTHER -> "write"
  /\ want = CASE op = "ReadGreeting" -> 2 [] op = "ReadRequest" -> 4 [] OTHER -> 0
  /\ used = 0 /\ code = 0
  /\ result = <<>>
  /\ outcome = "running"

Held == SubSeq(stream, done + 1, taken)
Fail == outcome' = "error" /\ UNCHANGED <<done, phase, want, used, code, result>>
Finish(r) == outcome' = "ok" /\ result' = r

\* The size of the bufio.Reader.
Capacity == IF op = "ReadReply" THEN MaxReply + 1 ELSE MaxLine + 2

\* readLine has nothing left to read with.
Spent == op = "ReadReply" /\ used = MaxReply

\* How many bytes the next Read of the connection may bring: io.ReadFull asks for
\* what is missing, ReadSlice for all that fits while it has no newline.
Room ==
  IF op \in Socks THEN want - (taken - done)
  ELSE IF Spent \/ Contains(Held, NL) THEN 0 ELSE Capacity - (taken - done)

Read ==
  /\ outcome = "running" /\ op \in Socks \cup Lines
  /\ \E n \in 1..Room : taken + n <= Len(stream) /\ taken' = taken + n
  /\ UNCHANGED <<input, done, phase, want, used, code, result, outcome>>

Eof ==
  /\ outcome = "running" /\ op \in Socks \cup Lines
  /\ Room > 0 /\ taken = Len(stream)
  /\ Fail
  /\ UNCHANGED <<input, taken>>

-----------------------------------------------------------------------------
(***************************************************************************)
(* SOCKS5.                                                                  *)
(***************************************************************************)
validDomain(d) ==
  LET Edge(i) == i \in {0, Len(d) + 1} \/ d[i] = Dot
  IN  \A i \in DOMAIN d :
        \/ d[i] = Dot /\ ~Edge(i - 1) /\ ~Edge(i + 1) /\ d[i - 1] # Dash
        \/ d[i] = Dash /\ ~Edge(i - 1)
        \/ d[i] \in Digits \cup {Address}

PartRead == outcome = "running" /\ op \in Socks /\ taken - done = want

Refused ==
  CASE phase = "header" /\ op = "ReadGreeting" -> Held[1] # 5 \/ Held[2] = 0
    [] phase = "header" /\ op = "ReadRequest" -> SubSeq(Held, 1, 3) # <<5, 1, 0>> \/ Held[4] \notin {1, 3, 4}
    [] phase = "length" -> Held = <<0>>
    [] phase = "domain" -> ~validDomain(Held)
    [] phase = "port" -> Held = <<0, 0>>
    [] OTHER -> FALSE

AddressPart == CASE Held[4] = 1 -> <<"ipv4", 4>> [] Held[4] = 4 -> <<"ipv6", 16>> [] OTHER -> <<"length", 1>>

\* The part behind the one just read, and its size.
Following ==
  CASE phase = "header" /\ op = "ReadGreeting" -> <<"methods", Held[2]>>
    [] phase = "header" /\ op = "ReadRequest" -> AddressPart
    [] phase = "length" -> <<"domain", Held[1]>>
    [] OTHER -> <<"port", 2>>

\* ReadGreeting, ReadRequest and readAddress with a part that is there: an error,
\* the next part or the end.
RefusePart == PartRead /\ Refused /\ Fail /\ UNCHANGED <<input, taken>>

NextPart ==
  /\ PartRead /\ ~Refused /\ phase \notin {"methods", "port"}
  /\ phase' = Following[1] /\ want' = Following[2]
  /\ result' = IF phase \in {"ipv4", "ipv6", "domain"} THEN Held ELSE result
  /\ done' = taken
  /\ UNCHANGED <<input, taken, used, code, outcome>>

LastPart ==
  /\ PartRead /\ ~Refused /\ phase \in {"methods", "port"}
  /\ Finish(IF phase = "methods" THEN Held ELSE <<result, Held>>)
  /\ done' = taken
  /\ UNCHANGED <<input, taken, phase, want, used, code>>

\* What WriteMethod and WriteReply give to writeAll.
SelectNoAuth(methods) == IF Contains(methods, 0) THEN 0 ELSE 255
WriteMethod(method) == <<5, method>>
WriteReply(reply) == <<5, reply, 0, 1, 0, 0, 0, 0, 0, 0>>

-----------------------------------------------------------------------------
(***************************************************************************)
(* Lines.                                                                   *)
(***************************************************************************)
FirstLine(s) == SubSeq(s, 1, CHOOSE i \in DOMAIN s : s[i] = NL /\ \A j \in 1..(i - 1) : s[j] # NL)
Trim(line) ==
  LET l == Front(line) IN IF l # <<>> /\ Last(l) = CR THEN Front(l) ELSE l

\* The budget is used up, or the buffer is full and has no newline.
TooLong ==
  /\ outcome = "running" /\ op \in Lines
  /\ Room = 0 /\ (Spent \/ ~Contains(Held, NL))
  /\ Fail
  /\ UNCHANGED <<input, taken>>

Tens == <<1, 10, 100, 1000, 10000, 100000>>

Decimal(n) ==
  LET size == CHOOSE k \in 1..5 : Tens[k] <= n /\ n < Tens[k + 1]
  IN  [i \in 1..size |-> (n \div Tens[size - i + 1]) % 10]

Code(line) == 100 * line[1] + 10 * line[2] + line[3]

\* parseFTPReplyStart: three digits, then nothing, a blank or a dash.
parseFTPReplyStart(line) ==
  /\ Len(line) >= 3 /\ \A i \in 1..3 : line[i] \in Digits
  /\ Code(line) \in 100..599
  /\ Len(line) = 3 \/ line[4] \in {SP, Dash}

ReplyOver(line) ==
  IF phase = "first" THEN Len(line) = 3 \/ line[4] = SP ELSE IsPrefix(Append(Decimal(code), SP), line)

\* Seeded fault: every line of a reply gets the whole budget.
WithinLine(raw) == Len(raw) <= MaxReply

\* Seeded fault: the budget is one byte short.
WithinShort(raw) == Len(raw) < MaxReply - used

WithinBudget(raw) == Len(raw) <= MaxReply - used

\* ReadReply with its next line.
ReplyLine ==
  /\ outcome = "running" /\ op = "ReadReply" /\ ~Spent /\ Contains(Held, NL)
  /\ LET raw == FirstLine(Held)  line == Trim(raw)
     IN  IF ~(WithinBudget(raw) /\ (phase = "first" => parseFTPReplyStart(line))) THEN Fail
         ELSE /\ done' = done + Len(raw)
              /\ code' = IF phase = "first" THEN Code(line) ELSE code
              /\ IF ReplyOver(line)
                   THEN /\ result' = Append(result, code')
                        /\ used' = 0 /\ phase' = "first"
                        /\ outcome' = IF Len(result') = MaxReplies THEN "ok" ELSE "running"
                   ELSE used' = used + Len(raw) /\ phase' = "more" /\ UNCHANGED <<result, outcome>>
              /\ UNCHANGED want
  /\ UNCHANGED <<input, taken>>

Number(ds) ==
  LET n[i \in 0..Len(ds)] == IF i = 0 THEN 0 ELSE 10 * n[i - 1] + ds[i] IN n[Len(ds)]

Encode(p) == <<Prefix, Colon>> \o Decimal(p.port) \o <<Colon>> \o p.address

\* The parsed pairing in a sequence of one; none if the line is not one.
ParsePairing(l) ==
  LET colons == {i \in DOMAIN l : l[i] = Colon}
      i == CHOOSE c \in colons : \A d \in colons : c <= d
      j == CHOOSE c \in colons : \A d \in colons : c >= d
      ds == SubSeq(l, i + 1, j - 1)
      address == SubSeq(l, j + 1, Len(l))
      valid == /\ {l[1], Last(l)} \cap {SP, CR} = {}
               /\ \A c \in colons : c \in {i, j} /\ i < j
               /\ SubSeq(l, 1, i - 1) = <<Prefix>>
               /\ ds # <<>> /\ Range(ds) \subseteq Digits /\ Number(ds) \in Ports
               /\ address = <<Address>>
  IN  IF colons # {} /\ valid THEN <<[port |-> Number(ds), address |-> address]>> ELSE <<>>

\* Seeded fault: what follows the newline is ignored.
PairingKeepsMore(raw) == ParsePairing(Front(raw)) # <<>> /\ Len(raw) <= MaxLine + 1

PairingAccepted(raw) ==
  Len(raw) <= MaxLine + 1 /\ raw = Held /\ ParsePairing(Front(raw)) # <<>>

\* readPairingLine with its line: nothing may be buffered behind it.
PairingLine ==
  /\ outcome = "running" /\ op = "readPairingLine" /\ Contains(Held, NL)
  /\ LET raw == FirstLine(Held)
     IN  IF PairingAccepted(raw)
           THEN /\ done' = done + Len(raw)
                /\ Finish(ParsePairing(Front(raw)))
                /\ UNCHANGED <<phase, want, used, code>>
           ELSE Fail
  /\ UNCHANGED <<input, taken>>

-----------------------------------------------------------------------------
(***************************************************************************)
(* writeAll, for WriteMethod and WriteReply: the stream is what is to be     *)
(* written.  A Write that fails may have put a part of it.                   *)
(***************************************************************************)
Write ==
  /\ outcome = "running" /\ op = "writeAll"
  /\ \E n \in 0..(Len(stream) - taken), failed \in BOOLEAN :
       /\ taken' = taken + n
       /\ outcome' = IF failed \/ n = 0 THEN "error"
                     ELSE IF taken' = Len(stream) THEN "ok" ELSE "running"
  /\ UNCHANGED <<input, done, phase, want, used, code, result>>

Terminated == outcome # "running" /\ UNCHANGED vars

Next ==
  \/ Read \/ Eof \/ RefusePart \/ NextPart \/ LastPart
  \/ TooLong \/ ReplyLine \/ PairingLine \/ Write \/ Terminated

Spec == Init /\ [][Next]_vars

-----------------------------------------------------------------------------
(***************************************************************************)
(* References: where a message ends, told from the whole stream.            *)
(***************************************************************************)
LineStart(e) == CHOOSE b \in 1..e : (b = 1 \/ stream[b - 1] = NL) /\ \A k \in b..(e - 1) : stream[k] # NL
LineAt(e) == Trim(SubSeq(stream, LineStart(e), e))
Ends == {e \in DOMAIN stream : stream[e] = NL}

\* A whole reply within the budget from byte b to byte e.
IsReply(b, e) == b <= e /\
  LET first == CHOOSE f \in Ends : f >= b /\ \A g \in Ends : g >= b => f <= g
      start == LineAt(first)
      Closes(g) == Len(LineAt(g)) > 3 /\ SubSeq(LineAt(g), 1, 4) = Append(SubSeq(start, 1, 3), SP)
  IN  /\ e - b + 1 <= MaxReply
      /\ parseFTPReplyStart(start)
      /\ IF Len(start) > 3 /\ start[4] = Dash
           THEN e > first /\ Closes(e) /\ \A g \in Ends : first < g /\ g < e => ~Closes(g)
           ELSE e = first

SocksLength ==
  IF op = "ReadGreeting" THEN 2 + stream[2]
  ELSE 6 + CASE stream[4] = 1 -> 4 [] stream[4] = 4 -> 16 [] OTHER -> 1 + stream[5]

-----------------------------------------------------------------------------
(***************************************************************************)
(* Properties.                                                              *)
(***************************************************************************)

FrameMoved == op \in Socks => taken = SocksLength

AnswerMoved == op = "writeAll" => taken = Len(stream)

PairingMoved ==
  op = "readPairingLine" =>
    /\ taken = done /\ result = ParsePairing(SubSeq(stream, 1, done - 1))
    /\ ParsePairing(Encode(result[1])) = result

RepliesMoved ==
  op = "ReadReply" =>
    \E e \in [0..MaxReplies -> {0} \cup Ends] :
      /\ e[0] = 0 /\ e[MaxReplies] = done
      /\ \A k \in 1..MaxReplies :
           IsReply(e[k - 1] + 1, e[k]) /\ result[k] = Code(LineAt(CHOOSE f \in Ends : LineStart(f) = e[k - 1] + 1))

\* However the stream is cut into Reads and Writes, an operation that succeeds has
\* moved exactly its message: the SOCKS5 frame with not a byte of what is pipelined
\* behind it, the replies of the FTP server one by one, a pairing line with nothing
\* behind it that encodes to the same pairing, all of an answer.
MovesItsMessage == outcome = "ok" => FrameMoved /\ AnswerMoved /\ PairingMoved /\ RepliesMoved

\* ReadReply gives up only when it must: with a whole reply within its budget in
\* front of it, no way of cutting the stream makes it fail.
FailsForCause ==
  outcome = "error" /\ op = "ReadReply" => ~\E e \in Ends : IsReply(done - used + 1, e)

\* What a peer can make the process hold is bounded, whatever it sends: the
\* declared length of a SOCKS5 part, one byte more than a whole FTP reply, two
\* more than a pairing line; a multi-line reply cannot go on past its budget.
HoldsABoundedPart ==
  /\ op \in Socks => taken - done <= want /\ taken <= 262
  /\ op = "ReadReply" => taken - done <= MaxReply + 1 /\ used <= MaxReply
  /\ op = "readPairingLine" => taken <= MaxLine + 2
=============================================================================
