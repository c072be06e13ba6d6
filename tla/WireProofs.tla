---------------------------- MODULE WireProofs ------------------------------
(***************************************************************************)
(* What the readers and the writer of Framing promise for every stream, every *)
(* cutting of it and all limits, and, in the last part, what one operation    *)
(* of the FTP connector (FTP) promises for every set of reply codes.          *)
(***************************************************************************)
EXTENDS Framing, FTP, WellFoundedInduction, SequenceTheorems, TLAPS

-----------------------------------------------------------------------------
\* A nonempty set of natural numbers has a least one: with it the first newline of a
\* line is found, and a claim about all digits is proved from its first exception.
LEMMA LeastNat ==
  ASSUME NEW T, T \subseteq Nat, T # {}
  PROVE  \E x \in T : \A y \in T : x <= y
<1> DEFINE R == OpToRel(<, Nat)
<1>1. IsWellFoundedOn(R, Nat)
  BY NatLessThanWellFounded
<1> HIDE DEF R
<1>2. PICK x \in T : \A y \in T : ~(<<y, x>> \in R)
  BY <1>1, WFMin
<1>3. \A y \in Nat : y < x => <<y, x>> \in R
  BY DEF R, OpToRel
<1>4. ASSUME NEW y \in T PROVE x <= y
  <2>1. ~(y < x)
    BY <1>2, <1>3
  <2> QED BY <2>1
<1> QED BY <1>4

\* What a stream is made of.
Byte == 0..255

\* What is held of a stream are the bytes behind the consumed ones.
LEMMA HeldTyped ==
  ASSUME NEW s \in Seq(Byte), NEW t \in 0..Len(s), NEW d \in 0..t
  PROVE  /\ SubSeq(s, d + 1, t) \in Seq(Byte)
         /\ Len(SubSeq(s, d + 1, t)) = t - d
         /\ \A i \in 1..(t - d) : SubSeq(s, d + 1, t)[i] = s[d + i]
OBVIOUS

\* A line is the bytes up to and with the first newline.
LEMMA FirstLineTyped ==
  ASSUME NEW s \in Seq(Byte), NEW n \in DOMAIN s, s[n] = NL
  PROVE  \E c \in 1..n :
           /\ FirstLine(s) = SubSeq(s, 1, c) /\ SubSeq(s, 1, c) \in Seq(Byte)
           /\ Len(SubSeq(s, 1, c)) = c
           /\ s[c] = NL /\ \A j \in 1..(c - 1) : s[j] # NL
<1> DEFINE T == {k \in 1..Len(s) : s[k] = NL}
<1>1. n \in T /\ T \subseteq Nat /\ Len(s) \in Nat
  OBVIOUS
<1>2. PICK x \in T : \A y \in T : x <= y
  BY <1>1, LeastNat
<1>3. x \in DOMAIN s /\ s[x] = NL /\ \A j \in 1..(x - 1) : s[j] # NL
  BY <1>1, <1>2
<1> DEFINE P(k) == s[k] = NL /\ \A j \in 1..(k - 1) : s[j] # NL
           c == CHOOSE k \in DOMAIN s : P(k)
<1>4. c \in DOMAIN s /\ P(c)
  BY <1>3
<1>5. c \in 1..Len(s) /\ c <= n
  BY <1>4
<1>6. FirstLine(s) = SubSeq(s, 1, c)
  BY DEF FirstLine
<1>7. s[c] = NL /\ \A j \in 1..(c - 1) : s[j] # NL
  BY <1>4
<1> HIDE DEF c
<1>8. c \in 1..n /\ SubSeq(s, 1, c) \in Seq(Byte) /\ Len(SubSeq(s, 1, c)) = c
  BY <1>1, <1>5
<1> QED BY <1>6, <1>7, <1>8

\* Where a SOCKS5 reader is: the part it reads, its size and its place, each told
\* from the bytes of the stream that declare them.
SocksInv ==
  op \in Socks =>
    /\ taken - done <= want
    /\ outcome # "ok" =>
         \/ phase = "header" /\ done = 0 /\ want = IF op = "ReadGreeting" THEN 2 ELSE 4
         \/ op = "ReadGreeting" /\ phase = "methods" /\ done = 2 /\ want = stream[2]
         \/ /\ op = "ReadRequest"
            /\ \/ phase = "ipv4" /\ done = 4 /\ want = 4 /\ stream[4] = 1
               \/ phase = "ipv6" /\ done = 4 /\ want = 16 /\ stream[4] = 4
               \/ phase = "length" /\ done = 4 /\ want = 1 /\ stream[4] = 3
               \/ phase = "domain" /\ done = 5 /\ want = stream[5] /\ stream[4] = 3
               \/ phase = "port" /\ want = 2 /\ done \in 5..260 /\ done + 2 = SocksLength
    /\ outcome = "ok" => taken \in 2..262 /\ taken = SocksLength /\ done = taken

\* A line reader holds no more than its buffer; a pairing is read from the start of
\* the stream; all of an answer was written.
LineInv ==
  /\ op = "ReadReply" => taken - done <= MaxReply + 1
  /\ op = "readPairingLine" => taken <= MaxLine + 2 /\ (outcome # "ok" => done = 0)
  /\ op = "writeAll" /\ outcome = "ok" => taken = Len(stream)

WInv == TypeOK /\ SocksInv /\ LineInv

\* The stream and the limits are what FramingAssumption says.
LEMMA StreamTyped ==
  ASSUME Wellformed, TypeOK
  PROVE  /\ stream \in Seq(Byte) /\ Len(stream) \in Nat
         /\ op \in Socks \cup Lines \cup {"writeAll"}
         /\ MaxReply \in Nat /\ MaxLine \in Nat
BY DEF Wellformed, TypeOK, Byte

\* An operation starts with nothing taken.
LEMMA WireStarts == Wellformed /\ Init => WInv
<1> SUFFICES ASSUME Wellformed, Init PROVE WInv
  OBVIOUS
<1>1. PICK i \in Inputs : op = i.op /\ stream = i.stream
  BY DEF Init
<1>2. i \in [op : Socks \cup Lines \cup {"writeAll"}, stream : Seq(Byte)]
  BY DEF Wellformed, Byte
<1>3. i = [op |-> op, stream |-> stream]
  BY <1>1, <1>2
<1>4. Len(stream) \in Nat /\ MaxReply \in Nat /\ MaxLine \in Nat
  BY <1>1, <1>2 DEF Wellformed
<1>5. phase \in {"header", "first", "write"} /\ want \in Nat
  BY <1>1, <1>2 DEF Init
<1>6. TypeOK
  BY <1>3, <1>4, <1>5 DEF Init, TypeOK
<1>7. op \in Socks => phase = "header" /\ want = IF op = "ReadGreeting" THEN 2 ELSE 4
  BY DEF Init, Socks, Lines
<1>8. SocksInv
  BY <1>7 DEF Init, SocksInv
<1> QED BY <1>4, <1>6, <1>8 DEF Init, WInv, LineInv

\* A part of a SOCKS5 message, and where the next one lies.
LEMMA PartInv ==
  ASSUME Wellformed, WInv, PartRead, ~Refused, NextPart \/ LastPart
  PROVE  SocksInv' /\ want' \in Nat /\ phase' \in {"methods", "ipv4", "ipv6", "length", "domain", "port"}
<1>1. /\ stream \in Seq(Byte) /\ Len(stream) \in Nat /\ taken \in 0..Len(stream)
      /\ done \in 0..taken /\ want \in Nat
  BY StreamTyped DEF WInv, TypeOK
<1>2. /\ op \in Socks /\ outcome = "running" /\ taken = done + want
      /\ op' = op /\ stream' = stream /\ taken' = taken /\ done' = taken
  BY <1>1 DEF PartRead, NextPart, LastPart, input
<1>3. \A i \in 1..want : Held[i] = stream[done + i] /\ stream[done + i] \in Byte
  BY <1>1, <1>2, HeldTyped DEF Held
<1>4. CASE phase = "header" /\ op = "ReadGreeting"
  <2>1. done = 0 /\ want = 2
    BY <1>2, <1>4 DEF WInv, SocksInv
  <2>2. phase' = "methods" /\ want' = stream[2] /\ outcome' = "running"
    BY <1>2, <1>3, <1>4, <2>1 DEF NextPart, LastPart, Following
  <2>3. stream[2] \in Byte
    BY <1>3, <2>1
  <2> QED BY <1>2, <1>4, <2>1, <2>2, <2>3 DEF SocksInv, Byte
<1>5. CASE phase = "header" /\ op = "ReadRequest"
  <2>1. done = 0 /\ want = 4
    BY <1>2, <1>5 DEF WInv, SocksInv
  <2>2. Held[4] = stream[4] /\ stream[4] \in {1, 3, 4}
    BY <1>3, <1>5, <2>1 DEF Refused
  <2>3. phase' = AddressPart[1] /\ want' = AddressPart[2] /\ outcome' = "running"
    BY <1>2, <1>5 DEF NextPart, LastPart, Following
  <2>4. CASE stream[4] = 1
    BY <1>2, <1>5, <2>1, <2>2, <2>3, <2>4 DEF AddressPart, SocksInv
  <2>5. CASE stream[4] = 4
    BY <1>2, <1>5, <2>1, <2>2, <2>3, <2>5 DEF AddressPart, SocksInv
  <2>6. CASE stream[4] = 3
    BY <1>2, <1>5, <2>1, <2>2, <2>3, <2>6 DEF AddressPart, SocksInv
  <2> QED BY <2>2, <2>4, <2>5, <2>6
<1>6. CASE phase = "length"
  <2>1. done = 4 /\ want = 1 /\ stream[4] = 3 /\ op = "ReadRequest"
    BY <1>2, <1>6 DEF WInv, SocksInv
  <2>2. Held[1] = stream[5] /\ stream[5] \in Byte
    BY <1>3, <2>1
  <2>3. phase' = "domain" /\ want' = stream[5] /\ outcome' = "running"
    BY <1>2, <1>6, <2>2 DEF NextPart, LastPart, Following
  <2> QED BY <1>2, <2>1, <2>2, <2>3 DEF SocksInv, Byte
<1>7. CASE phase \in {"ipv4", "ipv6", "domain"}
  <2>1. phase' = "port" /\ want' = 2 /\ outcome' = "running"
    BY <1>2, <1>7 DEF NextPart, LastPart, Following
  <2>2. op = "ReadRequest" /\ done \in {4, 5}
    BY <1>2, <1>7 DEF WInv, SocksInv
  <2>3. taken \in 5..260 /\ taken + 2 = SocksLength
    <3>1. CASE phase = "ipv4"
      BY <1>2, <2>2, <3>1 DEF WInv, SocksInv, SocksLength
    <3>2. CASE phase = "ipv6"
      BY <1>2, <2>2, <3>2 DEF WInv, SocksInv, SocksLength
    <3>3. CASE phase = "domain"
      <4>1. done = 5 /\ want = stream[5] /\ stream[4] = 3
        BY <1>2, <3>3 DEF WInv, SocksInv
      <4>2. stream[5] \in Byte
        BY <1>1, <1>2, <4>1
      <4> QED BY <1>2, <2>2, <4>1, <4>2 DEF SocksLength, Byte
    <3> QED BY <1>7, <3>1, <3>2, <3>3
  <2>4. SocksLength' = SocksLength
    BY <1>2 DEF SocksLength
  <2> QED BY <1>2, <2>1, <2>2, <2>3, <2>4 DEF SocksInv
<1>8. CASE phase \in {"methods", "port"}
  <2>1. phase' = phase /\ want' = want /\ outcome' = "ok"
    BY <1>8 DEF NextPart, LastPart, Finish
  <2>2. taken \in 2..262 /\ taken = SocksLength
    <3>1. CASE phase = "methods"
      <4>1. done = 2 /\ want = stream[2] /\ op = "ReadGreeting"
        BY <1>2, <3>1 DEF WInv, SocksInv
      <4>2. stream[2] \in Byte
        BY <1>1, <1>2, <4>1
      <4> QED BY <1>2, <4>1, <4>2 DEF SocksLength, Byte
    <3>2. CASE phase = "port"
      BY <1>2, <3>2 DEF WInv, SocksInv
    <3> QED BY <1>8, <3>1, <3>2
  <2>3. SocksLength' = SocksLength
    BY <1>2 DEF SocksLength
  <2> QED BY <1>1, <1>2, <1>8, <2>1, <2>2, <2>3 DEF SocksInv
<1>9. phase \in {"header", "length", "ipv4", "ipv6", "domain", "methods", "port"}
  BY <1>2 DEF WInv, SocksInv
<1> QED BY <1>2, <1>4, <1>5, <1>6, <1>7, <1>8, <1>9 DEF Socks

\* The held bytes have a line that ends among them.
LEMMA LineHeld ==
  ASSUME Wellformed, WInv, Contains(Held, NL)
  PROVE  /\ FirstLine(Held) \in Seq(Byte)
         /\ Len(FirstLine(Held)) \in 1..(taken - done)
<1>1. /\ stream \in Seq(Byte) /\ taken \in 0..Len(stream) /\ done \in 0..taken
  BY StreamTyped DEF WInv, TypeOK
<1>2. Held \in Seq(Byte) /\ Len(Held) = taken - done
  BY <1>1, HeldTyped DEF Held
<1>3. PICK n \in 1..Len(Held) : Held[n] = NL
  BY DEF Contains
<1>4. n \in DOMAIN Held
  BY <1>2
<1>5. PICK c \in 1..n : /\ FirstLine(Held) = SubSeq(Held, 1, c)
                        /\ SubSeq(Held, 1, c) \in Seq(Byte)
                        /\ Len(SubSeq(Held, 1, c)) = c
  BY <1>2, <1>3, <1>4, FirstLineTyped
<1> QED BY <1>1, <1>2, <1>3, <1>5

\* A step that fails leaves everything where it was.
LEMMA FailInv ==
  ASSUME WInv, Fail, UNCHANGED <<op, stream, taken>>, outcome = "running"
  PROVE  WInv'
<1>1. UNCHANGED <<op, stream, taken, done, phase, want, used, code>> /\ outcome' = "error"
  BY DEF Fail
<1>2. TypeOK'
  BY <1>1 DEF WInv, TypeOK
<1>3. SocksInv'
  BY <1>1 DEF WInv, SocksInv, SocksLength, Socks
<1>4. LineInv'
  BY <1>1 DEF WInv, LineInv
<1> QED BY <1>2, <1>3, <1>4 DEF WInv

\* Every step keeps the reader where it is said to be.
LEMMA WireStep == Wellformed /\ WInv /\ [Next]_vars => WInv'
<1> SUFFICES ASSUME Wellformed, WInv, [Next]_vars PROVE WInv'
  OBVIOUS
<1>1. /\ stream \in Seq(Byte) /\ Len(stream) \in Nat
      /\ taken \in 0..Len(stream) /\ done \in 0..taken /\ want \in Nat
      /\ used \in 0..MaxReply /\ MaxReply \in Nat /\ MaxLine \in Nat
      /\ op \in Socks \cup Lines \cup {"writeAll"}
  BY StreamTyped DEF WInv, TypeOK
<1>2. CASE Read
  <2>1. /\ outcome = "running" /\ op \in Socks \cup Lines
        /\ UNCHANGED <<op, stream, done, phase, want, used, code, outcome>>
    BY <1>2 DEF Read, input
  <2>2. PICK n \in 1..Room : taken + n <= Len(stream) /\ taken' = taken + n
    BY <1>2 DEF Read
  <2>3. CASE op \in Socks
    <3>1. n \in 1..(want - (taken - done))
      BY <2>2, <2>3 DEF Room
    <3>2. TypeOK'
      BY <1>1, <2>1, <2>2, <3>1 DEF WInv, TypeOK
    <3>3. taken' - done <= want /\ SocksLength' = SocksLength
      BY <1>1, <2>1, <2>2, <3>1 DEF SocksLength
    <3>4. SocksInv'
      BY <2>1, <3>3 DEF WInv, SocksInv
    <3>5. LineInv'
      BY <2>1, <2>3 DEF LineInv, Socks
    <3> QED BY <3>2, <3>4, <3>5 DEF WInv
  <2>4. CASE op \in Lines
    <3>1. n \in 1..(Capacity - (taken - done)) /\ op \notin Socks
      BY <2>2, <2>4 DEF Room, Lines, Socks
    <3>2. Capacity \in Int /\ n \in Nat
      BY <1>1, <3>1 DEF Capacity
    <3>3. TypeOK'
      BY <1>1, <2>1, <2>2, <3>2 DEF WInv, TypeOK
    <3>4. LineInv'
      BY <1>1, <2>1, <2>2, <2>4, <3>1, <3>2 DEF WInv, LineInv, Capacity, Lines
    <3> QED BY <2>1, <3>1, <3>3, <3>4 DEF WInv, SocksInv
  <2> QED BY <2>1, <2>3, <2>4
<1>3. CASE Eof \/ RefusePart \/ TooLong
  BY <1>3, FailInv DEF Eof, RefusePart, TooLong, PartRead, input
<1>4. CASE NextPart \/ LastPart
  <2>1. /\ PartRead /\ ~Refused /\ op \in Socks
        /\ UNCHANGED <<op, stream, taken, used, code>> /\ done' = taken
        /\ outcome' \in {"running", "ok"}
    BY <1>4 DEF NextPart, LastPart, PartRead, Finish, input
  <2>2. SocksInv' /\ want' \in Nat
        /\ phase' \in {"methods", "ipv4", "ipv6", "length", "domain", "port"}
    BY <1>4, <2>1, PartInv
  <2>3. TypeOK'
    BY <1>1, <2>1, <2>2 DEF WInv, TypeOK
  <2>4. LineInv'
    BY <2>1 DEF LineInv, Socks
  <2> QED BY <2>2, <2>3, <2>4 DEF WInv
<1>5. CASE ReplyLine
  <2> DEFINE raw == FirstLine(Held)
             line == Trim(raw)
  <2>1. /\ outcome = "running" /\ op = "ReadReply" /\ Contains(Held, NL)
        /\ UNCHANGED <<op, stream, taken>>
    BY <1>5 DEF ReplyLine, input
  <2>2. Len(raw) \in 1..(taken - done)
    BY <2>1, LineHeld
  <2> HIDE DEF raw, line
  <2>3. CASE ~(WithinBudget(raw) /\ (phase = "first" => parseFTPReplyStart(line)))
    <3>1. Fail
      BY <1>5, <2>3 DEF ReplyLine, raw, line
    <3> QED BY <2>1, <3>1, FailInv
  <2>4. CASE WithinBudget(raw) /\ (phase = "first" => parseFTPReplyStart(line))
    <3>1. /\ done' = done + Len(raw) /\ want' = want
          /\ code' = IF phase = "first" THEN Code(line) ELSE code
          /\ phase' \in {"first", "more"} /\ used' \in {0, used + Len(raw)}
          /\ outcome' \in {"running", "ok"}
      <4>1. CASE ReplyOver(line)
        BY <1>5, <2>1, <2>4, <4>1 DEF ReplyLine, raw, line
      <4>2. CASE ~ReplyOver(line)
        BY <1>5, <2>1, <2>4, <4>2 DEF ReplyLine, raw, line
      <4> QED BY <4>1, <4>2
    <3>2. code' \in Int
      <4>1. CASE phase = "first"
        <5>1. Code(line) \in 100..599
          BY <2>4, <4>1 DEF parseFTPReplyStart
        <5> QED BY <3>1, <4>1, <5>1
      <4>2. CASE phase # "first"
        BY <3>1, <4>2 DEF WInv, TypeOK
      <4> QED BY <4>1, <4>2
    <3>3. used' \in 0..MaxReply /\ done' \in 0..taken
      BY <1>1, <2>2, <2>4, <3>1 DEF WithinBudget
    <3>4. TypeOK'
      BY <2>1, <3>1, <3>2, <3>3 DEF WInv, TypeOK
    <3>5. LineInv'
      BY <1>1, <2>1, <2>2, <3>1 DEF WInv, LineInv
    <3>6. SocksInv'
      BY <2>1 DEF SocksInv, Socks
    <3> QED BY <3>4, <3>5, <3>6 DEF WInv
  <2> QED BY <2>3, <2>4
<1>6. CASE PairingLine
  <2> DEFINE raw == FirstLine(Held)
  <2>1. /\ outcome = "running" /\ op = "readPairingLine" /\ Contains(Held, NL)
        /\ UNCHANGED <<op, stream, taken>>
    BY <1>6 DEF PairingLine, input
  <2>2. Len(raw) \in 1..(taken - done)
    BY <2>1, LineHeld
  <2> HIDE DEF raw
  <2>3. CASE ~PairingAccepted(raw)
    <3>1. Fail
      BY <1>6, <2>3 DEF PairingLine, raw
    <3> QED BY <2>1, <3>1, FailInv
  <2>4. CASE PairingAccepted(raw)
    <3>1. done' = done + Len(raw) /\ outcome' = "ok" /\ UNCHANGED <<phase, want, used, code>>
      BY <1>6, <2>4 DEF PairingLine, Finish, raw
    <3>2. TypeOK'
      BY <1>1, <2>1, <2>2, <3>1 DEF WInv, TypeOK
    <3>3. LineInv' /\ SocksInv'
      BY <2>1, <3>1 DEF WInv, LineInv, SocksInv, Socks
    <3> QED BY <3>2, <3>3 DEF WInv
  <2> QED BY <2>3, <2>4
<1>7. CASE Write
  <2>1. /\ op = "writeAll" /\ taken' \in taken..Len(stream)
        /\ outcome' \in {"running", "ok", "error"}
        /\ outcome' = "ok" => taken' = Len(stream)
        /\ UNCHANGED <<op, stream, done, phase, want, used, code>>
    BY <1>1, <1>7 DEF Write, input
  <2>2. TypeOK'
    BY <1>1, <2>1 DEF WInv, TypeOK
  <2>3. LineInv' /\ SocksInv'
    BY <2>1 DEF LineInv, SocksInv, Socks
  <2> QED BY <2>2, <2>3 DEF WInv
<1>8. CASE UNCHANGED vars
  <2>1. UNCHANGED <<op, stream, taken, done, phase, want, used, code, outcome>>
    BY <1>8 DEF vars
  <2> QED BY <2>1 DEF WInv, TypeOK, SocksInv, LineInv, SocksLength
<1> QED BY <1>2, <1>3, <1>4, <1>5, <1>6, <1>7, <1>8 DEF Next, Terminated

\* So it stays there.
LEMMA WireInvariant ==
  ASSUME Wellformed
  PROVE  Spec => []WInv
<1>1. Init => WInv
  BY WireStarts
<1>2. WInv /\ [Next]_vars => WInv'
  BY WireStep
<1> QED BY <1>1, <1>2, PTL DEF Spec

\* Whatever a peer sends and however it cuts it, a SOCKS5 reader never takes more than
\* the declared part, ReadReply holds at most one byte more than its budget, and
\* readPairingLine two more than a pairing line (io.ReadFull and bufio.Reader).
THEOREM WireBounded == Spec => []HoldsABoundedPart
<1> USE FramingAssumption
<1>1. WInv => HoldsABoundedPart
  <2> SUFFICES ASSUME WInv PROVE HoldsABoundedPart
    OBVIOUS
  <2>1. /\ stream \in Seq(Byte) /\ Len(stream) \in Nat
        /\ taken \in 0..Len(stream) /\ done \in 0..taken /\ want \in Nat /\ used \in 0..MaxReply
        /\ MaxReply \in Nat
    BY StreamTyped DEF WInv, TypeOK
  <2>2. ASSUME op \in Socks PROVE taken - done <= want /\ taken <= 262
    <3>1. SocksInv
      BY DEF WInv
    <3>2. CASE outcome = "ok"
      <4>1. taken - done <= want /\ taken \in 2..262
        BY <2>2, <3>1, <3>2 DEF SocksInv
      <4> QED BY <4>1
    <3>3. CASE outcome # "ok"
      <4>1. taken <= done + want
        BY <2>1, <2>2, <3>1 DEF SocksInv
      <4>2. CASE phase \in {"header", "ipv4", "ipv6", "length", "port"}
        <5>1. done + want <= 262
          BY <2>1, <2>2, <3>1, <3>3, <4>2 DEF SocksInv
        <5> QED BY <2>1, <4>1, <5>1
      <4>3. CASE phase = "methods"
        <5>1. done = 2 /\ want = stream[2]
          BY <2>2, <3>1, <3>3, <4>3 DEF SocksInv
        <5>2. stream[2] \in Byte
          BY <2>1, <5>1
        <5>3. stream[2] \in Nat /\ stream[2] <= 255
          BY <5>2 DEF Byte
        <5> QED BY <2>1, <4>1, <5>1, <5>3
      <4>4. CASE phase = "domain"
        <5>1. done = 5 /\ want = stream[5]
          BY <2>2, <3>1, <3>3, <4>4 DEF SocksInv
        <5>2. stream[5] \in Byte
          BY <2>1, <5>1
        <5>3. stream[5] \in Nat /\ stream[5] <= 255
          BY <5>2 DEF Byte
        <5> QED BY <2>1, <4>1, <5>1, <5>3
      <4> QED BY <2>2, <3>1, <3>3, <4>2, <4>3, <4>4 DEF SocksInv
    <3> QED BY <3>2, <3>3
  <2> QED BY <2>1, <2>2 DEF WInv, LineInv, HoldsABoundedPart
<1> QED BY <1>1, WireInvariant, PTL

-----------------------------------------------------------------------------
(***************************************************************************)
(* The replies.                                                             *)
(***************************************************************************)
\* The lines of a stream: the references of Framing, of any stream.
EndsOf(s) == {e \in DOMAIN s : s[e] = NL}
StartOf(s, e) ==
  CHOOSE b \in 1..e : (b = 1 \/ s[b - 1] = NL) /\ \A k \in b..(e - 1) : s[k] # NL
LineOf(s, e) == Trim(SubSeq(s, StartOf(s, e), e))
AtStart(s, d) == d = 0 \/ s[d] = NL
Begins(s, b, f) == f \in EndsOf(s) /\ f >= b /\ \A g \in EndsOf(s) : g >= b => f <= g
Closing(start, line) ==
  Len(line) > 3 /\ SubSeq(line, 1, 4) = Append(SubSeq(start, 1, 3), SP)

\* A line begins behind the newline before it.
LEMMA LineStartIs ==
  ASSUME NEW s \in Seq(Byte), NEW e \in 1..Len(s), NEW d \in 0..(e - 1),
         AtStart(s, d), \A k \in (d + 1)..(e - 1) : s[k] # NL
  PROVE  StartOf(s, e) = d + 1
<1> DEFINE P(b) == (b = 1 \/ s[b - 1] = NL) /\ \A k \in b..(e - 1) : s[k] # NL
<1>1. Len(s) \in Nat
  OBVIOUS
<1>2. d + 1 \in 1..e /\ P(d + 1)
  BY <1>1 DEF AtStart
<1>3. ASSUME NEW b \in 1..e, P(b) PROVE b = d + 1
  <2>1. CASE b < d + 1
    <3>1. d \in b..(e - 1) /\ s[d] = NL
      BY <1>1, <2>1 DEF AtStart
    <3> QED BY <1>3, <3>1
  <2>2. CASE b > d + 1
    <3>1. b - 1 \in (d + 1)..(e - 1) /\ s[b - 1] = NL
      BY <1>1, <1>3, <2>2
    <3> QED BY <3>1
  <2> QED BY <1>1, <2>1, <2>2
<1>4. (CHOOSE b \in 1..e : P(b)) = d + 1
  BY <1>2, <1>3
<1> QED BY <1>4 DEF StartOf

\* Every line begins somewhere.
LEMMA LineStarts ==
  ASSUME NEW s \in Seq(Byte), NEW e \in 1..Len(s)
  PROVE  /\ StartOf(s, e) \in 1..e
         /\ \A k \in StartOf(s, e)..(e - 1) : s[k] # NL
<1> DEFINE P(b) == (b = 1 \/ s[b - 1] = NL) /\ \A k \in b..(e - 1) : s[k] # NL
           T == {b \in 1..e : \A k \in b..(e - 1) : s[k] # NL}
<1>1. Len(s) \in Nat
  OBVIOUS
<1>2. e \in T /\ T \subseteq Nat
  BY <1>1
<1>3. PICK b \in T : \A y \in T : b <= y
  BY <1>2, LeastNat
<1>4. b = 1 \/ s[b - 1] = NL
  <2> SUFFICES ASSUME b # 1, s[b - 1] # NL PROVE FALSE
    OBVIOUS
  <2>1. b - 1 \in T
    BY <1>1, <1>3
  <2> QED BY <1>1, <1>3, <2>1
<1>5. b \in 1..e /\ P(b)
  BY <1>3, <1>4
<1> HIDE DEF T
<1>6. (CHOOSE x \in 1..e : P(x)) \in 1..e /\ P(CHOOSE x \in 1..e : P(x))
  BY <1>5
<1>7. StartOf(s, e) = CHOOSE x \in 1..e : P(x)
  BY DEF StartOf
<1> QED BY <1>6, <1>7

\* The first line of what begins at b: the one that ends first, and the only one
\* that begins there.
LEMMA FirstLineOf ==
  ASSUME NEW s \in Seq(Byte), NEW d \in Nat, AtStart(s, d), NEW f, Begins(s, d + 1, f)
  PROVE  /\ (CHOOSE x \in EndsOf(s) : x >= d + 1 /\ \A g \in EndsOf(s) : g >= d + 1 => x <= g) = f
         /\ StartOf(s, f) = d + 1
         /\ (CHOOSE x \in EndsOf(s) : StartOf(s, x) = d + 1) = f
<1>1. /\ Len(s) \in Nat /\ f \in 1..Len(s) /\ f >= d + 1
      /\ EndsOf(s) \subseteq 1..Len(s) /\ s[f] = NL /\ f \in EndsOf(s)
  BY DEF EndsOf, Begins
<1>2. \A k \in (d + 1)..(f - 1) : s[k] # NL
  <2> SUFFICES ASSUME NEW k \in (d + 1)..(f - 1), s[k] = NL PROVE FALSE
    OBVIOUS
  <2>1. k \in EndsOf(s)
    BY <1>1 DEF EndsOf
  <2> QED BY <1>1, <2>1 DEF Begins
<1>3. StartOf(s, f) = d + 1
  BY <1>1, <1>2, LineStartIs
<1>4. ASSUME NEW x \in EndsOf(s), x >= d + 1, \A g \in EndsOf(s) : g >= d + 1 => x <= g
      PROVE  x = f
  BY <1>1, <1>4 DEF Begins
<1>5. ASSUME NEW x \in EndsOf(s), StartOf(s, x) = d + 1 PROVE x = f
  <2>1. x \in 1..Len(s) /\ d + 1 \in 1..x /\ \A k \in (d + 1)..(x - 1) : s[k] # NL
    BY <1>1, <1>5, LineStarts
  <2>2. f <= x
    BY <1>1, <2>1 DEF Begins
  <2>3. ~(f < x)
    BY <1>1, <2>1
  <2> QED BY <1>1, <2>1, <2>2, <2>3
<1> QED BY <1>1, <1>3, <1>4, <1>5 DEF Begins

\* A line without its ending is one of bytes.
LEMMA TrimTyped ==
  ASSUME NEW raw \in Seq(Byte), Len(raw) > 0
  PROVE  Trim(raw) \in Seq(Byte)
<1>1. Front(raw) \in Seq(Byte)
  BY DEF Front
<1>2. ASSUME NEW l \in Seq(Byte), l # <<>> PROVE Front(l) \in Seq(Byte)
  BY <1>2 DEF Front
<1> QED BY <1>1, <1>2 DEF Trim

\* m has the three digits u, v and w.
ThreeDigits(m, u, v, w) ==
  /\ u \in 0..9 /\ v \in 0..9 /\ w \in 0..9 /\ m \in 100..599
  /\ m = 100 * u + 10 * v + w

\* A code of three digits is written as it was read.
LEMMA DecimalOfCode ==
  ASSUME NEW m, NEW u, NEW v, NEW w, ThreeDigits(m, u, v, w)
  PROVE  Decimal(m) = <<u, v, w>>
<1> DEFINE F(k) == [i \in 1..k |-> (m \div Tens[k - i + 1]) % 10]
           K == CHOOSE k \in 1..5 : Tens[k] <= m /\ m < Tens[k + 1]
<1> USE DEF ThreeDigits
<1>1. \A k \in 1..5 : (Tens[k] <= m /\ m < Tens[k + 1]) <=> k = 3
  BY DEF Tens
<1>2. K = 3
  BY <1>1
<1>3. Decimal(m) = F(K)
  BY DEF Decimal
<1>4. F(K) = F(3)
  <2> HIDE DEF F
  <2> QED BY <1>2
<1>5. /\ (m \div Tens[3]) % 10 = u
      /\ (m \div Tens[2]) % 10 = v
      /\ (m \div Tens[1]) % 10 = w
  BY DEF Tens
<1>6. F(3) = <<u, v, w>>
  BY <1>5
<1> QED BY <1>3, <1>4, <1>6

\* A later line ends the reply if it repeats the code and a blank.
LEMMA ClosingLine ==
  ASSUME NEW start \in Seq(Byte), NEW line \in Seq(Byte), parseFTPReplyStart(start)
  PROVE  IsPrefix(Append(Decimal(Code(start)), SP), line) <=> Closing(start, line)
<1>1. /\ Len(start) >= 3 /\ start[1] \in 0..9 /\ start[2] \in 0..9 /\ start[3] \in 0..9
      /\ Code(start) \in 100..599
      /\ Code(start) = 100 * start[1] + 10 * start[2] + start[3]
  BY DEF parseFTPReplyStart, Digits, Code
<1> DEFINE c == <<start[1], start[2], start[3]>>
           p == <<start[1], start[2], start[3], SP>>
<1>2. Decimal(Code(start)) = c
  <2>1. ThreeDigits(Code(start), start[1], start[2], start[3])
    BY <1>1 DEF ThreeDigits
  <2> QED BY <2>1, DecimalOfCode
<1>3. SubSeq(start, 1, 3) = c
  <2>1. Len(start) \in Nat /\ \A i \in 1..Len(start) : start[i] \in Byte
    OBVIOUS
  <2>2. SubSeq(start, 1, 3) \in Seq(Byte) /\ Len(SubSeq(start, 1, 3)) = 3
    BY <1>1, <2>1
  <2>3. c \in Seq(Byte) /\ Len(c) = 3
    BY <1>1, <2>1
  <2>4. \A i \in 1..3 : SubSeq(start, 1, 3)[i] = c[i]
    BY <1>1, <2>1
  <2> QED BY <2>2, <2>3, <2>4, SeqEqual
<1>4. Append(c, SP) = p /\ Len(p) = 4 /\ SubSeq(p, 1, 4) = p
  <2>1. c \in Seq(Int) /\ p \in Seq(Int) /\ Len(c) = 3 /\ Len(p) = 4 /\ SP \in Int
    BY <1>1 DEF SP
  <2>2. Append(c, SP) \in Seq(Int) /\ Len(Append(c, SP)) = 4
    BY <2>1
  <2>3. \A i \in 1..4 : Append(c, SP)[i] = p[i]
    BY <2>1
  <2>4. SubSeq(p, 1, 4) = p
    BY <2>1, SubSeqFull
  <2> HIDE DEF c, p
  <2> QED BY <2>1, <2>2, <2>3, <2>4, SeqEqual
<1> HIDE DEF c, p
<1>5. IsPrefix(p, line) <=> 4 <= Len(line) /\ p = SubSeq(line, 1, 4)
  BY <1>4 DEF IsPrefix
<1>6. Closing(start, line) <=> Len(line) > 3 /\ SubSeq(line, 1, 4) = p
  BY <1>3, <1>4 DEF Closing
<1>7. Len(line) \in Nat
  OBVIOUS
<1> QED BY <1>2, <1>4, <1>5, <1>6, <1>7

\* A reply behind byte d whose first line ends at f and whose last at e.
Whole(s, d, f, e) ==
  /\ e - d <= MaxReply
  /\ parseFTPReplyStart(LineOf(s, f))
  /\ IF Len(LineOf(s, f)) > 3 /\ LineOf(s, f)[4] = Dash
       THEN /\ e > f /\ Closing(LineOf(s, f), LineOf(s, e))
            /\ \A g \in EndsOf(s) : f < g /\ g < e => ~Closing(LineOf(s, f), LineOf(s, g))
       ELSE e = f

\* The references of Framing are those of its stream.
LEMMA LinesAre ==
  /\ Ends = EndsOf(stream)
  /\ \A e : LineStart(e) = StartOf(stream, e)
  /\ \A e : LineAt(e) = LineOf(stream, e)
<1>1. Ends = EndsOf(stream)
  BY DEF Ends, EndsOf
<1>2. ASSUME NEW e PROVE LineStart(e) = StartOf(stream, e)
  BY DEF LineStart, StartOf
<1>3. ASSUME NEW e PROVE LineAt(e) = LineOf(stream, e)
  BY <1>2 DEF LineAt, LineOf
<1> QED BY <1>1, <1>2, <1>3

\* A stream with a newline behind byte d has a first one there.
LEMMA SomeLine ==
  ASSUME NEW s \in Seq(Byte), NEW d \in Nat, NEW e \in EndsOf(s), e > d
  PROVE  \E f \in EndsOf(s) : Begins(s, d + 1, f) /\ f <= e
<1> DEFINE T == {g \in EndsOf(s) : g >= d + 1}
<1>1. EndsOf(s) \subseteq Nat
  BY DEF EndsOf
<1>2. e \in T /\ T \subseteq Nat
  BY <1>1
<1>3. PICK f \in T : \A g \in T : f <= g
  BY <1>2, LeastNat
<1> QED BY <1>1, <1>2, <1>3 DEF Begins

\* The lines of a stream are sequences of bytes.
LEMMA LineTyped ==
  ASSUME NEW s \in Seq(Byte), NEW e \in EndsOf(s)
  PROVE  LineOf(s, e) \in Seq(Byte)
<1>1. e \in 1..Len(s) /\ Len(s) \in Nat
  BY DEF EndsOf
<1>2. StartOf(s, e) \in 1..e
  BY <1>1, LineStarts
<1>3. PICK b \in 1..e : b = StartOf(s, e)
  BY <1>2
<1>4. SubSeq(s, b, e) \in Seq(Byte) /\ Len(SubSeq(s, b, e)) > 0
  BY <1>1
<1> QED BY <1>3, <1>4, TrimTyped DEF LineOf

\* Where a reply ends, with its first line named.
LEMMA ReplyIs ==
  ASSUME stream \in Seq(Byte), NEW d \in Nat, AtStart(stream, d), NEW f, Begins(stream, d + 1, f),
         NEW e \in EndsOf(stream)
  PROVE  IsReply(d + 1, e) <=> (e > d /\ Whole(stream, d, f, e))
<1> DEFINE First == CHOOSE x \in Ends : x >= d + 1 /\ \A g \in Ends : g >= d + 1 => x <= g
<1>1. First = f
  BY FirstLineOf, LinesAre
<1>2. e \in Nat
  BY DEF EndsOf
<1>3. /\ d + 1 <= e <=> e > d
      /\ e - (d + 1) + 1 <= MaxReply <=> e - d <= MaxReply
  BY <1>2
<1>4. IsReply(d + 1, e) <=>
        /\ d + 1 <= e
        /\ e - (d + 1) + 1 <= MaxReply
        /\ parseFTPReplyStart(LineAt(First))
        /\ IF Len(LineAt(First)) > 3 /\ LineAt(First)[4] = Dash
             THEN /\ e > First /\ Closing(LineAt(First), LineAt(e))
                  /\ \A g \in Ends : First < g /\ g < e => ~Closing(LineAt(First), LineAt(g))
             ELSE e = First
  BY DEF IsReply, Closing
<1> HIDE DEF First
<1> QED BY <1>1, <1>3, <1>4, LinesAre DEF Whole

\* The line that readLine returns is the next one of the stream.
LEMMA NextLine ==
  ASSUME Wellformed, WInv, AtStart(stream, done), Contains(Held, NL)
  PROVE  /\ Begins(stream, done + 1, done + Len(FirstLine(Held)))
         /\ LineOf(stream, done + Len(FirstLine(Held))) = Trim(FirstLine(Held))
<1>1. /\ stream \in Seq(Byte) /\ Len(stream) \in Nat /\ taken \in 0..Len(stream) /\ done \in 0..taken
  BY StreamTyped DEF WInv, TypeOK
<1>2. /\ Held \in Seq(Byte) /\ Len(Held) = taken - done
      /\ \A i \in 1..(taken - done) : Held[i] = stream[done + i]
  BY <1>1, HeldTyped DEF Held
<1>3. PICK m \in 1..Len(Held) : Held[m] = NL
  BY DEF Contains
<1>4. m \in DOMAIN Held
  BY <1>2
<1>5. PICK c \in 1..m : /\ FirstLine(Held) = SubSeq(Held, 1, c)
                        /\ SubSeq(Held, 1, c) \in Seq(Byte)
                        /\ Len(SubSeq(Held, 1, c)) = c
                        /\ Held[c] = NL /\ \A j \in 1..(c - 1) : Held[j] # NL
  BY <1>2, <1>3, <1>4, FirstLineTyped
<1>6. PICK n \in 1..Len(stream) : n = done + c
  <2>1. m <= taken - done /\ c <= m /\ c >= 1 /\ c \in Nat /\ m \in Nat
    BY <1>1, <1>2, <1>3, <1>5
  <2>2. done + c \in 1..Len(stream)
    BY <1>1, <2>1
  <2> QED BY <2>2
<1>7. stream[n] = NL
  BY <1>1, <1>2, <1>3, <1>5, <1>6
<1>8. \A k \in (done + 1)..(n - 1) : stream[k] # NL
  <2> SUFFICES ASSUME NEW k \in (done + 1)..(n - 1) PROVE stream[k] # NL
    OBVIOUS
  <2>1. k - done \in 1..(c - 1) /\ k - done \in 1..(taken - done) /\ done + (k - done) = k
    BY <1>1, <1>2, <1>3, <1>5, <1>6
  <2> QED BY <1>2, <1>5, <2>1
<1>9. Begins(stream, done + 1, n)
  <2>1. n \in EndsOf(stream) /\ n >= done + 1
    BY <1>1, <1>6, <1>7 DEF EndsOf
  <2>2. ASSUME NEW g \in EndsOf(stream), g >= done + 1 PROVE n <= g
    <3>1. g \in 1..Len(stream) /\ stream[g] = NL
      BY <1>1 DEF EndsOf
    <3> QED BY <1>1, <1>8, <2>2, <3>1
  <2> QED BY <2>1, <2>2 DEF Begins
<1>10. StartOf(stream, n) = done + 1
  BY <1>1, <1>6, <1>8, LineStartIs
<1>11. SubSeq(stream, done + 1, n) = SubSeq(Held, 1, c)
  <2>1. SubSeq(stream, done + 1, n) \in Seq(Byte) /\ Len(SubSeq(stream, done + 1, n)) = c
    BY <1>1, <1>6
  <2>2. ASSUME NEW i \in 1..c PROVE SubSeq(stream, done + 1, n)[i] = SubSeq(Held, 1, c)[i]
    <3>1. SubSeq(stream, done + 1, n)[i] = stream[done + i]
      BY <1>1, <1>6
    <3>2. SubSeq(Held, 1, c)[i] = Held[i]
      BY <1>2, <1>3, <1>5
    <3>3. i \in 1..(taken - done)
      BY <1>1, <1>2, <1>3, <1>5
    <3> QED BY <1>2, <3>1, <3>2, <3>3
  <2> QED BY <1>5, <2>1, <2>2, SeqEqual
<1> QED BY <1>5, <1>6, <1>9, <1>10, <1>11 DEF LineOf

\* The lines of the current reply that have been read, d bytes up to the n-th byte:
\* none, or those of a multi-line reply that none of them closes.
Reading(s, d, n, ph, c) ==
  /\ AtStart(s, d) /\ AtStart(s, n)
  /\ \/ ph = "first" /\ d = n
     \/ /\ ph = "more"
        /\ \E f \in EndsOf(s) :
             /\ Begins(s, d + 1, f) /\ f <= n
             /\ parseFTPReplyStart(LineOf(s, f))
             /\ Len(LineOf(s, f)) > 3 /\ LineOf(s, f)[4] = Dash
             /\ c = Code(LineOf(s, f))
             /\ \A g \in EndsOf(s) : f < g /\ g <= n => ~Closing(LineOf(s, f), LineOf(s, g))

\* The reader of replies is behind the lines it has read of the current one.
ReplyInv == op = "ReadReply" => done - used \in Nat /\ Reading(stream, done - used, done, phase, code)

\* A reply that is still to be read ends behind the lines that have been.
LEMMA ReplyEndsLater ==
  ASSUME stream \in Seq(Byte), NEW d \in Nat, NEW n \in Nat, d <= n, NEW ph, NEW c,
         Reading(stream, d, n, ph, c), NEW e \in EndsOf(stream), IsReply(d + 1, e)
  PROVE  e > n /\ e - d <= MaxReply
<1>1. e \in Nat /\ d + 1 <= e
  BY DEF EndsOf, IsReply
<1>2. PICK f \in EndsOf(stream) : Begins(stream, d + 1, f) /\ f <= e
  BY <1>1, SomeLine
<1>3. Whole(stream, d, f, e)
  BY <1>2, ReplyIs DEF Reading
<1>4. CASE ph = "first" /\ d = n
  BY <1>1, <1>3, <1>4 DEF Whole
<1>5. CASE ph = "more"
  <2>1. PICK x \in EndsOf(stream) :
             /\ Begins(stream, d + 1, x) /\ x <= n
             /\ Len(LineOf(stream, x)) > 3 /\ LineOf(stream, x)[4] = Dash
             /\ \A g \in EndsOf(stream) : x < g /\ g <= n => ~Closing(LineOf(stream, x), LineOf(stream, g))
    BY <1>5 DEF Reading
  <2>2. x = f
    <3>1. x \in Nat /\ f \in Nat /\ x <= f /\ f <= x
      BY <1>2, <2>1 DEF Begins, EndsOf
    <3> QED BY <3>1
  <2>3. e > f /\ Closing(LineOf(stream, f), LineOf(stream, e)) /\ e - d <= MaxReply
    BY <1>3, <2>1, <2>2 DEF Whole
  <2>4. ~(f < e /\ e <= n)
    BY <2>1, <2>2, <2>3
  <2> QED BY <1>1, <2>3, <2>4
<1> QED BY <1>4, <1>5 DEF Reading

\* A line that readLine returns and ReadReply accepts ends the reply or goes on with it.
LEMMA ReplyLineRead ==
  ASSUME Wellformed, WInv, ReplyInv, ReplyLine, outcome' # "error"
  PROVE  \E n \in EndsOf(stream) :
           /\ n > done /\ done' = n /\ n - (done - used) <= MaxReply
           /\ \/ /\ used' = 0 /\ phase' = "first" /\ result' = Append(result, code')
                 /\ outcome' = IF Len(result') = MaxReplies THEN "ok" ELSE "running"
                 /\ \E f \in EndsOf(stream) :
                      /\ Begins(stream, (done - used) + 1, f) /\ Whole(stream, done - used, f, n)
                      /\ code' = Code(LineOf(stream, f))
              \/ /\ used' = used + (n - done) /\ phase' = "more" /\ UNCHANGED <<result, outcome>>
                 /\ Reading(stream, done - used, n, "more", code')
<1> DEFINE raw == FirstLine(Held)
           line == Trim(raw)
<1>1. /\ stream \in Seq(Byte) /\ Len(stream) \in Nat /\ taken \in 0..Len(stream) /\ done \in 0..taken
      /\ used \in 0..MaxReply /\ MaxReply \in Nat
  BY StreamTyped DEF WInv, TypeOK
<1>2. outcome = "running" /\ op = "ReadReply" /\ Contains(Held, NL)
  BY DEF ReplyLine
<1>3. PICK d \in Nat : d = done - used /\ Reading(stream, d, done, phase, code) /\ d <= done
  BY <1>1, <1>2 DEF ReplyInv
<1>4. Len(raw) \in 1..(taken - done) /\ raw \in Seq(Byte)
  BY <1>2, LineHeld
<1>5. Begins(stream, done + 1, done + Len(raw)) /\ LineOf(stream, done + Len(raw)) = line
  BY <1>2, <1>3, NextLine DEF Reading
<1>6. PICK n \in EndsOf(stream) : n = done + Len(raw) /\ Begins(stream, done + 1, n) /\ LineOf(stream, n) = line
  BY <1>5 DEF Begins
<1>7. n \in Nat /\ n > done /\ stream[n] = NL /\ Len(raw) = n - done
  BY <1>1, <1>4, <1>6 DEF EndsOf
<1> HIDE DEF raw, line
<1>8. WithinBudget(raw) /\ (phase = "first" => parseFTPReplyStart(line))
  BY DEF ReplyLine, Fail, raw, line
<1>9. n - d <= MaxReply
  BY <1>1, <1>3, <1>7, <1>8 DEF WithinBudget
<1>10. /\ done' = n
       /\ code' = IF phase = "first" THEN Code(line) ELSE code
  BY <1>6, <1>8 DEF ReplyLine, raw, line
<1>11. ASSUME ReplyOver(line)
       PROVE  /\ used' = 0 /\ phase' = "first" /\ result' = Append(result, code')
              /\ outcome' = IF Len(result') = MaxReplies THEN "ok" ELSE "running"
  BY <1>8, <1>11 DEF ReplyLine, raw, line
<1>12. ASSUME ~ReplyOver(line)
       PROVE  used' = used + (n - done) /\ phase' = "more" /\ UNCHANGED <<result, outcome>>
  BY <1>7, <1>8, <1>12 DEF ReplyLine, raw, line
<1>13. CASE phase = "first"
  <2>1. d = done /\ parseFTPReplyStart(line)
    BY <1>3, <1>8, <1>13 DEF Reading
  <2>2. CASE ReplyOver(line)
    <3>1. ~(Len(line) > 3 /\ line[4] = Dash)
      BY <1>13, <2>2 DEF ReplyOver, SP, Dash
    <3>2. Whole(stream, d, n, n) /\ code' = Code(LineOf(stream, n))
      BY <1>6, <1>9, <1>10, <1>13, <2>1, <3>1 DEF Whole
    <3> QED BY <1>3, <1>6, <1>7, <1>9, <1>10, <1>11, <2>1, <2>2, <3>2
  <2>3. CASE ~ReplyOver(line)
    <3>1. Len(line) > 3 /\ line[4] = Dash
      <4>1. line \in Seq(Byte)
        BY <1>1, <1>6, LineTyped
      <4>2. Len(line) \in Nat
        BY <4>1
      <4>3. Len(line) # 3 /\ line[4] # SP
        BY <1>13, <2>3 DEF ReplyOver
      <4> QED BY <2>1, <4>2, <4>3 DEF parseFTPReplyStart
    <3>2. Reading(stream, d, n, "more", code')
      <4>1. AtStart(stream, d) /\ AtStart(stream, n)
        BY <1>3, <1>7 DEF Reading, AtStart
      <4>2. \A g \in EndsOf(stream) : ~(n < g /\ g <= n)
        BY <1>1, <1>7 DEF EndsOf
      <4> QED BY <1>6, <1>7, <1>10, <1>13, <2>1, <3>1, <4>1, <4>2 DEF Reading
    <3> QED BY <1>3, <1>6, <1>7, <1>9, <1>10, <1>12, <2>3, <3>2
  <2> QED BY <2>2, <2>3
<1>14. CASE phase # "first"
  <2>1. PICK f \in EndsOf(stream) :
             /\ Begins(stream, d + 1, f) /\ f <= done
             /\ parseFTPReplyStart(LineOf(stream, f))
             /\ Len(LineOf(stream, f)) > 3 /\ LineOf(stream, f)[4] = Dash
             /\ code = Code(LineOf(stream, f))
             /\ \A g \in EndsOf(stream) : f < g /\ g <= done => ~Closing(LineOf(stream, f), LineOf(stream, g))
    BY <1>3, <1>14 DEF Reading
  <2>2. ReplyOver(line) <=> Closing(LineOf(stream, f), line)
    <3>1. line \in Seq(Byte) /\ LineOf(stream, f) \in Seq(Byte)
      BY <1>1, <1>6, LineTyped
    <3>2. IsPrefix(Append(Decimal(code), SP), line) <=> Closing(LineOf(stream, f), line)
      BY <2>1, <3>1, ClosingLine
    <3> QED BY <1>14, <3>2 DEF ReplyOver
  <2>3. \A g \in EndsOf(stream) : f < g /\ g < n => ~Closing(LineOf(stream, f), LineOf(stream, g))
    <3> SUFFICES ASSUME NEW g \in EndsOf(stream), f < g, g < n
                 PROVE  ~Closing(LineOf(stream, f), LineOf(stream, g))
      OBVIOUS
    <3>1. g \in Nat /\ ~(g >= done + 1)
      BY <1>6, <1>7 DEF Begins, EndsOf
    <3> QED BY <1>1, <2>1, <3>1
  <2>4. f \in Nat /\ f < n
    BY <1>1, <1>7, <2>1 DEF EndsOf
  <2>5. CASE ReplyOver(line)
    <3>1. Whole(stream, d, f, n) /\ code' = Code(LineOf(stream, f))
      BY <1>6, <1>9, <1>10, <1>14, <2>1, <2>2, <2>3, <2>4, <2>5 DEF Whole
    <3> QED BY <1>3, <1>6, <1>7, <1>9, <1>10, <1>11, <2>1, <2>5, <3>1
  <2>6. CASE ~ReplyOver(line)
    <3>1. \A g \in EndsOf(stream) : f < g /\ g <= n => ~Closing(LineOf(stream, f), LineOf(stream, g))
      <4> SUFFICES ASSUME NEW g \in EndsOf(stream), f < g, g <= n
                   PROVE  ~Closing(LineOf(stream, f), LineOf(stream, g))
        OBVIOUS
      <4>1. g \in Nat
        BY <1>1 DEF EndsOf
      <4>2. CASE g = n
        BY <1>6, <2>2, <2>6, <4>2
      <4>3. CASE g < n
        BY <2>3, <4>3
      <4> QED BY <1>7, <4>1, <4>2, <4>3
    <3>2. AtStart(stream, d) /\ AtStart(stream, n)
      BY <1>3, <1>7 DEF Reading, AtStart
    <3>3. Reading(stream, d, n, "more", code')
      BY <1>7, <1>10, <1>14, <2>1, <2>4, <3>1, <3>2 DEF Reading
    <3> QED BY <1>3, <1>6, <1>7, <1>9, <1>10, <1>12, <2>6, <3>3
  <2> QED BY <2>5, <2>6
<1> QED BY <1>13, <1>14

\* No reply within the budget lies behind byte d.
NoReply(s, d) == ~\E e, f \in EndsOf(s) : e > d /\ Begins(s, d + 1, f) /\ Whole(s, d, f, e)

\* What ReadReply has returned, one reply behind the other.
ReplyOf(s, d, e, c) ==
  e > d /\ \E f \in EndsOf(s) : Begins(s, d + 1, f) /\ Whole(s, d, f, e) /\ c = Code(LineOf(s, f))

AllReplies(s, r, n) ==
  \E e \in [0..Len(r) -> {0} \cup EndsOf(s)] :
    e[0] = 0 /\ e[Len(r)] = n /\ \A k \in 1..Len(r) : ReplyOf(s, e[k - 1], e[k], r[k])

\* A reader of replies that failed has none in front of it.
CauseInv == op = "ReadReply" /\ outcome = "error" => NoReply(stream, done - used)

\* What was returned are the replies up to the current one.
RepliesInv ==
  op = "ReadReply" =>
    /\ result \in Seq(Int) /\ AllReplies(stream, result, done - used)
    /\ outcome = "ok" => Len(result) = MaxReplies /\ used = 0

FInv == WInv /\ ReplyInv /\ CauseInv /\ RepliesInv

\* One more reply behind those that were returned.
LEMMA MoreReplies ==
  ASSUME NEW s \in Seq(Byte), NEW r \in Seq(Int), NEW d, AllReplies(s, r, d),
         NEW n \in EndsOf(s), NEW c \in Int, ReplyOf(s, d, n, c)
  PROVE  AllReplies(s, Append(r, c), n)
<1>1. PICK e \in [0..Len(r) -> {0} \cup EndsOf(s)] :
        e[0] = 0 /\ e[Len(r)] = d /\ \A k \in 1..Len(r) : ReplyOf(s, e[k - 1], e[k], r[k])
  BY DEF AllReplies
<1> DEFINE q == Append(r, c)
           x == [k \in 0..(Len(r) + 1) |-> IF k = Len(r) + 1 THEN n ELSE e[k]]
<1>2. Len(r) \in Nat /\ q \in Seq(Int) /\ Len(q) = Len(r) + 1
  OBVIOUS
<1>3. x \in [0..Len(q) -> {0} \cup EndsOf(s)]
  BY <1>1, <1>2
<1>4. x[0] = 0 /\ x[Len(q)] = n
  BY <1>1, <1>2
<1>5. ASSUME NEW k \in 1..Len(q) PROVE ReplyOf(s, x[k - 1], x[k], q[k])
  <2>1. CASE k = Len(r) + 1
    <3>1. x[k - 1] = d /\ x[k] = n /\ q[k] = c
      BY <1>1, <1>2, <2>1
    <3> HIDE DEF x, q
    <3> QED BY <3>1
  <2>2. CASE k # Len(r) + 1
    <3>1. k \in 1..Len(r) /\ x[k - 1] = e[k - 1] /\ x[k] = e[k] /\ q[k] = r[k]
      BY <1>2, <2>2
    <3> HIDE DEF x, q
    <3> QED BY <1>1, <3>1
  <2> QED BY <2>1, <2>2
<1> HIDE DEF x
<1> QED BY <1>3, <1>4, <1>5 DEF AllReplies

\* A reader that fails has no reply in front of it.
LEMMA NoReplyLeft ==
  ASSUME Wellformed, WInv, ReplyInv, op = "ReadReply", outcome = "running", outcome' = "error",
         Eof \/ TooLong \/ ReplyLine
  PROVE  NoReply(stream, done - used)
<1>1. /\ stream \in Seq(Byte) /\ Len(stream) \in Nat /\ taken \in 0..Len(stream) /\ done \in 0..taken
      /\ used \in 0..MaxReply /\ MaxReply \in Nat
  BY StreamTyped DEF WInv, TypeOK
<1>2. PICK d \in Nat : d = done - used /\ Reading(stream, d, done, phase, code) /\ d <= done
  BY <1>1 DEF ReplyInv
<1> SUFFICES ASSUME NEW e \in EndsOf(stream), NEW f \in EndsOf(stream),
                    e > d, Begins(stream, d + 1, f), Whole(stream, d, f, e)
             PROVE  FALSE
  BY <1>2 DEF NoReply
<1>3. IsReply(d + 1, e)
  BY <1>1, <1>2, ReplyIs DEF Reading
<1>4. e > done /\ e - d <= MaxReply /\ e \in 1..Len(stream) /\ stream[e] = NL
  BY <1>1, <1>2, <1>3, ReplyEndsLater DEF EndsOf
<1>5. /\ Held \in Seq(Byte) /\ Len(Held) = taken - done
      /\ \A i \in 1..(taken - done) : Held[i] = stream[done + i]
  BY <1>1, HeldTyped DEF Held
<1>6. ASSUME e <= taken PROVE Contains(Held, NL)
  <2>1. e - done \in 1..(taken - done) /\ done + (e - done) = e
    BY <1>1, <1>4, <1>6
  <2>2. Held[e - done] = NL
    BY <1>4, <1>5, <2>1
  <2> QED BY <1>5, <2>1, <2>2 DEF Contains
<1>7. op \notin Socks
  BY DEF Socks
<1>8. CASE Eof
  <2>1. ~Contains(Held, NL) /\ taken = Len(stream)
    BY <1>7, <1>8 DEF Eof, Room
  <2> QED BY <1>4, <1>6, <2>1
<1>9. CASE TooLong
  <2>1. CASE Spent
    BY <1>1, <1>2, <1>4, <2>1 DEF Spent
  <2>2. CASE ~Spent
    <3>1. ~Contains(Held, NL) /\ MaxReply + 1 - (taken - done) = 0
      <4>1. ~Contains(Held, NL) /\ Room = 0
        BY <1>9, <2>2 DEF TooLong
      <4>2. Room = Capacity - (taken - done)
        BY <1>7, <2>2, <4>1 DEF Room
      <4>3. Capacity = MaxReply + 1
        BY DEF Capacity
      <4> QED BY <1>1, <4>1, <4>2, <4>3
    <3> QED BY <1>1, <1>2, <1>4, <1>6, <3>1
  <2> QED BY <2>1, <2>2
<1>10. CASE ReplyLine
  <2> DEFINE raw == FirstLine(Held)
             line == Trim(raw)
  <2>1. Contains(Held, NL)
    BY <1>10 DEF ReplyLine
  <2>2. Len(raw) \in 1..(taken - done)
    BY <2>1, LineHeld
  <2>3. Begins(stream, done + 1, done + Len(raw)) /\ LineOf(stream, done + Len(raw)) = line
    BY <1>2, <2>1, NextLine DEF Reading
  <2>4. ~(WithinBudget(raw) /\ (phase = "first" => parseFTPReplyStart(line)))
    <3> SUFFICES ASSUME WithinBudget(raw) /\ (phase = "first" => parseFTPReplyStart(line))
                 PROVE  FALSE
      OBVIOUS
    <3> HIDE DEF raw, line
    <3>1. CASE ReplyOver(line)
      BY <1>10, <3>1 DEF ReplyLine, raw, line
    <3>2. CASE ~ReplyOver(line)
      BY <1>10, <3>2 DEF ReplyLine, raw, line
    <3> QED BY <3>1, <3>2
  <2> HIDE DEF raw, line
  <2>5. done + Len(raw) <= e
    BY <1>1, <1>4, <2>3 DEF Begins
  <2>6. WithinBudget(raw)
    BY <1>1, <1>2, <1>4, <2>2, <2>5 DEF WithinBudget
  <2>7. phase = "first" /\ d = done
    BY <1>2, <2>4, <2>6 DEF Reading
  <2>8. f = done + Len(raw)
    <3>1. f \in Nat /\ f >= d + 1 /\ f <= done + Len(raw) /\ done + Len(raw) <= f
      BY <1>1, <2>3, <2>7 DEF Begins, EndsOf
    <3> QED BY <1>1, <2>2, <3>1
  <2> QED BY <2>3, <2>4, <2>6, <2>8 DEF Whole
<1> QED BY <1>8, <1>9, <1>10

\* A reader of replies starts at the start of the stream.
LEMMA ReplyStarts == Wellformed /\ Init => FInv
<1> SUFFICES ASSUME Wellformed, Init PROVE FInv
  OBVIOUS
<1>1. WInv
  BY WireStarts
<1>2. done = 0 /\ used = 0 /\ result = <<>> /\ outcome = "running"
  BY DEF Init
<1>3. op = "ReadReply" => phase = "first"
  BY DEF Init, Lines, Socks
<1>4. ReplyInv
  BY <1>2, <1>3 DEF ReplyInv, Reading, AtStart
<1>5. AllReplies(stream, <<>>, 0)
  <2> DEFINE e == [k \in 0..0 |-> 0]
  <2>1. Len(<<>>) = 0
    OBVIOUS
  <2>2. e \in [0..0 -> {0} \cup EndsOf(stream)] /\ e[0] = 0
    OBVIOUS
  <2> HIDE DEF e
  <2> QED BY <2>1, <2>2 DEF AllReplies
<1>6. RepliesInv
  BY <1>2, <1>5 DEF RepliesInv
<1> QED BY <1>1, <1>2, <1>4, <1>6 DEF FInv, CauseInv

\* No step leaves the operation or its stream.
LEMMA SameInput ==
  ASSUME [Next]_vars
  PROVE  op' = op /\ stream' = stream
BY DEF Next, vars, input, Read, Eof, RefusePart, NextPart, LastPart,
       TooLong, ReplyLine, PairingLine, Write, Terminated

\* Every step keeps the place of the reader, the replies returned and the cause of a
\* failure.
LEMMA ReplyStep == Wellformed /\ FInv /\ [Next]_vars => FInv'
<1> SUFFICES ASSUME Wellformed, FInv, [Next]_vars PROVE FInv'
  OBVIOUS
<1>1. WInv'
  BY WireStep DEF FInv
<1>2. op' = op /\ stream' = stream
  BY SameInput
<1>3. CASE op # "ReadReply"
  BY <1>1, <1>2, <1>3 DEF FInv, ReplyInv, CauseInv, RepliesInv
<1> SUFFICES ASSUME op = "ReadReply" PROVE FInv'
  BY <1>3
<1>4. /\ stream \in Seq(Byte) /\ Len(stream) \in Nat /\ taken \in 0..Len(stream) /\ done \in 0..taken
      /\ used \in 0..MaxReply /\ MaxReply \in Nat /\ done - used \in Nat
  BY StreamTyped DEF FInv, WInv, TypeOK, ReplyInv
<1>5. CASE UNCHANGED <<done, phase, used, code, result, outcome>>
  BY <1>1, <1>2, <1>5 DEF FInv, ReplyInv, CauseInv, RepliesInv
<1>6. ASSUME outcome = "running", Fail, Eof \/ TooLong \/ ReplyLine PROVE FInv'
  <2>1. outcome' = "error" /\ UNCHANGED <<done, phase, used, code, result>>
    BY <1>6 DEF Fail
  <2>2. NoReply(stream, done - used)
    BY <1>6, <2>1, NoReplyLeft DEF FInv
  <2> QED BY <1>1, <1>2, <2>1, <2>2 DEF FInv, ReplyInv, CauseInv, RepliesInv
<1>7. CASE ReplyLine /\ ~Fail
  <2>1. outcome = "running" /\ outcome' # "error"
    <3> DEFINE raw == FirstLine(Held)
               line == Trim(raw)
    <3>1. WithinBudget(raw) /\ (phase = "first" => parseFTPReplyStart(line))
      BY <1>7 DEF ReplyLine
    <3> HIDE DEF raw, line
    <3>2. CASE ReplyOver(line)
      BY <1>7, <3>1, <3>2 DEF ReplyLine, raw, line
    <3>3. CASE ~ReplyOver(line)
      BY <1>7, <3>1, <3>3 DEF ReplyLine, raw, line
    <3> QED BY <3>2, <3>3
  <2>2. PICK n \in EndsOf(stream) :
           /\ n > done /\ done' = n /\ n - (done - used) <= MaxReply
           /\ \/ /\ used' = 0 /\ phase' = "first" /\ result' = Append(result, code')
                 /\ outcome' = IF Len(result') = MaxReplies THEN "ok" ELSE "running"
                 /\ \E f \in EndsOf(stream) :
                      /\ Begins(stream, (done - used) + 1, f) /\ Whole(stream, done - used, f, n)
                      /\ code' = Code(LineOf(stream, f))
              \/ /\ used' = used + (n - done) /\ phase' = "more" /\ UNCHANGED <<result, outcome>>
                 /\ Reading(stream, done - used, n, "more", code')
    BY <1>7, <2>1, ReplyLineRead DEF FInv
  <2>3. n \in Nat /\ stream[n] = NL /\ code' \in Int
    BY <1>1, <1>4 DEF EndsOf, WInv, TypeOK
  <2>4. CASE phase' = "first"
    <3>1. used' = 0 /\ result' = Append(result, code') /\ done' - used' = n
          /\ outcome' = IF Len(result') = MaxReplies THEN "ok" ELSE "running"
      BY <2>2, <2>3, <2>4
    <3>2. ReplyInv'
      BY <2>2, <2>3, <2>4, <3>1, <1>2 DEF ReplyInv, Reading, AtStart
    <3>3. PICK f \in EndsOf(stream) :
            /\ Begins(stream, (done - used) + 1, f) /\ Whole(stream, done - used, f, n)
            /\ code' = Code(LineOf(stream, f))
      BY <2>2, <2>4
    <3>4. ReplyOf(stream, done - used, n, code')
      BY <1>4, <2>2, <2>3, <3>3 DEF ReplyOf
    <3>5. result \in Seq(Int) /\ AllReplies(stream, result, done - used)
      BY DEF FInv, RepliesInv
    <3>6. result' \in Seq(Int) /\ AllReplies(stream, result', n)
      BY <1>4, <2>3, <3>1, <3>4, <3>5, MoreReplies
    <3>7. RepliesInv'
      BY <1>2, <3>1, <3>6 DEF RepliesInv
    <3> QED BY <1>1, <2>1, <3>2, <3>7 DEF FInv, CauseInv
  <2>5. CASE phase' # "first"
    <3>1. /\ used' = used + (n - done) /\ phase' = "more" /\ UNCHANGED <<result, outcome>>
          /\ Reading(stream, done - used, n, "more", code')
      BY <2>2, <2>5
    <3>2. done' - used' = done - used
      BY <1>4, <2>2, <2>3, <3>1
    <3>3. ReplyInv'
      BY <1>2, <1>4, <2>2, <3>1, <3>2 DEF ReplyInv
    <3>4. RepliesInv'
      BY <1>2, <2>1, <3>1, <3>2 DEF FInv, RepliesInv
    <3> QED BY <1>1, <2>1, <3>3, <3>4 DEF FInv, CauseInv
  <2> QED BY <2>4, <2>5
<1>8. CASE Read
  BY <1>5, <1>8 DEF Read
<1>9. CASE Eof \/ TooLong
  BY <1>6, <1>9 DEF Eof, TooLong
<1>10. CASE ReplyLine
  BY <1>6, <1>7, <1>10 DEF ReplyLine
<1>11. ~(RefusePart \/ NextPart \/ LastPart \/ PairingLine \/ Write)
  BY DEF RefusePart, NextPart, LastPart, PartRead, PairingLine, Write, Socks
<1>12. CASE UNCHANGED vars
  BY <1>5, <1>12 DEF vars
<1> QED BY <1>8, <1>9, <1>10, <1>11, <1>12 DEF Next, Terminated

\* So they are kept.
LEMMA ReplyInvariant ==
  ASSUME Wellformed
  PROVE  Spec => []FInv
<1>1. Init => FInv
  BY ReplyStarts
<1>2. FInv /\ [Next]_vars => FInv'
  BY ReplyStep
<1> QED BY <1>1, <1>2, PTL DEF Spec

\* ReadReply gives up only when it must: if it failed, whether at the end of the
\* stream, for a full buffer, for a used-up budget or for a line that starts no reply,
\* then no whole reply within maxBytes lay in front of it (ftpReplyReader).
THEOREM WireFailsForCause == Spec => []FailsForCause
<1> USE FramingAssumption
<1>1. FInv => FailsForCause
  <2> SUFFICES ASSUME FInv, outcome = "error", op = "ReadReply",
                      NEW e \in Ends, IsReply(done - used + 1, e)
               PROVE  FALSE
    BY DEF FailsForCause
  <2>1. /\ stream \in Seq(Byte) /\ e \in EndsOf(stream) /\ NoReply(stream, done - used)
    BY StreamTyped, LinesAre DEF FInv, WInv, CauseInv
  <2>2. PICK d \in Nat : d = done - used /\ AtStart(stream, d)
    BY DEF FInv, ReplyInv, Reading
  <2>3. e > d
    BY <2>1, <2>2 DEF IsReply, EndsOf
  <2>4. PICK f \in EndsOf(stream) : Begins(stream, d + 1, f)
    BY <2>1, <2>2, <2>3, SomeLine
  <2>5. Whole(stream, d, f, e)
    BY <2>1, <2>2, <2>4, ReplyIs
  <2> QED BY <2>1, <2>2, <2>3, <2>4, <2>5 DEF NoReply
<1> QED BY <1>1, ReplyInvariant, PTL

\* Replies that were returned are those that the stream holds, one behind the other.
LEMMA RepliesAre ==
  ASSUME Wellformed, FInv, outcome = "ok"
  PROVE  RepliesMoved
<1> SUFFICES ASSUME op = "ReadReply" PROVE RepliesMoved
  BY DEF RepliesMoved
<1>1. /\ stream \in Seq(Byte) /\ result \in Seq(Int) /\ Len(result) = MaxReplies /\ used = 0
      /\ done \in Nat /\ MaxReplies \in Nat
  BY StreamTyped DEF FInv, WInv, RepliesInv, TypeOK, Wellformed
<1>2. AllReplies(stream, result, done)
  BY <1>1 DEF FInv, RepliesInv
<1>3. PICK e \in [0..MaxReplies -> {0} \cup EndsOf(stream)] :
        /\ e[0] = 0 /\ e[MaxReplies] = done
        /\ \A k \in 1..MaxReplies : ReplyOf(stream, e[k - 1], e[k], result[k])
  BY <1>1, <1>2 DEF AllReplies
<1>4. ASSUME NEW k \in 1..MaxReplies
      PROVE  /\ IsReply(e[k - 1] + 1, e[k])
             /\ result[k] = Code(LineAt(CHOOSE f \in Ends : LineStart(f) = e[k - 1] + 1))
  <2>1. k - 1 \in 0..MaxReplies /\ k \in 0..MaxReplies
    BY <1>1
  <2>2. PICK d \in Nat : d = e[k - 1] /\ AtStart(stream, d)
    <3>1. e[k - 1] \in {0} \cup EndsOf(stream)
      BY <1>3, <2>1
    <3>2. \A x \in {0} \cup EndsOf(stream) : x \in Nat /\ AtStart(stream, x)
      BY <1>1 DEF EndsOf, AtStart
    <3> QED BY <3>1, <3>2
  <2>3. PICK n \in {0} \cup EndsOf(stream) : n = e[k]
    BY <1>3, <2>1
  <2>4. ReplyOf(stream, d, n, result[k])
    BY <1>3, <2>2, <2>3
  <2>5. n \in EndsOf(stream)
    BY <2>2, <2>3, <2>4 DEF ReplyOf
  <2>6. PICK f \in EndsOf(stream) : /\ Begins(stream, d + 1, f) /\ Whole(stream, d, f, n)
                                    /\ result[k] = Code(LineOf(stream, f)) /\ n > d
    BY <2>4 DEF ReplyOf
  <2>7. IsReply(d + 1, n)
    BY <1>1, <2>2, <2>5, <2>6, ReplyIs
  <2>8. (CHOOSE x \in EndsOf(stream) : StartOf(stream, x) = d + 1) = f
    BY <1>1, <2>2, <2>6, FirstLineOf
  <2>9. (CHOOSE x \in Ends : LineStart(x) = d + 1) = f
    BY <2>8, LinesAre
  <2>10. result[k] = Code(LineAt(f))
    BY <2>6, LinesAre
  <2> QED BY <2>2, <2>3, <2>7, <2>9, <2>10
<1>5. e \in [0..MaxReplies -> {0} \cup Ends]
  BY <1>3, LinesAre
<1> QED BY <1>3, <1>4, <1>5 DEF RepliesMoved

-----------------------------------------------------------------------------
(***************************************************************************)
(* The pairing line.                                                        *)
(***************************************************************************)

\* A port in decimal digits: how many there are, and each of them.
LEMMA DecimalIs ==
  ASSUME NEW p \in Ports
  PROVE  \E k \in 1..5 :
           /\ Tens[k] <= p /\ p < Tens[k + 1]
           /\ Decimal(p) = [i \in 1..k |-> (p \div Tens[k - i + 1]) % 10]
<1> DEFINE P(k) == Tens[k] <= p /\ p < Tens[k + 1]
           F(k) == [i \in 1..k |-> (p \div Tens[k - i + 1]) % 10]
           K == CHOOSE k \in 1..5 : P(k)
<1>1. p \in Nat /\ 1 <= p /\ p < 100000
  BY DEF Ports
<1>2. \E k \in 1..5 : P(k)
  BY <1>1 DEF Tens
<1>3. K \in 1..5 /\ P(K)
  BY <1>2
<1>4. Decimal(p) = F(K)
  BY DEF Decimal
<1> QED BY <1>3, <1>4

\* One more digit.
LEMMA DigitStep ==
  ASSUME NEW p \in Nat, NEW j \in 1..5
  PROVE  /\ p \div Tens[j] = 10 * (p \div Tens[j + 1]) + ((p \div Tens[j]) % 10)
         /\ p \div Tens[j] \in Nat /\ (p \div Tens[j]) % 10 \in Digits
<1>2. CASE j = 1
  BY <1>2 DEF Tens, Digits
<1>3. CASE j = 2
  BY <1>3 DEF Tens, Digits
<1>4. CASE j = 3
  BY <1>4 DEF Tens, Digits
<1>5. CASE j = 4
  BY <1>5 DEF Tens, Digits
<1>6. CASE j = 5
  BY <1>6 DEF Tens, Digits
<1> QED BY <1>2, <1>3, <1>4, <1>5, <1>6

\* The digits of a port are read back as the port.
LEMMA NumberIs ==
  ASSUME NEW p \in Ports
  PROVE  /\ Decimal(p) \in Seq(Digits) /\ Len(Decimal(p)) \in 1..5
         /\ Number(Decimal(p)) = p
<1>1. p \in Nat
  BY DEF Ports
<1>2. PICK k \in 1..5 :
           /\ Tens[k] <= p /\ p < Tens[k + 1]
           /\ Decimal(p) = [i \in 1..k |-> (p \div Tens[k - i + 1]) % 10]
  BY DecimalIs
<1>3. PICK D : D = Decimal(p)
  OBVIOUS
<1>4. \A i \in 1..k : k - i + 1 \in 1..5 /\ k - (i - 1) + 1 = (k - i + 1) + 1
  OBVIOUS
<1>5. \A i \in 1..k : D[i] = (p \div Tens[k - i + 1]) % 10 /\ D[i] \in Digits
  BY <1>1, <1>2, <1>3, <1>4, DigitStep
<1>6. D \in Seq(Digits) /\ Len(D) = k
  <2>1. D \in [1..k -> Digits]
    BY <1>2, <1>3, <1>5
  <2> QED BY <2>1
<1> DEFINE Rec(g) == g = [i \in 0..Len(D) |-> IF i = 0 THEN 0 ELSE 10 * g[i - 1] + D[i]]
           G == [i \in 0..k |-> p \div Tens[k - i + 1]]
<1>7. G[0] = 0 /\ G[k] = p
  <2>1. p \div Tens[k + 1] = 0
    <3>1. CASE k = 1
      BY <1>1, <1>2, <3>1 DEF Tens
    <3>2. CASE k = 2
      BY <1>1, <1>2, <3>2 DEF Tens
    <3>3. CASE k = 3
      BY <1>1, <1>2, <3>3 DEF Tens
    <3>4. CASE k = 4
      BY <1>1, <1>2, <3>4 DEF Tens
    <3>5. CASE k = 5
      BY <1>1, <1>2, <3>5 DEF Tens
    <3> QED BY <3>1, <3>2, <3>3, <3>4, <3>5
  <2>2. p \div Tens[1] = p
    BY <1>1 DEF Tens
  <2>3. k - 0 + 1 = k + 1 /\ k - k + 1 = 1
    OBVIOUS
  <2> QED BY <2>1, <2>2, <2>3
<1>8. ASSUME NEW i \in 1..k PROVE G[i] = 10 * G[i - 1] + D[i]
  <2>1. i - 1 \in 0..k /\ i \in 0..k
    OBVIOUS
  <2>2. G[i] = p \div Tens[k - i + 1] /\ G[i - 1] = p \div Tens[(k - i + 1) + 1]
    BY <1>4, <2>1
  <2>3. PICK j \in 1..5 : j = k - i + 1
    BY <1>4
  <2>4. p \div Tens[j] = 10 * (p \div Tens[j + 1]) + ((p \div Tens[j]) % 10)
    BY <1>1, DigitStep
  <2> HIDE DEF G
  <2> QED BY <1>5, <2>2, <2>3, <2>4
<1>9. Rec(G)
  <2>1. ASSUME NEW i \in 0..k PROVE G[i] = IF i = 0 THEN 0 ELSE 10 * G[i - 1] + D[i]
    <3>1. CASE i = 0
      BY <1>7, <3>1
    <3>2. CASE i # 0
      <4>1. i \in 1..k
        BY <3>2
      <4> HIDE DEF G
      <4> QED BY <1>8, <3>2, <4>1
    <3> QED BY <3>1, <3>2
  <2>2. G = [i \in 0..k |-> G[i]]
    OBVIOUS
  <2> HIDE DEF G
  <2> QED BY <1>6, <2>1, <2>2
<1>10. Rec(CHOOSE g : Rec(g))
  <2> HIDE DEF Rec, G
  <2> QED BY <1>9
<1>11. PICK h : h = (CHOOSE g : Rec(g))
  OBVIOUS
<1>12. h[0] = 0 /\ \A i \in 1..k : h[i] = 10 * h[i - 1] + D[i]
  <2>1. Rec(h)
    BY <1>10, <1>11
  <2> QED BY <1>6, <2>1
<1>13. h[k] = G[k]
  <2> DEFINE T == {i \in 0..k : h[i] # G[i]}
  <2> SUFFICES ASSUME T # {} PROVE FALSE
    OBVIOUS
  <2>1. T \subseteq Nat
    OBVIOUS
  <2>2. PICK x \in T : \A y \in T : x <= y
    BY <2>1, LeastNat
  <2>3. x \in 1..k /\ x - 1 \in 0..k
    BY <1>7, <1>12, <2>2
  <2>4. h[x - 1] = G[x - 1]
    BY <2>2, <2>3
  <2> HIDE DEF G
  <2>5. h[x] = G[x]
    BY <1>8, <1>12, <2>3, <2>4
  <2> QED BY <2>2, <2>5
<1>14. Number(D) = h[k]
  <2>1. Number(D) = (CHOOSE g : Rec(g))[Len(D)]
    BY DEF Number
  <2> HIDE DEF Rec
  <2> QED BY <1>6, <1>11, <2>1
<1> QED BY <1>3, <1>6, <1>7, <1>13, <1>14

\* u is a and b, of lengths x and y, joined.
Joined(u, a, b, x, y) ==
  /\ u = a \o b /\ Len(u) = x + y
  /\ \A i \in 1..x : u[i] = a[i]
  /\ \A i \in 1..y : u[x + i] = b[i]

\* Where the elements of two joined sequences are.
LEMMA JoinIs ==
  ASSUME NEW a \in Seq(Int), NEW b \in Seq(Int), NEW x \in Nat, NEW y \in Nat, Len(a) = x, Len(b) = y
  PROVE  \E u \in Seq(Int) : Joined(u, a, b, x, y)
<1>1. a \o b \in Seq(Int) /\ Len(a \o b) = x + y
  BY ConcatProperties
<1>2. \A i \in 1..(x + y) : (a \o b)[i] = IF i <= x THEN a[i] ELSE b[i - x]
  BY ConcatProperties
<1>3. ASSUME NEW i \in 1..x PROVE (a \o b)[i] = a[i]
  <2>1. i \in 1..(x + y) /\ i <= x
    OBVIOUS
  <2> QED BY <1>2, <2>1
<1>4. ASSUME NEW i \in 1..y PROVE (a \o b)[x + i] = b[i]
  <2>1. x + i \in 1..(x + y) /\ ~(x + i <= x) /\ (x + i) - x = i
    OBVIOUS
  <2> QED BY <1>2, <2>1
<1> QED BY <1>1, <1>3, <1>4 DEF Joined

\* What Encode writes: a prefix, a colon, the digits, a colon, the address.
LEMMA EncodeIs ==
  ASSUME NEW D \in Seq(Int), NEW z \in Nat, Len(D) = z
  PROVE  \E m \in Seq(Int) :
           /\ m = <<Prefix, Colon>> \o D \o <<Colon>> \o <<Address>>
           /\ Len(m) = z + 4
           /\ m[1] = Prefix /\ m[2] = Colon
           /\ \A i \in 1..z : m[2 + i] = D[i]
           /\ m[z + 3] = Colon /\ m[z + 4] = Address
<1>1. Prefix \in Int /\ Colon \in Int /\ Address \in Int
  BY DEF Prefix, Colon, Address
<1>2. PICK a : a = <<Prefix, Colon>>
  OBVIOUS
<1>3. PICK b : b = <<Colon>>
  OBVIOUS
<1>4. PICK c : c = <<Address>>
  OBVIOUS
<1>5. PICK one \in Nat, two \in Nat : one = 1 /\ two = 2
  OBVIOUS
<1>6. /\ a \in Seq(Int) /\ Len(a) = two /\ a[1] = Prefix /\ a[2] = Colon
      /\ b \in Seq(Int) /\ Len(b) = one /\ b[1] = Colon
      /\ c \in Seq(Int) /\ Len(c) = one /\ c[1] = Address
  BY <1>1, <1>2, <1>3, <1>4, <1>5
<1>7. PICK u \in Seq(Int) : Joined(u, a, D, two, z)
  BY <1>6, JoinIs
<1>8. PICK y \in Nat : y = two + z
  OBVIOUS
<1>9. PICK v \in Seq(Int) : Joined(v, u, b, y, one)
  <2>1. Len(u) = y
    BY <1>7, <1>8 DEF Joined
  <2> QED BY <1>6, <2>1, JoinIs
<1>10. PICK x \in Nat : x = y + one
  OBVIOUS
<1>11. PICK m \in Seq(Int) : Joined(m, v, c, x, one)
  <2>1. Len(v) = x
    BY <1>9, <1>10 DEF Joined
  <2> QED BY <1>6, <2>1, JoinIs
<1> USE DEF Joined
<1>12. m = <<Prefix, Colon>> \o D \o <<Colon>> \o <<Address>>
  BY <1>2, <1>3, <1>4, <1>7, <1>9, <1>11
<1>13. y = z + 2 /\ x = z + 3 /\ Len(m) = z + 4
  BY <1>5, <1>8, <1>10, <1>11
<1>14. m[1] = Prefix /\ m[2] = Colon
  <2>1. 1 \in 1..two /\ 2 \in 1..two /\ 1 \in 1..y /\ 2 \in 1..y /\ 1 \in 1..x /\ 2 \in 1..x
    BY <1>5, <1>13
  <2> QED BY <1>6, <1>7, <1>9, <1>11, <2>1
<1>15. ASSUME NEW i \in 1..z PROVE m[2 + i] = D[i]
  <2>1. two + i \in 1..y /\ two + i \in 1..x /\ two + i = 2 + i
    BY <1>5, <1>13
  <2>2. u[two + i] = D[i]
    BY <1>7
  <2>3. m[two + i] = u[two + i]
    BY <1>9, <1>11, <2>1
  <2> QED BY <2>1, <2>2, <2>3
<1>16. m[z + 3] = Colon
  <2>1. z + 3 = y + 1 /\ y + 1 \in 1..x /\ 1 \in 1..one
    BY <1>5, <1>13
  <2> QED BY <1>6, <1>9, <1>11, <2>1
<1>17. m[z + 4] = Address
  <2>1. z + 4 = x + 1 /\ 1 \in 1..one
    BY <1>5, <1>13
  <2> QED BY <1>6, <1>11, <2>1
<1> QED BY <1>12, <1>13, <1>14, <1>15, <1>16, <1>17

\* The parts that ParsePairing cuts a line into.
Colons(l) == {i \in DOMAIN l : l[i] = Colon}
FirstColon(l) == CHOOSE c \in Colons(l) : \A d \in Colons(l) : c <= d
LastColon(l) == CHOOSE c \in Colons(l) : \A d \in Colons(l) : c >= d
PairingPort(l) == SubSeq(l, FirstColon(l) + 1, LastColon(l) - 1)
PairingAddress(l) == SubSeq(l, LastColon(l) + 1, Len(l))
ValidLine(l) ==
  /\ {l[1], Last(l)} \cap {SP, CR} = {}
  /\ \A c \in Colons(l) : c \in {FirstColon(l), LastColon(l)} /\ FirstColon(l) < LastColon(l)
  /\ SubSeq(l, 1, FirstColon(l) - 1) = <<Prefix>>
  /\ PairingPort(l) # <<>> /\ Range(PairingPort(l)) \subseteq Digits
  /\ Number(PairingPort(l)) \in Ports
  /\ PairingAddress(l) = <<Address>>

\* ParsePairing in these parts.
LEMMA ParseIs ==
  ASSUME NEW l
  PROVE  ParsePairing(l) =
           IF Colons(l) # {} /\ ValidLine(l)
             THEN <<[port |-> Number(PairingPort(l)), address |-> PairingAddress(l)]>> ELSE <<>>
<1> DEFINE colons == {k \in DOMAIN l : l[k] = Colon}
           i == CHOOSE c \in colons : \A d \in colons : c <= d
           j == CHOOSE c \in colons : \A d \in colons : c >= d
           ds == SubSeq(l, i + 1, j - 1)
           address == SubSeq(l, j + 1, Len(l))
           valid == /\ {l[1], Last(l)} \cap {SP, CR} = {}
                    /\ \A c \in colons : c \in {i, j} /\ i < j
                    /\ SubSeq(l, 1, i - 1) = <<Prefix>>
                    /\ ds # <<>> /\ Range(ds) \subseteq Digits /\ Number(ds) \in Ports
                    /\ address = <<Address>>
<1>1. ParsePairing(l) =
        IF colons # {} /\ valid THEN <<[port |-> Number(ds), address |-> address]>> ELSE <<>>
  BY DEF ParsePairing
<1>2. colons = Colons(l)
  BY DEF Colons
<1> HIDE DEF colons
<1>3. i = FirstColon(l) /\ j = LastColon(l)
  BY <1>2 DEF FirstColon, LastColon
<1> HIDE DEF i, j
<1>4. ds = PairingPort(l) /\ address = PairingAddress(l)
  BY <1>3 DEF PairingPort, PairingAddress
<1> HIDE DEF ds, address
<1>5. valid <=> ValidLine(l)
  BY <1>2, <1>3, <1>4 DEF ValidLine
<1> HIDE DEF valid
<1> QED BY <1>1, <1>2, <1>4, <1>5

\* A pairing that was parsed has a port and a Tailcat address.
LEMMA ParsedIs ==
  ASSUME NEW l, ParsePairing(l) # <<>>
  PROVE  \E p \in Ports : ParsePairing(l) = <<[port |-> p, address |-> <<Address>>]>>
<1>1. ValidLine(l) /\ ParsePairing(l) = <<[port |-> Number(PairingPort(l)), address |-> PairingAddress(l)]>>
  BY ParseIs
<1>2. Number(PairingPort(l)) \in Ports /\ PairingAddress(l) = <<Address>>
  BY <1>1 DEF ValidLine
<1> QED BY <1>1, <1>2, Zenon

\* Encode and ParsePairing are inverse to each other.
LEMMA ParseBack ==
  ASSUME NEW p \in Ports
  PROVE  ParsePairing(Encode([port |-> p, address |-> <<Address>>]))
           = <<[port |-> p, address |-> <<Address>>]>>
<1>1. PICK D : D = Decimal(p)
  OBVIOUS
<1>2. D \in Seq(Digits) /\ Len(D) \in 1..5 /\ Number(D) = p
  BY <1>1, NumberIs
<1>3. D \in Seq(Int) /\ \A i \in 1..Len(D) : D[i] \in Digits
  BY <1>2 DEF Digits
<1>4. PICK z \in Nat : z = Len(D) /\ z \in 1..5
  <2>1. \A k \in 1..5 : k \in Nat
    OBVIOUS
  <2> QED BY <1>2, <2>1, Zenon
<1>5. PICK m \in Seq(Int) :
           /\ m = <<Prefix, Colon>> \o D \o <<Colon>> \o <<Address>>
           /\ Len(m) = z + 4
           /\ m[1] = Prefix /\ m[2] = Colon
           /\ \A i \in 1..z : m[2 + i] = D[i]
           /\ m[z + 3] = Colon /\ m[z + 4] = Address
  BY <1>3, <1>4, EncodeIs
<1>6. Encode([port |-> p, address |-> <<Address>>]) = m
  BY <1>1, <1>5 DEF Encode
<1>7. Colons(m) = {2, z + 3}
  <2>1. \A i \in 1..z : m[2 + i] # Colon
    <3> SUFFICES ASSUME NEW i \in 1..z PROVE m[2 + i] # Colon
      OBVIOUS
    <3>1. m[2 + i] \in Digits
      BY <1>3, <1>4, <1>5
    <3> QED BY <3>1 DEF Digits, Colon
  <2>2. ASSUME NEW i \in 1..(z + 4), m[i] = Colon PROVE i = 2 \/ i = z + 3
    <3> SUFFICES ASSUME i # 2, i # z + 3 PROVE FALSE
      OBVIOUS
    <3>1. CASE i = 1
      BY <1>5, <2>2, <3>1 DEF Prefix, Colon
    <3>2. CASE i = z + 4
      BY <1>5, <2>2, <3>2 DEF Address, Colon
    <3>3. CASE i \in 3..(z + 2)
      <4>1. i - 2 \in 1..z /\ 2 + (i - 2) = i
        BY <3>3
      <4> QED BY <2>1, <2>2, <4>1
    <3> QED BY <3>1, <3>2, <3>3
  <2>3. 2 \in 1..(z + 4) /\ z + 3 \in 1..(z + 4) /\ DOMAIN m = 1..(z + 4)
    BY <1>5
  <2> QED BY <1>5, <2>2, <2>3 DEF Colons
<1>8. FirstColon(m) = 2 /\ LastColon(m) = z + 3
  <2>1. \A c \in {2, z + 3} : (\A d \in {2, z + 3} : c <= d) <=> c = 2
    BY <1>4
  <2>2. \A c \in {2, z + 3} : (\A d \in {2, z + 3} : c >= d) <=> c = z + 3
    BY <1>4
  <2>3. FirstColon(m) = CHOOSE c \in {2, z + 3} : \A d \in {2, z + 3} : c <= d
    BY <1>7 DEF FirstColon
  <2>4. LastColon(m) = CHOOSE c \in {2, z + 3} : \A d \in {2, z + 3} : c >= d
    BY <1>7 DEF LastColon
  <2> QED BY <2>1, <2>2, <2>3, <2>4
<1>9. PairingPort(m) = D
  <2>1. PairingPort(m) = SubSeq(m, 3, z + 2)
    BY <1>8 DEF PairingPort
  <2>2. PICK w : w = SubSeq(m, 3, z + 2)
    OBVIOUS
  <2>3. w \in Seq(Int) /\ Len(w) = z /\ \A i \in 1..z : w[i] = m[2 + i]
    BY <1>5, <2>2
  <2>4. w = D
    BY <1>3, <1>4, <1>5, <2>3, SeqEqual
  <2> QED BY <2>1, <2>2, <2>4
<1>10. PairingAddress(m) = <<Address>>
  <2>1. PairingAddress(m) = SubSeq(m, z + 4, z + 4)
    <3>1. LastColon(m) + 1 = z + 4
      BY <1>8
    <3>2. Len(m) = z + 4
      BY <1>5
    <3> QED BY <3>1, <3>2 DEF PairingAddress
  <2>2. PICK w : w = SubSeq(m, z + 4, z + 4)
    OBVIOUS
  <2>3. w \in Seq(Int) /\ Len(w) = 1 /\ w[1] = Address
    BY <1>5, <2>2
  <2>4. w = <<Address>>
    BY <2>3
  <2> QED BY <2>1, <2>2, <2>4
<1>11. SubSeq(m, 1, FirstColon(m) - 1) = <<Prefix>>
  <2>1. PICK w : w = SubSeq(m, 1, 1)
    OBVIOUS
  <2>2. w \in Seq(Int) /\ Len(w) = 1 /\ w[1] = Prefix
    BY <1>5, <2>1
  <2>3. w = <<Prefix>>
    BY <2>2
  <2>4. FirstColon(m) - 1 = 1
    BY <1>8
  <2> QED BY <2>1, <2>3, <2>4
<1>12. {m[1], Last(m)} \cap {SP, CR} = {}
  <2>1. Last(m) = Address
    BY <1>5 DEF Last
  <2> QED BY <1>5, <2>1 DEF Prefix, Address, SP, CR
<1>13. D # <<>> /\ Range(D) \subseteq Digits
  <2>1. DOMAIN D = 1..Len(D)
    BY <1>3
  <2>2. D # <<>>
    <3>1. Len(D) # 0
      BY <1>4
    <3> QED BY <3>1
  <2> QED BY <1>3, <2>1, <2>2 DEF Range
<1>14. \A c \in Colons(m) : c \in {FirstColon(m), LastColon(m)} /\ FirstColon(m) < LastColon(m)
  BY <1>7, <1>8
<1>15. ValidLine(m) /\ Colons(m) # {}
  BY <1>2, <1>7, <1>9, <1>10, <1>11, <1>12, <1>13, <1>14 DEF ValidLine
<1> QED BY <1>2, <1>6, <1>9, <1>10, <1>15, ParseIs

\* The pairing that was returned is the one of the line that was read.
PairingInv ==
  op = "readPairingLine" /\ outcome = "ok" =>
    taken = done /\ result # <<>> /\ result = ParsePairing(SubSeq(stream, 1, done - 1))

\* Every step keeps it.
LEMMA PairingStep == Wellformed /\ WInv /\ PairingInv /\ [Next]_vars => PairingInv'
<1> SUFFICES ASSUME Wellformed, WInv, PairingInv, [Next]_vars,
                    op = "readPairingLine", outcome' = "ok"
             PROVE  PairingInv'
  BY SameInput DEF PairingInv
<1>1. /\ stream \in Seq(Byte) /\ Len(stream) \in Nat /\ taken \in 0..Len(stream) /\ done \in 0..taken
  BY StreamTyped DEF WInv, TypeOK
<1>2. CASE PairingLine
  <2> DEFINE raw == FirstLine(Held)
  <2>1. outcome = "running" /\ UNCHANGED <<op, stream, taken>> /\ Contains(Held, NL)
    BY <1>2 DEF PairingLine, input
  <2>2. Len(raw) \in 1..(taken - done) /\ done = 0
    BY <2>1, LineHeld DEF WInv, LineInv
  <2> HIDE DEF raw
  <2>3. PairingAccepted(raw) /\ done' = done + Len(raw) /\ result' = ParsePairing(Front(raw))
    BY <1>2 DEF PairingLine, Fail, Finish, raw
  <2>4. raw = Held /\ ParsePairing(Front(raw)) # <<>>
    BY <2>3 DEF PairingAccepted
  <2>5. Held = SubSeq(stream, 1, taken)
    BY <2>2 DEF Held
  <2>6. Len(raw) = taken /\ taken > 0
    BY <1>1, <2>2, <2>4, HeldTyped DEF Held
  <2>7. Front(raw) = SubSeq(stream, 1, taken - 1)
    <3>1. Front(raw) = SubSeq(raw, 1, taken - 1)
      BY <2>6 DEF Front
    <3>2. PICK t \in Nat : t = taken - 1 /\ t < taken
      BY <1>1, <2>6
    <3>3. SubSeq(SubSeq(stream, 1, taken), 1, t) = SubSeq(stream, 1, t)
      <4> DEFINE w == SubSeq(stream, 1, taken)
      <4>1. w \in Seq(Byte) /\ Len(w) = taken /\ \A i \in 1..taken : w[i] = stream[i]
        BY <1>1
      <4> HIDE DEF w
      <4>2. SubSeq(w, 1, t) \in Seq(Byte) /\ Len(SubSeq(w, 1, t)) = t /\ \A i \in 1..t : SubSeq(w, 1, t)[i] = w[i]
        BY <1>1, <3>2, <4>1
      <4>3. /\ SubSeq(stream, 1, t) \in Seq(Byte) /\ Len(SubSeq(stream, 1, t)) = t
            /\ \A i \in 1..t : SubSeq(stream, 1, t)[i] = stream[i]
        BY <1>1, <3>2
      <4>4. \A i \in 1..t : i \in 1..taken
        BY <1>1, <3>2
      <4>5. SubSeq(w, 1, t) = SubSeq(stream, 1, t)
        BY <4>1, <4>2, <4>3, <4>4, SeqEqual
      <4> QED BY <4>5 DEF w
    <3> QED BY <2>4, <2>5, <3>1, <3>2, <3>3
  <2>8. done' = taken
    BY <1>1, <2>2, <2>3, <2>6
  <2> QED BY <2>1, <2>3, <2>4, <2>7, <2>8 DEF PairingInv
<1>3. CASE UNCHANGED vars
  BY <1>3 DEF vars, PairingInv
<1>4. ~(RefusePart \/ NextPart \/ LastPart \/ ReplyLine \/ Write)
  BY DEF RefusePart, NextPart, LastPart, PartRead, ReplyLine, Write, Socks
<1>5. ~(Eof \/ TooLong \/ Read)
  BY DEF Eof, TooLong, Read, Fail
<1> QED BY <1>2, <1>3, <1>4, <1>5 DEF Next, Terminated

\* However the stream is cut, an operation that succeeds has moved exactly its message:
\* the SOCKS5 frame and not a byte behind it, the replies of the FTP server one by one,
\* a pairing line with nothing behind it that Encode writes back as it was, all of an
\* answer (ReadGreeting, ReadRequest, ReadReply, readPairingLine, writeAll).
THEOREM WireMovesItsMessage == Spec => []MovesItsMessage
<1> USE FramingAssumption
<1>1. Init => PairingInv
  BY DEF Init, PairingInv
<1>2. WInv /\ PairingInv /\ [Next]_vars => PairingInv'
  BY PairingStep
<1>3. FInv /\ PairingInv => MovesItsMessage
  <2> SUFFICES ASSUME FInv, PairingInv, outcome = "ok"
               PROVE  FrameMoved /\ AnswerMoved /\ PairingMoved /\ RepliesMoved
    BY DEF MovesItsMessage
  <2>1. FrameMoved /\ AnswerMoved
    BY DEF FInv, WInv, SocksInv, LineInv, FrameMoved, AnswerMoved
  <2>2. RepliesMoved
    BY RepliesAre
  <2>3. ASSUME op = "readPairingLine" PROVE ParsePairing(Encode(result[1])) = result
    <3>1. result # <<>> /\ result = ParsePairing(SubSeq(stream, 1, done - 1))
      BY <2>3 DEF PairingInv
    <3>2. PICK p \in Ports : result = <<[port |-> p, address |-> <<Address>>]>>
      BY <3>1, ParsedIs
    <3>3. result[1] = [port |-> p, address |-> <<Address>>]
      BY <3>2
    <3> QED BY <3>2, <3>3, ParseBack
  <2>4. PairingMoved
    BY <2>3 DEF PairingInv, PairingMoved
  <2> QED BY <2>1, <2>2, <2>4
<1> QED BY <1>1, <1>2, <1>3, WireInvariant, ReplyInvariant, PTL DEF Spec

-----------------------------------------------------------------------------
(***************************************************************************)
(* The operations of the FTP connector: who owns the two connections at each *)
(* step, and what a success rests on.                                        *)
(***************************************************************************)

\* The steps between the control connection's dial and operate's return.
Dialogue == {"greeting", "user", "pass", "type", "epsv", "pasv", "dialData", "command",
             "upload", "stored"}

\* Who closes the connections: operate's deferred calls until one has run, then
\* the body if it was handed them, and nobody if there are none left.
Ownership ==
  /\ transferOwned =>
       /\ pc \in {"deferData", "deferControl", "respond", "copy", "completion", "close", "done"}
       /\ method # "STOR"
       /\ returned = "success"
  /\ pc \in {"copy", "completion", "close"} => transferOwned
  /\ control = "none" => ~stopControl
  /\ data = "none" => ~stopData
  /\ pc \in {"deferControl", "respond"} /\ ~transferOwned => data # "open" /\ ~stopData
  /\ pc = "respond" /\ ~transferOwned => control # "open" /\ ~stopControl

\* What must have happened before each step that can lead to a success.
Evidence ==
  /\ told # "nothing" => pc \in {"close", "done"}
  /\ pc \in {"upload", "stored"} => method = "STOR"
  /\ pc = "stored" => sent
  /\ pc = "completion" => ended
  /\ returned = "success" /\ ~transferOwned => method = "STOR" /\ sent /\ confirmed

\* Until a cancellation the connections stay open for whoever uses them next.
Kept ==
  ~ctx =>
    /\ pc \in Dialogue => control = "open"
    /\ pc \in {"command", "upload"} => data = "open"
    /\ transferOwned /\ pc \in {"deferData", "deferControl", "respond", "copy"} =>
         control = "open" /\ data = "open"
    /\ pc = "completion" => control = "open"

FTPInv ==
  /\ TransferTypeOK /\ Ownership /\ Evidence /\ Kept
  /\ NothingLeftOpen /\ SuccessIsConfirmed

-----------------------------------------------------------------------------
\* A reply code always has one of the outcomes ServeHTTP maps to a status.
LEMMA OutcomeIsNamed ==
  ASSUME NEW reply
  PROVE  ftpOutcome(reply) \in Outcomes /\ ftpOutcome(reply) # "success"
BY DEF ftpOutcome, Outcomes

\* The Boolean variables stay Boolean.
Flags ==
  /\ ctx \in BOOLEAN
  /\ stopControl \in BOOLEAN
  /\ stopData \in BOOLEAN
  /\ transferOwned \in BOOLEAN
  /\ sent \in BOOLEAN
  /\ ended \in BOOLEAN
  /\ confirmed \in BOOLEAN

\* Every step keeps the Boolean variables Boolean.
LEMMA FlagStep == Flags /\ [TransferNext]_transferVars => Flags'
<1> SUFFICES ASSUME Flags, [TransferNext]_transferVars PROVE Flags'
  OBVIOUS
<1> USE DEF Flags, conns, facts
<1>1. CASE Cancel
  BY <1>1, Zenon DEF Cancel
<1>2. CASE CancelControl
  BY <1>2, Zenon DEF CancelControl
<1>3. CASE CancelData
  BY <1>3, Zenon DEF CancelData
<1>4. CASE Start
  BY <1>4, Zenon DEF Start
<1>5. CASE DialControl
  BY <1>5, Zenon DEF DialControl
<1>6. CASE Greeting
  BY <1>6, Zenon DEF Greeting
<1>7. CASE User
  BY <1>7, Zenon DEF User
<1>8. CASE Pass
  BY <1>8, Zenon DEF Pass
<1>9. CASE Type
  BY <1>9, Zenon DEF Type
<1>10. CASE Epsv
  BY <1>10, Zenon DEF Epsv
<1>11. CASE Pasv
  BY <1>11, Zenon DEF Pasv
<1>12. CASE DialData
  BY <1>12, Zenon DEF DialData
<1>13. CASE Command
  BY <1>13, Zenon DEF Command
<1>14. CASE Upload
  BY <1>14, Zenon DEF Upload
<1>15. CASE Stored
  <2>1. PICK reply \in Replies : confirmed' = (reply \in 200..299)
    BY <1>15, Zenon DEF Stored
  <2>2. confirmed' \in BOOLEAN
    BY <2>1
  <2>3. QED
    BY <1>15, <2>2, Zenon DEF Stored
<1>16. CASE DeferData
  BY <1>16, Zenon DEF DeferData
<1>17. CASE DeferControl
  BY <1>17, Zenon DEF DeferControl
<1>18. CASE Respond
  BY <1>18, Zenon DEF Respond
<1>19. CASE ReadFails
  BY <1>19, Zenon DEF ReadFails, finish
<1>20. CASE ReadEnds
  BY <1>20, Zenon DEF ReadEnds
<1>21. CASE Completion
  <2>1. PICK reply \in Replies : confirmed' = (reply \in 200..299)
    BY <1>21, Zenon DEF Completion
  <2>2. confirmed' \in BOOLEAN
    BY <2>1
  <2>3. QED
    BY <1>21, <2>2, Zenon DEF Completion, finish
<1>22. CASE ClientGone
  BY <1>22, Zenon DEF ClientGone
<1>23. CASE CloseBody
  BY <1>23, Zenon DEF CloseBody, finish
<1>24. CASE UNCHANGED transferVars
  BY <1>24, Zenon DEF transferVars
<1>25. QED
  BY <1>1, <1>2, <1>3, <1>4, <1>5, <1>6, <1>7, <1>8, <1>9, <1>10, <1>11, <1>12, <1>13,
     <1>14, <1>15, <1>16, <1>17, <1>18, <1>19, <1>20, <1>21, <1>22, <1>23, <1>24
     DEF TransferNext, Operate, Answer, TransferOver

\* Every step keeps the types.
LEMMA TypeStep == TransferTypeOK /\ [TransferNext]_transferVars => TransferTypeOK'
<1> SUFFICES ASSUME TransferTypeOK, [TransferNext]_transferVars PROVE TransferTypeOK'
  OBVIOUS
<1>f. Flags'
  BY FlagStep DEF TransferTypeOK, Flags
<1> USE <1>f DEF Flags, TransferTypeOK, Steps, Outcomes, Methods, conns, facts
<1>1. CASE Cancel
  BY <1>1 DEF Cancel
<1>2. CASE CancelControl
  BY <1>2 DEF CancelControl
<1>3. CASE CancelData
  BY <1>3 DEF CancelData
<1>4. CASE Start
  BY <1>4 DEF Start, Returns, Goto
<1>5. CASE DialControl
  BY <1>5 DEF DialControl, Returns, Goto
<1>6. CASE Greeting
  BY <1>6 DEF Greeting, Returns, Goto
<1>7. CASE User
  BY <1>7, OutcomeIsNamed DEF User, Returns, Goto
<1>8. CASE Pass
  BY <1>8, OutcomeIsNamed DEF Pass, Returns, Goto
<1>9. CASE Type
  BY <1>9 DEF Type, Returns, Goto
<1>10. CASE Epsv
  BY <1>10 DEF Epsv, Returns, Goto
<1>11. CASE Pasv
  BY <1>11 DEF Pasv, Returns, Goto
<1>12. CASE DialData
  BY <1>12 DEF DialData, Returns, Goto
<1>13. CASE Command
  BY <1>13, OutcomeIsNamed DEF Command, Returns, Goto
<1>14. CASE Upload
  BY <1>14 DEF Upload, Returns, Goto
<1>15. CASE Stored
  BY <1>15, OutcomeIsNamed DEF Stored, Returns, Goto
<1>16. CASE DeferData
  BY <1>16 DEF DeferData, Goto
<1>17. CASE DeferControl
  BY <1>17 DEF DeferControl, Goto
<1>18. CASE Respond
  BY <1>18 DEF Respond, Goto
<1>19. CASE ReadFails
  BY <1>19 DEF ReadFails, finish, Goto
<1>20. CASE ReadEnds
  BY <1>20 DEF ReadEnds, Goto
<1>21. CASE Completion
  BY <1>21 DEF Completion, finish, Goto
<1>22. CASE ClientGone
  BY <1>22 DEF ClientGone, Goto
<1>23. CASE CloseBody
  BY <1>23 DEF CloseBody, finish, Goto
<1>24. CASE UNCHANGED transferVars
  BY <1>24 DEF transferVars
<1>25. QED
  BY <1>1, <1>2, <1>3, <1>4, <1>5, <1>6, <1>7, <1>8, <1>9, <1>10, <1>11, <1>12, <1>13,
     <1>14, <1>15, <1>16, <1>17, <1>18, <1>19, <1>20, <1>21, <1>22, <1>23, <1>24
     DEF TransferNext, Operate, Answer, TransferOver

\* Every step of the handler, the body and the cancellations preserves FTPInv.
LEMMA FTPStep == FTPInv /\ [TransferNext]_transferVars => FTPInv'
<1> SUFFICES ASSUME FTPInv, [TransferNext]_transferVars PROVE FTPInv'
  OBVIOUS
<1>t. TransferTypeOK'
  BY TypeStep DEF FTPInv
<1> USE <1>t DEF FTPInv, TransferTypeOK, Ownership, Evidence, Kept, NothingLeftOpen,
            SuccessIsConfirmed, Dialogue, Steps, Outcomes, Methods, conns, facts
<1>1. CASE Cancel
  BY <1>1 DEF Cancel
<1>2. CASE CancelControl
  BY <1>2 DEF CancelControl
<1>3. CASE CancelData
  BY <1>3 DEF CancelData
<1>4. CASE Start
  BY <1>4 DEF Start, Returns, Goto
<1>5. CASE DialControl
  BY <1>5 DEF DialControl, Returns, Goto
<1>6. CASE Greeting
  BY <1>6 DEF Greeting, Returns, Goto
<1>7. CASE User
  BY <1>7, OutcomeIsNamed DEF User, Returns, Goto
<1>8. CASE Pass
  BY <1>8, OutcomeIsNamed DEF Pass, Returns, Goto
<1>9. CASE Type
  BY <1>9 DEF Type, Returns, Goto
<1>10. CASE Epsv
  BY <1>10 DEF Epsv, Returns, Goto
<1>11. CASE Pasv
  BY <1>11 DEF Pasv, Returns, Goto
<1>12. CASE DialData
  BY <1>12 DEF DialData, Returns, Goto
<1>13. CASE Command
  BY <1>13, OutcomeIsNamed DEF Command, Returns, Goto
<1>14. CASE Upload
  BY <1>14 DEF Upload, Returns, Goto
<1>15. CASE Stored
  BY <1>15, OutcomeIsNamed DEF Stored, Returns, Goto
<1>16. CASE DeferData
  BY <1>16 DEF DeferData, Goto
<1>17. CASE DeferControl
  BY <1>17 DEF DeferControl, Goto
<1>18. CASE Respond
  BY <1>18 DEF Respond, Goto
<1>19. CASE ReadFails
  BY <1>19 DEF ReadFails, finish, Goto
<1>20. CASE ReadEnds
  BY <1>20 DEF ReadEnds, Goto
<1>21. CASE Completion
  BY <1>21 DEF Completion, finish, Goto
<1>22. CASE ClientGone
  BY <1>22 DEF ClientGone, Goto
<1>23. CASE CloseBody
  BY <1>23 DEF CloseBody, finish, Goto
<1>24. CASE UNCHANGED transferVars
  BY <1>24 DEF transferVars
<1>25. QED
  BY <1>1, <1>2, <1>3, <1>4, <1>5, <1>6, <1>7, <1>8, <1>9, <1>10, <1>11, <1>12, <1>13,
     <1>14, <1>15, <1>16, <1>17, <1>18, <1>19, <1>20, <1>21, <1>22, <1>23, <1>24
     DEF TransferNext, Operate, Answer, TransferOver

\* FTPInv holds throughout.
LEMMA FTPInvariant == TransferSpec => []FTPInv
<1>1. TransferInit => FTPInv
  BY DEF TransferInit, FTPInv, TransferTypeOK, Ownership, Evidence, Kept, NothingLeftOpen,
         SuccessIsConfirmed, Dialogue, Steps, Methods
<1>2. QED
  BY <1>1, FTPStep, PTL DEF TransferSpec

-----------------------------------------------------------------------------
\* The state of the operation is well-formed and its outcome a named one,
\* whatever codes the server sends.
THEOREM FTPTyped == TransferSpec => []TransferTypeOK
<1>1. FTPInv => TransferTypeOK
  BY DEF FTPInv
<1>2. QED
  BY <1>1, FTPInvariant, PTL

\* No path through operate, the transfer body and a cancellation leaves a
\* connection or its AfterFunc behind.
THEOREM FTPNothingLeftOpen == TransferSpec => []NothingLeftOpen
<1>1. FTPInv => NothingLeftOpen
  BY DEF FTPInv
<1>2. QED
  BY <1>1, FTPInvariant, PTL

\* A response that looks complete is of a transfer that the server confirmed.
THEOREM FTPSuccessIsConfirmed == TransferSpec => []SuccessIsConfirmed
<1>1. FTPInv => SuccessIsConfirmed
  BY DEF FTPInv
<1>2. QED
  BY <1>1, FTPInvariant, PTL

\* operate's deferred calls never close what the transfer body reads from.
THEOREM FTPBodyKeepsConnections == TransferSpec => []BodyKeepsConnections
<1>1. FTPInv => BodyKeepsConnections
  BY DEF FTPInv, Ownership, Kept, BodyKeepsConnections
<1>2. QED
  BY <1>1, FTPInvariant, PTL

-----------------------------------------------------------------------------
(***************************************************************************)
(* Why a cancelled operation ends.  Fairness and its consequence            *)
(* (CancelledEnds) are left to TLC; what they rest on is shown here: no step  *)
(* can be repeated, and a step that fairness speaks of is always there.      *)
(***************************************************************************)

\* How far the handler is from its end, by the order of the dialogue.
Distance(step) ==
  CASE step = "start" -> 18 [] step = "dialControl" -> 17 [] step = "greeting" -> 16
    [] step = "user" -> 15 [] step = "pass" -> 14 [] step = "type" -> 13
    [] step = "epsv" -> 12 [] step = "pasv" -> 11 [] step = "dialData" -> 10
    [] step = "command" -> 9 [] step = "upload" -> 8 [] step = "stored" -> 7
    [] step = "deferData" -> 6 [] step = "deferControl" -> 5 [] step = "respond" -> 4
    [] step = "copy" -> 3 [] step = "completion" -> 2 [] step = "close" -> 1
    [] OTHER -> 0

\* The steps that can still be taken, at most: two for each one of the handler, which
\* may arm an AfterFunc, one for each AfterFunc armed and one for the cancellation.
Left ==
  2 * Distance(pc) + (IF ctx THEN 0 ELSE 1) + (IF stopControl THEN 1 ELSE 0)
    + (IF stopData THEN 1 ELSE 0)

\* A connection that is open has its AfterFunc armed, so that a cancellation, now or
\* later, closes it; and a copy has a connection to lose.
OpenIsCancellable ==
  /\ control = "open" => stopControl
  /\ data = "open" => stopData
  /\ pc \in {"command", "upload"} \/ transferOwned => data # "none"

\* The number of steps left is a number, and each step of the handler, of the body and
\* of the cancellations lowers it: no retry, fallback (EPSV to PASV) or AfterFunc can
\* make an operation go round in circles, whatever the server answers.
THEOREM FTPGoesForward == TransferSpec => [](Left \in Nat) /\ [][Left' < Left]_transferVars
<1> USE DEF Left, Distance, TransferTypeOK, Steps, conns, facts
<1>1. TransferTypeOK => Left \in Nat
  OBVIOUS
<1>2. TransferTypeOK /\ [TransferNext]_transferVars => [Left' < Left]_transferVars
  <2> SUFFICES ASSUME TransferTypeOK, TransferNext, ~UNCHANGED transferVars
               PROVE  Left' < Left
    OBVIOUS
  <2>t. TransferTypeOK'
    BY TypeStep
  <2>1. CASE Cancel \/ CancelControl \/ CancelData
    BY <2>1 DEF Cancel, CancelControl, CancelData
  <2>2. CASE Start \/ DialControl \/ DialData
    BY <2>2 DEF Start, DialControl, DialData, Returns, Goto
  <2>3. CASE Greeting \/ User \/ Pass \/ Type \/ Epsv \/ Pasv
    <3>1. /\ UNCHANGED <<ctx, stopControl, stopData>>
          /\ Distance(pc') < Distance(pc)
      BY <2>3 DEF Greeting, User, Pass, Type, Epsv, Pasv, Returns, Goto
    <3> QED BY <2>t, <3>1
  <2>4. CASE Command \/ Upload \/ Stored
    BY <2>4 DEF Command, Upload, Stored, Returns, Goto
  <2>5. CASE DeferData \/ DeferControl
    BY <2>5, <2>t DEF DeferData, DeferControl, Goto
  <2>6. CASE Respond \/ ClientGone \/ ReadEnds
    BY <2>6, <2>t DEF Respond, ClientGone, ReadEnds, Goto
  <2>7. CASE ReadFails \/ Completion \/ CloseBody
    BY <2>7, <2>t DEF ReadFails, Completion, CloseBody, finish, Goto
  <2> QED BY <2>1, <2>2, <2>3, <2>4, <2>5, <2>6, <2>7
             DEF TransferNext, Operate, Answer, TransferOver
<1> QED BY <1>1, <1>2, FTPTyped, PTL DEF TransferSpec

\* A cancellation reaches every open connection, at whatever step it comes: also that of
\* a download, which the server may keep going for ever.
THEOREM FTPOpenIsCancellable == TransferSpec => []OpenIsCancellable
<1>1. TransferInit => OpenIsCancellable
  BY DEF TransferInit, OpenIsCancellable
<1>2. FTPInv /\ OpenIsCancellable /\ [TransferNext]_transferVars => OpenIsCancellable'
  <2> SUFFICES ASSUME FTPInv, OpenIsCancellable, [TransferNext]_transferVars
               PROVE  OpenIsCancellable'
    OBVIOUS
  <2> USE DEF OpenIsCancellable, FTPInv, Ownership, TransferTypeOK, conns, facts
  <2>1. CASE Cancel \/ CancelControl \/ CancelData
    BY <2>1 DEF Cancel, CancelControl, CancelData
  <2>2. CASE Start \/ DialControl \/ DialData
    BY <2>2 DEF Start, DialControl, DialData, Returns, Goto
  <2>3. CASE Greeting \/ User \/ Pass \/ Type \/ Epsv \/ Pasv
    <3>1. UNCHANGED <<conns, transferOwned>> /\ pc' \notin {"command", "upload"}
      BY <2>3 DEF Greeting, User, Pass, Type, Epsv, Pasv, Returns, Goto
    <3> QED BY <3>1
  <2>4. CASE Command \/ Upload \/ Stored
    BY <2>4 DEF Command, Upload, Stored, Returns, Goto
  <2>5. CASE DeferData \/ DeferControl
    BY <2>5 DEF DeferData, DeferControl, Goto
  <2>6. CASE Respond \/ ClientGone \/ ReadEnds
    BY <2>6 DEF Respond, ClientGone, ReadEnds, Goto
  <2>7. CASE ReadFails \/ Completion \/ CloseBody
    BY <2>7 DEF ReadFails, Completion, CloseBody, finish, Goto
  <2>8. CASE UNCHANGED transferVars
    BY <2>8 DEF transferVars
  <2> QED BY <2>1, <2>2, <2>3, <2>4, <2>5, <2>6, <2>7, <2>8
             DEF TransferNext, Operate, Answer, TransferOver
<1> QED BY <1>1, <1>2, FTPInvariant, PTL DEF TransferSpec
=============================================================================
