----------------------------- MODULE StreamProofs -----------------------------
(* Proofs about Stream, for any bytes, buffer sizes, texts, flush types and    *)
(* bounds.                                                                     *)
EXTENDS Stream, SequenceTheorems, TLAPS

-------------------------------------------------------------------------------
(* Sequences cut in two.                                                       *)

\* The two parts of a sequence.
LEMMA Cut ==
  ASSUME NEW s \in Seq(Byte), NEW n \in 0..Len(s)
  PROVE  /\ First(s, n) \in Seq(Byte) /\ Len(First(s, n)) = n
         /\ Beyond(s, n) \in Seq(Byte) /\ Len(Beyond(s, n)) = Len(s) - n
         /\ First(s, n) \o Beyond(s, n) = s
<1>1. Len(s) \in Nat /\ s \in [1..Len(s) -> Byte]
  BY LenProperties
<1>2. /\ First(s, n) \in Seq(Byte) /\ Len(First(s, n)) = n
  <2>1. \A i \in 1..n : s[i] \in Byte
    BY <1>1
  <2> QED BY <2>1, <1>1, SubSeqProperties DEF First
<1>3. /\ Beyond(s, n) \in Seq(Byte) /\ Len(Beyond(s, n)) = Len(s) - n
  <2>1. \A i \in (n + 1)..Len(s) : s[i] \in Byte
    BY <1>1
  <2>2. n + 1 \in Int /\ Len(s) \in Int
    BY <1>1
  <2>3. /\ SubSeq(s, n + 1, Len(s)) \in Seq(Byte)
        /\ Len(SubSeq(s, n + 1, Len(s)))
             = IF n + 1 <= Len(s) THEN Len(s) - (n + 1) + 1 ELSE 0
    BY <2>1, <2>2, SubSeqProperties, Zenon
  <2>4. Len(s) \in Nat
    BY <1>1
  <2>5. Beyond(s, n) = SubSeq(s, n + 1, Len(s))
    BY DEF Beyond
  <2> QED BY <2>3, <2>4, <2>5
<1>4. First(s, n) \o Beyond(s, n) = SubSeq(s, 1, Len(s))
  <2>1. 1 \in 1..(Len(s) + 1) /\ n \in (1 - 1)..Len(s) /\ Len(s) \in n..Len(s)
    BY <1>1
  <2> QED BY <2>1, ConcatAdjacentSubSeq, Zenon DEF First, Beyond
<1> QED BY <1>2, <1>3, <1>4, SubSeqFull

\* What a sequence is made longer by stands behind it.
LEMMA Longer ==
  ASSUME NEW s \in Seq(Byte), NEW t \in Seq(Byte)
  PROVE  Pipe!Begins(s, s \o t)
<1>1. /\ Len(s) \in Nat /\ Len(t) \in Nat /\ s \o t \in Seq(Byte)
      /\ Len(s \o t) = Len(s) + Len(t)
  BY LenProperties, ConcatProperties
<1>2. SubSeq(s \o t, 1, Len(s)) = s
  <2>1. CASE Len(s) = 0
    BY <2>1, SubSeqEmpty, EmptySeq
  <2>2. CASE Len(s) > 0
    BY <2>2, <1>1, SubSeqOfConcat1, SubSeqFull
  <2> QED BY <2>1, <2>2, <1>1
<1> QED BY <1>1, <1>2 DEF Pipe!Begins

LEMMA LesserFacts ==
  ASSUME NEW m \in Nat, NEW n \in Nat
  PROVE  Lesser(m, n) \in Nat /\ Lesser(m, n) <= m /\ Lesser(m, n) <= n
BY DEF Lesser

\* Reading changes nothing of the buffer but where it starts.
LEMMA MovedFacts ==
  ASSUME TypeOK
  PROVE  Moved \in Nat /\ Moved + Len(inbuf) <= Size
<1>1. Len(inbuf) \in Nat
  BY LenProperties DEF TypeOK
<1>2. Moved = 0 \/ Moved = start
  BY DEF Moved
<1> QED BY <1>1, <1>2, StreamAssumption DEF TypeOK

-------------------------------------------------------------------------------
(* Types.                                                                      *)

WriterType ==
    /\ out \in Seq(Byte) /\ Len(out) <= Size
    /\ rest \in Seq(Byte)
    /\ wpc \in {"idle", "queue", "closed"} \cup Pushing
    /\ line \in BOOLEAN /\ signals \in 0..MaxSignals
    /\ wrote \in {"none", "ok", "closed"}

WireType == wire \in Seq(Byte) /\ Len(wire) <= WireSize

ReaderType ==
    /\ inbuf \in Seq(Byte) /\ start \in Nat /\ start + Len(inbuf) <= Size
    /\ rpc \in Reads \cup {"idle", "gone"}
    /\ want \in Nat /\ atEnd \in BOOLEAN
    /\ ret \in Seq(Byte)
    /\ answer \in {"none", "string", "null"}

LEMMA Types == TypeOK <=> WriterType /\ WireType /\ ReaderType /\ taken \in Seq(Byte)
BY DEF TypeOK, WriterType, WireType, ReaderType

LEMMA QueueType ==
  ASSUME TypeOK, Queue
  PROVE  WriterType'
<1> DEFINE n == Lesser(Size - Len(out), Len(rest))
<1>1. /\ Len(out) \in Nat /\ Len(rest) \in Nat /\ Size - Len(out) \in Nat
  BY LenProperties, StreamAssumption DEF TypeOK
<1>2. n \in 0..Len(rest) /\ n <= Size - Len(out)
  <2>1. n \in Nat /\ n <= Size - Len(out) /\ n <= Len(rest)
    BY <1>1, LesserFacts
  <2> QED BY <2>1, <1>1
<1>3. /\ out' = out \o First(rest, n) /\ rest' = Beyond(rest, n)
  BY DEF Queue
<1> HIDE DEF n
<1>4. /\ First(rest, n) \in Seq(Byte) /\ Len(First(rest, n)) = n /\ rest' \in Seq(Byte)
  BY <1>2, <1>3, Cut DEF TypeOK
<1>5. out' \in Seq(Byte) /\ Len(out') = Len(out) + n
  BY <1>3, <1>4, ConcatProperties DEF TypeOK
<1>6. wpc' \in {"idle", "queue", "closed"} \cup Pushing /\ wrote' \in {"none", "ok", "closed"}
  BY DEF Queue, Written, Pushing, TypeOK
<1>7. line' \in BOOLEAN /\ signals' \in 0..MaxSignals
  BY DEF Queue, TypeOK
<1> QED BY <1>1, <1>2, <1>4, <1>5, <1>6, <1>7, StreamAssumption DEF WriterType

LEMMA PushType ==
  ASSUME TypeOK, Push
  PROVE  WriterType' /\ WireType'
<1>1. PICK n \in 1..Lesser(Len(out), WireSize - Len(wire)) :
         wire' = wire \o First(out, n) /\ out' = Beyond(out, n)
  BY DEF Push
<1>2. /\ Len(out) \in Nat /\ Len(wire) \in Nat /\ WireSize - Len(wire) \in Nat
  BY LenProperties, StreamAssumption DEF TypeOK
<1>3. n \in 0..Len(out) /\ n <= WireSize - Len(wire)
  <2>1. /\ Lesser(Len(out), WireSize - Len(wire)) \in Nat
        /\ Lesser(Len(out), WireSize - Len(wire)) <= Len(out)
        /\ Lesser(Len(out), WireSize - Len(wire)) <= WireSize - Len(wire)
    BY <1>2, LesserFacts
  <2> QED BY <1>1, <1>2, <2>1
<1>4. /\ First(out, n) \in Seq(Byte) /\ Len(First(out, n)) = n
      /\ out' \in Seq(Byte) /\ Len(out') = Len(out) - n
  BY <1>1, <1>3, Cut DEF TypeOK
<1>5. wire' \in Seq(Byte) /\ Len(wire') = Len(wire) + n
  BY <1>1, <1>4, ConcatProperties DEF TypeOK
<1>6. UNCHANGED <<rest, wpc, line, wrote, signals>>
  BY DEF Push
<1>7. WriterType'
  BY <1>2, <1>3, <1>4, <1>6, StreamAssumption DEF WriterType, TypeOK
<1>8. WireType'
  BY <1>2, <1>3, <1>5, StreamAssumption DEF WireType
<1> QED BY <1>7, <1>8

\* The writer's other steps leave the output buffer as it is, or empty it.
LEMMA WriterTypes ==
  ASSUME TypeOK, Write \/ Flush \/ Close \/ Pushed \/ Fails
  PROVE  WriterType' /\ WriterOnly
<1>1. CASE Write
  BY <1>1, StreamAssumption DEF Write, WriterType, TypeOK, Pushing, WriterOnly
<1>2. CASE Flush
  BY <1>2 DEF Flush, WriterType, TypeOK, Pushing, WriterOnly
<1>3. CASE Close
  BY <1>3 DEF Close, WriterType, TypeOK, Pushing, Closing, WriterOnly
<1>4. CASE Pushed
  BY <1>4 DEF Pushed, WriterType, TypeOK, Pushing, Closing, Written, WriterOnly
<1>5. CASE Fails
  <2>1. out' \in Seq(Byte) /\ Len(out') <= Size
    <3>1. out' = <<>> \/ out' = out
      BY <1>5 DEF Fails, PushFails
    <3>2. <<>> \in Seq(Byte) /\ Len(<<>>) = 0
      BY EmptySeq
    <3>3. 0 <= Size
      BY StreamAssumption
    <3> QED BY <3>1, <3>2, <3>3 DEF TypeOK
  <2>2. rest' \in Seq(Byte) /\ wrote' \in {"none", "ok", "closed"}
    BY <1>5, EmptySeq DEF Fails, PushFails, TypeOK
  <2>3. wpc' \in {"idle", "queue", "closed"} \cup Pushing
    BY <1>5 DEF Fails, PushFails, Pushing, Closing
  <2>4. line' \in BOOLEAN /\ signals' \in 0..MaxSignals
    <3>1. UNCHANGED signals \/ (signals < MaxSignals /\ signals' = signals + 1)
      BY <1>5 DEF Fails, PushFails
    <3>2. UNCHANGED line
      BY <1>5 DEF Fails, PushFails
    <3> QED BY <3>1, <3>2, StreamAssumption DEF TypeOK
  <2> QED BY <1>5, <2>1, <2>2, <2>3, <2>4 DEF WriterType, Fails, PushFails
<1> QED BY <1>1, <1>2, <1>3, <1>4, <1>5

LEMMA TransferType ==
  ASSUME TypeOK, NEW n \in 0..Len(inbuf), Transfer(n)
  PROVE  /\ inbuf' \in Seq(Byte) /\ start' \in Nat /\ start' + Len(inbuf') <= Size
         /\ ret' \in Seq(Byte) /\ taken' \in Seq(Byte) /\ inbuf = taken' \o inbuf'
         /\ ret' = ret \o taken' /\ UNCHANGED wire
<1>1. /\ taken' = First(inbuf, n) /\ ret' = ret \o First(inbuf, n)
      /\ inbuf' = Beyond(inbuf, n) /\ start' = start + n /\ UNCHANGED wire
  BY DEF Transfer
<1>2. /\ taken' \in Seq(Byte) /\ inbuf' \in Seq(Byte) /\ Len(inbuf') = Len(inbuf) - n
      /\ inbuf = taken' \o inbuf'
  BY <1>1, Cut DEF TypeOK
<1>3. ret' \in Seq(Byte)
  BY <1>1, <1>2, ConcatProperties DEF TypeOK
<1>4. start' \in Nat /\ start' + Len(inbuf') <= Size
  <2>1. Len(inbuf) \in Nat
    BY LenProperties DEF TypeOK
  <2> QED BY <2>1, <1>1, <1>2, StreamAssumption DEF TypeOK
<1> QED BY <1>1, <1>2, <1>3, <1>4

-------------------------------------------------------------------------------
(* The inductive invariant.                                                    *)

\* STREAMReadBytes stops when it has what it wants.
Asked == rpc = "bytes" => Len(ret) < want

\* IsClosed is set when the stream is at its end.
Ending == rpc = "line" /\ atEnd => wpc = "closed" /\ wire = <<>>

\* What a line has of its beginning is not a line yet.
Unfinished == rpc = "line" => Newlines(ret) = {}

\* Between a NULL and the next call.
Nulled == answer = "null" => AtEnd /\ rpc \in {"idle", "gone"}

\* Only a call under way has something left to copy.
Given == rest # <<>> => wpc \in {"queue", "push"}

\* A call under way has not answered.
Unanswered == rpc \in Reads => answer = "none"

IInv == TypeOK /\ Asked /\ Ending /\ Unfinished /\ Unanswered /\ Nulled /\ Given

\* How many bytes a step copies to the reader.
LEMMA Copied ==
  ASSUME IInv, TakeLine \/ TakePart \/ TakeChar \/ TakeBytes
  PROVE  \E n \in 1..Len(inbuf) : Transfer(n)
<1>1. Len(inbuf) \in Nat /\ DOMAIN inbuf = 1..Len(inbuf) /\ Len(ret) \in Nat
  BY LenProperties DEF IInv, TypeOK
<1>2. inbuf # <<>> => Len(inbuf) \in 1..Len(inbuf) /\ 1 \in 1..Len(inbuf)
  BY <1>1, EmptySeq DEF IInv, TypeOK
<1>3. CASE TakeLine
  BY <1>3, <1>1 DEF TakeLine, Newlines
<1>4. CASE TakePart
  BY <1>4, <1>2 DEF TakePart
<1>5. CASE TakeChar
  BY <1>5, <1>2 DEF TakeChar
<1>6. CASE TakeBytes
  <2>1. inbuf # <<>> /\ want - Len(ret) \in Nat \ {0}
    BY <1>6, <1>1 DEF TakeBytes, IInv, TypeOK, Asked
  <2>2. Lesser(want - Len(ret), Len(inbuf)) \in 1..Len(inbuf)
    BY <2>1, <1>2 DEF Lesser
  <2> QED BY <1>6, <2>2 DEF TakeBytes
<1> QED BY <1>3, <1>4, <1>5, <1>6

LEMMA TakeType ==
  ASSUME IInv, TakeLine \/ TakePart \/ TakeChar \/ TakeBytes
  PROVE  /\ ReaderType' /\ taken' \in Seq(Byte) /\ inbuf = taken' \o inbuf'
         /\ ret' = ret \o taken' /\ UNCHANGED <<writer, wire, want, atEnd>>
<1>1. PICK n \in 1..Len(inbuf) : Transfer(n)
  BY Copied
<1>2. n \in 0..Len(inbuf) /\ TypeOK
  BY <1>1 DEF IInv
<1>3. /\ inbuf' \in Seq(Byte) /\ start' \in Nat /\ start' + Len(inbuf') <= Size
      /\ ret' \in Seq(Byte) /\ taken' \in Seq(Byte) /\ inbuf = taken' \o inbuf'
      /\ ret' = ret \o taken' /\ UNCHANGED wire
  BY <1>1, <1>2, TransferType
<1>4. /\ rpc' \in Reads \cup {"idle", "gone"} /\ answer' \in {"none", "string", "null"}
      /\ UNCHANGED <<writer, want, atEnd>>
  BY <1>2 DEF TakeLine, TakePart, TakeChar, TakeBytes, Return, ReaderOnly, TypeOK, Reads
<1> QED BY <1>2, <1>3, <1>4 DEF ReaderType, TypeOK

LEMMA PullType ==
  ASSUME TypeOK, Pull
  PROVE  /\ ReaderType' /\ WireType' /\ taken' = <<>>
         /\ inbuf' \o wire' = inbuf \o wire
         /\ UNCHANGED <<writer, rpc, want, atEnd, ret, answer>>
<1>1. /\ Len(inbuf) \in Nat /\ Len(wire) \in Nat /\ Moved \in Nat
      /\ Size - Moved - Len(inbuf) \in Nat
  BY LenProperties, MovedFacts, StreamAssumption DEF TypeOK
<1>2. PICK n \in 1..Lesser(Size - Moved - Len(inbuf), Len(wire)) :
         inbuf' = inbuf \o First(wire, n) /\ wire' = Beyond(wire, n)
  BY DEF Pull
<1>3. n \in 0..Len(wire) /\ n <= Size - Moved - Len(inbuf)
  <2>1. /\ Lesser(Size - Moved - Len(inbuf), Len(wire)) \in Nat
        /\ Lesser(Size - Moved - Len(inbuf), Len(wire)) <= Size - Moved - Len(inbuf)
        /\ Lesser(Size - Moved - Len(inbuf), Len(wire)) <= Len(wire)
    BY <1>1, LesserFacts
  <2> QED BY <2>1, <1>1, <1>2
<1>4. /\ First(wire, n) \in Seq(Byte) /\ Len(First(wire, n)) = n
      /\ wire' \in Seq(Byte) /\ Len(wire') = Len(wire) - n
      /\ First(wire, n) \o wire' = wire
  BY <1>2, <1>3, Cut DEF TypeOK
<1>5. inbuf' \in Seq(Byte) /\ Len(inbuf') = Len(inbuf) + n
  BY <1>2, <1>4, ConcatProperties DEF TypeOK
<1>6. inbuf' \o wire' = inbuf \o wire
  <2>1. inbuf \in Seq(Byte) /\ First(wire, n) \in Seq(Byte) /\ wire' \in Seq(Byte)
    BY <1>4 DEF TypeOK
  <2>2. (inbuf \o First(wire, n)) \o wire' = inbuf \o (First(wire, n) \o wire')
    BY <2>1, ConcatAssociative
  <2> QED BY <2>2, <1>2, <1>4, Zenon
<1>7. /\ UNCHANGED <<writer, rpc, want, atEnd, ret, answer>>
      /\ start' = Moved /\ taken' = <<>>
  BY DEF Pull, ReaderOnly
<1>8. ReaderType'
  BY <1>1, <1>3, <1>5, <1>7, StreamAssumption DEF ReaderType, TypeOK
<1>9. WireType'
  BY <1>1, <1>3, <1>4, StreamAssumption DEF WireType, TypeOK
<1> QED BY <1>6, <1>7, <1>8, <1>9

\* The reader's steps that copy nothing.
Waits == Read \/ LineEnds \/ PullTimesOut \/ PullEnds \/ Leave

LEMMA WaitType ==
  ASSUME TypeOK, Waits
  PROVE  ReaderType' /\ taken' = <<>> /\ UNCHANGED <<writer, wire, inbuf>>
<1>1. taken' = <<>> /\ UNCHANGED <<writer, wire, inbuf>>
  BY DEF Waits, Read, LineEnds, PullTimesOut, PullEnds, Leave, ReaderOnly
<1>2. ret' \in Seq(Byte)
  BY EmptySeq DEF Waits, Read, LineEnds, PullTimesOut, PullEnds, Leave, TypeOK
<1>3. want' \in Nat /\ atEnd' \in BOOLEAN
  BY StreamAssumption DEF Waits, Read, LineEnds, PullTimesOut, PullEnds, Leave, TypeOK
<1>4. start' \in Nat /\ start' + Len(inbuf) <= Size
  BY MovedFacts DEF Waits, Read, LineEnds, PullTimesOut, PullEnds, Leave, TypeOK
<1>5. rpc' \in Reads \cup {"idle", "gone"} /\ answer' \in {"none", "string", "null"}
  BY DEF Waits, Read, LineEnds, PullTimesOut, PullEnds, Leave, Return, TypeOK, Reads
<1> QED BY <1>1, <1>2, <1>3, <1>4, <1>5 DEF ReaderType, TypeOK

LEMMA TypeStep ==
  ASSUME IInv, [Next]_vars
  PROVE  TypeOK'
<1>1. WriterType /\ WireType /\ ReaderType /\ taken \in Seq(Byte) /\ TypeOK
  BY Types DEF IInv
<1>2. WriterOnly => /\ taken' \in Seq(Byte) /\ UNCHANGED <<wire, reader>>
  BY EmptySeq DEF WriterOnly
<1>3. UNCHANGED writer /\ WriterType => WriterType'
  BY DEF writer, WriterType
<1>4. UNCHANGED reader /\ ReaderType => ReaderType'
  BY DEF reader, ReaderType
<1>5. UNCHANGED wire /\ WireType => WireType'
  BY DEF WireType
<1>0. WriterType' /\ WireType' /\ ReaderType' /\ taken' \in Seq(Byte) => TypeOK'
  BY DEF TypeOK, WriterType, WireType, ReaderType
<1>6. CASE Write \/ Flush \/ Close \/ Pushed \/ Fails
  <2>1. WriterType' /\ WriterOnly
    BY <1>6, <1>1, WriterTypes
  <2> QED BY <2>1, <1>1, <1>2, <1>4, <1>5, <1>0, Zenon
<1>7. CASE Queue
  <2>1. WriterType' /\ WriterOnly
    BY <1>7, <1>1, QueueType DEF Queue
  <2> QED BY <2>1, <1>1, <1>2, <1>4, <1>5, <1>0, Zenon
<1>8. CASE Push
  <2>1. WriterType' /\ WireType'
    BY <1>8, <1>1, PushType
  <2>2. taken' \in Seq(Byte) /\ UNCHANGED reader
    BY <1>8, EmptySeq DEF Push
  <2> QED BY <2>1, <2>2, <1>1, <1>4, <1>0, Zenon
<1>9. CASE TakeLine \/ TakePart \/ TakeChar \/ TakeBytes
  <2>1. ReaderType' /\ taken' \in Seq(Byte) /\ UNCHANGED <<writer, wire>>
    BY <1>9, TakeType
  <2> QED BY <2>1, <1>1, <1>3, <1>5, <1>0, Zenon
<1>10. CASE Pull
  <2>1. ReaderType' /\ WireType' /\ taken' \in Seq(Byte) /\ UNCHANGED writer
    BY <1>10, <1>1, PullType, EmptySeq
  <2> QED BY <2>1, <1>1, <1>3, <1>0, Zenon
<1>11. CASE Waits
  <2>1. ReaderType' /\ taken' \in Seq(Byte) /\ UNCHANGED <<writer, wire>>
    BY <1>11, <1>1, WaitType, EmptySeq
  <2> QED BY <2>1, <1>1, <1>3, <1>5, <1>0, Zenon
<1>12. CASE UNCHANGED vars
  <2>1. taken' \in Seq(Byte) /\ UNCHANGED <<writer, wire, reader>>
    BY <1>12, <1>1 DEF vars
  <2> QED BY <2>1, <1>1, <1>3, <1>4, <1>5, <1>0, Zenon
<1> QED BY <1>6, <1>7, <1>8, <1>9, <1>10, <1>11, <1>12
        DEF Next, WriterGoesOn, ReaderGoesOn, Waits

\* The part of a step that the smaller invariants need.
LEMMA WriterMeans ==
  ASSUME Write \/ Flush \/ Close \/ Queue \/ Pushed \/ Fails
  PROVE  /\ UNCHANGED <<wire, inbuf, start, rpc, want, atEnd, ret, answer>>
         /\ taken' = <<>> /\ wpc # "closed"
BY DEF Write, Flush, Close, Queue, Pushed, Fails, PushFails, WriterOnly, reader, Pushing, Closing

LEMMA AskedStep ==
  ASSUME IInv, [Next]_vars
  PROVE  Asked'
<1> USE DEF IInv
<1>1. CASE UNCHANGED <<rpc, ret, want>>
  BY <1>1 DEF Asked
<1>2. CASE Read
  <2>1. ret' = <<>> /\ Len(<<>>) = 0
    BY <1>2, EmptySeq DEF Read
  <2>2. rpc' = "bytes" => want' \in Nat \ {0}
    BY <1>2, StreamAssumption DEF Read
  <2> QED BY <2>1, <2>2 DEF Asked
<1>3. CASE TakeBytes
  BY <1>3 DEF TakeBytes, Asked, Return
<1>4. CASE TakeLine \/ TakePart \/ LineEnds \/ TakeChar \/ PullTimesOut \/ PullEnds \/ Leave
  <2>1. rpc' # "bytes" \/ UNCHANGED <<rpc, ret, want>>
    BY <1>4 DEF TakeLine, TakePart, LineEnds, TakeChar, PullTimesOut, PullEnds, Leave, Return
  <2> QED BY <2>1 DEF Asked
<1>5. CASE Push \/ Pull
  BY <1>1, <1>5 DEF Push, Pull, reader
<1>6. CASE UNCHANGED vars
  BY <1>1, <1>6 DEF vars, reader
<1>7. CASE Write \/ Flush \/ Close \/ Queue \/ Pushed \/ Fails
  BY <1>1, <1>7, WriterMeans
<1> QED BY <1>2, <1>3, <1>4, <1>5, <1>6, <1>7 DEF Next, WriterGoesOn, ReaderGoesOn

LEMMA EndingStep ==
  ASSUME IInv, [Next]_vars
  PROVE  Ending'
<1>1. CASE UNCHANGED <<rpc, atEnd, wpc, wire>>
  BY <1>1 DEF Ending, IInv
<1>2. CASE Write \/ Flush \/ Close \/ Queue \/ Pushed \/ Fails
  <2>1. UNCHANGED <<rpc, atEnd>> /\ wpc # "closed"
    BY <1>2, WriterMeans
  <2> QED BY <2>1 DEF Ending, IInv
<1>3. CASE Push
  BY <1>3 DEF Push, reader, Ending, IInv, Pushing, Closing
<1>4. CASE Read \/ LineEnds \/ PullTimesOut \/ Leave
  BY <1>4 DEF Read, LineEnds, PullTimesOut, Leave, ReaderOnly, writer, Return, Ending, IInv
<1>5. CASE PullEnds
  BY <1>5 DEF PullEnds, ReaderOnly, writer, Return, Ending
<1>6. CASE TakeLine \/ TakePart \/ TakeChar \/ TakeBytes
  <2>1. UNCHANGED <<wire, atEnd, wpc>>
    BY <1>6, TakeType DEF writer
  <2>2. rpc' = "line" => rpc = "line"
    BY <1>6 DEF TakeLine, TakePart, TakeChar, TakeBytes, Return
  <2> QED BY <2>1, <2>2 DEF Ending, IInv
<1>7. CASE Pull
  <2>1. ~(rpc = "line" /\ atEnd) /\ UNCHANGED <<rpc, atEnd>>
    BY <1>7 DEF Pull, NeedsMore
  <2> QED BY <2>1 DEF Ending
<1>8. CASE UNCHANGED vars
  BY <1>1, <1>8 DEF vars, writer, reader
<1> QED BY <1>2, <1>3, <1>4, <1>5, <1>6, <1>7, <1>8 DEF Next, WriterGoesOn, ReaderGoesOn

\* What is taken when there is no newline in the buffer has none.
LEMMA UnfinishedStep ==
  ASSUME IInv, [Next]_vars
  PROVE  Unfinished'
<1>1. CASE UNCHANGED <<rpc, ret>>
  BY <1>1 DEF Unfinished, IInv, Newlines
<1>2. CASE Write \/ Flush \/ Close \/ Queue \/ Pushed \/ Fails
  BY <1>1, <1>2, WriterMeans
<1>3. CASE Push \/ Pull \/ UNCHANGED vars
  BY <1>1, <1>3 DEF Push, Pull, reader, vars
<1>4. CASE Read
  <2>1. Newlines(<<>>) = {}
    BY EmptySeq, LenProperties DEF Newlines
  <2> QED BY <1>4, <2>1 DEF Read, Unfinished
<1>5. CASE TakePart
  <2>2. inbuf \in Seq(Byte) /\ ret \in Seq(Byte) /\ Len(inbuf) \in Nat
    BY LenProperties DEF IInv, TypeOK
  <2>3. ret' = ret \o First(inbuf, Len(inbuf))
    BY <1>5 DEF TakePart, Transfer
  <2>4. First(inbuf, Len(inbuf)) = inbuf
    BY <2>2, SubSeqFull DEF First
  <2>5. /\ Len(ret') = Len(ret) + Len(inbuf) /\ ret' \in Seq(Byte)
        /\ \A i \in 1..(Len(ret) + Len(inbuf)) :
             ret'[i] = IF i <= Len(ret) THEN ret[i] ELSE inbuf[i - Len(ret)]
    BY <2>2, <2>3, <2>4, ConcatProperties
  <2>6. /\ DOMAIN ret' = 1..(Len(ret) + Len(inbuf)) /\ Len(ret) \in Nat
        /\ DOMAIN ret = 1..Len(ret) /\ DOMAIN inbuf = 1..Len(inbuf)
    BY <2>2, <2>5, LenProperties
  <2>7. Newlines(ret) = {} /\ Newlines(inbuf) = {}
    BY <1>5 DEF TakePart, IInv, Unfinished
  <2>8. \A i \in 1..Len(ret) : ret[i] # Newline
    BY <2>6, <2>7 DEF Newlines
  <2>9. \A i \in 1..Len(inbuf) : inbuf[i] # Newline
    BY <2>6, <2>7 DEF Newlines
  <2>10. \A i \in 1..(Len(ret) + Len(inbuf)) : ret'[i] # Newline
    <3> SUFFICES ASSUME NEW i \in 1..(Len(ret) + Len(inbuf)) PROVE ret'[i] # Newline
      OBVIOUS
    <3>1. ret'[i] = IF i <= Len(ret) THEN ret[i] ELSE inbuf[i - Len(ret)]
      BY <2>5
    <3>2. CASE i <= Len(ret)
      <4>1. i \in 1..Len(ret)
        BY <3>2, <2>6
      <4> QED BY <4>1, <3>1, <3>2, <2>8
    <3>3. CASE ~(i <= Len(ret))
      <4>1. i - Len(ret) \in 1..Len(inbuf)
        BY <3>3, <2>2, <2>6
      <4> QED BY <4>1, <3>1, <3>3, <2>9
    <3> QED BY <3>2, <3>3
  <2> QED BY <2>6, <2>10 DEF Unfinished, Newlines
<1>6. CASE TakeLine \/ LineEnds \/ TakeChar \/ TakeBytes \/ Leave
  BY <1>6 DEF TakeLine, LineEnds, TakeChar, TakeBytes, Leave, Return, Unfinished
<1>7. CASE PullTimesOut \/ PullEnds
  <2>1. rpc' # "line" \/ UNCHANGED <<rpc, ret>>
    BY <1>7 DEF PullTimesOut, PullEnds, Return
  <2> QED BY <1>1, <2>1 DEF Unfinished
<1> QED BY <1>2, <1>3, <1>4, <1>5, <1>6, <1>7 DEF Next, WriterGoesOn, ReaderGoesOn

LEMMA NulledStep ==
  ASSUME IInv, [Next]_vars
  PROVE  Nulled'
<1> USE DEF IInv
<1>1. CASE UNCHANGED <<answer, rpc, wpc, wire, inbuf>>
  BY <1>1 DEF Nulled, AtEnd
<1>2. CASE Write \/ Flush \/ Close \/ Queue \/ Pushed \/ Fails
  <2>1. UNCHANGED answer /\ wpc # "closed"
    BY <1>2, WriterMeans
  <2> QED BY <2>1 DEF Nulled, AtEnd
<1>3. CASE Push
  BY <1>3 DEF Push, reader, Nulled, AtEnd, Pushing, Closing
<1>4. CASE Read
  BY <1>4 DEF Read, Nulled
<1>5. CASE TakeLine \/ TakePart \/ TakeChar \/ TakeBytes
  BY <1>5 DEF TakeLine, TakePart, TakeChar, TakeBytes, Return, Nulled, Reads
<1>6. CASE LineEnds
  BY <1>6 DEF LineEnds, Return, Nulled, AtEnd, Ending, ReaderOnly, writer
<1>7. CASE Pull
  BY <1>7 DEF Pull, NeedsMore, Nulled
<1>8. CASE PullTimesOut
  BY <1>8 DEF PullTimesOut, NeedsMore, Return, Nulled
<1>9. CASE PullEnds
  BY <1>9 DEF PullEnds, NeedsMore, Return, Nulled, AtEnd, ReaderOnly, writer
<1>10. CASE Leave
  BY <1>10 DEF Leave, Nulled, AtEnd, ReaderOnly, writer
<1>11. CASE UNCHANGED vars
  BY <1>1, <1>11 DEF vars, writer, reader
<1> QED BY <1>2, <1>3, <1>4, <1>5, <1>6, <1>7, <1>8, <1>9, <1>10, <1>11
        DEF Next, WriterGoesOn, ReaderGoesOn

\* STREAMInternalQueueBytes stops short of the end only to push.
LEMMA AllCopied ==
  ASSUME TypeOK, Queue, wpc' # "push"
  PROVE  rest' = <<>> /\ wrote' = "ok"
<1> DEFINE n == Lesser(Size - Len(out), Len(rest))
<1>1. /\ Len(out) \in Nat /\ Len(rest) \in Nat /\ Size - Len(out) \in Nat /\ Size \in Nat
  BY LenProperties, StreamAssumption DEF TypeOK
<1>2. n \in 0..Len(rest) /\ (n = Size - Len(out) \/ n = Len(rest))
  <2>1. n \in Nat /\ n <= Len(rest)
    BY <1>1, LesserFacts
  <2>2. n = Size - Len(out) \/ n = Len(rest)
    BY DEF Lesser
  <2> QED BY <1>1, <2>1, <2>2
<1>3. out' = out \o First(rest, n) /\ rest' = Beyond(rest, n)
  BY DEF Queue
<1>4. ~(Len(out') >= Size) /\ wrote' = "ok"
  BY DEF Queue
<1> HIDE DEF n
<1>5. /\ Len(out') = Len(out) + n
      /\ rest' \in Seq(Byte) /\ Len(rest') = Len(rest) - n
  <2>1. /\ First(rest, n) \in Seq(Byte) /\ Len(First(rest, n)) = n
        /\ rest' \in Seq(Byte) /\ Len(rest') = Len(rest) - n
    BY <1>2, <1>3, Cut DEF TypeOK
  <2> QED BY <1>3, <2>1, ConcatProperties DEF TypeOK
<1>6. Len(rest') = 0
  BY <1>1, <1>2, <1>4, <1>5
<1> QED BY <1>4, <1>5, <1>6, EmptySeq

LEMMA GivenStep ==
  ASSUME IInv, [Next]_vars
  PROVE  Given'
<1> USE DEF IInv
<1>1. CASE UNCHANGED writer
  BY <1>1 DEF writer, Given
<1>2. CASE Write \/ Flush \/ Close \/ Push
  BY <1>2 DEF Write, Flush, Close, Push, Given
<1>3. CASE Queue
  BY <1>3, AllCopied DEF Given
<1>4. CASE Pushed
  BY <1>4 DEF Pushed, Given, Pushing, Closing
<1>5. CASE Fails
  BY <1>5 DEF Fails, PushFails, Given
<1>6. CASE Read \/ LineEnds \/ PullTimesOut \/ PullEnds \/ Leave \/ Pull \/ ReaderGoesOn
  BY <1>1, <1>6 DEF Read, ReaderGoesOn, TakeLine, TakePart, TakeChar, TakeBytes, LineEnds,
                    PullTimesOut, PullEnds, Leave, Pull, ReaderOnly
<1>7. CASE UNCHANGED vars
  BY <1>1, <1>7 DEF vars
<1> QED BY <1>2, <1>3, <1>4, <1>5, <1>6, <1>7 DEF Next, WriterGoesOn

LEMMA UnansweredStep ==
  ASSUME IInv, [Next]_vars
  PROVE  Unanswered'
<1> USE DEF IInv
<1>1. CASE UNCHANGED <<answer, rpc>>
  BY <1>1 DEF Unanswered
<1>2. CASE Write \/ Flush \/ Close \/ Queue \/ Pushed \/ Fails
  BY <1>1, <1>2, WriterMeans
<1>3. CASE Push \/ Pull \/ UNCHANGED vars
  BY <1>1, <1>3 DEF Push, Pull, reader, vars
<1>4. CASE Read \/ TakeLine \/ TakePart \/ LineEnds \/ TakeChar \/ TakeBytes
  BY <1>4 DEF Read, TakeLine, TakePart, LineEnds, TakeChar, TakeBytes, Return, Unanswered, Reads
<1>5. CASE PullTimesOut \/ PullEnds \/ Leave
  BY <1>5 DEF PullTimesOut, PullEnds, Leave, Return, Unanswered, Reads
<1> QED BY <1>2, <1>3, <1>4, <1>5 DEF Next, WriterGoesOn, ReaderGoesOn

LEMMA InitIInv == Init => IInv
<1> SUFFICES ASSUME Init PROVE IInv
  OBVIOUS
<1>1. <<>> \in Seq(Byte) /\ Len(<<>>) = 0
  BY EmptySeq
<1>2. TypeOK
  <2>1. 0 \in 0..MaxSignals /\ 0 <= Size /\ 0 <= WireSize /\ 0 + 0 <= Size /\ 1 \in Nat
    BY StreamAssumption
  <2>2. WriterType /\ WireType
    BY <1>1, <2>1 DEF Init, WriterType, WireType
  <2>3. ReaderType /\ taken \in Seq(Byte)
    BY <1>1, <2>1 DEF Init, ReaderType
  <2> QED BY <2>2, <2>3, Types
<1> QED BY <1>2 DEF Init, IInv, Asked, Ending, Unfinished, Unanswered, Nulled, Given,
                      Reads

LEMMA Inductive == IInv /\ [Next]_vars => IInv'
BY TypeStep, AskedStep, EndingStep, UnfinishedStep, UnansweredStep, NulledStep, GivenStep
   DEF IInv

LEMMA Invariant == Spec => []IInv
<1>1. Init => IInv
  BY InitIInv
<1>2. IInv /\ [Next]_vars => IInv'
  BY Inductive
<1> QED BY <1>1, <1>2, PTL DEF Spec

-------------------------------------------------------------------------------
(* What follows from it.                                                       *)

\* No buffer is ever filled beyond its size (STREAMReadCharsToBuffer,
\* STREAMInternalQueueBytes), and every variable keeps its type.
THEOREM TypeCorrect == Spec => []TypeOK
BY Invariant, PTL DEF IInv

\* NULL is never answered for a time-out, nor while anything written is still on
\* its way (STREAMReadToTerminator, STREAMReadToMultiTerminator).
THEOREM NullMeansEnd == Spec => []NullOnlyAtEnd
<1>1. IInv => NullOnlyAtEnd
  BY DEF IInv, Nulled, NullOnlyAtEnd
<1> QED BY <1>1, Invariant, PTL

\* A string that STREAMReadLine returns is one whole line, or what was left at
\* the end of the stream.
LEMMA LineStep ==
  ASSUME IInv, [Next]_vars, rpc = "line", answer' = "string"
  PROVE  /\ \A i \in Newlines(ret') : i = Len(ret')
         /\ Newlines(ret') # {} \/ AtEnd
<1>1. TakeLine \/ LineEnds
  <2>1. answer = "none"
    BY DEF IInv, Unanswered, Reads
  <2>2. ~(Write \/ Flush \/ Close \/ Queue \/ Pushed \/ Fails)
    BY <2>1, WriterMeans
  <2>3. ~(Push \/ Pull \/ UNCHANGED vars)
    BY <2>1 DEF Push, Pull, reader, vars
  <2>4. ~(Read \/ TakePart \/ TakeChar \/ TakeBytes \/ PullTimesOut \/ PullEnds \/ Leave)
    BY <2>1 DEF Read, TakePart, TakeChar, TakeBytes, PullTimesOut, PullEnds, Leave
  <2> QED BY <2>2, <2>3, <2>4 DEF Next, WriterGoesOn, ReaderGoesOn
<1>2. Newlines(ret) = {}
  BY DEF IInv, Unfinished
<1>3. CASE LineEnds
  BY <1>2, <1>3 DEF LineEnds, IInv, Ending, AtEnd, Newlines
<1>4. CASE TakeLine
  <2>1. PICK i \in Newlines(inbuf) : (\A j \in Newlines(inbuf) : i <= j) /\ Transfer(i)
    BY <1>4 DEF TakeLine
  <2>2. /\ inbuf \in Seq(Byte) /\ ret \in Seq(Byte) /\ Len(inbuf) \in Nat /\ Len(ret) \in Nat
        /\ DOMAIN inbuf = 1..Len(inbuf) /\ DOMAIN ret = 1..Len(ret)
    BY LenProperties DEF IInv, TypeOK
  <2>3. i \in 1..Len(inbuf) /\ i \in 0..Len(inbuf) /\ inbuf[i] = Newline
    BY <2>2 DEF Newlines
  <2>4. /\ First(inbuf, i) \in Seq(Byte) /\ Len(First(inbuf, i)) = i
        /\ \A k \in 1..i : First(inbuf, i)[k] = inbuf[k]
    <3>1. First(inbuf, i) \in Seq(Byte) /\ Len(First(inbuf, i)) = i
      BY <2>2, <2>3, Cut
    <3>2. \A k \in 1..i : inbuf[k] \in Byte
      BY <2>2, <2>3, ElementOfSeq
    <3>3. \A k \in 1..(i - 1 + 1) : SubSeq(inbuf, 1, i)[k] = inbuf[1 + k - 1]
      BY <2>2, <2>3, <3>2, SubSeqProperties
    <3> QED BY <2>2, <2>3, <3>1, <3>3 DEF First
  <2>5. /\ ret' = ret \o First(inbuf, i) /\ ret' \in Seq(Byte) /\ Len(ret') = Len(ret) + i
        /\ \A k \in 1..(Len(ret) + i) :
             ret'[k] = IF k <= Len(ret) THEN ret[k] ELSE First(inbuf, i)[k - Len(ret)]
    BY <2>1, <2>2, <2>4, ConcatProperties DEF Transfer
  <2>6. DOMAIN ret' = 1..(Len(ret) + i)
    BY <2>5, LenProperties
  <2>7. ASSUME NEW k \in 1..(Len(ret) + i), ret'[k] = Newline
        PROVE  k = Len(ret')
    <3>1. CASE k <= Len(ret)
      <4>1. k \in 1..Len(ret) /\ ret[k] = Newline
        BY <3>1, <2>2, <2>5, <2>7
      <4> QED BY <4>1, <1>2, <2>2 DEF Newlines
    <3>2. CASE ~(k <= Len(ret))
      <4>1. k - Len(ret) \in 1..i
        BY <3>2, <2>2, <2>3
      <4>2. inbuf[k - Len(ret)] = Newline /\ k - Len(ret) \in 1..Len(inbuf)
        BY <4>1, <3>2, <2>2, <2>3, <2>4, <2>5, <2>7
      <4>3. i <= k - Len(ret)
        BY <4>2, <2>1, <2>2 DEF Newlines
      <4> QED BY <4>1, <4>3, <2>2, <2>3, <2>5
    <3> QED BY <3>1, <3>2
  <2>8. Len(ret) + i \in 1..(Len(ret) + i) /\ ret'[Len(ret) + i] = Newline
    <3>1. Len(ret) + i \in 1..(Len(ret) + i) /\ ~(Len(ret) + i <= Len(ret))
          /\ (Len(ret) + i) - Len(ret) = i /\ i \in 1..i
      BY <2>2, <2>3
    <3> QED BY <3>1, <2>3, <2>4, <2>5
  <2> QED BY <2>6, <2>7, <2>8 DEF Newlines
<1> QED BY <1>1, <1>3, <1>4

\* STREAMReadLine returns one whole line, or what was left at the end.
THEOREM WholeLines == Spec => LinesWhole
<1>1. IInv /\ [Next]_vars =>
        [rpc = "line" /\ answer' = "string" =>
           /\ \A i \in Newlines(ret') : i = Len(ret')
           /\ Newlines(ret') # {} \/ AtEnd]_vars
  BY LineStep
<1> QED BY <1>1, Invariant, PTL DEF Spec, LinesWhole

-------------------------------------------------------------------------------
(* The queue.                                                                  *)

\* Bytes that pass from one sequence to the end of another.
LEMMA PassedFacts ==
  ASSUME NEW s \in Seq(Byte), NEW n \in 0..Len(s), NEW t \in Seq(Byte)
  PROVE  Pipe!Passed(s, Beyond(s, n), t, t \o First(s, n))
<1>1. First(s, n) \in Seq(Byte) /\ First(s, n) \o Beyond(s, n) = s
  BY Cut
<1>2. /\ Len(t) \in Nat /\ Len(First(s, n)) \in Nat
      /\ Len(t \o First(s, n)) = Len(t) + Len(First(s, n))
  BY <1>1, LenProperties, ConcatProperties
<1>3. SubSeq(t \o First(s, n), Len(t) + 1, Len(t \o First(s, n))) = First(s, n)
  <2> DEFINE f == First(s, n)
  <2>1. f \in Seq(Byte) /\ Len(f) \in Nat /\ Len(t \o f) = Len(t) + Len(f)
    BY <1>1, <1>2
  <2> HIDE DEF f
  <2>2. SubSeq(t \o f, Len(t) + 1, Len(t \o f)) = SubSeq(f, 1, Len(f))
    BY <1>2, <2>1, SubSeqOfConcat2
  <2>3. SubSeq(f, 1, Len(f)) = f
    BY <2>1, SubSeqFull
  <2> QED BY <2>2, <2>3 DEF f
<1>4. Pipe!Begins(t, t \o First(s, n))
  BY <1>1, Longer
<1> QED BY <1>1, <1>3, <1>4, Zenon DEF Pipe!Passed

\* Nothing passes.
LEMMA NothingPassed ==
  ASSUME NEW s \in Seq(Byte), NEW t \in Seq(Byte)
  PROVE  Pipe!Passed(s, s, t, t)
<1>1. 0 \in 0..Len(s) /\ First(s, 0) \in Seq(Byte) /\ Len(First(s, 0)) = 0
  BY LenProperties, Cut
<1>2. First(s, 0) = <<>>
  BY <1>1, EmptySeq
<1>3. t \o First(s, 0) = t /\ First(s, 0) \o Beyond(s, 0) = Beyond(s, 0)
  <2>1. Beyond(s, 0) \in Seq(Byte)
    BY <1>1, Cut
  <2> QED BY <1>2, <2>1, ConcatEmptySeq
<1>4. Beyond(s, 0) = s
  BY <1>1, <1>3, Cut
<1> QED BY <1>1, <1>3, <1>4, PassedFacts

\* Nobody was given anything, and nothing else has changed.
LEMMA Idle ==
  ASSUME TypeOK, taken' = <<>>, UNCHANGED <<rest, wrote, out>>, inbuf' \o wire' = inbuf \o wire,
         wpc' = wpc \/ (wpc # "closed" /\ wpc' # "closed")
  PROVE  Pipe!Get
<1>1. inbuf \o wire \in Seq(Byte)
  BY ConcatProperties DEF TypeOK
<1>2. inbuf \o wire = taken' \o (inbuf' \o wire')
  BY <1>1, ConcatEmptySeq
<1>3. (wpc' # "closed") = (wpc # "closed")
  OBVIOUS
<1> QED BY <1>2, <1>3 DEF Pipe!Get

LEMMA WriteCalls ==
  ASSUME IInv, Write \/ Flush
  PROVE  Pipe!Call
<1>1. rest = <<>> /\ wpc # "closed" /\ wpc' # "closed"
  BY DEF IInv, Given, Write, Flush
<1>2. wrote' = "none" /\ taken' = <<>> /\ UNCHANGED <<out, wire, inbuf>>
  BY DEF Write, Flush, WriterOnly, reader
<1>3. (wpc' # "closed") = (wpc # "closed")
  BY <1>1
<1> QED BY <1>1, <1>2, <1>3 DEF Pipe!Call

LEMMA QueueTakes ==
  ASSUME TypeOK, Queue
  PROVE  Pipe!Take
<1> DEFINE n == Lesser(Size - Len(out), Len(rest))
<1>1. /\ out' = out \o First(rest, n) /\ rest' = Beyond(rest, n)
      /\ UNCHANGED <<wire, inbuf>> /\ taken' = <<>>
  BY DEF Queue, WriterOnly, reader
<1>2. rest \in Seq(Byte) /\ out \in Seq(Byte) /\ n \in 0..Len(rest)
  <2>1. /\ Len(out) \in Nat /\ Len(rest) \in Nat /\ Size - Len(out) \in Nat
    BY LenProperties, StreamAssumption DEF TypeOK
  <2>2. n \in Nat /\ n <= Len(rest)
    BY <2>1, LesserFacts
  <2> QED BY <2>1, <2>2 DEF TypeOK
<1> HIDE DEF n
<1>3. Pipe!Passed(rest, rest', out, out')
  BY <1>1, <1>2, PassedFacts
<1>4. wrote' = wrote \/ (rest' = <<>> /\ wrote' = "ok")
  <2>1. CASE wpc' = "push"
    BY <2>1 DEF Queue, Written
  <2> QED BY <2>1, AllCopied
<1>5. wpc # "closed" /\ wpc' # "closed"
  BY DEF Queue, Written
<1>6. (wpc' # "closed") = (wpc # "closed")
  BY <1>5
<1> QED BY <1>1, <1>3, <1>4, <1>5, <1>6 DEF Pipe!Take

LEMMA PushSends ==
  ASSUME TypeOK, Push
  PROVE  Pipe!Send
<1>1. PICK n \in 1..Lesser(Len(out), WireSize - Len(wire)) :
         wire' = wire \o First(out, n) /\ out' = Beyond(out, n)
  BY DEF Push
<1>2. n \in 0..Len(out)
  <2>1. /\ Len(out) \in Nat /\ Len(wire) \in Nat /\ WireSize - Len(wire) \in Nat
    BY LenProperties, StreamAssumption DEF TypeOK
  <2>2. /\ Lesser(Len(out), WireSize - Len(wire)) \in Nat
        /\ Lesser(Len(out), WireSize - Len(wire)) <= Len(out)
    BY <2>1, LesserFacts
  <2> QED BY <1>1, <2>1, <2>2
<1>3. /\ inbuf \in Seq(Byte) /\ wire \in Seq(Byte) /\ out \in Seq(Byte)
      /\ First(out, n) \in Seq(Byte) /\ inbuf \o wire \in Seq(Byte)
  BY <1>2, Cut, ConcatProperties DEF TypeOK
<1>4. inbuf' \o wire' = (inbuf \o wire) \o First(out, n)
  <2>1. inbuf' = inbuf
    BY DEF Push, reader
  <2>2. (inbuf \o wire) \o First(out, n) = inbuf \o (wire \o First(out, n))
    BY <1>3, ConcatAssociative
  <2> QED BY <1>1, <2>1, <2>2, Zenon
<1>5. Pipe!Passed(out, out', inbuf \o wire, inbuf' \o wire')
  BY <1>1, <1>2, <1>3, <1>4, PassedFacts
<1>6. wpc # "closed" /\ UNCHANGED <<rest, wrote, wpc>> /\ taken' = <<>>
  BY DEF Push, Pushing, Closing
<1> QED BY <1>5, <1>6 DEF Pipe!Send

\* The output buffer is empty: the loop goes on, the call is answered, or the
\* stream is closed.
LEMMA PushedStep ==
  ASSUME IInv, Pushed
  PROVE  Pipe!Get \/ Pipe!Take \/ Pipe!Close
<1>1. /\ UNCHANGED <<rest, out, wire, inbuf>> /\ taken' = <<>> /\ out = <<>>
      /\ wpc # "closed" /\ TypeOK
  BY DEF Pushed, WriterOnly, reader, Pushing, Closing, IInv
<1>2. CASE wpc = "push" /\ rest # <<>>
  <2>1. wpc' # "closed" /\ UNCHANGED wrote
    BY <1>2 DEF Pushed
  <2> QED BY <1>1, <2>1, Idle
<1>3. CASE wpc \in Closing
  <2>1. wpc' = "closed" /\ UNCHANGED wrote
    BY <1>3 DEF Pushed, Closing
  <2>2. rest = <<>>
    BY <1>3 DEF IInv, Given, Closing
  <2> QED BY <1>1, <2>1, <2>2 DEF Pipe!Close
<1>4. CASE wpc \notin Closing /\ ~(wpc = "push" /\ rest # <<>>)
  <2>1. wpc' # "closed" /\ wrote' = "ok"
    BY <1>4 DEF Pushed, Written
  <2>2. rest = <<>>
    BY <1>4 DEF IInv, Given, Pushed, Pushing
  <2>3. Pipe!Passed(rest, rest', out, out')
    BY <1>1, NothingPassed DEF TypeOK
  <2>4. (wpc' # "closed") = (wpc # "closed")
    BY <1>1, <2>1
  <2> QED BY <1>1, <2>1, <2>2, <2>3, <2>4 DEF Pipe!Take
<1> QED BY <1>2, <1>3, <1>4

LEMMA FailsStep ==
  ASSUME IInv, Fails
  PROVE  Pipe!Get \/ Pipe!Refuse \/ Pipe!Close
<1>1. /\ UNCHANGED <<wire, inbuf>> /\ taken' = <<>> /\ rest' = <<>>
      /\ wpc # "closed" /\ TypeOK
  BY DEF Fails, PushFails, WriterOnly, reader, Pushing, Closing, IInv
<1>2. CASE wpc \notin Closing
  <2>1. wpc' = "idle" /\ wrote' = "closed" /\ out' = out
    BY <1>2 DEF Fails, Closing
  <2>2. (wpc' # "closed") = (wpc # "closed")
    BY <1>1, <2>1
  <2> QED BY <1>1, <2>1, <2>2 DEF Pipe!Refuse
<1>3. CASE wpc \in Closing
  <2>1. rest = <<>> /\ UNCHANGED wrote
    BY <1>3 DEF IInv, Given, Closing, Fails
  <2>2. CASE wpc = "close"
    <3>1. wpc' = "close again" /\ out' = out
      BY <1>3, <2>2 DEF Fails
    <3> QED BY <1>1, <2>1, <3>1, Idle
  <2>3. CASE wpc = "close again"
    <3>1. wpc' = "closed" /\ out' = <<>>
      BY <1>3, <2>3 DEF Fails
    <3> QED BY <1>1, <2>1, <3>1 DEF Pipe!Close
  <2> QED BY <1>3, <2>2, <2>3 DEF Closing
<1> QED BY <1>2, <1>3

\* The reader is given the first of what was sent.
LEMMA TakeGets ==
  ASSUME IInv, TakeLine \/ TakePart \/ TakeChar \/ TakeBytes
  PROVE  Pipe!Get
<1>1. /\ inbuf' \in Seq(Byte) /\ taken' \in Seq(Byte) /\ inbuf = taken' \o inbuf'
      /\ UNCHANGED <<rest, wrote, out, wpc, wire>> /\ wire \in Seq(Byte)
  BY TakeType DEF ReaderType, writer, IInv, TypeOK
<1>2. inbuf \o wire = taken' \o (inbuf' \o wire')
  BY <1>1, ConcatAssociative
<1> QED BY <1>1, <1>2 DEF Pipe!Get

\* Every step is one of a queue.
LEMMA QueueStep ==
  ASSUME IInv, [Next]_vars
  PROVE  [Pipe!Next]_(Pipe!vars)
<1>1. TypeOK
  BY DEF IInv
<1>2. CASE Write \/ Flush
  BY <1>2, WriteCalls DEF Pipe!Next
<1>3. CASE Close
  <2>1. /\ taken' = <<>> /\ UNCHANGED <<rest, wrote, out, wire, inbuf>>
        /\ wpc # "closed" /\ wpc' # "closed"
    BY <1>3 DEF Close, WriterOnly, reader
  <2> QED BY <1>1, <2>1, Idle DEF Pipe!Next
<1>4. CASE Queue
  BY <1>1, <1>4, QueueTakes DEF Pipe!Next
<1>5. CASE Push
  BY <1>1, <1>5, PushSends DEF Pipe!Next
<1>6. CASE Pushed
  BY <1>6, PushedStep DEF Pipe!Next
<1>7. CASE Fails
  BY <1>7, FailsStep DEF Pipe!Next
<1>8. CASE Waits
  <2>1. taken' = <<>> /\ UNCHANGED <<rest, wrote, out, wire, inbuf, wpc>>
    BY <1>1, <1>8, WaitType DEF writer
  <2> QED BY <1>1, <2>1, Idle DEF Pipe!Next
<1>9. CASE TakeLine \/ TakePart \/ TakeChar \/ TakeBytes
  BY <1>9, TakeGets DEF Pipe!Next
<1>10. CASE Pull
  <2>1. /\ taken' = <<>> /\ UNCHANGED <<rest, wrote, out, wpc>>
        /\ inbuf' \o wire' = inbuf \o wire
    BY <1>1, <1>10, PullType DEF writer
  <2> QED BY <1>1, <2>1, Idle DEF Pipe!Next
<1>11. CASE UNCHANGED vars
  BY <1>11 DEF vars, writer, reader, Pipe!vars
<1> QED BY <1>2, <1>3, <1>4, <1>5, <1>6, <1>7, <1>8, <1>9, <1>10, <1>11
        DEF Next, WriterGoesOn, ReaderGoesOn, Waits

\* The stream implements the queue (STREAMInternalQueueBytes, STREAMInternalPushBytes,
\* STREAMReadCharsToBuffer, STREAMTransferBytesOut, STREAMShutdown): bytes come out in
\* the order they went in, and only those of a refused call, or not sent when the
\* writer closes, do not.
THEOREM Implements == Spec => InOrder
<1>1. Init => Pipe!Init
  <2>1. <<>> \o <<>> = <<>>
    BY EmptySeq, ConcatEmptySeq
  <2> QED BY <2>1 DEF Init, Pipe!Init
<1>2. IInv /\ [Next]_vars => [Pipe!Next]_(Pipe!vars)
  BY QueueStep
<1> QED BY <1>1, <1>2, Invariant, PTL DEF Spec, InOrder, Pipe!Spec
=============================================================================
