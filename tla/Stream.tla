-------------------------------- MODULE Stream --------------------------------
(* libUseful's STREAM between one that writes and one that reads: the output   *)
(* buffer and its flushing, the kernel's queue, the input buffer with its      *)
(* moving start, and the reading of lines, of characters up to a terminator,   *)
(* and of blocks.  The kernel takes and gives any part of what it could; reads *)
(* may time out, and a signal may come while a write waits.                    *)
EXTENDS Naturals, Sequences

CONSTANTS
    Byte,           \* what the properties tell apart of the bytes
    Newline,        \* the one that ends a line
    Size,           \* S->BuffSize
    WireSize,       \* bound: what the kernel holds
    Texts,          \* what is written, and
    Wants,          \* how many bytes are asked for at once
    FlushType,      \* "full", "line" or "always"
    MaxSignals      \* bound: signals that come while a write waits

ASSUME StreamAssumption ==
    /\ Newline \in Byte
    /\ Size \in Nat \ {0} /\ WireSize \in Nat \ {0}
    /\ Texts \subseteq Seq(Byte) \ {<<>>}
    /\ Wants \subseteq Nat \ {0}
    /\ FlushType \in {"full", "line", "always"}
    /\ MaxSignals \in Nat

VARIABLES
    out,        \* OutputBuff up to OutEnd
    rest,       \* what STREAMInternalQueueBytes has still to copy
    wpc,        \* where the writer stands
    line,       \* it is in STREAMWriteLine
    wrote,      \* what its latest call answered
    signals,    \* how many signals came
    wire,       \* the kernel's queue
    inbuf,      \* InputBuff from InStart to InEnd
    start,      \* InStart
    rpc,        \* the call the reader is in
    want,       \* Buffsize, in STREAMReadBytes
    atEnd,      \* IsClosed, in STREAMReadToTerminator
    ret,        \* what has been copied to the reader in its latest call
    answer,     \* what that call answered
    taken       \* what the latest step copied to it

writer == <<out, rest, wpc, line, wrote, signals>>
reader == <<inbuf, start, rpc, want, atEnd, ret, answer>>
vars == <<writer, wire, reader, taken>>

Init ==
    /\ out = <<>> /\ rest = <<>> /\ wpc = "idle" /\ line = FALSE
    /\ wrote = "none" /\ signals = 0
    /\ wire = <<>>
    /\ inbuf = <<>> /\ start = 0 /\ rpc = "idle" /\ want = 1 /\ atEnd = FALSE
    /\ ret = <<>> /\ answer = "none" /\ taken = <<>>

Lesser(m, n) == IF m < n THEN m ELSE n

First(s, n) == SubSeq(s, 1, n)
Beyond(s, n) == SubSeq(s, n + 1, Len(s))

-------------------------------------------------------------------------------
(* The writer.                                                                 *)

WriterOnly == taken' = <<>> /\ UNCHANGED <<wire, reader>>

\* STREAMWriteBytes, and STREAMWriteLine around it.
Write ==
    /\ wpc = "idle"
    /\ rest' \in Texts /\ line' \in BOOLEAN
    /\ wpc' = "queue" /\ wrote' = "none"
    /\ UNCHANGED <<out, signals>> /\ WriterOnly

Flush ==
    /\ wpc = "idle" /\ wpc' = "flush" /\ wrote' = "none"
    /\ UNCHANGED <<out, rest, line, signals>> /\ WriterOnly

\* The end of STREAMWriteBytes.
Written == IF line /\ FlushType = "line" THEN "flush" ELSE "idle"

\* STREAMInternalQueueBytes, one turn of its loop: copy what there is room for,
\* push when the buffer is full or everything is to be flushed.
Queue ==
    /\ wpc = "queue"
    /\ LET n == Lesser(Size - Len(out), Len(rest)) IN
         out' = out \o First(rest, n) /\ rest' = Beyond(rest, n)
    /\ IF Len(out') >= Size \/ FlushType = "always"
       THEN wpc' = "push" /\ UNCHANGED wrote
       ELSE wpc' = Written /\ wrote' = "ok"
    /\ UNCHANGED <<line, signals>> /\ WriterOnly

Closing == {"close", "close again"}
Pushing == {"push", "flush"} \cup Closing

\* STREAMBasicSendBytes: the kernel takes some of it.  While it takes nothing
\* the write times out, and STREAMInternalPushBytes tries again.
Push ==
    /\ wpc \in Pushing /\ rpc # "gone"
    /\ \E n \in 1..Lesser(Len(out), WireSize - Len(wire)) :
         wire' = wire \o First(out, n) /\ out' = Beyond(out, n)
    /\ taken' = <<>>
    /\ UNCHANGED <<rest, wpc, line, wrote, signals, reader>>

\* The output buffer is empty.
Pushed ==
    /\ wpc \in Pushing /\ out = <<>>
    /\ IF wpc = "push" /\ rest # <<>>
       THEN wpc' = "queue" /\ UNCHANGED wrote
       ELSE IF wpc \in Closing
       THEN wpc' = "closed" /\ UNCHANGED wrote
       ELSE wpc' = (IF wpc = "push" THEN Written ELSE "idle") /\ wrote' = "ok"
    /\ UNCHANGED <<out, rest, line, signals>> /\ WriterOnly

\* A push that fails: what was not yet copied is dropped.
PushFails ==
    /\ wpc \in Pushing /\ out # <<>>
    /\ IF rpc = "gone" THEN UNCHANGED signals
                       ELSE signals < MaxSignals /\ signals' = signals + 1
    /\ rest' = <<>>
    /\ UNCHANGED line /\ WriterOnly

\* Fault: a push that fails leaves nothing in the buffer.
Fails_Clears ==
    /\ PushFails
    /\ IF wpc \in Closing
       THEN wpc' = (IF wpc = "close" THEN "close again" ELSE "closed") /\ UNCHANGED wrote
       ELSE wpc' = "idle" /\ wrote' = "closed"
    /\ out' = <<>>

\* The reader has gone, or a signal ended the select: STREAM_CLOSED.  What is in
\* OutputBuff stays there.  STREAMShutdown pushes twice before it closes.
Fails ==
    /\ PushFails
    /\ IF wpc \in Closing
       THEN wpc' = (IF wpc = "close" THEN "close again" ELSE "closed") /\ UNCHANGED wrote
       ELSE wpc' = "idle" /\ wrote' = "closed"
    /\ out' = IF wpc = "close again" THEN <<>> ELSE out

\* STREAMShutdown.
Close ==
    /\ wpc = "idle" /\ wpc' = "close"
    /\ UNCHANGED <<out, rest, line, wrote, signals>> /\ WriterOnly

-------------------------------------------------------------------------------
(* The reader.                                                                 *)

ReaderOnly == UNCHANGED writer

Reads == {"line", "text", "bytes"}

\* STREAMReadLine, STREAMReadToMultiTerminator or STREAMReadBytes.
Read ==
    /\ rpc = "idle"
    /\ rpc' \in Reads /\ atEnd' = FALSE
    /\ want' \in IF rpc' = "bytes" THEN Wants ELSE {want}
    /\ ret' = <<>> /\ answer' = "none" /\ taken' = <<>>
    /\ UNCHANGED <<wire, inbuf, start>> /\ ReaderOnly

Newlines(s) == {i \in DOMAIN s : s[i] = Newline}

\* n bytes of the input buffer are copied to the reader.
Transfer(n) ==
    /\ taken' = First(inbuf, n) /\ ret' = ret \o First(inbuf, n)
    /\ inbuf' = Beyond(inbuf, n) /\ start' = start + n
    /\ UNCHANGED wire

Return(kind) == rpc' = "idle" /\ answer' = kind

\* STREAMReadToTerminator finds its terminator.
TakeLine ==
    /\ rpc = "line"
    /\ \E i \in Newlines(inbuf) :
         /\ \A j \in Newlines(inbuf) : i <= j
         /\ Transfer(i)
    /\ Return("string")
    /\ UNCHANGED <<want, atEnd>> /\ ReaderOnly

Full == start + Len(inbuf) >= Size

\* Fault: what is there when the buffer is full is returned as a line.
TakePart_Returns ==
    /\ rpc = "line" /\ Newlines(inbuf) = {} /\ inbuf # <<>>
    /\ atEnd \/ (start = 0 /\ Full)
    /\ Transfer(Len(inbuf))
    /\ Return("string")
    /\ UNCHANGED <<want, atEnd>> /\ ReaderOnly

\* There is none, and no more will come or can be held.
TakePart ==
    /\ rpc = "line" /\ Newlines(inbuf) = {} /\ inbuf # <<>>
    /\ atEnd \/ (start = 0 /\ Full)
    /\ Transfer(Len(inbuf))
    /\ UNCHANGED <<rpc, want, atEnd, answer>> /\ ReaderOnly

LineEnds ==
    /\ rpc = "line" /\ inbuf = <<>> /\ atEnd
    /\ Return(IF ret = <<>> THEN "null" ELSE "string")
    /\ taken' = <<>>
    /\ UNCHANGED <<wire, inbuf, start, want, atEnd, ret>> /\ ReaderOnly

\* STREAMReadToMultiTerminator takes one character at a time.
TakeChar ==
    /\ rpc = "text" /\ inbuf # <<>>
    /\ Transfer(1)
    /\ IF Head(inbuf) = Newline THEN Return("string") ELSE UNCHANGED <<rpc, answer>>
    /\ UNCHANGED <<want, atEnd>> /\ ReaderOnly

\* STREAMReadMessage goes on while it was given less than it wants and poll()
\* says that there is more.
TakeBytes ==
    /\ rpc = "bytes" /\ inbuf # <<>>
    /\ Transfer(Lesser(want - Len(ret), Len(inbuf)))
    /\ IF Len(ret') < want /\ (wire # <<>> \/ wpc = "closed")
       THEN UNCHANGED <<rpc, answer>>
       ELSE Return("string")
    /\ UNCHANGED <<want, atEnd>> /\ ReaderOnly

\* The call needs STREAMReadCharsToBuffer.
NeedsMore ==
    \/ rpc \in {"text", "bytes"} /\ inbuf = <<>>
    \/ rpc = "line" /\ Newlines(inbuf) = {} /\ ~atEnd /\ ~(start = 0 /\ Full)

\* Fault: room is made only when half the buffer has been read.
Moved_AtHalf == IF inbuf = <<>> \/ start > Size \div 2 THEN 0 ELSE start

\* Where InStart stands when room has been made.
Moved == IF inbuf = <<>> \/ start > Size \div 2 \/ Full THEN 0 ELSE start

\* Fault: as much is read as if InStart were 0.
Pull_FromZero ==
    /\ NeedsMore
    /\ \E n \in 1..Lesser(Size - Len(inbuf), Len(wire)) :
         inbuf' = inbuf \o First(wire, n) /\ wire' = Beyond(wire, n)
    /\ start' = Moved /\ taken' = <<>>
    /\ UNCHANGED <<rpc, want, atEnd, ret, answer>> /\ ReaderOnly

\* STREAMReadCharsToBuffer makes room and reads what there is room for.
Pull ==
    /\ NeedsMore
    /\ \E n \in 1..Lesser(Size - Moved - Len(inbuf), Len(wire)) :
         inbuf' = inbuf \o First(wire, n) /\ wire' = Beyond(wire, n)
    /\ start' = Moved /\ taken' = <<>>
    /\ UNCHANGED <<rpc, want, atEnd, ret, answer>> /\ ReaderOnly

\* Fault: a time-out is the end.
PullTimesOut_Ends ==
    /\ NeedsMore /\ wire = <<>> /\ wpc # "closed"
    /\ start' = Moved /\ taken' = <<>>
    /\ IF rpc = "line" THEN atEnd' = TRUE /\ UNCHANGED <<rpc, answer>>
                       ELSE Return("string") /\ UNCHANGED atEnd
    /\ UNCHANGED <<wire, inbuf, want, ret>> /\ ReaderOnly

\* Nothing came in time, or a signal did: STREAMReadCharsToBuffer answers 1, so
\* that a line is waited for all the same, and the others return what they have.
PullTimesOut ==
    /\ NeedsMore /\ wire = <<>> /\ wpc # "closed"
    /\ start' = Moved /\ taken' = <<>>
    /\ IF rpc = "line" THEN UNCHANGED <<rpc, answer>> ELSE Return("string")
    /\ UNCHANGED <<wire, inbuf, want, atEnd, ret>> /\ ReaderOnly

PullEnds ==
    /\ NeedsMore /\ wire = <<>> /\ wpc = "closed"
    /\ start' = Moved /\ taken' = <<>>
    /\ IF rpc = "line"
       THEN atEnd' = TRUE /\ UNCHANGED <<rpc, answer>>
       ELSE Return(IF ret = <<>> THEN "null" ELSE "string") /\ UNCHANGED atEnd
    /\ UNCHANGED <<wire, inbuf, want, ret>> /\ ReaderOnly

\* The reader closes its end.
Leave ==
    /\ rpc = "idle" /\ rpc' = "gone"
    /\ taken' = <<>>
    /\ UNCHANGED <<wire, inbuf, start, want, atEnd, ret, answer>> /\ ReaderOnly

WriterGoesOn == Queue \/ Push \/ Pushed

ReaderGoesOn ==
    TakeLine \/ TakePart \/ LineEnds \/ TakeChar \/ TakeBytes
    \/ Pull \/ PullTimesOut \/ PullEnds

Next == Write \/ Flush \/ Close \/ WriterGoesOn \/ Fails \/ Read \/ ReaderGoesOn \/ Leave

Spec == Init /\ [][Next]_vars

\* Both processes run.  Nothing makes a writer write or close, or a reader read.
FairSpec == Spec /\ WF_vars(WriterGoesOn) /\ WF_vars(ReaderGoesOn)

-------------------------------------------------------------------------------
(* Properties.                                                                 *)

\* Every variable keeps its type, and no buffer is filled beyond its size.
TypeOK ==
    /\ out \in Seq(Byte) /\ Len(out) <= Size
    /\ rest \in Seq(Byte)
    /\ wpc \in {"idle", "queue", "closed"} \cup Pushing
    /\ line \in BOOLEAN /\ signals \in 0..MaxSignals
    /\ wrote \in {"none", "ok", "closed"}
    /\ wire \in Seq(Byte) /\ Len(wire) <= WireSize
    /\ inbuf \in Seq(Byte) /\ start \in Nat /\ start + Len(inbuf) <= Size
    /\ rpc \in Reads \cup {"idle", "gone"}
    /\ want \in Nat /\ atEnd \in BOOLEAN
    /\ ret \in Seq(Byte) /\ taken \in Seq(Byte)
    /\ answer \in {"none", "string", "null"}

\* Nothing can come any more.
AtEnd == wpc = "closed" /\ wire = <<>> /\ inbuf = <<>>

\* STREAMReadLine never returns part of a line, nor more than one, however the
\* line is cut up by the kernel and the two buffers, and however often a
\* time-out or a signal comes between; the end of the stream may cut the last.
LinesWhole ==
    [][rpc = "line" /\ answer' = "string" =>
         /\ \A i \in Newlines(ret') : i = Len(ret')
         /\ Newlines(ret') # {} \/ AtEnd]_vars

\* NULL is answered when everything written has been handed out and the writer
\* has closed, never for a time-out: callers end their session on it.
NullOnlyAtEnd == answer = "null" => AtEnd

\* A reader in STREAMReadLine for which a whole line has come gets it, whatever
\* part of the buffer is in use.
LineArrives ==
    rpc = "line" /\ Newlines(inbuf \o wire) # {} ~> rpc # "line"

Pipe == INSTANCE ByteQueue WITH given <- rest, told <- wrote, kept <- out,
                                sent <- inbuf \o wire, open <- wpc # "closed"

\* What goes in at STREAMWriteBytes comes out at the reads in the same order,
\* nothing twice and nothing missing, across the moves of both buffers and pushes
\* that fail -- but for two things.  A call that cannot push answers STREAM_CLOSED and
\* has left behind what it did not copy; and STREAMShutdown drops what it cannot push.
InOrder == Pipe!Spec
=============================================================================
