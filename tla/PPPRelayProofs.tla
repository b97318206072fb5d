---------------------------- MODULE PPPRelayProofs ----------------------------
(* Proofs about PPPRelay, for any bounds on the kernel's queues.               *)
EXTENDS PPPRelay, TLAPS

-------------------------------------------------------------------------------
(* What the thread has pushed out.                                             *)

\* A stream whose far side lives has nothing left in its OutputBuff, except
\* while what was just read is on its way to it, or after a signal has cut a
\* write short, when the thread will not read again.
Flushed ==
    \A c \in alive : outbuf[c] > 0 =>
        \/ pc \in {"write", "flush"} /\ c = Other(cur)
        \/ exitFlag /\ pc # "read"

\* Before the loop nothing has been written.
Fresh == pc = "launch" => \A c \in Ends : outbuf[c] = 0

IInv == TypeOK /\ Flushed /\ Fresh

LEMMA OtherFacts == \A c \in Ends : Other(c) \in Ends /\ Other(c) # c /\ Other(Other(c)) = c
BY DEF Ends, Other

LEMMA InitFacts == Init => IInv
<1> SUFFICES ASSUME Init PROVE IInv
  OBVIOUS
<1>1. /\ outbuf = [c \in Ends |-> 0] /\ recv = outbuf /\ inbuf = outbuf /\ sent = outbuf
  BY DEF Init
<1>2. TypeOK
  <2>1. /\ recv \in [Ends -> 0..InMax] /\ inbuf \in [Ends -> 0..BuffSize]
        /\ outbuf \in [Ends -> 0..BuffSize] /\ sent \in [Ends -> 0..OutMax]
    BY <1>1, BoundsAssumption DEF BuffSize
  <2>2. /\ tls \in BOOLEAN /\ pc = "launch" /\ cur = "none" /\ list = <<"pppd", "peer">>
        /\ at = 1 /\ alive = {"peer"} /\ busy = FALSE /\ exitFlag = FALSE
        /\ heard = {} /\ link = "down" /\ configured = FALSE
    BY DEF Init
  <2>3. alive \subseteq Ends /\ heard \subseteq Ends
    BY <2>2 DEF Ends
  <2> QED BY <2>1, <2>2, <2>3 DEF TypeOK
<1>3. Flushed /\ Fresh
  BY <1>1 DEF Init, Flushed, Fresh, Ends
<1> QED BY <1>2, <1>3 DEF IInv

\* What Read does to the four counts of the two directions.
LEMMA ReadFacts ==
  ASSUME IInv, Read
  PROVE  /\ recv' \in [Ends -> 0..InMax] /\ inbuf' \in [Ends -> 0..BuffSize]
         /\ outbuf' \in [Ends -> 0..BuffSize]
         /\ cur \in Ends /\ pc = "read" /\ pc' = "write"
         /\ UNCHANGED <<tls, cur, list, at, sent, outside, configured>>
         /\ outbuf'[cur] = outbuf[cur]
         /\ recv'[Other(cur)] = recv[Other(cur)] /\ inbuf'[Other(cur)] = inbuf[Other(cur)]
         /\ recv'[cur] + inbuf'[cur] = recv[cur] + inbuf[cur] - 1
         /\ Other(cur) \in alive => outbuf'[Other(cur)] = outbuf[Other(cur)] + 1
<1>1. /\ cur \in Ends /\ Other(cur) \in Ends /\ Other(cur) # cur /\ pc = "read"
      /\ pc' = "write" /\ UNCHANGED <<tls, cur, list, at, sent, outside, configured>>
  BY OtherFacts DEF IInv, TypeOK, Read
<1>2. /\ recv \in [Ends -> 0..InMax] /\ inbuf \in [Ends -> 0..BuffSize]
      /\ outbuf \in [Ends -> 0..BuffSize] /\ BuffSize = 2 /\ InMax \in Nat
  BY BoundsAssumption DEF IInv, TypeOK, BuffSize
<1>3. PICK k \in 0..BuffSize :
         /\ k <= recv[cur] /\ inbuf[cur] + k > 0
         /\ inbuf[cur] > 1 => k = 0
         /\ recv' = [recv EXCEPT ![cur] = @ - k]
         /\ inbuf' = [inbuf EXCEPT ![cur] = @ + k - 1]
  BY DEF Read
<1>4. outbuf' = [outbuf EXCEPT ![Other(cur)] = Lesser(@ + 1, BuffSize)]
  BY DEF Read
<1>5. /\ recv[cur] - k \in 0..InMax /\ inbuf[cur] + k - 1 \in 0..BuffSize
      /\ Lesser(outbuf[Other(cur)] + 1, BuffSize) \in 0..BuffSize
  BY <1>1, <1>2, <1>3 DEF Lesser
<1>6. /\ recv' \in [Ends -> 0..InMax] /\ inbuf' \in [Ends -> 0..BuffSize]
      /\ outbuf' \in [Ends -> 0..BuffSize]
  BY <1>1, <1>2, <1>3, <1>4, <1>5
<1>7. /\ recv'[cur] = recv[cur] - k /\ inbuf'[cur] = inbuf[cur] + k - 1
      /\ recv'[Other(cur)] = recv[Other(cur)] /\ inbuf'[Other(cur)] = inbuf[Other(cur)]
      /\ outbuf'[cur] = outbuf[cur]
      /\ outbuf'[Other(cur)] = Lesser(outbuf[Other(cur)] + 1, BuffSize)
  BY <1>1, <1>2, <1>3, <1>4
<1>8. Other(cur) \in alive => outbuf[Other(cur)] = 0
  BY <1>1, <1>2 DEF IInv, Flushed
<1> QED BY <1>1, <1>2, <1>3, <1>6, <1>7, <1>8 DEF Lesser

\* What Push does to them.
LEMMA PushFacts ==
  ASSUME IInv, Push
  PROVE  /\ outbuf' \in [Ends -> 0..BuffSize] /\ sent' \in [Ends -> 0..OutMax]
         /\ UNCHANGED <<tls, loop, recv, inbuf, outside, configured>>
         /\ \A c \in Ends : /\ outbuf'[c] + sent'[c] = outbuf[c] + sent[c]
                            /\ outbuf'[c] <= outbuf[c]
<1>1. PICK c \in Ends :
         /\ outbuf[c] > 0 /\ sent[c] < OutMax
         /\ outbuf' = [outbuf EXCEPT ![c] = @ - 1]
         /\ sent' = [sent EXCEPT ![c] = @ + 1]
  BY DEF Push, Pushing
<1>2. /\ outbuf \in [Ends -> 0..BuffSize] /\ sent \in [Ends -> 0..OutMax]
      /\ OutMax \in Nat /\ BuffSize = 2
  BY BoundsAssumption DEF IInv, TypeOK, BuffSize
<1>3. outbuf[c] - 1 \in 0..BuffSize /\ sent[c] + 1 \in 0..OutMax
  BY <1>1, <1>2
<1>4. outbuf' \in [Ends -> 0..BuffSize] /\ sent' \in [Ends -> 0..OutMax]
  BY <1>1, <1>2, <1>3
<1>5. ASSUME NEW d \in Ends
      PROVE  outbuf'[d] + sent'[d] = outbuf[d] + sent[d] /\ outbuf'[d] <= outbuf[d]
  BY <1>1, <1>2
<1>6. UNCHANGED <<tls, loop, recv, inbuf, outside, configured>>
  BY DEF Push
<1> QED BY <1>4, <1>5, <1>6

-------------------------------------------------------------------------------
(* The invariant is kept.                                                      *)

\* The steps of the thread that move no data.
LEMMA PushedOnFacts ==
  ASSUME IInv, PushedOn
  PROVE  /\ pc \in {"select", "write", "flush", "close"}
         /\ pc' \in {"select", "poll", "test", "flush", "configure", "ended"}
         /\ pc' = "flush" => pc = "write"
         /\ cur' \in Ends \cup {"none"} /\ (pc' = "flush" => cur' = cur)
         /\ at' \in {1, 2}
<1>1. /\ at \in {1, 2} /\ list \in {<<"pppd", "peer">>, <<"peer", "pppd">>}
      /\ cur \in Ends \cup {"none"}
  BY DEF IInv, TypeOK
<1>2. list[at] \in Ends
  BY <1>1 DEF Ends
<1> QED BY <1>1, <1>2 DEF PushedOn

LEMMA StaysFlushed ==
  ASSUME IInv, UNCHANGED <<data, alive>>, exitFlag => exitFlag',
         pc' # "launch", pc' # "read" \/ ~exitFlag,
         pc \in {"write", "flush"} =>
           \/ (pc' \in {"write", "flush"} /\ cur' = cur)
           \/ (exitFlag' /\ pc' # "read")
           \/ \A c \in Ends : ~Pushing(c)
  PROVE  Flushed' /\ Fresh'
<1>1. Fresh'
  BY DEF Fresh
<1>2. ASSUME NEW c \in alive', outbuf'[c] > 0
      PROVE  (pc' \in {"write", "flush"} /\ c = Other(cur')) \/ (exitFlag' /\ pc' # "read")
  <2>1. c \in alive /\ outbuf[c] > 0 /\ c \in Ends
    BY <1>2 DEF data, IInv, TypeOK
  <2>2. CASE pc \in {"write", "flush"} /\ c = Other(cur)
    <3>1. CASE pc' \in {"write", "flush"} /\ cur' = cur
      BY <2>2, <3>1
    <3>2. CASE exitFlag' /\ pc' # "read"
      BY <3>2
    <3>3. CASE \A d \in Ends : ~Pushing(d)
      BY <2>1, <2>2, <3>3 DEF Pushing, Pushed
    <3> QED BY <2>2, <3>1, <3>2, <3>3
  <2>3. CASE exitFlag /\ pc # "read"
    BY <2>3
  <2> QED BY <2>1, <2>2, <2>3 DEF IInv, Flushed
<1> QED BY <1>1, <1>2 DEF Flushed

\* The counts are typed after every step.
CountType ==
    /\ recv \in [Ends -> 0..InMax] /\ inbuf \in [Ends -> 0..BuffSize]
    /\ outbuf \in [Ends -> 0..BuffSize] /\ sent \in [Ends -> 0..OutMax]

LEMMA CountsKept ==
  ASSUME IInv, [Next]_vars
  PROVE  CountType'
<1>0. CountType
  BY DEF IInv, TypeOK, CountType
<1>1. CASE UNCHANGED data
  BY <1>0, <1>1 DEF CountType, data
<1>2. CASE Push
  BY <1>0, <1>2, PushFacts DEF CountType
<1>3. CASE Read
  BY <1>0, <1>3, ReadFacts DEF CountType
<1>4. ASSUME NEW c \in Ends, Deliver(c) PROVE CountType'
  <2>1. sent[c] - 1 \in 0..OutMax
    BY <1>0, <1>4, BoundsAssumption DEF CountType, Deliver
  <2> QED BY <1>0, <1>4, <2>1 DEF CountType, Deliver, ThreadWaits
<1>5. ASSUME NEW c \in Ends, Send(c) PROVE CountType'
  <2>1. recv[c] + 1 \in 0..InMax
    BY <1>0, <1>5, BoundsAssumption DEF CountType, Send
  <2> QED BY <1>0, <1>5, <2>1 DEF CountType, Send, ThreadWaits
<1>6. ASSUME NEW c \in Ends, Gone(c) PROVE UNCHANGED data
  BY <1>6 DEF Gone, ThreadWaits, data
<1>7. TakesUp \/ LinkUp \/ Signal => UNCHANGED data
  BY DEF TakesUp, LinkUp, Signal, ThreadWaits, data
<1>8. \/ Launch \/ PushDone \/ BrokenPipe \/ Poll \/ PollTimesOut
      \/ Test \/ ReadEnds \/ Exits \/ Configure
      => UNCHANGED data
  BY DEF Launch, PushDone, BrokenPipe, Poll, PollTimesOut, Test, ReadEnds, Exits,
         Configure, Goes
<1>9. UNCHANGED vars => UNCHANGED data
  BY DEF vars
<1> QED BY <1>1, <1>2, <1>3, <1>4, <1>5, <1>6, <1>7, <1>8, <1>9 DEF Next, RelayStep, Outside

\* The other conjuncts of TypeOK.
StateType ==
    /\ tls \in BOOLEAN
    /\ pc \in {"launch", "select", "poll", "test", "read", "reap", "write",
               "flush", "configure", "close", "ended"}
    /\ cur \in Ends \cup {"none"} /\ (pc \in {"read", "write", "flush"} => cur \in Ends)
    /\ list \in {<<"pppd", "peer">>, <<"peer", "pppd">>} /\ at \in {1, 2}

OutsideType ==
    /\ alive \subseteq Ends /\ busy \in BOOLEAN /\ exitFlag \in BOOLEAN
    /\ heard \subseteq Ends /\ link \in {"down", "asked", "other"}
    /\ configured \in BOOLEAN

LEMMA OutsideKept ==
  ASSUME IInv, [Next]_vars
  PROVE  OutsideType'
<1>0. OutsideType
  BY DEF IInv, TypeOK, OutsideType
<1>1. CASE UNCHANGED <<outside, configured>>
  BY <1>0, <1>1 DEF OutsideType, outside
<1>2. CASE Launch
  BY <1>0, <1>2 DEF OutsideType, Launch, Ends
<1>3. CASE Configure
  BY <1>0, <1>3 DEF OutsideType, Configure, outside
<1>4. ASSUME NEW c \in Ends, Deliver(c) \/ Send(c) \/ Gone(c)
      PROVE  OutsideType'
  BY <1>0, <1>4 DEF OutsideType, Deliver, Send, Gone, ThreadWaits
<1>5. CASE TakesUp \/ LinkUp
  BY <1>0, <1>5 DEF OutsideType, TakesUp, LinkUp, ThreadWaits
<1>6. CASE Signal
  BY <1>0, <1>6 DEF OutsideType, Signal
<1>7. \/ Push \/ PushDone \/ BrokenPipe \/ Poll \/ PollTimesOut \/ Test \/ Read \/ ReadEnds \/ Exits
      \/ UNCHANGED vars
      => UNCHANGED <<outside, configured>>
  BY DEF Push, PushDone, BrokenPipe, Poll, PollTimesOut, Test, Read, ReadEnds, Exits, vars
<1> QED BY <1>1, <1>2, <1>3, <1>4, <1>5, <1>6, <1>7 DEF Next, RelayStep, Outside

LEMMA StateKept ==
  ASSUME IInv, [Next]_vars
  PROVE  StateType'
<1>0. StateType /\ \A c \in Ends : Other(c) \in Ends
  BY OtherFacts DEF IInv, TypeOK, StateType
<1>1. CASE UNCHANGED <<tls, loop>>
  BY <1>0, <1>1 DEF StateType, loop
<1>2. CASE Launch \/ Configure
  BY <1>0, <1>2 DEF StateType, Launch, Configure, Goes
<1>3. CASE PushDone
  BY <1>0, <1>3, PushedOnFacts DEF StateType, PushDone
<1>4. CASE Poll
  <2>1. PICK i \in {1, 2} : cur' = list[i] /\ list' = <<Other(list[i]), list[i]>>
    BY <1>4 DEF Poll
  <2>2. list[i] \in Ends
    BY <1>0 DEF StateType, Ends
  <2>3. list' \in {<<"pppd", "peer">>, <<"peer", "pppd">>}
    BY <2>1, <2>2 DEF Ends, Other
  <2> QED BY <1>0, <1>4, <2>1, <2>2, <2>3 DEF StateType, Poll
<1>5. CASE PollTimesOut
  BY <1>0, <1>5 DEF StateType, PollTimesOut
<1>6. CASE BrokenPipe \/ Test \/ ReadEnds \/ Exits
  BY <1>0, <1>6 DEF StateType, BrokenPipe, Test, ReadEnds, Exits, Goes
<1>7. CASE Read
  BY <1>0, <1>7, ReadFacts DEF StateType
<1>8. CASE Signal
  <2>1. CASE PushedOn
    BY <1>0, <1>8, <2>1, PushedOnFacts DEF StateType, Signal
  <2>2. CASE pc' = "test" /\ cur' = "none" /\ UNCHANGED at
    BY <1>0, <1>8, <2>2 DEF StateType, Signal
  <2>3. CASE UNCHANGED <<pc, cur, at>>
    BY <1>0, <1>8, <2>3 DEF StateType, Signal
  <2> QED BY <1>8, <2>1, <2>2, <2>3 DEF Signal
<1>9. \A c \in Ends : Deliver(c) \/ Send(c) \/ Gone(c) => UNCHANGED <<tls, loop>>
  BY DEF Deliver, Send, Gone, ThreadWaits
<1>10. TakesUp \/ LinkUp \/ Push \/ UNCHANGED vars => UNCHANGED <<tls, loop>>
  BY DEF TakesUp, LinkUp, ThreadWaits, Push, vars
<1> QED BY <1>1, <1>2, <1>3, <1>4, <1>5, <1>6, <1>7, <1>8, <1>9, <1>10
        DEF Next, RelayStep, Outside

LEMMA FlushedKept ==
  ASSUME IInv, [Next]_vars
  PROVE  Flushed' /\ Fresh'
<1>0. /\ Flushed /\ Fresh /\ alive \subseteq Ends /\ CountType
      /\ \A c \in Ends : Other(c) \in Ends
  BY OtherFacts DEF IInv, TypeOK, CountType
<1>1. CASE UNCHANGED <<pc, cur, exitFlag, outbuf>> /\ alive' \subseteq alive
  BY <1>0, <1>1 DEF Flushed, Fresh
<1>2. CASE Launch
  <2>1. /\ UNCHANGED <<outbuf, exitFlag>> /\ pc' \in {"select", "ended"}
        /\ alive' \subseteq Ends /\ \A c \in Ends : outbuf[c] = 0
    BY <1>0, <1>2 DEF Launch, Fresh, Goes, data, Ends
  <2>2. \A c \in alive' : ~(outbuf'[c] > 0)
    BY <2>1
  <2> QED BY <2>1, <2>2 DEF Flushed, Fresh
<1>3. CASE PushDone
  <2>1. /\ UNCHANGED <<data, alive, exitFlag>> /\ \A c \in Ends : ~Pushing(c)
    BY <1>3 DEF PushDone, outside
  <2> QED BY <1>3, <2>1, PushedOnFacts, StaysFlushed DEF PushDone
<1>4. CASE Poll \/ PollTimesOut \/ Test \/ ReadEnds \/ Exits \/ Configure
  <2>1. /\ UNCHANGED <<data, alive, exitFlag>> /\ pc \notin {"write", "flush"}
        /\ pc' # "launch" /\ (pc' # "read" \/ ~exitFlag)
    BY <1>4 DEF Poll, PollTimesOut, Test, ReadEnds, Exits, Configure, Goes, outside
  <2> QED BY <2>1, StaysFlushed
<1>5. CASE Push
  <2>1. /\ UNCHANGED <<pc, cur, exitFlag, alive>>
        /\ \A c \in Ends : outbuf'[c] \in 0..BuffSize /\ outbuf'[c] <= outbuf[c]
        /\ \A c \in Ends : outbuf[c] \in 0..BuffSize
    BY <1>0, <1>5, PushFacts DEF loop, outside, CountType
  <2>2. \A c \in Ends : outbuf'[c] > 0 => outbuf[c] > 0
    BY <2>1 DEF BuffSize
  <2>3. Fresh'
    BY <1>0, <2>1 DEF Fresh, BuffSize
  <2>4. Flushed'
    BY <1>0, <2>1, <2>2 DEF Flushed
  <2> QED BY <2>3, <2>4
<1>6. CASE Read
  <2>1. /\ pc = "read" /\ pc' = "write" /\ cur' = cur /\ cur \in Ends /\ alive' = alive
        /\ outbuf'[cur] = outbuf[cur]
    BY <1>6, ReadFacts DEF outside
  <2>2. cur \notin alive \/ ~(outbuf[cur] > 0)
    BY <1>0, <2>1 DEF Flushed
  <2> QED BY <1>0, <2>1, <2>2 DEF Flushed, Fresh, Ends, Other
<1>7. CASE Signal
  <2>1. /\ UNCHANGED <<data, alive>> /\ exitFlag' /\ pc \notin {"launch", "ended"}
    BY <1>7 DEF Signal
  <2>2. CASE PushedOn
    BY <2>1, <2>2, PushedOnFacts, StaysFlushed
  <2>3. CASE pc = "poll" /\ pc' = "test"
    BY <2>1, <2>3, StaysFlushed
  <2>4. CASE UNCHANGED <<pc, cur, at>>
    BY <1>0, <2>1, <2>4 DEF Flushed, Fresh, data
  <2> QED BY <1>7, <2>2, <2>3, <2>4 DEF Signal
<1>8. ASSUME NEW c \in Ends, Deliver(c) \/ Send(c) \/ Gone(c)
      PROVE  UNCHANGED <<pc, cur, exitFlag, outbuf>> /\ alive' \subseteq alive
  BY <1>8 DEF Deliver, Send, Gone, ThreadWaits, loop
<1>9. TakesUp \/ LinkUp \/ UNCHANGED vars
      => UNCHANGED <<pc, cur, exitFlag, outbuf>> /\ alive' \subseteq alive
  BY DEF TakesUp, LinkUp, ThreadWaits, loop, vars, data, outside
<1>a. CASE BrokenPipe
  <2>1. /\ UNCHANGED <<outbuf, alive, exitFlag>> /\ pc' = "ended"
        /\ Pushed = "peer" /\ "peer" \notin alive
    BY <1>a DEF BrokenPipe, Goes, data, outside
  <2>2. \A c \in alive : ~(pc \in {"write", "flush"} /\ c = Other(cur))
    BY <2>1 DEF Pushed
  <2> QED BY <1>0, <2>1, <2>2 DEF Flushed, Fresh
<1> QED BY <1>1, <1>2, <1>3, <1>4, <1>5, <1>6, <1>7, <1>8, <1>9, <1>a
        DEF Next, RelayStep, Outside

LEMMA Inductive == Spec => []IInv
<1>1. IInv /\ [Next]_vars => IInv'
  <2>1. CountType' /\ StateType' /\ OutsideType' => TypeOK'
    BY DEF TypeOK, CountType, StateType, OutsideType
  <2> QED BY <2>1, CountsKept, StateKept, OutsideKept, FlushedKept DEF IInv
<1> QED BY InitFacts, <1>1, PTL DEF Spec

\* For any bounds every variable of the relay keeps its type: no buffer is read
\* beyond its size, whatever arrives while a stream waits (STREAMReadBytes).
THEOREM TypeCorrect == Spec => []TypeOK
BY Inductive, PTL DEF IInv

-------------------------------------------------------------------------------
(* What is on its way between the ends.                                        *)

Kept(c) ==
    Other(c) \in alive /\ InFlight(c)' < InFlight(c) => sent'[Other(c)] < sent[Other(c)]

LEMMA StepKeeps ==
  ASSUME IInv, [Next]_vars, NEW c \in Ends
  PROVE  Kept(c)
<1>0. /\ Other(c) \in Ends /\ CountType /\ CountType'
      /\ Other(Other(c)) = c /\ Other(c) # c
  BY OtherFacts, CountsKept DEF IInv, TypeOK, CountType
<1>1. /\ recv[c] \in Nat /\ inbuf[c] \in Nat /\ outbuf[Other(c)] \in Nat
      /\ sent[Other(c)] \in Nat
      /\ recv'[c] \in Nat /\ inbuf'[c] \in Nat /\ outbuf'[Other(c)] \in Nat
      /\ sent'[Other(c)] \in Nat
  BY <1>0, BoundsAssumption DEF CountType, BuffSize
<1>2. CASE UNCHANGED data
  BY <1>1, <1>2 DEF Kept, InFlight, data
<1>3. CASE Push
  BY <1>0, <1>1, <1>3, PushFacts DEF Kept, InFlight
<1>4. CASE Read
  <2>1. CASE c = cur
    BY <1>0, <1>1, <1>4, <2>1, ReadFacts DEF Kept, InFlight
  <2>2. CASE c = Other(cur)
    <3>1. cur \in Ends /\ Other(cur) = c /\ Other(c) = cur
      BY <1>4, <2>2, ReadFacts, OtherFacts
    <3>2. recv'[c] = recv[c] /\ inbuf'[c] = inbuf[c] /\ outbuf'[cur] = outbuf[cur] /\ sent' = sent
      BY <1>4, <3>1, ReadFacts
    <3> QED BY <1>1, <3>1, <3>2 DEF Kept, InFlight
  <2> QED BY <1>4, <2>1, <2>2, ReadFacts DEF Ends, Other
<1>5. ASSUME NEW d \in Ends, Deliver(d) PROVE Kept(c)
  <2>1. CASE d = Other(c)
    BY <1>0, <1>1, <1>5, <2>1 DEF Kept, Deliver, CountType
  <2>2. CASE d # Other(c)
    BY <1>0, <1>1, <1>5, <2>2 DEF Kept, Deliver, InFlight, ThreadWaits, CountType
  <2> QED BY <2>1, <2>2
<1>6. ASSUME NEW d \in Ends, Send(d) PROVE Kept(c)
  <2>1. recv'[c] >= recv[c]
    BY <1>0, <1>1, <1>6 DEF Send, CountType
  <2>2. UNCHANGED <<inbuf, outbuf, sent>>
    BY <1>6 DEF Send, ThreadWaits
  <2> QED BY <1>1, <2>1, <2>2 DEF Kept, InFlight
<1>7. ASSUME NEW d \in Ends, Gone(d) PROVE UNCHANGED data
  BY <1>7 DEF Gone, ThreadWaits, data
<1>8. \/ TakesUp \/ LinkUp \/ Signal \/ Launch \/ PushDone \/ BrokenPipe \/ Poll \/ PollTimesOut
      \/ Test \/ ReadEnds \/ Exits \/ Configure \/ UNCHANGED vars
      => UNCHANGED data
  BY DEF TakesUp, LinkUp, Signal, Launch, PushDone, BrokenPipe, Poll, PollTimesOut, Test,
         ReadEnds, Exits, Configure, ThreadWaits, Goes, data, vars
<1> QED BY <1>2, <1>3, <1>4, <1>5, <1>6, <1>7, <1>8 DEF Next, RelayStep, Outside

\* For any bounds what one end sent leaves PPPDProcess only at the other end,
\* while that lives: nobody need look at the results of STREAMWriteBytes.
THEOREM NothingIsLost == Spec => NothingLost
<1>1. IInv /\ [Next]_vars =>
        [\A c \in Ends : Other(c) \in alive /\ InFlight(c)' < InFlight(c) =>
            sent'[Other(c)] < sent[Other(c)]]_vars
  BY StepKeeps DEF Kept
<1> QED BY <1>1, Inductive, PTL DEF Spec, NothingLost

===============================================================================
