-------------------------- MODULE SSLServerProofs --------------------------
(***************************************************************************)
(* Proofs about the ppp-over-TLS server, for any set of clients, any       *)
(* '-auth' method and any bound.                                           *)
(*                                                                         *)
(* NoDangling and NoLeak are not inductive: that the pass which closes a   *)
(* couple takes both of its streams out of the list needs the list to hold *)
(* no stream twice, and that a stream just accepted is in no couple yet    *)
(* needs to know where the accepted connections came from.  Couples adds   *)
(* this, Buffers what the units under way need, and Connected what makes   *)
(* the server implement Connection for each of its clients.                *)
(***************************************************************************)
EXTENDS SSLServer, SSLAuthProofs, TLAPS

Holds(list, s) == \E i \in DOMAIN list : list[i] = s
NoRepeat(list) == \A i, j \in DOMAIN list : list[i] = list[j] /\ list[i] # Null => i = j

\* No stream is in the list twice (NULL items may be)
Distinct == NoRepeat(conns)

ListedOpen == \A s \in Ends : Listed(s) => stream[s] = "open"

\* A client is coupled to its own pppd or to nothing, and a couple is listed
Mutual ==
  \A s \in Ends : peer[s] # Null =>
    /\ peer[s] \in Ends /\ Listed(s) /\ Listed(peer[s])
    /\ peer[peer[s]] = s /\ Owner(peer[s]) = Owner(s) /\ peer[s] # s

Accepting == pc \in {"negotiate", "auth", "launch"}

\* The connection being accepted is open, and not yet in any list or couple
Hand == Accepting => \E c \in Clients :
          /\ cur = Client(c) /\ stream[Client(c)] = "open" /\ ~Listed(Client(c))
          /\ stream[Pppd(c)] # "open"

\* STREAMSelect returns streams of the list
Handled == pc = "handle" => /\ Listed(cur) /\ cur # Null
                            /\ cur = Server => backlog # <<>>

\* A connection in the backlog has no streams, and is there once
Queue ==
  /\ \A i \in DOMAIN backlog : /\ stream[Client(backlog[i])] = "none"
                               /\ stream[Pppd(backlog[i])] = "none"
  /\ \A i, j \in DOMAIN backlog : backlog[i] = backlog[j] => i = j

Idle == \A c \in Clients : dial[c] = "idle" =>
          /\ stream[Client(c)] = "none" /\ stream[Pppd(c)] = "none"
          /\ \A i \in DOMAIN backlog : backlog[i] # c


----------------------------------------------------------------------------
(* Streams and lists *)

\* The two streams of every client, the listening stream and NULL are all
\* different (the descriptors SSLServer tells apart by their addresses).
LEMMA EndsFacts ==
  /\ \A c \in Clients : /\ Client(c) \in Ends /\ Pppd(c) \in Ends
                        /\ Owner(Client(c)) = c /\ Owner(Pppd(c)) = c
                        /\ Client(c) # Pppd(c)
  /\ \A s \in Ends : Owner(s) \in Clients /\ (s = Client(Owner(s)) \/ s = Pppd(Owner(s)))
  /\ Server \notin Ends /\ Null \notin Ends /\ Server # Null
  /\ Items = Ends \union {Server, Null}
BY DEF Ends, Client, Pppd, Owner, Server, Null, Items

\* ListDeleteItem takes the one node of an item out of a list that holds it once
\* and leaves every other item in it.
LEMMA WithoutFacts ==
  ASSUME NEW list \in Seq(Items), NEW s \in Items, NoRepeat(list)
  PROVE  /\ Without(list, s) \in Seq(Items)
         /\ NoRepeat(Without(list, s))
         /\ \A t : t # s \/ t = Null => (Holds(Without(list, s), t) <=> Holds(list, t))
         /\ s # Null => ~Holds(Without(list, s), s)
<1> DEFINE holds(i) == list[i] = s /\ s # Null
<1>1. CASE ~\E i \in DOMAIN list : holds(i)
  <2>1. Without(list, s) = list
    BY <1>1 DEF Without
  <2> QED BY <2>1, <1>1 DEF Holds
<1>2. CASE \E i \in DOMAIN list : holds(i)
  <2> DEFINE n == CHOOSE i \in DOMAIN list : holds(i) /\ \A j \in 1..(i-1) : ~holds(j)
             W == [i \in 1..(Len(list) - 1) |-> IF i < n THEN list[i] ELSE list[i + 1]]
  <2>1. \E i \in DOMAIN list : holds(i) /\ \A j \in 1..(i-1) : ~holds(j)
    BY <1>2 DEF NoRepeat
  <2>2. n \in DOMAIN list /\ list[n] = s /\ s # Null
    BY <2>1
  <2>3. Without(list, s) = W
    BY <1>2 DEF Without
  <2>4. n \in 1..Len(list) /\ Len(list) \in Nat /\ \A i \in 1..Len(list) : list[i] \in Items
    BY <2>2
  <2> HIDE DEF n
  <2>5. W \in Seq(Items)
    BY <2>4
  <2>6. DOMAIN W = 1..(Len(list) - 1)
    OBVIOUS
  <2>7. NoRepeat(W)
    BY <2>2, <2>4, <2>6 DEF NoRepeat
  <2>8. \A t : t # s => (Holds(W, t) <=> Holds(list, t))
    <3> SUFFICES ASSUME NEW t, t # s PROVE Holds(W, t) <=> Holds(list, t)
      OBVIOUS
    <3>1. Holds(W, t) => Holds(list, t)
      BY <2>4, <2>6 DEF Holds
    <3>2. ASSUME NEW i \in DOMAIN list, list[i] = t PROVE Holds(W, t)
      <4>1. CASE i < n
        BY <4>1, <3>2, <2>2, <2>4, <2>6 DEF Holds
      <4>2. CASE i > n
        <5>1. i - 1 \in 1..(Len(list) - 1) /\ ~(i - 1 < n) /\ (i - 1) + 1 = i
          BY <4>2, <2>4
        <5> QED BY <5>1, <3>2, <2>6 DEF Holds
      <4> QED BY <4>1, <4>2, <3>2, <2>2, <2>4
    <3> QED BY <3>1, <3>2 DEF Holds
  <2>9. ~Holds(W, s)
    BY <2>2, <2>4, <2>6 DEF Holds, NoRepeat
  <2> QED BY <2>2, <2>3, <2>5, <2>7, <2>8, <2>9
<1> QED BY <1>1, <1>2

----------------------------------------------------------------------------
(* Types *)

\* Taking a node out of a list leaves a list of streams, whatever the list.
LEMMA WithoutType ==
  ASSUME NEW list \in Seq(Items), NEW s PROVE Without(list, s) \in Seq(Items)
BY DEF Without

\* What a flush leaves in the output buffers and on the way is of the right type.
LEMMA FlushType ==
  ASSUME TypeOK, NEW S \in SUBSET Ends
  PROVE  /\ Flushed(S, outbuf) \in [Ends -> 0..OutBuffSize]
         /\ Arrived(S, outbuf, transit) \in [Ends -> Int]
<1>1. Flushed(S, outbuf) \in [Ends -> 0..OutBuffSize]
  BY DEF TypeOK, Flushed, OutBuffSize
<1>2. Arrived(S, outbuf, transit) \in [Ends -> Int]
  <2> SUFFICES ASSUME NEW s \in Ends
               PROVE  (IF stream[s] = "open" /\ peer[s] \in S /\ Alive(peer[s])
                       THEN transit[s] - outbuf[peer[s]] ELSE transit[s]) \in Int
    BY DEF Arrived
  <2>1. transit[s] \in Int /\ \A t \in Ends : outbuf[t] \in Int
    BY DEF TypeOK, OutBuffSize
  <2> QED BY <2>1
<1> QED BY <1>1, <1>2


\* TypeOK in three parts: the loop and its pairs, what is known of each client,
\* and the data.
LoopType ==
  /\ pc \in {"check", "flush", "wait", "handle", "negotiate", "auth", "launch",
             "reap", "done"}
  /\ cur \in Items /\ conns \in Seq(Items)
  /\ stream \in [Ends -> {"none", "open", "closed"}]
  /\ peer \in [Ends -> Ends \union {Null}]
ClientType ==
  /\ exitFlag \in BOOLEAN /\ backlog \in Seq(Clients)
  /\ dial \in [Clients -> {"idle", "dialling", "up", "gone"}]
  /\ cred \in [Clients -> Credentials]
  /\ proc \in [Clients -> {"none", "running", "exited", "reaped"}]
  /\ remoteAddr \in 0..254 /\ addr \in [Clients -> 0..254]
DataType ==
  /\ inbox \in [Ends -> 0..InMax] /\ noise \in [Clients -> BOOLEAN]
  /\ inbuf \in [Ends -> 0..BuffSize]
  /\ outbuf \in [Ends -> 0..OutBuffSize] /\ transit \in [Ends -> Int]

LEMMA TypeParts == TypeOK <=> LoopType /\ ClientType /\ DataType
BY DEF TypeOK, LoopType, ClientType, DataType

LEMMA LoopTypeStep == TypeOK /\ [Next]_vars => LoopType'
<1> SUFFICES ASSUME LoopType, ClientType, [Next]_vars PROVE LoopType'
  BY TypeParts
<1> USE EndsFacts DEF LoopType, ClientType, loopVars, pairVars
<1>1. CASE LoopCheck \/ BrokenPipe
  BY <1>1 DEF LoopCheck, BrokenPipe
<1>2. CASE FlushAndReturn
  BY <1>2 DEF FlushAndReturn
<1>3. CASE FlushAndWait
  BY <1>3 DEF FlushAndWait
<1>4. CASE Wake
  <2> PICK i \in DOMAIN conns :
         cur' = conns[i] /\ conns' = Append(Without(conns, conns[i]), conns[i])
    BY <1>4 DEF Wake
  <2>1. conns[i] \in Items
    OBVIOUS
  <2>2. Without(conns, conns[i]) \in Seq(Items)
    BY <2>1, WithoutType
  <2>3. conns' \in Seq(Items) /\ cur' \in Items
    BY <2>1, <2>2
  <2> QED BY <2>3, <1>4 DEF Wake
<1>5. CASE Reap
  BY <1>5 DEF Reap
<1>6. CASE Accept
  <2> DEFINE c == Head(backlog)
  <2>1. c \in Clients
    BY <1>6 DEF Accept
  <2> HIDE DEF c
  <2>2. /\ cur' = Client(c) /\ stream' = [stream EXCEPT ![Client(c)] = "open"]
        /\ pc' = "negotiate" /\ UNCHANGED <<conns, peer>>
    BY <1>6 DEF Accept, c
  <2> QED BY <2>1, <2>2
<1>7. ASSUME NEW c \in Clients, Refuse(c) PROVE LoopType'
  BY <1>7 DEF Refuse, Freed
<1>8. ASSUME NEW c \in Clients, Admit(c) PROVE LoopType'
  BY <1>8 DEF Admit
<1>9. ASSUME NEW c \in Clients, Launch(c) PROVE LoopType'
  BY <1>9 DEF Launch
<1>10. ASSUME NEW c \in Clients, LaunchFailed(c) PROVE LoopType'
  BY <1>10 DEF LaunchFailed
<1>11. ASSUME NEW s \in Ends, Relay(s) PROVE LoopType'
  BY <1>11 DEF Relay
<1>12. ASSUME NEW s \in Ends, Disconnect(s) PROVE LoopType'
  BY <1>12, WithoutType DEF Disconnect, Shutdown, Freed
<1>13. ASSUME NEW c \in Clients, Dial(c) PROVE LoopType'
  BY <1>13 DEF Dial
<1>14. ASSUME NEW c \in Clients, HangUp(c) \/ Noise(c) \/ PppdExit(c) PROVE LoopType'
  BY <1>14 DEF HangUp, Noise, PppdExit
<1>15. ASSUME NEW c \in Clients, NegotiationDone(c) \/ NegotiationFailed(c) PROVE LoopType'
  BY <1>15 DEF NegotiationDone, NegotiationFailed, Negotiated
<1>16. ASSUME NEW s \in Ends, Send(s) PROVE LoopType'
  BY <1>16 DEF Send
<1>17. CASE Signal
  BY <1>17 DEF Signal
<1>18. CASE UNCHANGED vars
  BY <1>18 DEF vars
<1> QED BY <1>1, <1>2, <1>3, <1>4, <1>5, <1>6, <1>7, <1>8, <1>9, <1>10, <1>11, <1>12,
           <1>13, <1>14, <1>15, <1>16, <1>17, <1>18
        DEF Next, ServerStep, AcceptStep, ClientStep

LEMMA FindNextIPType == FindNextIP \in 0..254
<1>1. CASE \E a \in FirstAddr..LastAddr : LowestFree(a)
  <2>1. FindNextIP \in FirstAddr..LastAddr
    BY <1>1 DEF FindNextIP
  <2> QED BY <2>1 DEF FirstAddr, LastAddr
<1>2. CASE ~\E a \in FirstAddr..LastAddr : LowestFree(a)
  <2>1. FindNextIP = 0
    BY <1>2 DEF FindNextIP, NoAddr
  <2> QED BY <2>1
<1> QED BY <1>1, <1>2

\* A member of a function's type stays one when one value is replaced.
LEMMA OneReplaced ==
  ASSUME NEW S, NEW T, NEW f \in [S -> T], NEW a, NEW v \in T
  PROVE  [f EXCEPT ![a] = v] \in [S -> T]
OBVIOUS

LEMMA ClientTypeStep == TypeOK /\ [Next]_vars => ClientType'
<1> SUFFICES ASSUME ClientType, [Next]_vars PROVE ClientType'
  BY TypeParts
<1> DEFINE known == <<exitFlag, backlog, dial, cred, proc, remoteAddr, addr>>
<1>a. ASSUME UNCHANGED known PROVE ClientType'
  BY <1>a DEF ClientType
<1>b. NoCredential(FALSE) \in Credentials
  BY DEF NoCredential, Credentials
<1>1. CASE LoopCheck \/ BrokenPipe
  BY <1>1, <1>a DEF LoopCheck, BrokenPipe, pairVars, envVars
<1>2. CASE FlushAndReturn
  BY <1>2, <1>a DEF FlushAndReturn, pairVars, envVars
<1>3. CASE FlushAndWait
  BY <1>3, <1>a DEF FlushAndWait, pairVars, envVars
<1>4. CASE Wake
  BY <1>4, <1>a DEF Wake, pairVars, envVars
<1>5. CASE Reap
  <2>1. UNCHANGED <<exitFlag, backlog, dial, cred, remoteAddr, addr>>
    BY <1>5 DEF Reap, pairVars
  <2>2. proc' = proc \/ \E c \in Clients : proc' = [proc EXCEPT ![c] = "reaped"]
    BY <1>5 DEF Reap, Zombies
  <2> QED BY <2>1, <2>2, OneReplaced DEF ClientType
<1>6. CASE Accept
  <2>1. UNCHANGED <<exitFlag, dial, cred, proc, remoteAddr, addr>>
    BY <1>6 DEF Accept
  <2>2. backlog' = Tail(backlog) /\ backlog # <<>>
    BY <1>6 DEF Accept
  <2> QED BY <2>1, <2>2 DEF ClientType
<1>7. ASSUME NEW c \in Clients, Refuse(c) PROVE ClientType'
  BY <1>7, <1>a DEF Refuse, envVars
<1>8. ASSUME NEW c \in Clients, Admit(c) PROVE ClientType'
  <2>1. UNCHANGED <<exitFlag, backlog, dial, cred, proc, addr>>
    BY <1>8 DEF Admit, envVars
  <2>2. remoteAddr' \in 0..254
    BY <1>8, FindNextIPType DEF Admit
  <2> QED BY <2>1, <2>2 DEF ClientType
<1>9. ASSUME NEW c \in Clients, Launch(c) PROVE ClientType'
  <2>1. UNCHANGED <<exitFlag, backlog, dial, cred, remoteAddr>>
    BY <1>9 DEF Launch
  <2>2. /\ proc' = [proc EXCEPT ![c] = "running"]
        /\ addr' = [addr EXCEPT ![c] = remoteAddr]
    BY <1>9 DEF Launch
  <2> QED BY <2>1, <2>2, OneReplaced DEF ClientType
<1>10. ASSUME NEW c \in Clients, LaunchFailed(c) PROVE ClientType'
  BY <1>10, <1>a DEF LaunchFailed, envVars
<1>11. ASSUME NEW s \in Ends, Relay(s) PROVE ClientType'
  BY <1>11, <1>a DEF Relay, pairVars, envVars
<1>12. ASSUME NEW s \in Ends, Disconnect(s) PROVE ClientType'
  BY <1>12, <1>a DEF Disconnect, envVars
<1>13. ASSUME NEW c \in Clients, Dial(c) PROVE ClientType'
  <2>1. UNCHANGED <<exitFlag, remoteAddr>>
    BY <1>13 DEF Dial
  <2>2. backlog' = Append(backlog, c)
    BY <1>13 DEF Dial
  <2>3. /\ dial' = [dial EXCEPT ![c] = "dialling"]
        /\ cred' = [cred EXCEPT ![c] = NoCredential(FALSE)]
        /\ proc' = [proc EXCEPT ![c] = "none"]
    BY <1>13 DEF Dial
  <2>4. addr' = [addr EXCEPT ![c] = 0]
    BY <1>13 DEF Dial, NoAddr
  <2>5. dial' \in [Clients -> {"idle", "dialling", "up", "gone"}]
    BY <2>3 DEF ClientType
  <2>6. cred' \in [Clients -> Credentials]
    BY <2>3, <1>b, OneReplaced DEF ClientType
  <2>7. proc' \in [Clients -> {"none", "running", "exited", "reaped"}]
    BY <2>3 DEF ClientType
  <2>8. addr' \in [Clients -> 0..254]
    BY <2>4 DEF ClientType
  <2> QED BY <2>1, <2>2, <2>5, <2>6, <2>7, <2>8 DEF ClientType
<1>14. ASSUME NEW c \in Clients, HangUp(c) PROVE ClientType'
  <2>1. UNCHANGED <<exitFlag, backlog, cred, proc, remoteAddr, addr>>
    BY <1>14 DEF HangUp, pairVars
  <2>2. dial' = [dial EXCEPT ![c] = "gone"]
    BY <1>14 DEF HangUp
  <2> QED BY <2>1, <2>2 DEF ClientType
<1>15. ASSUME NEW c \in Clients, Noise(c) PROVE ClientType'
  BY <1>15, <1>a DEF Noise, pairVars, envVars
<1>16. ASSUME NEW c \in Clients, PppdExit(c) PROVE ClientType'
  <2>1. UNCHANGED <<exitFlag, backlog, dial, cred, remoteAddr, addr>>
    BY <1>16 DEF PppdExit, pairVars
  <2>2. proc' = [proc EXCEPT ![c] = "exited"]
    BY <1>16 DEF PppdExit
  <2> QED BY <2>1, <2>2 DEF ClientType
<1>17. ASSUME NEW c \in Clients, NegotiationDone(c) PROVE ClientType'
  <2>1. UNCHANGED <<exitFlag, backlog, proc, remoteAddr, addr>>
    BY <1>17 DEF NegotiationDone
  <2>2. dial' = [dial EXCEPT ![c] = "up"]
    BY <1>17 DEF NegotiationDone
  <2>3. \E k \in Credentials : cred' = [cred EXCEPT ![c] = k]
    BY <1>17, CredsAssumption DEF NegotiationDone, Negotiated
  <2> QED BY <2>1, <2>2, <2>3 DEF ClientType
<1>18. ASSUME NEW c \in Clients, NegotiationFailed(c) PROVE ClientType'
  <2>1. UNCHANGED <<exitFlag, backlog, dial, proc, remoteAddr, addr>>
    BY <1>18 DEF NegotiationFailed, envVars
  <2>2. cred' = [cred EXCEPT ![c] = NoCredential(FALSE)]
    BY <1>18 DEF NegotiationFailed, Negotiated
  <2> QED BY <2>1, <2>2, <1>b DEF ClientType
<1>19. ASSUME NEW s \in Ends, Send(s) PROVE ClientType'
  BY <1>19, <1>a DEF Send, pairVars, envVars
<1>20. CASE Signal
  <2>1. UNCHANGED <<backlog, dial, cred, proc, remoteAddr, addr>> /\ exitFlag' = TRUE
    BY <1>20 DEF Signal, pairVars
  <2> QED BY <2>1 DEF ClientType
<1>21. CASE UNCHANGED vars
  BY <1>21, <1>a DEF vars, pairVars, envVars
<1> QED BY <1>1, <1>2, <1>3, <1>4, <1>5, <1>6, <1>7, <1>8, <1>9, <1>10, <1>11, <1>12,
           <1>13, <1>14, <1>15, <1>16, <1>17, <1>18, <1>19, <1>20, <1>21
        DEF Next, ServerStep, AcceptStep, ClientStep

LEMMA DataTypeStep == TypeOK /\ [Next]_vars => DataType'
<1> SUFFICES ASSUME TypeOK, DataType, [Next]_vars PROVE DataType'
  BY TypeParts
<1> USE EndsFacts, InMaxAssumption DEF DataType, dataVars, BuffSize, OutBuffSize
<1>1. ASSUME UNCHANGED dataVars PROVE DataType'
  BY <1>1
<1>2. ASSUME NEW S \in SUBSET Ends, outbuf' = Flushed(S, outbuf),
             transit' = Arrived(S, outbuf, transit), UNCHANGED <<inbox, noise, inbuf>>
      PROVE  DataType'
  BY <1>2, FlushType
<1>3. ASSUME NEW n, FlushTo(n), UNCHANGED <<inbox, noise, inbuf>> PROVE DataType'
  BY <1>3, <1>2, {s \in Ends : \E i \in 1..n : conns[i] = s} \in SUBSET Ends DEF FlushTo
<1>11. CASE FlushAndReturn \/ FlushAndWait
  BY <1>11, <1>3 DEF FlushAndReturn, FlushAndWait
<1>4. ASSUME NEW S, Freed(S)
      PROVE  inbox' \in [Ends -> 0..InMax] /\ noise' \in [Clients -> BOOLEAN]
             /\ inbuf' \in [Ends -> 0..BuffSize]
  <2>1. inbox' \in [Ends -> 0..InMax] /\ inbuf' \in [Ends -> 0..BuffSize]
    BY <1>4 DEF Freed
  <2>2. noise' = [c \in Clients |-> IF Client(c) \in S THEN FALSE ELSE noise[c]]
    BY <1>4 DEF Freed
  <2>3. noise' \in [Clients -> BOOLEAN]
    BY <2>2
  <2> QED BY <2>1, <2>3
<1>5. ASSUME NEW c \in Clients, Refuse(c) PROVE DataType'
  BY <1>5, <1>4 DEF Refuse
<1>6. ASSUME NEW s \in Ends, Relay(s) PROVE DataType'
  <2>1. inbox' \in [Ends -> 0..InMax] /\ inbuf' \in [Ends -> 0..BuffSize]
    BY <1>6 DEF Relay, TakeUnit
  <2>2. peer[s] \in Ends
    BY <1>6, TypeParts DEF Relay, LoopType
  <2>3. outbuf' \in [Ends -> 0..OutBuffSize] /\ transit' \in [Ends -> Int]
    BY <1>6, <2>2 DEF Relay, PutUnit
  <2> QED BY <1>6, <2>1, <2>3 DEF Relay
<1>7. ASSUME NEW s \in Ends, Disconnect(s) PROVE DataType'
  <2> DEFINE S == {s, peer[s]} \intersect Ends
  <2>1. Freed(S) /\ transit' = Arrived(S, outbuf, transit)
        /\ outbuf' = [t \in Ends |-> IF t \in S THEN 0 ELSE outbuf[t]]
    BY <1>7 DEF Disconnect, Shutdown
  <2>2. S \in SUBSET Ends
    OBVIOUS
  <2> HIDE DEF S
  <2>3. transit' \in [Ends -> Int]
    BY <2>1, <2>2, FlushType
  <2>4. outbuf' \in [Ends -> 0..OutBuffSize]
    BY <2>1
  <2> QED BY <2>1, <2>3, <2>4, <1>4
<1>8. ASSUME NEW c \in Clients, Dial(c) PROVE DataType'
  BY <1>8 DEF Dial
<1>9. ASSUME NEW c \in Clients, Noise(c) PROVE DataType'
  BY <1>9 DEF Noise
<1>10. ASSUME NEW s \in Ends, Send(s) PROVE DataType'
  BY <1>10 DEF Send
<1> QED BY <1>1, <1>5, <1>6, <1>7, <1>8, <1>9, <1>10, <1>11
        DEF Next, ServerStep, AcceptStep, ClientStep, LoopCheck, BrokenPipe, Wake, Reap,
            Accept, Admit, Launch, LaunchFailed, HangUp, PppdExit, NegotiationDone,
            NegotiationFailed, Signal, vars

\* The state SSLServer starts in is of the right type.
LEMMA InitType == Init => TypeOK
<1> SUFFICES ASSUME Init PROVE LoopType /\ ClientType /\ DataType
  BY TypeParts
<1>1. Server \in Items /\ Null \in Items
  BY EndsFacts
<1>2. LoopType
  BY <1>1 DEF Init, LoopType
<1>3. NoCredential(FALSE) \in Credentials
  BY DEF NoCredential, Credentials
<1>4. ClientType
  <2>1. cred \in [Clients -> Credentials]
    BY <1>3 DEF Init
  <2>2. remoteAddr \in 0..254 /\ addr \in [Clients -> 0..254]
    BY AddrAssumption DEF Init, NoAddr
  <2>3. exitFlag \in BOOLEAN
    BY DEF Init
  <2>4. <<>> \in Seq(Clients)
    OBVIOUS
  <2>5. backlog \in Seq(Clients)
    BY <2>4 DEF Init
  <2>6. /\ dial \in [Clients -> {"idle", "dialling", "up", "gone"}]
        /\ proc \in [Clients -> {"none", "running", "exited", "reaped"}]
    BY DEF Init
  <2> QED BY <2>1, <2>2, <2>3, <2>5, <2>6 DEF ClientType
<1>5. DataType
  BY InMaxAssumption DEF Init, DataType, BuffSize, OutBuffSize
<1> QED BY <1>2, <1>4, <1>5

\* A step of the server or of what surrounds it keeps the types.
LEMMA TypeStep == TypeOK /\ [Next]_vars => TypeOK'
BY LoopTypeStep, ClientTypeStep, DataTypeStep DEF TypeOK, LoopType, ClientType, DataType

\* The variables of the server keep their types: every buffer its bound, every
\* list and Peer item streams the server has.
THEOREM TypeCorrect == Spec => []TypeOK
BY InitType, TypeStep, PTL DEF Spec

----------------------------------------------------------------------------
(* The list under its operations *)

\* STREAMSelect's move of a node to the end of the list keeps what is in it.
LEMMA RequeueFacts ==
  ASSUME NEW list \in Seq(Items), NEW s \in Items, s # Null, NoRepeat(list), Holds(list, s)
  PROVE  LET moved == Append(Without(list, s), s)
         IN  NoRepeat(moved) /\ \A t : Holds(moved, t) <=> Holds(list, t)
<1> DEFINE W == Without(list, s)
<1>1. /\ W \in Seq(Items) /\ NoRepeat(W) /\ ~Holds(W, s)
      /\ \A t : t # s => (Holds(W, t) <=> Holds(list, t))
  BY WithoutFacts
<1> HIDE DEF W
<1>2. NoRepeat(Append(W, s))
  BY <1>1 DEF NoRepeat, Holds
<1>3. \A t : Holds(Append(W, s), t) <=> Holds(W, t) \/ t = s
  <2> TAKE t
  <2>1. Len(Append(W, s)) = Len(W) + 1 /\ Append(W, s)[Len(W) + 1] = s
        /\ \A i \in 1..Len(W) : Append(W, s)[i] = W[i]
    BY <1>1
  <2>2. DOMAIN Append(W, s) = 1..(Len(W) + 1) /\ DOMAIN W = 1..Len(W) /\ Len(W) \in Nat
    BY <1>1
  <2> QED BY <2>1, <2>2 DEF Holds
<1> QED BY <1>1, <1>3, <1>2 DEF W

\* SSLAcceptClient's two ListAddItem put two new items after the others.
LEMMA AppendFacts ==
  ASSUME NEW list \in Seq(Items), NEW a \in Items, NEW b \in Items
  PROVE  LET longer == list \o <<a, b>>
         IN  /\ \A t : Holds(longer, t) <=> Holds(list, t) \/ t = a \/ t = b
             /\ NoRepeat(list) /\ a # b /\ (a # Null => ~Holds(list, a)) /\ ~Holds(list, b)
                  => NoRepeat(longer)
<1> DEFINE L == list \o <<a, b>>
<1>1. /\ Len(list) \in Nat /\ DOMAIN list = 1..Len(list)
      /\ DOMAIN L = 1..(Len(list) + 2)
      /\ \A i \in 1..Len(list) : L[i] = list[i]
      /\ L[Len(list) + 1] = a /\ L[Len(list) + 2] = b
  OBVIOUS
<1> HIDE DEF L
<1>2. \A t : Holds(L, t) <=> Holds(list, t) \/ t = a \/ t = b
  BY <1>1 DEF Holds
<1>3. ASSUME NoRepeat(list), a # b, a # Null => ~Holds(list, a), ~Holds(list, b)
      PROVE  NoRepeat(L)
  <2> SUFFICES ASSUME NEW i \in DOMAIN L, NEW j \in DOMAIN L, L[i] = L[j], L[i] # Null, i < j
               PROVE  FALSE
    BY <1>1 DEF NoRepeat
  <2>1. CASE j \in 1..Len(list)
    BY <2>1, <1>1, <1>3 DEF NoRepeat
  <2>2. CASE j = Len(list) + 1
    BY <2>2, <1>1, <1>3 DEF Holds
  <2>3. CASE j = Len(list) + 2
    BY <2>3, <1>1, <1>3 DEF Holds
  <2> QED BY <2>1, <2>2, <2>3, <1>1
<1> QED BY <1>2, <1>3 DEF L

----------------------------------------------------------------------------
(* The invariant *)

\* The inductive invariant, with TypeOK
Couples == Distinct /\ ListedOpen /\ Mutual /\ NoLeak /\ Hand /\ Handled /\ Queue /\ Idle

\* A step that leaves the streams, the list and the clients alone needs only to
\* say where the loop has got to.
LEMMA QuietStep ==
  ASSUME Couples, UNCHANGED <<conns, stream, peer, backlog>>,
         \A c \in Clients : dial'[c] = "idle" => dial[c] = "idle",
         ~Accepting \/ (Accepting' /\ UNCHANGED cur),
         Accepting' => Accepting /\ UNCHANGED cur,
         Handled'
  PROVE  Couples'
<1>1. Distinct' /\ ListedOpen' /\ Mutual' /\ Queue'
  BY DEF Couples, Distinct, NoRepeat, ListedOpen, Mutual, Queue, Listed
<1>2. Idle'
  BY DEF Couples, Idle
<1>3. NoLeak' /\ Hand'
  BY DEF Couples, NoLeak, Hand, InHand, Accepting, Listed
<1> QED BY <1>1, <1>2, <1>3 DEF Couples

\* SIGINT and the passes of the loop that look at no stream keep the couples.
LEMMA LoopStep ==
  ASSUME TypeOK, Couples,
         LoopCheck \/ BrokenPipe \/ FlushAndReturn \/ FlushAndWait \/ Reap \/ Signal
  PROVE  Couples'
<1>1. CASE LoopCheck
  <2>1. Handled' /\ ~Accepting /\ ~Accepting'
    BY <1>1 DEF LoopCheck, Handled, Accepting
  <2> QED BY <1>1, <2>1, QuietStep DEF LoopCheck, pairVars, envVars
<1>2. CASE FlushAndReturn
  <2>1. PICK i \in DOMAIN conns : Buffered(conns[i]) /\ cur' = conns[i]
    BY <1>2 DEF FlushAndReturn
  <2>2. cur' \in Ends /\ Listed(cur')
    BY <2>1 DEF Buffered, Listed
  <2>3. Handled' /\ ~Accepting /\ ~Accepting'
    BY <1>2, <2>2, EndsFacts DEF FlushAndReturn, Handled, Accepting, Listed
  <2> QED BY <1>2, <2>3, QuietStep DEF FlushAndReturn, pairVars, envVars
<1>3. CASE FlushAndWait
  <2>1. Handled' /\ ~Accepting /\ ~Accepting'
    BY <1>3 DEF FlushAndWait, Handled, Accepting
  <2> QED BY <1>3, <2>1, QuietStep DEF FlushAndWait, pairVars, envVars
<1>4. CASE Reap
  <2>1. Handled' /\ ~Accepting /\ ~Accepting'
    BY <1>4 DEF Reap, Handled, Accepting
  <2> QED BY <1>4, <2>1, QuietStep DEF Reap, pairVars
<1>5. CASE Signal
  <2>1. Handled' /\ (Accepting <=> Accepting')
    BY <1>5 DEF Signal, Couples, Handled, Accepting, Listed
  <2> QED BY <1>5, <2>1, QuietStep DEF Signal, pairVars
<1>6. CASE BrokenPipe
  <2>1. pc \in {"flush", "handle"} /\ pc' = "done" /\ UNCHANGED <<conns, pairVars, envVars>>
    BY <1>6 DEF BrokenPipe, WritesTo
  <2>2. Handled' /\ ~Accepting /\ ~Accepting'
    BY <2>1 DEF Handled, Accepting
  <2> QED BY <2>1, <2>2, QuietStep DEF pairVars, envVars
<1> QED BY <1>1, <1>2, <1>3, <1>4, <1>5, <1>6

\* Data, and what the clients and their pppd do by themselves, change no couple.
LEMMA PeersStep ==
  ASSUME TypeOK, Couples,
         \/ \E s \in Ends : Relay(s) \/ Send(s)
         \/ \E c \in Clients : HangUp(c) \/ Noise(c) \/ PppdExit(c)
                               \/ NegotiationDone(c) \/ NegotiationFailed(c) \/ Admit(c)
  PROVE  Couples'
<1>1. ASSUME NEW s \in Ends, Relay(s) PROVE Couples'
  <2>1. Handled' /\ ~Accepting /\ ~Accepting'
    BY <1>1 DEF Relay, Handled, Accepting
  <2> QED BY <1>1, <2>1, QuietStep DEF Relay, pairVars, envVars
<1>2. ASSUME NEW s \in Ends, Send(s) PROVE Couples'
  <2>1. Handled' /\ (Accepting <=> Accepting')
    BY <1>2 DEF Send, loopVars, envVars, Couples, Handled, Accepting, Listed
  <2> QED BY <1>2, <2>1, QuietStep DEF Send, loopVars, pairVars, envVars
<1>3. ASSUME NEW c \in Clients, Noise(c) PROVE Couples'
  <2>1. Handled' /\ (Accepting <=> Accepting')
    BY <1>3 DEF Noise, loopVars, envVars, Couples, Handled, Accepting, Listed
  <2> QED BY <1>3, <2>1, QuietStep DEF Noise, loopVars, pairVars, envVars
<1>4. ASSUME NEW c \in Clients, HangUp(c) PROVE Couples'
  <2>1. Handled' /\ (Accepting <=> Accepting')
    BY <1>4 DEF HangUp, loopVars, Couples, Handled, Accepting, Listed
  <2>2. \A d \in Clients : dial'[d] = "idle" => dial[d] = "idle"
    BY <1>4 DEF HangUp, TypeOK
  <2> QED BY <1>4, <2>1, <2>2, QuietStep DEF HangUp, loopVars, pairVars
<1>5. ASSUME NEW c \in Clients, PppdExit(c) PROVE Couples'
  <2>1. Handled' /\ (Accepting <=> Accepting')
    BY <1>5 DEF PppdExit, loopVars, Couples, Handled, Accepting, Listed
  <2> QED BY <1>5, <2>1, QuietStep DEF PppdExit, loopVars, pairVars
<1>6. ASSUME NEW c \in Clients, NegotiationDone(c) \/ NegotiationFailed(c) PROVE Couples'
  <2>1. pc = "negotiate" /\ pc' = "auth" /\ UNCHANGED <<cur, conns, stream, peer, backlog>>
    BY <1>6 DEF NegotiationDone, NegotiationFailed, Negotiated, envVars
  <2>2. Handled' /\ Accepting /\ Accepting'
    BY <2>1 DEF Handled, Accepting
  <2>3. \A d \in Clients : dial'[d] = "idle" => dial[d] = "idle"
    BY <1>6 DEF NegotiationDone, NegotiationFailed, envVars, TypeOK
  <2> QED BY <2>1, <2>2, <2>3, QuietStep
<1>7. ASSUME NEW c \in Clients, Admit(c) PROVE Couples'
  <2>1. Handled' /\ Accepting /\ Accepting'
    BY <1>7 DEF Admit, Handled, Accepting
  <2> QED BY <1>7, <2>1, QuietStep DEF Admit, envVars
<1> QED BY <1>1, <1>2, <1>3, <1>4, <1>5, <1>6, <1>7

\* STREAMSelect moves a node of the list: the same streams are in it.
LEMMA WakeStep == ASSUME TypeOK, Couples, Wake PROVE Couples'
<1>1. PICK i \in DOMAIN conns :
        /\ Readable(conns[i]) /\ cur' = conns[i]
        /\ conns' = Append(Without(conns, conns[i]), conns[i])
  BY DEF Wake, FirstReadable
<1> DEFINE s == conns[i]
<1>2. /\ s \in Items /\ s # Null /\ conns \in Seq(Items) /\ Holds(conns, s)
      /\ s = Server => backlog # <<>>
  BY <1>1, EndsFacts DEF Readable, TypeOK, Holds
<1>3. cur' = s /\ conns' = Append(Without(conns, s), s)
  BY <1>1
<1> HIDE DEF s
<1>4. NoRepeat(conns)
  BY DEF Couples, Distinct
<1>5. NoRepeat(conns') /\ \A t : Holds(conns', t) <=> Holds(conns, t)
  BY <1>2, <1>3, <1>4, RequeueFacts
<1>6. \A t : Listed(t)' <=> Listed(t)
  BY <1>5 DEF Holds, Listed
<1>7. pc = "wait" /\ pc' = "handle" /\ UNCHANGED <<stream, peer, backlog, dial>>
  BY DEF Wake, pairVars, envVars
<1>8. Distinct'
  BY <1>5 DEF Distinct
<1>9. ListedOpen' /\ Mutual' /\ NoLeak' /\ Hand'
  BY <1>6, <1>7 DEF Couples, ListedOpen, Mutual, NoLeak, Hand, InHand, Accepting
<1>10. Handled'
  <2>1. Listed(s)
    BY <1>2 DEF Holds, Listed
  <2> QED BY <2>1, <1>2, <1>3, <1>6, <1>7 DEF Handled
<1>11. Queue' /\ Idle'
  BY <1>7 DEF Couples, Queue, Idle
<1> QED BY <1>8, <1>9, <1>10, <1>11 DEF Couples

\* STREAMServerAccept: the connection at the head of the backlog gets a stream
\* of its own, in no list and no couple.
LEMMA TakeConnection == ASSUME TypeOK, Couples, Accept PROVE Couples'
<1> DEFINE c == Head(backlog)
<1>1. /\ c \in Clients /\ backlog # <<>> /\ backlog \in Seq(Clients) /\ c = backlog[1]
      /\ \A i \in DOMAIN Tail(backlog) : i + 1 \in DOMAIN backlog
                                         /\ Tail(backlog)[i] = backlog[i + 1]
  BY DEF Accept, TypeOK
<1>2. /\ pc = "handle" /\ pc' = "negotiate" /\ cur' = Client(c)
      /\ stream' = [stream EXCEPT ![Client(c)] = "open"]
      /\ backlog' = Tail(backlog) /\ UNCHANGED <<conns, peer, dial>>
  BY DEF Accept
<1>3. 1 \in DOMAIN backlog /\ \A i \in DOMAIN Tail(backlog) : i \in Nat /\ i # 0
  BY <1>1
<1> HIDE DEF c
<1>4. stream[Client(c)] = "none" /\ stream[Pppd(c)] = "none"
  BY <1>1, <1>3 DEF Couples, Queue
<1>5. ~Listed(Client(c))
  BY <1>1, <1>4, EndsFacts DEF Couples, ListedOpen
<1>6. \A s \in Ends : s # Client(c) => stream'[s] = stream[s]
  BY <1>2, EndsFacts DEF TypeOK
<1>7. stream'[Client(c)] = "open"
  BY <1>1, <1>2, EndsFacts DEF TypeOK
<1>8. Distinct' /\ Mutual' /\ (\A t : Listed(t)' <=> Listed(t))
  BY <1>2 DEF Couples, Distinct, NoRepeat, Mutual, Listed
<1>9. ListedOpen'
  BY <1>6, <1>7, <1>8 DEF Couples, ListedOpen
<1>10. NoLeak'
  BY <1>2, <1>6, <1>8 DEF Couples, NoLeak, InHand
<1>11. Hand'
  BY <1>1, <1>2, <1>4, <1>5, <1>6, <1>7, <1>8, EndsFacts DEF Hand
<1>12. Handled'
  BY <1>2 DEF Handled
<1>13. Queue'
  <2>1. \A i \in DOMAIN backlog' : backlog'[i] # c /\ backlog'[i] \in Clients
    BY <1>1, <1>2, <1>3 DEF Couples, Queue
  <2>2. \A i \in DOMAIN backlog' : /\ stream[Client(backlog'[i])] = "none"
                                   /\ stream[Pppd(backlog'[i])] = "none"
    BY <1>1, <1>2 DEF Couples, Queue
  <2>3. \A i \in DOMAIN backlog' : /\ Client(backlog'[i]) \in Ends \ {Client(c)}
                                   /\ Pppd(backlog'[i]) \in Ends \ {Client(c)}
    BY <2>1, <1>1, EndsFacts
  <2>4. \A i, j \in DOMAIN backlog' : backlog'[i] = backlog'[j] => i = j
    BY <1>1, <1>2, <1>3 DEF Couples, Queue
  <2> QED BY <2>2, <2>3, <2>4, <1>6 DEF Queue
<1>14. Idle'
  <2> SUFFICES ASSUME NEW d \in Clients, dial[d] = "idle"
               PROVE  /\ stream'[Client(d)] = "none" /\ stream'[Pppd(d)] = "none"
                      /\ \A i \in DOMAIN backlog' : backlog'[i] # d
    BY <1>2 DEF Idle
  <2>1. /\ stream[Client(d)] = "none" /\ stream[Pppd(d)] = "none"
        /\ \A i \in DOMAIN backlog : backlog[i] # d
    BY DEF Couples, Idle
  <2>2. d # c
    BY <2>1, <1>1, <1>3
  <2>3. Client(d) \in Ends \ {Client(c)} /\ Pppd(d) \in Ends \ {Client(c)}
    BY <2>2, <1>1, EndsFacts
  <2> QED BY <2>1, <2>3, <1>1, <1>2, <1>6
<1> QED BY <1>8, <1>9, <1>10, <1>11, <1>12, <1>13, <1>14 DEF Couples

\* A refused client is closed before it is in any list or couple.
LEMMA RefuseStep ==
  ASSUME TypeOK, Couples, NEW c \in Clients, Refuse(c) PROVE Couples'
<1>1. /\ pc = "auth" /\ pc' = "reap" /\ cur = Client(c)
      /\ UNCHANGED <<cur, conns, backlog, dial>>
  BY DEF Refuse, envVars
<1>2. /\ stream' = [s \in Ends |-> IF s \in {Client(c)} THEN "closed" ELSE stream[s]]
      /\ peer' = [s \in Ends |-> IF s \in {Client(c)} THEN Null ELSE peer[s]]
  BY DEF Refuse, Freed
<1>3. stream[Client(c)] = "open" /\ ~Listed(Client(c))
  BY <1>1, EndsFacts DEF Couples, Hand, Accepting
<1>4. \A t : Listed(t)' <=> Listed(t)
  BY <1>1 DEF Listed
<1>5. /\ stream'[Client(c)] = "closed" /\ peer'[Client(c)] = Null
      /\ \A s \in Ends : s # Client(c) => stream'[s] = stream[s] /\ peer'[s] = peer[s]
  BY <1>2, EndsFacts
<1>6. Distinct' /\ ListedOpen'
  BY <1>1, <1>3, <1>4, <1>5 DEF Couples, Distinct, NoRepeat, ListedOpen
<1>7. Mutual'
  BY <1>3, <1>4, <1>5 DEF Couples, Mutual
<1>8. NoLeak'
  BY <1>1, <1>4, <1>5 DEF Couples, NoLeak, InHand
<1>9. Hand' /\ Handled'
  BY <1>1 DEF Hand, Handled, Accepting
<1>10. Queue'
  <2>1. \A i \in DOMAIN backlog : backlog[i] \in Clients /\ backlog[i] # c
    BY <1>3 DEF Couples, Queue, TypeOK
  <2>2. \A i \in DOMAIN backlog : /\ Client(backlog[i]) \in Ends \ {Client(c)}
                                  /\ Pppd(backlog[i]) \in Ends \ {Client(c)}
    BY <2>1, EndsFacts
  <2> QED BY <2>2, <1>1, <1>5 DEF Couples, Queue
<1>11. Idle'
  <2>1. \A d \in Clients : dial[d] = "idle" => d # c
    BY <1>3 DEF Couples, Idle
  <2>2. \A d \in Clients : d # c => /\ Client(d) \in Ends \ {Client(c)}
                                    /\ Pppd(d) \in Ends \ {Client(c)}
    BY EndsFacts
  <2> QED BY <2>1, <2>2, <1>1, <1>5 DEF Couples, Idle
<1> QED BY <1>6, <1>7, <1>8, <1>9, <1>10, <1>11 DEF Couples

\* The new client and its pppd enter the list, each the other's Peer.
LEMMA LaunchStep ==
  ASSUME TypeOK, Couples, NEW c \in Clients, Launch(c) PROVE Couples'
<1> DEFINE a == Client(c)
           b == Pppd(c)
<1>1. /\ a \in Ends /\ b \in Ends /\ a # b /\ Owner(a) = c /\ Owner(b) = c
      /\ a \in Items /\ b \in Items /\ a # Null /\ b # Null
      /\ \A d \in Clients : d # c => Client(d) \in Ends \ {a, b} /\ Pppd(d) \in Ends \ {a, b}
  BY EndsFacts
<1>2. /\ pc = "launch" /\ pc' = "reap" /\ cur = a /\ conns' = conns \o <<b, a>>
      /\ stream' = [stream EXCEPT ![b] = "open"]
      /\ peer' = [peer EXCEPT ![b] = a, ![a] = b]
      /\ UNCHANGED <<cur, backlog, dial>>
  BY DEF Launch
<1>3. stream[a] = "open" /\ ~Listed(a) /\ stream[b] # "open"
  <2>1. PICK d \in Clients : /\ cur = Client(d) /\ stream[Client(d)] = "open"
                             /\ ~Listed(Client(d)) /\ stream[Pppd(d)] # "open"
    BY <1>2 DEF Couples, Hand, Accepting
  <2>2. d = c
    BY <2>1, <1>2, EndsFacts
  <2> QED BY <2>1, <2>2
<1> HIDE DEF a, b
<1>4. ~Listed(b)
  BY <1>1, <1>3 DEF Couples, ListedOpen
<1>5. conns \in Seq(Items) /\ stream \in [Ends -> {"none", "open", "closed"}]
      /\ peer \in [Ends -> Ends \union {Null}]
  BY DEF TypeOK
<1>6. /\ stream'[a] = "open" /\ stream'[b] = "open" /\ peer'[a] = b /\ peer'[b] = a
      /\ \A s \in Ends : s # a /\ s # b => stream'[s] = stream[s] /\ peer'[s] = peer[s]
  BY <1>1, <1>2, <1>3, <1>5
<1>7. \A t : Holds(conns', t) <=> Listed(t) \/ t = b \/ t = a
  <2>1. \A t : Holds(conns \o <<b, a>>, t) <=> Holds(conns, t) \/ t = b \/ t = a
    BY <1>1, <1>5, AppendFacts
  <2> QED BY <2>1, <1>2 DEF Listed, Holds
<1>8. Distinct'
  <2>1. NoRepeat(conns) /\ ~Holds(conns, a) /\ ~Holds(conns, b)
    BY <1>3, <1>4 DEF Couples, Distinct, Listed, Holds
  <2>2. NoRepeat(conns \o <<b, a>>)
    BY <2>1, <1>1, <1>5, AppendFacts
  <2> QED BY <2>2, <1>2 DEF Distinct
<1>9. ListedOpen'
  BY <1>6, <1>7 DEF Couples, ListedOpen, Listed, Holds
<1>10. Mutual'
  <2> SUFFICES ASSUME NEW s \in Ends, peer'[s] # Null
               PROVE  /\ peer'[s] \in Ends /\ Holds(conns', s) /\ Holds(conns', peer'[s])
                      /\ peer'[peer'[s]] = s /\ Owner(peer'[s]) = Owner(s) /\ peer'[s] # s
    BY DEF Mutual, Listed, Holds
  <2>1. CASE s = a \/ s = b
    BY <2>1, <1>1, <1>6, <1>7
  <2>2. CASE s # a /\ s # b
    <3>1. /\ peer[s] \in Ends /\ Listed(s) /\ Listed(peer[s])
          /\ peer[peer[s]] = s /\ Owner(peer[s]) = Owner(s) /\ peer[s] # s
      BY <2>2, <1>6 DEF Couples, Mutual
    <3>2. peer[s] # a /\ peer[s] # b
      BY <3>1, <1>3, <1>4
    <3> QED BY <3>1, <3>2, <2>2, <1>6, <1>7
  <2> QED BY <2>1, <2>2
<1>11. NoLeak'
  BY <1>2, <1>6, <1>7 DEF Couples, NoLeak, InHand, Listed, Holds
<1>12. Hand' /\ Handled'
  BY <1>2 DEF Hand, Handled, Accepting
<1>13. Queue'
  <2>1. \A i \in DOMAIN backlog : backlog[i] \in Clients /\ backlog[i] # c
    BY <1>3 DEF Couples, Queue, TypeOK, a
  <2> QED BY <2>1, <1>1, <1>2, <1>6 DEF Couples, Queue
<1>14. Idle'
  <2>1. \A d \in Clients : dial[d] = "idle" => d # c
    BY <1>3 DEF Couples, Idle, a
  <2> QED BY <2>1, <1>1, <1>2, <1>6 DEF Couples, Idle
<1> QED BY <1>8, <1>9, <1>10, <1>11, <1>12, <1>13, <1>14 DEF Couples

\* A client whose pppd could not be started is listed all the same, alone.
LEMMA LaunchFailedStep ==
  ASSUME TypeOK, Couples, NEW c \in Clients, LaunchFailed(c) PROVE Couples'
<1> DEFINE a == Client(c)
<1>1. /\ a \in Ends /\ a \in Items /\ Null \in Items /\ a # Null
  BY EndsFacts
<1>2. /\ pc = "launch" /\ pc' = "reap" /\ cur = a /\ conns' = conns \o <<Null, a>>
      /\ peer' = [peer EXCEPT ![a] = Null]
      /\ UNCHANGED <<cur, stream, backlog, dial>>
  BY DEF LaunchFailed, envVars
<1>3. stream[a] = "open" /\ ~Listed(a)
  BY <1>2 DEF Couples, Hand, Accepting
<1> HIDE DEF a
<1>4. conns \in Seq(Items) /\ peer \in [Ends -> Ends \union {Null}]
  BY DEF TypeOK
<1>5. peer'[a] = Null /\ \A s \in Ends : s # a => peer'[s] = peer[s]
  BY <1>1, <1>2, <1>4
<1>6. \A t : Holds(conns', t) <=> Listed(t) \/ t = Null \/ t = a
  <2>1. \A t : Holds(conns \o <<Null, a>>, t) <=> Holds(conns, t) \/ t = Null \/ t = a
    BY <1>1, <1>4, AppendFacts
  <2> QED BY <2>1, <1>2 DEF Listed, Holds
<1>7. Distinct'
  <2>1. NoRepeat(conns) /\ ~Holds(conns, a)
    BY <1>3 DEF Couples, Distinct, Listed, Holds
  <2>2. NoRepeat(conns \o <<Null, a>>)
    BY <2>1, <1>1, <1>4, AppendFacts
  <2> QED BY <2>2, <1>2 DEF Distinct
<1>8. ListedOpen'
  BY <1>2, <1>3, <1>6, EndsFacts DEF Couples, ListedOpen, Listed, Holds
<1>9. Mutual'
  BY <1>3, <1>5, <1>6 DEF Couples, Mutual, Listed, Holds
<1>10. NoLeak'
  BY <1>2, <1>6 DEF Couples, NoLeak, InHand, Listed, Holds
<1>11. Hand' /\ Handled' /\ Queue' /\ Idle'
  BY <1>2 DEF Couples, Hand, Handled, Accepting, Queue, Idle
<1> QED BY <1>7, <1>8, <1>9, <1>10, <1>11 DEF Couples

\* SSLShutdownConnection takes both streams of a couple out of the list as it
\* frees them.
LEMMA DisconnectStep ==
  ASSUME TypeOK, Couples, NEW s \in Ends, Disconnect(s) PROVE Couples'
<1> DEFINE o == peer[s]
           S == {s, o} \intersect Ends
<1>1. /\ pc = "handle" /\ pc' = "reap" /\ cur = s
      /\ conns' = Without(Without(conns, s), o)
      /\ stream' = [t \in Ends |-> IF t \in S THEN "closed" ELSE stream[t]]
      /\ peer' = [t \in Ends |-> IF t \in S THEN Null ELSE peer[t]]
      /\ UNCHANGED <<backlog, dial>>
  BY DEF Disconnect, Shutdown, Freed, envVars
<1>2. /\ s \in Items /\ s # Null /\ conns \in Seq(Items) /\ NoRepeat(conns)
      /\ o \in Ends \union {Null} /\ o \in Items
      /\ o # Null => o \in Ends /\ peer[o] = s /\ Listed(o)
      /\ Listed(s) /\ stream[s] = "open" /\ (o # Null => stream[o] = "open")
  BY <1>1, EndsFacts DEF Couples, Distinct, Mutual, Handled, ListedOpen, TypeOK
<1> HIDE DEF o
<1>3. \A t \in Ends : t \in S <=> t = s \/ t = o
  OBVIOUS
<1>4. s \in S /\ S \subseteq Ends
  OBVIOUS
<1> HIDE DEF S
<1>5. /\ Without(conns, s) \in Seq(Items) /\ NoRepeat(Without(conns, s))
      /\ \A t : t # s => (Holds(Without(conns, s), t) <=> Holds(conns, t))
      /\ ~Holds(Without(conns, s), s)
  BY <1>2, WithoutFacts
<1>6. NoRepeat(conns') /\ \A t \in Ends : Holds(conns', t) <=> Holds(conns, t) /\ t \notin S
  <2> DEFINE W == Without(conns, s)
  <2>1. W \in Seq(Items) /\ NoRepeat(W) /\ conns' = Without(W, o)
    BY <1>5, <1>1
  <2> HIDE DEF W
  <2>2. /\ NoRepeat(conns')
        /\ \A t : t # o \/ t = Null => (Holds(conns', t) <=> Holds(W, t))
        /\ o # Null => ~Holds(conns', o)
    BY <2>1, <1>2, WithoutFacts
  <2>3. \A t \in Ends : t # Null
    BY EndsFacts
  <2> QED BY <2>2, <2>3, <1>3, <1>5 DEF W
<1>7. \A t \in Ends : Holds(conns', t) <=> Listed(t) /\ t \notin S
  BY <1>6 DEF Listed, Holds
<1>8. \A t \in Ends : /\ t \in S => stream'[t] = "closed" /\ peer'[t] = Null
                      /\ t \notin S => stream'[t] = stream[t] /\ peer'[t] = peer[t]
  BY <1>1
<1>9. Distinct'
  BY <1>6 DEF Distinct
<1>10. ListedOpen'
  BY <1>7, <1>8 DEF Couples, ListedOpen, Listed, Holds
<1>11. Mutual'
  <2> SUFFICES ASSUME NEW t \in Ends, peer'[t] # Null
               PROVE  /\ peer'[t] \in Ends /\ Holds(conns', t) /\ Holds(conns', peer'[t])
                      /\ peer'[peer'[t]] = t /\ Owner(peer'[t]) = Owner(t) /\ peer'[t] # t
    BY DEF Mutual, Listed, Holds
  <2>1. t \notin S /\ peer'[t] = peer[t]
    BY <1>8
  <2>2. /\ peer[t] \in Ends /\ Listed(t) /\ Listed(peer[t])
        /\ peer[peer[t]] = t /\ Owner(peer[t]) = Owner(t) /\ peer[t] # t
    BY <2>1 DEF Couples, Mutual
  <2>3. peer[t] \notin S
    <3>1. peer[t] # s
      BY <2>1, <2>2, <1>3, <1>4 DEF o
    <3>2. peer[t] # o
      BY <2>1, <2>2, <1>2, <1>4, EndsFacts
    <3> QED BY <3>1, <3>2, <2>2, <1>3
  <2> QED BY <2>1, <2>2, <2>3, <1>7, <1>8
<1>12. NoLeak'
  BY <1>1, <1>7, <1>8 DEF Couples, NoLeak, InHand, Listed, Holds
<1>13. Hand' /\ Handled'
  BY <1>1 DEF Hand, Handled, Accepting
<1>14. Queue'
  <2>1. \A i \in DOMAIN backlog : /\ Client(backlog[i]) \in Ends /\ Pppd(backlog[i]) \in Ends
    BY EndsFacts DEF TypeOK
  <2>2. \A t \in S : stream[t] = "open"
    BY <1>2, <1>3, <1>4, EndsFacts
  <2>3. \A i \in DOMAIN backlog : Client(backlog[i]) \notin S /\ Pppd(backlog[i]) \notin S
    BY <2>2 DEF Couples, Queue
  <2> QED BY <2>1, <2>3, <1>1, <1>8 DEF Couples, Queue
<1>15. Idle'
  <2>1. \A t \in S : stream[t] = "open"
    BY <1>2, <1>3, <1>4, EndsFacts
  <2> SUFFICES ASSUME NEW d \in Clients, dial[d] = "idle"
               PROVE  /\ stream'[Client(d)] = "none" /\ stream'[Pppd(d)] = "none"
                      /\ \A i \in DOMAIN backlog : backlog[i] # d
    BY <1>1 DEF Idle
  <2>2. /\ stream[Client(d)] = "none" /\ stream[Pppd(d)] = "none"
        /\ \A i \in DOMAIN backlog : backlog[i] # d
    BY DEF Couples, Idle
  <2>3. Client(d) \in Ends \ S /\ Pppd(d) \in Ends \ S
    BY <2>1, <2>2, EndsFacts
  <2> QED BY <2>2, <2>3, <1>8
<1> QED BY <1>9, <1>10, <1>11, <1>12, <1>13, <1>14, <1>15 DEF Couples

\* A client that connects (again) has no stream the server still looks at.
LEMMA DialStep ==
  ASSUME TypeOK, Couples, NEW c \in Clients, Dial(c) PROVE Couples'
<1> DEFINE a == Client(c)
           b == Pppd(c)
<1>1. /\ a \in Ends /\ b \in Ends
      /\ \A s \in Ends : Owner(s) = c <=> s = a \/ s = b
      /\ \A d \in Clients : d # c => Client(d) \in Ends \ {a, b} /\ Pppd(d) \in Ends \ {a, b}
  BY EndsFacts
<1>2. /\ stream[a] # "open" /\ stream[b] # "open"
      /\ \A i \in DOMAIN backlog : backlog[i] # c
  BY DEF Dial, Couples, Idle, Queue
<1>3. /\ dial' = [dial EXCEPT ![c] = "dialling"] /\ backlog' = Append(backlog, c)
      /\ stream' = [s \in Ends |-> IF Owner(s) = c THEN "none" ELSE stream[s]]
      /\ UNCHANGED <<pc, cur, conns, peer>>
  BY DEF Dial, loopVars
<1>4. \A s \in Ends : /\ s \in {a, b} => stream'[s] = "none"
                      /\ s \notin {a, b} => stream'[s] = stream[s]
  BY <1>1, <1>3
<1>5. ~Listed(a) /\ ~Listed(b)
  BY <1>1, <1>2 DEF Couples, ListedOpen
<1>6. backlog \in Seq(Clients) /\ dial \in [Clients -> {"idle", "dialling", "up", "gone"}]
  BY DEF TypeOK
<1>7. /\ DOMAIN backlog' = 1..(Len(backlog) + 1) /\ Len(backlog) \in Nat
      /\ DOMAIN backlog = 1..Len(backlog)
      /\ \A i \in DOMAIN backlog : backlog'[i] = backlog[i]
      /\ backlog'[Len(backlog) + 1] = c
  BY <1>3, <1>6
<1>8. \A d \in Clients : d # c <=> (Client(d) \notin {a, b} /\ Pppd(d) \notin {a, b})
  BY <1>1
<1> HIDE DEF a, b
<1>9. \A t : Listed(t)' <=> Listed(t)
  BY <1>3 DEF Listed
<1>10. Distinct' /\ Mutual'
  BY <1>3, <1>9 DEF Couples, Distinct, NoRepeat, Mutual
<1>11. ListedOpen'
  BY <1>4, <1>5, <1>9 DEF Couples, ListedOpen
<1>12. NoLeak'
  BY <1>3, <1>4, <1>9 DEF Couples, NoLeak, InHand
<1>13. Hand'
  <2> SUFFICES ASSUME Accepting
               PROVE  \E d \in Clients :
                        /\ cur = Client(d) /\ stream'[Client(d)] = "open"
                        /\ ~Listed(Client(d)) /\ stream'[Pppd(d)] # "open"
    BY <1>3, <1>9 DEF Hand, Accepting, Listed
  <2>1. PICK d \in Clients : /\ cur = Client(d) /\ stream[Client(d)] = "open"
                             /\ ~Listed(Client(d)) /\ stream[Pppd(d)] # "open"
    BY DEF Couples, Hand
  <2>2. d # c
    BY <2>1, <1>2 DEF a
  <2>3. Client(d) \in Ends \ {a, b} /\ Pppd(d) \in Ends \ {a, b}
    BY <2>2, <1>1
  <2> QED BY <2>1, <2>3, <1>4
<1>14. Handled'
  <2>1. pc = "handle" /\ cur = Server => backlog' # <<>>
    BY <1>7
  <2> QED BY <2>1, <1>3, <1>9 DEF Couples, Handled
<1>15. Queue'
  <2>1. \A i \in DOMAIN backlog' : /\ stream'[Client(backlog'[i])] = "none"
                                   /\ stream'[Pppd(backlog'[i])] = "none"
    <3> TAKE i \in DOMAIN backlog'
    <3>1. CASE i \in DOMAIN backlog
      <4>1. backlog[i] \in Clients /\ backlog[i] # c
        BY <3>1, <1>2, <1>6
      <4>2. Client(backlog[i]) \in Ends \ {a, b} /\ Pppd(backlog[i]) \in Ends \ {a, b}
        BY <4>1, <1>1
      <4> QED BY <3>1, <4>2, <1>4, <1>7 DEF Couples, Queue
    <3>2. CASE i = Len(backlog) + 1
      BY <3>2, <1>1, <1>4, <1>7 DEF a, b
    <3> QED BY <3>1, <3>2, <1>7
  <2>2. \A i, j \in DOMAIN backlog' : backlog'[i] = backlog'[j] => i = j
    BY <1>2, <1>7 DEF Couples, Queue
  <2> QED BY <2>1, <2>2 DEF Queue
<1>16. Idle'
  <2> SUFFICES ASSUME NEW d \in Clients, dial'[d] = "idle"
               PROVE  /\ stream'[Client(d)] = "none" /\ stream'[Pppd(d)] = "none"
                      /\ \A i \in DOMAIN backlog' : backlog'[i] # d
    BY DEF Idle
  <2>1. d # c /\ dial[d] = "idle"
    BY <1>3, <1>6
  <2>2. /\ stream[Client(d)] = "none" /\ stream[Pppd(d)] = "none"
        /\ \A i \in DOMAIN backlog : backlog[i] # d
    BY <2>1 DEF Couples, Idle
  <2>3. Client(d) \in Ends \ {a, b} /\ Pppd(d) \in Ends \ {a, b}
    BY <2>1, <1>1
  <2> QED BY <2>1, <2>2, <2>3, <1>4, <1>7
<1> QED BY <1>10, <1>11, <1>12, <1>13, <1>14, <1>15, <1>16 DEF Couples

\* Every step keeps the couples.
LEMMA CouplesStep == TypeOK /\ Couples /\ [Next]_vars => Couples'
<1> SUFFICES ASSUME TypeOK, Couples, [Next]_vars PROVE Couples'
  OBVIOUS
<1>1. CASE UNCHANGED vars
  <2>1. Handled' /\ (Accepting <=> Accepting')
    BY <1>1 DEF vars, loopVars, envVars, Couples, Handled, Accepting, Listed
  <2> QED BY <1>1, <2>1, QuietStep DEF vars, loopVars, pairVars, envVars
<1>2. CASE ServerStep
  <2>1. \/ LoopCheck \/ BrokenPipe \/ FlushAndReturn \/ FlushAndWait \/ Reap
        \/ Wake \/ Accept
        \/ \E c \in Clients : Refuse(c) \/ Admit(c) \/ Launch(c) \/ LaunchFailed(c)
        \/ \E s \in Ends : Relay(s) \/ Disconnect(s)
    BY <1>2 DEF ServerStep, AcceptStep
  <2> QED BY <2>1, LoopStep, PeersStep, WakeStep, TakeConnection, RefuseStep, LaunchStep,
             LaunchFailedStep, DisconnectStep
<1>3. CASE \E c \in Clients : ClientStep(c)
  BY <1>3, PeersStep, DialStep DEF ClientStep
<1>4. CASE (\E s \in Ends : Send(s)) \/ Signal
  BY <1>4, PeersStep, LoopStep
<1> QED BY <1>1, <1>2, <1>3, <1>4 DEF Next

\* The server starts with the listening stream alone in its list.
LEMMA CouplesInit == Init => Couples
<1> SUFFICES ASSUME Init PROVE Couples
  OBVIOUS
<1>1. /\ pc = "check" /\ conns = <<Server>> /\ backlog = <<>>
      /\ \A s \in Ends : stream[s] = "none" /\ peer[s] = Null
  BY DEF Init
<1>2. \A s \in Ends : ~Listed(s)
  BY <1>1, EndsFacts DEF Listed
<1>3. Distinct
  BY <1>1 DEF Distinct, NoRepeat
<1>4. ListedOpen /\ Mutual /\ NoLeak
  BY <1>1, <1>2 DEF ListedOpen, Mutual, NoLeak
<1>5. Hand /\ Handled /\ Queue /\ Idle
  BY <1>1, EndsFacts DEF Hand, Handled, Queue, Idle, Accepting
<1> QED BY <1>3, <1>4, <1>5 DEF Couples

\* Couples holds of every state the server reaches.
LEMMA CouplesHold == Spec => [](TypeOK /\ Couples)
<1>1. Init => TypeOK /\ Couples
  BY InitType, CouplesInit
<1>2. TypeOK /\ Couples /\ [Next]_vars => TypeOK' /\ Couples'
  BY TypeStep, CouplesStep
<1> QED BY <1>1, <1>2, PTL DEF Spec

\* No stream the server handles has been freed, and the two ends of a couple lead
\* to each other: SSLProcess and SSLShutdownConnection touch live streams only.
THEOREM NothingDangles == Spec => []NoDangling
<1>1. TypeOK /\ Couples => NoDangling
  BY DEF Couples, ListedOpen, Mutual, NoDangling
<1> QED BY <1>1, CouplesHold, PTL

\* Every stream the server has opened is in the list it serves.
THEOREM NothingLeaks == Spec => []NoLeak
<1>1. TypeOK /\ Couples => NoLeak
  BY DEF Couples
<1> QED BY <1>1, CouplesHold, PTL

----------------------------------------------------------------------------
(* Who is let in.  The credentials a pppd was started for are still what the *)
(* server knows of its client: a client is negotiated with only before it    *)
(* has a pppd, and Authorised is not asked again.                            *)

Vetted ==
  /\ \A c \in Clients : proc[c] = "running" => Authorised(ServerAuth, cred[c])
  /\ \A c \in Clients : pc = "launch" /\ cur = Client(c) => Authorised(ServerAuth, cred[c])
  /\ \A c \in Clients : Accepting /\ cur = Client(c) => proc[c] = "none"
  /\ \A i \in DOMAIN backlog : proc[backlog[i]] = "none"

\* What SSLAuth's two flags mean for each '-auth' method.
LEMMA AuthorisedMeans ==
  ASSUME NEW k \in Credentials, Authorised(ServerAuth, k)
  PROVE  /\ ServerAuth \notin {"open", "ip-only"} => k.verified
         /\ ServerAuth \in {"ips", "ip-only"} => k.ipListed
         /\ ServerAuth = "users" => k.userListed
         /\ ServerAuth = "system" => k.sysUser
         /\ ServerAuth # "ip"
<1>1. ServerAuth \in AuthModes
  BY AuthAssumption
<1>2. CERT \in AuthFlags(ServerAuth, k) /\ USER \in AuthFlags(ServerAuth, k)
  BY BothFlags
<1> QED BY <1>1, <1>2, FlagsMean

\* A step of the accepting code keeps Vetted.
LEMMA AcceptVetted ==
  ASSUME TypeOK, Couples, Vetted, NEW c \in Clients, AcceptStep(c)
  PROVE  Vetted'
<1>1. CASE Refuse(c)
  BY <1>1 DEF Refuse, envVars, Vetted, Accepting
<1>2. CASE Admit(c)
  BY <1>2, EndsFacts DEF Admit, envVars, Vetted, Accepting
<1>3. CASE Launch(c)
  <2>1. /\ pc = "launch" /\ cur = Client(c) /\ pc' = "reap"
        /\ proc' = [proc EXCEPT ![c] = "running"] /\ UNCHANGED <<cred, backlog>>
    BY <1>3 DEF Launch
  <2>2. stream[Client(c)] = "open"
    BY <2>1 DEF Couples, Hand, Accepting
  <2>3. \A i \in DOMAIN backlog : backlog[i] # c
    BY <2>2 DEF Couples, Queue
  <2> QED BY <2>1, <2>3 DEF Vetted, Accepting, TypeOK
<1>4. CASE LaunchFailed(c)
  BY <1>4 DEF LaunchFailed, envVars, Vetted, Accepting
<1> QED BY <1>1, <1>2, <1>3, <1>4 DEF AcceptStep

\* A step of a client, or of its negotiation, keeps Vetted.
LEMMA ClientVetted ==
  ASSUME TypeOK, Couples, Vetted, NEW c \in Clients, ClientStep(c)
  PROVE  Vetted'
<1>1. CASE Dial(c)
  <2>1. /\ UNCHANGED <<pc, cur>> /\ backlog' = Append(backlog, c)
        /\ cred' = [cred EXCEPT ![c] = NoCredential(FALSE)]
        /\ proc' = [proc EXCEPT ![c] = "none"]
    BY <1>1 DEF Dial, loopVars
  <2>2. stream[Client(c)] # "open"
    BY <1>1 DEF Dial, Couples, Idle
  <2>3. Accepting => cur # Client(c)
    BY <2>2 DEF Couples, Hand
  <2>4. /\ proc \in [Clients -> {"none", "running", "exited", "reaped"}]
        /\ cred \in [Clients -> Credentials] /\ backlog \in Seq(Clients)
    BY DEF TypeOK
  <2>5. \A i \in DOMAIN backlog' : backlog'[i] = c \/ (i \in DOMAIN backlog
                                                      /\ backlog'[i] = backlog[i])
    BY <2>1, <2>4
  <2>6. \A d \in Clients : d # c => proc'[d] = proc[d] /\ cred'[d] = cred[d]
    BY <2>1, <2>4
  <2>7. proc'[c] = "none"
    BY <2>1, <2>4
  <2>8. \A i \in DOMAIN backlog' : proc'[backlog'[i]] = "none"
    BY <2>4, <2>5, <2>6, <2>7 DEF Vetted
  <2>9. \A d \in Clients : proc'[d] = "running" => Authorised(ServerAuth, cred'[d])
    BY <2>6, <2>7 DEF Vetted
  <2>10. \A d \in Clients : Accepting' /\ cur' = Client(d) => d # c /\ proc'[d] = "none"
    BY <2>1, <2>3, <2>6 DEF Vetted, Accepting
  <2>11. \A d \in Clients : pc' = "launch" /\ cur' = Client(d) => Authorised(ServerAuth, cred'[d])
    BY <2>1, <2>3, <2>6 DEF Vetted, Accepting
  <2> QED BY <2>8, <2>9, <2>10, <2>11 DEF Vetted
<1>2. CASE HangUp(c) \/ Noise(c)
  BY <1>2 DEF HangUp, Noise, loopVars, pairVars, envVars, Vetted, Accepting
<1>3. CASE PppdExit(c)
  BY <1>3 DEF PppdExit, loopVars, pairVars, Vetted, Accepting, TypeOK
<1>4. CASE NegotiationDone(c) \/ NegotiationFailed(c)
  <2>1. PICK k : cred' = [cred EXCEPT ![c] = k]
    BY <1>4 DEF NegotiationDone, NegotiationFailed, Negotiated
  <2>2. /\ pc = "negotiate" /\ pc' = "auth" /\ cur = Client(c)
        /\ UNCHANGED <<cur, backlog, proc>>
    BY <1>4 DEF NegotiationDone, NegotiationFailed, Negotiated, envVars
  <2>3. proc[c] = "none"
    BY <2>2 DEF Vetted, Accepting
  <2>4. \A d \in Clients : d # c => cred'[d] = cred[d]
    BY <2>1 DEF TypeOK
  <2> QED BY <2>2, <2>3, <2>4 DEF Vetted, Accepting
<1> QED BY <1>1, <1>2, <1>3, <1>4 DEF ClientStep

\* Every step keeps Vetted.
LEMMA VettedStep == TypeOK /\ Couples /\ Vetted /\ [Next]_vars => Vetted'
<1> SUFFICES ASSUME TypeOK, Couples, Vetted, [Next]_vars PROVE Vetted'
  OBVIOUS
<1>1. CASE LoopCheck \/ BrokenPipe \/ FlushAndReturn \/ FlushAndWait \/ Wake
  BY <1>1 DEF LoopCheck, BrokenPipe, FlushAndReturn, FlushAndWait, Wake, pairVars,
              envVars, Vetted, Accepting
<1>2. CASE Reap
  <2>1. \A c \in Clients : /\ proc'[c] = "running" => proc[c] = "running"
                           /\ proc[c] = "none" => proc'[c] = "none"
    BY <1>2 DEF Reap, Zombies, TypeOK
  <2>2. \A i \in DOMAIN backlog : backlog[i] \in Clients
    BY DEF TypeOK
  <2> QED BY <2>1, <2>2, <1>2 DEF Reap, pairVars, Vetted, Accepting
<1>3. CASE Accept
  <2>1. /\ pc' = "negotiate" /\ backlog' = Tail(backlog) /\ backlog # <<>>
        /\ cur' = Client(Head(backlog)) /\ UNCHANGED <<cred, proc>> /\ backlog \in Seq(Clients)
    BY <1>3 DEF Accept, TypeOK
  <2>2. \A i \in DOMAIN backlog' : i + 1 \in DOMAIN backlog /\ backlog'[i] = backlog[i + 1]
    BY <2>1
  <2>3. proc[Head(backlog)] = "none" /\ Head(backlog) \in Clients
    BY <2>1 DEF Vetted
  <2>4. \A c \in Clients : cur' = Client(c) => c = Head(backlog)
    BY <2>1, <2>3, EndsFacts
  <2> QED BY <2>1, <2>2, <2>3, <2>4 DEF Vetted, Accepting
<1>4. CASE \E c \in Clients : AcceptStep(c)
  BY <1>4, AcceptVetted
<1>5. CASE \E s \in Ends : Relay(s) \/ Disconnect(s) \/ Send(s)
  BY <1>5 DEF Relay, Disconnect, Send, loopVars, pairVars, envVars, Vetted, Accepting
<1>6. CASE \E c \in Clients : ClientStep(c)
  BY <1>6, ClientVetted
<1>7. CASE Signal
  BY <1>7 DEF Signal, pairVars, Vetted, Accepting
<1>8. CASE UNCHANGED vars
  BY <1>8 DEF vars, loopVars, pairVars, envVars, Vetted, Accepting
<1> QED BY <1>1, <1>2, <1>3, <1>4, <1>5, <1>6, <1>7, <1>8 DEF Next, ServerStep

\* Whatever the '-auth' method and whoever connects, a pppd runs only for a client
\* that met the method's own condition; without a verified certificate only under
\* 'open' and 'ip-only'.
THEOREM OnlyTheAuthorised == Spec => []AuthorisedOnly
<1>1. Init => Vetted
  BY DEF Init, Vetted, Accepting
<1>2. TypeOK /\ Vetted => AuthorisedOnly
  <2> SUFFICES ASSUME TypeOK, Vetted, NEW c \in Clients, proc[c] = "running"
               PROVE  /\ ServerAuth \notin {"open", "ip-only"} => cred[c].verified
                      /\ ServerAuth \in {"ips", "ip-only"} => cred[c].ipListed
                      /\ ServerAuth = "users" => cred[c].userListed
                      /\ ServerAuth = "system" => cred[c].sysUser
                      /\ ServerAuth # "ip"
    BY DEF AuthorisedOnly
  <2>1. cred[c] \in Credentials /\ Authorised(ServerAuth, cred[c])
    BY DEF TypeOK, Vetted
  <2> QED BY <2>1, AuthorisedMeans
<1>3. TypeOK /\ Couples /\ Vetted /\ [Next]_vars => Vetted'
  BY VettedStep
<1> QED BY <1>1, <1>2, <1>3, CouplesHold, PTL DEF Spec

\* Of every peer the server has negotiated with, and for every method but 'ip':
\* if its certificate names it, SSLAuth admits it just when the README says so.
THEOREM NamedAsDocumented == Spec => []NamedPeersAsDocumented
<1>1. TypeOK => NamedPeersAsDocumented
  <2> SUFFICES ASSUME TypeOK, NEW c \in Clients, NEW m \in AuthModes \ {"ip"}, cred[c].named
               PROVE  Authorised(m, cred[c]) <=> Documented(m, cred[c])
    BY DEF NamedPeersAsDocumented
  <2>1. cred[c] \in Credentials
    BY DEF TypeOK
  <2> QED BY <2>1, AsDocumented
<1> QED BY <1>1, TypeCorrect, PTL

----------------------------------------------------------------------------
(* What is under way.  Conservation speaks of couples only, and is not       *)
(* inductive: a couple is made of a stream just accepted and one just        *)
(* opened, whose buffers must be known to be empty (Fresh), whatever the     *)
(* connection that had the place before left in them (Clean).  The balance   *)
(* also holds when the far side has gone, what STREAMWriteBytes then drops   *)
(* being taken off transit (PutUnit).                                        *)

\* An end that is not open holds nothing; one not yet opened has sent nothing
Clean ==
  \A s \in Ends :
    /\ stream[s] # "open" => inbox[s] = 0 /\ inbuf[s] = 0 /\ outbuf[s] = 0
    /\ stream[s] = "none" => transit[s] = 0

\* Nothing has been read from, or written to, the connection being accepted
Fresh ==
  Accepting => \A c \in Clients : cur = Client(c) =>
    /\ stream[Pppd(c)] = "none"
    /\ inbuf[Client(c)] = 0 /\ outbuf[Client(c)] = 0
    /\ transit[Client(c)] = inbox[Client(c)]

\* What has entered a coupled end s and not come out is in a buffer on its way
Accounted(s) == transit[s] = inbox[s] + inbuf[s] + outbuf[peer[s]]

Balanced == \A s \in Ends : peer[s] # Null => Accounted(s)

\* With TypeOK and Couples
Buffers == Clean /\ Fresh /\ Balanced

\* Buffers as a list of numbers.
LEMMA DataFacts ==
  ASSUME TypeOK
  PROVE  /\ inbox \in [Ends -> Nat] /\ inbuf \in [Ends -> Nat] /\ outbuf \in [Ends -> 0..2]
         /\ transit \in [Ends -> Int] /\ stream \in [Ends -> {"none", "open", "closed"}]
         /\ peer \in [Ends -> Ends \union {Null}]
<1>1. 0..InMax \subseteq Nat /\ 0..BuffSize \subseteq Nat
  BY InMaxAssumption DEF BuffSize
<1> QED BY <1>1 DEF TypeOK, OutBuffSize

\* Nobody shares a Peer item: the two ends of a couple are each other's alone.
LEMMA PeerFacts ==
  ASSUME Couples, NEW s \in Ends, peer[s] # Null
  PROVE  /\ peer[s] \in Ends /\ peer[s] # s /\ peer[peer[s]] = s
         /\ stream[s] = "open" /\ stream[peer[s]] = "open" /\ Listed(s)
         /\ \A t \in Ends : peer[t] = peer[s] => t = s
         /\ \A t \in Ends : peer[t] = s => t = peer[s]
BY EndsFacts DEF Couples, Mutual, ListedOpen

\* A step that moves no data and makes no couple.
LEMMA StillStep ==
  ASSUME Buffers, UNCHANGED <<stream, inbox, inbuf, outbuf, transit>>,
         \A s \in Ends : peer'[s] # Null => peer'[s] = peer[s],
         Accepting' => Accepting /\ UNCHANGED cur
  PROVE  Buffers'
<1>1. Clean'
  BY DEF Buffers, Clean
<1>2. Fresh'
  BY DEF Buffers, Fresh
<1>3. Balanced'
  BY DEF Buffers, Balanced, Accounted
<1> QED BY <1>1, <1>2, <1>3 DEF Buffers

\* STREAMFlush: what leaves the output buffer of an end arrives.
LEMMA FlushKeeps ==
  ASSUME TypeOK, Couples, Buffers, NEW n, FlushTo(n), UNCHANGED <<stream, peer, inbox, inbuf>>,
         ~Accepting'
  PROVE  Buffers'
<1> DEFINE S == {s \in Ends : \E i \in 1..n : conns[i] = s}
<1>1. outbuf' = Flushed(S, outbuf) /\ transit' = Arrived(S, outbuf, transit)
  BY DEF FlushTo
<1> HIDE DEF S
<1>3. \A s \in Ends : outbuf'[s] = IF s \in S /\ Alive(s) THEN 0 ELSE outbuf[s]
  BY <1>1 DEF Flushed
<1>4. \A s \in Ends : transit'[s] = IF stream[s] = "open" /\ peer[s] \in S /\ Alive(peer[s])
                                    THEN transit[s] - outbuf[peer[s]] ELSE transit[s]
  BY <1>1 DEF Arrived
<1>5. Clean'
  BY <1>3, <1>4 DEF Buffers, Clean
<1>6. Balanced'
  <2> SUFFICES ASSUME NEW s \in Ends, peer[s] # Null
               PROVE  Accounted(s)'
    BY DEF Balanced
  <2>1. peer[s] \in Ends /\ stream[s] = "open"
    BY PeerFacts
  <2>2. transit[s] = inbox[s] + inbuf[s] + outbuf[peer[s]]
    BY DEF Buffers, Balanced, Accounted
  <2>3. CASE peer[s] \in S /\ Alive(peer[s])
    <3>1. outbuf'[peer[s]] = 0 /\ transit'[s] = transit[s] - outbuf[peer[s]]
      BY <1>3, <1>4, <2>1, <2>3
    <3> QED BY <2>1, <2>2, <3>1, DataFacts DEF Accounted
  <2>4. CASE ~(peer[s] \in S /\ Alive(peer[s]))
    <3>1. outbuf'[peer[s]] = outbuf[peer[s]] /\ transit'[s] = transit[s]
      BY <1>3, <1>4, <2>1, <2>4
    <3> QED BY <2>2, <3>1 DEF Accounted
  <2> QED BY <2>3, <2>4
<1>7. Fresh'
  BY DEF Fresh
<1> QED BY <1>5, <1>6, <1>7 DEF Buffers

\* STREAMReadBytes takes one unit out of what was under way on this side.
LEMMA Taken ==
  ASSUME TypeOK, NEW s \in Ends, TakeUnit(s)
  PROVE  /\ inbox'[s] + inbuf'[s] = inbox[s] + inbuf[s] - 1
         /\ \A t \in Ends : t # s => inbox'[t] = inbox[t] /\ inbuf'[t] = inbuf[t]
<1>1. PICK k \in 0..BuffSize :
        /\ inbox' = [inbox EXCEPT ![s] = @ - k] /\ inbuf' = [inbuf EXCEPT ![s] = @ + k - 1]
  BY DEF TakeUnit
<1>2. k \in Int
  BY DEF BuffSize
<1>3. inbox'[s] = inbox[s] - k /\ inbuf'[s] = inbuf[s] + k - 1
  BY <1>1, DataFacts
<1> QED BY <1>1, <1>2, <1>3, DataFacts

\* STREAMWriteBytes keeps the unit, or it arrives, or it is dropped.
LEMMA Written ==
  ASSUME TypeOK, NEW s \in Ends, NEW p \in Ends, PutUnit(s, p)
  PROVE  /\ \A t \in Ends : t # s => transit'[t] = transit[t]
         /\ \A t \in Ends : t # p => outbuf'[t] = outbuf[t]
         /\ transit'[s] - outbuf'[p] = transit[s] - outbuf[p] - 1
<1> DEFINE queued == outbuf[p] + 1
<1>1. queued \in 1..3 /\ queued - 1 = outbuf[p] /\ transit[s] \in Int
  BY DataFacts
<1>2. \/ /\ queued >= 2 /\ Alive(p) /\ outbuf' = [outbuf EXCEPT ![p] = 0]
         /\ transit' = [transit EXCEPT ![s] = @ - queued]
      \/ /\ ~(queued >= 2 /\ Alive(p))
         /\ outbuf' = [outbuf EXCEPT ![p] = IF queued >= 2 THEN 2 ELSE queued]
         /\ transit' = IF queued > 2 THEN [transit EXCEPT ![s] = @ - 1] ELSE transit
  BY DEF PutUnit, OutBuffSize
<1> HIDE DEF queued
<1>3. \A t \in Ends : t # s => transit'[t] = transit[t]
  BY <1>2, DataFacts
<1>4. \A t \in Ends : t # p => outbuf'[t] = outbuf[t]
  BY <1>2, DataFacts
<1>5. transit'[s] - outbuf'[p] = transit[s] - outbuf[p] - 1
  <2>1. CASE queued >= 2 /\ Alive(p)
    <3>1. outbuf'[p] = 0 /\ transit'[s] = transit[s] - queued
      BY <1>2, <2>1, DataFacts
    <3> QED BY <1>1, <3>1
  <2>2. CASE ~(queued >= 2 /\ Alive(p))
    <3>1. /\ outbuf'[p] = IF queued >= 2 THEN 2 ELSE queued
          /\ transit'[s] = IF queued > 2 THEN transit[s] - 1 ELSE transit[s]
      BY <1>2, <2>2, DataFacts
    <3> QED BY <1>1, <3>1
  <2> QED BY <2>1, <2>2
<1> QED BY <1>3, <1>4, <1>5

\* SSLProcess takes a unit from one end and gives it to the other.
LEMMA RelayKeeps ==
  ASSUME TypeOK, Couples, Buffers, NEW s \in Ends, Relay(s), TypeOK'
  PROVE  Buffers'
<1> DEFINE p == peer[s]
<1>1. /\ pc = "handle" /\ pc' = "reap" /\ cur = s /\ p # Null /\ TakeUnit(s) /\ PutUnit(s, p)
      /\ UNCHANGED <<stream, peer, dial, proc>>
  BY DEF Relay, pairVars, envVars
<1>2. /\ p \in Ends /\ p # s /\ peer[p] = s /\ stream[s] = "open" /\ stream[p] = "open"
      /\ \A t \in Ends : peer[t] = p => t = s
  BY <1>1, PeerFacts
<1> HIDE DEF p
<1>3. /\ inbox'[s] + inbuf'[s] = inbox[s] + inbuf[s] - 1
      /\ \A t \in Ends : t # s => inbox'[t] = inbox[t] /\ inbuf'[t] = inbuf[t]
  BY <1>1, Taken
<1>4. /\ \A t \in Ends : t # s => transit'[t] = transit[t]
      /\ \A t \in Ends : t # p => outbuf'[t] = outbuf[t]
      /\ transit'[s] - outbuf'[p] = transit[s] - outbuf[p] - 1
  BY <1>1, <1>2, Written
<1>6. Clean'
  BY <1>1, <1>2, <1>3, <1>4 DEF Buffers, Clean
<1>7. Fresh'
  BY <1>1 DEF Fresh, Accepting
<1>8. Balanced'
  <2> SUFFICES ASSUME NEW t \in Ends, peer[t] # Null
               PROVE  Accounted(t)'
    BY <1>1 DEF Balanced
  <2>1. peer[t] \in Ends /\ transit[t] = inbox[t] + inbuf[t] + outbuf[peer[t]]
    BY PeerFacts DEF Buffers, Balanced, Accounted
  <2>2. CASE t = s
    <3>1. peer[t] = p
      BY <2>2 DEF p
    <3>2. transit[s] = inbox[s] + inbuf[s] + outbuf[p]
      BY <2>1, <2>2, <3>1
    <3>3. inbox'[s] \in Int /\ inbuf'[s] \in Int /\ outbuf'[p] \in Int /\ transit'[s] \in Int
          /\ inbox[s] \in Int /\ inbuf[s] \in Int /\ outbuf[p] \in Int
      <4>1. /\ inbox' \in [Ends -> 0..InMax] /\ inbuf' \in [Ends -> 0..BuffSize]
            /\ outbuf' \in [Ends -> 0..OutBuffSize] /\ transit' \in [Ends -> Int]
        BY DEF TypeOK
      <4> QED BY <1>2, <4>1, DataFacts, InMaxAssumption DEF BuffSize, OutBuffSize
    <3>4. transit'[s] = inbox'[s] + inbuf'[s] + outbuf'[p]
      BY <1>3, <1>4, <3>1, <3>2, <3>3
    <3> QED BY <1>1, <2>2, <3>1, <3>4 DEF Accounted
  <2>3. CASE t # s
    <3>1. peer[t] # p
      BY <1>2, <2>3
    <3> QED BY <1>1, <1>3, <1>4, <2>1, <2>3, <3>1 DEF Accounted
  <2> QED BY <2>2, <2>3
<1> QED BY <1>6, <1>7, <1>8 DEF Buffers

\* SSLShutdownConnection frees the ends of one couple, or of one client, and no
\* Peer item leads to either from anywhere else.
LEMMA ShutdownFacts ==
  ASSUME TypeOK, Couples, NEW s \in Ends, Disconnect(s)
  PROVE  LET S == {s, peer[s]} \intersect Ends
         IN  /\ pc = "handle" /\ pc' = "reap" /\ cur = s /\ UNCHANGED <<dial, proc>>
             /\ \A t \in Ends : t \in S => stream'[t] = "closed" /\ peer'[t] = Null
                                           /\ inbox'[t] = 0 /\ inbuf'[t] = 0 /\ outbuf'[t] = 0
             /\ \A t \in Ends : t \notin S =>
                  /\ stream'[t] = stream[t] /\ peer'[t] = peer[t]
                  /\ inbox'[t] = inbox[t] /\ inbuf'[t] = inbuf[t]
                  /\ outbuf'[t] = outbuf[t] /\ transit'[t] = transit[t]
                  /\ peer[t] \notin S
             /\ transit' = Arrived(S, outbuf, transit)
<1> DEFINE S == {s, peer[s]} \intersect Ends
<1>1. /\ pc = "handle" /\ pc' = "reap" /\ cur = s /\ Freed(S) /\ UNCHANGED <<dial, proc>>
      /\ outbuf' = [t \in Ends |-> IF t \in S THEN 0 ELSE outbuf[t]]
      /\ transit' = Arrived(S, outbuf, transit)
  BY DEF Disconnect, Shutdown, envVars
<1>2. ASSUME NEW t \in Ends, t \notin S, peer[t] \in S PROVE FALSE
  <2>1. peer[t] # Null /\ peer[peer[t]] = t
    BY <1>2, EndsFacts, PeerFacts
  <2>2. peer[t] # s
    BY <1>2, <2>1
  <2>3. peer[t] = peer[s]
    BY <1>2, <2>2
  <2>4. peer[s] # Null
    BY <2>1, <2>3
  <2>5. t = s
    BY <2>3, <2>4, PeerFacts
  <2> QED BY <1>2, <2>5
<1> HIDE DEF S
<1>3. /\ \A t \in Ends : t \in S => stream'[t] = "closed" /\ peer'[t] = Null
                                    /\ inbox'[t] = 0 /\ inbuf'[t] = 0 /\ outbuf'[t] = 0
      /\ \A t \in Ends : t \notin S => stream'[t] = stream[t] /\ peer'[t] = peer[t]
                                       /\ inbox'[t] = inbox[t] /\ inbuf'[t] = inbuf[t]
                                       /\ outbuf'[t] = outbuf[t]
  BY <1>1 DEF Freed
<1>4. \A t \in Ends : t \notin S => transit'[t] = transit[t]
  BY <1>1, <1>2 DEF Arrived
<1> QED BY <1>1, <1>2, <1>3, <1>4 DEF S

\* SSLShutdownConnection: the couple goes, and with it all that was kept for it.
LEMMA DisconnectKeeps ==
  ASSUME TypeOK, Couples, Buffers, NEW s \in Ends, Disconnect(s)
  PROVE  Buffers'
<1> DEFINE S == {s, peer[s]} \intersect Ends
<1>1. /\ pc' = "reap"
      /\ \A t \in Ends : t \in S => stream'[t] = "closed" /\ peer'[t] = Null
                                    /\ inbox'[t] = 0 /\ inbuf'[t] = 0 /\ outbuf'[t] = 0
      /\ \A t \in Ends : t \notin S =>
           /\ stream'[t] = stream[t] /\ peer'[t] = peer[t]
           /\ inbox'[t] = inbox[t] /\ inbuf'[t] = inbuf[t]
           /\ outbuf'[t] = outbuf[t] /\ transit'[t] = transit[t]
           /\ peer[t] \notin S
  BY ShutdownFacts
<1> HIDE DEF S
<1>2. Clean'
  BY <1>1 DEF Buffers, Clean
<1>3. Fresh'
  BY <1>1 DEF Fresh, Accepting
<1>4. Balanced'
  <2> SUFFICES ASSUME NEW t \in Ends, peer'[t] # Null
               PROVE  Accounted(t)'
    BY DEF Balanced
  <2>1. t \notin S /\ peer'[t] = peer[t] /\ peer[t] # Null
    BY <1>1
  <2>2. peer[t] \in Ends /\ peer[t] \notin S
    BY <1>1, <2>1, PeerFacts
  <2> QED BY <1>1, <2>1, <2>2 DEF Buffers, Balanced, Accounted
<1> QED BY <1>2, <1>3, <1>4 DEF Buffers

\* A client that is turned away is closed before anything was read of it.
LEMMA RefuseKeeps ==
  ASSUME TypeOK, Couples, Buffers, NEW c \in Clients, Refuse(c)
  PROVE  Buffers'
<1> DEFINE a == Client(c)
<1>1. /\ pc = "auth" /\ pc' = "reap" /\ cur = a /\ Freed({a})
      /\ UNCHANGED <<outbuf, transit>>
  BY DEF Refuse
<1>2. a \in Ends /\ outbuf[a] = 0 /\ stream[a] = "open" /\ peer[a] = Null
  <2>1. a \in Ends /\ ~Listed(a)
    BY <1>1, EndsFacts DEF Couples, Hand, Accepting
  <2>2. peer[a] = Null
    BY <2>1 DEF Couples, Mutual
  <2>3. outbuf[a] = 0 /\ stream[a] = "open"
    BY <1>1, EndsFacts DEF Buffers, Fresh, Couples, Hand, Accepting
  <2> QED BY <2>1, <2>2, <2>3
<1> HIDE DEF a
<1>3. /\ stream'[a] = "closed" /\ peer'[a] = Null /\ inbox'[a] = 0 /\ inbuf'[a] = 0
      /\ \A t \in Ends : t # a => stream'[t] = stream[t] /\ peer'[t] = peer[t]
                                  /\ inbox'[t] = inbox[t] /\ inbuf'[t] = inbuf[t]
  BY <1>1, <1>2 DEF Freed
<1>4. Clean'
  BY <1>1, <1>2, <1>3 DEF Buffers, Clean
<1>5. Fresh'
  BY <1>1 DEF Fresh, Accepting
<1>6. Balanced'
  <2> SUFFICES ASSUME NEW t \in Ends, peer'[t] # Null
               PROVE  Accounted(t)'
    BY DEF Balanced
  <2>1. t # a /\ peer'[t] = peer[t] /\ peer[t] # Null
    BY <1>2, <1>3
  <2> QED BY <1>1, <1>3, <2>1 DEF Buffers, Balanced, Accounted
<1> QED BY <1>4, <1>5, <1>6 DEF Buffers

\* STREAMServerAccept: the stream is new, and so is its place.
LEMMA AcceptKeeps ==
  ASSUME TypeOK, Couples, Buffers, Accept
  PROVE  Buffers'
<1> DEFINE c == Head(backlog)
<1>1. /\ c \in Clients /\ cur' = Client(c) /\ stream' = [stream EXCEPT ![Client(c)] = "open"]
      /\ UNCHANGED <<peer, inbox, inbuf, outbuf, transit>>
  BY DEF Accept, dataVars, TypeOK
<1>2. stream[Client(c)] = "none" /\ stream[Pppd(c)] = "none"
  <2>1. 1 \in DOMAIN backlog /\ c = backlog[1]
    BY DEF Accept, TypeOK
  <2> QED BY <2>1 DEF Couples, Queue
<1> HIDE DEF c
<1>3. /\ Client(c) \in Ends /\ Pppd(c) \in Ends /\ Client(c) # Pppd(c)
      /\ \A t \in Ends : t # Client(c) => stream'[t] = stream[t]
  BY <1>1, EndsFacts, DataFacts
<1>4. Clean'
  BY <1>1, <1>2, <1>3 DEF Buffers, Clean
<1>5. Fresh'
  <2> SUFFICES ASSUME NEW d \in Clients, cur' = Client(d)
               PROVE  /\ stream'[Pppd(d)] = "none"
                      /\ inbuf'[Client(d)] = 0 /\ outbuf'[Client(d)] = 0
                      /\ transit'[Client(d)] = inbox'[Client(d)]
    BY DEF Fresh
  <2>1. d = c
    BY <1>1, EndsFacts
  <2> QED BY <1>1, <1>2, <1>3, <2>1 DEF Buffers, Clean
<1>6. Balanced'
  BY <1>1 DEF Buffers, Balanced, Accounted
<1> QED BY <1>4, <1>5, <1>6 DEF Buffers

\* SSLAcceptClient with a pppd: a couple of a fresh stream and a new one.
LEMMA LaunchKeeps ==
  ASSUME TypeOK, Couples, Buffers, NEW c \in Clients, Launch(c)
  PROVE  Buffers'
<1> DEFINE a == Client(c)
           b == Pppd(c)
<1>1. /\ pc = "launch" /\ pc' = "reap" /\ cur = a
      /\ stream' = [stream EXCEPT ![b] = "open"]
      /\ peer' = [peer EXCEPT ![b] = a, ![a] = b]
      /\ UNCHANGED <<inbox, inbuf, outbuf, transit>>
  BY DEF Launch, dataVars
<1>2. /\ a \in Ends /\ b \in Ends /\ a # b /\ Owner(a) = c /\ Owner(b) = c
      /\ \A t \in Ends : Owner(t) = c => t = a \/ t = b
  BY EndsFacts
<1>3. stream[b] = "none" /\ stream[a] = "open" /\ peer[a] = Null /\ peer[b] = Null
  <2>1. stream[b] = "none" /\ stream[a] = "open" /\ ~Listed(a)
    BY <1>1, EndsFacts DEF Buffers, Fresh, Couples, Hand, Accepting
  <2>2. ~Listed(b)
    BY <1>2, <2>1 DEF Couples, ListedOpen
  <2> QED BY <1>2, <2>1, <2>2 DEF Couples, Mutual
<1>4. /\ inbox[b] = 0 /\ inbuf[b] = 0 /\ outbuf[b] = 0 /\ transit[b] = 0
      /\ inbuf[a] = 0 /\ outbuf[a] = 0 /\ transit[a] = inbox[a] /\ inbox[a] \in Int
  BY <1>1, <1>2, <1>3, DataFacts DEF Buffers, Fresh, Clean, Accepting
<1> HIDE DEF a, b
<1>5. /\ stream'[b] = "open" /\ peer'[a] = b /\ peer'[b] = a
      /\ \A t \in Ends : t # b => stream'[t] = stream[t]
      /\ \A t \in Ends : t # a /\ t # b => peer'[t] = peer[t]
  BY <1>1, <1>2, DataFacts
<1>6. Clean'
  BY <1>1, <1>5 DEF Buffers, Clean
<1>7. Fresh'
  BY <1>1 DEF Fresh, Accepting
<1>8. Balanced'
  <2> SUFFICES ASSUME NEW t \in Ends, peer'[t] # Null
               PROVE  Accounted(t)'
    BY DEF Balanced
  <2>1. CASE t = a \/ t = b
    BY <1>1, <1>4, <1>5, <2>1 DEF Accounted
  <2>2. CASE t # a /\ t # b
    <3>1. peer'[t] = peer[t] /\ peer[t] # Null
      BY <1>5, <2>2
    <3>2. peer[t] \in Ends /\ peer[t] # a /\ peer[t] # b
      <4>1. peer[t] \in Ends /\ peer[peer[t]] = t /\ t # Null
        BY <3>1, PeerFacts, EndsFacts
      <4> QED BY <1>3, <4>1
    <3> QED BY <1>1, <3>1, <3>2 DEF Buffers, Balanced, Accounted
  <2> QED BY <2>1, <2>2
<1> QED BY <1>6, <1>7, <1>8 DEF Buffers

\* A client that connects takes a place in which nothing is left.
LEMMA DialKeeps ==
  ASSUME TypeOK, Couples, Buffers, NEW c \in Clients, Dial(c)
  PROVE  Buffers'
<1> DEFINE a == Client(c)
           b == Pppd(c)
<1>1. /\ a \in Ends /\ b \in Ends /\ \A t \in Ends : Owner(t) = c <=> t = a \/ t = b
  BY EndsFacts
<1>2. stream[a] # "open" /\ stream[b] # "open"
  BY DEF Dial, Couples, Idle
<1>3. /\ stream' = [s \in Ends |-> IF Owner(s) = c THEN "none" ELSE stream[s]]
      /\ transit' = [s \in Ends |-> IF Owner(s) = c THEN 0 ELSE transit[s]]
      /\ UNCHANGED <<pc, cur, peer, inbox, inbuf, outbuf>>
  BY DEF Dial, loopVars
<1>4. Accepting => cur # a
  BY <1>2 DEF Couples, Hand
<1> HIDE DEF a, b
<1>5. \A t \in Ends : IF t = a \/ t = b THEN stream'[t] = "none" /\ transit'[t] = 0
                      ELSE stream'[t] = stream[t] /\ transit'[t] = transit[t]
  BY <1>1, <1>3
<1>6. Clean'
  BY <1>2, <1>3, <1>5 DEF Buffers, Clean
<1>7. Fresh'
  <2> SUFFICES ASSUME Accepting, NEW d \in Clients, cur = Client(d)
               PROVE  /\ stream'[Pppd(d)] = "none"
                      /\ inbuf[Client(d)] = 0 /\ outbuf[Client(d)] = 0
                      /\ transit'[Client(d)] = inbox[Client(d)]
    BY <1>3 DEF Fresh, Accepting
  <2>1. /\ stream[Pppd(d)] = "none" /\ inbuf[Client(d)] = 0 /\ outbuf[Client(d)] = 0
        /\ transit[Client(d)] = inbox[Client(d)]
    BY DEF Buffers, Fresh
  <2>2. d # c
    BY <1>4 DEF a
  <2>3. Client(d) \in Ends /\ Pppd(d) \in Ends /\ Owner(Client(d)) = d /\ Owner(Pppd(d)) = d
    BY EndsFacts
  <2>4. Client(d) # a /\ Client(d) # b
    BY <1>1, <2>2, <2>3
  <2> QED BY <1>3, <1>5, <2>1, <2>2, <2>3, <2>4
<1>8. Balanced'
  <2> SUFFICES ASSUME NEW t \in Ends, peer[t] # Null
               PROVE  Accounted(t)'
    BY <1>3 DEF Balanced
  <2>1. t # a /\ t # b
    BY <1>2, PeerFacts
  <2> QED BY <1>3, <1>5, <2>1 DEF Buffers, Balanced, Accounted
<1> QED BY <1>6, <1>7, <1>8 DEF Buffers

\* What comes in at a stream waits there.
LEMMA SendKeeps ==
  ASSUME TypeOK, Couples, Buffers, NEW s \in Ends, Send(s)
  PROVE  Buffers'
<1>1. /\ stream[s] = "open" /\ inbox' = [inbox EXCEPT ![s] = @ + 1]
      /\ transit' = [transit EXCEPT ![s] = @ + 1]
      /\ UNCHANGED <<pc, cur, stream, peer, inbuf, outbuf>>
  BY DEF Send, loopVars, pairVars
<1>2. /\ inbox'[s] = inbox[s] + 1 /\ transit'[s] = transit[s] + 1
      /\ \A t \in Ends : t # s => inbox'[t] = inbox[t] /\ transit'[t] = transit[t]
  BY <1>1, DataFacts
<1>3. Clean'
  BY <1>1, <1>2 DEF Buffers, Clean
<1>4. Fresh'
  <2> SUFFICES ASSUME Accepting, NEW d \in Clients, cur = Client(d)
               PROVE  /\ stream[Pppd(d)] = "none"
                      /\ inbuf[Client(d)] = 0 /\ outbuf[Client(d)] = 0
                      /\ transit'[Client(d)] = inbox'[Client(d)]
    BY <1>1 DEF Fresh, Accepting
  <2>1. /\ stream[Pppd(d)] = "none" /\ inbuf[Client(d)] = 0 /\ outbuf[Client(d)] = 0
        /\ transit[Client(d)] = inbox[Client(d)] /\ Client(d) \in Ends
    BY EndsFacts DEF Buffers, Fresh
  <2> QED BY <1>2, <2>1, DataFacts
<1>5. Balanced'
  <2> SUFFICES ASSUME NEW t \in Ends, peer[t] # Null
               PROVE  Accounted(t)'
    BY <1>1 DEF Balanced
  <2>1. peer[t] \in Ends
    BY PeerFacts
  <2>2. transit[t] = inbox[t] + inbuf[t] + outbuf[peer[t]]
    BY <2>1 DEF Buffers, Balanced, Accounted
  <2>3. transit'[t] = inbox'[t] + inbuf[t] + outbuf[peer[t]]
    BY <1>2, <2>1, <2>2, DataFacts
  <2> QED BY <1>1, <2>3 DEF Accounted
<1> QED BY <1>3, <1>4, <1>5 DEF Buffers

\* Every step keeps the balance of the buffers.
LEMMA BuffersStep == TypeOK /\ Couples /\ Buffers /\ [Next]_vars => Buffers'
<1> SUFFICES ASSUME TypeOK, Couples, Buffers, [Next]_vars PROVE Buffers'
  OBVIOUS
<1>1. CASE FlushAndReturn \/ FlushAndWait
  <2>1. /\ UNCHANGED <<stream, peer, inbox, inbuf>> /\ ~Accepting'
        /\ \E n : FlushTo(n)
    BY <1>1 DEF FlushAndReturn, FlushAndWait, pairVars, Accepting
  <2> QED BY <2>1, FlushKeeps
<1>2. CASE \/ LoopCheck \/ BrokenPipe \/ Wake \/ Reap \/ Signal \/ UNCHANGED vars
           \/ \E c \in Clients : \/ Admit(c) \/ LaunchFailed(c) \/ Noise(c)
                                \/ NegotiationDone(c) \/ NegotiationFailed(c)
                                \/ HangUp(c) \/ PppdExit(c)
  <2>1. /\ UNCHANGED <<stream, inbox, inbuf, outbuf, transit>>
        /\ Accepting' => Accepting /\ UNCHANGED cur
    BY <1>2 DEF LoopCheck, BrokenPipe, Wake, Reap, Signal, Admit, LaunchFailed, Noise,
                NegotiationDone, NegotiationFailed, Negotiated, HangUp, PppdExit, vars,
                loopVars, pairVars, dataVars, Accepting
  <2>2. \A s \in Ends : peer'[s] # Null => peer'[s] = peer[s]
    BY <1>2, EndsFacts, DataFacts
       DEF LoopCheck, BrokenPipe, Wake, Reap, Signal, Admit, LaunchFailed, Noise,
           NegotiationDone, NegotiationFailed, HangUp, PppdExit, vars, pairVars
  <2> QED BY <2>1, <2>2, StillStep
<1>3. CASE \E s \in Ends : Relay(s) \/ Disconnect(s) \/ Send(s)
  BY <1>3, TypeStep, RelayKeeps, DisconnectKeeps, SendKeeps
<1>4. CASE \E c \in Clients : Refuse(c) \/ Launch(c) \/ Dial(c)
  BY <1>4, RefuseKeeps, LaunchKeeps, DialKeeps
<1>5. CASE Accept
  BY <1>5, AcceptKeeps
<1> QED BY <1>1, <1>2, <1>3, <1>4, <1>5
        DEF Next, ServerStep, AcceptStep, ClientStep

\* The server starts with nothing under way.
LEMMA BuffersInit == Init => Buffers
<1> SUFFICES ASSUME Init PROVE Buffers
  OBVIOUS
<1>1. Clean
  BY DEF Init, Clean
<1>2. Fresh /\ Balanced
  BY DEF Init, Fresh, Balanced, Accepting
<1> QED BY <1>1, <1>2 DEF Buffers

\* The buffers balance in every state the server reaches.
LEMMA BuffersHold == Spec => [](TypeOK /\ Couples /\ Buffers)
<1>1. Init => TypeOK /\ Couples /\ Buffers
  BY InitType, CouplesInit, BuffersInit
<1>2. TypeOK /\ Couples /\ Buffers /\ [Next]_vars => TypeOK' /\ Couples' /\ Buffers'
  BY TypeStep, CouplesStep, BuffersStep
<1> QED BY <1>1, <1>2, PTL DEF Spec

\* While both ends of a couple live, whatever came in at one and has not gone out
\* at the other is in the kernel, in an InputBuff or in an OutputBuff: SSLProcess
\* neither loses a byte nor relays one twice.
THEOREM NothingIsLostOrDoubled == Spec => []Conservation
<1>1. TypeOK /\ Couples /\ Buffers => Conservation
  BY DEF Buffers, Balanced, Accounted, Conservation
<1> QED BY <1>1, BuffersHold, PTL

\* When SSLShutdownConnection closes a couple because one end hung up, all that
\* this end had sent has arrived: the last flush empties what was buffered.
THEOREM LastBytesArrive == Spec => EofLosesNothing
<1>1. ASSUME TypeOK, Couples, Buffers,
             NEW s \in Ends, Disconnect(s), peer[s] # Null, Alive(peer[s])
      PROVE  transit'[s] = 0
  <2> DEFINE S == {s, peer[s]} \intersect Ends
  <2>1. inbuf[s] = 0 /\ inbox[s] = 0 /\ transit' = Arrived(S, outbuf, transit)
    BY <1>1 DEF Disconnect, Shutdown
  <2>2. stream[s] = "open" /\ peer[s] \in S
    BY <1>1, PeerFacts
  <2>3. transit[s] = outbuf[peer[s]]
    BY <1>1, <2>1, <2>2, DataFacts DEF Buffers, Balanced, Accounted
  <2> HIDE DEF S
  <2>4. transit'[s] = transit[s] - outbuf[peer[s]]
    BY <1>1, <2>1, <2>2 DEF Arrived
  <2> QED BY <1>1, <2>3, <2>4, DataFacts
<1>2. TypeOK /\ Couples /\ Buffers =>
        \A c \in Clients : \A s \in {Client(c), Pppd(c)} :
          (Disconnect(s) /\ peer[s] # Null /\ ~Alive(s) /\ Alive(peer[s])) => transit'[s] = 0
  BY <1>1, EndsFacts
<1> QED BY <1>2, BuffersHold, PTL DEF EofLosesNothing

----------------------------------------------------------------------------
(* Each client's connection.  Every step of the server is, to each client, a *)
(* step of Connection or none.                                               *)

\* Nobody's streams are out of step with one another
Whole == \A c \in Clients : Phase(c) # "torn"

\* STREAMSelect returns an end for a reason, and none but a TLS record without
\* data is a read of no bytes on a connection whose other side is there
Chosen ==
  pc = "handle" /\ cur \in Ends =>
    \/ inbox[cur] + inbuf[cur] > 0
    \/ ~Alive(cur)
    \/ \E c \in Clients : cur = Client(c) /\ noise[c]

Silent == ~EmptyReads => \A c \in Clients : ~noise[c]

Unborn == \A c \in Clients : dial[c] = "idle" => proc[c] # "running"

\* With TypeOK, Couples and Buffers
Connected == Whole /\ Chosen /\ Silent /\ Unborn

\* What a couple has under way is never less than nothing (this from Buffers)
Positive == \A s \in Ends : peer[s] # Null => transit[s] \in Nat

\* What the buffers of a couple hold is a number.
LEMMA UnderWay == TypeOK /\ Couples /\ Buffers => Positive
<1> SUFFICES ASSUME TypeOK, Couples, Buffers, NEW s \in Ends, peer[s] # Null
             PROVE  transit[s] \in Nat
  BY DEF Positive
<1>1. transit[s] = inbox[s] + inbuf[s] + outbuf[peer[s]] /\ peer[s] \in Ends
  BY PeerFacts DEF Buffers, Balanced, Accounted
<1> QED BY <1>1, DataFacts

\* The phases, one by one.
PhaseIs(c, p) ==
  LET front == stream[Client(c)]
      back  == stream[Pppd(c)]
      here  == InHand(Client(c))
  IN  \/ p = "none" /\ front = "none" /\ back = "none"
      \/ p = "accepting" /\ front = "open" /\ back = "none" /\ here
      \/ p = "alone" /\ front = "open" /\ back = "none" /\ ~here
      \/ /\ p = "coupled" /\ front = "open" /\ back = "open"
         /\ peer[Client(c)] = Pppd(c) /\ peer[Pppd(c)] = Client(c)
      \/ p = "closed" /\ front = "closed" /\ back # "open"

LEMMA PhaseMeans ==
  ASSUME NEW c \in Clients, NEW p
  PROVE  /\ PhaseIs(c, p) => Phase(c) = p
         /\ Phase(c) # "torn" => PhaseIs(c, Phase(c))
BY DEF Phase, PhaseIs

\* The same after a step.
LEMMA PhaseMeansNext ==
  ASSUME NEW c \in Clients, NEW p, PhaseIs(c, p)'
  PROVE  Phase(c)' = p
BY DEF Phase, PhaseIs

\* Who is there, and what is under way, at a client's two ends.
LEMMA LiveFacts ==
  ASSUME NEW c \in Clients
  PROVE  /\ Live(c) \subseteq {"client", "pppd"}
         /\ "client" \in Live(c) <=> dial[c] = "up"
         /\ "pppd" \in Live(c) <=> proc[c] = "running"
         /\ Alive(Client(c)) <=> dial[c] = "up"
         /\ Alive(Pppd(c)) <=> proc[c] = "running"
BY DEF Live, Alive, Owner, Client, Pppd

\* The same after a step.
LEMMA LiveFactsNext ==
  ASSUME NEW c \in Clients
  PROVE  /\ Live(c)' \subseteq {"client", "pppd"}
         /\ "client" \in Live(c)' <=> dial'[c] = "up"
         /\ "pppd" \in Live(c)' <=> proc'[c] = "running"
BY DEF Live, Alive, Owner, Client, Pppd

\* Nobody comes and nobody goes.
LEMMA LiveSame ==
  ASSUME NEW c \in Clients, (dial'[c] = "up") <=> (dial[c] = "up"),
         (proc'[c] = "running") <=> (proc[c] = "running")
  PROVE  Live(c)' = Live(c)
<1>1. \A e \in {"client", "pppd"} : Alive(<<e, c>>)' <=> Alive(<<e, c>>)
  BY DEF Alive, Owner
<1> QED BY <1>1 DEF Live

\* What a step is to client c.
Linked(c) == [Connection(c)!Next]_(Connection(c)!vars)

\* A step that leaves the two ends of a client as they are is none to it.
LEMMA Apart ==
  ASSUME NEW c \in Clients,
         \A s \in {Client(c), Pppd(c)} :
           stream'[s] = stream[s] /\ peer'[s] = peer[s] /\ transit'[s] = transit[s],
         (dial'[c] = "up") <=> (dial[c] = "up"),
         (proc'[c] = "running") <=> (proc[c] = "running"),
         InHand(Client(c))' <=> InHand(Client(c))
  PROVE  Linked(c)
<1>1. Phase(c)' = Phase(c)
  BY DEF Phase
<1>2. Live(c)' = Live(c)
  BY LiveSame
<1>3. Way(c)' = Way(c)
  BY DEF Way, Client, Pppd
<1> QED BY <1>1, <1>2, <1>3 DEF Linked, Connection!vars

\* The passes of the loop in which nothing moves, and what leaves all ends alone.
LEMMA IdleLinks ==
  ASSUME NEW c \in Clients, UNCHANGED <<stream, peer, transit, dial>>,
         (proc'[c] = "running") <=> (proc[c] = "running"),
         Accepting' <=> Accepting, Accepting => UNCHANGED cur
  PROVE  Linked(c)
<1>1. InHand(Client(c))' <=> InHand(Client(c))
  BY DEF InHand, Accepting
<1> QED BY <1>1, Apart

\* A step that only takes from what is under way in a couple hands it on.
LEMMA HandsOn ==
  ASSUME TypeOK, Couples, Positive, Positive', Whole, NEW c \in Clients,
         UNCHANGED <<stream, peer, dial, proc>>, ~Accepting, ~Accepting',
         \A s \in Ends : peer[s] = Null => transit'[s] = transit[s],
         \A s \in Ends : peer[s] # Null => transit'[s] <= transit[s]
  PROVE  Linked(c)
<1>0. Client(c) \in Ends /\ Pppd(c) \in Ends
  BY EndsFacts
<1>1. InHand(Client(c))' <=> InHand(Client(c))
  BY DEF InHand, Accepting
<1>2. Phase(c)' = Phase(c) /\ Live(c)' = Live(c)
  BY <1>1, LiveSame DEF Phase
<1>3. CASE Phase(c) = "coupled"
  <2>1. PhaseIs(c, "coupled")
    BY <1>3, PhaseMeans
  <2>2. \A s \in {Client(c), Pppd(c)} : peer[s] # Null /\ peer'[s] # Null
    BY <1>0, <2>1, EndsFacts DEF PhaseIs
  <2>3. \A s \in {Client(c), Pppd(c)} :
          transit[s] \in Nat /\ transit'[s] \in Nat /\ transit'[s] <= transit[s]
    BY <1>0, <2>2 DEF Positive
  <2>4. \A e \in {"client", "pppd"} : Way(c)'[e] \in 0..Way(c)[e]
    BY <2>3 DEF Way, Client, Pppd
  <2>5. Connection(c)!Deliver
    BY <1>2, <1>3, <2>4 DEF Connection!Deliver, Connection!Drains, Connection!Sides
  <2> QED BY <2>5 DEF Linked, Connection!Next
<1>4. CASE Phase(c) # "coupled"
  <2>1. PhaseIs(c, Phase(c))
    BY PhaseMeans DEF Whole
  <2>2. \A s \in {Client(c), Pppd(c)} : stream[s] = "open" => peer[s] = Null
    <3> SUFFICES ASSUME NEW s \in {Client(c), Pppd(c)}, peer[s] # Null PROVE FALSE
      OBVIOUS
    <3>1. /\ peer[s] \in Ends /\ peer[s] # s /\ peer[peer[s]] = s /\ Owner(peer[s]) = c
          /\ stream[s] = "open" /\ stream[peer[s]] = "open"
      BY <1>0, EndsFacts, PeerFacts DEF Couples, Mutual
    <3>2. PhaseIs(c, "coupled")
      BY <3>1, EndsFacts DEF PhaseIs
    <3> QED BY <1>4, <3>2, PhaseMeans
  <2>3. \A s \in {Client(c), Pppd(c)} : peer[s] = Null
    BY <1>0, <2>2, PeerFacts
  <2>4. \A s \in {Client(c), Pppd(c)} : transit'[s] = transit[s]
    BY <1>0, <2>3
  <2> QED BY <1>1, <2>4, Apart
<1> QED BY <1>3, <1>4

\* STREAMSelect's flush hands on what is in the output buffers.
LEMMA FlushLinks ==
  ASSUME TypeOK, Couples, Positive, Positive', Whole, NEW c \in Clients,
         FlushAndReturn \/ FlushAndWait
  PROVE  Linked(c)
<1>1. PICK n : FlushTo(n)
  BY DEF FlushAndReturn, FlushAndWait
<1>2. UNCHANGED <<stream, peer, dial, proc>> /\ ~Accepting /\ ~Accepting'
  BY DEF FlushAndReturn, FlushAndWait, pairVars, envVars, Accepting
<1> DEFINE S == {s \in Ends : \E i \in 1..n : conns[i] = s}
<1>3. \A s \in Ends : transit'[s] = IF stream[s] = "open" /\ peer[s] \in S /\ Alive(peer[s])
                                    THEN transit[s] - outbuf[peer[s]] ELSE transit[s]
  BY <1>1 DEF FlushTo, Arrived
<1>4. S \subseteq Ends
  OBVIOUS
<1> HIDE DEF S
<1>5. \A s \in Ends : peer[s] = Null => transit'[s] = transit[s]
  BY <1>3, <1>4, EndsFacts
<1>6. \A s \in Ends : peer[s] # Null => transit'[s] <= transit[s]
  <2> SUFFICES ASSUME NEW s \in Ends, peer[s] # Null PROVE transit'[s] <= transit[s]
    OBVIOUS
  <2>1. peer[s] \in Ends
    BY PeerFacts
  <2>2. outbuf[peer[s]] \in 0..2 /\ transit[s] \in Int
    BY <2>1, DataFacts
  <2> QED BY <1>3, <2>2
<1> QED BY <1>2, <1>5, <1>6, HandsOn

\* SSLProcess hands one unit on, or drops what has nobody left to come to.
LEMMA RelayLinks ==
  ASSUME TypeOK, Couples, Positive, Positive', Whole, NEW c \in Clients,
         NEW s \in Ends, Relay(s)
  PROVE  Linked(c)
<1>1. /\ peer[s] # Null /\ PutUnit(s, peer[s])
      /\ UNCHANGED <<stream, peer, dial, proc>> /\ ~Accepting /\ ~Accepting'
  BY DEF Relay, pairVars, envVars, Accepting
<1>2. peer[s] \in Ends
  BY <1>1, PeerFacts
<1>3. \A t \in Ends : t # s => transit'[t] = transit[t]
  BY <1>1, <1>2, Written
<1>4. transit'[s] <= transit[s]
  <2>1. outbuf[peer[s]] \in 0..2 /\ transit[s] \in Int
    BY <1>2, DataFacts
  <2>2. \/ transit' = [transit EXCEPT ![s] = @ - (outbuf[peer[s]] + 1)]
        \/ transit' = [transit EXCEPT ![s] = @ - 1]
        \/ transit' = transit
    BY <1>1 DEF PutUnit
  <2> QED BY <2>1, <2>2, DataFacts
<1>5. \A t \in Ends : peer[t] # Null => transit'[t] <= transit[t]
  BY <1>3, <1>4, DataFacts
<1> QED BY <1>1, <1>3, <1>5, HandsOn

\* The connection being accepted is in hand, and nobody else's is.
LEMMA InHandFacts ==
  ASSUME TypeOK, Couples, Buffers, NEW c \in Clients, Accepting, cur = Client(c)
  PROVE  /\ stream[Client(c)] = "open" /\ stream[Pppd(c)] = "none" /\ ~Listed(Client(c))
         /\ peer[Client(c)] = Null /\ Phase(c) = "accepting"
         /\ \A d \in Clients : d # c => ~InHand(Client(d))
<1>1. /\ stream[Client(c)] = "open" /\ ~Listed(Client(c)) /\ Client(c) \in Ends
      /\ stream[Pppd(c)] = "none"
  BY EndsFacts DEF Couples, Hand, Buffers, Fresh
<1>2. peer[Client(c)] = Null
  BY <1>1 DEF Couples, Mutual
<1>3. \A d \in Clients : d # c => ~InHand(Client(d))
  BY EndsFacts DEF InHand
<1>4. PhaseIs(c, "accepting")
  BY <1>1 DEF PhaseIs, InHand, Accepting
<1> QED BY <1>1, <1>2, <1>3, <1>4, PhaseMeans

\* What concerns the ends of one client is nothing to another.
LEMMA ApartFrom ==
  ASSUME TypeOK, NEW c \in Clients, NEW d \in Clients, d # c,
         \A s \in Ends : Owner(s) # c =>
           stream'[s] = stream[s] /\ peer'[s] = peer[s] /\ transit'[s] = transit[s],
         dial'[d] = dial[d], proc'[d] = proc[d],
         InHand(Client(d))' <=> InHand(Client(d))
  PROVE  Linked(d)
BY Apart, EndsFacts

\* STREAMServerAccept is the start of a client's connection.
LEMMA AcceptLinks ==
  ASSUME TypeOK, Couples, NEW d \in Clients, Accept
  PROVE  Linked(d)
<1>0. PICK c \in Clients : c = Head(backlog)
  BY DEF Accept, TypeOK
<1>1. /\ cur' = Client(c) /\ stream' = [stream EXCEPT ![Client(c)] = "open"]
      /\ UNCHANGED <<peer, dial, proc, transit>> /\ ~Accepting /\ pc' = "negotiate"
  BY <1>0 DEF Accept, dataVars, Accepting
<1>2. stream[Client(c)] = "none" /\ stream[Pppd(c)] = "none"
  <2>1. 1 \in DOMAIN backlog /\ c = backlog[1]
    BY <1>0 DEF Accept, TypeOK
  <2> QED BY <2>1 DEF Couples, Queue
<1>3. \A s \in Ends : s # Client(c) => stream'[s] = stream[s]
  BY <1>1, DataFacts
<1>4. CASE d = c
  <2>1. Phase(c) = "none"
    BY <1>1, <1>2, PhaseMeans DEF PhaseIs
  <2>2. stream'[Client(c)] = "open" /\ stream'[Pppd(c)] = "none"
    BY <1>1, <1>2, <1>3, EndsFacts, DataFacts
  <2>3. PhaseIs(c, "accepting")'
    BY <1>1, <2>2 DEF PhaseIs, InHand
  <2>4. Phase(c)' = "accepting"
    BY <2>3, PhaseMeansNext
  <2>5. Live(c)' = Live(c) /\ Way(c)' = Way(c)
    BY <1>1, LiveSame DEF Way
  <2>6. Connection(c)!Accept
    BY <2>1, <2>4, <2>5 DEF Connection!Accept
  <2> QED BY <1>4, <2>6 DEF Linked, Connection!Next
<1>5. CASE d # c
  <2>1. ~InHand(Client(d)) /\ ~InHand(Client(d))'
    BY <1>1, <1>5, EndsFacts DEF InHand, Accepting
  <2> QED BY <1>1, <1>3, <1>5, <2>1, EndsFacts, ApartFrom
<1> QED BY <1>4, <1>5

\* The end of the negotiation is when its client comes.
LEMMA NegotiationLinks ==
  ASSUME TypeOK, Couples, Buffers, NEW c \in Clients, NEW d \in Clients, NegotiationDone(c)
  PROVE  Linked(d)
<1>1. /\ pc = "negotiate" /\ pc' = "auth" /\ cur = Client(c)
      /\ dial' = [dial EXCEPT ![c] = "up"]
      /\ UNCHANGED <<cur, stream, peer, proc, transit>>
  BY DEF NegotiationDone, Negotiated, dataVars
<1>2. \A t \in Clients : InHand(Client(t))' <=> InHand(Client(t))
  BY <1>1 DEF InHand
<1>3. /\ dial'[c] = "up"
      /\ \A t \in Clients : t # c => dial'[t] = dial[t]
  BY <1>1 DEF TypeOK
<1>4. CASE d = c
  <2>1. Phase(c) = "accepting"
    BY <1>1, InHandFacts DEF Accepting
  <2>2. Phase(c)' = Phase(c)
    BY <1>1, <1>2 DEF Phase
  <2>3. Live(c)' = Live(c) \union {"client"} /\ Way(c)' = Way(c)
    BY <1>1, <1>3, LiveFacts, LiveFactsNext DEF Way
  <2>4. Connection(c)!Come
    BY <2>1, <2>2, <2>3 DEF Connection!Come
  <2> QED BY <1>4, <2>4 DEF Linked, Connection!Next
<1>5. CASE d # c
  BY <1>1, <1>2, <1>3, <1>5, ApartFrom
<1> QED BY <1>4, <1>5

\* A client turned away has its own connection closed and no other.
LEMMA RefuseLinks ==
  ASSUME TypeOK, Couples, Buffers, NEW c \in Clients, NEW d \in Clients, Refuse(c)
  PROVE  Linked(d)
<1>1. /\ pc = "auth" /\ pc' = "reap" /\ cur = Client(c) /\ Freed({Client(c)})
      /\ UNCHANGED <<cur, dial, proc, transit>>
  BY DEF Refuse, envVars
<1>2. /\ stream'[Client(c)] = "closed"
      /\ \A s \in Ends : s # Client(c) => stream'[s] = stream[s] /\ peer'[s] = peer[s]
  BY <1>1, EndsFacts DEF Freed
<1>3. \A t \in Clients : t # c => (InHand(Client(t))' <=> InHand(Client(t)))
  BY <1>1, EndsFacts DEF InHand
<1>4. CASE d = c
  <2>1. Phase(c) = "accepting" /\ stream[Pppd(c)] = "none"
    BY <1>1, InHandFacts DEF Accepting
  <2>2. PhaseIs(c, "closed")'
    BY <1>2, <2>1, EndsFacts DEF PhaseIs
  <2>3. Phase(c)' = "closed"
    BY <2>2, PhaseMeansNext
  <2>4. Live(c)' = Live(c) /\ Way(c)' = Way(c)
    BY <1>1, LiveSame DEF Way
  <2>5. Connection(c)!Refuse
    BY <2>1, <2>3, <2>4 DEF Connection!Refuse
  <2> QED BY <1>4, <2>5 DEF Linked, Connection!Next
<1>5. CASE d # c
  BY <1>1, <1>2, <1>3, <1>5, EndsFacts, ApartFrom
<1> QED BY <1>4, <1>5

\* SSLAcceptClient couples the client, or leaves it alone with the NULL item.
LEMMA LaunchLinks ==
  ASSUME TypeOK, Couples, Buffers, NEW c \in Clients, NEW d \in Clients,
         Launch(c) \/ LaunchFailed(c)
  PROVE  Linked(d)
<1>1. /\ pc = "launch" /\ pc' = "reap" /\ cur = Client(c) /\ UNCHANGED <<cur, dial, transit>>
  BY DEF Launch, LaunchFailed, envVars, dataVars
<1>2. /\ stream[Client(c)] = "open" /\ stream[Pppd(c)] = "none" /\ peer[Client(c)] = Null
      /\ Phase(c) = "accepting"
  BY <1>1, InHandFacts DEF Accepting
<1>3. /\ ~InHand(Client(c))'
      /\ \A t \in Clients : t # c => (InHand(Client(t))' <=> InHand(Client(t)))
  BY <1>1, EndsFacts DEF InHand
<1>4. /\ \A s \in Ends : Owner(s) # c => stream'[s] = stream[s] /\ peer'[s] = peer[s]
      /\ \A t \in Clients : t # c => proc'[t] = proc[t]
  <2>1. CASE Launch(c)
    BY <2>1, EndsFacts, DataFacts DEF Launch, TypeOK
  <2>2. CASE LaunchFailed(c)
    BY <2>2, EndsFacts, DataFacts DEF LaunchFailed, envVars
  <2> QED BY <2>1, <2>2
<1>5. CASE d # c
  BY <1>1, <1>3, <1>4, <1>5, ApartFrom
<1>6. CASE d = c /\ Launch(c)
  <2>1. /\ stream'[Client(c)] = "open" /\ stream'[Pppd(c)] = "open"
        /\ peer'[Client(c)] = Pppd(c) /\ peer'[Pppd(c)] = Client(c) /\ proc'[c] = "running"
    BY <1>2, <1>6, EndsFacts, DataFacts DEF Launch, TypeOK
  <2>2. PhaseIs(c, "coupled")'
    BY <2>1 DEF PhaseIs
  <2>3. Phase(c)' = "coupled"
    BY <2>2, PhaseMeansNext
  <2>4. Live(c)' = Live(c) \union {"pppd"} /\ Way(c)' = Way(c)
    BY <1>1, <2>1, LiveFacts, LiveFactsNext DEF Way
  <2>5. Connection(c)!Couple
    BY <1>2, <2>3, <2>4 DEF Connection!Couple
  <2> QED BY <1>6, <2>5 DEF Linked, Connection!Next
<1>7. CASE d = c /\ LaunchFailed(c)
  <2>1. UNCHANGED <<stream, proc>>
    BY <1>7 DEF LaunchFailed, envVars
  <2>2. PhaseIs(c, "alone")'
    BY <1>2, <1>3, <2>1 DEF PhaseIs
  <2>3. Phase(c)' = "alone"
    BY <2>2, PhaseMeansNext
  <2>4. Live(c)' = Live(c) /\ Way(c)' = Way(c)
    BY <1>1, <2>1, LiveFacts, LiveFactsNext DEF Way
  <2>5. Connection(c)!LeftAlone
    BY <1>2, <2>3, <2>4 DEF Connection!LeftAlone
  <2> QED BY <1>7, <2>5 DEF Linked, Connection!Next
<1> QED BY <1>5, <1>6, <1>7

\* What comes in at an end is on its way from there.
LEMMA SendLinks ==
  ASSUME TypeOK, Couples, Whole, NEW s \in Ends, NEW d \in Clients, Send(s)
  PROVE  Linked(d)
<1> DEFINE c == s[2]
           e == s[1]
<1>1. /\ stream[s] = "open" /\ Alive(s) /\ transit' = [transit EXCEPT ![s] = @ + 1]
      /\ UNCHANGED <<pc, cur, stream, peer, dial, proc>>
  BY DEF Send, loopVars, pairVars, envVars
<1>2. c \in Clients /\ e \in {"client", "pppd"} /\ s = <<e, c>> /\ Owner(s) = c
      /\ (e = "client" => s = Client(c)) /\ (e = "pppd" => s = Pppd(c))
  BY DEF Ends, Owner, Client, Pppd
<1> HIDE DEF c, e
<1>3. /\ transit'[s] = transit[s] + 1
      /\ \A t \in Ends : t # s => transit'[t] = transit[t]
  BY <1>1, DataFacts
<1>4. InHand(Client(d))' <=> InHand(Client(d))
  BY <1>1 DEF InHand
<1>5. CASE d = c
  <2>1. PhaseIs(c, Phase(c))
    BY <1>2, PhaseMeans DEF Whole
  <2>2. Phase(c) \notin {"none", "closed"}
    BY <1>1, <1>2, <2>1 DEF PhaseIs
  <2>3. Phase(c)' = Phase(c) /\ Live(c)' = Live(c) /\ e \in Live(c)
    <3>1. Phase(c)' = Phase(c)
      BY <1>1, <1>4, <1>5 DEF Phase
    <3>2. Live(c)' = Live(c)
      BY <1>1, <1>2, LiveSame
    <3>3. e \in Live(c)
      BY <1>1, <1>2 DEF Live
    <3> QED BY <3>1, <3>2, <3>3
  <2>4. Way(c)' = [Way(c) EXCEPT ![e] = @ + 1]
    <3>1. \A f \in {"client", "pppd"} : <<f, c>> \in Ends /\ (<<f, c>> = s <=> f = e)
      BY <1>2 DEF Ends
    <3> QED BY <1>2, <1>3, <3>1 DEF Way
  <2>5. Connection(c)!Send(e)
    BY <2>2, <2>3, <2>4 DEF Connection!Send
  <2> QED BY <1>2, <1>5, <2>5 DEF Linked, Connection!Next, Connection!Sides
<1>6. CASE d # c
  <2>1. \A t \in Ends : Owner(t) # c => transit'[t] = transit[t]
    BY <1>2, <1>3
  <2> QED BY <1>1, <1>2, <1>4, <1>6, <2>1, ApartFrom
<1> QED BY <1>5, <1>6

\* A client's place is taken again after both its ends were closed.
LEMMA DialLinks ==
  ASSUME TypeOK, Couples, Buffers, Unborn, NEW c \in Clients, NEW d \in Clients, Dial(c)
  PROVE  Linked(d)
<1>1. /\ dial' = [dial EXCEPT ![c] = "dialling"] /\ proc' = [proc EXCEPT ![c] = "none"]
      /\ stream' = [s \in Ends |-> IF Owner(s) = c THEN "none" ELSE stream[s]]
      /\ transit' = [s \in Ends |-> IF Owner(s) = c THEN 0 ELSE transit[s]]
      /\ UNCHANGED <<pc, cur, peer>>
  BY DEF Dial, loopVars
<1>2. /\ dial'[c] = "dialling" /\ proc'[c] = "none"
      /\ \A t \in Clients : t # c => dial'[t] = dial[t] /\ proc'[t] = proc[t]
  BY <1>1 DEF TypeOK
<1>3. /\ \A s \in {Client(c), Pppd(c)} : stream'[s] = "none" /\ transit'[s] = 0
      /\ \A s \in Ends : Owner(s) # c => stream'[s] = stream[s] /\ transit'[s] = transit[s]
  BY <1>1, EndsFacts
<1>4. InHand(Client(d))' <=> InHand(Client(d))
  BY <1>1 DEF InHand
<1>5. CASE d # c
  BY <1>1, <1>2, <1>3, <1>4, <1>5, ApartFrom
<1>6. CASE d = c
  <2>1. dial[c] # "up" /\ proc[c] # "running"
    BY DEF Dial, Unborn
  <2>2. Live(c) = {} /\ Live(c)' = {}
    BY <1>2, <2>1, LiveFacts, LiveFactsNext
  <2>3. PhaseIs(c, "none")'
    BY <1>3 DEF PhaseIs
  <2>4. Phase(c)' = "none"
    BY <2>3, PhaseMeansNext
  <2>5. Way(c)' = [e \in {"client", "pppd"} |-> 0]
    BY <1>3 DEF Way, Client, Pppd
  <2>6. CASE dial[c] = "idle"
    <3>1. stream[Client(c)] = "none" /\ stream[Pppd(c)] = "none"
      BY <2>6 DEF Couples, Idle
    <3>2. Phase(c) = "none"
      BY <3>1, PhaseMeans DEF PhaseIs
    <3>3. Way(c) = [e \in {"client", "pppd"} |-> 0]
      BY <3>1, EndsFacts DEF Way, Client, Pppd, Buffers, Clean
    <3> QED BY <1>6, <2>2, <2>4, <2>5, <3>2, <3>3 DEF Linked, Connection!vars
  <2>7. CASE dial[c] # "idle"
    <3>1. PhaseIs(c, "closed")
      BY <2>7 DEF Dial, PhaseIs
    <3>2. Phase(c) = "closed"
      BY <3>1, PhaseMeans
    <3>3. Connection(c)!Renew
      BY <2>2, <2>4, <2>5, <3>2 DEF Connection!Renew, Connection!Sides
    <3> QED BY <1>6, <3>3 DEF Linked, Connection!Next
  <2> QED BY <2>6, <2>7
<1> QED BY <1>5, <1>6

\* A side that goes is noticed by nobody else yet.
LEMMA LeaveLinks ==
  ASSUME TypeOK, NEW c \in Clients, NEW d \in Clients, HangUp(c) \/ PppdExit(c)
  PROVE  Linked(d)
<1>1. UNCHANGED <<pc, cur, stream, peer, transit>>
  BY DEF HangUp, PppdExit, loopVars, pairVars, dataVars
<1>2. \/ dial' = [dial EXCEPT ![c] = "gone"] /\ proc' = proc
      \/ proc[c] = "running" /\ proc' = [proc EXCEPT ![c] = "exited"] /\ dial' = dial
  BY DEF HangUp, PppdExit
<1>3. InHand(Client(d))' <=> InHand(Client(d))
  BY <1>1 DEF InHand
<1>4. CASE d # c
  BY <1>1, <1>2, <1>3, <1>4, ApartFrom DEF TypeOK
<1>5. CASE d = c
  <2>1. Phase(c)' = Phase(c) /\ Way(c)' = Way(c)
    BY <1>1, <1>3, <1>5 DEF Phase, Way
  <2>2. \/ Live(c)' = Live(c)
        \/ "client" \in Live(c) /\ Live(c)' = Live(c) \ {"client"}
        \/ "pppd" \in Live(c) /\ Live(c)' = Live(c) \ {"pppd"}
    <3>1. CASE dial' = [dial EXCEPT ![c] = "gone"] /\ proc' = proc
      <4>1. dial'[c] # "up" /\ proc'[c] = proc[c]
        BY <3>1 DEF TypeOK
      <4>2. CASE dial[c] = "up"
        BY <4>1, <4>2, LiveFacts, LiveFactsNext
      <4>3. CASE dial[c] # "up"
        BY <4>1, <4>3, LiveSame
      <4> QED BY <4>2, <4>3
    <3>2. CASE proc[c] = "running" /\ proc' = [proc EXCEPT ![c] = "exited"] /\ dial' = dial
      <4>1. proc[c] = "running" /\ proc'[c] # "running" /\ dial'[c] = dial[c]
        BY <3>2 DEF TypeOK
      <4> QED BY <4>1, LiveFacts, LiveFactsNext
    <3> QED BY <1>2, <3>1, <3>2
  <2> QED BY <1>5, <2>1, <2>2
          DEF Linked, Connection!Next, Connection!vars, Connection!Leave, Connection!Sides
<1> QED BY <1>4, <1>5

\* SSLShutdownConnection closes the couple, or the client left alone.
LEMMA DisconnectLinks ==
  ASSUME TypeOK, Couples, Buffers, Positive, Connected,
         NEW s \in Ends, NEW d \in Clients, Disconnect(s)
  PROVE  Linked(d)
<1> DEFINE S == {s, peer[s]} \intersect Ends
<1>0. PICK c \in Clients : c = Owner(s) /\ (s = Client(c) \/ s = Pppd(c))
  BY EndsFacts
<1>1. /\ pc = "handle" /\ pc' = "reap" /\ cur = s /\ UNCHANGED <<dial, proc>>
      /\ \A t \in Ends : t \in S => stream'[t] = "closed" /\ peer'[t] = Null
      /\ \A t \in Ends : t \notin S => stream'[t] = stream[t] /\ peer'[t] = peer[t]
                                       /\ transit'[t] = transit[t]
      /\ transit' = Arrived(S, outbuf, transit)
  BY ShutdownFacts
<1>2. \A t \in Ends : transit'[t] = IF stream[t] = "open" /\ peer[t] \in S /\ Alive(peer[t])
                                    THEN transit[t] - outbuf[peer[t]] ELSE transit[t]
  BY <1>1 DEF Arrived
<1>3. s \in S /\ \A t \in S : Owner(t) = c
  BY <1>0, EndsFacts DEF Couples, Mutual
<1>4. stream[s] = "open"
  BY <1>1 DEF Couples, Handled, ListedOpen
<1>5. ~InHand(Client(d)) /\ ~InHand(Client(d))'
  BY <1>1 DEF InHand
<1>6. CASE d # c
  <2>1. \A t \in Ends : Owner(t) # c => t \notin S
    BY <1>3
  <2> HIDE DEF S
  <2> QED BY <1>1, <1>5, <1>6, <2>1, ApartFrom
<1>7. PhaseIs(c, Phase(c)) /\ Client(c) \in Ends /\ Pppd(c) \in Ends /\ Client(c) # Pppd(c)
  BY EndsFacts, PhaseMeans DEF Connected, Whole
<1>8. CASE d = c /\ peer[s] = Null
  <2>1. S = {s}
    BY <1>8, EndsFacts
  <2> HIDE DEF S
  <2>2. s = Client(c) /\ Phase(c) = "alone" /\ stream[Pppd(c)] = "none"
    BY <1>0, <1>4, <1>5, <1>7, <1>8, EndsFacts DEF PhaseIs
  <2>3. stream'[Client(c)] = "closed" /\ stream'[Pppd(c)] = "none"
    BY <1>1, <1>7, <2>1, <2>2
  <2>4. PhaseIs(c, "closed")'
    BY <2>3 DEF PhaseIs
  <2>5. Phase(c)' = "closed"
    BY <2>4, PhaseMeansNext
  <2>6. \A t \in Ends : peer[t] # s
    BY <1>8, EndsFacts, PeerFacts
  <2>7. \A t \in Ends : transit'[t] = transit[t]
    BY <1>2, <2>1, <2>6
  <2>8. Live(c)' = Live(c) /\ Way(c)' = Way(c)
    <3>1. Live(c)' = Live(c)
      BY <1>1, LiveSame
    <3>2. Way(c)' = Way(c)
      BY <1>7, <2>7 DEF Way, Client, Pppd
    <3> QED BY <3>1, <3>2
  <2>9. Connection(c)!CloseAlone
    BY <2>2, <2>5, <2>8 DEF Connection!CloseAlone
  <2> QED BY <1>8, <2>9 DEF Linked, Connection!Next
<1>9. CASE d = c /\ peer[s] # Null
  <2>1. /\ peer[s] \in Ends /\ peer[s] # s /\ peer[peer[s]] = s /\ Owner(peer[s]) = c
        /\ stream[peer[s]] = "open"
    BY <1>0, <1>9, PeerFacts DEF Couples, Mutual
  <2>2. S = {Client(c), Pppd(c)} /\ \A t \in S : peer[t] \in S /\ peer[t] # Null /\ t \in Ends
    BY <1>0, <1>7, <1>9, <2>1, EndsFacts
  <2>3. S = {s, peer[s]}
    BY <2>1
  <2> HIDE DEF S
  <2>4. Phase(c) = "coupled"
    BY <1>0, <1>4, <1>7, <2>1, EndsFacts, PhaseMeans DEF PhaseIs
  <2>5. stream'[Client(c)] = "closed" /\ stream'[Pppd(c)] = "closed"
    BY <1>1, <1>7, <2>2
  <2>6. PhaseIs(c, "closed")'
    BY <2>5 DEF PhaseIs
  <2>7. Phase(c)' = "closed" /\ Live(c)' = Live(c)
    BY <1>1, <2>6, PhaseMeansNext, LiveSame
  <2>8. \A t \in S : transit[t] = inbox[t] + inbuf[t] + outbuf[peer[t]]
    BY <2>2 DEF Buffers, Balanced, Accounted
  <2>9. \A t \in S : transit'[t] \in 0..transit[t]
    <3> SUFFICES ASSUME NEW t \in S PROVE transit'[t] \in 0..transit[t]
      OBVIOUS
    <3>1. t \in Ends /\ peer[t] \in Ends
      BY <2>2, PeerFacts
    <3>2. inbox[t] \in Nat /\ inbuf[t] \in Nat /\ outbuf[peer[t]] \in Nat
      BY <3>1, DataFacts
    <3>3. transit'[t] \in {transit[t], transit[t] - outbuf[peer[t]]}
      BY <1>2, <3>1
    <3> QED BY <2>8, <3>2, <3>3
  <2>10. Connection(c)!Drains
    <3>1. \A e \in {"client", "pppd"} : Way(c)'[e] \in 0..Way(c)[e]
      BY <2>2, <2>9 DEF Way, Client, Pppd
    <3> QED BY <3>1 DEF Connection!Drains, Connection!Sides
  <2>11. EmptyReads \/ \E e \in Connection(c)!Sides : Connection(c)!Finished(e)
    <3> SUFFICES ASSUME ~EmptyReads
                 PROVE  \E e \in Connection(c)!Sides : Connection(c)!Finished(e)
      OBVIOUS
    <3>1. inbox[s] = 0 /\ inbuf[s] = 0
      BY <1>9 DEF Disconnect
    <3>2. ~Alive(s)
      BY <1>1, <3>1 DEF Connected, Chosen, Silent
    <3>3. Alive(peer[s]) => transit'[s] = 0
      <4>1. transit[s] = outbuf[peer[s]] /\ outbuf[peer[s]] \in Nat
        BY <1>3, <2>1, <2>8, <3>1, DataFacts
      <4>2. Alive(peer[s]) => transit'[s] = transit[s] - outbuf[peer[s]]
        BY <1>2, <1>4, <2>3
      <4> QED BY <4>1, <4>2
    <3>4. PICK e \in {"client", "pppd"} : s = <<e, c>>
      BY <1>0 DEF Client, Pppd
    <3>5. \A f \in {"client", "pppd"} : f # e => peer[s] = <<f, c>>
      BY <2>2, <2>3, <3>4 DEF Client, Pppd
    <3>6. e \notin Live(c) /\ Way(c)'[e] = transit'[s]
      BY <3>2, <3>4 DEF Live, Way
    <3>7. {"client", "pppd"} \ {e} \subseteq Live(c) => Way(c)'[e] = 0
      BY <3>3, <3>5, <3>6 DEF Live
    <3> QED BY <3>6, <3>7 DEF Connection!Finished, Connection!Sides
  <2>12. Connection(c)!Close
    BY <2>4, <2>7, <2>10, <2>11 DEF Connection!Close
  <2> QED BY <1>9, <2>12 DEF Linked, Connection!Next
<1> QED BY <1>6, <1>8, <1>9

\* To every client every step is one of Connection, or none.
LEMMA StepLinks ==
  ASSUME TypeOK, Couples, Buffers, Positive, Positive', Connected, [Next]_vars, NEW d \in Clients
  PROVE  Linked(d)
<1> USE DEF Connected
<1>1. CASE \/ LoopCheck \/ BrokenPipe \/ Wake \/ Reap \/ Signal \/ UNCHANGED vars
           \/ \E c \in Clients : Admit(c) \/ Noise(c) \/ NegotiationFailed(c)
  <2>1. UNCHANGED <<stream, peer, transit, dial>>
    BY <1>1 DEF LoopCheck, BrokenPipe, Wake, Reap, Signal, Admit, Noise,
                NegotiationFailed, Negotiated, vars, pairVars, envVars, dataVars, Freed
  <2>2. (Accepting' <=> Accepting) /\ (Accepting => UNCHANGED cur)
    <3>1. CASE BrokenPipe
      BY <3>1 DEF BrokenPipe, WritesTo, Accepting
    <3>2. CASE ~BrokenPipe
      BY <1>1, <3>2 DEF LoopCheck, Wake, Reap, Signal, Admit, Noise, NegotiationFailed,
                        Negotiated, vars, loopVars, Accepting
    <3> QED BY <3>1, <3>2
  <2>3. (proc'[d] = "running") <=> (proc[d] = "running")
    <3>1. CASE Reap
      BY <3>1 DEF Reap, Zombies, TypeOK
    <3>2. CASE ~Reap
      BY <1>1, <3>2 DEF LoopCheck, BrokenPipe, Wake, Signal, Admit, Noise, NegotiationFailed,
                        vars, envVars
    <3> QED BY <3>1, <3>2
  <2> QED BY <2>1, <2>2, <2>3, IdleLinks
<1>2. CASE FlushAndReturn \/ FlushAndWait
  BY <1>2, FlushLinks
<1>3. CASE \E s \in Ends : Relay(s) \/ Disconnect(s) \/ Send(s)
  BY <1>3, RelayLinks, DisconnectLinks, SendLinks
<1>4. CASE \E c \in Clients : \/ Refuse(c) \/ Launch(c) \/ LaunchFailed(c)
                              \/ Dial(c) \/ NegotiationDone(c) \/ HangUp(c) \/ PppdExit(c)
  BY <1>4, RefuseLinks, LaunchLinks, DialLinks, NegotiationLinks, LeaveLinks
<1>5. CASE Accept
  BY <1>5, AcceptLinks
<1> QED BY <1>1, <1>2, <1>3, <1>4, <1>5
        DEF Next, ServerStep, AcceptStep, ClientStep

\* No step of Connection tears a connection.
LEMMA WholeStep ==
  ASSUME Whole, \A c \in Clients : Linked(c)
  PROVE  Whole'
<1> SUFFICES ASSUME NEW c \in Clients PROVE Phase(c)' # "torn"
  BY DEF Whole
<1>1. Linked(c) /\ Phase(c) # "torn"
  BY DEF Whole
<1> QED
  BY <1>1 DEF Linked, Connection!Next, Connection!vars, Connection!Accept, Connection!Come,
              Connection!Refuse, Connection!Couple, Connection!LeftAlone, Connection!Send,
              Connection!Deliver, Connection!Leave, Connection!Close, Connection!CloseAlone,
              Connection!Renew

\* STREAMSelect has a reason; whatever comes while the loop handles the stream
\* only adds to it.
LEMMA ChosenStep == ASSUME TypeOK, Couples, Chosen, [Next]_vars PROVE Chosen'
<1> SUFFICES ASSUME pc' = "handle", cur' \in Ends
             PROVE  \/ inbox'[cur'] + inbuf'[cur'] > 0
                    \/ ~ (Alive(cur)')
                    \/ \E c \in Clients : cur' = Client(c) /\ noise'[c]
  BY DEF Chosen
<1>0. /\ \A s \in Ends : inbox[s] \in Nat /\ inbuf[s] \in Nat
      /\ \A s \in Ends : IF s[1] = "client" THEN s = Client(Owner(s)) ELSE s = Pppd(Owner(s))
  BY DataFacts DEF Ends, Owner, Client, Pppd
<1>1. CASE FlushAndReturn
  <2>1. inbuf[cur'] > 0 /\ UNCHANGED <<inbox, inbuf>>
    BY <1>1 DEF FlushAndReturn, Buffered
  <2> QED BY <1>0, <2>1
<1>2. CASE Wake
  <2>1. Readable(cur') /\ UNCHANGED <<inbox, inbuf, noise, dial, proc>>
    BY <1>2 DEF Wake, FirstReadable, envVars, dataVars
  <2>2. inbox[cur'] > 0 \/ ~ (Alive(cur)') \/ (cur'[1] = "client" /\ noise[Owner(cur')])
    BY <2>1, EndsFacts DEF Readable, Alive
  <2> QED BY <1>0, <2>1, <2>2, EndsFacts
<1>3. CASE \/ Signal \/ UNCHANGED vars \/ \E s \in Ends : Send(s)
           \/ \E c \in Clients : Dial(c) \/ Noise(c) \/ HangUp(c) \/ PppdExit(c)
  <2>1. pc = "handle" /\ cur' = cur /\ inbuf' = inbuf
    BY <1>3 DEF Signal, Send, Dial, Noise, HangUp, PppdExit, vars, loopVars, dataVars
  <2>2. inbox'[cur] \in {inbox[cur], inbox[cur] + 1}
    <3>1. UNCHANGED inbox \/ \E s \in Ends : inbox' = [inbox EXCEPT ![s] = @ + 1]
      BY <1>3 DEF Signal, Send, Dial, Noise, HangUp, PppdExit, vars, dataVars
    <3> QED BY <1>0, <2>1, <3>1, DataFacts
  <2>3. \A c \in Clients : noise[c] => noise'[c]
    BY <1>3 DEF Signal, Send, Dial, Noise, HangUp, PppdExit, vars, dataVars, TypeOK
  <2>4. Alive(cur)' => Alive(cur)
    <3>1. /\ dial'[Owner(cur)] = "up" => dial[Owner(cur)] = "up"
          /\ proc'[Owner(cur)] = "running" => proc[Owner(cur)] = "running"
      <4>1. Owner(cur) \in Clients
        BY <2>1, EndsFacts
      <4>2. CASE Signal \/ UNCHANGED vars \/ \E s \in Ends : Send(s)
        BY <4>2 DEF Signal, Send, vars, envVars
      <4>3. CASE \E c \in Clients : Dial(c) \/ Noise(c) \/ HangUp(c) \/ PppdExit(c)
        <5>1. \/ UNCHANGED <<dial, proc>>
              \/ \E c \in Clients : /\ dial' = [dial EXCEPT ![c] = "dialling"]
                                    /\ proc' = [proc EXCEPT ![c] = "none"]
              \/ \E c \in Clients : dial' = [dial EXCEPT ![c] = "gone"] /\ proc' = proc
              \/ \E c \in Clients : proc' = [proc EXCEPT ![c] = "exited"] /\ dial' = dial
          BY <4>3 DEF Dial, Noise, HangUp, PppdExit, envVars
        <5> QED BY <4>1, <5>1 DEF TypeOK
      <4> QED BY <1>3, <4>2, <4>3
    <3> QED BY <2>1, <3>1 DEF Alive
  <2>5. CASE inbox[cur] + inbuf[cur] > 0
    BY <1>0, <2>1, <2>2, <2>5
  <2>6. CASE ~Alive(cur) \/ \E c \in Clients : cur = Client(c) /\ noise[c]
    BY <2>1, <2>3, <2>4, <2>6
  <2> QED BY <2>1, <2>5, <2>6 DEF Chosen
<1>4. CASE \/ LoopCheck \/ BrokenPipe \/ FlushAndWait \/ Reap \/ Accept
           \/ \E s \in Ends : Relay(s) \/ Disconnect(s)
           \/ \E c \in Clients : AcceptStep(c) \/ NegotiationDone(c) \/ NegotiationFailed(c)
  BY <1>4 DEF LoopCheck, BrokenPipe, FlushAndWait, Reap, Accept, Relay, Disconnect,
              AcceptStep, Refuse, Admit, Launch, LaunchFailed, NegotiationDone,
              NegotiationFailed, Negotiated
<1> QED BY <1>1, <1>2, <1>3, <1>4 DEF Next, ServerStep, ClientStep

\* Records without data come only where EmptyReads allows them.
LEMMA SilentStep == ASSUME TypeOK, Silent, [Next]_vars PROVE Silent'
<1> SUFFICES ASSUME ~EmptyReads, NEW c \in Clients PROVE ~noise'[c]
  BY DEF Silent
<1>1. ~noise[c]
  BY DEF Silent
<1>2. \/ UNCHANGED noise
      \/ \E S : noise' = [t \in Clients |-> IF Client(t) \in S THEN FALSE ELSE noise[t]]
  BY DEF Next, vars, ServerStep, LoopCheck, BrokenPipe, FlushAndReturn, FlushAndWait,
         Wake, Reap, Accept, AcceptStep, Refuse, Freed, Admit, Launch, LaunchFailed,
         Relay, Disconnect, Shutdown, ClientStep, Dial, HangUp, Noise, PppdExit,
         NegotiationDone, NegotiationFailed, Send, Signal, dataVars
<1> QED BY <1>1, <1>2

\* A client that has never connected has no pppd.
LEMMA UnbornStep == ASSUME TypeOK, Couples, Unborn, [Next]_vars PROVE Unborn'
<1> SUFFICES ASSUME NEW d \in Clients, dial'[d] = "idle" PROVE proc'[d] # "running"
  BY DEF Unborn
<1>1. CASE \E c \in Clients : Launch(c)
  <2>1. PICK c \in Clients : Launch(c)
    BY <1>1
  <2>2. dial[d] = "idle"
    BY <2>1 DEF Launch
  <2>3. stream[Client(c)] = "open"
    BY <2>1, EndsFacts DEF Launch, Couples, Hand, Accepting
  <2>4. d # c
    BY <2>2, <2>3 DEF Couples, Idle
  <2> QED BY <2>1, <2>2, <2>4 DEF Launch, Unborn, TypeOK
<1>2. CASE ~ \E c \in Clients : Launch(c)
  <2>1. dial[d] = "idle"
    BY <1>2 DEF Next, vars, ServerStep, LoopCheck, BrokenPipe, FlushAndReturn,
                FlushAndWait, Wake, Reap, Accept, AcceptStep, Refuse, Admit, LaunchFailed,
                Relay, Disconnect, ClientStep, Dial, HangUp, Noise, PppdExit,
                NegotiationDone, NegotiationFailed, Send, Signal, envVars, TypeOK
  <2>2. \/ UNCHANGED proc
        \/ \E c \in Clients, p \in {"none", "exited", "reaped"} : proc' = [proc EXCEPT ![c] = p]
    BY <1>2 DEF Next, vars, ServerStep, LoopCheck, BrokenPipe, FlushAndReturn,
                FlushAndWait, Wake, Reap, Accept, AcceptStep, Refuse, Admit, LaunchFailed,
                Relay, Disconnect, Zombies, ClientStep, Dial, HangUp, Noise, PppdExit,
                NegotiationDone, NegotiationFailed, Send, Signal, envVars
  <2>3. proc'[d] = "running" => proc[d] = "running"
    BY <2>2 DEF TypeOK
  <2> QED BY <2>1, <2>3 DEF Unborn
<1> QED BY <1>1, <1>2

\* The server starts with no connection.
LEMMA ConnectedInit == Init => Connected
<1> SUFFICES ASSUME Init PROVE Connected
  OBVIOUS
<1>1. Whole
  <2> SUFFICES ASSUME NEW c \in Clients PROVE Phase(c) # "torn"
    BY DEF Whole
  <2>1. PhaseIs(c, "none")
    BY EndsFacts DEF Init, PhaseIs
  <2> QED BY <2>1, PhaseMeans
<1>2. Chosen /\ Silent /\ Unborn
  BY DEF Init, Chosen, Silent, Unborn
<1> QED BY <1>1, <1>2 DEF Connected

\* The invariant, and what every step is to each client.
LEMMA ConnectedHold ==
  Spec => /\ [](TypeOK /\ Couples /\ Buffers /\ Positive /\ Connected)
          /\ [][\A c \in Clients : Linked(c)]_vars
<1>1. Init => Connected
  BY ConnectedInit
<1>2. ASSUME TypeOK, Couples, Buffers, Positive, Positive', Connected, [Next]_vars
      PROVE  Connected' /\ \A c \in Clients : Linked(c)
  <2>1. \A c \in Clients : Linked(c)
    BY <1>2, StepLinks
  <2>2. Whole' /\ Chosen' /\ Silent' /\ Unborn'
    BY <1>2, <2>1, WholeStep, ChosenStep, SilentStep, UnbornStep DEF Connected
  <2> QED BY <2>1, <2>2 DEF Connected
<1> QED BY <1>1, <1>2, UnderWay, BuffersHold, PTL DEF Spec

\* A client starts with no connection.
LEMMA LinksInit == ASSUME Init, NEW c \in Clients PROVE Connection(c)!Init
<1>1. Phase(c) = "none"
  BY EndsFacts, PhaseMeans DEF Init, PhaseIs
<1>2. Live(c) = {}
  BY LiveFacts DEF Init
<1>3. Way(c) = [e \in {"client", "pppd"} |-> 0]
  BY EndsFacts DEF Init, Way, Client, Pppd
<1> QED BY <1>1, <1>2, <1>3 DEF Connection!Init, Connection!Sides

\* To each client the server is a Connection, whatever the others do: SSLProcess
\* hands on what it sends only in a couple, and SSLShutdownConnection closes the
\* couple as a whole, because one end has gone and what that had sent is out.
THEOREM EachIsAConnection == Spec => KeepsConnections
<1>1. Init => \A c \in Clients : Connection(c)!Init
  BY LinksInit
<1> QED BY <1>1, ConnectedHold, PTL DEF Spec, Linked, KeepsConnections

\* The same for one client, as the refinement of a specification.
THEOREM Implements == ASSUME NEW d \in Clients PROVE Spec => Connection(d)!Spec
<1>1. Init => Connection(d)!Init
  BY LinksInit
<1>2. [\A c \in Clients : Linked(c)]_vars => [Connection(d)!Next]_(Connection(d)!vars)
  <2>1. CASE UNCHANGED vars
    BY <2>1, IdleLinks DEF Linked, vars, loopVars, pairVars, envVars, dataVars, Accepting
  <2>2. CASE \A c \in Clients : Linked(c)
    BY <2>2 DEF Linked
  <2> QED BY <2>1, <2>2
<1> QED BY <1>1, <1>2, ConnectedHold, PTL DEF Spec, Connection!Spec
=============================================================================
