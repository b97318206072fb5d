----------------------------- MODULE SSLServer -----------------------------
(***************************************************************************)
(* The ppp-over-TLS server: SSLServer() of ssl_server.c with the pieces of *)
(* libUseful its event loop stands on (STREAMSelect, STREAMReadBytes,      *)
(* STREAMWriteBytes, STREAMFlush, STREAMClose, STREAMServerAccept).        *)
(*                                                                         *)
(* One thread serves every client.  It takes one readable stream at a time *)
(* out of the list Connections; a client that is accepted is coupled to a  *)
(* pppd of its own (the "Peer" items of the two streams), and from then on *)
(* whatever is read at one end is written to the other until an end fails, *)
(* when both are closed.                                                   *)
(*                                                                         *)
(* Data is counted in units, each at most one 4096 byte read.  transit[s]  *)
(* is a history variable: the units that entered at stream s and have not  *)
(* come out at its peer.                                                   *)
(***************************************************************************)
EXTENDS SSLAuth, Integers, Sequences

CONSTANTS
  Clients,        \* connections made to the server
  ServerAuth,     \* Vpn->ServerAuth, a member of AuthModes
  Creds,          \* the credentials a client may come with
  RemoteAddress,  \* last octet of '-R', or NoAddr
  HostAddrs,      \* last octets of 172.16.0.* already on an interface
  InMax,          \* bound: units the kernel queues at a stream
  EmptyReads,     \* may a TLS read return no bytes on a live connection?
  MaxFailed       \* bound: launches of pppd that fail in one life of the server

ASSUME AuthAssumption  == ServerAuth \in AuthModes
ASSUME CredsAssumption == Creds \subseteq Credentials
ASSUME InMaxAssumption == InMax \in Nat \ {0}
ASSUME AddrAssumption == HostAddrs \subseteq 1..254 /\ RemoteAddress \in 0..254
ASSUME EmptyReadsAssumption == EmptyReads \in BOOLEAN
ASSUME MaxFailedAssumption == MaxFailed \in Nat

Server    == <<"server", "server">>
Client(c) == <<"client", c>>
Pppd(c)   == <<"pppd", c>>
Null      == <<"null", "null">>     \* the item a failed PPPDLaunch leaves

Ends    == ({"client"} \X Clients) \union ({"pppd"} \X Clients)
Items   == Ends \union {Server, Null}
Owner(s) == s[2]

OutBuffSize == 2       \* BUFSIZ holds two reads of 4096 bytes
BuffSize    == 2
FirstAddr   == 2       \* NetDevFindNextIP tries 172.16.0.2 .. 172.16.0.254
LastAddr    == 254
NoAddr      == 0       \* the empty string

VARIABLES
  pc,         \* where the thread stands in the loop
  cur,        \* the stream STREAMSelect returned
  conns,      \* the list Connections
  stream,     \* each end: "none", "open" (allocated) or "closed" (freed)
  peer,       \* the "Peer" item of each end
  exitFlag,   \* GlobalFlags & FLAG_EXIT
  backlog,    \* connections the kernel has completed, not yet accepted
  dial,       \* each client's own side: "idle", "dialling", "up", "gone"
  cred,       \* what the TLS negotiation told the server of a client
  proc,       \* each pppd: "none", "running", "exited" (a zombie), "reaped"
  remoteAddr, \* Vpn->RemoteAddress
  addr,       \* the RemoteAddress each pppd was started with
  inbox,      \* units waiting in the kernel at each end
  noise,      \* a client's socket is readable, but with no application data
  inbuf,      \* units left over in the stream's InputBuff
  outbuf,     \* units written to the stream and not flushed
  transit     \* history: units on their way from this end to its peer

loopVars == <<pc, cur, conns>>
pairVars == <<stream, peer, cred, remoteAddr, addr>>
envVars  == <<exitFlag, backlog, dial, proc>>
dataVars == <<inbox, noise, inbuf, outbuf, transit>>
vars == <<loopVars, pairVars, envVars, dataVars>>

Init ==
  /\ pc = "check" /\ cur = Null /\ conns = <<Server>>
  /\ stream = [s \in Ends |-> "none"]
  /\ peer = [s \in Ends |-> Null]
  /\ cred = [c \in Clients |-> NoCredential(FALSE)]
  /\ remoteAddr = RemoteAddress /\ addr = [c \in Clients |-> NoAddr]
  /\ exitFlag = FALSE /\ backlog = <<>>
  /\ dial = [c \in Clients |-> "idle"]
  /\ proc = [c \in Clients |-> "none"]
  /\ inbox = [s \in Ends |-> 0] /\ noise = [c \in Clients |-> FALSE]
  /\ inbuf = [s \in Ends |-> 0] /\ outbuf = [s \in Ends |-> 0]
  /\ transit = [s \in Ends |-> 0]

----------------------------------------------------------------------------
(* Streams *)

Listed(s) == \E i \in DOMAIN conns : conns[i] = s

\* Is the far side of an end's descriptor still there?
Alive(s) == IF s[1] = "client" THEN dial[Owner(s)] = "up"
                               ELSE proc[Owner(s)] = "running"

\* poll() reports an end when bytes or the end of the file can be read
Readable(s) ==
  \/ s = Server /\ backlog # <<>>
  \/ s \in Ends /\ stream[s] = "open"
     /\ (inbox[s] > 0 \/ ~Alive(s) \/ (s[1] = "client" /\ noise[Owner(s)]))

Buffered(s) == s \in Ends /\ inbuf[s] > 0

\* What STREAMFlush of the ends in set S does: the far side, if it is still
\* there, gets what was buffered.
Flushed(S, out) == [s \in Ends |-> IF s \in S /\ Alive(s) THEN 0 ELSE out[s]]
Arrived(S, out, going) ==
  [s \in Ends |->
     IF stream[s] = "open" /\ peer[s] \in S /\ Alive(peer[s])
     THEN going[s] - out[peer[s]] ELSE going[s]]

\* ListDeleteItem: the first node holding s goes, the others keep their order;
\* a NULL item is never looked for
Without(list, s) ==
  LET holds(i) == list[i] = s /\ s # Null
  IN  IF \E i \in DOMAIN list : holds(i)
      THEN LET n == CHOOSE i \in DOMAIN list : holds(i) /\ \A j \in 1..(i-1) : ~holds(j)
           IN  [i \in 1..(Len(list) - 1) |-> IF i < n THEN list[i] ELSE list[i + 1]]
      ELSE list

----------------------------------------------------------------------------
(* The loop: while (! FLAG_EXIT) { S = STREAMSelect(); ...; waitpid() } *)

\* Fault: the flag SIGINT sets is not tested
LoopCheck_NoExit ==
  /\ pc = "check" /\ pc' = "flush"
  /\ UNCHANGED <<cur, conns, pairVars, envVars, dataVars>>

LoopCheck ==
  /\ pc = "check"
  /\ pc' = IF exitFlag THEN "done" ELSE "flush"
  /\ UNCHANGED <<cur, conns, pairVars, envVars, dataVars>>

\* STREAMSelect walks the list flushing each end, and stops at the first that
\* has bytes in its own buffer: that one is returned, and keeps its place.
FlushTo(n) ==
  LET S == {s \in Ends : \E i \in 1..n : conns[i] = s}
  IN  outbuf' = Flushed(S, outbuf) /\ transit' = Arrived(S, outbuf, transit)

FlushAndReturn ==
  /\ pc = "flush" /\ pc' = "handle"
  /\ \E i \in DOMAIN conns :
       /\ Buffered(conns[i]) /\ \A j \in 1..(i-1) : ~Buffered(conns[j])
       /\ FlushTo(i) /\ cur' = conns[i]
  /\ UNCHANGED <<conns, pairVars, envVars, inbox, noise, inbuf>>

FlushAndWait ==
  /\ pc = "flush" /\ pc' = "wait"
  /\ \A i \in DOMAIN conns : ~Buffered(conns[i])
  /\ FlushTo(Len(conns)) /\ cur' = Null
  /\ UNCHANGED <<conns, pairVars, envVars, inbox, noise, inbuf>>

FirstReadable(i) == Readable(conns[i]) /\ \A j \in 1..(i-1) : ~Readable(conns[j])

\* Fault: the stream chosen keeps its place in the list
Wake_NoRequeue ==
  /\ pc = "wait" /\ pc' = "handle"
  /\ \E i \in DOMAIN conns : FirstReadable(i) /\ cur' = conns[i]
  /\ UNCHANGED <<conns, pairVars, envVars, dataVars>>

\* poll() returns; the first readable stream of the list is chosen and goes to
\* the end of it.
Wake ==
  /\ pc = "wait" /\ pc' = "handle"
  /\ \E i \in DOMAIN conns :
       /\ FirstReadable(i) /\ cur' = conns[i]
       /\ conns' = Append(Without(conns, conns[i]), conns[i])
  /\ UNCHANGED <<pairVars, envVars, dataVars>>

\* waitpid(-1, NULL, WNOHANG): collects one child, if one has exited
Zombies == {c \in Clients : proc[c] = "exited"}
Reap ==
  /\ pc = "reap"
  /\ IF Zombies = {} THEN proc' = proc
     ELSE \E c \in Zombies : proc' = [proc EXCEPT ![c] = "reaped"]
  /\ pc' = "check" /\ cur' = Null
  /\ UNCHANGED <<conns, pairVars, exitFlag, backlog, dial, dataVars>>

----------------------------------------------------------------------------
(* SSLAcceptClient *)

\* STREAMServerAccept: the socket is accepted, then the TLS negotiation blocks
\* the loop until the client has done its part, gone, or said nothing at all
\* for the stream's timeout.
Accept ==
  /\ pc = "handle" /\ cur = Server /\ backlog # <<>>
  /\ LET c == Head(backlog)
     IN  /\ cur' = Client(c)
         /\ stream' = [stream EXCEPT ![Client(c)] = "open"]
  /\ backlog' = Tail(backlog)
  /\ pc' = "negotiate"
  /\ UNCHANGED <<conns, peer, cred, remoteAddr, addr, exitFlag, dial, proc, dataVars>>

Negotiated(c, knowledge) ==
  /\ pc = "negotiate" /\ cur = Client(c)
  /\ cred' = [cred EXCEPT ![c] = knowledge]
  /\ pc' = "auth"

NegotiationDone(c) ==
  /\ dial[c] = "dialling" /\ dial' = [dial EXCEPT ![c] = "up"]
  /\ \E k \in Creds : Negotiated(c, k)
  /\ UNCHANGED <<cur, conns, stream, peer, remoteAddr, addr, exitFlag, backlog, proc,
                  dataVars>>

\* DoSSLServerNegotiation's result is not looked at: a stream on which it
\* failed is returned like any other.
NegotiationFailed(c) ==
  /\ Negotiated(c, NoCredential(FALSE))
  /\ UNCHANGED <<cur, conns, stream, peer, remoteAddr, addr, envVars, dataVars>>

\* STREAMDestroy: whatever pointed at the end still does
Freed(S) == /\ stream' = [s \in Ends |-> IF s \in S THEN "closed" ELSE stream[s]]
            /\ peer' = [s \in Ends |-> IF s \in S THEN Null ELSE peer[s]]
            /\ inbuf' = [s \in Ends |-> IF s \in S THEN 0 ELSE inbuf[s]]
            /\ inbox' = [s \in Ends |-> IF s \in S THEN 0 ELSE inbox[s]]
            /\ noise' = [c \in Clients |-> IF Client(c) \in S THEN FALSE ELSE noise[c]]

Refuse(c) ==
  /\ pc = "auth" /\ cur = Client(c)
  /\ ~Authorised(ServerAuth, cred[c])
  /\ Freed({Client(c)})
  /\ pc' = "reap"
  /\ UNCHANGED <<cur, conns, cred, remoteAddr, addr, envVars, outbuf, transit>>

\* NetLoadDevices asks each interface for its local address, and every link this
\* server has up has the same one: the far ends are not in the list.
IfaceAddrs == HostAddrs \union {1}
LowestFree(a) == a \notin IfaceAddrs /\ \A b \in FirstAddr..(a-1) : b \in IfaceAddrs
FindNextIP == IF \E a \in FirstAddr..LastAddr : LowestFree(a)
              THEN CHOOSE a \in FirstAddr..LastAddr : LowestFree(a) ELSE NoAddr

Admit(c) ==
  /\ pc = "auth" /\ cur = Client(c)
  /\ Authorised(ServerAuth, cred[c])
  /\ remoteAddr' = FindNextIP
  /\ pc' = "launch"
  /\ UNCHANGED <<cur, conns, stream, peer, cred, addr, envVars, dataVars>>

Launch(c) ==
  /\ pc = "launch" /\ cur = Client(c)
  /\ conns' = conns \o <<Pppd(c), Client(c)>>
  /\ stream' = [stream EXCEPT ![Pppd(c)] = "open"]
  /\ peer' = [peer EXCEPT ![Pppd(c)] = Client(c), ![Client(c)] = Pppd(c)]
  /\ proc' = [proc EXCEPT ![c] = "running"]
  /\ addr' = [addr EXCEPT ![c] = remoteAddr]
  /\ pc' = "reap"
  /\ UNCHANGED <<cur, cred, remoteAddr, exitFlag, backlog, dial, dataVars>>

\* PPPDLaunch returned NULL, and the rest goes on as if it had not
LaunchFailed(c) ==
  /\ pc = "launch" /\ cur = Client(c)
  /\ Cardinality({i \in DOMAIN conns : conns[i] = Null}) < MaxFailed
  /\ conns' = conns \o <<Null, Client(c)>>
  /\ peer' = [peer EXCEPT ![Client(c)] = Null]
  /\ pc' = "reap"
  /\ UNCHANGED <<cur, stream, cred, remoteAddr, addr, envVars, dataVars>>

----------------------------------------------------------------------------
(* SSLProcess *)

\* Fault: what the buffer holds beyond the caller's unit is forgotten
TakeUnit_Leftover(s) ==
  /\ inbuf[s] = 0 /\ inbox[s] > 0 /\ inbuf' = inbuf
  /\ \E k \in 1..BuffSize : k <= inbox[s] /\ inbox' = [inbox EXCEPT ![s] = @ - k]

\* Fault: the descriptor is read whatever the buffer holds
TakeUnit_NoRoom(s) ==
  \E k \in 0..BuffSize :
    /\ k <= inbox[s] /\ inbuf[s] + k > 0
    /\ inbox' = [inbox EXCEPT ![s] = @ - k]
    /\ inbuf' = [inbuf EXCEPT ![s] = @ + k - 1]

\* STREAMReadBytes takes one unit.  It reads the descriptor only when the buffer
\* holds less than was asked for, and then as much as the buffer has room for.
TakeUnit(s) ==
  \E k \in 0..BuffSize :
    /\ k <= inbox[s] /\ inbuf[s] + k > 0
    /\ inbuf[s] > 1 => k = 0
    /\ inbox' = [inbox EXCEPT ![s] = @ - k]
    /\ inbuf' = [inbuf EXCEPT ![s] = @ + k - 1]

\* STREAMWriteBytes queues the unit; a full buffer is pushed at once, and what
\* does not fit in the buffer of an end whose far side is gone is dropped.  (A
\* client's stream is pushed after each write; here as there, nothing but the
\* waitpid() and the test of the flag comes before STREAMSelect pushes them all.)
PutUnit(from, to) ==
  LET queued == outbuf[to] + 1
      full   == queued >= OutBuffSize
  IN  IF full /\ Alive(to)
      THEN /\ outbuf' = [outbuf EXCEPT ![to] = 0]
           /\ transit' = [transit EXCEPT ![from] = @ - queued]
      ELSE /\ outbuf' = [outbuf EXCEPT ![to] = IF full THEN OutBuffSize ELSE queued]
           /\ transit' = IF queued > OutBuffSize
                         THEN [transit EXCEPT ![from] = @ - 1] ELSE transit

Relay(s) ==
  /\ pc = "handle" /\ cur = s /\ peer[s] # Null
  /\ TakeUnit(s)
  /\ PutUnit(s, peer[s])
  /\ pc' = "reap"
  /\ UNCHANGED <<cur, conns, pairVars, envVars, noise>>

\* Fault: only the end that failed leaves the list
Shutdown_PeerListed(con, other) ==
  LET S == {con, other} \intersect Ends
  IN  /\ conns' = Without(conns, con)
      /\ Freed(S)
      /\ outbuf' = [s \in Ends |-> IF s \in S THEN 0 ELSE outbuf[s]]
      /\ transit' = Arrived(S, outbuf, transit)

\* Fault: the peer is taken out of the list but not closed
Shutdown_PeerOpen(con, other) ==
  /\ conns' = Without(Without(conns, con), other)
  /\ Freed({con})
  /\ outbuf' = [outbuf EXCEPT ![con] = 0]
  /\ transit' = Arrived({con}, outbuf, transit)

\* SSLShutdownConnection(Connections, Con, Peer): both nodes leave the list and
\* both ends are flushed and freed, the peer first.
Shutdown(con, other) ==
  LET S == {con, other} \intersect Ends
  IN  /\ conns' = Without(Without(conns, con), other)
      /\ Freed(S)
      /\ outbuf' = [s \in Ends |-> IF s \in S THEN 0 ELSE outbuf[s]]
      /\ transit' = Arrived(S, outbuf, transit)

\* Fault: an end whose far side has gone is closed with what it sent unread
Disconnect_AtHangUp(s) ==
  /\ pc = "handle" /\ cur = s /\ s \in Ends
  /\ ~Alive(s) \/ peer[s] = Null \/ (inbuf[s] = 0 /\ inbox[s] = 0)
  /\ Shutdown(s, peer[s])
  /\ pc' = "reap"
  /\ UNCHANGED <<cur, cred, remoteAddr, addr, envVars>>

\* nothing came (the end of the file, an error, or a read of no bytes), or
\* there is no peer to write it to
Disconnect(s) ==
  /\ pc = "handle" /\ cur = s /\ s \in Ends
  /\ \/ inbuf[s] = 0 /\ inbox[s] = 0
     \/ peer[s] = Null
  /\ Shutdown(s, peer[s])
  /\ pc' = "reap"
  /\ UNCHANGED <<cur, cred, remoteAddr, addr, envVars>>

\* The loop is about to write to client c, or does so at a close.
WritesTo(c) ==
  \/ /\ pc = "flush" /\ outbuf[Client(c)] > 0
     /\ \E i \in DOMAIN conns :
          conns[i] = Client(c) /\ \A j \in 1..(i-1) : ~Buffered(conns[j])
  \/ /\ pc = "handle" /\ cur \in {Client(c), Pppd(c)} /\ peer[Pppd(c)] = Client(c)
     /\ outbuf[Client(c)] > 0 \/ (cur = Pppd(c) /\ inbuf[cur] + inbox[cur] > 0)

\* SIGPIPE, which is not caught: a write to a client that has gone, and whose host
\* has said so, ends the program.
BrokenPipe ==
  /\ \E c \in Clients : ~Alive(Client(c)) /\ WritesTo(c)
  /\ pc' = "done"
  /\ UNCHANGED <<cur, conns, pairVars, envVars, dataVars>>

----------------------------------------------------------------------------
(* What happens around the loop *)

\* A client connects.  Once both its streams are freed and its pppd collected,
\* the same place may be taken by a new connection.
Dial(c) ==
  /\ \/ dial[c] = "idle"
     \/ /\ dial[c] = "gone" /\ stream[Client(c)] = "closed"
        /\ stream[Pppd(c)] # "open" /\ proc[c] \in {"none", "reaped"}
  /\ dial' = [dial EXCEPT ![c] = "dialling"]
  /\ backlog' = Append(backlog, c)
  /\ stream' = [s \in Ends |-> IF Owner(s) = c THEN "none" ELSE stream[s]]
  /\ cred' = [cred EXCEPT ![c] = NoCredential(FALSE)]
  /\ addr' = [addr EXCEPT ![c] = NoAddr]
  /\ proc' = [proc EXCEPT ![c] = "none"]
  /\ transit' = [s \in Ends |-> IF Owner(s) = c THEN 0 ELSE transit[s]]
  /\ UNCHANGED <<loopVars, peer, remoteAddr, exitFlag, inbox, noise, inbuf, outbuf>>

\* The far side of an end writes a unit
Send(s) ==
  /\ stream[s] = "open" /\ Alive(s) /\ inbox[s] < InMax
  /\ inbox' = [inbox EXCEPT ![s] = @ + 1]
  /\ transit' = [transit EXCEPT ![s] = @ + 1]
  /\ UNCHANGED <<loopVars, pairVars, envVars, noise, inbuf, outbuf>>

\* a TLS record that carries no application data
Noise(c) ==
  /\ EmptyReads /\ dial[c] = "up" /\ stream[Client(c)] = "open"
  /\ noise' = [noise EXCEPT ![c] = TRUE]
  /\ UNCHANGED <<loopVars, pairVars, envVars, inbox, inbuf, outbuf, transit>>

HangUp(c) ==
  /\ dial[c] \in {"dialling", "up"}
  /\ dial' = [dial EXCEPT ![c] = "gone"]
  /\ UNCHANGED <<loopVars, pairVars, exitFlag, backlog, proc, dataVars>>

PppdExit(c) ==
  /\ proc[c] = "running"
  /\ proc' = [proc EXCEPT ![c] = "exited"]
  /\ UNCHANGED <<loopVars, pairVars, exitFlag, backlog, dial, dataVars>>

\* SIGINT: the flag is set, and a poll() that is waiting returns with EINTR
Signal ==
  /\ ~exitFlag /\ pc # "done"
  /\ exitFlag' = TRUE
  /\ pc' = IF pc = "wait" THEN "check" ELSE pc
  /\ UNCHANGED <<cur, conns, pairVars, backlog, dial, proc, dataVars>>

----------------------------------------------------------------------------
AcceptStep(c) == Refuse(c) \/ Admit(c) \/ Launch(c) \/ LaunchFailed(c)
ServerStep ==
  \/ LoopCheck \/ FlushAndReturn \/ FlushAndWait \/ Wake \/ Reap \/ Accept \/ BrokenPipe
  \/ \E c \in Clients : AcceptStep(c)
  \/ \E s \in Ends : Relay(s) \/ Disconnect(s)

ClientStep(c) == \/ Dial(c) \/ HangUp(c) \/ Noise(c) \/ PppdExit(c)
                 \/ NegotiationDone(c) \/ NegotiationFailed(c)

Next == \/ ServerStep
        \/ \E c \in Clients : ClientStep(c)
        \/ \E s \in Ends : Send(s)
        \/ Signal

Spec == Init /\ [][Next]_vars

(* The thread keeps running; a negotiation whose client has gone ends; a pppd  *)
(* whose pty has been closed gets SIGHUP and exits.  Nothing is asked of the   *)
(* clients, nor of a negotiation whose client stays.                           *)
NegotiationCut(c) == dial[c] = "gone" /\ NegotiationFailed(c)
HungUp(c) == stream[Pppd(c)] # "open" /\ PppdExit(c)
Fairness == /\ WF_vars(ServerStep)
            /\ \A c \in Clients : WF_vars(NegotiationCut(c)) /\ WF_vars(HungUp(c))

FairSpec == Spec /\ Fairness

----------------------------------------------------------------------------
(* Properties *)

TypeOK ==
  /\ pc \in {"check", "flush", "wait", "handle", "negotiate", "auth", "launch",
             "reap", "done"}
  /\ cur \in Items /\ conns \in Seq(Items)
  /\ stream \in [Ends -> {"none", "open", "closed"}]
  /\ peer \in [Ends -> Ends \union {Null}]
  /\ exitFlag \in BOOLEAN /\ backlog \in Seq(Clients)
  /\ dial \in [Clients -> {"idle", "dialling", "up", "gone"}]
  /\ cred \in [Clients -> Credentials]
  /\ proc \in [Clients -> {"none", "running", "exited", "reaped"}]
  /\ remoteAddr \in 0..254 /\ addr \in [Clients -> 0..254]
  /\ inbox \in [Ends -> 0..InMax] /\ noise \in [Clients -> BOOLEAN]
  /\ inbuf \in [Ends -> 0..BuffSize]
  /\ outbuf \in [Ends -> 0..OutBuffSize] /\ transit \in [Ends -> Int]

\* The stream SSLAcceptClient is still working on
InHand(s) == cur = s /\ pc \in {"negotiate", "auth", "launch"}

\* Nothing in the list Connections has been freed, and a "Peer" item leads to a
\* stream that is in the list too and leads back: SSLProcess never writes to,
\* or closes a second time, a stream an earlier pass has closed.
NoDangling ==
  /\ \A s \in Ends : Listed(s) => stream[s] = "open"
  /\ \A s \in Ends : Listed(s) /\ peer[s] # Null =>
       Listed(peer[s]) /\ peer[peer[s]] = s /\ Owner(peer[s]) = Owner(s)

\* Every stream the server has open is one it listens to, the one it is
\* accepting apart: no client and no pppd is left behind open and unserved.
NoLeak == \A s \in Ends : stream[s] = "open" => Listed(s) \/ InHand(s)

\* What README says of '-auth': only 'open' and 'ip-only' let a peer reach a
\* pppd without a certificate that has verified, and each mode's own condition
\* held when the pppd was started.
AuthorisedOnly ==
  \A c \in Clients : proc[c] = "running" =>
    /\ ServerAuth \notin {"open", "ip-only"} => cred[c].verified
    /\ ServerAuth \in {"ips", "ip-only"} => cred[c].ipListed
    /\ ServerAuth = "users" => cred[c].userListed
    /\ ServerAuth = "system" => cred[c].sysUser
    /\ ServerAuth # "ip"

\* SSLAuth builds its verdict from two flags set in eight places.  For a peer whose
\* certificate names it they come to just what the README says of the method,
\* neither more nor fewer peers, whichever method the server was started with.
\* Two cases are left out, in which the code and the README differ: a peer without
\* a name, and 'ip', the method of the README's example, which SSLAuth does not know.
NamedPeersAsDocumented ==
  \A c \in Clients, mode \in AuthModes \ {"ip"} :
    cred[c].named => (Authorised(mode, cred[c]) <=> Documented(mode, cred[c]))

\* While both ends of a couple live, what has entered at one and not come out at
\* the other is in one of the three buffers between: the loop neither loses a
\* unit nor writes one twice.
Conservation ==
  \A s \in Ends : Listed(s) /\ peer[s] # Null /\ Alive(peer[s]) =>
    transit[s] = inbox[s] + inbuf[s] + outbuf[peer[s]]

\* A couple that is closed because one end hung up has first delivered all that
\* end sent: the last bytes are not thrown away with the buffers.
EofLosesNothing ==
  [][\A c \in Clients : \A s \in {Client(c), Pppd(c)} :
       (Disconnect(s) /\ peer[s] # Null /\ ~Alive(s) /\ Alive(peer[s]))
          => transit'[s] = 0]_vars

\* A client's connection as the client sees it.
Phase(c) ==
  LET front == stream[Client(c)]
      back  == stream[Pppd(c)]
  IN  CASE front = "none" /\ back = "none" -> "none"
        [] front = "open" /\ back = "none" /\ InHand(Client(c)) -> "accepting"
        [] front = "open" /\ back = "none" /\ ~InHand(Client(c)) -> "alone"
        [] /\ front = "open" /\ peer[Client(c)] = Pppd(c)
           /\ back = "open" /\ peer[Pppd(c)] = Client(c) -> "coupled"
        [] front = "closed" /\ back # "open" -> "closed"
        [] OTHER -> "torn"

Live(c) == {e \in {"client", "pppd"} : Alive(<<e, c>>)}

Way(c) == [e \in {"client", "pppd"} |-> transit[<<e, c>>]]

Connection(c) ==
  INSTANCE Connection WITH
    Abrupt <- EmptyReads, phase <- Phase(c), live <- Live(c), way <- Way(c)

\* Each client gets what Connection promises, whatever the others do: the loop
\* hands on what a client sends only once it has a pppd of its own, and closes
\* the couple as a whole, for no other reason than that one of its ends has gone
\* (or, where a read may be empty, seems to), with nothing left that it sent.
KeepsConnections ==
  /\ \A c \in Clients : Connection(c)!Init
  /\ [][\A c \in Clients : [Connection(c)!Next]_(Connection(c)!vars)]_vars

\* The thread is not left for ever in a TLS negotiation a client never ends.
NotStuck == []<>(pc # "negotiate")

\* No stream's buffer is filled again whenever its turn comes: while one is,
\* STREAMSelect returns it without looking at the others.
Drains == []<>(\A s \in Ends : inbuf[s] = 0)

\* When one end of a couple goes, both are closed: the pppd of a client that has
\* hung up does not keep its link, nor the client its connection.
TornDown ==
  NotStuck /\ Drains => \A c \in Clients :
    (Listed(Client(c)) /\ peer[Client(c)] # Null /\ ~(Alive(Client(c)) /\ Alive(Pppd(c))))
       ~> (stream[Client(c)] # "open" /\ stream[Pppd(c)] # "open") \/ pc = "done"

GetsTurn(s) ==
  (Listed(s) /\ Readable(s)) ~> (pc = "handle" /\ cur = s) \/ ~Listed(s) \/ pc = "done"

\* Requeueing in STREAMSelect: a stream with something to read gets its turn
\* however busy the others are, unless one of them never lets its buffer drain.
Served == NotStuck /\ Drains => \A s \in Ends : GetsTurn(s)

\* 'this stream has had it's turn, move it to the bottom of the list so it can't
\* lock others out' (Stream.c:414-415).  A stream with something to read gets its
\* turn, whatever the others send.
NotLockedOut == NotStuck => \A s \in Ends : GetsTurn(s)

\* After SIGINT the loop comes to rest: it ends, or (the signal having come
\* between the test of the flag and the poll) sits in a poll nothing wakes.
ExitComesToRest ==
  exitFlag ~> [](pc \in {"done", "wait", "negotiate"})

=============================================================================
