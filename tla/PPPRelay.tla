-------------------------------- MODULE PPPRelay --------------------------------
(* PPPDProcess() of ppp.c, between the pppd it starts and the far end: ssh     *)
(* (pppssh.c) or a TLS server (ssl_client.c, and ssl_server.c at the far end). *)
(* One thread reads either end and writes to the other, and gives the ppp      *)
(* device its addresses and routes once the two pppds have agreed on a link.   *)
(*                                                                             *)
(* Data is counted in units, each at most one 4096 byte read.                  *)
EXTENDS Naturals, Sequences

CONSTANTS
    InMax,          \* bound: units the kernel holds for a stream to read, and
    OutMax          \* of what was written to it

ASSUME BoundsAssumption == InMax \in Nat \ {0} /\ OutMax \in Nat \ {0}

VARIABLES
    tls,        \* whether the far end is a TLS server, or else ssh
    pc, cur,    \* the thread, and the stream STREAMSelect returned
    list, at,   \* Connections, and how far STREAMSelect has flushed it
    recv,       \* units waiting in the kernel to be read
    inbuf,      \* units left in the stream's InputBuff
    outbuf,     \* units in its OutputBuff
    sent,       \* units the far side of the stream has still to read
    alive,      \* the ends whose far side is there
    busy,       \* the TLS server's one thread is writing to us
    exitFlag,   \* GlobalFlags & FLAG_EXIT
    heard,      \* the ends that have been sent a frame
    link,       \* "down", or the local address the pppds agreed on
    configured  \* EndpointConfigured

loop == <<pc, cur, list, at>>
data == <<recv, inbuf, outbuf, sent>>
outside == <<alive, busy, exitFlag, heard, link>>
vars == <<tls, loop, data, outside, configured>>

Ends == {"pppd", "peer"}
Other(c) == IF c = "pppd" THEN "peer" ELSE "pppd"

BuffSize == 2       \* BUFSIZ holds two reads of 4096 bytes

Init ==
    /\ tls \in BOOLEAN
    /\ pc = "launch" /\ cur = "none" /\ list = <<"pppd", "peer">> /\ at = 1
    /\ recv = [c \in Ends |-> 0] /\ inbuf = recv /\ outbuf = recv /\ sent = recv
    /\ alive = {"peer"} /\ busy = FALSE /\ exitFlag = FALSE
    /\ heard = {} /\ link = "down" /\ configured = FALSE

-------------------------------------------------------------------------------
(* The thread.                                                                 *)

Goes(to) == pc' = to /\ UNCHANGED <<cur, list, at, data>>

\* PPPDLaunch; RunCommandOpen may give no stream.
Launch ==
    /\ pc = "launch"
    /\ \/ Goes("select") /\ alive' = alive \cup {"pppd"}
       \/ Goes("ended") /\ UNCHANGED alive
    /\ UNCHANGED <<tls, busy, exitFlag, heard, link, configured>>

\* The stream the thread is pushing data out of, if any: STREAMSelect flushes
\* each, STREAMWriteBytes and STREAMFlush follow a read, STREAMClose is last.
Pushed ==
    CASE pc = "select" -> list[at]
      [] pc \in {"write", "flush"} -> Other(cur)
      [] pc = "close" -> "pppd"
      [] OTHER -> "none"

Pushing(c) == Pushed = c /\ outbuf[c] > 0 /\ c \in alive

Push ==
    /\ \E c \in Ends :
         /\ Pushing(c) /\ sent[c] < OutMax
         /\ outbuf' = [outbuf EXCEPT ![c] = @ - 1]
         /\ sent' = [sent EXCEPT ![c] = @ + 1]
    /\ UNCHANGED <<tls, loop, recv, inbuf, outside, configured>>

Blocked(c) == Pushing(c) /\ sent[c] >= OutMax

\* Where the thread goes when it pushes no more.  STREAMSelect returns a stream
\* that has bytes in its buffer without looking further, and leaves it in its
\* place.
PushedOn ==
    \/ /\ pc = "select" /\ inbuf[list[at]] > 0
       /\ pc' = "test" /\ cur' = list[at] /\ at' = 1
    \/ /\ pc = "select" /\ inbuf[list[at]] = 0
       /\ pc' = (IF at = 1 THEN "select" ELSE "poll")
       /\ at' = 3 - at /\ UNCHANGED cur
    \/ pc = "write" /\ pc' = "flush" /\ UNCHANGED <<cur, at>>
    \/ pc = "flush" /\ pc' = "configure" /\ UNCHANGED <<cur, at>>
    \/ pc = "close" /\ pc' = "ended" /\ UNCHANGED <<cur, at>>

\* All of it is out, or the far side has gone; nobody looks at the result.
PushDone ==
    /\ \A c \in Ends : ~Pushing(c)
    /\ PushedOn
    /\ UNCHANGED <<tls, list, data, outside, configured>>

\* SIGPIPE, which is not caught: a write to a TLS server that has gone.
BrokenPipe ==
    /\ tls /\ Pushed = "peer" /\ outbuf["peer"] > 0 /\ "peer" \notin alive
    /\ Goes("ended") /\ UNCHANGED <<tls, outside, configured>>

Readable(c) == recv[c] > 0 \/ c \notin alive

\* poll() returns: the first readable stream of the list goes to the end of it.
Poll ==
    /\ pc = "poll"
    /\ \E i \in {1, 2} :
         /\ Readable(list[i]) /\ \A j \in 1..(i - 1) : ~Readable(list[j])
         /\ cur' = list[i] /\ list' = <<Other(list[i]), list[i]>>
    /\ pc' = "test"
    /\ UNCHANGED <<tls, at, data, outside, configured>>

\* Fault: poll() is given no time.
PollTimesOut_Never == FALSE /\ UNCHANGED vars

\* 300 milliseconds have passed.
PollTimesOut ==
    /\ pc = "poll" /\ \A c \in Ends : ~Readable(c)
    /\ cur' = "none" /\ pc' = "test"
    /\ UNCHANGED <<tls, list, at, data, outside, configured>>

\* Fault: the flag is looked at only when there is nothing to read.
Test_WhenIdle ==
    /\ pc = "test"
    /\ Goes(IF cur # "none" THEN "read" ELSE IF exitFlag THEN "close" ELSE "configure")
    /\ UNCHANGED <<tls, outside, configured>>

Test ==
    /\ pc = "test"
    /\ Goes(IF exitFlag THEN "close" ELSE IF cur = "none" THEN "configure" ELSE "read")
    /\ UNCHANGED <<tls, outside, configured>>

Lesser(m, n) == IF m < n THEN m ELSE n

\* Fault: what the buffer held is read over.
Read_Over ==
    /\ pc = "read" /\ pc' = "write"
    /\ \E k \in 1..BuffSize :
         /\ k <= recv[cur]
         /\ recv' = [recv EXCEPT ![cur] = @ - k]
         /\ inbuf' = [inbuf EXCEPT ![cur] = k - 1]
    /\ outbuf' = [outbuf EXCEPT ![Other(cur)] = Lesser(@ + 1, BuffSize)]
    /\ UNCHANGED <<tls, cur, list, at, sent, outside, configured>>

\* Fault: more is read than there is room for.
Read_NoRoom ==
    /\ pc = "read" /\ pc' = "write"
    /\ \E k \in 0..BuffSize :
         /\ k <= recv[cur] /\ inbuf[cur] + k > 0
         /\ recv' = [recv EXCEPT ![cur] = @ - k]
         /\ inbuf' = [inbuf EXCEPT ![cur] = @ + k - 1]
    /\ outbuf' = [outbuf EXCEPT ![Other(cur)] = Lesser(@ + 1, BuffSize)]
    /\ UNCHANGED <<tls, cur, list, at, sent, outside, configured>>

\* STREAMReadBytes takes a unit: it reads the descriptor only when the buffer
\* holds less than was asked for, and then what the buffer has room for.
\* STREAMWriteBytes queues it, and drops it when there is no room.
Read ==
    /\ pc = "read" /\ pc' = "write"
    /\ \E k \in 0..BuffSize :
         /\ k <= recv[cur] /\ inbuf[cur] + k > 0
         /\ inbuf[cur] > 1 => k = 0
         /\ recv' = [recv EXCEPT ![cur] = @ - k]
         /\ inbuf' = [inbuf EXCEPT ![cur] = @ + k - 1]
    /\ outbuf' = [outbuf EXCEPT ![Other(cur)] = Lesser(@ + 1, BuffSize)]
    /\ UNCHANGED <<tls, cur, list, at, sent, outside, configured>>

\* STREAMReadBytes answers less than 1: the loop ends, when it is pppd that went
\* only after PPPDHandleExit has waited for its process.
ReadEnds ==
    /\ pc = "read" /\ recv[cur] = 0 /\ inbuf[cur] = 0
    /\ Goes(IF cur = "pppd" THEN "reap" ELSE "close")
    /\ UNCHANGED <<tls, outside, configured>>

\* PPPDTryConfigureEndpoint.  NetDevFindForIP finds our ppp device when it has
\* Vpn->LocalAddress: PPPDLaunch has put 172.16.0.2 there when none was given.
\* A command of VpnUp may end the program.
Configure ==
    /\ pc = "configure"
    /\ IF ~configured /\ link = "asked"
       THEN configured' = TRUE /\ (Goes("select") \/ Goes("ended"))
       ELSE UNCHANGED configured /\ Goes("select")
    /\ UNCHANGED <<tls, outside>>

RelayStep ==
    \/ Launch \/ Push \/ PushDone \/ BrokenPipe \/ Poll \/ PollTimesOut \/ Test
    \/ Read \/ ReadEnds \/ Configure

-------------------------------------------------------------------------------
(* The two pppds and what lies between.                                        *)

InFlight(c) == recv[c] + inbuf[c] + outbuf[Other(c)] + sent[Other(c)]

ThreadWaits == UNCHANGED <<tls, loop, inbuf, outbuf, configured>>

\* Our pppd, or the far end, reads what was written to it: the TLS server's
\* thread does so only when it is not writing.
Deliver(c) ==
    /\ pc # "ended" /\ c \in alive /\ sent[c] > 0
    /\ c = "peer" => ~busy
    /\ sent' = [sent EXCEPT ![c] = @ - 1]
    /\ heard' = heard \cup {c}
    /\ UNCHANGED <<recv, alive, busy, exitFlag, link>> /\ ThreadWaits

\* Until there is a link a pppd asks for one, and waits for the answer.
MaySend(c) == pc # "ended" /\ c \in alive /\ (link # "down" \/ InFlight(c) = 0)

\* The server's thread takes up a frame of its pppd.
TakesUp ==
    /\ tls /\ ~busy /\ MaySend("peer") /\ busy' = TRUE
    /\ UNCHANGED <<recv, sent, alive, exitFlag, heard, link>> /\ ThreadWaits

Send(c) ==
    /\ IF tls /\ c = "peer" THEN busy /\ c \in alive /\ pc # "ended" ELSE MaySend(c)
    /\ recv[c] < InMax
    /\ recv' = [recv EXCEPT ![c] = @ + 1]
    /\ busy' = (busy /\ c # "peer")
    /\ UNCHANGED <<sent, alive, exitFlag, heard, link>> /\ ThreadWaits

\* Both have answered.  When no address was given the option
\* 'ipcp-accept-local' lets the far end choose another.
LinkUp ==
    /\ pc # "ended" /\ link = "down" /\ heard = Ends /\ alive = Ends
    /\ link' \in {"asked", "other"}
    /\ UNCHANGED <<recv, sent, alive, busy, exitFlag, heard>> /\ ThreadWaits

\* An end goes: pppd exits, the connection is lost.
Gone(c) ==
    /\ pc # "ended" /\ c \in alive /\ alive' = alive \ {c}
    /\ link' = IF c = "pppd" THEN "down" ELSE link
    /\ UNCHANGED <<recv, sent, busy, exitFlag, heard>> /\ ThreadWaits

\* A pppd that has closed its end exits, and the waitpid() for it returns.
Exits ==
    /\ pc = "reap" /\ "pppd" \notin alive /\ Goes("close")
    /\ UNCHANGED <<tls, outside, configured>>

\* 'lcp-echo-failure': a pppd that hears no more of the other gives up.
GivesUp(c) == Other(c) \notin alive /\ Gone(c)

\* SIGINT.  poll() and, but for TLS, the select() of a write that waits are cut
\* short.
Signal ==
    /\ pc \notin {"launch", "ended"}
    /\ exitFlag' = TRUE
    /\ IF pc = "poll"
       THEN pc' = "test" /\ cur' = "none" /\ UNCHANGED at
       ELSE IF \E c \in Ends : Blocked(c) /\ ~(tls /\ c = "peer")
       THEN PushedOn
       ELSE UNCHANGED <<pc, cur, at>>
    /\ UNCHANGED <<tls, list, data, alive, busy, heard, link, configured>>

Outside ==
    \/ \E c \in Ends : Deliver(c) \/ Send(c) \/ Gone(c)
    \/ TakesUp \/ LinkUp \/ Exits \/ Signal

Next == RelayStep \/ Outside

Spec == Init /\ [][Next]_vars

\* The thread runs, and so do the two pppds: they read, ask for a link until
\* there is one, agree on it, give it up when the other does not answer, and exit
\* when they have closed their end.
\* The TLS server gives each of its streams its turn.
Asks == link = "down" /\ (TakesUp \/ Send("peer"))

FairSpec ==
    /\ Spec
    /\ WF_vars(RelayStep) /\ WF_vars(LinkUp) /\ WF_vars(Exits) /\ WF_vars(Asks)
    /\ WF_vars(link = "down" /\ Send("pppd")) /\ WF_vars(busy /\ Send("peer"))
    /\ \A c \in Ends : SF_vars(Deliver(c)) /\ WF_vars(GivesUp(c))

-------------------------------------------------------------------------------
(* Properties.                                                                 *)

\* Every variable keeps its type, and no buffer is filled beyond its size.
TypeOK ==
    /\ tls \in BOOLEAN
    /\ pc \in {"launch", "select", "poll", "test", "read", "reap", "write",
               "flush", "configure", "close", "ended"}
    /\ cur \in Ends \cup {"none"} /\ (pc \in {"read", "write", "flush"} => cur \in Ends)
    /\ list \in {<<"pppd", "peer">>, <<"peer", "pppd">>} /\ at \in {1, 2}
    /\ recv \in [Ends -> 0..InMax] /\ inbuf \in [Ends -> 0..BuffSize]
    /\ outbuf \in [Ends -> 0..BuffSize] /\ sent \in [Ends -> 0..OutMax]
    /\ alive \subseteq Ends /\ busy \in BOOLEAN /\ exitFlag \in BOOLEAN
    /\ heard \subseteq Ends /\ link \in {"down", "asked", "other"}
    /\ configured \in BOOLEAN

\* What one end sent disappears only by being read at the other, while that
\* lives: neither a write cut short by a signal nor a full buffer loses any.
NothingLost ==
    [][\A c \in Ends : Other(c) \in alive /\ InFlight(c)' < InFlight(c) =>
         sent'[Other(c)] < sent[Other(c)]]_vars

\* Each of the two threads waits for the other to read.
Deadlocked == tls /\ busy /\ recv["peer"] = InMax /\ Blocked("peer")

Running == pc \notin {"launch", "ended"}

Over == exitFlag \/ alive # Ends \/ pc = "ended"

\* The link comes up, which takes the relay in both directions before there is a
\* device, and then the device is given its addresses and routes even when no
\* frame passes any more, unless the far end chose another address for it.
ComesUp == Running ~> configured \/ link = "other" \/ Over \/ Deadlocked

\* After SIGINT, and when either end goes, the relay ends, whatever is still
\* being sent, but for the case that the two threads wait for each other.
EndsWhenOver == Running /\ Over ~> pc = "ended" \/ Deadlocked
=============================================================================
