------------------------------- MODULE ByteQueue -------------------------------
(* What a stream promises the two who use it.  Bytes come out in the order     *)
(* they went in, each once.  What a call was given is taken over whole, or the *)
(* caller is told that it was not; what was taken over is sent, unless the     *)
(* writer closes first; what was sent is handed out.                           *)
EXTENDS Naturals, Sequences

VARIABLES
    given,      \* what the writer's call has still to be relieved of
    told,       \* what its latest call answered: "none" as yet, "ok", "closed"
    kept,       \* bytes taken over and not sent
    sent,       \* bytes sent and not handed out
    taken,      \* bytes handed out by the latest step
    open        \* the writer has not closed

vars == <<given, told, kept, sent, taken, open>>

Init ==
    /\ given = <<>> /\ told = "none" /\ kept = <<>> /\ sent = <<>> /\ taken = <<>>
    /\ open = TRUE

Begins(s, t) == Len(s) <= Len(t) /\ SubSeq(t, 1, Len(s)) = s

\* The first of what was in one is behind what was in the other, and nothing else
\* has changed.
Passed(from, left, to, longer) ==
    Begins(to, longer) /\ from = SubSeq(longer, Len(to) + 1, Len(longer)) \o left

Call ==
    /\ open /\ given = <<>>
    /\ told' = "none" /\ taken' = <<>>
    /\ UNCHANGED <<kept, sent, open>>

\* Some of it is taken over; the call is answered when all is.
Take ==
    /\ open /\ Passed(given, given', kept, kept')
    /\ told' = told \/ (given' = <<>> /\ told' = "ok")
    /\ taken' = <<>>
    /\ UNCHANGED <<sent, open>>

\* The rest of it is not taken over, and the caller is told.
Refuse ==
    /\ open /\ given' = <<>> /\ told' = "closed" /\ taken' = <<>>
    /\ UNCHANGED <<kept, sent, open>>

Send ==
    /\ open /\ Passed(kept, kept', sent, sent') /\ taken' = <<>>
    /\ UNCHANGED <<given, told, open>>

\* Some of it is handed out, or none.
Get ==
    /\ sent = taken' \o sent'
    /\ UNCHANGED <<given, told, kept, open>>

\* What was not sent by then is lost.
Close ==
    /\ open /\ given = <<>> /\ ~open'
    /\ kept' = <<>> /\ taken' = <<>>
    /\ UNCHANGED <<given, told, sent>>

Next == Call \/ Take \/ Refuse \/ Send \/ Get \/ Close

Spec == Init /\ [][Next]_vars
=============================================================================
