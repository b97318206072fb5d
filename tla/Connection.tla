------------------------------ MODULE Connection ------------------------------
(* What one client of the ppp-over-TLS server (src/ssl_server.c) counts on,    *)
(* whatever the other clients do: its connection is accepted, refused or       *)
(* coupled to a pppd of its own; only in a couple does anything come out at    *)
(* the other side; and a couple is closed as a whole, when one side has gone,  *)
(* after what that side had sent has come out.                                 *)
EXTENDS Naturals

CONSTANT Abrupt         \* a read of no bytes may pass for the end of a side

VARIABLES
    phase,              \* of the connection
    live,               \* the sides that are there: the client, its pppd
    way                 \* what each side has sent and has not come out

vars == <<phase, live, way>>

Sides == {"client", "pppd"}

Init == phase = "none" /\ live = {} /\ way = [e \in Sides |-> 0]

\* Nothing on its way is added to: it comes out, or has nobody left to come to.
Drains == \A e \in Sides : way'[e] \in 0..way[e]

Accept == phase = "none" /\ phase' = "accepting" /\ UNCHANGED <<live, way>>

\* The negotiation with the client is over.
Come ==
    /\ phase = "accepting" /\ live' = live \cup {"client"}
    /\ UNCHANGED <<phase, way>>

Refuse == phase = "accepting" /\ phase' = "closed" /\ UNCHANGED <<live, way>>

Couple ==
    /\ phase = "accepting" /\ phase' = "coupled"
    /\ live' = live \cup {"pppd"}
    /\ UNCHANGED way

\* No pppd could be started.
LeftAlone == phase = "accepting" /\ phase' = "alone" /\ UNCHANGED <<live, way>>

Send(e) ==
    /\ e \in live /\ phase \notin {"none", "closed"}
    /\ way' = [way EXCEPT ![e] = @ + 1]
    /\ UNCHANGED <<phase, live>>

Deliver == phase = "coupled" /\ Drains /\ UNCHANGED <<phase, live>>

Leave(e) == e \in live /\ live' = live \ {e} /\ UNCHANGED <<phase, way>>

\* Side e has gone; if the other is there, it has had all that e sent.
Finished(e) == e \notin live /\ (Sides \ {e} \subseteq live => way'[e] = 0)

Close ==
    /\ phase = "coupled" /\ phase' = "closed"
    /\ Drains
    /\ Abrupt \/ \E e \in Sides : Finished(e)
    /\ UNCHANGED live

CloseAlone == phase = "alone" /\ phase' = "closed" /\ UNCHANGED <<live, way>>

\* The place is taken by a new connection.
Renew ==
    /\ phase = "closed" /\ live = {}
    /\ phase' = "none" /\ way' = [e \in Sides |-> 0]
    /\ UNCHANGED live

Next ==
    \/ Accept \/ Come \/ Refuse \/ Couple \/ LeftAlone
    \/ Deliver \/ Close \/ CloseAlone \/ Renew
    \/ \E e \in Sides : Send(e) \/ Leave(e)

Spec == Init /\ [][Next]_vars
=============================================================================
