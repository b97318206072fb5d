------------------------------- MODULE MCSession -------------------------------
(* Instances of Session for TLC.                                               *)
EXTENDS Session

CONSTANTS s1, s2

MCDevNames == [tun |-> <<"tun0", "tun1", "tun2">>, wg |-> <<"wg0">>]

MCPair == {s1, s2}

Two(one, other) == [s \in MCPair |-> IF s = s1 THEN one ELSE other]

Request(proto, name, root) ==
    [proto |-> proto, dev |-> name, dns |-> name = NoDev, root |-> root]

\* Two that look for the same kind of device, one of which may find none left;
\* two protocols; and one that was given the user's device.
MCRequests ==
    { Two(Request("wg", NoDev, TRUE), Request("wg", NoDev, FALSE)),
      Two(Request("ssh", NoDev, FALSE), Request("openvpn", NoDev, FALSE)),
      Two(Request("ssh", NoDev, TRUE), Request("ssh", "tun1", FALSE)) }

\* A device the user made.
MCPresent == { {"tun1"} }
=============================================================================
