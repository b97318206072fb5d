----------------------------- MODULE MCConfigStore -----------------------------
(* One name, two processes, and settings that differ where the properties do.  *)
EXTENDS ConfigStore, TLC

CONSTANTS p, q, c, d

MCProcs == {p, q}
MCCerts == {c, d}

Set(server, cert, file, password, timeout, su) ==
    [k \in KeySet |->
        CASE k = "Server" -> server   [] k = "ClientCert" -> cert
          [] k = "ConfFile" -> file   [] k = "Password" -> password
          [] k = "Timeout" -> timeout [] k = "LocalSU" -> su
          [] OTHER -> "unset"]

Symmetry == Permutations(MCProcs) \cup Permutations(MCCerts)

MCValues == {"unset", "tls", "ovpn", "given", "copy", "word", "two words", "'two words'", "'word'", "time",
             "su", "sudo", "none"}

MCSettings == {
    Set("tls", "given", "unset", "word", "unset", "su"),
    Set("tls", "copy", "unset", "'two words'", "time", "unset"),
    Set("ovpn", "given", "given", "'word'", "time", "none"),
    Set("unset", "unset", "unset", "two words", "unset", "sudo")}

\* Settings in words that need no quotes.
MCPlainSettings == {v \in MCSettings :
    \A k \in KeySet : v[k] \notin {"two words", "'two words'", "'word'"}} \cup
    {Set("ovpn", "given", "given", "word", "time", "su")}
=============================================================================
