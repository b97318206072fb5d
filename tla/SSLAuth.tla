------------------------------ MODULE SSLAuth ------------------------------
(***************************************************************************)
(* Whom the ppp-over-TLS server lets in: SSLAuth() of ssl_server.c.        *)
(*                                                                         *)
(* A credential is what the server knows of a peer once STREAMServerAccept *)
(* has returned: does its certificate carry a common name, did the         *)
(* certificate verify, is the name a user of the host, is it in the list   *)
(* of '-auth users:', is the peer's IP in the list of '-auth ips:' or      *)
(* '-auth ip-only:'.                                                       *)
(***************************************************************************)
EXTENDS Naturals, FiniteSets

CERT == 1
USER == 2

\* "none" is an absent '-auth'; "ip" is '-auth ip:<list>', as the example in the
\* README has it, which none of the tests match
AuthModes == {"none", "open", "cert", "system", "users", "ips", "ip-only", "ip"}

Credentials == [named    : BOOLEAN, verified : BOOLEAN, sysUser : BOOLEAN,
                userListed : BOOLEAN, ipListed : BOOLEAN]

\* a connection whose TLS negotiation failed has no certificate to show
NoCredential(ipListed) ==
  [named |-> FALSE, verified |-> FALSE, sysUser |-> FALSE,
   userListed |-> FALSE, ipListed |-> ipListed]

\* Fault: a certificate that names someone is taken as verified
CertFlags_Unverified(cred) == IF cred.named THEN {CERT} ELSE {}

\* The certificate is looked at only when it names someone.
CertFlags(cred) == IF cred.named /\ cred.verified THEN {CERT} ELSE {}

\* Fault: '-auth ips:' falls through to the flags of 'ip-only'
NamedModeFlags_IpsIsIpOnly(mode, cred) ==
  IF mode \in {"ips", "ip-only"} /\ cred.ipListed THEN {CERT, USER}
  ELSE IF \/ mode = "cert"
          \/ mode = "system" /\ cred.sysUser
          \/ mode = "users" /\ cred.userListed
       THEN {USER} ELSE {}

\* The modes that are tested behind StrValid(p_UserName)
NamedModeFlags(mode, cred) ==
  IF \/ mode = "cert"
     \/ mode = "system" /\ cred.sysUser
     \/ mode = "users" /\ cred.userListed
     \/ mode = "ips" /\ cred.ipListed
  THEN {USER}
  ELSE IF mode = "ip-only" /\ cred.ipListed THEN {CERT, USER} ELSE {}

ModeFlags(mode, cred) ==
  CASE mode = "none" -> {USER}
    [] mode = "open" -> {CERT, USER}
    [] OTHER         -> IF cred.named THEN NamedModeFlags(mode, cred) ELSE {}

AuthFlags(mode, cred) == CertFlags(cred) \union ModeFlags(mode, cred)

\* SSL_AUTH_OKAY is both flags
Authorised(mode, cred) == AuthFlags(mode, cred) = {CERT, USER}

\* README.md:190-208, the authentication methods in its words.
Documented(mode, cred) ==
  CASE mode = "open"             -> TRUE
    [] mode \in {"none", "cert"} -> cred.verified
    [] mode = "system"           -> cred.verified /\ cred.sysUser
    [] mode = "users"            -> cred.verified /\ cred.userListed
    [] mode \in {"ips", "ip"}    -> cred.verified /\ cred.ipListed
    [] mode = "ip-only"          -> cred.ipListed
=============================================================================
