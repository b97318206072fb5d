---------------------------- MODULE SSLAuthProofs ----------------------------
(* SSLAuth() against the README's table, proved by cases over the flags: for   *)
(* every '-auth' and every credential.                                         *)
EXTENDS SSLAuth, TLAPS

\* The two bits of SSLAuth's result are different, and SSL_AUTH_OKAY is both.
LEMMA BothFlags ==
  ASSUME NEW m, NEW k
  PROVE  Authorised(m, k) <=> CERT \in AuthFlags(m, k) /\ USER \in AuthFlags(m, k)
<1>1. CertFlags(k) \subseteq {CERT, USER}
  BY DEF CertFlags
<1>2. NamedModeFlags(m, k) \subseteq {CERT, USER}
  BY DEF NamedModeFlags
<1>3. ModeFlags(m, k) \subseteq {CERT, USER}
  <2>1. CASE m \in {"none", "open"}
    BY <2>1 DEF ModeFlags
  <2>2. CASE m \notin {"none", "open"}
    BY <1>2, <2>2, Zenon DEF ModeFlags
  <2> QED BY <2>1, <2>2
<1> QED BY <1>1, <1>3 DEF Authorised, AuthFlags

\* What each bit stands for: CERT for a certificate that has verified, unless
\* the method does without; USER for the method's own condition.
LEMMA FlagsMean ==
  ASSUME NEW m \in AuthModes, NEW k \in Credentials
  PROVE  /\ CERT \in AuthFlags(m, k) <=>
              \/ k.named /\ k.verified
              \/ m = "open"
              \/ k.named /\ m = "ip-only" /\ k.ipListed
         /\ USER \in AuthFlags(m, k) <=>
              \/ m \in {"none", "open"}
              \/ /\ k.named
                 /\ \/ m = "cert"
                    \/ m = "system" /\ k.sysUser
                    \/ m = "users" /\ k.userListed
                    \/ m \in {"ips", "ip-only"} /\ k.ipListed
<1>0. CERT # USER
  BY DEF CERT, USER
<1>1. (CERT \in CertFlags(k) <=> k.named /\ k.verified) /\ USER \notin CertFlags(k)
  BY <1>0 DEF CertFlags
<1>2. /\ CERT \in NamedModeFlags(m, k) <=> m = "ip-only" /\ k.ipListed
      /\ USER \in NamedModeFlags(m, k) <=>
           \/ m = "cert"
           \/ m = "system" /\ k.sysUser
           \/ m = "users" /\ k.userListed
           \/ m \in {"ips", "ip-only"} /\ k.ipListed
  BY <1>0 DEF NamedModeFlags
<1>3. CASE m = "none"
  <2>1. ModeFlags(m, k) = {USER}
    BY <1>3 DEF ModeFlags
  <2> QED BY <1>0, <1>1, <1>3, <2>1 DEF AuthFlags
<1>4. CASE m = "open"
  <2>1. ModeFlags(m, k) = {CERT, USER}
    BY <1>4 DEF ModeFlags
  <2> QED BY <1>1, <1>4, <2>1 DEF AuthFlags
<1>5. CASE m \notin {"none", "open"}
  <2>1. ModeFlags(m, k) = IF k.named THEN NamedModeFlags(m, k) ELSE {}
    BY <1>5, Zenon DEF ModeFlags
  <2> QED BY <1>1, <1>2, <1>5, <2>1 DEF AuthFlags
<1> QED BY <1>3, <1>4, <1>5

\* The server admits a peer that shows no name for 'open' alone: every method of
\* the README that asks for a certificate, 'ip-only' too, needs one with a name.
THEOREM NamelessOnlyIfOpen ==
  ASSUME NEW m \in AuthModes, NEW k \in Credentials, ~k.named
  PROVE  Authorised(m, k) <=> m = "open"
BY BothFlags, FlagsMean DEF AuthModes

\* '-auth ip:', which the README gives as an example and SSLAuth never tests,
\* lets nobody in.
THEOREM IpAdmitsNobody ==
  ASSUME NEW k \in Credentials
  PROVE  ~Authorised("ip", k)
BY BothFlags, FlagsMean DEF AuthModes

\* For a peer whose certificate names it, and for every method SSLAuth tests, the
\* two flags SSLAuth collects are both set just when the README's condition holds.
THEOREM AsDocumented ==
  ASSUME NEW m \in AuthModes \ {"ip"}, NEW k \in Credentials, k.named
  PROVE  Authorised(m, k) <=> Documented(m, k)
<1>1. Authorised(m, k) <=> CERT \in AuthFlags(m, k) /\ USER \in AuthFlags(m, k)
  BY BothFlags
<1>2. /\ k.verified \in BOOLEAN /\ k.sysUser \in BOOLEAN
      /\ k.userListed \in BOOLEAN /\ k.ipListed \in BOOLEAN
  BY DEF Credentials
<1> QED BY <1>1, <1>2, FlagsMean DEF Documented, AuthModes
=============================================================================
