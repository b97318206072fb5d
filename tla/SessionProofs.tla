----------------------------- MODULE SessionProofs -----------------------------
(* Proofs about Session: for any number of sessions and devices, any requests  *)
(* made of them together, with commands that fail, end the program or hang,    *)
(* and SIGINT at any point.                                                    *)
EXTENDS Session, TLAPS

-------------------------------------------------------------------------------
(* The inductive invariant.                                                    *)

Unconnected ==
    {"modprobe", "choose", "test", "make", "activate", "userspace", "configure",
     "connect", "available", "launch"}

Upping == {"settings", "save", "replace", "script"}

\* Where a session does nothing more.
Over == Final \cup {"stuck"}

\* Where a session can still stand once Active points at its stream.
WithActive == {"look", "watch", "reap", "close"} \cup Over

\* What VpnUp has done so far: nothing before the connection, less than the
\* bound while it runs, and at most one save for each.
Counts(s) ==
    /\ pc[s] \in Unconnected \cup {"setup"} => did[s].ups = 0
    /\ pc[s] \in Upping => did[s].ups < MaxUps
    /\ pc[s] \notin Over =>
         /\ did[s].downs = 0
         /\ \/ did[s].saves <= did[s].ups
            \/ pc[s] \in {"replace", "script"} /\ did[s].saves <= did[s].ups + 1
    /\ pc[s] = "userspace" => tries[s] < 3

\* The scripts of ssh.
Paired(s) == pc[s] = "end" /\ Proto(s) = "ssh" /\ did[s].ups > 0 => did[s].downs > 0

\* The tunnel is carried by nothing before the connection, and Active points at
\* the stream only while SSHProcess runs and until STREAMClose.
Carried(s) ==
    /\ pc[s] \in Unconnected => link[s] = "none"
    /\ active[s] = "open" => pc[s] \in WithActive

\* A session has a device from the time it chose one or openvpn named one.
Named(s) ==
    /\ pc[s] \in {"modprobe", "choose"} => dev[s] = NoDev
    /\ pc[s] \in {"available", "launch"} => dev[s] = Unknown
    /\ pc[s] = "follow" => dev[s] # NoDev
    /\ pc[s] \in {"test", "make", "activate", "userspace", "configure", "connect", "setup",
                  "enter", "look", "watch", "terminal"} \cup Upping => dev[s] \in Names

\* What a session made is its device,
Owns(s) == \A d \in Names : maker[d] = s => dev[s] = d

\* and when it has been taken down it is no more.
Gone(s) ==
    pc[s] \in {"downscript", "end"} /\ link[s] # "none" /\ ~did[s].failed
    => \A d \in Names : maker[d] # s

Unshared(s) == \A t \in Sessions \ {s} : dev[t] # dev[s]

\* TunSetup left a device that is there; 'wg set' worked only on one that is;
\* openvpn made its own.
HasDevice(s) ==
    /\ \/ pc[s] \in {"activate", "connect"}
       \/ /\ link[s] = "on" /\ dev[s] # Unknown
          /\ pc[s] \in {"setup", "enter", "look", "watch", "terminal", "follow"} \cup Upping
    /\ ~did[s].failed /\ Unshared(s)
    => Exists(dev[s])

\* The two moves of ResolvChange: the second comes after the first, or after one
\* that had no effect; until one of either the original is where it was; and after
\* one of the first kind it is where it was moved to.
Moved(s) == did[s].unmoved \/ did[s].saves > 0

Resolving ==
    /\ (\E s \in Sessions : pc[s] = "replace") => \E t \in Sessions : Moved(t)
    /\ (\A s \in Sessions : ~Moved(s)) => resolv = "original"
    /\ \A s \in Sessions :
         /\ did[s].saves = 1
         /\ \A t \in Sessions : ~did[t].unmoved /\ (t # s => did[t].saves = 0)
         => saved = "original"

Local(s) == Counts(s) /\ Paired(s) /\ Carried(s) /\ Named(s)

Devices(s) == Owns(s) /\ Gone(s) /\ HasDevice(s)

IInv ==
    /\ TypeOK
    /\ \A s \in Sessions : Local(s)
    /\ \A s \in Sessions : Devices(s)
    /\ Resolving

-------------------------------------------------------------------------------
(* Steps.                                                                      *)

\* The steps that change nothing but where the session stands.
Moves(s) ==
    \/ Quit(s) \/ Hang(s) \/ Modprobe(s) \/ Unconfigured(s) \/ Test(s) \/ Activate(s)
    \/ Settings(s) \/ Setup(s) \/ Look(s) \/ Watch(s)
    \/ TerminalLine(s) \/ TerminalCloses(s) \/ LogLine(s) \/ Available(s) \/ LineUp(s) \/ FollowEnds(s)

\* The others, those that count something apart.
Acts(s) ==
    \/ Choose(s) \/ Make(s) \/ Userspace(s) \/ Configure(s) \/ Replace(s)
    \/ Connect(s) \/ Enter(s) \/ Reap(s) \/ Close(s) \/ LinkEnds(s)
    \/ Launch(s) \/ LineOpened(s) \/ Kill(s) \/ Delete(s) \/ Signal(s)

Records(s) == Save(s) \/ UpScript(s) \/ DownScript(s)

LEMMA AfterTunSetupIs ==
  ASSUME NEW s, NEW ok
  PROVE  AfterTunSetup(s, ok) = IF Proto(s) = "ssh" THEN "connect"
                                ELSE IF Proto(s) = "wg" /\ ~ok /\ tries[s] < 3 THEN "userspace"
                                ELSE "configure"
  BY Zenon DEF AfterTunSetup

LEMMA AfterVpnUpIs ==
  ASSUME NEW s
  PROVE  AfterVpnUp(s) = IF Proto(s) = "ssh" THEN "enter"
                         ELSE IF Proto(s) = "wg" THEN "terminal" ELSE "follow"
  BY Zenon DEF AfterVpnUp

LEMMA HistoryFields ==
  ASSUME NEW h \in HistoryType
  PROVE  /\ h.ups \in 0..MaxUps /\ h.downs \in {0, 1} /\ h.saves \in 0..MaxUps
         /\ h.failed \in BOOLEAN /\ h.unmoved \in BOOLEAN
  BY DEF HistoryType

\* What a record of the history is after a change.
LEMMA WithFailed ==
  ASSUME NEW h \in HistoryType, NEW b \in BOOLEAN
  PROVE  [h EXCEPT !.failed = b] =
           [ups |-> h.ups, downs |-> h.downs, saves |-> h.saves, failed |-> b,
            unmoved |-> h.unmoved]
  BY DEF HistoryType

LEMMA WithUps ==
  ASSUME NEW h \in HistoryType, NEW n \in Nat
  PROVE  [h EXCEPT !.ups = n] =
           [ups |-> n, downs |-> h.downs, saves |-> h.saves, failed |-> h.failed,
            unmoved |-> h.unmoved]
  BY DEF HistoryType

LEMMA WithDowns ==
  ASSUME NEW h \in HistoryType, NEW n \in Nat
  PROVE  [h EXCEPT !.downs = n] =
           [ups |-> h.ups, downs |-> n, saves |-> h.saves, failed |-> h.failed,
            unmoved |-> h.unmoved]
  BY DEF HistoryType

LEMMA WithSaves ==
  ASSUME NEW h \in HistoryType, NEW n \in Nat
  PROVE  [h EXCEPT !.saves = n] =
           [ups |-> h.ups, downs |-> h.downs, saves |-> n, failed |-> h.failed,
            unmoved |-> h.unmoved]
  BY DEF HistoryType

LEMMA FailedEffect ==
  ASSUME TypeOK, NEW s \in Sessions, NEW done \in BOOLEAN, Failed(s, done)
  PROVE  /\ did' \in [Sessions -> HistoryType]
         /\ did'[s].ups = did[s].ups /\ did'[s].downs = did[s].downs
         /\ did'[s].saves = did[s].saves
         /\ did'[s].failed <=> did[s].failed \/ ~done
         /\ did'[s].unmoved = did[s].unmoved
<1>1. did[s] \in HistoryType /\ did \in [Sessions -> HistoryType]
  BY DEF TypeOK
<1> DEFINE b == did[s].failed \/ ~done
           r == [ups |-> did[s].ups, downs |-> did[s].downs, saves |-> did[s].saves, failed |-> b,
                 unmoved |-> did[s].unmoved]
<1>2. b \in BOOLEAN
  OBVIOUS
<1>3. [did[s] EXCEPT !.failed = b] = r
  BY <1>1, <1>2, WithFailed, Zenon
<1>4. did' = [did EXCEPT ![s] = r]
  BY <1>1, <1>3, Zenon DEF Failed
<1>5. r \in HistoryType
  BY <1>1, <1>2, HistoryFields, Zenon DEF HistoryType
<1> HIDE DEF b
<1>6. /\ r.ups = did[s].ups /\ r.downs = did[s].downs
      /\ r.saves = did[s].saves /\ r.failed = b
      /\ r.unmoved = did[s].unmoved
  OBVIOUS
<1> HIDE DEF r
<1>7. did'[s] = r
  BY <1>1, <1>4
<1>8. did' \in [Sessions -> HistoryType]
  BY <1>1, <1>4, <1>5
<1> QED BY <1>6, <1>7, <1>8, Zenon DEF b

LEMMA UpScriptEffect ==
  ASSUME TypeOK, NEW s \in Sessions, UpScript(s), did[s].ups < MaxUps
  PROVE  /\ did' \in [Sessions -> HistoryType]
         /\ did'[s].ups = did[s].ups + 1 /\ did'[s].downs = did[s].downs
         /\ did'[s].saves = did[s].saves /\ did'[s].failed = did[s].failed
         /\ did'[s].unmoved = did[s].unmoved
<1>1. did[s] \in HistoryType /\ did \in [Sessions -> HistoryType]
  BY DEF TypeOK
<1> DEFINE n == did[s].ups + 1
           r == [ups |-> n, downs |-> did[s].downs, saves |-> did[s].saves,
                 failed |-> did[s].failed, unmoved |-> did[s].unmoved]
<1>2. n \in 0..MaxUps /\ n \in Nat
  BY <1>1, HistoryFields, SessionAssumption
<1> HIDE DEF n
<1>3. [did[s] EXCEPT !.ups = n] = r
  BY <1>1, <1>2, WithUps, Zenon
<1>4. did' = [did EXCEPT ![s] = r]
  BY <1>1, <1>3, Zenon DEF UpScript, n
<1>5. r \in HistoryType
  BY <1>1, <1>2, HistoryFields, Zenon DEF HistoryType
<1>6. /\ r.ups = did[s].ups + 1 /\ r.downs = did[s].downs
      /\ r.saves = did[s].saves /\ r.failed = did[s].failed
      /\ r.unmoved = did[s].unmoved
  BY DEF n
<1> HIDE DEF r
<1>7. did'[s] = r /\ did' \in [Sessions -> HistoryType]
  BY <1>1, <1>4, <1>5
<1> QED BY <1>6, <1>7, Zenon

LEMMA DownScriptEffect ==
  ASSUME TypeOK, NEW s \in Sessions, DownScript(s), did[s].downs = 0
  PROVE  /\ did' \in [Sessions -> HistoryType]
         /\ did'[s].ups = did[s].ups /\ did'[s].downs = 1
         /\ did'[s].saves = did[s].saves /\ did'[s].failed = did[s].failed
         /\ did'[s].unmoved = did[s].unmoved
<1>1. did[s] \in HistoryType /\ did \in [Sessions -> HistoryType]
  BY DEF TypeOK
<1> DEFINE r == [ups |-> did[s].ups, downs |-> 1, saves |-> did[s].saves,
                 failed |-> did[s].failed, unmoved |-> did[s].unmoved]
<1>2. did[s].downs + 1 = 1 /\ 1 \in Nat
  OBVIOUS
<1>3. [did[s] EXCEPT !.downs = 1] = r
  BY <1>1, <1>2, WithDowns, Zenon
<1>4. did' = [did EXCEPT ![s] = r]
  BY <1>1, <1>2, <1>3, Zenon DEF DownScript
<1>5. r \in HistoryType
  BY <1>1, HistoryFields, Zenon DEF HistoryType
<1>6. /\ r.ups = did[s].ups /\ r.downs = 1
      /\ r.saves = did[s].saves /\ r.failed = did[s].failed
      /\ r.unmoved = did[s].unmoved
  OBVIOUS
<1> HIDE DEF r
<1>7. did'[s] = r /\ did' \in [Sessions -> HistoryType]
  BY <1>1, <1>4, <1>5
<1> QED BY <1>6, <1>7, Zenon

\* The record of a Save that worked.
LEMMA SaveEffect ==
  ASSUME TypeOK, NEW s \in Sessions, did[s].saves < MaxUps,
         did' = [did EXCEPT ![s].saves = @ + 1]
  PROVE  /\ did' \in [Sessions -> HistoryType]
         /\ did'[s].ups = did[s].ups /\ did'[s].downs = did[s].downs
         /\ did'[s].saves = did[s].saves + 1 /\ did'[s].failed = did[s].failed
         /\ did'[s].unmoved = did[s].unmoved
<1>1. did[s] \in HistoryType /\ did \in [Sessions -> HistoryType]
  BY DEF TypeOK
<1> DEFINE n == did[s].saves + 1
           r == [ups |-> did[s].ups, downs |-> did[s].downs, saves |-> n,
                 failed |-> did[s].failed, unmoved |-> did[s].unmoved]
<1>2. n \in 0..MaxUps /\ n \in Nat
  BY <1>1, HistoryFields, SessionAssumption
<1> HIDE DEF n
<1>3. [did[s] EXCEPT !.saves = n] = r
  BY <1>1, <1>2, WithSaves, Zenon
<1>4. did' = [did EXCEPT ![s] = r]
  BY <1>1, <1>3, Zenon DEF n
<1>5. r \in HistoryType
  BY <1>1, <1>2, HistoryFields, Zenon DEF HistoryType
<1>6. /\ r.ups = did[s].ups /\ r.downs = did[s].downs
      /\ r.saves = did[s].saves + 1 /\ r.failed = did[s].failed
      /\ r.unmoved = did[s].unmoved
  BY DEF n
<1> HIDE DEF r
<1>7. did'[s] = r /\ did' \in [Sessions -> HistoryType]
  BY <1>1, <1>4, <1>5
<1> QED BY <1>6, <1>7, Zenon

LEMMA WithUnmoved ==
  ASSUME NEW h \in HistoryType, NEW b \in BOOLEAN
  PROVE  [h EXCEPT !.unmoved = b] =
           [ups |-> h.ups, downs |-> h.downs, saves |-> h.saves, failed |-> h.failed,
            unmoved |-> b]
  BY DEF HistoryType

\* The record of a Save that did not.
LEMMA UnmovedEffect ==
  ASSUME TypeOK, NEW s \in Sessions,
         did' = [did EXCEPT ![s].unmoved = @ \/ resolv # "none"]
  PROVE  /\ did' \in [Sessions -> HistoryType]
         /\ did'[s].ups = did[s].ups /\ did'[s].downs = did[s].downs
         /\ did'[s].saves = did[s].saves /\ did'[s].failed = did[s].failed
         /\ did'[s].unmoved <=> did[s].unmoved \/ resolv # "none"
<1>1. did[s] \in HistoryType /\ did \in [Sessions -> HistoryType]
  BY DEF TypeOK
<1> DEFINE b == did[s].unmoved \/ resolv # "none"
           r == [ups |-> did[s].ups, downs |-> did[s].downs, saves |-> did[s].saves,
                 failed |-> did[s].failed, unmoved |-> b]
<1>2. b \in BOOLEAN
  OBVIOUS
<1>3. [did[s] EXCEPT !.unmoved = b] = r
  BY <1>1, <1>2, WithUnmoved, Zenon
<1>4. did' = [did EXCEPT ![s] = r]
  BY <1>1, <1>3, Zenon
<1>5. r \in HistoryType
  BY <1>1, <1>2, HistoryFields, Zenon DEF HistoryType
<1> HIDE DEF b
<1>6. /\ r.ups = did[s].ups /\ r.downs = did[s].downs
      /\ r.saves = did[s].saves /\ r.failed = did[s].failed
      /\ r.unmoved = b
  OBVIOUS
<1> HIDE DEF r
<1>7. did'[s] = r
  BY <1>1, <1>4
<1>8. did' \in [Sessions -> HistoryType]
  BY <1>1, <1>4, <1>5
<1> QED BY <1>6, <1>7, <1>8, Zenon DEF b

LEMMA OutcomesAre ==
  ASSUME NEW p \in BOOLEAN, NEW done \in Outcomes(p)
  PROVE  done \in BOOLEAN /\ (done => p)
  BY SessionAssumption DEF Outcomes

LEMMA SetEffect ==
  ASSUME TypeOK, NEW d, NEW v \in Sessions \cup {"nobody", "user"}
  PROVE  /\ Set(maker, d, v) \in [Names -> Sessions \cup {"nobody", "user"}]
         /\ \A e \in Names : Set(maker, d, v)[e] = IF e = d THEN v ELSE maker[e]
  BY DEF TypeOK, Set

LEMMA NextSplits ==
  ASSUME Next
  PROVE  \E s \in Sessions : Moves(s) \/ Acts(s) \/ Records(s)
  BY DEF Next, Steps, Remote, Outside, Moves, Acts, Records

LEMMA MoveShape ==
  ASSUME NEW s \in Sessions, Moves(s), TypeOK
  PROVE  /\ UNCHANGED <<conf, dev, tries, exit, active, link, host, did>>
         /\ \E x \in Places : pc' = [pc EXCEPT ![s] = x]
<1>1. UNCHANGED <<conf, dev, tries, exit, active, link, host, did>>
  BY DEF Moves, Quit, Hang, Modprobe, Unconfigured, Test, Activate, Settings, Setup, Look,
         Watch, TerminalLine, LogLine,
         TerminalCloses, Available, LineUp, FollowEnds
<1>2. \E x \in Places : pc' = [pc EXCEPT ![s] = x]
  BY DEF Moves, Quit, Hang, Modprobe, Unconfigured, Test, Activate, Settings, Setup, Look,
         Watch, TerminalLine, LogLine,
         TerminalCloses, Available, LineUp, FollowEnds, Goto, Places,
         Over, Final, AfterTunSetup
<1> QED BY <1>1, <1>2

LEMMA OthersKept ==
  ASSUME TypeOK, NEW s \in Sessions, Moves(s) \/ Acts(s) \/ Records(s), NEW t \in Sessions, t # s
  PROVE  /\ pc'[t] = pc[t] /\ dev'[t] = dev[t] /\ tries'[t] = tries[t]
         /\ active'[t] = active[t] /\ link'[t] = link[t] /\ did'[t] = did[t]
         /\ conf' = conf
<1>1. CASE Moves(s)
  BY <1>1, MoveShape DEF TypeOK, host
<1>2. CASE Acts(s)
  <2>1. CASE Choose(s) \/ Make(s) \/ Userspace(s)
    BY <2>1 DEF TypeOK, host, Choose, Make, Userspace, Goto, Failed
  <2>2. CASE Configure(s) \/ Replace(s) \/ Connect(s)
    BY <2>2 DEF TypeOK, host, Configure, Replace, Connect, Goto, Failed
  <2>3. CASE Enter(s) \/ Reap(s) \/ Close(s) \/ LinkEnds(s)
    BY <2>3 DEF TypeOK, host, Enter, Reap, Close, LinkEnds, Goto, Failed
  <2>4. CASE Launch(s) \/ LineOpened(s) \/ Signal(s)
    BY <2>4 DEF TypeOK, host, Launch, LineOpened, Signal, Goto, Failed
  <2>5. CASE Kill(s) \/ Delete(s)
    BY <2>5 DEF TypeOK, host, Kill, Delete, Goto, Failed
  <2> QED BY <1>2, <2>1, <2>2, <2>3, <2>4, <2>5 DEF Acts
<1>3. CASE Records(s)
  BY <1>3 DEF TypeOK, host, Records, Save, UpScript, DownScript, Goto, Failed
<1> QED BY <1>1, <1>2, <1>3

-------------------------------------------------------------------------------
(* Types and the parts about one session.                                      *)

LEMMA InitTypeOK == Init => TypeOK
<1> SUFFICES ASSUME Init PROVE TypeOK
  OBVIOUS
<1>1. conf \in [Sessions -> ConfigType]
  BY SessionAssumption DEF Init
<1>2. did \in [Sessions -> HistoryType]
  BY SessionAssumption DEF Init, HistoryType
<1>3. pc \in [Sessions -> Places]
  BY DEF Init, Start, Places
<1> QED BY <1>1, <1>2, <1>3, SessionAssumption DEF Init, TypeOK, Contents

LEMMA InitLocal == Init => \A s \in Sessions : Local(s) /\ Devices(s)
<1> SUFFICES ASSUME Init, NEW s \in Sessions PROVE Local(s) /\ Devices(s)
  OBVIOUS
<1>1. /\ pc[s] \in {"choose", "modprobe", "available"}
      /\ pc[s] = "available" <=> Proto(s) = "openvpn"
  BY InitTypeOK DEF Init, Start, TypeOK, ConfigType, Protocols, Proto
<1>2. /\ did[s].ups = 0 /\ did[s].downs = 0 /\ did[s].saves = 0
      /\ link[s] = "none" /\ active[s] = "null"
  BY DEF Init
<1>3. Local(s)
  BY <1>1, <1>2 DEF Init, Local, Counts, Paired, Carried, Named, Upping, Unconnected, Over, Final, Proto
<1>4. Devices(s)
  BY <1>1, <1>2, SessionAssumption DEF Init, Devices, Owns, Gone, HasDevice, Upping
<1> QED BY <1>3, <1>4

\* The devices that NetDevFindNext may answer.
LEMMA FreeNames ==
  ASSUME TypeOK, NEW s \in Sessions
  PROVE  NextFree(Prefix(Proto(s))) \subseteq Names \cup {NoDev}
  BY DEF NextFree, Prefix, Names

LEMMA MoveLocal ==
  ASSUME TypeOK, NEW s \in Sessions, Local(s), Moves(s)
  PROVE  TypeOK' /\ Local(s)'
<1>1. TypeOK'
  BY MoveShape DEF TypeOK, host
<1>2. did[s] \in HistoryType /\ did'[s] = did[s] /\ conf' = conf
  BY MoveShape DEF TypeOK
<1>3. Counts(s)'
  BY <1>2, MoveShape, AfterTunSetupIs, SessionAssumption
     DEF Local, Counts, TypeOK, HistoryType, Moves, Quit, Hang, Modprobe, Unconfigured,
         Test, Activate, Settings, Setup, Look, Watch, TerminalLine, LogLine,
         TerminalCloses, Available,
         LineUp, FollowEnds, Goto, Over, Final, Upping, Unconnected
<1>4. Paired(s)'
  BY <1>2, MoveShape, AfterTunSetupIs
     DEF Local, Counts, Paired, TypeOK, Moves, Quit, Hang, Modprobe, Unconfigured,
         Test, Activate, Settings, Setup, Look, Watch, TerminalLine, LogLine,
         TerminalCloses, Available,
         LineUp, FollowEnds, Goto, Over, Final, Unconnected, Proto
<1>5. Carried(s)'
  BY <1>2, MoveShape, AfterTunSetupIs
     DEF Local, Carried, TypeOK, Moves, Quit, Hang, Modprobe, Unconfigured,
         Test, Activate, Settings, Setup, Look, Watch, TerminalLine, LogLine,
         TerminalCloses, Available,
         LineUp, FollowEnds, Goto, Over, Final, Unconnected, WithActive, AtCommand
<1>6. Named(s)'
  BY <1>2, MoveShape, AfterTunSetupIs
     DEF Local, Named, TypeOK, Moves, Quit, Hang, Modprobe, Unconfigured,
         Test, Activate, Settings, Setup, Look, Watch, TerminalLine, LogLine,
         TerminalCloses, Available,
         LineUp, FollowEnds, Goto, Over, Final, Upping
<1> QED BY <1>1, <1>3, <1>4, <1>5, <1>6 DEF Local

-------------------------------------------------------------------------------
(* The other steps, one by one.                                                *)

LEMMA TunNames == \A i \in DOMAIN DevNames["tun"] : DevNames["tun"][i] \in Names
  BY DEF Names

\* The steps that count nothing.
LEMMA HistoryKept ==
  ASSUME TypeOK, NEW s \in Sessions, Acts(s)
  PROVE  /\ did' \in [Sessions -> HistoryType]
         /\ did'[s].ups = did[s].ups /\ did'[s].downs = did[s].downs
         /\ did'[s].saves = did[s].saves
         /\ did[s].failed => did'[s].failed
         /\ did'[s].unmoved = did[s].unmoved
<1>1. did \in [Sessions -> HistoryType]
  BY DEF TypeOK
<1>2. CASE did' = did
  BY <1>1, <1>2, Zenon
<1>3. CASE \E done \in BOOLEAN : Failed(s, done)
  BY <1>3, FailedEffect, Zenon
<1>4. CASE Make(s) \/ Configure(s)
  <2>1. \E done \in BOOLEAN : Failed(s, done)
    BY <1>4, OutcomesAre DEF Make, Configure, Exists
  <2> QED BY <2>1, <1>3
<1>5. CASE Kill(s) \/ Delete(s)
  <2>1. \E done \in BOOLEAN : Failed(s, done)
    BY <1>5, OutcomesAre DEF Kill, Delete, Exists
  <2> QED BY <2>1, <1>3
<1>6. CASE ~(Make(s) \/ Configure(s)) /\ ~(Kill(s) \/ Delete(s))
  <2>1. did' = did
    BY <1>6, Zenon
       DEF Acts, Choose, Userspace, Replace, Connect, Enter, Reap, Close, LinkEnds, Launch, LineOpened,
           Signal
  <2> QED BY <2>1, <1>2
<1> QED BY <1>4, <1>5, <1>6

LEMMA ActLocal ==
  ASSUME TypeOK, NEW s \in Sessions, Local(s), Acts(s)
  PROVE  TypeOK' /\ Local(s)'
<1>1. did[s] \in HistoryType /\ pc[s] \in Places /\ conf[s] \in ConfigType
  BY DEF TypeOK
<1>2. CASE Choose(s)
  <2>0. \E d \in Names \cup {NoDev} :
           /\ dev' = [dev EXCEPT ![s] = d]
           /\ pc' = [pc EXCEPT ![s] = IF d = NoDev THEN "end" ELSE "test"]
    <3>1. conf[s].dev \in Names \cup {NoDev}
      BY <1>1 DEF ConfigType
    <3> QED BY <1>2, <3>1, FreeNames DEF Choose, Goto
  <2>4. UNCHANGED <<conf, tries, exit, active, link, maker, resolv, saved, did>>
    BY <1>2 DEF Choose, host
  <2>1. TypeOK'
    BY <2>0, <2>4
       DEF TypeOK, Places, Over, Final, Contents
  <2>2. Counts(s)' /\ Paired(s)'
    BY <1>1, <1>2, HistoryKept, HistoryFields, <2>0, <2>4, SessionAssumption
       DEF Choose, TypeOK, Local, Counts, Paired, Proto, Unconnected, Upping, Over, Final
  <2>3. Carried(s)' /\ Named(s)'
    BY <1>1, <1>2, <2>0, <2>4, SessionAssumption
       DEF Choose, TypeOK, Local, Carried, Named, Unconnected, Upping, WithActive, Over, Final
  <2> QED BY <2>1, <2>2, <2>3 DEF Local
<1>3. CASE Make(s)
  <2>0. /\ maker' \in [Names -> Sessions \cup {"nobody", "user"}]
        /\ \E x \in {"activate", "connect", "userspace", "configure"} :
             pc' = [pc EXCEPT ![s] = x] /\ (x = "userspace" => tries[s] < 3)
    <3>1. maker' \in [Names -> Sessions \cup {"nobody", "user"}]
      BY <1>3, SetEffect DEF Make, TypeOK
    <3>2. PICK x : x \in {"activate", AfterTunSetup(s, FALSE)} /\ pc' = [pc EXCEPT ![s] = x]
      BY <1>3 DEF Make, Goto
    <3>3. x \in {"activate", "connect", "userspace", "configure"} /\ (x = "userspace" => tries[s] < 3)
      BY <3>2, AfterTunSetupIs
    <3> QED BY <3>1, <3>2, <3>3
  <2>1. TypeOK'
    BY <1>3, HistoryKept, <2>0
       DEF Make, TypeOK, Places, Over, Final, Contents
  <2>2. Counts(s)' /\ Paired(s)'
    BY <1>1, <1>3, HistoryKept, HistoryFields, <2>0
       DEF Make, TypeOK, Local, Counts, Paired, Proto, Unconnected, Upping, Over, Final
  <2>3. Carried(s)' /\ Named(s)'
    BY <1>1, <1>3, <2>0
       DEF Make, TypeOK, Local, Carried, Named, Unconnected, Upping, WithActive, Over, Final
  <2> QED BY <2>1, <2>2, <2>3 DEF Local
<1>4. CASE Userspace(s)
  <2>1. TypeOK'
    BY <1>4, HistoryKept, SetEffect
       DEF Userspace, Goto, TypeOK, host, Local, Counts, Places, Over, Final, Contents
  <2>2. Counts(s)' /\ Paired(s)'
    BY <1>1, <1>4, HistoryKept, HistoryFields, SetEffect
       DEF Userspace, Goto, TypeOK, Local, Counts, Paired, Proto, Unconnected, Upping, Over, Final
  <2>3. Carried(s)' /\ Named(s)'
    BY <1>1, <1>4, SetEffect
       DEF Userspace, Goto, TypeOK, host, Local, Carried, Named, Unconnected, Upping,
           WithActive, Over, Final
  <2> QED BY <2>1, <2>2, <2>3 DEF Local
<1>5. CASE Configure(s)
  <2>1. TypeOK'
    BY <1>5, HistoryKept, SessionAssumption
       DEF Configure, Goto, TypeOK, host, Local, Counts, Places, Over, Final, Contents, Reported
  <2>2. Counts(s)' /\ Paired(s)'
    BY <1>1, <1>5, HistoryKept, HistoryFields, SessionAssumption
       DEF Configure, Goto, TypeOK, Local, Counts, Paired, Proto, Unconnected, Upping,
           Over, Final, Reported
  <2>3. Carried(s)' /\ Named(s)'
    BY <1>1, <1>5, SessionAssumption
       DEF Configure, Goto, TypeOK, host, Local, Carried, Named, Unconnected, Upping,
           WithActive, Over, Final, Reported
  <2> QED BY <2>1, <2>2, <2>3 DEF Local
<1>6. CASE Replace(s)
  <2>1. TypeOK'
    BY <1>6, HistoryKept
       DEF Replace, Goto, TypeOK, host, Local, Counts, Places, Over, Final, Contents
  <2>2. Counts(s)' /\ Paired(s)'
    BY <1>1, <1>6, HistoryKept, HistoryFields
       DEF Replace, Goto, TypeOK, Local, Counts, Paired, Proto, Unconnected, Upping, Over, Final
  <2>3. Carried(s)' /\ Named(s)'
    BY <1>1, <1>6
       DEF Replace, Goto, TypeOK, host, Local, Carried, Named, Unconnected, Upping,
           WithActive, Over, Final
  <2> QED BY <2>1, <2>2, <2>3 DEF Local
<1>7. CASE LineOpened(s)
  <2>1. TypeOK'
    BY <1>7, HistoryKept, SetEffect, TunNames, SessionAssumption
       DEF LineOpened, Goto, TypeOK, host, Local, Counts, Places, Over, Final, Contents
  <2>2. Counts(s)' /\ Paired(s)'
    BY <1>1, <1>7, HistoryKept, HistoryFields, SetEffect, TunNames, SessionAssumption
       DEF LineOpened, Goto, TypeOK, Local, Counts, Paired, Proto, Unconnected, Upping,
           Over, Final
  <2>3. Carried(s)' /\ Named(s)'
    BY <1>1, <1>7, SetEffect, TunNames, SessionAssumption
       DEF LineOpened, Goto, TypeOK, host, Local, Carried, Named, Unconnected, Upping,
           WithActive, Over, Final
  <2> QED BY <2>1, <2>2, <2>3 DEF Local
<1>8. CASE Kill(s)
  <2>1. TypeOK'
    BY <1>8, HistoryKept
       DEF Kill, Goto, TypeOK, host, Local, Counts, Places, Over, Final, Contents
  <2>2. Counts(s)' /\ Paired(s)'
    BY <1>1, <1>8, HistoryKept, HistoryFields
       DEF Kill, Goto, TypeOK, Local, Counts, Paired, Proto, Unconnected, Upping, Over, Final
  <2>3. Carried(s)' /\ Named(s)'
    BY <1>1, <1>8
       DEF Kill, Goto, TypeOK, host, Local, Carried, Named, Unconnected, Upping, WithActive,
           Over, Final
  <2> QED BY <2>1, <2>2, <2>3 DEF Local
<1>9. CASE Delete(s)
  <2>1. TypeOK'
    BY <1>9, HistoryKept, SetEffect
       DEF Delete, Goto, TypeOK, host, Local, Counts, Places, Over, Final, Contents, AfterDelete
  <2>2. Counts(s)' /\ Paired(s)'
    BY <1>1, <1>9, HistoryKept, HistoryFields, SetEffect
       DEF Delete, Goto, TypeOK, Local, Counts, Paired, Proto, Unconnected, Upping, Over, Final,
           AfterDelete
  <2>3. Carried(s)' /\ Named(s)'
    BY <1>1, <1>9, SetEffect
       DEF Delete, Goto, TypeOK, host, Local, Carried, Named, Unconnected, Upping,
           WithActive, Over, Final, AfterDelete
  <2> QED BY <2>1, <2>2, <2>3 DEF Local
<1>10. CASE LinkEnds(s)
  <2>1. TypeOK'
    BY <1>10, HistoryKept
       DEF LinkEnds, Goto, TypeOK, host, Local, Counts, Places, Over, Final, Contents
  <2>2. Counts(s)' /\ Paired(s)'
    BY <1>1, <1>10, HistoryKept, HistoryFields
       DEF LinkEnds, Goto, TypeOK, Local, Counts, Paired, Proto, Unconnected, Upping, Over, Final
  <2>3. Carried(s)' /\ Named(s)'
    BY <1>1, <1>10
       DEF LinkEnds, Goto, TypeOK, host, Local, Carried, Named, Unconnected, Upping,
           WithActive, Over, Final
  <2> QED BY <2>1, <2>2, <2>3 DEF Local
<1>11. CASE Launch(s)
  <2>1. TypeOK'
    BY <1>11, HistoryKept
       DEF Launch, Goto, TypeOK, host, Local, Counts, Places, Over, Final, Contents, NoDev,
           Unknown
  <2>2. Counts(s)' /\ Paired(s)'
    <3>1. pc[s] = "launch" /\ pc'[s] \in {"follow", "end"} /\ conf' = conf
      BY <1>11 DEF Launch, Goto, TypeOK
    <3>2. UNCHANGED <<did, tries>>
      BY <1>11 DEF Launch
    <3>3. did[s].ups = 0
      BY <3>1 DEF Local, Counts, Unconnected
    <3>4. Counts(s)'
      BY <3>1, <3>2, <3>3 DEF Local, Counts, Unconnected, Upping, Over, Final
    <3>5. Paired(s)'
      BY <3>1, <3>2, <3>3 DEF Paired
    <3> QED BY <3>4, <3>5
  <2>3. Carried(s)' /\ Named(s)'
    BY <1>1, <1>11
       DEF Launch, Goto, TypeOK, host, Local, Carried, Named, Unconnected, Upping,
           WithActive, Over, Final, NoDev, Unknown
  <2> QED BY <2>1, <2>2, <2>3 DEF Local
<1>12. CASE Connect(s)
  <2>1. TypeOK'
    BY <1>12, HistoryKept
       DEF Connect, Goto, TypeOK, host, Local, Counts, Places, Over, Final, Contents
  <2>2. Counts(s)' /\ Paired(s)'
    BY <1>1, <1>12, HistoryKept, HistoryFields
       DEF Connect, Goto, TypeOK, Local, Counts, Paired, Proto, Unconnected, Upping, Over, Final
  <2>3. Carried(s)' /\ Named(s)'
    BY <1>1, <1>12
       DEF Connect, Goto, TypeOK, host, Local, Carried, Named, Unconnected, Upping,
           WithActive, Over, Final
  <2> QED BY <2>1, <2>2, <2>3 DEF Local
<1>13. CASE Enter(s)
  <2>1. TypeOK'
    BY <1>13, HistoryKept
       DEF Enter, Goto, TypeOK, host, Local, Counts, Places, Over, Final, Contents
  <2>2. Counts(s)' /\ Paired(s)'
    BY <1>1, <1>13, HistoryKept, HistoryFields
       DEF Enter, Goto, TypeOK, Local, Counts, Paired, Proto, Unconnected, Upping, Over, Final
  <2>3. Carried(s)' /\ Named(s)'
    BY <1>1, <1>13
       DEF Enter, Goto, TypeOK, host, Local, Carried, Named, Unconnected, Upping,
           WithActive, Over, Final
  <2> QED BY <2>1, <2>2, <2>3 DEF Local
<1>14. CASE Reap(s)
  <2>1. TypeOK'
    BY <1>14, HistoryKept
       DEF Reap, Goto, TypeOK, host, Local, Counts, Places, Over, Final, Contents
  <2>2. Counts(s)' /\ Paired(s)'
    BY <1>1, <1>14, HistoryKept, HistoryFields
       DEF Reap, Goto, TypeOK, Local, Counts, Paired, Proto, Unconnected, Upping, Over, Final
  <2>3. Carried(s)' /\ Named(s)'
    BY <1>1, <1>14
       DEF Reap, Goto, TypeOK, host, Local, Carried, Named, Unconnected, Upping, WithActive,
           Over, Final
  <2> QED BY <2>1, <2>2, <2>3 DEF Local
<1>15. CASE Close(s)
  <2>1. TypeOK'
    BY <1>15, HistoryKept
       DEF Close, Goto, TypeOK, host, Local, Counts, Places, Over, Final, Contents
  <2>2. Counts(s)' /\ Paired(s)'
    BY <1>1, <1>15, HistoryKept, HistoryFields
       DEF Close, Goto, TypeOK, Local, Counts, Paired, Proto, Unconnected, Upping, Over, Final
  <2>3. Carried(s)' /\ Named(s)'
    BY <1>1, <1>15
       DEF Close, Goto, TypeOK, host, Local, Carried, Named, Unconnected, Upping,
           WithActive, Over, Final
  <2> QED BY <2>1, <2>2, <2>3 DEF Local
<1>16. CASE Signal(s)
  <2>1. TypeOK'
    BY <1>16, HistoryKept
       DEF Signal, Goto, TypeOK, host, Local, Counts, Places, Over, Final, Contents
  <2>2. Counts(s)' /\ Paired(s)'
    BY <1>1, <1>16, HistoryKept, HistoryFields
       DEF Signal, Goto, TypeOK, Local, Counts, Paired, Proto, Unconnected, Upping, Over, Final
  <2>3. Carried(s)' /\ Named(s)'
    BY <1>1, <1>16
       DEF Signal, Goto, TypeOK, host, Local, Carried, Named, Unconnected, Upping,
           WithActive, Over, Final
  <2> QED BY <2>1, <2>2, <2>3 DEF Local
<1> QED BY <1>2, <1>3, <1>4, <1>5, <1>6, <1>7, <1>8, <1>9, <1>10, <1>11, <1>12, <1>13,
           <1>14, <1>15, <1>16 DEF Acts

\* The three steps that are counted.
LEMMA RecordLocal ==
  ASSUME TypeOK, NEW s \in Sessions, Local(s), Records(s)
  PROVE  /\ TypeOK' /\ Local(s)'
         /\ did'[s].saves = did[s].saves \/ (Save(s) /\ did'[s].saves = did[s].saves + 1)
         /\ did[s].failed => did'[s].failed
         /\ did'[s].unmoved = did[s].unmoved \/ Save(s)
<1>1. did[s] \in HistoryType /\ pc[s] \in Places
  BY DEF TypeOK
<1>2. CASE Save(s)
  <2>1. /\ did' \in [Sessions -> HistoryType]
        /\ did'[s].ups = did[s].ups /\ did'[s].downs = did[s].downs
        /\ did'[s].saves \in {did[s].saves, did[s].saves + 1}
        /\ did[s].failed => did'[s].failed
        /\ resolv' \in Contents /\ saved' \in Contents
    <3>1. CASE /\ did' = [did EXCEPT ![s].unmoved = @ \/ resolv # "none"]
               /\ UNCHANGED <<saved, resolv>>
      BY <3>1, UnmovedEffect DEF TypeOK
    <3>2. CASE /\ saved' = resolv /\ resolv' = "none"
               /\ did' = [did EXCEPT ![s].saves = @ + 1]
      <4>1. did[s].saves < MaxUps
        BY <1>1, <1>2, HistoryFields, SessionAssumption
           DEF Local, Counts, Save, Upping, Over, Final
      <4> QED BY <3>2, <4>1, SaveEffect DEF TypeOK, Contents
    <3> QED BY <1>2, <3>1, <3>2, Zenon DEF Save
  <2>2. pc' = [pc EXCEPT ![s] = "replace"] /\ pc[s] = "save"
        /\ UNCHANGED <<conf, dev, tries, exit, active, link, maker>>
    BY <1>2, Zenon DEF Save, Goto
  <2>3. TypeOK'
    BY <2>1, <2>2 DEF TypeOK, Places, Over, Final
  <2>4. Local(s)'
    BY <1>1, <2>1, <2>2, HistoryFields
       DEF TypeOK, Local, Counts, Paired, Carried, Named, Proto, Unconnected, Upping,
           WithActive, Over, Final
  <2>5. did'[s].saves = did[s].saves \/ did'[s].saves = did[s].saves + 1
    BY <2>1
  <2>6. did[s].failed => did'[s].failed
    BY <2>1
  <2> QED BY <1>2, <2>3, <2>4, <2>5, <2>6
<1>3. CASE UpScript(s)
  <2>1. pc[s] = "script" /\ UNCHANGED <<conf, dev, tries, exit, active, link, maker, resolv, saved>>
    BY <1>3 DEF UpScript, host
  <2>2. did[s].ups < MaxUps
    BY <2>1 DEF Local, Counts, Upping
  <2>3. \E x \in {"enter", "terminal", "follow"} : pc' = [pc EXCEPT ![s] = x]
    BY <1>3, AfterVpnUpIs DEF UpScript, Goto
  <2>4. TypeOK'
    BY <1>3, <2>1, <2>2, <2>3, UpScriptEffect DEF TypeOK, Places, Over, Final
  <2>5. Counts(s)' /\ Paired(s)'
    BY <1>1, <1>3, <2>1, <2>2, <2>3, UpScriptEffect, HistoryFields, SessionAssumption
       DEF TypeOK, Local, Counts, Paired, Unconnected, Upping, Over, Final
  <2>6. Carried(s)' /\ Named(s)'
    BY <2>1, <2>3, SessionAssumption
       DEF TypeOK, Local, Carried, Named, Unconnected, Upping, WithActive, Over, Final
  <2>7. /\ did'[s].saves = did[s].saves /\ did'[s].failed = did[s].failed
        /\ did'[s].unmoved = did[s].unmoved
    BY <1>3, <2>2, UpScriptEffect
  <2> QED BY <2>4, <2>5, <2>6, <2>7 DEF Local
<1>4. CASE DownScript(s)
  <2>1. /\ pc[s] = "downscript" /\ pc' = [pc EXCEPT ![s] = "end"]
        /\ UNCHANGED <<conf, dev, tries, exit, active, link, maker, resolv, saved>>
    BY <1>4 DEF DownScript, Goto, host
  <2>2. did[s].downs = 0
    BY <2>1 DEF Local, Counts, Over, Final
  <2>3. TypeOK'
    BY <1>4, <2>1, <2>2, DownScriptEffect DEF TypeOK, Places, Over, Final
  <2>4. Local(s)'
    BY <1>1, <1>4, <2>1, <2>2, DownScriptEffect
       DEF TypeOK, Local, Counts, Paired, Carried, Named, Unconnected, Upping, WithActive, Over, Final
  <2>5. /\ did'[s].saves = did[s].saves /\ did'[s].failed = did[s].failed
        /\ did'[s].unmoved = did[s].unmoved
    BY <1>4, <2>2, DownScriptEffect
  <2> QED BY <2>3, <2>4, <2>5
<1> QED BY <1>2, <1>3, <1>4 DEF Records

LEMMA LocalOfOthers ==
  ASSUME TypeOK, NEW s \in Sessions, Moves(s) \/ Acts(s) \/ Records(s),
         NEW t \in Sessions, t # s, Local(t)
  PROVE  Local(t)'
<1>1. /\ pc'[t] = pc[t] /\ dev'[t] = dev[t] /\ tries'[t] = tries[t]
      /\ active'[t] = active[t] /\ link'[t] = link[t] /\ did'[t] = did[t] /\ conf' = conf
  BY OthersKept
<1>2. Counts(t)'
  BY <1>1, Zenon DEF Local, Counts
<1>3. Paired(t)'
  BY <1>1, Zenon DEF Local, Paired, Proto
<1>4. Carried(t)'
  BY <1>1, Zenon DEF Local, Carried
<1>5. Named(t)'
  BY <1>1, Zenon DEF Local, Named
<1> QED BY <1>2, <1>3, <1>4, <1>5 DEF Local

LEMMA NextLocal ==
  ASSUME TypeOK, \A s \in Sessions : Local(s), Next
  PROVE  TypeOK' /\ \A s \in Sessions : Local(s)'
<1>1. PICK s \in Sessions : Moves(s) \/ Acts(s) \/ Records(s)
  BY NextSplits
<1>2. TypeOK' /\ Local(s)'
  BY <1>1, MoveLocal, ActLocal, RecordLocal
<1> QED BY <1>1, <1>2, LocalOfOthers

-------------------------------------------------------------------------------
(* The original resolv.conf.                                                   *)

\* What every step does to the two files and to what is recorded of them.
LEMMA ResolvingKept ==
  ASSUME TypeOK, TypeOK', Resolving,
         NEW s \in Sessions, Local(s), Moves(s) \/ Acts(s) \/ Records(s)
  PROVE  Resolving'
<1>1. /\ did \in [Sessions -> HistoryType] /\ did' \in [Sessions -> HistoryType]
      /\ \A t \in Sessions : did[t] \in HistoryType /\ did'[t] \in HistoryType
  BY DEF TypeOK
<1>2. \A t \in Sessions : t # s => did'[t] = did[t] /\ pc'[t] = pc[t]
  BY OthersKept
<1>3. CASE Save(s)
  <2>1. pc'[s] = "replace"
    BY <1>3 DEF Save, Goto, TypeOK
  <2>2. \A t \in Sessions : did[t].saves \in Nat
    BY <1>1, HistoryFields, SessionAssumption
  <2>3. CASE /\ did' = [did EXCEPT ![s].unmoved = @ \/ resolv # "none"]
             /\ UNCHANGED <<saved, resolv>>
    <3>1. /\ did'[s].saves = did[s].saves
          /\ did'[s].unmoved <=> did[s].unmoved \/ resolv # "none"
      BY <2>3, UnmovedEffect
    <3>2. \E t \in Sessions : Moved(t)'
      <4>1. CASE resolv # "none"
        BY <3>1, <4>1 DEF Moved
      <4>2. CASE resolv = "none"
        <5>1. PICK t \in Sessions : Moved(t)
          BY <4>2 DEF Resolving
        <5> QED BY <1>2, <3>1, <5>1 DEF Moved
      <4> QED BY <4>1, <4>2
    <3>3. \A t \in Sessions : /\ did'[t].saves = did[t].saves
                              /\ did[t].unmoved => did'[t].unmoved
      BY <1>2, <3>1
    <3> QED BY <2>3, <3>2, <3>3 DEF Resolving
  <2>4. CASE saved' = resolv /\ did' = [did EXCEPT ![s].saves = @ + 1]
    <3>1. did[s].saves < MaxUps
      BY <1>1, <1>3, HistoryFields, SessionAssumption DEF Local, Counts, Save, Upping, Over,
         Final
    <3>2. did'[s].saves = did[s].saves + 1 /\ did'[s].unmoved = did[s].unmoved
      BY <2>4, <3>1, SaveEffect
    <3>3. Moved(s)'
      BY <2>2, <3>2 DEF Moved
    <3>4. ASSUME NEW u \in Sessions, did'[u].saves = 1,
                 \A t \in Sessions : ~did'[t].unmoved /\ (t # u => did'[t].saves = 0)
          PROVE  saved' = "original"
      <4>1. u = s
        BY <2>2, <3>2, <3>4
      <4>2. \A t \in Sessions : ~Moved(t)
        BY <1>2, <2>2, <3>2, <3>4, <4>1 DEF Moved
      <4> QED BY <2>4, <4>2 DEF Resolving
    <3> QED BY <3>3, <3>4 DEF Resolving
  <2> QED BY <1>3, <2>3, <2>4, Zenon DEF Save
<1>4. CASE ~Save(s)
  <2>1. did'[s].saves = did[s].saves /\ did'[s].unmoved = did[s].unmoved
    BY <1>4, MoveShape, HistoryKept, RecordLocal
  <2>2. pc'[s] # "replace" \/ pc[s] = "replace"
    <3>1. CASE Moves(s)
      BY <3>1, AfterTunSetupIs
         DEF TypeOK, Moves, Quit, Hang, Modprobe, Unconfigured, Test, Activate, Settings, Setup,
             Look, Watch, TerminalLine, LogLine,
         TerminalCloses, Available, LineUp, FollowEnds, Goto
    <3>2. CASE Acts(s)
      <4>1. CASE Choose(s) \/ Userspace(s)
        BY <4>1 DEF TypeOK, Choose, Userspace, Goto
      <4>6. CASE Make(s)
        <5>1. PICK x \in {"activate", AfterTunSetup(s, FALSE)} : pc' = [pc EXCEPT ![s] = x]
          BY <4>6 DEF Make, Goto
        <5>2. x # "replace"
          BY <5>1, AfterTunSetupIs
        <5> QED BY <5>1, <5>2 DEF TypeOK
      <4>2. CASE Configure(s) \/ Replace(s) \/ Connect(s)
        BY <4>2 DEF TypeOK, Configure, Replace, Connect, Goto
      <4>3. CASE Enter(s) \/ Reap(s) \/ Close(s) \/ LinkEnds(s)
        BY <4>3 DEF TypeOK, Enter, Reap, Close, LinkEnds, Goto
      <4>4. CASE Launch(s) \/ LineOpened(s) \/ Signal(s)
        BY <4>4 DEF TypeOK, Launch, LineOpened, Signal, Goto
      <4>5. CASE Kill(s) \/ Delete(s)
        BY <4>5 DEF TypeOK, Kill, Delete, AfterDelete, Goto
      <4> QED BY <3>2, <4>1, <4>2, <4>3, <4>4, <4>5, <4>6 DEF Acts
    <3>3. CASE UpScript(s) \/ DownScript(s)
      BY <3>3, AfterVpnUpIs DEF TypeOK, UpScript, DownScript, Goto
    <3> QED BY <1>4, <3>1, <3>2, <3>3 DEF Records
  <2>3. saved' = saved
    BY <1>4, MoveShape
       DEF host, Records, UpScript, DownScript, Acts, Choose, Make, Userspace, Configure,
           Replace, Connect, Enter, Reap, Close, LinkEnds, Launch, LineOpened, Kill, Delete,
           Signal
  <2>4. resolv' = resolv \/ pc[s] = "replace"
    BY <1>4, MoveShape
       DEF host, Records, UpScript, DownScript, Acts, Choose, Make, Userspace, Configure,
           Replace, Connect, Enter, Reap, Close, LinkEnds, Launch, LineOpened, Kill, Delete,
           Signal
  <2>5. \A t \in Sessions : /\ did'[t].saves = did[t].saves
                            /\ did'[t].unmoved = did[t].unmoved
    BY <1>2, <2>1
  <2>6. \A t \in Sessions : Moved(t)' <=> Moved(t)
    BY <2>5 DEF Moved
  <2>7. ASSUME pc[s] = "replace" PROVE \E t \in Sessions : Moved(t)
    BY <2>7 DEF Resolving
  <2> QED BY <1>2, <2>2, <2>3, <2>4, <2>5, <2>6, <2>7 DEF Resolving
<1> QED BY <1>3, <1>4

-------------------------------------------------------------------------------
(* The devices.                                                                *)

\* A step makes only the session's device, and takes away only that.
LEMMA MakerEffect ==
  ASSUME TypeOK, NEW s \in Sessions, Owns(s), Moves(s) \/ Acts(s) \/ Records(s),
         NEW d \in Names
  PROVE  \/ maker'[d] = maker[d]
         \/ maker'[d] = "nobody" /\ dev[s] = d
         \/ maker'[d] = s /\ dev'[s] = d
<1>1. CASE Moves(s) \/ Records(s)
  BY <1>1, MoveShape DEF host, Records, Save, UpScript, DownScript
<1>2. CASE Make(s) \/ Userspace(s) \/ Delete(s)
  <2>1. dev' = dev
    BY <1>2 DEF Make, Userspace, Delete
  <2>2. maker' \in {maker, Set(maker, dev[s], s), Set(maker, dev[s], "nobody")}
    BY <1>2 DEF Make, Userspace, Delete
  <2>3. /\ Set(maker, dev[s], s)[d] = IF d = dev[s] THEN s ELSE maker[d]
        /\ Set(maker, dev[s], "nobody")[d] = IF d = dev[s] THEN "nobody" ELSE maker[d]
    BY SetEffect
  <2> QED BY <2>1, <2>2, <2>3
<1>3. CASE LinkEnds(s) \/ Kill(s)
  BY <1>3 DEF LinkEnds, Kill, Owns, TypeOK
<1>4. CASE LineOpened(s)
  BY <1>4, SetEffect, TunNames DEF LineOpened, TypeOK
<1>5. CASE /\ Acts(s) /\ ~(Make(s) \/ Userspace(s) \/ Delete(s))
           /\ ~(LinkEnds(s) \/ Kill(s) \/ LineOpened(s))
  <2>1. maker' = maker
    BY <1>5, Zenon
       DEF Acts, host, Choose, Configure, Replace, Connect, Enter, Reap, Close, Launch, Signal
  <2> QED BY <2>1
<1> QED BY <1>1, <1>2, <1>3, <1>4, <1>5

\* A device once named stays.
LEMMA DevEffect ==
  ASSUME TypeOK, NEW s \in Sessions, Named(s), Moves(s) \/ Acts(s) \/ Records(s)
  PROVE  dev'[s] = dev[s] \/ dev[s] \notin Names
<1>1. CASE Moves(s) \/ Records(s)
  BY <1>1, MoveShape DEF Records, Save, UpScript, DownScript
<1>2. CASE Choose(s) \/ LineOpened(s)
  BY <1>2, SessionAssumption DEF Choose, LineOpened, Named
<1>3. CASE Acts(s) /\ ~(Choose(s) \/ LineOpened(s))
  BY <1>3, Zenon
     DEF Acts, Make, Userspace, Configure, Replace, Connect, Enter, Reap, Close, LinkEnds,
         Launch, Kill, Delete, Signal
<1> QED BY <1>1, <1>2, <1>3

LEMMA OwnsKept ==
  ASSUME TypeOK, NEW s \in Sessions, Owns(s), Named(s), Moves(s) \/ Acts(s) \/ Records(s),
         NEW u \in Sessions, Owns(u)
  PROVE  Owns(u)'
<1> SUFFICES ASSUME NEW d \in Names, maker'[d] = u PROVE dev'[u] = d
  BY DEF Owns
<1>1. u # "nobody"
  BY SessionAssumption
<1>2. CASE maker'[d] = maker[d]
  BY <1>2, DevEffect, OthersKept DEF Owns
<1>3. CASE maker'[d] = s /\ dev'[s] = d
  BY <1>3
<1> QED BY <1>1, <1>2, <1>3, MakerEffect

LEMMA NothingMade ==
  ASSUME TypeOK, NEW s \in Sessions, Owns(s), Moves(s) \/ Acts(s) \/ Records(s),
         NEW u \in Sessions, NEW d \in Names, maker'[d] = u
  PROVE  maker[d] = u \/ (u = s /\ dev'[s] = d)
  BY MakerEffect, SessionAssumption

LEMMA GoneOfOthers ==
  ASSUME TypeOK, NEW s \in Sessions, Owns(s), Moves(s) \/ Acts(s) \/ Records(s),
         NEW u \in Sessions, u # s, Gone(u)
  PROVE  Gone(u)'
  BY OthersKept, NothingMade DEF Gone

LEMMA GoneKept ==
  ASSUME TypeOK, NEW s \in Sessions, Owns(s), Local(s), Gone(s),
         Moves(s) \/ Acts(s) \/ Records(s)
  PROVE  Gone(s)'
<1>1. CASE Moves(s)
  <2>1. UNCHANGED <<link, did, maker>>
    BY <1>1, MoveShape DEF host
  <2>2. pc'[s] \notin {"downscript", "end"} \/ pc[s] \in Unconnected
    BY <1>1, AfterTunSetupIs
       DEF TypeOK, Moves, Quit, Hang, Modprobe, Unconfigured, Test, Activate, Settings, Setup,
           Look, Watch, TerminalLine, LogLine,
         TerminalCloses, Available, LineUp, FollowEnds, Goto,
           Unconnected
  <2> QED BY <2>1, <2>2 DEF Gone, Local, Carried
<1>2. CASE Records(s)
  <2>1. UNCHANGED <<link, maker>>
    BY <1>2 DEF Records, Save, UpScript, DownScript, host
  <2>2. pc'[s] \notin {"downscript", "end"} \/ pc[s] = "downscript"
    BY <1>2, AfterVpnUpIs DEF TypeOK, Records, Save, UpScript, DownScript, Goto
  <2>3. did[s].failed => did'[s].failed
    BY <1>2, RecordLocal
  <2> QED BY <2>1, <2>2, <2>3 DEF Gone
<1>3. CASE Delete(s)
  <2>1. PICK done \in Outcomes(Exists(dev[s])) :
          /\ maker' = IF done THEN Set(maker, dev[s], "nobody") ELSE maker
          /\ Failed(s, done \/ ~Exists(dev[s]))
    BY <1>3 DEF Delete
  <2>2. done \in BOOLEAN /\ Exists(dev[s]) \in BOOLEAN
    BY OutcomesAre DEF Exists
  <2>3. did'[s].failed <=> did[s].failed \/ ~(done \/ ~Exists(dev[s]))
    BY <2>1, <2>2, FailedEffect
  <2>4. \A d \in Names : maker[d] = s => dev[s] = d
    BY DEF Owns
  <2>5. CASE done
    BY <2>1, <2>4, <2>5, SetEffect, SessionAssumption DEF Gone
  <2>6. CASE ~done /\ ~Exists(dev[s])
    BY <2>1, <2>4, <2>6, SessionAssumption DEF Gone, Exists
  <2>7. CASE ~done /\ Exists(dev[s])
    BY <2>3, <2>7 DEF Gone
  <2> QED BY <2>2, <2>5, <2>6, <2>7
<1>4. CASE LinkEnds(s) \/ Signal(s)
  <2>1. /\ did' = did /\ pc'[s] \in {pc[s], "quit"}
        /\ \A d \in Names : maker'[d] = maker[d] \/ maker'[d] = "nobody"
    BY <1>4 DEF LinkEnds, Signal, Goto, TypeOK, host
  <2>2. link'[s] = link[s] \/ link[s] # "none" \/ pc[s] \notin {"downscript", "end"}
    BY <1>4 DEF LinkEnds, Signal, Local, Carried, WithActive, Over, Final
  <2> QED BY <2>1, <2>2, SessionAssumption DEF Gone
<1>5. CASE Acts(s) /\ ~Delete(s) /\ ~(LinkEnds(s) \/ Signal(s))
  <2>1. \/ pc'[s] \notin {"downscript", "end"}
        \/ pc[s] \in Unconnected /\ link' = link
    BY <1>5, AfterTunSetupIs
       DEF TypeOK, Acts, Choose, Make, Userspace, Configure, Reported, Replace, Connect, Enter,
           Reap, Close, Launch, LineOpened, Kill, Goto, Unconnected
  <2> QED BY <2>1 DEF Gone, Local, Carried
<1> QED BY <1>1, <1>2, <1>3, <1>4, <1>5

LEMMA DeviceNamed ==
  ASSUME TypeOK, NEW s \in Sessions, Named(s),
         pc[s] \in {"activate", "connect", "setup", "enter", "look", "watch", "terminal"}
                     \cup Upping
           \/ (pc[s] = "follow" /\ dev[s] # Unknown)
  PROVE  dev[s] \in Names
  BY DEF TypeOK, Named

LEMMA HasDeviceOfOthers ==
  ASSUME TypeOK, NEW s \in Sessions, Owns(s), Named(s), Moves(s) \/ Acts(s) \/ Records(s),
         NEW u \in Sessions, u # s, Named(u), HasDevice(u)
  PROVE  HasDevice(u)'
<1>1. /\ pc'[u] = pc[u] /\ link'[u] = link[u] /\ did'[u] = did[u]
      /\ \A t \in Sessions \ {s} : dev'[t] = dev[t]
  BY OthersKept
<1> SUFFICES ASSUME \/ pc[u] \in {"activate", "connect"}
                    \/ /\ link[u] = "on" /\ dev[u] # Unknown
                       /\ pc[u] \in {"setup", "enter", "look", "watch", "terminal", "follow"}
                                      \cup Upping,
                    ~did[u].failed, \A t \in Sessions \ {u} : dev'[t] # dev[u]
             PROVE  Exists(dev[u])'
  BY <1>1 DEF HasDevice, Unshared
<1>2. dev[u] \in Names
  BY DeviceNamed
<1>3. dev[s] # dev[u]
  BY <1>2, DevEffect
<1>4. Unshared(u)
  BY <1>1, <1>3 DEF Unshared
<1>5. maker[dev[u]] # "nobody"
  BY <1>4 DEF HasDevice, Exists
<1>6. maker'[dev[u]] # "nobody"
  BY <1>2, <1>3, <1>5, MakerEffect, SessionAssumption
<1> QED BY <1>1, <1>2, <1>6 DEF Exists

LEMMA HasDeviceKept ==
  ASSUME TypeOK, NEW s \in Sessions, Owns(s), Local(s), HasDevice(s),
         Moves(s) \/ Acts(s) \/ Records(s)
  PROVE  HasDevice(s)'
<1> DEFINE Used == {"setup", "enter", "look", "watch", "terminal", "follow"} \cup Upping
<1>0. \A t \in Sessions \ {s} : dev'[t] = dev[t]
  BY OthersKept
<1>1. CASE Moves(s)
  <2>1. UNCHANGED <<dev, link, did, maker>>
    BY <1>1, MoveShape DEF host
  <2>2. \/ pc'[s] \notin {"activate", "connect"} \cup Used
        \/ pc[s] = "test" /\ pc'[s] = "activate" /\ Exists(dev[s])
        \/ pc[s] = "activate" /\ pc'[s] = "connect"
        \/ pc[s] \in Used /\ pc'[s] \in Used
        \/ pc[s] \in Unconnected /\ pc'[s] \in Used
    BY <1>1, AfterTunSetupIs
       DEF TypeOK, Moves, Quit, Hang, Modprobe, Unconfigured, Test, Activate, Settings, Setup,
           Look, Watch, TerminalLine, LogLine,
         TerminalCloses, Available, LineUp, FollowEnds, Goto,
           Unconnected, Upping
  <2> QED BY <2>1, <2>2 DEF HasDevice, Unshared, Exists, Local, Carried, Upping
<1>2. CASE Records(s)
  <2>1. UNCHANGED <<dev, link, maker>>
    BY <1>2 DEF Records, Save, UpScript, DownScript, host
  <2>2. (pc[s] \in Used /\ pc'[s] \in Used) \/ pc'[s] = "end"
    BY <1>2, AfterVpnUpIs DEF TypeOK, Records, Save, UpScript, DownScript, Goto, Upping
  <2>3. did[s].failed => did'[s].failed
    BY <1>2, RecordLocal
  <2> QED BY <2>1, <2>2, <2>3 DEF HasDevice, Unshared, Exists, Upping
<1>3. CASE Make(s)
  <2>1. PICK done \in Outcomes(~Exists(dev[s])) :
          /\ maker' = IF done THEN Set(maker, dev[s], s) ELSE maker
          /\ Failed(s, done)
    BY <1>3 DEF Make
  <2>2. done \in BOOLEAN
    BY OutcomesAre DEF Exists
  <2>3. CASE done
    <3>1. dev' = dev /\ dev[s] \in Names
      BY <1>3 DEF Make, Local, Named
    <3>2. maker'[dev[s]] = s
      BY <2>1, <2>3, <3>1, SetEffect
    <3> QED BY <3>1, <3>2, SessionAssumption DEF HasDevice, Exists
  <2>4. CASE ~done
    BY <2>1, <2>2, <2>4, FailedEffect DEF HasDevice
  <2> QED BY <2>2, <2>3, <2>4
<1>4. CASE Configure(s)
  <2>1. PICK done \in Outcomes(Exists(dev[s])) :
          /\ link' = IF done THEN [link EXCEPT ![s] = "on"] ELSE link
          /\ Failed(s, done)
    BY <1>4 DEF Configure
  <2>2. done \in BOOLEAN /\ (done => Exists(dev[s]))
    BY <2>1, OutcomesAre DEF Exists
  <2>3. dev' = dev /\ maker' = maker
    BY <1>4 DEF Configure, host
  <2>4. CASE done
    BY <2>2, <2>3, <2>4 DEF HasDevice, Exists
  <2>5. CASE ~done
    BY <2>1, <2>2, <2>5, FailedEffect DEF HasDevice
  <2> QED BY <2>2, <2>4, <2>5
<1>5. CASE LineOpened(s)
  <2>1. PICK d \in Names : dev' = [dev EXCEPT ![s] = d] /\ maker' = Set(maker, d, s)
    BY <1>5, TunNames DEF LineOpened
  <2>2. dev'[s] = d /\ maker'[d] = s
    BY <2>1, SetEffect DEF TypeOK
  <2> QED BY <2>2, SessionAssumption DEF HasDevice, Exists
<1>6. CASE Replace(s) \/ Connect(s) \/ Enter(s)
  <2>1. dev' = dev /\ maker' = maker
    BY <1>6 DEF Replace, Connect, Enter, host
  <2>2. \/ pc[s] = "connect"
        \/ pc[s] \in {"replace", "enter"} /\ pc'[s] \in {"script", "look"} /\ link' = link
    BY <1>6 DEF Replace, Connect, Enter, Goto, TypeOK
  <2>3. did[s].failed => did'[s].failed
    BY <1>6, HistoryKept DEF Acts
  <2>4. CASE pc[s] = "connect"
    BY <2>1, <2>3, <2>4 DEF HasDevice, Unshared, Exists
  <2>5. CASE /\ pc[s] \in {"replace", "enter"} /\ pc'[s] \in {"script", "look"}
             /\ link' = link
    BY <2>1, <2>3, <2>5 DEF HasDevice, Unshared, Exists, Upping
  <2> QED BY <2>2, <2>4, <2>5
<1>7. CASE Choose(s) \/ Userspace(s) \/ Reap(s) \/ Close(s) \/ Kill(s) \/ Delete(s)
  <2>1. pc'[s] \notin {"activate", "connect"} \cup Used \/ (pc'[s] = "configure")
    BY <1>7
       DEF TypeOK, Choose, Userspace, Reap, Close, Kill, Delete, AfterDelete, Goto, Upping
  <2> QED BY <2>1 DEF HasDevice, Upping
<1>8. CASE LinkEnds(s)
  <2>1. link'[s] = "off" /\ pc' = pc /\ link[s] = "on"
    BY <1>8 DEF LinkEnds, TypeOK
  <2> QED BY <2>1 DEF HasDevice, Local, Carried, Unconnected
<1>9. CASE Launch(s)
  <2>1. pc'[s] \in {"follow", "end"} /\ dev'[s] = Unknown
    BY <1>9 DEF Launch, Local, Named, Goto, TypeOK
  <2> QED BY <2>1 DEF HasDevice, Upping
<1>10. CASE Signal(s)
  <2>1. /\ dev' = dev /\ maker' = maker /\ did' = did /\ pc'[s] \in {pc[s], "quit"}
        /\ link'[s] \in {link[s], "off"}
    BY <1>10 DEF Signal, Goto, TypeOK, host
  <2> QED BY <2>1 DEF HasDevice, Unshared, Exists, Upping
<1> QED BY <1>1, <1>2, <1>3, <1>4, <1>5, <1>6, <1>7, <1>8, <1>9, <1>10 DEF Acts

-------------------------------------------------------------------------------
(* The theorems.                                                               *)

LEMMA InitIInv == Init => IInv
<1> SUFFICES ASSUME Init PROVE IInv
  OBVIOUS
<1>1. Resolving
  BY DEF Init, Resolving, Moved, Start
<1> QED BY <1>1, InitTypeOK, InitLocal DEF IInv

LEMMA StepIInv == IInv /\ [Next]_vars => IInv'
<1> SUFFICES ASSUME IInv, [Next]_vars PROVE IInv'
  OBVIOUS
<1>1. CASE Next
  <2>1. PICK s \in Sessions : Moves(s) \/ Acts(s) \/ Records(s)
    BY <1>1, NextSplits
  <2>2. TypeOK' /\ \A u \in Sessions : Local(u)'
    BY <1>1, NextLocal DEF IInv
  <2>3. Resolving'
    BY <2>1, <2>2, ResolvingKept DEF IInv
  <2>4. ASSUME NEW u \in Sessions PROVE Devices(u)'
    <3>1. /\ TypeOK /\ Owns(s) /\ Local(s) /\ Named(s) /\ Gone(s) /\ HasDevice(s)
          /\ Owns(u) /\ Named(u) /\ Gone(u) /\ HasDevice(u)
      BY DEF IInv, Devices, Local
    <3>2. Owns(u)'
      BY <2>1, <3>1, OwnsKept
    <3>3. Gone(u)'
      BY <2>1, <3>1, GoneKept, GoneOfOthers
    <3>4. HasDevice(u)'
      BY <2>1, <3>1, HasDeviceKept, HasDeviceOfOthers
    <3> QED BY <3>2, <3>3, <3>4 DEF Devices
  <2> QED BY <2>2, <2>3, <2>4 DEF IInv
<1>2. CASE UNCHANGED vars
  <2>1. UNCHANGED <<conf, pc, dev, tries, exit, active, link, maker, resolv, saved, did>>
    BY <1>2 DEF vars, session, host
  <2>2. TypeOK'
    BY <2>1 DEF TypeOK, IInv
  <2>3. Resolving'
    BY <2>1, Zenon DEF Resolving, Moved, IInv
  <2>4. ASSUME NEW s \in Sessions PROVE Local(s)' /\ Devices(s)'
    <3>1. Local(s) /\ Devices(s)
      BY DEF IInv
    <3>2. Local(s)'
      <4>1. Counts(s)' /\ Paired(s)'
        BY <2>1, <3>1, Zenon DEF Local, Counts, Paired, Proto
      <4>2. Carried(s)' /\ Named(s)'
        BY <2>1, <3>1, Zenon DEF Local, Carried, Named
      <4> QED BY <4>1, <4>2 DEF Local
    <3>3. Devices(s)'
      <4>1. Owns(s)' /\ Gone(s)'
        BY <2>1, <3>1, Zenon DEF Devices, Owns, Gone
      <4>2. HasDevice(s)'
        BY <2>1, <3>1, Zenon DEF Devices, HasDevice, Unshared, Exists
      <4> QED BY <4>1, <4>2 DEF Devices
    <3> QED BY <3>2, <3>3
  <2> QED BY <2>2, <2>3, <2>4 DEF IInv
<1> QED BY <1>1, <1>2

LEMMA Invariant == Spec => []IInv
  BY InitIInv, StepIInv, PTL DEF Spec

\* No session calls VpnUp, tries programs or runs scripts oftener than it may,
\* and every variable keeps its type, however the sessions interleave.
THEOREM TypeCorrect == Spec => []TypeOK
<1>1. IInv => TypeOK
  BY DEF IInv
<1> QED BY <1>1, Invariant, PTL

\* ResolvChange and the ends of a session: the original resolv.conf is lost only
\* where a first 'mv' left it in its place, or where two VpnUps moved the file.
THEOREM OriginalSurvives == Spec => []OriginalKept
<1>1. IInv => OriginalKept
  <2> SUFFICES ASSUME IInv, Lost,
                      \A s \in Sessions : ~did[s].unmoved /\ ~(did[s].saves > 1),
                      \A s, t \in Sessions : s # t => ~(did[s].saves > 0 /\ did[t].saves > 0)
               PROVE  FALSE
    BY DEF OriginalKept
  <2>1. \A s \in Sessions : did[s].saves \in 0..MaxUps
    BY HistoryFields DEF IInv, TypeOK
  <2>2. CASE \A s \in Sessions : did[s].saves = 0
    BY <2>2 DEF IInv, Resolving, Moved, Lost
  <2>3. CASE \E s \in Sessions : did[s].saves # 0
    <3>1. PICK s \in Sessions : did[s].saves = 1
      BY <2>1, <2>3, SessionAssumption
    <3>2. \A t \in Sessions : t # s => did[t].saves = 0
      BY <2>1, <3>1, SessionAssumption
    <3> QED BY <3>1, <3>2 DEF IInv, Resolving, Lost
  <2> QED BY <2>2, <2>3
<1> QED BY <1>1, Invariant, PTL

\* TunSetup and what removes devices: while a session uses its tunnel nothing
\* took its device away, unless another was given the same.
THEOREM DeviceStays == Spec => []TunnelHasDevice
<1>1. IInv => TunnelHasDevice
  <2> SUFFICES ASSUME IInv, NEW s \in Sessions,
                      pc[s] \in {"settings", "save", "replace", "script", "enter", "look",
                                "watch", "terminal"},
                      link[s] = "on", ~did[s].failed, \A t \in Sessions \ {s} : dev[t] # dev[s]
               PROVE  Exists(dev[s])
    BY DEF TunnelHasDevice
  <2>1. dev[s] \in Names
    BY DEF IInv, Local, Named, Upping
  <2>2. dev[s] # Unknown
    BY <2>1, SessionAssumption
  <2> QED BY <2>2 DEF IInv, Devices, HasDevice, Unshared, Upping
<1> QED BY <1>1, Invariant, PTL

\* TunShutdown and OpenVpnShutDown: a session that was connected and comes to its
\* end has removed what it made.
THEOREM NothingLeft == Spec => []LeavesNoDevice
<1>1. IInv => LeavesNoDevice
  BY DEF IInv, Devices, Gone, LeavesNoDevice
<1> QED BY <1>1, Invariant, PTL

\* VpnUp and VpnDown in SSHVpnUp.
THEOREM SshPaired == Spec => []SshScriptsPaired
<1>1. IInv => SshScriptsPaired
  BY DEF IInv, Local, Paired, SshScriptsPaired
<1> QED BY <1>1, Invariant, PTL
================================================================================
