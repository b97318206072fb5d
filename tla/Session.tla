-------------------------------- MODULE Session --------------------------------
(* What 'vpn_mgr connect' does to the machine it runs on: SSHVpnUp (ssh.c),    *)
(* WireguardUp (wireguard.c) and OpenVpnUp (openvpn.c) with TunSetup, VpnUp,   *)
(* VpnDown and ResolvChange under them.  Several sessions, each a process of   *)
(* its own, share the network devices and /etc/resolv.conf.  A command run as  *)
(* root has its effect or not, and may end the program (see PrivilegedCall);   *)
(* through sudo and su it is always reported to have succeeded (RunCommand).   *)
EXTENDS Naturals, Sequences

CONSTANTS
    Sessions,       \* processes
    Requests,       \* what they may be asked for, together
    Present,        \* which devices may be there before, made by the user
    DevNames,       \* names NetDevFindNext tries, in order, for each prefix
    Fallible,       \* commands may fail
    MaxUps          \* bound: calls of VpnUp in a session

Protocols == {"ssh", "wg", "openvpn"}

Prefix(proto) == IF proto = "wg" THEN "wg" ELSE "tun"

Names == UNION { {DevNames[p][i] : i \in DOMAIN DevNames[p]} : p \in {"tun", "wg"} }

NoDev == ""
Unknown == "????"

\* The protocol, -dev, whether there is a -dns list, and whether root runs it.
ConfigType == [proto : Protocols, dev : Names \cup {NoDev}, dns : BOOLEAN, root : BOOLEAN]

ASSUME SessionAssumption ==
    /\ Requests \subseteq [Sessions -> ConfigType]
    /\ Present \subseteq SUBSET Names
    /\ Fallible \in BOOLEAN
    /\ MaxUps \in Nat \ {0}
    /\ {NoDev, Unknown} \cap Names = {}
    /\ Sessions \cap {"nobody", "user"} = {}

VARIABLES
    conf,       \* the request of each session
    pc,         \* where it stands
    dev,        \* its device
    tries,      \* userspace programs WireguardUp has tried
    exit,       \* FLAG_EXIT
    active,     \* ssh.c's Active: "null", "open", or "freed" when it dangles
    link,       \* the program that carries the tunnel: "none", "on", "off"
    maker,      \* who made each device, or "nobody" when there is none
    resolv,     \* what /etc/resolv.conf holds, or "none"
    saved,      \* the same for /etc/vpn_mgr.resolv.save
    did         \* history: VpnUps, down scripts run, resolv.conf saved, whether
                \* a command for the device or the tunnel had no effect, and
                \* whether the 'mv' that saves resolv.conf left it where it was

session == <<pc, dev, tries, exit, active, link>>
host == <<maker, resolv, saved>>
vars == <<conf, session, host, did>>

Start(proto) ==
    CASE proto = "ssh" -> "choose" [] proto = "wg" -> "modprobe" [] OTHER -> "available"

Init ==
    /\ conf \in Requests
    /\ pc = [s \in Sessions |-> Start(conf[s].proto)]
    /\ dev = [s \in Sessions |-> IF conf[s].proto = "openvpn" THEN Unknown ELSE NoDev]
    /\ tries = [s \in Sessions |-> 0]
    /\ exit = [s \in Sessions |-> FALSE]
    /\ active = [s \in Sessions |-> "null"]
    /\ link = [s \in Sessions |-> "none"]
    /\ \E there \in Present :
         maker = [d \in Names |-> IF d \in there THEN "user" ELSE "nobody"]
    /\ resolv = "original" /\ saved = "none"
    /\ did = [s \in Sessions |-> [ups |-> 0, downs |-> 0, saves |-> 0, failed |-> FALSE,
                                  unmoved |-> FALSE]]

-------------------------------------------------------------------------------
(* One command.                                                                *)

Proto(s) == conf[s].proto

Goto(s, where) == pc' = [pc EXCEPT ![s] = where]

Exists(d) == d \in Names /\ maker[d] # "nobody"

Set(f, d, v) == IF d \in DOMAIN f THEN [f EXCEPT ![d] = v] ELSE f

\* What RunCommand answers: the status of the shell that sudo or su is run in
\* is that of its last echo.
Reported(s, done) == done \/ ~conf[s].root

\* A command that can have its effect has it, or not when commands may fail.
Outcomes(possible) == IF possible THEN {TRUE} \cup {~Fallible} ELSE {FALSE}

Failed(s, done) == did' = [did EXCEPT ![s].failed = @ \/ ~done]

\* Where RunCommand is called.
AtCommand(s) ==
    pc[s] \in {"modprobe", "available", "make", "activate", "userspace", "configure",
               "connect", "launch", "settings", "save", "replace", "script", "kill",
               "delete", "downscript"}

\* Nothing could become root, or the user gave no password: the program ends.
Quit(s) ==
    /\ AtCommand(s) /\ Goto(s, "quit")
    /\ UNCHANGED <<conf, dev, tries, exit, active, link, host, did>>

\* After SIGINT the read loop stops at the first line, and waitpid may wait for
\* a tool that goes on to ask for a password.
Hang(s) ==
    /\ AtCommand(s) /\ exit[s] /\ ~conf[s].root /\ Goto(s, "stuck")
    /\ UNCHANGED <<conf, dev, tries, exit, active, link, host, did>>

-------------------------------------------------------------------------------
(* A device (net.c, tuntap.c).                                                 *)

Modprobe(s) ==
    /\ pc[s] = "modprobe" /\ Goto(s, "choose")
    /\ UNCHANGED <<conf, dev, tries, exit, active, link, host, did>>

\* SSHVpnValidate: the host is not in the user's ssh configuration.
Unconfigured(s) ==
    /\ pc[s] = "choose" /\ Proto(s) = "ssh" /\ Goto(s, "end")
    /\ UNCHANGED <<conf, dev, tries, exit, active, link, host, did>>

\* NetDevFindNext: the first name that is free, or none.
NextFree(prefix) ==
    LET names == DevNames[prefix]
        taken(i) == Exists(names[i])
    IN IF \A i \in DOMAIN names : taken(i)
       THEN {NoDev}
       ELSE { names[i] : i \in {j \in DOMAIN names : ~taken(j) /\ \A k \in 1..(j - 1) : taken(k)} }

Choose(s) ==
    /\ pc[s] = "choose"
    /\ \E d \in IF conf[s].dev # NoDev THEN {conf[s].dev} ELSE NextFree(Prefix(Proto(s))) :
         /\ dev' = [dev EXCEPT ![s] = d]
         /\ Goto(s, IF d = NoDev THEN "end" ELSE "test")
    /\ UNCHANGED <<conf, tries, exit, active, link, host, did>>

\* Fault: the device is taken to be there.
Test_Assumed(s) ==
    /\ pc[s] = "test"
    /\ Goto(s, "activate")
    /\ UNCHANGED <<conf, dev, tries, exit, active, link, host, did>>

\* TunSetup: a device that exists will do.
Test(s) ==
    /\ pc[s] = "test"
    /\ Goto(s, IF Exists(dev[s]) THEN "activate" ELSE "make")
    /\ UNCHANGED <<conf, dev, tries, exit, active, link, host, did>>

\* Fault: userspace programs are tried for ever.
AfterTunSetup_NoLimit(s, ok) ==
    CASE Proto(s) = "ssh" -> "connect"
      [] Proto(s) = "wg" /\ ~ok -> "userspace"
      [] OTHER -> "configure"

\* ssh goes on whatever TunSetup answers; wireguard tries a program in user space.
AfterTunSetup(s, ok) ==
    CASE Proto(s) = "ssh" -> "connect"
      [] Proto(s) = "wg" /\ ~ok /\ tries[s] < 3 -> "userspace"
      [] OTHER -> "configure"

\* TunSetup's 'ip tuntap add' or 'ip link add', which fails if the device is there.
Make(s) ==
    /\ pc[s] = "make"
    /\ \E done \in Outcomes(~Exists(dev[s])) :
         /\ maker' = IF done THEN Set(maker, dev[s], s) ELSE maker
         /\ Goto(s, IF Reported(s, done) THEN "activate" ELSE AfterTunSetup(s, FALSE))
         /\ Failed(s, done)
    /\ UNCHANGED <<conf, dev, tries, exit, active, link, resolv, saved>>

\* The rest of TunSetup: address, link up, and whether the device exists.
Activate(s) ==
    /\ pc[s] = "activate"
    /\ Goto(s, AfterTunSetup(s, Exists(dev[s])))
    /\ UNCHANGED <<conf, dev, tries, exit, active, link, host, did>>

\* WireguardLaunchUserspace, three times: the program may not be installed; one
\* that runs may make the device.
Userspace(s) ==
    /\ pc[s] = "userspace"
    /\ tries' = [tries EXCEPT ![s] = @ + 1]
    /\ \/ /\ Goto(s, IF tries'[s] < 3 THEN "userspace" ELSE "configure")
          /\ UNCHANGED maker
       \/ /\ Goto(s, "test")
          /\ \E done \in Outcomes(~Exists(dev[s])) :
               maker' = IF done THEN Set(maker, dev[s], s) ELSE maker
    /\ UNCHANGED <<conf, dev, exit, active, link, resolv, saved, did>>

\* 'wg set' or 'wg setconf'.
Configure(s) ==
    /\ pc[s] = "configure"
    /\ \E done \in Outcomes(Exists(dev[s])) :
         /\ link' = IF done THEN [link EXCEPT ![s] = "on"] ELSE link
         /\ Goto(s, IF Reported(s, done) THEN "settings" ELSE "end")
         /\ Failed(s, done)
    /\ UNCHANGED <<conf, dev, tries, exit, active, host>>

-------------------------------------------------------------------------------
(* VpnUp.                                                                      *)

\* NetSetup's address and routes.
Settings(s) ==
    /\ pc[s] = "settings"
    /\ Goto(s, IF conf[s].dns THEN "save" ELSE "script")
    /\ UNCHANGED <<conf, dev, tries, exit, active, link, host, did>>

\* Fault: the original is not moved away but overwritten.
Save_Overwrites(s) ==
    /\ pc[s] = "save"
    /\ \E done \in Outcomes(TRUE) : resolv' = IF done THEN "vpn" ELSE resolv
    /\ Goto(s, "replace")
    /\ UNCHANGED <<conf, dev, tries, exit, active, link, maker, saved, did>>

\* ResolvChange: 'mv /etc/resolv.conf /etc/vpn_mgr.resolv.save'.
Save(s) ==
    /\ pc[s] = "save"
    /\ \E done \in Outcomes(resolv # "none") :
         IF done THEN /\ saved' = resolv /\ resolv' = "none"
                      /\ did' = [did EXCEPT ![s].saves = @ + 1]
                 ELSE /\ UNCHANGED <<saved, resolv>>
                      /\ did' = [did EXCEPT ![s].unmoved = @ \/ resolv # "none"]
    /\ Goto(s, "replace")
    /\ UNCHANGED <<conf, dev, tries, exit, active, link, maker>>

\* ResolvChange: 'mv -f /tmp/... /etc/resolv.conf', whatever became of the first.
Replace(s) ==
    /\ pc[s] = "replace"
    /\ \E done \in Outcomes(TRUE) : resolv' = IF done THEN "vpn" ELSE resolv
    /\ Goto(s, "script")
    /\ UNCHANGED <<conf, dev, tries, exit, active, link, maker, saved, did>>

AfterVpnUp(s) ==
    CASE Proto(s) = "ssh" -> "enter" [] Proto(s) = "wg" -> "terminal" [] OTHER -> "follow"

UpScript(s) ==
    /\ pc[s] = "script"
    /\ did' = [did EXCEPT ![s].ups = @ + 1]
    /\ Goto(s, AfterVpnUp(s))
    /\ UNCHANGED <<conf, dev, tries, exit, active, link, host>>

-------------------------------------------------------------------------------
(* ssh (ssh.c).                                                                *)

\* SSHVpnConnect; without a stream the session ends and leaves its device.
Connect(s) ==
    /\ pc[s] = "connect"
    /\ \/ Goto(s, "setup") /\ link' = [link EXCEPT ![s] = "on"]
       \/ Goto(s, "end") /\ UNCHANGED link
    /\ UNCHANGED <<conf, dev, tries, exit, active, host, did>>

\* SSHSetup finds a remote device, or not.
Setup(s) ==
    /\ pc[s] = "setup"
    /\ \/ link[s] = "on" /\ Goto(s, "settings")
       \/ Goto(s, "reap")
    /\ UNCHANGED <<conf, dev, tries, exit, active, link, host, did>>

Enter(s) ==
    /\ pc[s] = "enter"
    /\ active' = [active EXCEPT ![s] = "open"]
    /\ Goto(s, "look")
    /\ UNCHANGED <<conf, dev, tries, exit, link, host, did>>

\* Fault: SSHProcess does not look at FLAG_EXIT before its first read.
Look_NoTest(s) ==
    /\ pc[s] = "look"
    /\ Goto(s, "watch")
    /\ UNCHANGED <<conf, dev, tries, exit, active, link, host, did>>

\* SSHProcess: FLAG_EXIT first.
Look(s) ==
    /\ pc[s] = "look"
    /\ Goto(s, IF exit[s] THEN "reap" ELSE "watch")
    /\ UNCHANGED <<conf, dev, tries, exit, active, link, host, did>>

\* SSHProcess reads to the end of the stream: STREAMReadLine comes back with a
\* line or at the end, and with neither a timeout nor a signal.  FLAG_EXIT is
\* looked at after a line too, but SIGINT has ended ssh by then.
Watch(s) ==
    /\ pc[s] = "watch" /\ link[s] = "off"
    /\ Goto(s, "reap")
    /\ UNCHANGED <<conf, dev, tries, exit, active, link, host, did>>

\* RunCommandCleanUp(S, CMD_KILL).
Reap(s) ==
    /\ pc[s] = "reap" /\ Goto(s, "close")
    /\ link' = [link EXCEPT ![s] = "off"]
    /\ UNCHANGED <<conf, dev, tries, exit, active, host, did>>

\* STREAMClose; Active is left as it is.
Close(s) ==
    /\ pc[s] = "close" /\ Goto(s, "delete")
    /\ active' = [active EXCEPT ![s] = IF @ = "open" THEN "freed" ELSE @]
    /\ UNCHANGED <<conf, dev, tries, exit, link, host, did>>

\* The connection ends, or openvpn exits and its device goes with it.
LinkEnds(s) ==
    /\ link[s] = "on" /\ Proto(s) # "wg"
    /\ link' = [link EXCEPT ![s] = "off"]
    /\ maker' = IF Proto(s) = "openvpn"
                THEN [d \in Names |-> IF maker[d] = s THEN "nobody" ELSE maker[d]]
                ELSE maker
    /\ UNCHANGED <<conf, pc, dev, tries, exit, active, resolv, saved, did>>

-------------------------------------------------------------------------------
(* wireguard's terminal, and openvpn.                                          *)

\* WireguardUp reads the terminal: a line makes it look at FLAG_EXIT,
TerminalLine(s) ==
    /\ pc[s] = "terminal" /\ exit[s]
    /\ Goto(s, "delete")
    /\ UNCHANGED <<conf, dev, tries, exit, active, link, host, did>>

\* or there is nothing more to read.
TerminalCloses(s) ==
    /\ pc[s] = "terminal"
    /\ Goto(s, "delete")
    /\ UNCHANGED <<conf, dev, tries, exit, active, link, host, did>>

\* TunAvailable.
Available(s) ==
    /\ pc[s] = "available"
    /\ Goto(s, "launch") \/ Goto(s, "end")
    /\ UNCHANGED <<conf, dev, tries, exit, active, link, host, did>>

Launch(s) ==
    /\ pc[s] = "launch"
    /\ \/ Goto(s, "follow") /\ link' = [link EXCEPT ![s] = "on"]
       \/ Goto(s, "end") /\ UNCHANGED link
    /\ UNCHANGED <<conf, dev, tries, exit, active, host, did>>

\* "TUN/TAP device ... opened": openvpn took a free name.
LineOpened(s) ==
    /\ pc[s] = "follow" /\ ~exit[s] /\ link[s] = "on" /\ dev[s] = Unknown
    /\ \E i \in DOMAIN DevNames["tun"] :
         /\ ~Exists(DevNames["tun"][i])
         /\ dev' = [dev EXCEPT ![s] = DevNames["tun"][i]]
         /\ maker' = Set(maker, DevNames["tun"][i], s)
    /\ UNCHANGED <<conf, pc, tries, exit, active, link, resolv, saved, did>>

\* "net_iface_up: set ..." and "Initialization Sequence Completed", which comes
\* at every reconnection too: VpnUp each time.
LineUp(s) ==
    /\ pc[s] = "follow" /\ ~exit[s] /\ dev[s] # Unknown
    /\ did[s].ups < MaxUps
    /\ Goto(s, "settings")
    /\ UNCHANGED <<conf, dev, tries, exit, active, link, host, did>>

\* OpenVpnProcess ends at the end of the log,
FollowEnds(s) ==
    /\ pc[s] = "follow" /\ link[s] = "off"
    /\ Goto(s, "kill")
    /\ UNCHANGED <<conf, dev, tries, exit, active, link, host, did>>

\* or at a line that comes when FLAG_EXIT is set.
LogLine(s) ==
    /\ pc[s] = "follow" /\ link[s] = "on" /\ exit[s]
    /\ Goto(s, "kill")
    /\ UNCHANGED <<conf, dev, tries, exit, active, link, host, did>>

\* OpenVpnShutDown: a device goes with the openvpn that holds it.
Kill(s) ==
    /\ pc[s] = "kill"
    /\ \E done \in Outcomes(link[s] = "on") :
         /\ link' = IF done THEN [link EXCEPT ![s] = "off"] ELSE link
         /\ maker' = IF done
                     THEN [d \in Names |-> IF maker[d] = s THEN "nobody" ELSE maker[d]]
                     ELSE maker
         /\ Failed(s, done \/ link[s] # "on")
    /\ Goto(s, "delete")
    /\ UNCHANGED <<conf, dev, tries, exit, active, resolv, saved>>

-------------------------------------------------------------------------------
(* The end.                                                                    *)

AfterDelete(s) == IF Proto(s) = "ssh" THEN "downscript" ELSE "end"

\* Fault: the device is only shut down.
Delete_OnlyDown(s) ==
    /\ pc[s] = "delete"
    /\ Goto(s, AfterDelete(s))
    /\ UNCHANGED <<conf, dev, tries, exit, active, link, host, did>>

\* TunShutdown and NetShutdown: down, then 'ip link delete', whoever made it.
Delete(s) ==
    /\ pc[s] = "delete"
    /\ \E done \in Outcomes(Exists(dev[s])) :
         /\ maker' = IF done THEN Set(maker, dev[s], "nobody") ELSE maker
         /\ Failed(s, done \/ ~Exists(dev[s]))
    /\ Goto(s, AfterDelete(s))
    /\ UNCHANGED <<conf, dev, tries, exit, active, link, resolv, saved>>

DownScript(s) ==
    /\ pc[s] = "downscript" /\ Goto(s, "end")
    /\ did' = [did EXCEPT ![s].downs = @ + 1]
    /\ UNCHANGED <<conf, dev, tries, exit, active, link, host>>

\* SignalHandler and SSHVpnTerminate, on SIGINT: ssh is killed, and Active
\* cleared.  When Active dangles anything may come of it, the end included.
Signal(s) ==
    /\ pc[s] \notin {"end", "quit"}
    /\ ~exit[s] \/ active[s] # "null"
    /\ exit' = [exit EXCEPT ![s] = TRUE]
    /\ active' = [active EXCEPT ![s] = "null"]
    /\ link' = IF active[s] = "open" THEN [link EXCEPT ![s] = "off"] ELSE link
    /\ pc' = pc \/ (active[s] = "freed" /\ Goto(s, "quit"))
    /\ UNCHANGED <<conf, dev, tries, host, did>>

Steps(s) ==
    \/ Quit(s) \/ Hang(s)
    \/ Modprobe(s) \/ Unconfigured(s) \/ Choose(s) \/ Test(s) \/ Make(s) \/ Activate(s)
    \/ Userspace(s) \/ Configure(s)
    \/ Settings(s) \/ Save(s) \/ Replace(s) \/ UpScript(s)
    \/ Enter(s) \/ Look(s) \/ Watch(s) \/ Reap(s) \/ Close(s)
    \/ Available(s) \/ Launch(s) \/ FollowEnds(s) \/ Kill(s)
    \/ Delete(s) \/ DownScript(s)

\* The steps that wait for the far end of ssh.
Remote(s) == Connect(s) \/ Setup(s)

Outside(s) ==
    \/ LinkEnds(s) \/ TerminalCloses(s) \/ LineOpened(s) \/ LineUp(s) \/ Signal(s)
    \/ TerminalLine(s) \/ LogLine(s)

Next == \E s \in Sessions : Steps(s) \/ Remote(s) \/ Outside(s)

Spec == Init /\ [][Next]_vars

\* The processes run, commands return (or hang, as Hang says), and the far end
\* of ssh answers.
FairSpec == Spec /\ \A s \in Sessions : WF_vars(Steps(s) \/ Remote(s))

-------------------------------------------------------------------------------
(* Properties.                                                                 *)

\* Where the process has exited.
Final == {"end", "quit"}

Places == Final \cup
    {"stuck", "modprobe", "choose", "test", "make", "activate", "userspace", "configure",
     "settings", "save", "replace", "script", "connect", "setup", "enter", "look",
     "watch", "reap", "close", "terminal", "available", "launch", "follow", "kill",
     "delete", "downscript"}

Contents == {"original", "vpn", "none"}

HistoryType ==
    [ups : 0..MaxUps, downs : {0, 1}, saves : 0..MaxUps, failed : BOOLEAN, unmoved : BOOLEAN]

\* Every variable keeps its type.
TypeOK ==
    /\ conf \in [Sessions -> ConfigType]
    /\ pc \in [Sessions -> Places]
    /\ dev \in [Sessions -> Names \cup {NoDev, Unknown}]
    /\ tries \in [Sessions -> 0..3]
    /\ exit \in [Sessions -> BOOLEAN]
    /\ active \in [Sessions -> {"null", "open", "freed"}]
    /\ link \in [Sessions -> {"none", "on", "off"}]
    /\ maker \in [Names -> Sessions \cup {"nobody", "user"}]
    /\ resolv \in Contents /\ saved \in Contents
    /\ did \in [Sessions -> HistoryType]

Lost == resolv # "original" /\ saved # "original"

\* ResolvChange keeps the original resolv.conf where the user can find it, however
\* the sessions interleave, wherever one ends between the two 'mv', whether or not
\* the second has its effect, and whatever else fails.  It takes one of two things to
\* lose it: the first 'mv' leaves the file where it is (resolv.c:24 does not look), or
\* a second VpnUp, of the same session or another, moves what the first put there.
OriginalKept ==
    Lost => \/ \E s \in Sessions : did[s].unmoved \/ did[s].saves > 1
            \/ \E s, t \in Sessions : s # t /\ did[s].saves > 0 /\ did[t].saves > 0

\* While VpnUp sets a tunnel up, and as long as it is used, its device exists --
\* unless one of the session's commands for it had no effect, the connection has
\* ended, or another session was given the same device.
TunnelHasDevice ==
    \A s \in Sessions :
        /\ pc[s] \in {"settings", "save", "replace", "script", "enter", "look", "watch",
                      "terminal"}
        /\ link[s] = "on" /\ ~did[s].failed
        /\ \A t \in Sessions \ {s} : dev[t] # dev[s]
        => Exists(dev[s])

\* A session whose tunnel was carried and that comes to its end, however it was
\* ended, leaves no device behind that it made -- unless one of its commands for the
\* device had no effect, as when another made the device first (RunCommand's exits
\* apart).
LeavesNoDevice ==
    \A s \in Sessions :
        pc[s] = "end" /\ link[s] # "none" /\ ~did[s].failed
        => \A d \in Names : maker[d] # s

\* An ssh session that ran its up scripts and comes to its end has run its down
\* scripts.
SshScriptsPaired ==
    \A s \in Sessions :
        pc[s] = "end" /\ Proto(s) = "ssh" /\ did[s].ups > 0 => did[s].downs > 0

\* A read of the terminal, or of the log of an openvpn that runs, which only a
\* line or the end can end.
Reading(s) == pc[s] = "terminal" \/ (pc[s] = "follow" /\ link[s] = "on")

\* SIGINT ends an ssh session wherever it comes: before Active is set, after it,
\* or between the test of FLAG_EXIT and the read.  The others end, or come to
\* read a terminal or a log that may be silent.  An ordinary user's session of any
\* kind may instead be caught in the waitpid for a sudo or su that asks again
\* (Hang), which is no end; root's has no such tool to wait for.
EndsOnSignal ==
    \A s \in Sessions :
        exit[s] ~> \/ pc[s] \in Final
                   \/ Proto(s) # "ssh" /\ Reading(s)
                   \/ ~conf[s].root /\ pc[s] = "stuck"

\* 'keep reading stuff from stdin, so that the user can use ctrl-c to shut vpn down'
\* (wireguard.c:114): SIGINT ends the read of the terminal.
CtrlCShutsDown ==
    \A s \in Sessions : exit[s] /\ Proto(s) = "wg" ~> pc[s] # "terminal"
=============================================================================
