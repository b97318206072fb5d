------------------------------ MODULE SSHCommand ------------------------------
(* src/ssh.c: a command run at the far end of 'ssh -t', through the terminal   *)
(* of a remote shell.  SSHVpnSync finds out how far the shell has got by       *)
(* having it echo a fresh key; SSHVpnRunCommand tries sudo, then su.  What the *)
(* program writes waits in 'sent' until whoever reads the remote terminal      *)
(* takes it, line by line; what is printed there waits in 'out'.  Either may   *)
(* lag behind, and reads time out after a second.                              *)
EXTENDS Naturals, Sequences

CONSTANTS
    Found,          \* which of "sudo" and "su" exist HERE: RunCmdFormat asks
    Requests,       \* the calls: CmdFlags left by -remote-sudo, -remote-su, -N,
                    \* and whether CMD_NOSYNC is set (pppd is started)
    Passwords,      \* what the user may type
    Opens,          \* the passwords each remote tool takes
    Permits,        \* whether remote sudo lets the user run the command
    Interruptible,  \* SIGINT may come
    MayClose,       \* the connection may close
    MaxTries,       \* bound: how often sudo asks
    MaxLate         \* bound: keys whose answer misses the timeout

Tools == {"sudo", "su"}
Commands == Tools \cup {"plain"}
Keys == {"key", "old"}  \* the newest key, and any earlier one

NoPassword == ""

RequestType == [flags : SUBSET {"SUDO", "SU"}, nosync : BOOLEAN]

ASSUME SSHCommandAssumption ==
    /\ Found \subseteq Tools
    /\ Requests \subseteq RequestType
    /\ Passwords \cap (Commands \cup Keys \cup {NoPassword}) = {}
    /\ Opens \in [Tools -> SUBSET Passwords]
    /\ Permits \subseteq BOOLEAN
    /\ Interruptible \in BOOLEAN /\ MayClose \in BOOLEAN
    /\ MaxTries \in Nat \ {0} /\ MaxLate \in Nat

VARIABLES
    pc,         \* "sync", "write", "reading", "after", "decide" or "done"
    next,       \* what follows the sync: "write" or "decide"
    call,       \* the request; its flags are CmdFlags
    retried,    \* the second SSHVpnRunCommandTry is on
    result,     \* RunCommandReadLoop's result
    cache,      \* Passwords["Remote su/sudo"]
    exit,       \* FLAG_EXIT
    up,         \* the connection
    sent,       \* lines written that nobody at the far end has read
    out,        \* items printed there that the program has not read
    installed,  \* which tools exist at the far end
    far,        \* who reads the remote terminal, how far it is, tries left
    late,       \* keys that missed the timeout so far
    did         \* history: executions of the command, lines that went astray

program == <<pc, next, call, retried, result, cache, late>>
remote == <<installed, far, did>>
vars == <<program, exit, up, sent, out, remote>>

Shell == [tool |-> "shell", at |-> "ready", tries |-> 0]

-------------------------------------------------------------------------------
(* The program. *)

\* A new key makes those still under way old ones.
Aged(s) == [i \in DOMAIN s |-> IF s[i] = "key" THEN "old" ELSE s[i]]

Write(line) == IF up THEN Append(sent, line) ELSE sent

\* SSHVpnSendSync.
SendKey ==
    /\ sent' = IF up THEN Append(Aged(sent), "key") ELSE sent
    /\ out' = Aged(out)

\* SSHVpnRunCommand, on a connection that SSHVpnConnect has synchronised; of
\* what was run since (SSHGetRemoteDev, SSHHostFindCommand) a line may be left.
Init ==
    /\ pc = "sync" /\ next = "write" /\ call \in Requests /\ retried = FALSE
    /\ result = "BEGIN" /\ cache = NoPassword /\ exit = FALSE /\ up = TRUE
    /\ sent = <<"key">> /\ out \in {<<>>, <<"text">>} /\ late = 0
    /\ installed \in SUBSET Tools /\ far = Shell
    /\ did = [ran |-> <<>>, astray |-> {}]

\* SSHVpnSync reads to the end of what has come when it stops.
SyncEnds == pc' = next /\ out' = <<>>

\* Fault: any key will do.
SyncMatch_AnyKey ==
    /\ pc = "sync" /\ out # <<>> /\ Head(out) \in Keys
    /\ SyncEnds
    /\ UNCHANGED <<next, call, retried, result, cache, late, exit, up, sent, remote>>

SyncMatch ==
    /\ pc = "sync" /\ out # <<>> /\ Head(out) = "key"
    /\ SyncEnds
    /\ UNCHANGED <<next, call, retried, result, cache, late, exit, up, sent, remote>>

\* Any other line is dropped; after it FLAG_EXIT is looked at.
SyncSkip ==
    /\ pc = "sync" /\ out # <<>> /\ Head(out) # "key"
    /\ IF exit THEN SyncEnds ELSE out' = Tail(out) /\ UNCHANGED pc
    /\ UNCHANGED <<next, call, retried, result, cache, late, exit, up, sent, remote>>

\* Fault: no new key is sent.
SyncTimeout_Waits ==
    /\ pc = "sync" /\ out = <<>> /\ up
    /\ UNCHANGED vars

\* Nothing came in time: a new key is sent, FLAG_EXIT or not.
SyncTimeout ==
    /\ pc = "sync" /\ out = <<>> /\ up
    /\ IF "key" \in {sent[i] : i \in DOMAIN sent}
       THEN late < MaxLate /\ late' = late + 1
       ELSE UNCHANGED late
    /\ SendKey
    /\ UNCHANGED <<pc, next, call, retried, result, cache, exit, up, remote>>

SyncClosed ==
    /\ pc = "sync" /\ out = <<>> /\ ~up
    /\ SyncEnds
    /\ UNCHANGED <<next, call, retried, result, cache, late, exit, up, sent, remote>>

\* RunCmdFormat prefers sudo.
Method ==
    CASE "SUDO" \in call.flags -> "sudo"
      [] "SUDO" \notin call.flags /\ "SU" \in call.flags -> "su"
      [] OTHER -> "plain"

\* SSHVpnRunCommandTry: the line is empty when the tool does not exist here.
\* Without a tool nothing is waited for, and the result is TRUE.
WriteCommand ==
    /\ pc = "write"
    /\ sent' = IF Method \in Found \cup {"plain"} THEN Write(Method) ELSE sent
    /\ IF Method = "plain"
       THEN pc' = "after" /\ result' = "OKAY"
       ELSE pc' = "reading" /\ result' = "BEGIN"
    /\ UNCHANGED <<next, call, retried, cache, late, exit, up, out, remote>>

AtItem(items) == pc = "reading" /\ out # <<>> /\ Head(out) \in items

\* RunCommandReadLoop goes on, unless FLAG_EXIT is set.
Continue == pc' = IF exit THEN "after" ELSE "reading"

\* RunCommandPasswordTransact; an empty answer is typed too, and ends the loop.
ReadPrompt ==
    /\ AtItem({"prompt"})
    /\ cache' \in IF cache # NoPassword THEN {cache} ELSE Passwords \cup {NoPassword}
    /\ sent' = Write(cache') /\ out' = Tail(out)
    /\ IF cache' = NoPassword
       THEN result' = "ABORT" /\ pc' = "after"
       ELSE result' = "OKAY" /\ Continue
    /\ UNCHANGED <<next, call, retried, late, exit, up, remote>>

ReadRefusal ==
    /\ AtItem({"refused"})
    /\ result' = "AUTH_FAIL" /\ out' = Tail(out) /\ pc' = "after"
    /\ UNCHANGED <<next, call, retried, cache, late, exit, up, sent, remote>>

\* Fault: the start of the command does not change the result.
ReadStarted_NoResult ==
    /\ AtItem({"cmd-run"})
    /\ out' = Tail(out) /\ pc' = "after"
    /\ UNCHANGED <<next, call, retried, result, cache, late, exit, up, sent, remote>>

ReadStarted ==
    /\ AtItem({"cmd-run"})
    /\ result' = "OKAY" /\ out' = Tail(out) /\ pc' = "after"
    /\ UNCHANGED <<next, call, retried, cache, late, exit, up, sent, remote>>

ReadDone ==
    /\ AtItem({"done"})
    /\ out' = Tail(out) /\ pc' = "after"
    /\ UNCHANGED <<next, call, retried, result, cache, late, exit, up, sent, remote>>

ReadOther ==
    /\ AtItem({"text"} \cup Keys)
    /\ out' = Tail(out) /\ Continue
    /\ UNCHANGED <<next, call, retried, result, cache, late, exit, up, sent, remote>>

\* A read that times out lets the loop look at FLAG_EXIT; one on a closed
\* connection ends it.
ReadNothing ==
    /\ pc = "reading" /\ out = <<>> /\ (exit \/ ~up)
    /\ pc' = "after"
    /\ UNCHANGED <<next, call, retried, result, cache, late, exit, up, sent, out, remote>>

\* The rest of SSHVpnRunCommandTry: pppd's terminal is not written to any more.
EndTry ==
    /\ pc = "after"
    /\ IF call.nosync
       THEN pc' = "decide" /\ UNCHANGED <<next, sent, out>>
       ELSE pc' = "sync" /\ next' = "decide" /\ SendKey
    /\ UNCHANGED <<call, retried, result, cache, late, exit, up, remote>>

\* Fault: su is started without finding out where the shell is.
Decide_NoSync ==
    /\ pc = "decide"
    /\ IF result = "OKAY" \/ retried
       THEN pc' = "done" /\ UNCHANGED <<next, call, retried, sent, out>>
       ELSE /\ pc' = "write" /\ next' = "write" /\ retried' = TRUE
            /\ call' = [call EXCEPT !.flags = @ \ {"SUDO"}]
            /\ UNCHANGED <<sent, out>>
    /\ UNCHANGED <<result, cache, late, exit, up, remote>>

\* SSHVpnRunCommand: the second try leaves sudo out.
Decide ==
    /\ pc = "decide"
    /\ IF result = "OKAY" \/ retried
       THEN pc' = "done" /\ UNCHANGED <<next, call, retried, sent, out>>
       ELSE /\ pc' = "sync" /\ next' = "write" /\ retried' = TRUE
            /\ call' = [call EXCEPT !.flags = @ \ {"SUDO"}]
            /\ SendKey
    /\ UNCHANGED <<result, cache, late, exit, up, remote>>

Program ==
    \/ SyncMatch \/ SyncSkip \/ SyncTimeout \/ SyncClosed
    \/ WriteCommand
    \/ ReadPrompt \/ ReadRefusal \/ ReadStarted \/ ReadDone \/ ReadOther \/ ReadNothing
    \/ EndTry \/ Decide

-------------------------------------------------------------------------------
(* The far end: the shell, sudo and su are external programs.                  *)

Line(lines) == sent # <<>> /\ Head(sent) \in lines /\ sent' = Tail(sent)

Says(items) == out' = out \o items

Astray(what) == did' = [did EXCEPT !.astray = @ \cup {what}]

ToolIs(tools, steps) == far.tool \in tools /\ far.at \in steps

\* The shell is told to echo a key.
EchoKey ==
    /\ far = Shell /\ Line(Keys)
    /\ Says(<<Head(sent)>>)
    /\ UNCHANGED remote

Launch ==
    /\ far = Shell /\ Line(installed \cup {"plain"})
    /\ far' = [tool |-> Head(sent), at |-> "start", tries |-> MaxTries]
    /\ UNCHANGED <<out, did>>

\* "command not found"; the shell goes on to the second echo.
NotInstalled ==
    /\ far = Shell /\ Line(Tools \ installed)
    /\ Says(<<"text", "done">>)
    /\ UNCHANGED <<far, did>>

\* The shell takes a password for a command.
PasswordAtShell ==
    /\ far = Shell /\ Line(Passwords \cup {NoPassword})
    /\ IF Head(sent) = NoPassword
       THEN UNCHANGED <<out, did>>
       ELSE Says(<<"text">>) /\ Astray("password")
    /\ UNCHANGED far

Greet ==
    /\ ToolIs(Tools, {"start"})
    /\ far' = [far EXCEPT !.at = "greeted"]
    /\ Says(<<"text">>)
    /\ UNCHANGED <<sent, did>>

\* Turning the echo off discards what was typed ahead, or does not.
Ask ==
    /\ ToolIs(Tools, {"start", "greeted", "denied"})
    /\ far' = [far EXCEPT !.at = "asking"]
    /\ Says(<<"prompt">>)
    /\ sent' \in {sent, <<>>}
    /\ UNCHANGED did

Trust ==
    /\ ToolIs({"sudo"}, {"start", "greeted"}) /\ TRUE \in Permits
    /\ far' = [far EXCEPT !.at = "authorised"]
    /\ UNCHANGED <<sent, out, did>>

Accept ==
    /\ ToolIs(Tools, {"asking"}) /\ Line(Opens[far.tool])
    /\ far.tool = "sudo" => TRUE \in Permits
    /\ far' = [far EXCEPT !.at = "authorised"]
    /\ UNCHANGED <<out, did>>

EndsWith(items) == far' = Shell /\ Says(items \o <<"done">>)

NotASudoer ==
    /\ ToolIs({"sudo"}, {"asking"}) /\ Line(Opens["sudo"]) /\ FALSE \in Permits
    /\ EndsWith(<<"text">>)
    /\ UNCHANGED did

\* Whatever line comes is taken for the password.
Deny ==
    /\ ToolIs(Tools, {"asking"})
    /\ Line((Passwords \cup {NoPassword} \cup Keys \cup Commands) \ Opens[far.tool])
    /\ IF far.tool = "sudo" /\ far.tries > 1
       THEN /\ far' = [far EXCEPT !.at = "denied", !.tries = @ - 1]
            /\ Says(<<"refused">>)
       ELSE EndsWith(IF far.tool = "su" THEN <<"text", "refused">> ELSE <<"text">>)
    /\ IF Head(sent) \in Commands THEN Astray("command") ELSE UNCHANGED did

Announce ==
    /\ ToolIs(Tools, {"authorised"})
    /\ far' = [far EXCEPT !.at = "running"]
    /\ Says(<<"cmd-run">>)
    /\ UNCHANGED <<sent, did>>

\* The command may print what looks like a prompt; pppd keeps the terminal.
Execute ==
    /\ ToolIs(Tools, {"running"}) \/ ToolIs({"plain"}, {"start"})
    /\ did' = [did EXCEPT !.ran = Append(@, far.tool)]
    /\ \E said \in {<<>>, <<"prompt">>} :
         CASE call.nosync -> far' = [far EXCEPT !.at = "linked"] /\ Says(said)
           [] ~call.nosync /\ far.tool = "plain" -> far' = Shell /\ Says(said)
           [] OTHER -> EndsWith(said)
    /\ UNCHANGED sent

Far ==
    /\ up
    /\ \/ EchoKey \/ Launch \/ NotInstalled \/ PasswordAtShell
       \/ Greet \/ Ask \/ Trust \/ Accept \/ NotASudoer \/ Deny \/ Announce \/ Execute
    /\ UNCHANGED <<program, exit, up, installed>>

\* The connection closes: what is under way is lost, all of it or not.
Close ==
    /\ MayClose /\ up
    /\ up' = FALSE /\ sent' = <<>> /\ out' \in {out, <<>>}
    /\ UNCHANGED <<program, exit, remote>>

\* SignalHandler, on SIGINT: 'Active' is not set yet, so that ssh lives on.
Signal ==
    /\ Interruptible /\ ~exit /\ exit' = TRUE
    /\ UNCHANGED <<program, up, sent, out, remote>>

Next == Program \/ Far \/ Close \/ Signal

Spec == Init /\ [][Next]_vars

\* Both machines run the programs; the user answers a prompt.
FairSpec == Spec /\ WF_vars(Program) /\ WF_vars(Far)

-------------------------------------------------------------------------------
(* Properties.                                                                 *)

Lines == Commands \cup Keys \cup Passwords \cup {NoPassword}
Items == Keys \cup {"text", "prompt", "refused", "cmd-run", "done"}

\* Every variable keeps its type.
TypeOK ==
    /\ pc \in {"sync", "write", "reading", "after", "decide", "done"}
    /\ next \in {"write", "decide"} /\ call \in RequestType /\ retried \in BOOLEAN
    /\ result \in {"BEGIN", "OKAY", "AUTH_FAIL", "ABORT"}
    /\ cache \in Passwords \cup {NoPassword}
    /\ exit \in BOOLEAN /\ up \in BOOLEAN /\ installed \subseteq Tools
    /\ sent \in Seq(Lines) /\ out \in Seq(Items)
    /\ far \in [tool : Commands \cup {"shell"},
                at : {"ready", "start", "greeted", "asking", "denied", "authorised",
                      "running", "linked"},
                tries : 0..MaxTries]
    /\ late \in 0..MaxLate
    /\ did \in [ran : Seq(Commands), astray : SUBSET {"password", "command"}]

Undisturbed == up /\ ~exit

\* The resynchronisation: when a command is about to be written the remote shell
\* reads its terminal, and neither an old line nor an old answer is under way --
\* though keys were sent again, and though sudo took some of them for passwords.
SyncIsClean ==
    pc = "write" /\ Undisturbed => far = Shell /\ sent = <<>> /\ out = <<>>

\* Nothing but a command goes to the remote shell: su is not started into the
\* password prompt of a sudo that is still asking, nor is a password run as a
\* command and kept in the shell's history.
NothingAstray == did.astray # {} => ~Undisturbed

\* The two tries execute the command at most once; and when the call answers
\* FALSE it has not been executed and, since the far end goes on after the call,
\* never will be.
AtMostOnce ==
    Undisturbed =>
        /\ Len(did.ran) <= 1
        /\ pc = "done" /\ result # "OKAY" => did.ran = <<>>

\* SSHVpnRunCommand returns, whatever the remote tools make of the keys.
Returns == <>(pc = "done")

=============================================================================
