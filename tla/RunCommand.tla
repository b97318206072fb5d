------------------------------ MODULE RunCommand ------------------------------
(* src/run_command.c: how one vpn_mgr process has a command run as root, by    *)
(* 'sudo', by 'su' or directly.  The tool runs on a pseudo-terminal; what it   *)
(* prints is a queue of items that RunCommandReadLoop classifies.  The program *)
(* and the tool take their steps independently, and SIGINT may come between    *)
(* any two of them.                                                            *)
EXTENDS Naturals, Sequences

CONSTANTS
    Root,           \* getuid() = 0
    Found,          \* which of "sudo" and "su" FindCommands found
    LocalFlags,     \* FLAG_SUDO and FLAG_SU as the command line left them
    Passwords,      \* what the user may type
    Opens,          \* the passwords each tool takes
    Permits,        \* whether sudo lets this user run a command (it may differ)
    Interruptible,  \* SIGINT may come
    OpenMayFail,    \* STREAMOpen may find no pseudo-terminal or process left
    MaxCalls,       \* bound: calls made
    MaxTries        \* bound: how often sudo asks before it gives up

Tools == {"sudo", "su"}
Methods == Tools \cup {"plain"}

NoPassword == ""

ASSUME RunCommandAssumption ==
    /\ Root \in BOOLEAN /\ Permits \subseteq BOOLEAN /\ Interruptible \in BOOLEAN
    /\ OpenMayFail \in BOOLEAN
    /\ Found \subseteq Tools
    /\ LocalFlags \subseteq {"SUDO", "SU"}
    /\ NoPassword \notin Passwords
    /\ Opens \in [Tools -> SUBSET Passwords]
    /\ MaxCalls \in Nat
    /\ MaxTries \in Nat \ {0}

\* The calls the other files make: RunCommand, or RunCommandOpen with the
\* stream kept (openvpn; pppd, which names its flags; ssh).
Requests ==
    { [wait |-> TRUE,  flags |-> {"ASROOT"}],
      [wait |-> FALSE, flags |-> {"ASROOT"}],
      [wait |-> FALSE, flags |-> {"SUDO", "SU"}],
      [wait |-> FALSE, flags |-> {}] }

VARIABLES
    flags,      \* GlobalFlags: SUDO, SU and EXIT
    cache,      \* Passwords["Local su/sudo"]
    pc,         \* where the program stands in the call
    call,       \* the request; its flags are CmdFlags
    result,     \* RunCommandReadLoop's result
    child,      \* the tool: which, how far, tries left, exit status
    out,        \* what it printed and nobody read
    typed,      \* the line written to it and not read
    report,     \* what the last RunCommand answered
    calls,      \* how many calls were made
    did         \* history: methods started and executions of the call's
                \* command, prompts shown, whether sudo was given up

vars == <<flags, cache, pc, call, result, child, out, typed, report, calls, did>>

NoChild == [tool |-> "none", at |-> "ended", tries |-> 0, status |-> 0]

Child(m) == [tool |-> m, at |-> "start", tries |-> MaxTries, status |-> 0]

Init ==
    /\ flags = LocalFlags /\ cache = NoPassword
    /\ pc = "idle" /\ call = [wait |-> FALSE, flags |-> {}] /\ result = "BEGIN"
    /\ child = NoChild /\ out = <<>> /\ typed = NoPassword
    /\ report = "none" /\ calls = 0
    /\ did = [tried |-> {}, ran |-> <<>>, prompts |-> 0, gaveUp |-> FALSE]

-------------------------------------------------------------------------------
(* The program. *)

\* Fault: all of GlobalFlags are taken over.
RootFlags_All(fs) == IF "ASROOT" \in fs /\ ~Root THEN fs \cup flags ELSE fs

\* RunCommand and RunCommandOpen up to the first try.
RootFlags(fs) == IF "ASROOT" \in fs /\ ~Root THEN fs \cup (flags \ {"EXIT"}) ELSE fs

Call ==
    /\ pc = "idle" /\ calls < MaxCalls
    /\ \E r \in Requests : call' = [r EXCEPT !.flags = RootFlags(r.flags)]
    /\ pc' = "try" /\ calls' = calls + 1 /\ report' = "none"
    /\ did' = [did EXCEPT !.tried = {}, !.ran = <<>>]
    /\ UNCHANGED <<flags, cache, result, child, out, typed>>

\* RunCmdFormat: sudo is preferred when both flags are set.
Method ==
    CASE ~Root /\ "SUDO" \in call.flags -> "sudo"
      [] ~Root /\ "SUDO" \notin call.flags /\ "SU" \in call.flags -> "su"
      [] OTHER -> "plain"

\* Fault: GlobalFlags keeps sudo.
NoStream_NotSticky ==
    IF "SUDO" \in call.flags
    THEN /\ call' = [call EXCEPT !.flags = @ \ {"SUDO"}]
         /\ did' = [did EXCEPT !.gaveUp = TRUE]
         /\ pc' = "try"
         /\ UNCHANGED flags
    ELSE /\ pc' = IF call.wait THEN "exited" ELSE "idle"
         /\ UNCHANGED <<flags, call, did>>

\* No stream.  After sudo the other flags get their try, and sudo is dropped
\* for good; after that RunCommand ends the program.
NoStream ==
    IF "SUDO" \in call.flags
    THEN /\ flags' = flags \ {"SUDO"}
         /\ call' = [call EXCEPT !.flags = @ \ {"SUDO"}]
         /\ did' = [did EXCEPT !.gaveUp = TRUE]
         /\ pc' = "try"
    ELSE /\ pc' = IF call.wait THEN "exited" ELSE "idle"
         /\ UNCHANGED <<flags, call, did>>

OpenTry ==
    /\ pc = "try"
    /\ Method \in Found \cup {"plain"}
    /\ child' = Child(Method)
    /\ did' = [did EXCEPT !.tried = @ \cup {Method}]
    /\ pc' = IF Method = "plain" THEN "opened" ELSE "reading"
    /\ result' = "BEGIN"
    /\ UNCHANGED <<flags, cache, call, out, typed, report, calls>>

\* The tool was not found, or STREAMOpen failed.
OpenFails ==
    /\ pc = "try"
    /\ OpenMayFail \/ Method \notin Found \cup {"plain"}
    /\ NoStream
    /\ UNCHANGED <<cache, result, child, out, typed, report, calls>>

NoTool == child' = NoChild /\ out' = <<>> /\ typed' = NoPassword

AtItem(items) == pc = "reading" /\ out # <<>> /\ Head(out) \in items

\* The loop goes on, unless FLAG_EXIT is set.
Continue == pc' = IF "EXIT" \in flags THEN "opened" ELSE "reading"

\* Fault: the answer is never flushed to the tool.
Transact_NotFlushed ==
    /\ IF cache # NoPassword
       THEN UNCHANGED <<cache, did>>
       ELSE /\ cache' \in Passwords
            /\ did' = [did EXCEPT !.prompts = @ + 1]
    /\ UNCHANGED typed

\* RunCommandPasswordTransact: the cache answers, else the user is asked.
Transact ==
    /\ IF cache # NoPassword
       THEN UNCHANGED <<cache, did>>
       ELSE /\ cache' \in Passwords
            /\ did' = [did EXCEPT !.prompts = @ + 1]
    /\ typed' = cache'

ReadPrompt ==
    /\ AtItem({"prompt"})
    /\ Transact
    /\ result' = "OKAY" /\ out' = Tail(out)
    /\ Continue
    /\ UNCHANGED <<flags, call, child, report, calls>>

\* The user answers with an empty line: RUN_CMD_ABORT, and OpenTry calls exit.
Abort ==
    /\ AtItem({"prompt"}) /\ cache = NoPassword
    /\ did' = [did EXCEPT !.prompts = @ + 1]
    /\ result' = "ABORT" /\ pc' = "exited"
    /\ NoTool
    /\ UNCHANGED <<flags, cache, call, report, calls>>

\* "Sorry" or "Authentication failure": the stream is closed, which hangs the
\* tool up.
ReadRefusal ==
    /\ AtItem({"refused"})
    /\ result' = "AUTH_FAIL"
    /\ NoStream
    /\ NoTool
    /\ UNCHANGED <<cache, report, calls>>

\* Fault: the loop goes on when the command starts.
ReadStarted_GoesOn ==
    /\ AtItem({"cmd-run"})
    /\ result' = "OKAY" /\ out' = Tail(out)
    /\ Continue
    /\ UNCHANGED <<flags, cache, call, child, typed, report, calls, did>>

ReadStarted ==
    /\ AtItem({"cmd-run"})
    /\ result' = "OKAY" /\ out' = Tail(out)
    /\ pc' = "opened"
    /\ UNCHANGED <<flags, cache, call, child, typed, report, calls, did>>

\* 'vpn-mgr-sudo-done', 'vpn-mgr-su-done' or the end of the stream: the result
\* is what it was.
ReadDone ==
    /\ \/ AtItem({"done"}) /\ out' = Tail(out)
       \/ pc = "reading" /\ out = <<>> /\ child.at = "ended" /\ UNCHANGED out
    /\ pc' = "opened"
    /\ UNCHANGED <<flags, cache, call, result, child, typed, report, calls, did>>

\* Fault: any line the tool prints is taken for its start.
ReadOther_Starts ==
    /\ AtItem({"text"})
    /\ out' = Tail(out)
    /\ pc' = "opened"
    /\ UNCHANGED <<flags, cache, call, result, child, typed, report, calls, did>>

ReadOther ==
    /\ AtItem({"text"})
    /\ out' = Tail(out)
    /\ Continue
    /\ UNCHANGED <<flags, cache, call, result, child, typed, report, calls, did>>

\* The read times out; the loop looks at FLAG_EXIT.
ReadTimesOut ==
    /\ pc = "reading" /\ out = <<>> /\ "EXIT" \in flags
    /\ pc' = "opened"
    /\ UNCHANGED <<flags, cache, call, result, child, out, typed, report, calls, did>>

\* RunCommandOpen's caller keeps the stream, and the tool leaves this model.
HandOver ==
    /\ pc = "opened" /\ ~call.wait
    /\ pc' = "idle"
    /\ NoTool
    /\ UNCHANGED <<flags, cache, call, result, report, calls, did>>

\* RunCommand's loop ends with this item: the end of the stream, or a whole line
\* while FLAG_EXIT is set.
LastLine == out = <<>> \/ ("EXIT" \in flags /\ Head(out) # "prompt")

\* Fault: at the end of the command su is tried after sudo.
Drain_TriesSu ==
    /\ pc = "opened" /\ call.wait
    /\ out # <<>> \/ child.at = "ended"
    /\ out' = IF out = <<>> THEN out ELSE Tail(out)
    /\ IF out = <<>> /\ "SUDO" \in call.flags
       THEN NoStream
       ELSE /\ pc' = IF LastLine THEN "reaping" ELSE pc
            /\ UNCHANGED <<flags, call, did>>
    /\ UNCHANGED <<cache, result, child, typed, report, calls>>

\* Fault: SIGINT ends the program where it stands.
Drain_Exits ==
    /\ pc = "opened" /\ call.wait
    /\ out # <<>> \/ child.at = "ended"
    /\ IF "EXIT" \in flags
       THEN pc' = "exited" /\ NoTool
       ELSE /\ out' = IF out = <<>> THEN out ELSE Tail(out)
            /\ pc' = IF out = <<>> THEN "reaping" ELSE pc
            /\ UNCHANGED <<child, typed>>
    /\ UNCHANGED <<flags, cache, call, result, report, calls, did>>

\* RunCommand reads the command's lines; after each it looks at FLAG_EXIT.  What
\* has no newline is no line yet, and nothing but a line or the end of the
\* stream ends a STREAMReadLine: no timeout and no signal.
Drain ==
    /\ pc = "opened" /\ call.wait
    /\ out # <<>> \/ child.at = "ended"
    /\ out' = IF out = <<>> THEN out ELSE Tail(out)
    /\ pc' = IF LastLine THEN "reaping" ELSE pc
    /\ UNCHANGED <<flags, cache, call, result, child, typed, report, calls, did>>

\* RunCommandCleanUp: waitpid blocks until the tool has ended.
Reap ==
    /\ pc = "reaping" /\ child.at = "ended"
    /\ report' = IF child.status = 0 THEN "OKAY" ELSE "FAIL"
    /\ pc' = "idle"
    /\ NoTool
    /\ UNCHANGED <<flags, cache, call, result, calls, did>>

\* SignalHandler, on SIGINT.
Signal ==
    /\ Interruptible /\ pc # "exited" /\ "EXIT" \notin flags
    /\ flags' = flags \cup {"EXIT"}
    /\ UNCHANGED <<cache, pc, call, result, child, out, typed, report, calls, did>>

-------------------------------------------------------------------------------
(* The tool, and the shell around it: sudo and su are external programs.       *)

Says(items) == out' = out \o items

ToolIs(tools, steps) == child.tool \in tools /\ child.at \in steps

Greet ==
    /\ ToolIs(Tools, {"start"})
    /\ child' = [child EXCEPT !.at = "greeted"]
    /\ Says(<<"text">>)
    /\ UNCHANGED <<typed, did>>

Ask ==
    /\ ToolIs(Tools, {"start", "greeted", "denied"})
    /\ child' = [child EXCEPT !.at = "asking"]
    /\ Says(<<"prompt">>)
    /\ UNCHANGED <<typed, did>>

\* sudo remembers an earlier password, or needs none.
Trust ==
    /\ ToolIs({"sudo"}, {"start", "greeted"}) /\ TRUE \in Permits
    /\ child' = [child EXCEPT !.at = "authorised"]
    /\ UNCHANGED <<out, typed, did>>

Answered == child.at = "asking" /\ typed # NoPassword /\ typed' = NoPassword

Accept ==
    /\ ToolIs(Tools, {"asking"}) /\ Answered
    /\ typed \in Opens[child.tool]
    /\ child.tool = "sudo" => TRUE \in Permits
    /\ child' = [child EXCEPT !.at = "authorised"]
    /\ UNCHANGED <<out, did>>

\* The shell goes on to its second echo, whose status it ends with.
EndsWith(items) ==
    /\ child' = [child EXCEPT !.at = "ended", !.status = 0]
    /\ Says(items \o <<"done">>)

\* "user is not in the sudoers file"
NotASudoer ==
    /\ ToolIs({"sudo"}, {"asking"}) /\ Answered
    /\ typed \in Opens["sudo"] /\ FALSE \in Permits
    /\ EndsWith(<<"text">>)
    /\ UNCHANGED did

Deny ==
    /\ ToolIs(Tools, {"asking"}) /\ Answered
    /\ typed \notin Opens[child.tool]
    /\ IF child.tool = "sudo" /\ child.tries > 1
       THEN /\ child' = [child EXCEPT !.at = "denied", !.tries = @ - 1]
            /\ Says(<<"refused">>)
       ELSE EndsWith(IF child.tool = "su" THEN <<"text", "refused">> ELSE <<"text">>)
    /\ UNCHANGED did

Announce ==
    /\ ToolIs(Tools, {"authorised"})
    /\ child' = [child EXCEPT !.at = "running"]
    /\ Says(<<"cmd-run">>)
    /\ UNCHANGED <<typed, did>>

\* The command: it may fail, and may print something that looks like a prompt.
Execute ==
    /\ ToolIs(Tools, {"running"}) \/ ToolIs({"plain"}, {"start"})
    /\ did' = [did EXCEPT !.ran = Append(@, child.tool)]
    /\ \E said \in {<<>>, <<"prompt">>}, status \in {0, 1} :
         IF child.tool = "plain"
         THEN /\ child' = [child EXCEPT !.at = "ended", !.status = status]
              /\ Says(said)
         ELSE EndsWith(said)
    /\ UNCHANGED typed

Program ==
    \/ Call \/ OpenTry \/ OpenFails
    \/ ReadPrompt \/ Abort \/ ReadRefusal \/ ReadStarted \/ ReadDone \/ ReadOther
    \/ ReadTimesOut
    \/ HandOver \/ Drain \/ Reap

Tool ==
    /\ Greet \/ Ask \/ Trust \/ Accept \/ NotASudoer \/ Deny \/ Announce \/ Execute
    /\ UNCHANGED <<flags, cache, pc, call, result, report, calls>>

Next == Program \/ Tool \/ Signal

Spec == Init /\ [][Next]_vars

\* The system schedules the program and the tool; the user answers a prompt.
Fairness == WF_vars(Program) /\ WF_vars(Tool)

FairSpec == Spec /\ Fairness

-------------------------------------------------------------------------------
(* Properties.  The comments name what each is about in run_command.c.         *)

Items == {"text", "prompt", "refused", "cmd-run", "done"}

Stages == {"start", "greeted", "asking", "denied", "authorised", "running", "ended"}

RequestType == [wait : BOOLEAN, flags : SUBSET {"ASROOT", "SUDO", "SU"}]

ChildType == [tool : Methods \cup {"none"}, at : Stages, tries : Nat, status : {0, 1}]

HistoryType == [tried : SUBSET Methods, ran : Seq(Methods), prompts : Nat, gaveUp : BOOLEAN]

\* Every variable keeps its type: the flags, the cache, the queues and the history.
TypeOK ==
    /\ flags \subseteq {"SUDO", "SU", "EXIT"}
    /\ cache \in Passwords \cup {NoPassword}
    /\ typed \in Passwords \cup {NoPassword}
    /\ pc \in {"idle", "try", "reading", "opened", "reaping", "exited"}
    /\ call \in RequestType
    /\ result \in {"BEGIN", "OKAY", "AUTH_FAIL", "ABORT"}
    /\ child \in ChildType
    /\ out \in Seq(Items)
    /\ report \in {"none", "OKAY", "FAIL"}
    /\ calls \in 0..MaxCalls
    /\ did \in HistoryType

\* The retry with su (RunCommandOpen) never executes a command a second time:
\* a command that changes routes or moves resolv.conf runs at most once a call.
AtMostOnce == Len(did.ran) <= 1

\* A password is only ever written to a tool that is asking for one, and never
\* to the command itself, whose own prompts come after 'vpn-mgr-cmd-run'
\* (RunCommandReadLoop).
PasswordForTheTool ==
    typed # NoPassword => child.tool \in Tools /\ child.at = "asking"

\* The user is asked for a password at most once in the life of the program:
\* the answer is cached, and an empty one ends the program
\* (RunCommandPasswordTransact).
AskedOnce == did.prompts <= 1

\* Once sudo was given up, no command asked for with CMD_ASROOT tries it again
\* (GlobalFlags &= ~CMD_SUDO in RunCommandOpen).
StaysWithSu ==
    did.gaveUp /\ child.tool = "sudo" => "ASROOT" \notin call.flags

\* No tool is left waiting for a password: while one does, its prompt is still
\* to be read, and RunCommandReadLoop still reads.  So the loop does not wait for
\* a tool that waits for it, nor does RunCommand when it reads on or waits in
\* RunCommandCleanUp -- unless SIGINT made the loop stop before the prompt.
NoDeadWait ==
    child.at = "asking" /\ typed = NoPassword =>
        \/ pc = "reading" /\ out # <<>> /\ out[Len(out)] = "prompt"
        \/ "EXIT" \in flags

\* A call that is not interrupted ends, with an answer or with the program.
CallEnds == pc # "idle" ~> pc \in {"idle", "exited"} \/ "EXIT" \in flags

\* 'trying both sudo and su' (README.md): a call that is answered although its
\* command did not run has tried su.
BothTried ==
    report # "none" /\ did.ran = <<>> => "su" \in did.tried

\* The call as its caller sees it.
Phase ==
    CASE pc = "exited" -> "gone"
      [] pc = "idle" -> "idle"
      [] pc \notin {"exited", "idle"} /\ did.ran = <<>> -> "requested"
      [] OTHER -> "executed"

Promise == INSTANCE PrivilegedCall WITH phase <- Phase, executions <- Len(did.ran)

\* RunCommand keeps the promise its callers count on.
KeepsPromise == Promise!Spec
=============================================================================
