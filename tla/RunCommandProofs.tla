--------------------------- MODULE RunCommandProofs ---------------------------
(* Proofs about RunCommand, for any passwords, any tools found, any bounds,    *)
(* with SIGINT and failures at any point.                                      *)
EXTENDS RunCommand, SequenceTheorems, TLAPS

-------------------------------------------------------------------------------
(* Types.                                                                      *)

LEMMA Saying ==
  ASSUME NEW s \in Seq(Items), NEW t \in Seq(Items)
  PROVE  s \o t \in Seq(Items)
  OBVIOUS

\* What the tool prints at one step.
LEMMA Sayings ==
  /\ <<>> \in Seq(Items) /\ <<"text">> \in Seq(Items) /\ <<"prompt">> \in Seq(Items)
  /\ <<"refused">> \in Seq(Items) /\ <<"cmd-run">> \in Seq(Items)
  /\ <<"text", "refused">> \in Seq(Items) /\ <<"done">> \in Seq(Items)
  BY DEF Items

LEMMA Records ==
  TypeOK => /\ call \in RequestType /\ child \in ChildType /\ did \in HistoryType
            /\ out \in Seq(Items)
  BY DEF TypeOK

LEMMA NoChildType == NoChild \in ChildType
  BY DEF NoChild, ChildType, Stages

LEMMA InitTypeOK == Init => TypeOK
<1> SUFFICES ASSUME Init PROVE TypeOK
  OBVIOUS
<1>1. did \in HistoryType
  BY DEF Init, HistoryType
<1>2. call \in RequestType
  BY DEF Init, RequestType
<1> QED BY <1>1, <1>2, NoChildType, RunCommandAssumption DEF Init, TypeOK

\* Where a try that gave no stream leaves the call.
LEMMA NoStreamType ==
  ASSUME TypeOK, NoStream
  PROVE  /\ flags' \subseteq flags
         /\ pc' \in {"try", "exited", "idle"}
         /\ call' \in RequestType /\ call'.flags = call.flags \ {"SUDO"}
         /\ did' \in HistoryType
         /\ did'.ran = did.ran /\ did'.prompts = did.prompts
<1>0. call \in RequestType /\ did \in HistoryType
  BY DEF TypeOK
<1>1. call' \in RequestType
  BY <1>0 DEF NoStream, RequestType
<1>4. did' \in HistoryType
  BY <1>0 DEF NoStream, HistoryType
<1>2. call'.flags = call.flags \ {"SUDO"}
  BY <1>0 DEF NoStream, RequestType
<1>3. did'.ran = did.ran /\ did'.prompts = did.prompts
  BY <1>0 DEF NoStream, HistoryType
<1> QED BY <1>1, <1>2, <1>3, <1>4 DEF NoStream

LEMMA ProgramTypeOK == TypeOK /\ Program => TypeOK'
<1> SUFFICES ASSUME TypeOK, Program PROVE TypeOK'
  OBVIOUS
<1>1. CASE Call
  <2>1. PICK r \in Requests : call' = [r EXCEPT !.flags = RootFlags(r.flags)]
    BY <1>1 DEF Call
  <2>2. r \in RequestType
    <3> SUFFICES ASSUME NEW w \in BOOLEAN, NEW fs \in SUBSET {"ASROOT", "SUDO", "SU"},
                        r = [wait |-> w, flags |-> fs]
                 PROVE  r \in RequestType
      BY <2>1 DEF Requests
    <3> QED BY DEF RequestType
  <2>3. r.flags \in SUBSET {"ASROOT", "SUDO", "SU"}
    BY <2>2 DEF RequestType
  <2>4. RootFlags(r.flags) \in SUBSET {"ASROOT", "SUDO", "SU"}
    BY <2>3 DEF RootFlags, TypeOK
  <2>5. call' \in RequestType
    BY <2>1, <2>2, <2>4 DEF RequestType
  <2>6. did' \in HistoryType
    <3>1. <<>> \in Seq(Methods) /\ {} \in SUBSET Methods
      OBVIOUS
    <3> QED BY <1>1, <3>1, Records DEF Call, HistoryType
  <2>7. calls' \in 0..MaxCalls
    BY <1>1, RunCommandAssumption DEF Call, TypeOK
  <2> QED BY <1>1, <2>5, <2>6, <2>7 DEF Call, TypeOK
<1>2. CASE OpenTry
  <2>1. Method \in Methods
    BY DEF Method, Methods, Tools
  <2>2. child' \in ChildType
    BY <1>2, <2>1, RunCommandAssumption DEF OpenTry, Child, ChildType, Stages
  <2>3. did' \in HistoryType
    BY <1>2, <2>1, Records DEF OpenTry, HistoryType
  <2> QED BY <1>2, <2>2, <2>3 DEF OpenTry, TypeOK
<1>3. CASE OpenFails
  BY <1>3, NoStreamType DEF OpenFails, TypeOK
<1>4. CASE ReadPrompt
  <2>1. did' \in HistoryType
    BY <1>4, Records DEF ReadPrompt, Transact, HistoryType
  <2> QED BY <1>4, <2>1 DEF ReadPrompt, TypeOK, AtItem, Transact, Continue
<1>5. CASE Abort
  <2>1. did' \in HistoryType
    BY <1>5, Records DEF Abort, HistoryType
  <2> QED BY <1>5, <2>1, NoChildType DEF Abort, TypeOK, AtItem, NoTool
<1>6. CASE ReadRefusal
  <2>1. NoStream /\ NoTool
    BY <1>6 DEF ReadRefusal
  <2>2. out' \in Seq(Items)
    BY <2>1 DEF NoTool
  <2> QED BY <1>6, <2>1, <2>2, NoStreamType, NoChildType DEF ReadRefusal, TypeOK, NoTool
<1>7. CASE ReadStarted
  BY <1>7 DEF ReadStarted, TypeOK, AtItem
<1>8. CASE ReadDone
  <2>1. out' \in Seq(Items)
    BY <1>8, Records DEF ReadDone, AtItem
  <2> QED BY <1>8, <2>1 DEF ReadDone, TypeOK
<1>9. CASE ReadOther
  BY <1>9 DEF ReadOther, TypeOK, AtItem, Continue
<1>10. CASE ReadTimesOut
  BY <1>10 DEF ReadTimesOut, TypeOK
<1>11. CASE HandOver
  BY <1>11, NoChildType DEF HandOver, TypeOK, NoTool
<1>12. CASE Drain
  BY <1>12 DEF Drain, TypeOK
<1>13. CASE Reap
  BY <1>13, NoChildType DEF Reap, TypeOK, NoTool
<1> QED
  BY <1>1, <1>2, <1>3, <1>4, <1>5, <1>6, <1>7, <1>8, <1>9, <1>10, <1>11, <1>12, <1>13
     DEF Program

LEMMA ToolTypeOK == TypeOK /\ Tool => TypeOK'
<1> SUFFICES ASSUME TypeOK, Tool PROVE TypeOK'
  OBVIOUS
<1>0. child \in ChildType /\ out \in Seq(Items) /\ did \in HistoryType
      /\ typed \in Passwords \cup {NoPassword}
  BY DEF TypeOK
<1>a. ASSUME NEW at \in Stages, child' = [child EXCEPT !.at = at]
      PROVE  child' \in ChildType
  BY <1>0, <1>a DEF ChildType
<1>b. ASSUME NEW t \in Seq(Items), out' = out \o t
      PROVE  out' \in Seq(Items)
  BY <1>0, <1>b
<1>c. ASSUME NEW t \in Seq(Items), EndsWith(t)
      PROVE  child' \in ChildType /\ out' \in Seq(Items)
  <2>1. child' \in ChildType
    BY <1>0, <1>c DEF EndsWith, ChildType, Stages
  <2>2. t \o <<"done">> \in Seq(Items)
    BY Sayings, Saying
  <2> QED BY <1>c, <2>1, <2>2, <1>b DEF EndsWith, Says
<1> SUFFICES child' \in ChildType /\ out' \in Seq(Items) /\ did' \in HistoryType
             /\ typed' \in Passwords \cup {NoPassword}
  BY DEF Tool, TypeOK
<1>1. CASE Greet
  <2>1. "greeted" \in Stages
    BY DEF Stages
  <2> QED BY <1>0, <1>1, <1>a, <1>b, <2>1, Sayings DEF Greet, Says
<1>2. CASE Ask
  <2>1. "asking" \in Stages
    BY DEF Stages
  <2> QED BY <1>0, <1>2, <1>a, <1>b, <2>1, Sayings DEF Ask, Says
<1>3. CASE Trust
  <2>1. "authorised" \in Stages
    BY DEF Stages
  <2> QED BY <1>0, <1>3, <1>a, <2>1 DEF Trust
<1>4. CASE Accept
  <2>1. "authorised" \in Stages
    BY DEF Stages
  <2> QED BY <1>0, <1>4, <1>a, <2>1 DEF Accept, Answered
<1>5. CASE NotASudoer
  BY <1>0, <1>5, <1>c, Sayings DEF NotASudoer, Answered
<1>6. CASE Deny
  <2>1. CASE child.tool = "sudo" /\ child.tries > 1
    <3>0. child.tries - 1 \in Nat
      BY <1>0, <2>1 DEF ChildType
    <3>1. child' \in ChildType
      BY <1>0, <1>6, <2>1, <3>0 DEF Deny, ChildType, Stages
    <3> QED BY <1>0, <1>6, <1>b, <2>1, <3>1, Sayings DEF Deny, Says, Answered
  <2>2. CASE ~(child.tool = "sudo" /\ child.tries > 1)
    BY <1>0, <1>6, <1>c, <2>2, Sayings DEF Deny, Answered
  <2> QED BY <2>1, <2>2
<1>7. CASE Announce
  <2>1. "running" \in Stages
    BY DEF Stages
  <2> QED BY <1>0, <1>7, <1>a, <1>b, <2>1, Sayings DEF Announce, Says
<1>8. CASE Execute
  <2>1. child.tool \in Methods
    BY <1>8 DEF Execute, ToolIs, Methods
  <2>2. Append(did.ran, child.tool) \in Seq(Methods)
    BY <1>0, <2>1 DEF HistoryType
  <2>3. did' \in HistoryType
    BY <1>0, <1>8, <2>2 DEF Execute, HistoryType
  <2>4. PICK said \in {<<>>, <<"prompt">>}, status \in {0, 1} :
          IF child.tool = "plain"
          THEN /\ child' = [child EXCEPT !.at = "ended", !.status = status]
               /\ Says(said)
          ELSE EndsWith(said)
    BY <1>8 DEF Execute
  <2>5. said \in Seq(Items)
    BY Sayings
  <2>6. CASE child.tool = "plain"
    <3>1. child' \in ChildType
      BY <1>0, <2>4, <2>6 DEF ChildType, Stages
    <3> QED BY <1>0, <1>8, <1>b, <2>3, <2>4, <2>5, <2>6, <3>1 DEF Execute, Says
  <2>7. CASE child.tool # "plain"
    BY <1>0, <1>8, <1>c, <2>3, <2>4, <2>5, <2>7 DEF Execute
  <2> QED BY <2>6, <2>7
<1> QED
  BY <1>1, <1>2, <1>3, <1>4, <1>5, <1>6, <1>7, <1>8 DEF Tool

\* Every variable of the model of run_command.c keeps its type.
THEOREM TypeCorrect == Spec => []TypeOK
<1>1. TypeOK /\ [Next]_vars => TypeOK'
  <2> SUFFICES ASSUME TypeOK, [Next]_vars PROVE TypeOK'
    OBVIOUS
  <2>1. CASE Signal
    BY <2>1 DEF Signal, TypeOK
  <2>2. CASE UNCHANGED vars
    BY <2>2 DEF vars, TypeOK
  <2> QED BY <2>1, <2>2, ProgramTypeOK, ToolTypeOK DEF Next
<1> QED BY <1>1, InitTypeOK, PTL DEF Spec

-------------------------------------------------------------------------------
(* The inductive invariant.  AtMostOnce rests on what a refusal means: the     *)
(* program starts a second tool only after reading one, and while a refusal is *)
(* unread nobody can have answered the prompt that may follow it (Unread).     *)

\* Between tries there is no tool.
Quiet ==
    pc \in {"idle", "try", "exited"} => child = NoChild /\ out = <<>> /\ typed = NoPassword

\* The loop reads from sudo or su, and a password not yet read is for one of them.
Listening ==
    /\ pc = "reading" => child.tool \in Tools
    /\ PasswordForTheTool

Executions ==
    /\ AtMostOnce
    /\ pc \in {"try", "exited"} => did.ran = <<>>
    /\ pc # "idle" /\ did.ran # <<>> => child.at = "ended"

Unanswered(i) == i = Len(out) /\ child.at = "asking" /\ typed = NoPassword

Unread ==
    pc = "reading" =>
      /\ child.at = "running" => \E j \in 1..Len(out) : out[j] = "cmd-run"
      /\ \A i \in 1..Len(out) :
           /\ out[i] = "prompt" =>
                Unanswered(i) \/ \E j \in 1..Len(out) : j < i /\ out[j] = "cmd-run"
           /\ out[i] = "refused" =>
                /\ did.ran = <<>> /\ typed = NoPassword
                /\ child.at \in {"denied", "asking", "ended"}

Asked == AskedOnce /\ (cache = NoPassword /\ pc # "exited" => did.prompts = 0)

GivenUp ==
    /\ StaysWithSu
    /\ did.gaveUp =>
         /\ "SUDO" \notin flags
         /\ pc # "idle" /\ "ASROOT" \in call.flags => "SUDO" \notin call.flags

IInv ==
    TypeOK /\ Quiet /\ Listening /\ Executions /\ Unread /\ Asked /\ GivenUp

LEMMA InitIInv == Init => IInv
  BY InitTypeOK, RunCommandAssumption
     DEF Init, IInv, Quiet, Listening, PasswordForTheTool, Executions, AtMostOnce, Unread,
         Asked, AskedOnce, GivenUp, StaysWithSu, NoChild

LEMMA CallKeeps == IInv /\ Call => IInv'
<1> SUFFICES ASSUME IInv, Call PROVE IInv'
  OBVIOUS
<1>1. TypeOK'
  BY ProgramTypeOK DEF IInv, Program
<1>2. PICK r \in Requests : call' = [r EXCEPT !.flags = RootFlags(r.flags)]
  BY DEF Call
<1>3. did'.ran = <<>> /\ did'.prompts = did.prompts /\ did'.gaveUp = did.gaveUp
  BY Records DEF Call, IInv, HistoryType
<1>4. call'.flags = RootFlags(r.flags)
  BY <1>2 DEF Requests
<1>5. "ASROOT" \in call'.flags /\ "SUDO" \in call'.flags => "SUDO" \in flags
  BY <1>2, <1>4 DEF RootFlags, Requests
<1>6. child = NoChild
  BY DEF IInv, Quiet, Call
<1> QED
  BY <1>1, <1>3, <1>5, <1>6
     DEF Call, IInv, Quiet, Listening, PasswordForTheTool, Executions, AtMostOnce,
         Unread, Asked, AskedOnce, GivenUp, StaysWithSu, NoChild

LEMMA OpenTryKeeps == IInv /\ OpenTry => IInv'
<1> SUFFICES ASSUME IInv, OpenTry PROVE IInv'
  OBVIOUS
<1>1. TypeOK'
  BY ProgramTypeOK DEF IInv, Program
<1>2. did'.ran = <<>> /\ did'.prompts = did.prompts /\ did'.gaveUp = did.gaveUp
  BY Records DEF OpenTry, IInv, HistoryType, Executions
<1>3. child'.tool = Method /\ child'.at = "start"
  BY DEF OpenTry, Child
<1>4. Method \in Methods /\ (Method = "sudo" => "SUDO" \in call.flags)
  BY DEF Method, Methods, Tools
<1> QED
  BY <1>1, <1>2, <1>3, <1>4
     DEF OpenTry, IInv, Quiet, Listening, PasswordForTheTool, Executions, AtMostOnce,
         Unread, Asked, AskedOnce, GivenUp, StaysWithSu, Methods

\* OpenFails and ReadRefusal: nothing was executed, and no tool is left.
LEMMA NoStreamKeeps ==
  ASSUME IInv, TypeOK', NoStream, did.ran = <<>>, pc \in {"try", "reading"},
         child' = NoChild, out' = <<>>, typed' = NoPassword, UNCHANGED cache
  PROVE  IInv'
<1>1. did'.ran = <<>> /\ did'.prompts = did.prompts
  BY NoStreamType DEF IInv
<1>2. did'.gaveUp => "SUDO" \notin flags' /\ ("ASROOT" \in call'.flags => "SUDO" \notin call'.flags)
  <2>1. CASE "SUDO" \in call.flags
    BY <2>1, NoStreamType DEF NoStream, IInv
  <2>2. CASE "SUDO" \notin call.flags
    BY <2>2 DEF NoStream, IInv, GivenUp
  <2> QED BY <2>1, <2>2
<1>3. pc' \in {"try", "exited", "idle"}
  BY NoStreamType DEF IInv
<1> QED
  BY <1>1, <1>2, <1>3
     DEF IInv, Quiet, Listening, PasswordForTheTool, Executions, AtMostOnce,
         Unread, Asked, AskedOnce, GivenUp, StaysWithSu, NoChild

LEMMA OpenFailsKeeps == IInv /\ OpenFails => IInv'
<1> SUFFICES ASSUME IInv, OpenFails PROVE IInv'
  OBVIOUS
<1>1. TypeOK'
  BY ProgramTypeOK DEF IInv, Program
<1>2. did.ran = <<>> /\ child = NoChild /\ out = <<>> /\ typed = NoPassword
  BY DEF IInv, OpenFails, Executions, Quiet
<1> QED BY <1>1, <1>2, NoStreamKeeps DEF OpenFails

LEMMA ReadRefusalKeeps == IInv /\ ReadRefusal => IInv'
<1> SUFFICES ASSUME IInv, ReadRefusal PROVE IInv'
  OBVIOUS
<1>1. TypeOK'
  BY ProgramTypeOK DEF IInv, Program
<1>2. pc = "reading" /\ out # <<>> /\ out[1] = "refused"
  BY DEF ReadRefusal, AtItem
<1>3. 1 \in 1..Len(out)
  BY <1>2 DEF IInv, TypeOK
<1>4. did.ran = <<>>
  BY <1>2, <1>3 DEF IInv, Unread
<1> QED BY <1>1, <1>2, <1>4, NoStreamKeeps DEF ReadRefusal, NoTool

\* The prompt being read is the last thing the tool said, and unanswered.
LEMMA AtPrompt ==
  ASSUME IInv, AtItem({"prompt"})
  PROVE  Len(out) = 1 /\ child.at = "asking" /\ child.tool \in Tools /\ did.ran = <<>>
<1>1. pc = "reading" /\ out # <<>> /\ out[1] = "prompt"
  BY DEF AtItem
<1>2. 1 \in 1..Len(out)
  BY <1>1 DEF IInv, TypeOK
<1>3. Unanswered(1)
  BY <1>1, <1>2 DEF IInv, Unread
<1>4. did.ran = <<>>
  BY <1>1, <1>3 DEF IInv, Executions, Unanswered
<1> QED BY <1>1, <1>3, <1>4 DEF Unanswered, IInv, Listening

LEMMA ReadPromptKeeps == IInv /\ ReadPrompt => IInv'
<1> SUFFICES ASSUME IInv, ReadPrompt PROVE IInv'
  OBVIOUS
<1>1. TypeOK'
  BY ProgramTypeOK DEF IInv, Program
<1>2. Len(out) = 1 /\ child.at = "asking" /\ child.tool \in Tools /\ did.ran = <<>>
  BY AtPrompt DEF ReadPrompt
<1>3. Len(out') = 0
  BY <1>2 DEF ReadPrompt, IInv, TypeOK
<1>4. did'.ran = did.ran /\ did'.gaveUp = did.gaveUp
      /\ did'.prompts = IF cache = NoPassword THEN did.prompts + 1 ELSE did.prompts
  BY Records DEF ReadPrompt, Transact, IInv, HistoryType
<1>5. cache' # NoPassword
  BY RunCommandAssumption DEF ReadPrompt, Transact
<1>6. Asked'
  BY <1>4, <1>5 DEF IInv, Asked, AskedOnce, ReadPrompt, AtItem
<1>7. Unread'
  <2>1. 1..Len(out') = {}
    BY <1>3
  <2>2. child'.at = "asking"
    BY <1>2 DEF ReadPrompt
  <2> QED BY <2>1, <2>2 DEF Unread
<1>8. pc = "reading" /\ pc' \in {"reading", "opened"} /\ UNCHANGED <<child, flags, call>>
  BY DEF ReadPrompt, AtItem, Continue
<1> QED
  BY <1>1, <1>2, <1>4, <1>6, <1>7, <1>8
     DEF IInv, Quiet, Listening, PasswordForTheTool, Executions, AtMostOnce,
         GivenUp, StaysWithSu

LEMMA AbortKeeps == IInv /\ Abort => IInv'
<1> SUFFICES ASSUME IInv, Abort PROVE IInv'
  OBVIOUS
<1>1. TypeOK'
  BY ProgramTypeOK DEF IInv, Program
<1>2. did.ran = <<>>
  BY AtPrompt DEF Abort
<1>3. did'.ran = did.ran /\ did'.gaveUp = did.gaveUp /\ did'.prompts = did.prompts + 1
  BY Records DEF Abort, IInv, HistoryType
<1>4. did.prompts = 0
  BY DEF Abort, AtItem, IInv, Asked
<1> QED
  BY <1>1, <1>2, <1>3, <1>4
     DEF Abort, AtItem, NoTool, NoChild, IInv, Quiet, Listening, PasswordForTheTool,
         Executions, AtMostOnce, Unread, Asked, AskedOnce, GivenUp, StaysWithSu

LEMMA ReadOtherKeeps == IInv /\ ReadOther => IInv'
<1> SUFFICES ASSUME IInv, ReadOther PROVE IInv'
  OBVIOUS
<1>1. TypeOK'
  BY ProgramTypeOK DEF IInv, Program
<1>2. pc = "reading" /\ out # <<>> /\ out[1] = "text" /\ out' = Tail(out)
  BY DEF ReadOther, AtItem
<1>3. out \in Seq(Items)
  BY DEF IInv, TypeOK
<1>4. /\ Len(out) \in Nat \ {0} /\ Len(out') = Len(out) - 1
      /\ \A i \in 1..Len(out') : out'[i] = out[i + 1]
  BY <1>2, <1>3
<1>5. \A j \in 1..Len(out) : out[j] = "cmd-run" =>
         j - 1 \in 1..Len(out') /\ out'[j - 1] = "cmd-run"
  BY <1>2, <1>4
<1>6. UNCHANGED <<child, typed, did, flags, call, cache>> /\ pc' \in {"reading", "opened"}
  BY DEF ReadOther, Continue
<1>7. ASSUME pc' = "reading" PROVE Unread'
  <2>1. child'.at = "running" => \E j \in 1..Len(out') : out'[j] = "cmd-run"
    BY <1>2, <1>5, <1>6 DEF IInv, Unread
  <2>2. ASSUME NEW i \in 1..Len(out'), out'[i] = "prompt"
        PROVE  Unanswered(i)' \/ \E j \in 1..Len(out') : j < i /\ out'[j] = "cmd-run"
    <3>1. i + 1 \in 1..Len(out) /\ out[i + 1] = "prompt"
      BY <1>4, <2>2
    <3>2. CASE Unanswered(i + 1)
      BY <3>2, <1>4, <1>6 DEF Unanswered
    <3>3. CASE \E j \in 1..Len(out) : j < i + 1 /\ out[j] = "cmd-run"
      BY <3>3, <1>4, <1>5
    <3> QED BY <3>1, <3>2, <3>3, <1>2 DEF IInv, Unread
  <2>3. ASSUME NEW i \in 1..Len(out'), out'[i] = "refused"
        PROVE  did'.ran = <<>> /\ typed' = NoPassword
               /\ child'.at \in {"denied", "asking", "ended"}
    <3>1. i + 1 \in 1..Len(out) /\ out[i + 1] = "refused"
      BY <1>4, <2>3
    <3> QED BY <3>1, <1>2, <1>6 DEF IInv, Unread
  <2> QED BY <2>1, <2>2, <2>3 DEF Unread
<1> QED
  BY <1>1, <1>2, <1>6, <1>7
     DEF IInv, Quiet, Listening, PasswordForTheTool, Executions, AtMostOnce,
         Unread, Asked, AskedOnce, GivenUp, StaysWithSu

\* The steps after which the stream is the caller's, and what RunCommand does with it.
LEMMA RestKeeps ==
  IInv /\ (ReadStarted \/ ReadDone \/ ReadTimesOut \/ HandOver \/ Drain \/ Reap) => IInv'
<1> SUFFICES ASSUME IInv,
                    ReadStarted \/ ReadDone \/ ReadTimesOut \/ HandOver \/ Drain \/ Reap
             PROVE  IInv'
  OBVIOUS
<1>1. TypeOK'
  BY ProgramTypeOK DEF IInv, Program
<1>2. CASE ReadStarted \/ ReadDone \/ ReadTimesOut \/ Drain
  <2>1. /\ UNCHANGED <<child, typed, did, flags, call, cache>>
        /\ pc \in {"reading", "opened"} /\ pc' \in {"opened", "reaping"}
    BY <1>2 DEF ReadStarted, ReadDone, ReadTimesOut, Drain, AtItem
  <2> QED
    BY <1>1, <2>1
       DEF IInv, Quiet, Listening, PasswordForTheTool, Executions, AtMostOnce,
           Unread, Asked, AskedOnce, GivenUp, StaysWithSu
<1>3. CASE HandOver \/ Reap
  <2>1. /\ UNCHANGED <<did, flags, call, cache>> /\ NoTool
        /\ pc \in {"opened", "reaping"} /\ pc' = "idle"
    BY <1>3 DEF HandOver, Reap
  <2> QED
    BY <1>1, <2>1
       DEF IInv, Quiet, Listening, PasswordForTheTool, Executions, AtMostOnce, NoTool,
           NoChild, Unread, Asked, AskedOnce, GivenUp, StaysWithSu
<1> QED BY <1>2, <1>3

LEMMA ProgramKeeps == IInv /\ Program => IInv'
  BY CallKeeps, OpenTryKeeps, OpenFailsKeeps, ReadPromptKeeps, AbortKeeps,
     ReadRefusalKeeps, ReadOtherKeeps, RestKeeps
     DEF Program

-------------------------------------------------------------------------------
(* The tool's steps.                                                           *)

\* What the tool says comes after what is unread.
LEMMA Said ==
  ASSUME TypeOK, NEW t \in Seq(Items), out' = out \o t
  PROVE  /\ Len(out') = Len(out) + Len(t) /\ Len(out) \in Nat /\ Len(t) \in Nat
         /\ \A i \in 1..Len(out) : i \in 1..Len(out') /\ out'[i] = out[i]
         /\ \A i \in 1..Len(out') : i \in 1..Len(out) \/
              (i - Len(out) \in 1..Len(t) /\ out'[i] = t[i - Len(out)])
<1>1. out \in Seq(Items)
  BY DEF TypeOK
<1> QED BY <1>1

\* A tool takes steps only while the program is in a call that has not yet
\* executed its command.
LEMMA ToolInCall ==
  ASSUME IInv, Tool
  PROVE  /\ pc \in {"reading", "opened", "reaping"}
         /\ child.at # "ended" /\ child.tool \in Methods /\ did.ran = <<>>
<1>1. child.at # "ended" /\ child.tool \in Methods
  BY DEF Tool, Greet, Ask, Trust, Accept, NotASudoer, Deny, Announce, Execute, ToolIs,
         Answered, Methods, Tools
<1>2. pc \notin {"idle", "try", "exited"}
  BY <1>1 DEF IInv, Quiet, NoChild
<1> QED BY <1>1, <1>2 DEF IInv, TypeOK, Executions

\* Unread is kept when the tool goes on without executing the command: it may
\* ask, refuse, or say anything else.
LEMMA SayingKeepsUnread ==
  ASSUME IInv, NEW t \in Seq(Items), out' = out \o t, pc = "reading", pc' = pc,
         did.ran = <<>>, did'.ran = <<>>,
         \* no prompt was waiting for an answer
         child.at # "asking" \/ typed # NoPassword,
         child'.at = "running" => \E j \in 1..Len(t) : t[j] = "cmd-run",
         \A j \in 1..Len(t) : t[j] = "prompt" =>
            j = Len(t) /\ child'.at = "asking" /\ typed' = NoPassword,
         (\E i \in 1..Len(out) : out[i] = "refused")
            \/ (\E j \in 1..Len(t) : t[j] = "refused") =>
            typed' = NoPassword /\ child'.at \in {"denied", "asking", "ended"}
  PROVE  Unread'
<1>1. /\ Len(out') = Len(out) + Len(t) /\ Len(out) \in Nat /\ Len(t) \in Nat
      /\ \A i \in 1..Len(out) : i \in 1..Len(out') /\ out'[i] = out[i]
      /\ \A i \in 1..Len(out') : i \in 1..Len(out) \/
           (i - Len(out) \in 1..Len(t) /\ out'[i] = t[i - Len(out)])
  BY Said DEF IInv
<1>2. ASSUME child'.at = "running" PROVE \E j \in 1..Len(out') : out'[j] = "cmd-run"
  <2>1. PICK j \in 1..Len(t) : t[j] = "cmd-run"
    BY <1>2
  <2>2. out'[Len(out) + j] = t[j] /\ Len(out) + j \in 1..Len(out')
    BY <1>1
  <2> QED BY <2>1, <2>2
<1>3. ASSUME NEW i \in 1..Len(out'), out'[i] = "prompt"
      PROVE  Unanswered(i)' \/ \E j \in 1..Len(out') : j < i /\ out'[j] = "cmd-run"
  <2>1. CASE i \in 1..Len(out)
    <3>1. out[i] = "prompt"
      BY <1>1, <1>3, <2>1
    <3>2. ~ Unanswered(i)
      BY DEF Unanswered
    <3>3. PICK j \in 1..Len(out) : j < i /\ out[j] = "cmd-run"
      BY <2>1, <3>1, <3>2 DEF IInv, Unread
    <3> QED BY <1>1, <3>3
  <2>2. CASE i \notin 1..Len(out)
    <3>1. i - Len(out) \in 1..Len(t) /\ t[i - Len(out)] = "prompt"
      BY <1>1, <1>3, <2>2
    <3>2. i - Len(out) = Len(t) /\ child'.at = "asking" /\ typed' = NoPassword
      BY <3>1
    <3>3. i = Len(out')
      BY <1>1, <3>2
    <3> QED BY <3>2, <3>3 DEF Unanswered
  <2> QED BY <2>1, <2>2
<1>4. ASSUME NEW i \in 1..Len(out'), out'[i] = "refused"
      PROVE  did'.ran = <<>> /\ typed' = NoPassword
             /\ child'.at \in {"denied", "asking", "ended"}
  BY <1>1, <1>4
<1> QED BY <1>2, <1>3, <1>4 DEF Unread

\* A step of the tool keeps what does not depend on the queue.
LEMMA ToolKeepsRest ==
  ASSUME IInv, Tool, TypeOK', child'.tool = child.tool,
         did'.prompts = did.prompts, did'.gaveUp = did.gaveUp, AtMostOnce',
         did'.ran # <<>> => child'.at = "ended",
         typed' # NoPassword => typed' = typed /\ child'.at = child.at,
         Unread'
  PROVE  IInv'
<1>1. UNCHANGED <<flags, cache, pc, call>>
  BY DEF Tool
<1>2. pc \in {"reading", "opened", "reaping"} /\ did.ran = <<>>
  BY ToolInCall
<1> QED
  BY <1>1, <1>2
     DEF IInv, Quiet, Listening, PasswordForTheTool, Executions, Asked, AskedOnce,
         GivenUp, StaysWithSu

LEMMA ToolKeeps == IInv /\ Tool => IInv'
<1> SUFFICES ASSUME IInv, Tool PROVE IInv'
  OBVIOUS
<1>1. TypeOK'
  BY ToolTypeOK DEF IInv
<1>2. /\ pc \in {"reading", "opened", "reaping"} /\ pc' = pc
      /\ child.at # "ended" /\ child.tool \in Methods /\ did.ran = <<>>
  BY ToolInCall DEF Tool
<1>3. child \in ChildType /\ did \in HistoryType
  BY DEF IInv, TypeOK
<1>4. CASE Execute
  <2>1. did'.ran = <<child.tool>> /\ did'.prompts = did.prompts /\ did'.gaveUp = did.gaveUp
    BY <1>2, <1>3, <1>4 DEF Execute, HistoryType
  <2>2. child'.at = "ended" /\ child'.tool = child.tool
    BY <1>3, <1>4 DEF Execute, EndsWith, ChildType
  <2>3. typed' = typed /\ typed = NoPassword
    BY <1>4 DEF Execute, ToolIs, IInv, Listening, PasswordForTheTool
  <2>4. Unread'
    <3> SUFFICES ASSUME pc = "reading" PROVE Unread'
      BY <1>2 DEF Unread
    <3>1. child.at = "running"
      BY <1>4 DEF Execute, ToolIs, IInv, Listening, Tools
    <3>2. PICK k \in 1..Len(out) : out[k] = "cmd-run"
      BY <3>1 DEF IInv, Unread
    <3>3. PICK said \in {<<>>, <<"prompt">>} : out' = out \o (said \o <<"done">>)
      BY <1>4, <3>1 DEF Execute, EndsWith, Says, ToolIs, IInv, Listening, Tools
    <3>4. PICK t \in Seq(Items) : /\ out' = out \o t
                                  /\ \A j \in 1..Len(t) : t[j] # "refused"
      <4>1. said \o <<"done">> \in Seq(Items)
        BY Sayings, Saying
      <4>2. \A j \in 1..Len(said \o <<"done">>) : (said \o <<"done">>)[j] # "refused"
        OBVIOUS
      <4> QED BY <3>3, <4>1, <4>2
    <3>5. /\ \A i \in 1..Len(out) : i \in 1..Len(out') /\ out'[i] = out[i]
          /\ \A i \in 1..Len(out') : i \in 1..Len(out) \/
               (i - Len(out) \in 1..Len(t) /\ out'[i] = t[i - Len(out)])
          /\ Len(out) \in Nat /\ Len(out') \in Nat
      BY <3>4, Said DEF IInv
    <3>6. ASSUME NEW i \in 1..Len(out'), out'[i] = "prompt"
          PROVE  \E j \in 1..Len(out') : j < i /\ out'[j] = "cmd-run"
      <4>1. CASE i \in 1..Len(out)
        <5>1. out[i] = "prompt" /\ ~ Unanswered(i)
          BY <3>1, <3>5, <3>6, <4>1 DEF Unanswered
        <5> QED BY <4>1, <5>1, <3>5 DEF IInv, Unread
      <4>2. CASE i \notin 1..Len(out)
        BY <3>2, <3>5, <3>6, <4>2
      <4> QED BY <4>1, <4>2
    <3>7. ASSUME NEW i \in 1..Len(out'), out'[i] = "refused" PROVE FALSE
      BY <3>1, <3>4, <3>5, <3>7 DEF IInv, Unread
    <3> QED BY <2>2, <3>6, <3>7 DEF Unread
  <2>5. AtMostOnce'
    BY <2>1 DEF AtMostOnce
  <2> QED BY <1>1, <2>1, <2>2, <2>3, <2>4, <2>5, ToolKeepsRest
<1>5. typed # NoPassword => child.at = "asking"
  BY DEF IInv, Listening, PasswordForTheTool
<1>6. pc = "reading" /\ (\E i \in 1..Len(out) : out[i] = "refused") =>
        child.at \in {"denied", "asking"} /\ typed = NoPassword
  BY <1>2 DEF IInv, Unread
<1>7. CASE Greet
  <2>1. did' = did /\ typed' = typed /\ out' = out \o <<"text">> /\ child.at = "start"
    BY <1>7 DEF Greet, Says, ToolIs
  <2>2. child'.at = "greeted" /\ child'.tool = child.tool
    BY <1>3, <1>7 DEF Greet, ChildType
  <2>5. PICK t \in Seq(Items) : out' = out \o t /\ Len(t) = 1 /\ t[1] = "text"
    BY <2>1, Sayings
  <2>3. pc = "reading" => Unread'
    BY <1>2, <1>5, <1>6, <2>1, <2>2, <2>5, SayingKeepsUnread
  <2>4. Unread'
    BY <1>2, <2>3 DEF Unread
  <2> QED BY <1>1, <1>2, <1>5, <2>1, <2>2, <2>4, ToolKeepsRest DEF AtMostOnce, IInv, Executions
<1>8. CASE Ask
  <2>1. did' = did /\ typed' = typed /\ out' = out \o <<"prompt">> /\ child.at # "asking"
    BY <1>8 DEF Ask, Says, ToolIs
  <2>2. child'.at = "asking" /\ child'.tool = child.tool
    BY <1>3, <1>8 DEF Ask, ChildType
  <2>5. PICK t \in Seq(Items) : out' = out \o t /\ Len(t) = 1 /\ t[1] = "prompt"
    BY <2>1, Sayings
  <2>3. pc = "reading" => Unread'
    BY <1>2, <1>5, <1>6, <2>1, <2>2, <2>5, SayingKeepsUnread
  <2>4. Unread'
    BY <1>2, <2>3 DEF Unread
  <2> QED BY <1>1, <1>2, <1>5, <2>1, <2>2, <2>4, ToolKeepsRest DEF AtMostOnce, IInv, Executions
<1>9. CASE Trust \/ Accept
  <2>1. did' = did /\ typed' = NoPassword /\ out' = out
        /\ (child.at # "asking" \/ typed # NoPassword)
        /\ (child.at \in {"start", "greeted"} \/ typed # NoPassword)
    BY <1>5, <1>9 DEF Trust, Accept, Answered, ToolIs
  <2>2. child'.at = "authorised" /\ child'.tool = child.tool
    BY <1>3, <1>9 DEF Trust, Accept, ChildType
  <2>3. Unread'
    BY <1>2, <1>6, <2>1, <2>2 DEF IInv, Unread, Unanswered
  <2> QED BY <1>1, <1>2, <2>1, <2>2, <2>3, ToolKeepsRest DEF AtMostOnce, IInv, Executions
<1>10. CASE Announce
  <2>1. did' = did /\ typed' = typed /\ out' = out \o <<"cmd-run">> /\ child.at = "authorised"
    BY <1>10 DEF Announce, Says, ToolIs
  <2>2. child'.at = "running" /\ child'.tool = child.tool
    BY <1>3, <1>10 DEF Announce, ChildType
  <2>5. PICK t \in Seq(Items) : out' = out \o t /\ Len(t) = 1 /\ t[1] = "cmd-run"
    BY <2>1, Sayings
  <2>6. (\E j \in 1..Len(t) : t[j] = "cmd-run") /\ \A j \in 1..Len(t) : t[j] = "cmd-run"
    <3>1. Len(t) = 1 /\ 1 \in 1..Len(t) /\ t[1] = "cmd-run"
      BY <2>5
    <3> QED BY <3>1
  <2>3. pc = "reading" => Unread'
    BY <1>2, <1>5, <1>6, <2>1, <2>2, <2>5, <2>6, SayingKeepsUnread
  <2>4. Unread'
    BY <1>2, <2>3 DEF Unread
  <2> QED BY <1>1, <1>2, <1>5, <2>1, <2>2, <2>4, ToolKeepsRest DEF AtMostOnce, IInv, Executions
<1>11. CASE NotASudoer \/ Deny
  <2>1. did' = did /\ typed # NoPassword /\ typed' = NoPassword
    BY <1>11 DEF NotASudoer, Deny, Answered
  <2>2. child'.at \in {"denied", "ended"} /\ child'.tool = child.tool
    BY <1>3, <1>11 DEF NotASudoer, Deny, EndsWith, ChildType
  <2>3. PICK t \in {<<"text">> \o <<"done">>, <<"refused">>, <<"text", "refused">> \o <<"done">>} :
           out' = out \o t
    BY <1>11 DEF NotASudoer, Deny, EndsWith, Says
  <2>4. t \in Seq(Items) /\ \A j \in 1..Len(t) : t[j] # "prompt"
    <3>1. t \in Seq(Items)
      BY Sayings, Saying
    <3>2. CASE t = <<"text">> \o <<"done">>
      BY <3>1, <3>2
    <3>3. CASE t = <<"refused">>
      BY <3>1, <3>3
    <3>4. CASE t = <<"text", "refused">> \o <<"done">>
      BY <3>1, <3>4
    <3> QED BY <3>1, <3>2, <3>3, <3>4
  <2>5. pc = "reading" => Unread'
    BY <1>2, <1>6, <2>1, <2>2, <2>3, <2>4, SayingKeepsUnread
  <2>6. Unread'
    BY <1>2, <2>5 DEF Unread
  <2> QED BY <1>1, <1>2, <2>1, <2>2, <2>6, ToolKeepsRest DEF AtMostOnce, IInv, Executions
<1> QED
  BY <1>4, <1>7, <1>8, <1>9, <1>10, <1>11 DEF Tool

LEMMA SignalKeeps == IInv /\ Signal => IInv'
  BY DEF IInv, TypeOK, Quiet, Listening, PasswordForTheTool, Executions, AtMostOnce,
         Unread, Unanswered, Asked, AskedOnce, GivenUp, StaysWithSu, Signal

THEOREM Inductive == Spec => []IInv
<1>1. IInv /\ [Next]_vars => IInv'
  <2>1. IInv /\ UNCHANGED vars => IInv'
    BY DEF IInv, TypeOK, Quiet, Listening, PasswordForTheTool, Executions, AtMostOnce,
           Unread, Unanswered, Asked, AskedOnce, GivenUp, StaysWithSu, vars
  <2> QED BY <2>1, ProgramKeeps, ToolKeeps, SignalKeeps DEF Next
<1> QED BY <1>1, InitIInv, PTL DEF Spec

\* RunCommandOpen's second try never executes a command a second time.
THEOREM OnceOnly == Spec => []AtMostOnce
<1>1. IInv => AtMostOnce
  BY DEF IInv, Executions
<1> QED BY <1>1, Inductive, PTL

\* RunCommandPasswordTransact writes a password only to a tool that asks for one.
THEOREM PasswordsGoToTheTool == Spec => []PasswordForTheTool
<1>1. IInv => PasswordForTheTool
  BY DEF IInv, Listening
<1> QED BY <1>1, Inductive, PTL

\* RunCommandPasswordTransact asks the user at most once in the program's life.
THEOREM AskedOnlyOnce == Spec => []AskedOnce
<1>1. IInv => AskedOnce
  BY DEF IInv, Asked
<1> QED BY <1>1, Inductive, PTL

\* Once RunCommandOpen has given sudo up, no command asked for with CMD_ASROOT
\* is tried under it again.
THEOREM SudoStaysGivenUp == Spec => []StaysWithSu
<1>1. IInv => StaysWithSu
  BY DEF IInv, GivenUp
<1> QED BY <1>1, Inductive, PTL

-------------------------------------------------------------------------------
(* Whom the program waits for.  RunCommandReadLoop leaves the tool only at     *)
(* 'vpn-mgr-cmd-run', at the closing echo or at the end of the stream, and     *)
(* each of these is there only once the tool will not ask again (Heard).  So   *)
(* whoever reads on after the loop, or waits in RunCommandCleanUp, does so for *)
(* a command that runs by itself (Settled) -- but for FLAG_EXIT, at which the  *)
(* loop ends wherever the tool stands.                                         *)

\* The tool needs nobody any more: the command runs, or has run.
Past == child.at \in {"running", "ended"} \/ ToolIs({"plain"}, {"start"})

Heard ==
    \A i \in 1..Len(out) :
        out[i] \in {"cmd-run", "done"} => child.at \in {"running", "ended"}

Settled == pc \in {"opened", "reaping"} => Past \/ "EXIT" \in flags

\* While the loop reads and the tool waits for a password, the prompt is the
\* last thing on the terminal: the loop has not come to it.
PromptLast ==
    pc = "reading" /\ child.at = "asking" /\ typed = NoPassword =>
        out # <<>> /\ out[Len(out)] = "prompt"

\* Reading an item leaves Heard to the items behind it.
LEMMA TailHeard ==
  ASSUME TypeOK, Heard, out # <<>>, out' = Tail(out), UNCHANGED child
  PROVE  Heard'
<1>1. out \in Seq(Items)
  BY DEF TypeOK
<1>2. \A i \in 1..Len(out') : i + 1 \in 1..Len(out) /\ out'[i] = out[i + 1]
  BY <1>1
<1> QED BY <1>2 DEF Heard

\* With nothing to read there is nothing to have heard.
LEMMA NothingHeard == ASSUME out' = <<>> PROVE Heard'
<1>1. 1..Len(out') = {}
  OBVIOUS
<1> QED BY <1>1 DEF Heard

LEMMA ProgramSettles == IInv /\ Heard /\ Settled /\ Program => Heard' /\ Settled'
<1> SUFFICES ASSUME IInv, Heard, Settled, Program PROVE Heard' /\ Settled'
  OBVIOUS
<1>0. TypeOK /\ out \in Seq(Items)
  BY DEF IInv, TypeOK
<1>1. CASE Call \/ OpenFails
  <2>1. out' = <<>> /\ pc' \in {"try", "exited", "idle"}
    BY <1>1, NoStreamType DEF Call, OpenFails, IInv, Quiet
  <2> QED BY <2>1, NothingHeard DEF Settled
<1>2. CASE OpenTry
  <2>1. out' = <<>>
    BY <1>2 DEF OpenTry, IInv, Quiet
  <2>2. pc' = "opened" => child' = Child("plain")
    BY <1>2 DEF OpenTry
  <2>3. pc' \in {"opened", "reading"}
    BY <1>2 DEF OpenTry
  <2>4. pc' = "opened" => Past'
    BY <2>2 DEF Past, ToolIs, Child
  <2> QED BY <2>1, <2>3, <2>4, NothingHeard DEF Settled
<1>3. CASE Abort \/ ReadRefusal \/ HandOver \/ Reap
  <2>1. out' = <<>> /\ pc' \in {"try", "exited", "idle"}
    BY <1>3, NoStreamType DEF Abort, ReadRefusal, HandOver, Reap, NoTool, IInv
  <2> QED BY <2>1, NothingHeard DEF Settled
<1>4. CASE ReadPrompt \/ ReadOther
  <2>1. Heard'
    BY <1>0, <1>4, TailHeard DEF ReadPrompt, ReadOther, AtItem
  <2>2. pc' = "reading" \/ "EXIT" \in flags'
    BY <1>4 DEF ReadPrompt, ReadOther, Continue
  <2> QED BY <2>1, <2>2 DEF Settled
<1>5. CASE ReadStarted
  <2>1. out # <<>> /\ out[1] = "cmd-run" /\ UNCHANGED child
    BY <1>5 DEF ReadStarted, AtItem
  <2>2. child.at \in {"running", "ended"}
    BY <1>0, <2>1 DEF Heard
  <2>3. Heard'
    BY <1>0, <1>5, TailHeard DEF ReadStarted, AtItem
  <2> QED BY <2>1, <2>2, <2>3 DEF Settled, Past
<1>6. CASE ReadDone
  <2>1. CASE out = <<>>
    BY <1>6, <2>1, NothingHeard DEF ReadDone, AtItem, Settled, Past
  <2>2. CASE out # <<>>
    <3>1. out[1] = "done" /\ out' = Tail(out) /\ UNCHANGED child
      BY <1>6, <2>2 DEF ReadDone, AtItem
    <3>2. child.at \in {"running", "ended"}
      BY <1>0, <2>2, <3>1 DEF Heard
    <3>3. Heard'
      BY <1>0, <2>2, <3>1, TailHeard
    <3> QED BY <3>1, <3>2, <3>3 DEF Settled, Past
  <2> QED BY <2>1, <2>2
<1>7. CASE ReadTimesOut
  BY <1>7 DEF ReadTimesOut, Heard, Settled
<1>8. CASE Drain
  <2>1. UNCHANGED <<child, flags>> /\ pc = "opened"
    BY <1>8 DEF Drain
  <2>2. CASE out = <<>>
    BY <1>8, <2>1, <2>2, NothingHeard DEF Drain, Settled, Past, ToolIs
  <2>3. CASE out # <<>>
    <3>1. Heard'
      BY <1>0, <1>8, <2>1, <2>3, TailHeard DEF Drain
    <3> QED BY <2>1, <3>1 DEF Settled, Past, ToolIs
  <2> QED BY <2>2, <2>3
<1> QED
  BY <1>1, <1>2, <1>3, <1>4, <1>5, <1>6, <1>7, <1>8 DEF Program

\* The tool says 'vpn-mgr-cmd-run' when it runs the command and the closing echo
\* when it ends; from then on it only goes forward.
LEMMA ToolSettles == IInv /\ Heard /\ Settled /\ Tool => Heard' /\ Settled'
<1> SUFFICES ASSUME IInv, Heard, Settled, Tool PROVE Heard' /\ Settled'
  OBVIOUS
<1>1. UNCHANGED <<flags, pc>> /\ child \in ChildType /\ TypeOK
  BY DEF Tool, IInv, TypeOK
<1>2. child.at # "ended" /\ child.tool \in Methods
  BY ToolInCall
<1>a. ASSUME NEW t \in Seq(Items), out' = out \o t,
             child.at = "running" => child'.at \in {"running", "ended"},
             \A j \in 1..Len(t) : t[j] \in {"cmd-run", "done"} =>
                child'.at \in {"running", "ended"}
      PROVE  Heard'
  <2>1. \A i \in 1..Len(out') :
           \/ i \in 1..Len(out) /\ out'[i] = out[i]
           \/ i - Len(out) \in 1..Len(t) /\ out'[i] = t[i - Len(out)]
    BY <1>1, <1>a, Said
  <2> QED BY <1>2, <1>a, <2>1 DEF Heard
<1>3. CASE Greet \/ Ask \/ Trust \/ Accept
  <2>1. /\ child.at \notin {"running", "ended"}
        /\ child.tool \in Tools
    BY <1>3 DEF Greet, Ask, Trust, Accept, ToolIs, Answered, Tools
  <2>2. out' = out \/ out' = out \o <<"text">> \/ out' = out \o <<"prompt">>
    BY <1>3 DEF Greet, Ask, Trust, Accept, Says
  <2>3. Heard'
    <3>1. CASE out' = out
      BY <2>1, <3>1 DEF Heard
    <3>2. CASE out' = out \o <<"text">> \/ out' = out \o <<"prompt">>
      <4>1. PICK t \in Seq(Items) : out' = out \o t /\ Len(t) = 1 /\ t[1] \in {"text", "prompt"}
        BY <3>2, Sayings
      <4>2. \A j \in 1..Len(t) : t[j] \notin {"cmd-run", "done"}
        BY <4>1
      <4> QED BY <2>1, <4>1, <4>2, <1>a
    <3> QED BY <2>2, <3>1, <3>2
  <2>4. ~ Past
    BY <2>1 DEF Past, ToolIs, Tools
  <2> QED BY <1>1, <2>3, <2>4 DEF Settled
<1>4. CASE NotASudoer \/ Deny
  <2>1. child.at = "asking" /\ child.tool \in Tools
    BY <1>4 DEF NotASudoer, Deny, Answered, ToolIs, Tools
  <2>2. \/ child'.at = "denied" /\ out' = out \o <<"refused">>
        \/ child'.at = "ended"
           /\ \E t \in {<<"text">>, <<"text", "refused">>} : out' = out \o (t \o <<"done">>)
    BY <1>1, <1>4 DEF NotASudoer, Deny, EndsWith, Says, ChildType
  <2>3. Heard'
    <3>1. CASE child'.at = "denied" /\ out' = out \o <<"refused">>
      <4>1. PICK t \in Seq(Items) : out' = out \o t /\ Len(t) = 1 /\ t[1] = "refused"
        BY <3>1, Sayings
      <4>2. \A j \in 1..Len(t) : t[j] \notin {"cmd-run", "done"}
        BY <4>1
      <4> QED BY <2>1, <4>1, <4>2, <1>a
    <3>2. CASE child'.at = "ended"
               /\ \E t \in {<<"text">>, <<"text", "refused">>} : out' = out \o (t \o <<"done">>)
      <4>1. PICK t \in Seq(Items) : out' = out \o t
        BY <3>2, Sayings, Saying
      <4> QED BY <3>2, <4>1, <1>a
    <3> QED BY <2>2, <3>1, <3>2
  <2>4. ~ Past
    BY <2>1 DEF Past, ToolIs, Tools
  <2> QED BY <1>1, <2>3, <2>4 DEF Settled
<1>5. CASE Announce
  <2>1. child'.at = "running" /\ out' = out \o <<"cmd-run">>
    BY <1>1, <1>5 DEF Announce, Says, ChildType
  <2>2. Heard'
    BY <2>1, <1>a, Sayings
  <2> QED BY <2>1, <2>2 DEF Settled, Past
<1>6. CASE Execute
  <2>1. child'.at = "ended"
    BY <1>1, <1>6 DEF Execute, EndsWith, ChildType
  <2>2. PICK said \in {<<>>, <<"prompt">>} :
          out' = out \o said \/ out' = out \o (said \o <<"done">>)
    BY <1>6 DEF Execute, EndsWith, Says
  <2>3. PICK t \in Seq(Items) : out' = out \o t
    BY <2>2, Sayings, Saying
  <2>4. Heard'
    BY <2>1, <2>3, <1>a
  <2> QED BY <2>1, <2>4 DEF Settled, Past
<1> QED
  BY <1>3, <1>4, <1>5, <1>6 DEF Tool

\* No step of the program takes the prompt away but the one that answers it.
LEMMA ProgramPrompts == IInv /\ PromptLast /\ Program => PromptLast'
<1> SUFFICES ASSUME IInv, PromptLast, Program,
                    pc' = "reading", child'.at = "asking", typed' = NoPassword
             PROVE  out' # <<>> /\ out'[Len(out')] = "prompt"
  BY DEF PromptLast
<1>0. TypeOK /\ out \in Seq(Items)
  BY DEF IInv, TypeOK
<1>1. CASE ReadPrompt
  <2>1. typed' \in Passwords
    BY <1>0, <1>1 DEF ReadPrompt, Transact, TypeOK
  <2> QED BY <2>1, RunCommandAssumption DEF RunCommandAssumption
<1>2. CASE ReadOther
  <2>1. pc = "reading" /\ out # <<>> /\ out[1] = "text" /\ out' = Tail(out)
    BY <1>2 DEF ReadOther, AtItem
  <2>2. out[Len(out)] = "prompt"
    BY <1>2, <2>1 DEF ReadOther, PromptLast
  <2>3. Len(out) \in Nat /\ Len(out) > 1
    BY <1>0, <2>1, <2>2
  <2>4. Len(out') = Len(out) - 1 /\ out'[Len(out')] = out[Len(out)]
    BY <1>0, <2>1, <2>3
  <2>5. out' # <<>>
    BY <2>3, <2>4
  <2> QED BY <2>2, <2>4, <2>5
<1>3. CASE OpenTry
  <2>1. child'.at = "start"
    BY <1>3 DEF OpenTry, Child
  <2> QED BY <2>1
<1>4. CASE Call \/ OpenFails \/ Abort \/ ReadRefusal \/ ReadStarted \/ ReadDone
           \/ ReadTimesOut \/ HandOver \/ Drain \/ Reap
  <2>1. pc' # "reading"
    BY <1>4 DEF Call, OpenFails, NoStream, Abort, ReadRefusal, ReadStarted, ReadDone,
                ReadTimesOut, HandOver, Drain, Reap
  <2> QED BY <2>1
<1> QED
  BY <1>1, <1>2, <1>3, <1>4 DEF Program

\* The tool prints its prompt and waits; it takes no other step to 'asking', and
\* none there without an answer.
LEMMA ToolPrompts == IInv /\ PromptLast /\ Tool => PromptLast'
<1> SUFFICES ASSUME IInv, PromptLast, Tool, child'.at = "asking"
             PROVE  out' # <<>> /\ out'[Len(out')] = "prompt"
  BY DEF PromptLast
<1>0. child \in ChildType /\ out \in Seq(Items)
  BY DEF IInv, TypeOK
<1>1. Ask
  BY <1>0 DEF Tool, Greet, Trust, Accept, NotASudoer, Deny, EndsWith, Announce, Execute,
              ChildType
<1>2. out' = out \o <<"prompt">>
  BY <1>1 DEF Ask, Says
<1>3. Len(out') = Len(out) + 1 /\ out'[Len(out) + 1] = "prompt" /\ Len(out) \in Nat
  BY <1>0, <1>2
<1>4. out' # <<>>
  BY <1>3
<1> QED BY <1>3, <1>4

\* No tool is ever left waiting for a password, neither by the loop that should
\* read its prompt nor by the program that reads on or waits for its end, unless
\* SIGINT made the loop stop listening.
THEOREM NoDeadlyWait == Spec => []NoDeadWait
<1>1. Init => Heard /\ Settled /\ PromptLast
  <2>1. ASSUME Init PROVE 1..Len(out) = {} /\ pc = "idle"
    BY <2>1 DEF Init
  <2> QED BY <2>1 DEF Heard, Settled, PromptLast
<1>2. IInv /\ Heard /\ Settled /\ PromptLast /\ [Next]_vars
        => Heard' /\ Settled' /\ PromptLast'
  <2>1. CASE Signal \/ UNCHANGED vars
    BY <2>1 DEF Signal, vars, Heard, Settled, PromptLast, Past, ToolIs
  <2> QED
    BY <2>1, ProgramSettles, ToolSettles, ProgramPrompts, ToolPrompts DEF Next
<1>3. IInv /\ Settled /\ PromptLast => NoDeadWait
  <2> SUFFICES ASSUME IInv, Settled, PromptLast, child.at = "asking", typed = NoPassword
               PROVE  pc = "reading" \/ "EXIT" \in flags
    BY DEF NoDeadWait, PromptLast
  <2>1. ~ Past
    BY DEF Past, ToolIs
  <2>2. pc \notin {"idle", "try", "exited"}
    BY DEF IInv, Quiet, NoChild
  <2> QED BY <2>1, <2>2 DEF Settled, IInv, TypeOK
<1> QED BY <1>1, <1>2, <1>3, Inductive, PTL DEF Spec

-------------------------------------------------------------------------------
(* RunCommand implements PrivilegedCall.                                       *)

\* What each step is to the caller.  An execution follows the request and comes
\* before the answer; a call whose command was executed never ends the program.
LEMMA StepKeepsPromise ==
  IInv /\ IInv' /\ [Next]_vars => [Promise!Next]_(Promise!vars)
<1> SUFFICES ASSUME IInv, IInv', [Next]_vars
             PROVE  Promise!Next \/ (Phase' = Phase /\ Len(did'.ran) = Len(did.ran))
  BY DEF Promise!vars
<1> USE DEF Phase
<1>0. did \in HistoryType
  BY DEF IInv, TypeOK
<1>1. CASE Call
  <2>1. pc = "idle" /\ pc' = "try" /\ did'.ran = <<>>
    BY <1>0, <1>1 DEF Call, HistoryType
  <2>2. Promise!Request
    BY <2>1 DEF Promise!Request
  <2> QED BY <2>2 DEF Promise!Next
<1>2. CASE Tool
  <2>1. pc \in {"reading", "opened", "reaping"} /\ pc' = pc /\ did.ran = <<>>
    BY <1>2, ToolInCall DEF Tool
  <2>2. CASE did' = did
    BY <2>1, <2>2
  <2>3. CASE did' # did
    <3>1. Execute
      BY <1>2, <2>3 DEF Tool, Greet, Ask, Trust, Accept, NotASudoer, Deny, Announce
    <3>2. did'.ran = <<child.tool>>
      BY <1>0, <2>1, <3>1 DEF Execute, HistoryType
    <3>3. Promise!Execute
      BY <2>1, <3>2 DEF Promise!Execute
    <3> QED BY <3>3 DEF Promise!Next
  <2> QED BY <2>2, <2>3
<1>3. ASSUME did'.ran = did.ran, pc \notin {"idle", "exited"}, did.ran = <<>> \/ pc' # "exited"
      PROVE  Promise!Next \/ (Phase' = Phase /\ Len(did'.ran) = Len(did.ran))
  <2>1. CASE pc' = "idle"
    <3>1. Promise!Answer
      BY <1>3, <2>1 DEF Promise!Answer
    <3> QED BY <3>1 DEF Promise!Next
  <2>2. CASE pc' = "exited"
    <3>1. Promise!Quit
      BY <1>3, <2>2 DEF Promise!Quit
    <3> QED BY <3>1 DEF Promise!Next
  <2>3. CASE pc' \notin {"idle", "exited"}
    BY <1>3, <2>3
  <2> QED BY <2>1, <2>2, <2>3
<1>4. CASE OpenTry \/ ReadPrompt \/ ReadStarted \/ ReadDone \/ ReadOther \/ ReadTimesOut
           \/ HandOver \/ Drain \/ Reap
  <2>1. pc \notin {"idle", "exited"} /\ pc' # "exited"
    BY <1>4 DEF OpenTry, ReadPrompt, ReadStarted, ReadDone, ReadOther, ReadTimesOut,
                HandOver, Drain, Reap, AtItem, Continue
  <2>2. did'.ran = did.ran
    BY <1>0, <1>4 DEF OpenTry, ReadPrompt, Transact, ReadStarted, ReadDone, ReadOther,
                      ReadTimesOut, HandOver, Drain, Reap, HistoryType
  <2> QED BY <1>3, <2>1, <2>2
<1>5. CASE OpenFails \/ ReadRefusal \/ Abort
  <2>1. pc \in {"try", "reading"}
    BY <1>5 DEF OpenFails, ReadRefusal, Abort, AtItem
  <2>2. did'.ran = did.ran
    <3>1. CASE OpenFails \/ ReadRefusal
      BY <3>1, NoStreamType DEF OpenFails, ReadRefusal, IInv
    <3>2. CASE Abort
      BY <1>0, <3>2 DEF Abort, HistoryType
    <3> QED BY <1>5, <3>1, <3>2
  <2>3. did.ran = <<>> \/ pc' # "exited"
    BY <2>2 DEF IInv, Executions
  <2> QED BY <1>3, <2>1, <2>2, <2>3
<1>6. CASE Signal \/ UNCHANGED vars
  <2>1. pc' = pc /\ did' = did
    BY <1>6 DEF Signal, vars
  <2> QED BY <2>1
<1> QED
  BY <1>1, <1>2, <1>4, <1>5, <1>6 DEF Next, Program

\* RunCommand gives its callers what PrivilegedCall promises.
THEOREM Implements == Spec => KeepsPromise
<1>1. Init => Promise!Init
  BY DEF Init, Promise!Init, Phase
<1>2. IInv /\ IInv' /\ [Next]_vars => [Promise!Next]_(Promise!vars)
  BY StepKeepsPromise
<1> QED BY <1>1, <1>2, Inductive, PTL DEF Spec, KeepsPromise, Promise!Spec
==============================================================================
