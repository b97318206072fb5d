--------------------------- MODULE SSHCommandProofs ---------------------------
(* Proofs about SSHCommand, for any passwords, tools, requests and bounds.     *)
EXTENDS SSHCommand, SequenceTheorems, TLAPS

-------------------------------------------------------------------------------
(* The inductive invariant.                                                    *)

Without(s, items) == \A i \in 1..Len(s) : s[i] \notin items

\* What is printed: nothing but a greeting, or x behind it.
Silent(s) == Len(s) = 0 \/ (Len(s) = 1 /\ s[1] = "text")

Leads(s, x) ==
    \/ Len(s) > 0 /\ s[1] = x
    \/ Len(s) > 1 /\ s[1] = "text" /\ s[2] = x

Ends(s, x) ==
    \/ Len(s) = 1 /\ s[1] = x
    \/ Len(s) = 2 /\ s[1] = "text" /\ s[2] = x

\* The newest key is the last line there is, and its answer the last item.
Synchronising ==
    pc = "sync" /\ up =>
        /\ \A i \in 1..Len(sent) : sent[i] = "key" => i = Len(sent)
        /\ ~Without(out, {"key"}) => far = Shell /\ Len(sent) = 0

Writing ==
    pc = "write" /\ Undisturbed =>
        far = Shell /\ Len(sent) = 0 /\ Len(out) = 0 /\ did.ran = <<>>

\* Where a tool stands, by what it has printed that the program has not read.
AtWork ==
    \/ Len(sent) = 0 /\ far.at = "start" /\ Len(out) = 0
    \/ Len(sent) = 0 /\ far.at \in {"greeted", "authorised"} /\ Silent(out)
    \/ Len(sent) = 0 /\ far.at = "asking" /\ Ends(out, "prompt")
    \/ Len(sent) = 0 /\ far.at \in {"asking", "denied"} /\ Leads(out, "refused")
    \/ Len(sent) = 0 /\ far.at = "running" /\ Leads(out, "cmd-run")
    \/ Len(sent) = 1 /\ sent[1] \in Passwords /\ far.at = "asking" /\ Len(out) = 0

Launching ==
    /\ far = Shell /\ Len(out) = 0
    /\ Len(sent) = 0 \/ (Len(sent) = 1 /\ sent[1] \in Tools)

Reading ==
    pc = "reading" /\ Undisturbed =>
        \/ did.ran = <<>> /\ Launching
        \/ did.ran = <<>> /\ far.tool \in Tools /\ AtWork
        \/ did.ran = <<>> /\ far = Shell /\ Len(sent) = 0 /\ (Leads(out, "done") \/ Leads(out, "refused"))
        \/ Len(did.ran) = 1 /\ far.at \in {"ready", "linked"} /\ Len(sent) = 0 /\ Leads(out, "cmd-run")

\* Nothing will be executed any more.
Dead ==
    /\ did.ran = <<>> /\ Without(sent, Commands)
    /\ far.at \in {"ready", "asking", "denied"}

\* What is executed has been, or is all there is to be.
OnlyOne ==
    \/ /\ Without(sent, Commands)
       /\ did.ran = <<>> \/ (Len(did.ran) = 1 /\ far.at \in {"ready", "linked"})
    \/ /\ far = Shell /\ did.ran = <<>> /\ Len(sent) > 0 /\ sent[1] \in Commands
       /\ \A i \in 2..Len(sent) : sent[i] \notin Commands

Ended ==
    pc \notin {"write", "reading"} /\ Undisturbed =>
        /\ Without(sent, Passwords)
        /\ IF result = "OKAY" THEN OnlyOne ELSE Dead

\* A second try follows a failure.
Failing == pc = "sync" /\ next = "write" => result # "OKAY"

IInv ==
    /\ TypeOK /\ Synchronising /\ Writing /\ Reading /\ Ended /\ Failing /\ NothingAstray

-------------------------------------------------------------------------------
(* Sequences.                                                                  *)

LEMMA EmptyIs == ASSUME NEW S, NEW s \in Seq(S) PROVE Len(s) \in Nat /\ (s = <<>> <=> Len(s) = 0)
BY EmptySeq, LenProperties

\* The first element, and what is behind it.
LEMMA HeadIs ==
  ASSUME NEW S, NEW s \in Seq(S), s # <<>>
  PROVE  /\ Head(s) = s[1] /\ Len(s) > 0 /\ s[1] \in S
         /\ Tail(s) \in Seq(S) /\ Len(Tail(s)) = Len(s) - 1
         /\ \A i \in 1..Len(Tail(s)) : Tail(s)[i] = s[i + 1]
<1>1. Head(s) = s[1]
  OBVIOUS
<1>2. Len(s) \in Nat /\ Len(s) > 0
  BY EmptyIs
<1> QED BY <1>1, <1>2, HeadTailProperties, LenProperties

LEMMA TailWithout ==
  ASSUME NEW S, NEW s \in Seq(S), s # <<>>, NEW items, Without(s, items)
  PROVE  Without(Tail(s), items)
BY HeadIs, LenProperties DEF Without

LEMMA AppendWithout ==
  ASSUME NEW S, NEW s \in Seq(S), NEW x \in S, NEW items, Without(s, items), x \notin items
  PROVE  Without(Append(s, x), items)
<1>1. /\ Len(s) \in Nat /\ Len(Append(s, x)) = Len(s) + 1
      /\ \A i \in 1..Len(s) : Append(s, x)[i] = s[i]
      /\ Append(s, x)[Len(s) + 1] = x
  BY AppendProperties, LenProperties
<1> QED BY <1>1 DEF Without

LEMMA SameLength == ASSUME NEW m \in Nat, NEW n \in Nat, 1..m = 1..n PROVE m = n
<1>1. ASSUME m < n PROVE FALSE
  <2>1. n \in 1..n /\ n \notin 1..m
    BY <1>1
  <2> QED BY <2>1
<1>2. ASSUME n < m PROVE FALSE
  <2>1. m \in 1..m /\ m \notin 1..n
    BY <1>2
  <2> QED BY <2>1
<1> QED BY <1>1, <1>2

LEMMA AgedIs ==
  ASSUME NEW S, NEW s \in Seq(S), "old" \in S
  PROVE  /\ Aged(s) \in Seq(S) /\ Len(Aged(s)) = Len(s)
         /\ \A i \in 1..Len(s) : Aged(s)[i] = IF s[i] = "key" THEN "old" ELSE s[i]
<1>1. Len(s) \in Nat /\ DOMAIN s = 1..Len(s) /\ \A i \in 1..Len(s) : s[i] \in S
  BY LenProperties
<1>2. Aged(s) = [i \in 1..Len(s) |-> IF s[i] = "key" THEN "old" ELSE s[i]]
  BY <1>1 DEF Aged
<1>3. Aged(s) \in [1..Len(s) -> S]
  BY <1>1, <1>2
<1>4. Aged(s) \in Seq(S)
  BY <1>1, <1>3, SeqDef
<1>5. DOMAIN Aged(s) = 1..Len(Aged(s)) /\ Len(Aged(s)) \in Nat /\ DOMAIN Aged(s) = 1..Len(s)
  BY <1>2, <1>4, LenProperties
<1>6. Len(Aged(s)) = Len(s)
  BY <1>1, <1>5, SameLength
<1> QED BY <1>2, <1>4, <1>6

\* What is printed behind it leaves the beginning as it is.
LEMMA ConcatLeads ==
  ASSUME NEW S, NEW s \in Seq(S), NEW t \in Seq(S), NEW x
  PROVE  /\ Leads(s, x) => Leads(s \o t, x)
         /\ Silent(s) /\ Len(t) > 0 /\ t[1] = x => Leads(s \o t, x)
         /\ Silent(s) /\ Len(t) = 1 /\ t[1] = x => Ends(s \o t, x)
         /\ Ends(s, x) => Leads(s, x)
<1>1. /\ Len(s) \in Nat /\ Len(t) \in Nat /\ Len(s \o t) = Len(s) + Len(t)
      /\ \A i \in 1..(Len(s) + Len(t)) :
            (s \o t)[i] = IF i <= Len(s) THEN s[i] ELSE t[i - Len(s)]
  BY ConcatProperties, LenProperties
<1> DEFINE u == s \o t
<1> HIDE DEF u
<1>2. /\ Len(u) = Len(s) + Len(t)
      /\ \A i \in 1..(Len(s) + Len(t)) : u[i] = IF i <= Len(s) THEN s[i] ELSE t[i - Len(s)]
  BY <1>1 DEF u
<1>3. Leads(s, x) => Leads(u, x)
  BY <1>1, <1>2 DEF Leads
<1>4. Silent(s) /\ Len(t) > 0 /\ t[1] = x => Leads(u, x)
  BY <1>1, <1>2 DEF Leads, Silent
<1>5. Silent(s) /\ Len(t) = 1 /\ t[1] = x => Ends(u, x)
  BY <1>1, <1>2 DEF Ends, Silent
<1> QED BY <1>3, <1>4, <1>5 DEF u, Ends, Leads

LEMMA TailLeads ==
  ASSUME NEW S, NEW s \in Seq(S), NEW x, s # <<>>, x # "text"
  PROVE  /\ Leads(s, x) => s[1] = x \/ (s[1] = "text" /\ Leads(Tail(s), x))
         /\ Ends(s, x) => (s[1] = x /\ Len(Tail(s)) = 0) \/ (s[1] = "text" /\ Ends(Tail(s), x))
         /\ Silent(s) => s[1] = "text" /\ Len(Tail(s)) = 0
<1>1. /\ Len(s) \in Nat /\ Len(s) > 0 /\ Len(Tail(s)) = Len(s) - 1
      /\ \A i \in 1..Len(Tail(s)) : Tail(s)[i] = s[i + 1]
  BY HeadIs, LenProperties
<1> DEFINE u == Tail(s)
<1> HIDE DEF u
<1>2. /\ Len(u) = Len(s) - 1
      /\ \A i \in 1..Len(u) : u[i] = s[i + 1]
  BY <1>1 DEF u
<1>3. Leads(s, x) => s[1] = x \/ (s[1] = "text" /\ Leads(u, x))
  BY <1>1, <1>2 DEF Leads
<1>4. Ends(s, x) => (s[1] = x /\ Len(u) = 0) \/ (s[1] = "text" /\ Ends(u, x))
  BY <1>1, <1>2 DEF Ends
<1>5. Silent(s) => s[1] = "text" /\ Len(u) = 0
  BY <1>1, <1>2 DEF Silent
<1> QED BY <1>3, <1>4, <1>5 DEF u

-------------------------------------------------------------------------------
(* Types.                                                                      *)

LEMMA LineFacts ==
  /\ Tools = {"sudo", "su"} /\ Commands = {"sudo", "su", "plain"} /\ Keys = {"key", "old"}
  /\ Commands \subseteq Lines /\ Keys \subseteq Lines /\ Passwords \subseteq Lines
  /\ NoPassword \in Lines /\ NoPassword \notin Commands /\ NoPassword \notin Keys
  /\ Passwords \cap Commands = {} /\ Passwords \cap Keys = {} /\ NoPassword \notin Passwords
  /\ \A tool \in Tools : Opens[tool] \subseteq Passwords
BY SSHCommandAssumption DEF Tools, Commands, Keys, Lines, NoPassword

LEMMA MethodIs ==
  Method = IF "SUDO" \in call.flags THEN "sudo" ELSE IF "SU" \in call.flags THEN "su" ELSE "plain"
BY Zenon DEF Method

LEMMA SendKeyIs ==
  ASSUME TypeOK, SendKey
  PROVE  /\ sent' \in Seq(Lines) /\ out' \in Seq(Items) /\ Len(out') = Len(out)
         /\ Without(out', {"key"})
         /\ up => \A i \in 1..Len(sent') : sent'[i] = "key" => i = Len(sent')
         /\ \A items \in SUBSET (Commands \cup Passwords) :
               Without(sent, items) => Without(sent', items)
         /\ Len(sent) > 0 /\ sent[1] \in Commands => Len(sent') > 0 /\ sent'[1] = sent[1]
         /\ (\A i \in 2..Len(sent) : sent[i] \notin Commands)
               => \A i \in 2..Len(sent') : sent'[i] \notin Commands \/ Len(sent) = 0
<1>1. sent \in Seq(Lines) /\ out \in Seq(Items) /\ "old" \in Items /\ "old" \in Lines /\ "key" \in Lines
  BY LineFacts DEF TypeOK, Items, Keys
<1>2. out' = Aged(out) /\ sent' = IF up THEN Append(Aged(sent), "key") ELSE sent
  BY DEF SendKey
<1>3. /\ out' \in Seq(Items) /\ Len(out') = Len(out) /\ Len(out) \in Nat
      /\ Without(out', {"key"})
  BY <1>1, <1>2, AgedIs, LenProperties DEF Without
<1>4. CASE ~up
  BY <1>1, <1>2, <1>3, <1>4
<1>5. CASE up
  <2> DEFINE a == Aged(sent)
             b == Append(a, "key")
  <2>1. /\ a \in Seq(Lines) /\ Len(a) = Len(sent) /\ Len(sent) \in Nat
        /\ \A i \in 1..Len(sent) : a[i] = IF sent[i] = "key" THEN "old" ELSE sent[i]
    BY <1>1, AgedIs, LenProperties
  <2> HIDE DEF a
  <2>2. /\ b \in Seq(Lines) /\ Len(b) = Len(sent) + 1 /\ b[Len(sent) + 1] = "key"
        /\ \A i \in 1..Len(sent) : b[i] = a[i]
    BY <1>1, <2>1, AppendProperties
  <2>3. sent' = b
    BY <1>2, <1>5 DEF a
  <2> HIDE DEF b
  <2>4. \A i \in 1..Len(b) : i \in 1..Len(sent) \/ i = Len(b)
    BY <2>1, <2>2
  <2>5. \A i \in 1..Len(b) : b[i] = "key" => i = Len(b)
    BY <2>1, <2>2, <2>4
  <2>6. ASSUME NEW items \in SUBSET (Commands \cup Passwords), Without(sent, items)
        PROVE  Without(b, items)
    <3>1. "key" \notin items /\ "old" \notin items
      BY LineFacts
    <3> QED BY <2>1, <2>2, <2>4, <2>6, <3>1 DEF Without
  <2>7. Len(sent) > 0 /\ sent[1] \in Commands => Len(b) > 0 /\ b[1] = sent[1]
    BY <2>1, <2>2, LineFacts
  <2>8. ASSUME \A i \in 2..Len(sent) : sent[i] \notin Commands, NEW i \in 2..Len(b)
        PROVE  b[i] \notin Commands
    BY <2>1, <2>2, <2>4, <2>8, LineFacts
  <2> QED BY <1>3, <2>2, <2>3, <2>5, <2>6, <2>7, <2>8
<1> QED BY <1>4, <1>5

LEMMA WriteIs ==
  ASSUME TypeOK, NEW line \in Lines
  PROVE  /\ Write(line) \in Seq(Lines)
         /\ up => /\ Len(Write(line)) = Len(sent) + 1 /\ Write(line)[Len(sent) + 1] = line
                  /\ \A i \in 1..Len(sent) : Write(line)[i] = sent[i]
         /\ ~up => Write(line) = sent
BY AppendProperties DEF TypeOK, Write

\* A line is taken.
LEMMA LineIs ==
  ASSUME TypeOK, NEW lines, Line(lines)
  PROVE  /\ Len(sent) \in Nat /\ Len(sent) > 0 /\ Head(sent) = sent[1] /\ sent[1] \in lines
         /\ sent' \in Seq(Lines) /\ Len(sent') = Len(sent) - 1 /\ Len(sent') \in Nat
         /\ \A i \in 1..Len(sent') : sent'[i] = sent[i + 1]
<1>1. sent \in Seq(Lines) /\ sent # <<>> /\ Head(sent) \in lines /\ sent' = Tail(sent)
  BY DEF TypeOK, Line
<1> QED BY <1>1, HeadIs, LenProperties

\* An item is read.
LEMMA ItemIs ==
  ASSUME TypeOK, NEW items, AtItem(items), out' = Tail(out)
  PROVE  /\ Len(out) \in Nat /\ Len(out) > 0 /\ Head(out) = out[1] /\ out[1] \in items
         /\ out' \in Seq(Items) /\ Len(out') = Len(out) - 1 /\ Len(out') \in Nat
         /\ \A i \in 1..Len(out') : out'[i] = out[i + 1]
<1>1. out \in Seq(Items) /\ out # <<>> /\ Head(out) \in items /\ out' = Tail(out)
  BY DEF TypeOK, AtItem
<1> QED BY <1>1, HeadIs, LenProperties

Steps == {"ready", "start", "greeted", "asking", "denied", "authorised", "running", "linked"}
Places == [tool : Commands \cup {"shell"}, at : Steps, tries : 0..MaxTries]
Histories == [ran : Seq(Commands), astray : SUBSET {"password", "command"}]

LEMMA ShellIs == Shell \in Places /\ Shell.tool = "shell" /\ Shell.at = "ready"
BY SSHCommandAssumption DEF Shell, Places, Steps

\* A tool goes on to its next step.
LEMMA PlaceIs ==
  ASSUME NEW f \in Places, NEW step \in Steps
  PROVE  /\ [f EXCEPT !.at = step] \in Places
         /\ [f EXCEPT !.at = step].at = step /\ [f EXCEPT !.at = step].tool = f.tool
BY DEF Places

LEMMA AstrayIs ==
  ASSUME TypeOK, NEW what \in {"password", "command"}, Astray(what)
  PROVE  did' \in Histories /\ did'.ran = did.ran
BY DEF TypeOK, Astray, Histories

LEMMA SaysIs ==
  ASSUME TypeOK, NEW items \in Seq(Items), Says(items)
  PROVE  /\ out' \in Seq(Items) /\ Len(out) \in Nat /\ Len(items) \in Nat
         /\ Len(out') = Len(out) + Len(items)
         /\ \A i \in 1..(Len(out) + Len(items)) :
               out'[i] = IF i <= Len(out) THEN out[i] ELSE items[i - Len(out)]
BY ConcatProperties, LenProperties DEF TypeOK, Says

\* Nothing is said that looks like the newest key.
LEMMA SaysNoKey ==
  ASSUME TypeOK, NEW items \in Seq(Items), Says(items), Without(items, {"key"}), Without(out, {"key"})
  PROVE  Without(out', {"key"})
BY SaysIs DEF Without

LEMMA FarTypes ==
  ASSUME TypeOK, UNCHANGED <<program, exit, up, installed>>,
         sent' \in Seq(Lines), out' \in Seq(Items), far' \in Places, did' \in Histories
  PROVE  TypeOK'
BY DEF TypeOK, program, Places, Steps, Histories

-------------------------------------------------------------------------------
(* The steps of the far end keep the invariant.                                *)

\* A line was taken from the front, all were, or none.
Taken ==
    /\ sent' \in Seq(Lines) /\ Len(sent') \in Nat
    /\ \/ sent' = sent
       \/ Len(sent') = 0
       \/ /\ Len(sent) = Len(sent') + 1
          /\ \A i \in 1..Len(sent') : sent'[i] = sent[i + 1]

LEMMA LineTaken ==
  ASSUME TypeOK, NEW lines, Line(lines)
  PROVE  Taken /\ Len(sent) \in Nat /\ Len(sent) > 0 /\ Head(sent) = sent[1] /\ sent[1] \in lines
BY LineIs DEF Taken

LEMMA TakenKeeps ==
  ASSUME TypeOK, Taken
  PROVE  /\ \A items : Without(sent, items) => Without(sent', items)
         /\ (\A i \in 1..Len(sent) : sent[i] = "key" => i = Len(sent))
               => \A i \in 1..Len(sent') : sent'[i] = "key" => i = Len(sent')
<1>1. Len(sent) \in Nat /\ Len(sent') \in Nat
  BY LenProperties DEF TypeOK, Taken
<1>2. CASE sent' = sent
  BY <1>2
<1>3. CASE Len(sent') = 0
  BY <1>3 DEF Without
<1>4. CASE /\ Len(sent) = Len(sent') + 1
           /\ \A i \in 1..Len(sent') : sent'[i] = sent[i + 1]
  <2>1. \A i \in 1..Len(sent') : i + 1 \in 1..Len(sent) /\ sent'[i] = sent[i + 1]
    BY <1>1, <1>4
  <2> QED BY <1>1, <1>4, <2>1 DEF Without
<1> QED BY <1>2, <1>3, <1>4 DEF Taken

LEMMA FarKeeps ==
  ASSUME IInv, up, UNCHANGED <<program, exit, up, installed>>,
         Taken, out' \in Seq(Items), far' \in Places, did' \in Histories,
         (pc = "sync" /\ ~Without(out', {"key"})) => (far' = Shell /\ Len(sent') = 0),
         Writing', Reading', Ended', NothingAstray'
  PROVE  IInv'
<1>1. TypeOK'
  BY FarTypes DEF IInv, Taken
<1>2. Synchronising'
  BY TakenKeeps DEF IInv, Synchronising, program
<1>3. Failing'
  BY DEF IInv, Failing, program
<1> QED BY <1>1, <1>2, <1>3 DEF IInv

\* What the invariant says at the beginning of such a step.
LEMMA Known ==
  ASSUME IInv, UNCHANGED <<program, exit, up, installed>>
  PROVE  /\ TypeOK /\ Len(sent) \in Nat /\ Len(out) \in Nat /\ Len(did.ran) \in Nat
         /\ sent \in Seq(Lines) /\ out \in Seq(Items) /\ far \in Places /\ did \in Histories
         /\ pc' = pc /\ result' = result /\ up' = up /\ exit' = exit
         /\ Undisturbed' = Undisturbed
<1>1. TypeOK /\ up' = up /\ exit' = exit /\ pc' = pc /\ result' = result
  BY DEF IInv, program
<1>2. did.ran \in Seq(Commands)
  BY <1>1 DEF TypeOK
<1> QED BY <1>1, <1>2, LenProperties DEF TypeOK, Places, Steps, Histories, Undisturbed

LEMMA EchoKeyKeeps ==
  ASSUME IInv, up, EchoKey, UNCHANGED <<program, exit, up, installed>>
  PROVE  IInv'
<1>1. /\ TypeOK /\ far = Shell /\ far.tool = "shell" /\ far' = far /\ did' = did
      /\ Line(Keys) /\ Says(<<Head(sent)>>)
  BY ShellIs DEF EchoKey, remote, IInv
<1>2. /\ Taken /\ Len(sent) \in Nat /\ Len(sent) > 0 /\ Head(sent) = sent[1] /\ sent[1] \in Keys
      /\ sent[1] \notin Tools /\ sent[1] \notin Commands
      /\ Len(sent') = Len(sent) - 1
  BY <1>1, LineTaken, LineIs, LineFacts
<1>3. <<Head(sent)>> \in Seq(Items) /\ Len(<<Head(sent)>>) = 1 /\ <<Head(sent)>>[1] = sent[1]
  BY <1>2 DEF Items
<1>4. out' \in Seq(Items)
  BY <1>1, <1>3, SaysIs
<1>5. pc = "sync" => Without(out, {"key"})
  BY <1>2 DEF IInv, Synchronising
<1>6. ASSUME pc = "sync", ~Without(out', {"key"}) PROVE Len(sent') = 0
  <2>1. sent[1] = "key"
    <3>1. CASE Without(<<Head(sent)>>, {"key"})
      BY <1>1, <1>3, <1>5, <1>6, <3>1, SaysNoKey
    <3>2. CASE ~Without(<<Head(sent)>>, {"key"})
      BY <1>3, <3>2 DEF Without
    <3> QED BY <3>1, <3>2
  <2> QED BY <1>2, <1>6, <2>1 DEF IInv, Synchronising
<1>7. pc' = pc /\ Undisturbed' = Undisturbed /\ Writing /\ Reading
  BY Known DEF IInv
<1>8. Writing'
  BY <1>2, <1>7 DEF Writing
<1>9. Reading'
  BY <1>1, <1>2, <1>7, LineFacts DEF Reading, Launching, AtWork
<1>10. Ended'
  BY <1>1, <1>2, TakenKeeps, Known DEF IInv, Ended, OnlyOne, Dead
<1>11. NothingAstray'
  BY <1>1, Known DEF IInv, NothingAstray
<1> QED BY <1>1, <1>2, <1>4, <1>6, <1>8, <1>9, <1>10, <1>11, Known, FarKeeps

LEMMA LaunchKeeps ==
  ASSUME IInv, up, Launch, UNCHANGED <<program, exit, up, installed>>
  PROVE  IInv'
<1>1. /\ TypeOK /\ far = Shell /\ far.tool = "shell" /\ did' = did /\ out' = out
      /\ Line(installed \cup {"plain"})
      /\ far' = [tool |-> Head(sent), at |-> "start", tries |-> MaxTries]
  BY ShellIs DEF Launch, IInv
<1>2. /\ Taken /\ Len(sent) \in Nat /\ Len(sent) > 0 /\ Head(sent) = sent[1] /\ sent[1] \in Commands
      /\ Len(sent') = Len(sent) - 1 /\ Len(sent') \in Nat
      /\ \A i \in 1..Len(sent') : sent'[i] = sent[i + 1]
  <2>1. \A tool \in installed \cup {"plain"} : tool \in Commands
    BY <1>1, LineFacts DEF TypeOK
  <2> QED BY <1>1, <2>1, LineTaken, LineIs
<1>3. far' \in Places /\ far'.tool = sent[1] /\ far'.at = "start"
  BY <1>1, <1>2, SSHCommandAssumption DEF Places, Steps
<1>4. pc = "sync" => Without(out', {"key"})
  BY <1>1, <1>2 DEF IInv, Synchronising
<1>5. /\ pc' = pc /\ result' = result /\ Undisturbed' = Undisturbed
      /\ Writing /\ Reading /\ Ended /\ NothingAstray
  BY Known DEF IInv
<1>6. Writing'
  BY <1>2, <1>5 DEF Writing
<1>7. Reading'
  BY <1>1, <1>2, <1>3, <1>5, LineFacts DEF Reading, Launching, AtWork
<1>8. ~Without(sent, Commands)
  BY <1>2 DEF Without
<1>9. Ended'
  <2>1. SUFFICES ASSUME pc \notin {"write", "reading"}, Undisturbed PROVE
          Without(sent', Passwords) /\ result = "OKAY" /\ OnlyOne'
    BY <1>5 DEF Ended
  <2>2. Without(sent, Passwords) /\ result = "OKAY" /\ OnlyOne
    BY <1>5, <1>8, <2>1 DEF Ended, Dead
  <2>3. did.ran = <<>> /\ \A i \in 2..Len(sent) : sent[i] \notin Commands
    BY <1>8, <2>2 DEF OnlyOne
  <2>4. \A i \in 1..Len(sent') : i + 1 \in 2..Len(sent)
    BY <1>2
  <2>5. Without(sent', Commands)
    BY <1>2, <2>3, <2>4 DEF Without
  <2> QED BY <1>1, <1>2, <2>2, <2>3, <2>5, TakenKeeps DEF OnlyOne
<1>10. NothingAstray'
  BY <1>1, <1>5 DEF NothingAstray
<1> QED BY <1>1, <1>2, <1>3, <1>4, <1>6, <1>7, <1>9, <1>10, Known, FarKeeps

LEMMA NotInstalledKeeps ==
  ASSUME IInv, up, NotInstalled, UNCHANGED <<program, exit, up, installed>>
  PROVE  IInv'
<1> DEFINE said == <<"text", "done">>
<1>1. /\ TypeOK /\ far = Shell /\ far.tool = "shell" /\ far' = far /\ did' = did
      /\ Line(Tools \ installed) /\ Says(said)
  BY ShellIs DEF NotInstalled, IInv
<1>2. /\ Taken /\ Len(sent) \in Nat /\ Len(sent) > 0 /\ sent[1] \in Tools
      /\ Len(sent') = Len(sent) - 1 /\ Len(sent') \in Nat
      /\ \A i \in 1..Len(sent') : sent'[i] = sent[i + 1]
  BY <1>1, LineTaken, LineIs
<1>3. said \in Seq(Items) /\ Len(said) = 2 /\ said[1] = "text" /\ said[2] = "done" /\ Without(said, {"key"})
  BY DEF Items, Without
<1> HIDE DEF said
<1>4. out' \in Seq(Items)
  BY <1>1, <1>3, SaysIs
<1>5. pc = "sync" => Without(out', {"key"})
  BY <1>1, <1>2, <1>3, SaysNoKey DEF IInv, Synchronising
<1>6. /\ pc' = pc /\ result' = result /\ Undisturbed' = Undisturbed
      /\ Writing /\ Reading /\ Ended /\ NothingAstray
  BY Known DEF IInv
<1>7. Writing'
  BY <1>2, <1>6 DEF Writing
<1>8. Reading'
  <2>1. SUFFICES ASSUME pc = "reading", Undisturbed PROVE
          did.ran = <<>> /\ Len(sent') = 0 /\ Leads(out', "done")
    BY <1>1, <1>6 DEF Reading
  <2>2. did.ran = <<>> /\ Launching
    BY <1>1, <1>2, <1>6, <2>1, LineFacts DEF Reading, AtWork
  <2>3. Len(out') = 2 /\ out'[1] = "text" /\ out'[2] = "done"
    BY <1>1, <1>3, <2>2, SaysIs DEF Launching
  <2> QED BY <1>2, <2>2, <2>3 DEF Launching, Leads
<1>9. ~Without(sent, Commands)
  BY <1>2, LineFacts DEF Without
<1>10. Ended'
  <2>1. SUFFICES ASSUME pc \notin {"write", "reading"}, Undisturbed PROVE
          Without(sent', Passwords) /\ result = "OKAY" /\ OnlyOne'
    BY <1>6 DEF Ended
  <2>2. Without(sent, Passwords) /\ result = "OKAY" /\ OnlyOne
    BY <1>6, <1>9, <2>1 DEF Ended, Dead
  <2>3. did.ran = <<>> /\ \A i \in 2..Len(sent) : sent[i] \notin Commands
    BY <1>9, <2>2 DEF OnlyOne
  <2>4. \A i \in 1..Len(sent') : i + 1 \in 2..Len(sent)
    BY <1>2
  <2>5. Without(sent', Commands)
    BY <1>2, <2>3, <2>4 DEF Without
  <2> QED BY <1>1, <1>2, <2>2, <2>3, <2>5, TakenKeeps DEF OnlyOne
<1>11. NothingAstray'
  BY <1>1, <1>6 DEF NothingAstray
<1> QED BY <1>1, <1>2, <1>4, <1>5, <1>7, <1>8, <1>10, <1>11, Known, FarKeeps

LEMMA PasswordAtShellKeeps ==
  ASSUME IInv, up, PasswordAtShell, UNCHANGED <<program, exit, up, installed>>
  PROVE  IInv'
<1> DEFINE said == <<"text">>
<1>1. /\ TypeOK /\ far = Shell /\ far.tool = "shell" /\ far' = far
      /\ Line(Passwords \cup {NoPassword})
  BY ShellIs DEF PasswordAtShell, IInv
<1>2. /\ Taken /\ Len(sent) \in Nat /\ Len(sent) > 0 /\ Head(sent) = sent[1]
      /\ sent[1] \in Passwords \cup {NoPassword} /\ sent[1] \notin Commands
      /\ Len(sent') = Len(sent) - 1 /\ Len(sent') \in Nat
      /\ \A i \in 1..Len(sent') : sent'[i] = sent[i + 1]
  BY <1>1, LineTaken, LineIs, LineFacts
<1>3. said \in Seq(Items) /\ Len(said) = 1 /\ Without(said, {"key"})
  BY DEF Items, Without
<1> HIDE DEF said
<1>4. \/ out' = out /\ did' = did
      \/ sent[1] \in Passwords /\ Says(said) /\ Astray("password")
  BY <1>2 DEF PasswordAtShell, said
<1>5. out' \in Seq(Items) /\ did' \in Histories /\ did'.ran = did.ran
  BY <1>1, <1>3, <1>4, SaysIs, AstrayIs, Known
<1>6. pc = "sync" => Without(out', {"key"})
  BY <1>1, <1>2, <1>3, <1>4, SaysNoKey DEF IInv, Synchronising
<1>7. /\ pc' = pc /\ result' = result /\ Undisturbed' = Undisturbed
      /\ Writing /\ Reading /\ Ended /\ NothingAstray
  BY Known DEF IInv
<1>8. Undisturbed => pc \notin {"write", "reading"}
  BY <1>1, <1>2, <1>7, LineFacts DEF Writing, Reading, Launching, AtWork
<1>9. Writing' /\ Reading'
  BY <1>7, <1>8 DEF Writing, Reading
<1>10. Undisturbed => out' = out /\ did' = did
  BY <1>2, <1>4, <1>7, <1>8 DEF Ended, Without
<1>11. Ended'
  BY <1>1, <1>2, <1>7, <1>10, TakenKeeps DEF Ended, OnlyOne, Dead
<1>12. NothingAstray'
  BY <1>7, <1>10 DEF NothingAstray
<1> QED BY <1>1, <1>2, <1>5, <1>6, <1>9, <1>11, <1>12, Known, FarKeeps

\* A tool is working at the far end: what that says of the four places.
LEMMA AtTool ==
  ASSUME IInv, far.tool \in Tools
  PROVE  /\ far # Shell
         /\ pc = "sync" /\ up => Without(out, {"key"})
         /\ pc = "write" => ~Undisturbed
         /\ (pc = "reading" /\ Undisturbed /\ far.at \notin {"ready", "linked"})
               => (did.ran = <<>> /\ AtWork)
         /\ (pc \notin {"write", "reading"} /\ Undisturbed /\ far.at \notin {"ready", "linked"})
               => /\ Without(sent, Passwords) /\ Without(sent, Commands) /\ did.ran = <<>>
                  /\ result = "OKAY" \/ far.at \in {"asking", "denied"}
<1>1. far # Shell
  BY ShellIs, LineFacts
<1>2. Synchronising /\ Writing /\ Reading /\ Ended
  BY DEF IInv
<1>3. pc = "sync" /\ up => Without(out, {"key"})
  BY <1>1, <1>2 DEF Synchronising
<1>4. pc = "write" => ~Undisturbed
  BY <1>1, <1>2 DEF Writing
<1>5. (pc = "reading" /\ Undisturbed /\ far.at \notin {"ready", "linked"})
               => (did.ran = <<>> /\ AtWork)
  BY <1>1, <1>2 DEF Reading, Launching
<1>6. (pc \notin {"write", "reading"} /\ Undisturbed /\ far.at \notin {"ready", "linked"})
               => /\ Without(sent, Passwords) /\ Without(sent, Commands) /\ did.ran = <<>>
                  /\ result = "OKAY" \/ far.at \in {"asking", "denied"}
  BY <1>1, <1>2 DEF Ended, OnlyOne, Dead
<1> QED BY <1>1, <1>3, <1>4, <1>5, <1>6

\* What is left to show of such a step, when nothing is executed in it.
LEMMA ToolKeeps ==
  ASSUME IInv, up, UNCHANGED <<program, exit, up, installed>>,
         far.tool \in Tools, far.at \notin {"ready", "linked"},
         Taken, out' \in Seq(Items), far' \in Places, did' \in Histories,
         pc = "sync" => Without(out', {"key"}),
         did'.ran = did.ran, Undisturbed => did' = did,
         (pc = "reading" /\ Undisturbed) => Reading',
         (pc \notin {"write", "reading"} /\ Undisturbed /\ result # "OKAY")
               => far'.at \in {"ready", "asking", "denied"}
  PROVE  IInv'
<1>1. /\ TypeOK /\ pc' = pc /\ result' = result /\ Undisturbed' = Undisturbed /\ NothingAstray
  BY Known DEF IInv
<1>2. Writing' /\ Reading'
  BY <1>1, AtTool DEF Writing, Reading
<1>3. Ended'
  <2>1. SUFFICES ASSUME pc \notin {"write", "reading"}, Undisturbed PROVE
          /\ Without(sent', Passwords)
          /\ IF result = "OKAY" THEN OnlyOne' ELSE Dead'
    BY <1>1 DEF Ended
  <2>2. Without(sent', Passwords) /\ Without(sent', Commands) /\ did'.ran = <<>>
    BY <1>1, <2>1, AtTool, TakenKeeps
  <2> QED BY <2>1, <2>2 DEF OnlyOne, Dead
<1>4. NothingAstray'
  BY <1>1 DEF NothingAstray
<1> QED BY <1>2, <1>3, <1>4, FarKeeps

LEMMA TakenSome == ASSUME TypeOK, sent' \in {sent, <<>>} PROVE Taken
<1>1. sent \in Seq(Lines)
  BY DEF TypeOK
<1>2. CASE sent' = sent
  BY <1>1, <1>2, LenProperties DEF Taken
<1>3. CASE sent' = <<>>
  <2>1. sent' \in Seq(Lines) /\ Len(sent') = 0
    BY <1>3, EmptySeq
  <2> QED BY <2>1 DEF Taken
<1> QED BY <1>2, <1>3

LEMMA GreetKeeps ==
  ASSUME IInv, up, Greet, UNCHANGED <<program, exit, up, installed>>
  PROVE  IInv'
<1> DEFINE said == <<"text">>
<1>1. /\ TypeOK /\ far \in Places /\ far.tool \in Tools /\ far.at = "start"
      /\ far' = [far EXCEPT !.at = "greeted"]
      /\ Says(said) /\ sent' = sent /\ did' = did /\ did \in Histories
  BY Known DEF Greet, ToolIs, IInv
<1>2. said \in Seq(Items) /\ Len(said) = 1 /\ said[1] = "text" /\ Without(said, {"key"})
  BY DEF Items, Without
<1> HIDE DEF said
<1>3. far' \in Places /\ far'.at = "greeted" /\ far'.tool = far.tool
  BY <1>1, PlaceIs DEF Steps
<1>4. Taken /\ out' \in Seq(Items)
  BY <1>1, <1>2, SaysIs, TakenSome
<1>5. pc = "sync" => Without(out', {"key"})
  BY <1>1, <1>2, AtTool, SaysNoKey
<1>6. ASSUME pc = "reading", Undisturbed PROVE Reading'
  <2>1. did.ran = <<>> /\ Len(sent) = 0 /\ Len(out) = 0
    BY <1>1, <1>6, AtTool DEF AtWork
  <2>2. Len(out') = 1 /\ out'[1] = "text"
    BY <1>1, <1>2, <2>1, SaysIs
  <2>3. AtWork'
    BY <1>1, <1>3, <2>1, <2>2 DEF AtWork, Silent
  <2> QED BY <1>1, <1>3, <2>1, <2>3 DEF Reading
<1> QED BY <1>1, <1>3, <1>4, <1>5, <1>6, AtTool, ToolKeeps

LEMMA AskKeeps ==
  ASSUME IInv, up, Ask, UNCHANGED <<program, exit, up, installed>>
  PROVE  IInv'
<1> DEFINE said == <<"prompt">>
<1>1. /\ TypeOK /\ far \in Places /\ far.tool \in Tools /\ far.at \in {"start", "greeted", "denied"}
      /\ far' = [far EXCEPT !.at = "asking"]
      /\ Says(said) /\ sent' \in {sent, <<>>} /\ did' = did /\ did \in Histories
      /\ out \in Seq(Items)
  BY Known DEF Ask, ToolIs, IInv
<1>2. said \in Seq(Items) /\ Len(said) = 1 /\ said[1] = "prompt" /\ Without(said, {"key"})
  BY DEF Items, Without
<1> HIDE DEF said
<1>3. far' \in Places /\ far'.at = "asking" /\ far'.tool = far.tool
  BY <1>1, PlaceIs DEF Steps
<1>4. Taken /\ out' \in Seq(Items)
  BY <1>1, <1>2, SaysIs, TakenSome
<1>5. pc = "sync" => Without(out', {"key"})
  BY <1>1, <1>2, AtTool, SaysNoKey
<1>6. ASSUME pc = "reading", Undisturbed PROVE Reading'
  <2>1. did.ran = <<>> /\ AtWork /\ Len(sent) = 0
    BY <1>1, <1>6, AtTool DEF AtWork
  <2>2. Len(sent') = 0
    BY <1>1, <2>1, EmptyIs, EmptySeq
  <2>3. out' = out \o said
    BY <1>1 DEF Says
  <2>4. CASE far.at \in {"start", "greeted"}
    <3>1. Silent(out)
      BY <2>1, <2>4 DEF AtWork, Silent
    <3>2. Ends(out', "prompt")
      BY <1>1, <1>2, <2>3, <3>1, ConcatLeads
    <3> QED BY <1>1, <1>3, <2>1, <2>2, <3>2 DEF AtWork, Reading
  <2>5. CASE far.at = "denied"
    <3>1. Leads(out, "refused")
      BY <2>1, <2>5 DEF AtWork
    <3>2. Leads(out', "refused")
      BY <1>1, <1>2, <2>3, <3>1, ConcatLeads
    <3> QED BY <1>1, <1>3, <2>1, <2>2, <3>2 DEF AtWork, Reading
  <2> QED BY <1>1, <2>4, <2>5
<1> QED BY <1>1, <1>3, <1>4, <1>5, <1>6, AtTool, ToolKeeps

LEMMA TrustKeeps ==
  ASSUME IInv, up, Trust, UNCHANGED <<program, exit, up, installed>>
  PROVE  IInv'
<1>1. /\ TypeOK /\ far \in Places /\ far.tool \in Tools /\ far.at \in {"start", "greeted"}
      /\ far' = [far EXCEPT !.at = "authorised"]
      /\ out' = out /\ sent' = sent /\ did' = did /\ did \in Histories
      /\ out' \in Seq(Items)
  BY Known, LineFacts DEF Trust, ToolIs, IInv
<1>2. far' \in Places /\ far'.at = "authorised" /\ far'.tool = far.tool
  BY <1>1, PlaceIs DEF Steps
<1>3. Taken
  BY <1>1, TakenSome
<1>4. pc = "sync" => Without(out', {"key"})
  BY <1>1, AtTool
<1>5. ASSUME pc = "reading", Undisturbed PROVE Reading'
  <2>1. did.ran = <<>> /\ Len(sent) = 0 /\ Silent(out)
    BY <1>1, <1>5, AtTool DEF AtWork, Silent
  <2> QED BY <1>1, <1>2, <2>1 DEF AtWork, Reading, Silent
<1>6. pc \notin {"write", "reading"} /\ Undisturbed => result = "OKAY"
  BY <1>1, AtTool
<1> QED BY <1>1, <1>2, <1>3, <1>4, <1>5, <1>6, ToolKeeps

\* The password is taken: while the program waits, nothing else is under way;
\* afterwards there is none to take.
LEMMA PasswordTaken ==
  ASSUME IInv, far.tool \in Tools, far.at = "asking", NEW lines, Line(lines), lines \subseteq Passwords
  PROVE  /\ Undisturbed => pc = "reading"
         /\ (pc = "reading" /\ Undisturbed)
               => did.ran = <<>> /\ Len(sent') = 0 /\ Len(out) = 0
<1>1. TypeOK /\ sent[1] \in Passwords /\ Len(sent) > 0 /\ Len(sent) \in Nat /\ Len(sent') = Len(sent) - 1
  BY LineIs DEF IInv
<1>2. ~Without(sent, Passwords)
  BY <1>1 DEF Without
<1> QED BY <1>1, <1>2, AtTool DEF AtWork

LEMMA AcceptKeeps ==
  ASSUME IInv, up, Accept, UNCHANGED <<program, exit, up, installed>>
  PROVE  IInv'
<1>1. /\ TypeOK /\ far \in Places /\ far.tool \in Tools /\ far.at = "asking"
      /\ Line(Opens[far.tool]) /\ Opens[far.tool] \subseteq Passwords
      /\ far' = [far EXCEPT !.at = "authorised"]
      /\ out' = out /\ did' = did /\ did \in Histories
      /\ out' \in Seq(Items)
  BY Known, LineFacts DEF Accept, ToolIs, IInv
<1>2. far' \in Places /\ far'.at = "authorised" /\ far'.tool = far.tool
  BY <1>1, PlaceIs DEF Steps
<1>3. Taken
  BY <1>1, LineTaken
<1>4. pc = "sync" => Without(out', {"key"})
  BY <1>1, AtTool
<1>5. ASSUME pc = "reading", Undisturbed PROVE Reading'
  <2>1. did.ran = <<>> /\ Len(sent') = 0 /\ Len(out) = 0
    BY <1>1, <1>5, PasswordTaken
  <2> QED BY <1>1, <1>2, <2>1 DEF AtWork, Reading, Silent
<1>6. Undisturbed => pc = "reading"
  BY <1>1, PasswordTaken
<1> QED BY <1>1, <1>2, <1>3, <1>4, <1>5, <1>6, ToolKeeps

LEMMA NotASudoerKeeps ==
  ASSUME IInv, up, NotASudoer, UNCHANGED <<program, exit, up, installed>>
  PROVE  IInv'
<1> DEFINE said == <<"text">> \o <<"done">>
<1>1. /\ TypeOK /\ far.tool \in Tools /\ far.tool = "sudo" /\ far.at = "asking"
      /\ Line(Opens["sudo"]) /\ Opens["sudo"] \subseteq Passwords
      /\ far' = Shell /\ Says(said) /\ did' = did /\ did \in Histories
  BY Known, LineFacts DEF NotASudoer, ToolIs, IInv, EndsWith
<1>2. said \in Seq(Items) /\ Len(said) = 2 /\ said[1] = "text" /\ said[2] = "done" /\ Without(said, {"key"})
  BY DEF Items, Without
<1> HIDE DEF said
<1>3. far' \in Places /\ far'.at = "ready"
  BY <1>1, ShellIs
<1>4. Taken /\ out' \in Seq(Items)
  BY <1>1, <1>2, SaysIs, LineTaken
<1>5. pc = "sync" => Without(out', {"key"})
  BY <1>1, <1>2, AtTool, SaysNoKey
<1>6. ASSUME pc = "reading", Undisturbed PROVE Reading'
  <2>1. did.ran = <<>> /\ Len(sent') = 0 /\ Len(out) = 0
    BY <1>1, <1>6, PasswordTaken
  <2>2. Len(out') = 2 /\ out'[1] = "text" /\ out'[2] = "done"
    BY <1>1, <1>2, <2>1, SaysIs
  <2> QED BY <1>1, <2>1, <2>2 DEF Leads, Reading
<1> QED BY <1>1, <1>3, <1>4, <1>5, <1>6, ToolKeeps

LEMMA DeniedIs ==
  ASSUME NEW f \in Places, f.tries > 1
  PROVE  LET g == [f EXCEPT !.at = "denied", !.tries = @ - 1]
         IN  g \in Places /\ g.at = "denied" /\ g.tool = f.tool
<1>1. f.tries - 1 \in 0..MaxTries
  BY SSHCommandAssumption DEF Places
<1> QED BY <1>1 DEF Places, Steps

\* What a refusal prints, and where it leaves the far end.
LEMMA DenyIs ==
  ASSUME TypeOK, Deny
  PROVE  \E said \in Seq(Items) :
            /\ Says(said) /\ Without(said, {"key"}) /\ far' \in Places
            /\ \/ far'.at = "denied" /\ far'.tool = far.tool /\ Len(said) = 1 /\ said[1] = "refused"
               \/ /\ far' = Shell /\ Len(said) > 1 /\ said[1] = "text"
                  /\ said[2] \in {"refused", "done"}
<1>1. far \in Places
  BY DEF TypeOK, Places, Steps
<1>2. CASE far.tool = "sudo" /\ far.tries > 1
  <2>1. far' = [far EXCEPT !.at = "denied", !.tries = @ - 1] /\ Says(<<"refused">>)
    BY <1>2 DEF Deny
  <2>2. <<"refused">> \in Seq(Items) /\ Without(<<"refused">>, {"key"})
        /\ Len(<<"refused">>) = 1 /\ <<"refused">>[1] = "refused"
    BY DEF Items, Without
  <2>3. far' \in Places /\ far'.at = "denied" /\ far'.tool = far.tool
    BY <1>1, <1>2, <2>1, DeniedIs
  <2> QED BY <2>1, <2>2, <2>3
<1>3. CASE ~(far.tool = "sudo" /\ far.tries > 1) /\ far.tool = "su"
  <2> DEFINE said == <<"text", "refused">> \o <<"done">>
  <2>1. far' = Shell /\ Says(said)
    BY <1>3 DEF Deny, EndsWith
  <2>2. said \in Seq(Items) /\ Without(said, {"key"})
        /\ Len(said) > 1 /\ said[1] = "text" /\ said[2] = "refused"
    BY DEF Items, Without
  <2> HIDE DEF said
  <2> QED BY <2>1, <2>2, ShellIs
<1>4. CASE ~(far.tool = "sudo" /\ far.tries > 1) /\ far.tool # "su"
  <2> DEFINE said == <<"text">> \o <<"done">>
  <2>1. far' = Shell /\ Says(said)
    BY <1>4 DEF Deny, EndsWith
  <2>2. said \in Seq(Items) /\ Without(said, {"key"})
        /\ Len(said) > 1 /\ said[1] = "text" /\ said[2] = "done"
    BY DEF Items, Without
  <2> HIDE DEF said
  <2> QED BY <2>1, <2>2, ShellIs
<1> QED BY <1>2, <1>3, <1>4

LEMMA DenyKeeps ==
  ASSUME IInv, up, Deny, UNCHANGED <<program, exit, up, installed>>
  PROVE  IInv'
<1> DEFINE lines == (Passwords \cup {NoPassword} \cup Keys \cup Commands) \ Opens[far.tool]
<1>1. /\ TypeOK /\ far.tool \in Tools /\ far.at = "asking" /\ Line(lines) /\ did \in Histories
      /\ IF Head(sent) \in Commands THEN Astray("command") ELSE did' = did
  BY Known DEF Deny, ToolIs, IInv
<1> HIDE DEF lines
<1>2. /\ Taken /\ Len(sent) \in Nat /\ Len(sent) > 0 /\ Head(sent) = sent[1]
      /\ Len(sent') = Len(sent) - 1
  BY <1>1, LineTaken, LineIs
<1>3. PICK said \in Seq(Items) :
            /\ Says(said) /\ Without(said, {"key"}) /\ far' \in Places
            /\ \/ far'.at = "denied" /\ far'.tool = far.tool /\ Len(said) = 1 /\ said[1] = "refused"
               \/ /\ far' = Shell /\ Len(said) > 1 /\ said[1] = "text"
                  /\ said[2] \in {"refused", "done"}
  BY <1>1, DenyIs
<1>4. out' \in Seq(Items) /\ did' \in Histories /\ did'.ran = did.ran
  BY <1>1, <1>3, SaysIs, AstrayIs
<1>5. pc = "sync" => Without(out', {"key"})
  BY <1>1, <1>3, AtTool, SaysNoKey
<1>6. far'.at \in {"ready", "asking", "denied"}
  BY <1>3, ShellIs
<1>7. ASSUME Undisturbed PROVE did' = did
  <2>1. CASE pc = "write"
    BY <1>1, <1>7, <2>1, AtTool
  <2>2. CASE pc = "reading"
    <3>1. sent[1] \in Passwords
      BY <1>1, <1>2, <1>7, <2>2, AtTool DEF AtWork
    <3> QED BY <1>1, <1>2, <3>1, LineFacts
  <2>3. CASE pc \notin {"write", "reading"}
    <3>1. Without(sent, Commands)
      BY <1>1, <1>7, <2>3, AtTool
    <3> QED BY <1>1, <1>2, <3>1 DEF Without
  <2> QED BY <2>1, <2>2, <2>3
<1>8. ASSUME pc = "reading", Undisturbed PROVE Reading'
  <2>1. did'.ran = <<>> /\ Len(sent') = 0 /\ Len(out) = 0
    BY <1>1, <1>2, <1>4, <1>8, AtTool DEF AtWork
  <2>2. Len(out') = Len(said) /\ \A i \in 1..Len(said) : out'[i] = said[i]
    BY <1>1, <1>3, <2>1, SaysIs
  <2>3. CASE far'.at = "denied" /\ far'.tool = far.tool /\ Len(said) = 1 /\ said[1] = "refused"
    <3>1. Leads(out', "refused")
      BY <2>2, <2>3 DEF Leads
    <3> QED BY <1>1, <2>1, <2>3, <3>1 DEF AtWork, Reading
  <2>4. CASE far' = Shell /\ Len(said) > 1 /\ said[1] = "text" /\ said[2] \in {"refused", "done"}
    <3>1. Len(said) \in Nat
      BY LenProperties
    <3>2. Leads(out', "refused") \/ Leads(out', "done")
      BY <2>2, <2>4, <3>1 DEF Leads
    <3> QED BY <2>1, <2>4, <3>2 DEF Reading
  <2> QED BY <1>3, <2>3, <2>4
<1> QED BY <1>1, <1>2, <1>3, <1>4, <1>5, <1>6, <1>7, <1>8, ToolKeeps

LEMMA AnnounceKeeps ==
  ASSUME IInv, up, Announce, UNCHANGED <<program, exit, up, installed>>
  PROVE  IInv'
<1> DEFINE said == <<"cmd-run">>
<1>1. /\ TypeOK /\ far \in Places /\ far.tool \in Tools /\ far.at = "authorised"
      /\ far' = [far EXCEPT !.at = "running"]
      /\ Says(said) /\ sent' = sent /\ did' = did /\ did \in Histories /\ out \in Seq(Items)
  BY Known DEF Announce, ToolIs, IInv
<1>2. said \in Seq(Items) /\ Len(said) = 1 /\ said[1] = "cmd-run" /\ Without(said, {"key"})
  BY DEF Items, Without
<1> HIDE DEF said
<1>3. far' \in Places /\ far'.at = "running" /\ far'.tool = far.tool
  BY <1>1, PlaceIs DEF Steps
<1>4. Taken /\ out' \in Seq(Items)
  BY <1>1, <1>2, SaysIs, TakenSome
<1>5. pc = "sync" => Without(out', {"key"})
  BY <1>1, <1>2, AtTool, SaysNoKey
<1>6. ASSUME pc = "reading", Undisturbed PROVE Reading'
  <2>1. did.ran = <<>> /\ Len(sent) = 0 /\ Silent(out)
    BY <1>1, <1>6, AtTool DEF AtWork
  <2>2. Leads(out', "cmd-run")
    BY <1>1, <1>2, <2>1, ConcatLeads DEF Says
  <2> QED BY <1>1, <1>3, <2>1, <2>2 DEF AtWork, Reading
<1>7. pc \notin {"write", "reading"} /\ Undisturbed => result = "OKAY"
  BY <1>1, AtTool
<1> QED BY <1>1, <1>3, <1>4, <1>5, <1>6, <1>7, ToolKeeps

\* The command runs: what it prints, and who has the terminal then.
LEMMA ExecuteIs ==
  ASSUME TypeOK, Execute
  PROVE  /\ far.tool \in Commands /\ sent' = sent
         /\ did' \in Histories /\ did'.ran = Append(did.ran, far.tool) /\ did'.astray = did.astray
         /\ far' \in Places /\ (far' = Shell \/ far'.at = "linked")
         /\ \E said \in Seq(Items) : Says(said) /\ Without(said, {"key"})
<1>1. far \in Places /\ did \in Histories /\ did.ran \in Seq(Commands)
  BY DEF TypeOK, Places, Steps, Histories
<1>2. far.tool \in Commands /\ sent' = sent
  BY LineFacts DEF Execute, ToolIs
<1>3. did' = [did EXCEPT !.ran = Append(did.ran, far.tool)]
  BY DEF Execute
<1>4. Append(did.ran, far.tool) \in Seq(Commands)
  BY <1>1, <1>2, AppendProperties
<1>5. did' \in Histories /\ did'.ran = Append(did.ran, far.tool) /\ did'.astray = did.astray
  BY <1>1, <1>3, <1>4 DEF Histories
<1>6. PICK said \in {<<>>, <<"prompt">>} :
         CASE call.nosync -> far' = [far EXCEPT !.at = "linked"] /\ Says(said)
           [] ~call.nosync /\ far.tool = "plain" -> far' = Shell /\ Says(said)
           [] OTHER -> EndsWith(said)
  BY DEF Execute
<1>7. IF call.nosync THEN far' = [far EXCEPT !.at = "linked"] /\ Says(said)
      ELSE IF far.tool = "plain" THEN far' = Shell /\ Says(said)
      ELSE EndsWith(said)
  BY <1>6, Zenon
<1>8. far' \in Places /\ (far' = Shell \/ far'.at = "linked")
  <2>1. far' = Shell \/ far' = [far EXCEPT !.at = "linked"]
    BY <1>7 DEF EndsWith
  <2>2. "linked" \in Steps
    BY DEF Steps
  <2>3. [far EXCEPT !.at = "linked"] \in Places /\ [far EXCEPT !.at = "linked"].at = "linked"
    BY <1>1, <2>2, PlaceIs
  <2> QED BY <2>1, <2>3, ShellIs
<1>9. Says(said) \/ Says(said \o <<"done">>)
  BY <1>7 DEF EndsWith
<1>10. /\ <<>> \in Seq(Items) /\ Without(<<>>, {"key"})
       /\ <<"prompt">> \in Seq(Items) /\ Without(<<"prompt">>, {"key"})
       /\ <<>> \o <<"done">> \in Seq(Items) /\ Without(<<>> \o <<"done">>, {"key"})
       /\ <<"prompt">> \o <<"done">> \in Seq(Items) /\ Without(<<"prompt">> \o <<"done">>, {"key"})
  BY DEF Items, Without
<1>11. \E x \in Seq(Items) : Says(x) /\ Without(x, {"key"})
  <2>1. said = <<>> \/ said = <<"prompt">>
    OBVIOUS
  <2> QED BY <1>9, <1>10, <2>1, Zenon
<1> QED BY <1>2, <1>5, <1>8, <1>11

LEMMA RanOnce ==
  ASSUME NEW ran \in Seq(Commands), ran = <<>>, NEW tool \in Commands
  PROVE  Len(Append(ran, tool)) = 1 /\ Append(ran, tool) # <<>>
BY AppendProperties, EmptyIs

LEMMA ExecuteKeeps ==
  ASSUME IInv, up, Execute, UNCHANGED <<program, exit, up, installed>>
  PROVE  IInv'
<1>1. /\ TypeOK /\ far.tool \in Commands /\ far # Shell /\ far.at \in {"running", "start"}
      /\ (far.tool \in Tools /\ far.at = "running") \/ (far.tool = "plain" /\ far.at = "start")
      /\ far.at \notin {"ready", "linked"} /\ sent' = sent /\ out \in Seq(Items)
  BY Known, ExecuteIs, ShellIs DEF Execute, ToolIs, IInv
<1>2. /\ did' \in Histories /\ did'.ran = Append(did.ran, far.tool) /\ did'.astray = did.astray
      /\ far' \in Places /\ far'.at \in {"ready", "linked"}
  BY <1>1, ExecuteIs, ShellIs
<1>3. PICK said \in Seq(Items) : Says(said) /\ Without(said, {"key"})
  BY <1>1, ExecuteIs
<1>4. Taken /\ out' \in Seq(Items)
  BY <1>1, <1>3, SaysIs, TakenSome
<1>5. /\ pc' = pc /\ result' = result /\ Undisturbed' = Undisturbed
      /\ Synchronising /\ Writing /\ Reading /\ Ended /\ NothingAstray
      /\ did.ran \in Seq(Commands)
  BY Known DEF IInv, Histories
<1>6. pc = "sync" => Without(out', {"key"})
  BY <1>1, <1>3, <1>5, SaysNoKey DEF Synchronising
<1>7. Writing'
  BY <1>1, <1>5 DEF Writing
<1>8. Reading'
  <2>1. SUFFICES ASSUME pc = "reading", Undisturbed PROVE
          Len(did'.ran) = 1 /\ Len(sent') = 0 /\ Leads(out', "cmd-run")
    BY <1>2, <1>5 DEF Reading
  <2>2. did.ran = <<>> /\ Len(sent) = 0 /\ Leads(out, "cmd-run")
    BY <1>1, <1>5, <2>1, LineFacts DEF Reading, Launching, AtWork
  <2>3. Leads(out', "cmd-run")
    BY <1>1, <1>3, <2>2, ConcatLeads DEF Says
  <2> QED BY <1>1, <1>2, <1>5, <2>2, <2>3, RanOnce
<1>9. Ended'
  <2>1. SUFFICES ASSUME pc \notin {"write", "reading"}, Undisturbed PROVE
          Without(sent', Passwords) /\ result = "OKAY" /\ OnlyOne'
    BY <1>5 DEF Ended
  <2>2. Without(sent, Passwords) /\ result = "OKAY" /\ Without(sent, Commands) /\ did.ran = <<>>
    BY <1>1, <1>5, <2>1 DEF Ended, Dead, OnlyOne
  <2>3. Len(did'.ran) = 1
    BY <1>1, <1>2, <1>5, <2>2, RanOnce
  <2> QED BY <1>1, <1>2, <2>2, <2>3 DEF OnlyOne
<1>10. NothingAstray'
  BY <1>2, <1>5 DEF NothingAstray
<1> QED BY <1>1, <1>2, <1>4, <1>6, <1>7, <1>8, <1>9, <1>10, FarKeeps

LEMMA FarKeepsAll == ASSUME IInv, Far PROVE IInv'
<1>1. up /\ UNCHANGED <<program, exit, up, installed>>
  BY DEF Far
<1>2. CASE EchoKey
  BY <1>1, <1>2, EchoKeyKeeps
<1>3. CASE Launch
  BY <1>1, <1>3, LaunchKeeps
<1>4. CASE NotInstalled
  BY <1>1, <1>4, NotInstalledKeeps
<1>5. CASE PasswordAtShell
  BY <1>1, <1>5, PasswordAtShellKeeps
<1>6. CASE Greet
  BY <1>1, <1>6, GreetKeeps
<1>7. CASE Ask
  BY <1>1, <1>7, AskKeeps
<1>8. CASE Trust
  BY <1>1, <1>8, TrustKeeps
<1>9. CASE Accept
  BY <1>1, <1>9, AcceptKeeps
<1>10. CASE NotASudoer
  BY <1>1, <1>10, NotASudoerKeeps
<1>11. CASE Deny
  BY <1>1, <1>11, DenyKeeps
<1>12. CASE Announce
  BY <1>1, <1>12, AnnounceKeeps
<1>13. CASE Execute
  BY <1>1, <1>13, ExecuteKeeps
<1> QED BY <1>2, <1>3, <1>4, <1>5, <1>6, <1>7, <1>8, <1>9, <1>10, <1>11, <1>12, <1>13 DEF Far

-------------------------------------------------------------------------------
(* The connection closes, the signal comes.                                    *)

LEMMA CloseKeeps == ASSUME IInv, Close PROVE IInv'
<1>1. /\ TypeOK /\ up' = FALSE /\ sent' = <<>> /\ out' \in {out, <<>>}
      /\ UNCHANGED <<program, exit, remote>> /\ Failing
  BY DEF Close, IInv
<1>2. ~Undisturbed'
  BY <1>1 DEF Undisturbed
<1>3. sent' \in Seq(Lines) /\ out' \in Seq(Items)
  <2>1. out \in Seq(Items)
    BY <1>1 DEF TypeOK
  <2>2. sent' \in Seq(Lines)
    BY <1>1, EmptySeq
  <2>3. CASE out' = out
    BY <2>1, <2>2, <2>3
  <2>4. CASE out' = <<>>
    BY <2>2, <2>4, EmptySeq
  <2> QED BY <1>1, <2>3, <2>4
<1>4. TypeOK'
  <2>1. up' \in BOOLEAN
    BY <1>1
  <2>2. UNCHANGED <<pc, next, call, retried, result, cache, late, exit, installed, far, did>>
    BY <1>1 DEF program, remote
  <2> QED BY <1>1, <1>3, <2>1, <2>2 DEF TypeOK
<1>5. Synchronising'
  BY <1>1 DEF Synchronising
<1>6. Writing' /\ Reading' /\ Ended' /\ NothingAstray'
  BY <1>2 DEF Writing, Reading, Ended, NothingAstray
<1>7. Failing'
  BY <1>1 DEF Failing, program
<1> QED BY <1>4, <1>5, <1>6, <1>7 DEF IInv

LEMMA SignalKeeps == ASSUME IInv, Signal PROVE IInv'
<1>1. /\ TypeOK /\ exit' = TRUE /\ Synchronising /\ Failing
      /\ UNCHANGED <<program, up, sent, out, remote>>
  BY DEF Signal, IInv
<1>2. ~Undisturbed'
  BY <1>1 DEF Undisturbed
<1>3. TypeOK'
  <2>1. exit' \in BOOLEAN
    BY <1>1
  <2> QED BY <1>1, <2>1 DEF TypeOK, program, remote
<1>4. Synchronising'
  BY <1>1 DEF Synchronising, program, remote
<1>5. Writing' /\ Reading' /\ Ended' /\ NothingAstray'
  BY <1>2 DEF Writing, Reading, Ended, NothingAstray
<1>6. Failing'
  BY <1>1 DEF Failing, program
<1> QED BY <1>3, <1>4, <1>5, <1>6 DEF IInv

-------------------------------------------------------------------------------
(* The steps of the program keep the invariant.                                *)

LEMMA ProgramKeeps ==
  ASSUME IInv, UNCHANGED <<exit, up, remote>>,
         pc' \in {"sync", "write", "reading", "after", "decide", "done"},
         next' \in {"write", "decide"}, call' \in RequestType, retried' \in BOOLEAN,
         result' \in {"BEGIN", "OKAY", "AUTH_FAIL", "ABORT"},
         cache' \in Passwords \cup {NoPassword}, late' \in 0..MaxLate,
         sent' \in Seq(Lines), out' \in Seq(Items),
         Synchronising', Writing', Reading', Ended', Failing'
  PROVE  IInv'
<1>1. TypeOK'
  BY DEF IInv, TypeOK, remote
<1>2. NothingAstray'
  BY DEF IInv, NothingAstray, Undisturbed, remote
<1> QED BY <1>1, <1>2 DEF IInv

LEMMA KnownHere ==
  ASSUME IInv, UNCHANGED <<exit, up, remote>>
  PROVE  /\ TypeOK /\ Len(sent) \in Nat /\ Len(out) \in Nat /\ Len(did.ran) \in Nat
         /\ sent \in Seq(Lines) /\ out \in Seq(Items)
         /\ far' = far /\ did' = did /\ up' = up /\ exit' = exit
         /\ Undisturbed' = Undisturbed
         /\ pc \in {"sync", "write", "reading", "after", "decide", "done"}
         /\ next \in {"write", "decide"} /\ call \in RequestType /\ retried \in BOOLEAN
         /\ result \in {"BEGIN", "OKAY", "AUTH_FAIL", "ABORT"}
         /\ cache \in Passwords \cup {NoPassword} /\ late \in 0..MaxLate
         /\ Synchronising /\ Writing /\ Reading /\ Ended /\ Failing
<1>1. did.ran \in Seq(Commands)
  BY DEF IInv, TypeOK
<1>2. TypeOK /\ Synchronising /\ Writing /\ Reading /\ Ended /\ Failing
  BY DEF IInv
<1>3. far' = far /\ did' = did /\ up' = up /\ exit' = exit
  BY DEF remote
<1>4. Undisturbed' = Undisturbed
  BY <1>3 DEF Undisturbed
<1> QED BY <1>1, <1>2, <1>3, <1>4, LenProperties DEF TypeOK

LEMMA SyncMatchKeeps == ASSUME IInv, SyncMatch PROVE IInv'
<1>1. /\ pc = "sync" /\ out # <<>> /\ Head(out) = "key" /\ pc' = next /\ out' = <<>>
      /\ UNCHANGED <<exit, up, remote>>
      /\ UNCHANGED <<next, call, retried, result, cache, late, sent>>
  BY DEF SyncMatch, SyncEnds
<1>2. /\ Synchronising /\ Ended /\ Failing /\ Undisturbed' = Undisturbed /\ out \in Seq(Items)
      /\ far' = far /\ did' = did
  BY <1>1, KnownHere
<1>3. ~Without(out, {"key"}) /\ Len(out') = 0 /\ out' \in Seq(Items)
  BY <1>1, <1>2, HeadIs, EmptySeq DEF Without
<1>4. Undisturbed => far = Shell /\ Len(sent) = 0
  BY <1>1, <1>2, <1>3 DEF Synchronising, Undisturbed
<1>5. Writing'
  BY <1>1, <1>2, <1>3, <1>4 DEF Writing, Failing, Ended, Dead
<1>6. Ended'
  BY <1>1, <1>2 DEF Ended, OnlyOne, Dead
<1>7. next \in {"write", "decide"}
  BY <1>1, KnownHere
<1>8. Synchronising' /\ Reading' /\ Failing'
  BY <1>1, <1>7 DEF Synchronising, Reading, Failing
<1> QED BY <1>1, <1>3, <1>5, <1>6, <1>7, <1>8, KnownHere, ProgramKeeps

LEMMA SyncSkipKeeps == ASSUME IInv, SyncSkip PROVE IInv'
<1>1. /\ pc = "sync" /\ out # <<>> /\ Head(out) # "key"
      /\ IF exit THEN pc' = next /\ out' = <<>> ELSE out' = Tail(out) /\ pc' = pc
      /\ UNCHANGED <<exit, up, remote>>
      /\ UNCHANGED <<next, call, retried, result, cache, late, sent>>
  BY DEF SyncSkip, SyncEnds
<1>2. /\ Synchronising /\ Ended /\ Failing /\ Undisturbed' = Undisturbed /\ out \in Seq(Items)
      /\ far' = far /\ did' = did /\ next \in {"write", "decide"} /\ up' = up
  BY <1>1, KnownHere
<1>3. Without(out, {"key"}) => Without(Tail(out), {"key"})
  BY <1>1, <1>2, TailWithout
<1>4. out' \in Seq(Items)
  BY <1>1, <1>2, HeadIs, EmptySeq
<1>5. exit => ~Undisturbed
  BY DEF Undisturbed
<1>6. Writing' /\ Reading'
  BY <1>1, <1>2, <1>5 DEF Writing, Reading
<1>7. Ended'
  BY <1>1, <1>2, <1>5 DEF Ended, OnlyOne, Dead
<1>8. Synchronising'
  <2>1. CASE exit
    BY <1>1, <1>2, <2>1 DEF Synchronising
  <2>2. CASE ~exit
    <3>1. pc' = pc /\ out' = Tail(out) /\ sent' = sent
      BY <1>1, <2>2
    <3> QED BY <1>1, <1>2, <1>3, <3>1 DEF Synchronising
  <2> QED BY <2>1, <2>2
<1>9. Failing'
  BY <1>1, <1>2 DEF Failing
<1>10. pc' \in {"sync", "write", "decide"}
  BY <1>1, <1>2
<1> QED BY <1>1, <1>4, <1>6, <1>7, <1>8, <1>9, <1>10, KnownHere, ProgramKeeps

\* A key is sent when the program is past its loop: what the far end can still
\* do is what it could.
LEMMA SendKeyEnded ==
  ASSUME IInv, UNCHANGED <<exit, up, remote>>, SendKey, pc \notin {"write", "reading"},
         result' = result
  PROVE  Ended'
<1>1. /\ TypeOK /\ Ended /\ Undisturbed' = Undisturbed /\ far' = far /\ did' = did
      /\ Len(sent) \in Nat
  BY KnownHere
<1>2. /\ Without(sent, Passwords) => Without(sent', Passwords)
      /\ Without(sent, Commands) => Without(sent', Commands)
  BY <1>1, SendKeyIs
<1>3. /\ Len(sent) > 0 /\ sent[1] \in Commands => Len(sent') > 0 /\ sent'[1] = sent[1]
      /\ (Len(sent) > 0 /\ \A i \in 2..Len(sent) : sent[i] \notin Commands)
            => \A i \in 2..Len(sent') : sent'[i] \notin Commands
  BY <1>1, SendKeyIs
<1> QED BY <1>1, <1>2, <1>3 DEF Ended, OnlyOne, Dead

LEMMA SendKeySynchronising ==
  ASSUME IInv, UNCHANGED <<exit, up, remote>>, SendKey
  PROVE  Synchronising' /\ sent' \in Seq(Lines) /\ out' \in Seq(Items)
BY KnownHere, SendKeyIs DEF Synchronising

LEMMA SyncTimeoutKeeps == ASSUME IInv, SyncTimeout PROVE IInv'
<1>1. /\ pc = "sync" /\ pc' = pc /\ SendKey
      /\ (late < MaxLate /\ late' = late + 1) \/ late' = late
      /\ UNCHANGED <<exit, up, remote>>
      /\ UNCHANGED <<next, call, retried, result, cache>>
  BY DEF SyncTimeout
<1>2. late' \in 0..MaxLate
  BY <1>1, KnownHere, SSHCommandAssumption
<1>3. Ended' /\ Synchronising' /\ sent' \in Seq(Lines) /\ out' \in Seq(Items)
  BY <1>1, SendKeyEnded, SendKeySynchronising
<1>4. Writing' /\ Reading'
  BY <1>1 DEF Writing, Reading
<1>5. Failing'
  BY <1>1, KnownHere DEF Failing
<1> QED BY <1>1, <1>2, <1>3, <1>4, <1>5, KnownHere, ProgramKeeps

LEMMA SyncClosedKeeps == ASSUME IInv, SyncClosed PROVE IInv'
<1>1. /\ pc = "sync" /\ ~up /\ pc' = next /\ out' = <<>>
      /\ UNCHANGED <<exit, up, remote>>
      /\ UNCHANGED <<next, call, retried, result, cache, late, sent>>
  BY DEF SyncClosed, SyncEnds
<1>2. next \in {"write", "decide"} /\ ~Undisturbed'
  BY <1>1, KnownHere DEF Undisturbed
<1>3. out' \in Seq(Items)
  BY <1>1, EmptySeq
<1>4. Writing' /\ Reading' /\ Ended'
  BY <1>2 DEF Writing, Reading, Ended
<1>5. Synchronising' /\ Failing'
  BY <1>1, <1>2 DEF Synchronising, Failing
<1> QED BY <1>1, <1>2, <1>3, <1>4, <1>5, KnownHere, ProgramKeeps

LEMMA WriteCommandKeeps == ASSUME IInv, WriteCommand PROVE IInv'
<1>1. /\ pc = "write" /\ UNCHANGED <<exit, up, remote>>
      /\ UNCHANGED <<next, call, retried, cache, late, out>>
      /\ sent' = IF Method \in Found \cup {"plain"} THEN Write(Method) ELSE sent
      /\ IF Method = "plain" THEN pc' = "after" /\ result' = "OKAY"
                             ELSE pc' = "reading" /\ result' = "BEGIN"
  BY DEF WriteCommand
<1>2. /\ TypeOK /\ Writing /\ Undisturbed' = Undisturbed /\ far' = far /\ did' = did
      /\ sent \in Seq(Lines) /\ out \in Seq(Items)
  BY <1>1, KnownHere
<1>3. Method \in Commands /\ Method \in Lines /\ (Method # "plain" => Method \in Tools)
  BY MethodIs, LineFacts
<1>4. sent' \in Seq(Lines)
  BY <1>1, <1>2, <1>3, WriteIs
<1>5. ASSUME Undisturbed
      PROVE  /\ far = Shell /\ Len(out) = 0 /\ did.ran = <<>>
             /\ Len(sent') = 0 \/ (Len(sent') = 1 /\ sent'[1] = Method)
             /\ Method = "plain" => Len(sent') = 1
  <2>1. far = Shell /\ Len(sent) = 0 /\ Len(out) = 0 /\ did.ran = <<>> /\ up
    BY <1>1, <1>2, <1>5 DEF Writing, Undisturbed
  <2>2. Len(Write(Method)) = 1 /\ Write(Method)[1] = Method
    BY <1>2, <1>3, <2>1, WriteIs
  <2> QED BY <1>1, <2>1, <2>2
<1>6. Reading'
  BY <1>1, <1>2, <1>3, <1>5 DEF Reading, Launching
<1>7. ASSUME Undisturbed, Method = "plain" PROVE Without(sent', Passwords) /\ OnlyOne'
  <2>1. Len(sent') = 1 /\ sent'[1] = "plain" /\ far = Shell /\ did.ran = <<>>
    BY <1>5, <1>7
  <2>2. "plain" \in Commands /\ "plain" \notin Passwords
    BY LineFacts
  <2> QED BY <1>2, <2>1, <2>2 DEF Without, OnlyOne
<1>8. Ended'
  BY <1>1, <1>2, <1>7 DEF Ended
<1>9. Synchronising' /\ Writing' /\ Failing'
  BY <1>1 DEF Synchronising, Writing, Failing
<1> QED BY <1>1, <1>2, <1>4, <1>6, <1>8, <1>9, KnownHere, ProgramKeeps

\* What the program reads, and where that leaves it.
LEMMA ReadKeeps ==
  ASSUME IInv, UNCHANGED <<exit, up, remote>>, NEW items, AtItem(items), out' = Tail(out),
         UNCHANGED <<next, call, retried, late>>,
         pc' \in {"reading", "after"}, result' \in {"BEGIN", "OKAY", "AUTH_FAIL", "ABORT"},
         cache' \in Passwords \cup {NoPassword}, sent' \in Seq(Lines),
         pc' = "reading" => Reading', pc' = "after" => Ended'
  PROVE  IInv'
<1>1. out' \in Seq(Items)
  BY KnownHere, ItemIs
<1>2. Synchronising' /\ Writing' /\ Failing'
  BY DEF Synchronising, Writing, Failing
<1>3. Reading' /\ Ended'
  BY DEF Reading, Ended
<1> QED BY <1>1, <1>2, <1>3, KnownHere, ProgramKeeps

LEMMA ReadPromptKeeps == ASSUME IInv, ReadPrompt PROVE IInv'
<1>1. /\ AtItem({"prompt"}) /\ UNCHANGED <<exit, up, remote>> /\ UNCHANGED <<next, call, retried, late>>
      /\ cache' \in Passwords \cup {NoPassword} /\ sent' = Write(cache') /\ out' = Tail(out)
      /\ IF cache' = NoPassword THEN result' = "ABORT" /\ pc' = "after"
         ELSE result' = "OKAY" /\ pc' = IF exit THEN "after" ELSE "reading"
  BY DEF ReadPrompt, Continue, IInv, TypeOK
<1>2. /\ TypeOK /\ Reading /\ Undisturbed' = Undisturbed /\ far' = far /\ did' = did /\ pc = "reading"
  BY <1>1, KnownHere DEF AtItem
<1>3. Len(out) \in Nat /\ Len(out) > 0 /\ out[1] = "prompt" /\ Len(out') = Len(out) - 1
  BY <1>1, <1>2, ItemIs
<1>4. cache' \in Lines
  BY <1>1, LineFacts
<1>5. sent' \in Seq(Lines)
  BY <1>1, <1>2, <1>4, WriteIs
<1>6. ASSUME Undisturbed
      PROVE  /\ did.ran = <<>> /\ far.tool \in Tools /\ far.at = "asking"
             /\ Len(sent') = 1 /\ sent'[1] = cache' /\ Len(out') = 0
  <2>1. did.ran = <<>> /\ far.tool \in Tools /\ far.at = "asking" /\ Len(sent) = 0 /\ Len(out) = 1
    BY <1>2, <1>3, <1>6 DEF Reading, Launching, AtWork, Silent, Leads, Ends
  <2> QED BY <1>1, <1>2, <1>3, <1>4, <1>6, <2>1, WriteIs DEF Undisturbed
<1>7. ASSUME pc' = "reading" PROVE Reading'
  BY <1>1, <1>2, <1>6, <1>7, LineFacts DEF Reading, AtWork
<1>8. ASSUME pc' = "after" PROVE Ended'
  <2>1. SUFFICES ASSUME Undisturbed PROVE Without(sent', Passwords) /\ result' = "ABORT" /\ Dead'
    BY <1>2 DEF Ended
  <2>2. cache' = NoPassword /\ result' = "ABORT"
    BY <1>1, <1>8, <2>1 DEF Undisturbed
  <2>3. Without(sent', Passwords) /\ Without(sent', Commands)
    <3>1. Len(sent') = 1 /\ sent'[1] \notin Passwords /\ sent'[1] \notin Commands
      BY <1>6, <2>1, <2>2, LineFacts
    <3> QED BY <3>1 DEF Without
  <2> QED BY <1>2, <1>6, <2>1, <2>2, <2>3 DEF Dead
<1>9. pc' \in {"reading", "after"} /\ result' \in {"BEGIN", "OKAY", "AUTH_FAIL", "ABORT"}
  BY <1>1
<1> QED BY <1>1, <1>5, <1>7, <1>8, <1>9, ReadKeeps

LEMMA ReadRefusalKeeps == ASSUME IInv, ReadRefusal PROVE IInv'
<1>1. /\ AtItem({"refused"}) /\ UNCHANGED <<exit, up, remote>> /\ UNCHANGED <<next, call, retried, late>>
      /\ out' = Tail(out) /\ UNCHANGED <<cache, sent>> /\ result' = "AUTH_FAIL" /\ pc' = "after"
  BY DEF ReadRefusal
<1>2. /\ TypeOK /\ Reading /\ Undisturbed' = Undisturbed /\ far' = far /\ did' = did /\ pc = "reading"
      /\ cache \in Passwords \cup {NoPassword} /\ sent \in Seq(Lines)
  BY <1>1, KnownHere DEF AtItem
<1>3. Len(out) \in Nat /\ Len(out) > 0 /\ out[1] = "refused"
  BY <1>1, <1>2, ItemIs
<1>4. Ended'
  <2>1. SUFFICES ASSUME Undisturbed PROVE Without(sent, Passwords) /\ Dead
    BY <1>1, <1>2 DEF Ended, Dead
  <2>2. did.ran = <<>> /\ far.at \in {"ready", "asking", "denied"} /\ Len(sent) = 0
    BY <1>2, <1>3, <2>1, ShellIs DEF Reading, Launching, AtWork, Silent, Leads, Ends
  <2> QED BY <2>2 DEF Without, Dead
<1> QED BY <1>1, <1>2, <1>4, ReadKeeps

LEMMA ReadStartedKeeps == ASSUME IInv, ReadStarted PROVE IInv'
<1>1. /\ AtItem({"cmd-run"}) /\ UNCHANGED <<exit, up, remote>> /\ UNCHANGED <<next, call, retried, late>>
      /\ out' = Tail(out) /\ UNCHANGED <<cache, sent>> /\ result' = "OKAY" /\ pc' = "after"
  BY DEF ReadStarted
<1>2. /\ TypeOK /\ Reading /\ Undisturbed' = Undisturbed /\ far' = far /\ did' = did /\ pc = "reading"
      /\ cache \in Passwords \cup {NoPassword} /\ sent \in Seq(Lines)
  BY <1>1, KnownHere DEF AtItem
<1>3. Len(out) \in Nat /\ Len(out) > 0 /\ out[1] = "cmd-run"
  BY <1>1, <1>2, ItemIs
<1>4. Ended'
  <2>1. SUFFICES ASSUME Undisturbed PROVE Without(sent, Passwords) /\ OnlyOne
    BY <1>1, <1>2 DEF Ended, OnlyOne
  <2>2. /\ did.ran = <<>> \/ (Len(did.ran) = 1 /\ far.at \in {"ready", "linked"})
        /\ Len(sent) = 0
    BY <1>2, <1>3, <2>1 DEF Reading, Launching, AtWork, Silent, Leads, Ends
  <2> QED BY <2>2 DEF Without, OnlyOne
<1> QED BY <1>1, <1>2, <1>4, ReadKeeps

LEMMA ReadDoneKeeps == ASSUME IInv, ReadDone PROVE IInv'
<1>1. /\ AtItem({"done"}) /\ UNCHANGED <<exit, up, remote>> /\ UNCHANGED <<next, call, retried, late>>
      /\ out' = Tail(out) /\ UNCHANGED <<cache, sent, result>> /\ pc' = "after"
  BY DEF ReadDone
<1>2. /\ TypeOK /\ Reading /\ Undisturbed' = Undisturbed /\ far' = far /\ did' = did /\ pc = "reading"
      /\ cache \in Passwords \cup {NoPassword} /\ sent \in Seq(Lines)
      /\ result \in {"BEGIN", "OKAY", "AUTH_FAIL", "ABORT"}
  BY <1>1, KnownHere DEF AtItem
<1>3. Len(out) \in Nat /\ Len(out) > 0 /\ out[1] = "done"
  BY <1>1, <1>2, ItemIs
<1>4. Ended'
  <2>1. SUFFICES ASSUME Undisturbed PROVE Without(sent, Passwords) /\ Dead /\ OnlyOne
    BY <1>1, <1>2 DEF Ended, Dead, OnlyOne
  <2>2. did.ran = <<>> /\ far = Shell /\ Len(sent) = 0
    BY <1>2, <1>3, <2>1 DEF Reading, Launching, AtWork, Silent, Leads, Ends
  <2> QED BY <2>2, ShellIs DEF Without, Dead, OnlyOne
<1> QED BY <1>1, <1>2, <1>4, ReadKeeps

LEMMA ReadOtherKeeps == ASSUME IInv, ReadOther PROVE IInv'
<1>1. /\ AtItem({"text"} \cup Keys) /\ UNCHANGED <<exit, up, remote>>
      /\ UNCHANGED <<next, call, retried, late>>
      /\ out' = Tail(out) /\ UNCHANGED <<cache, sent, result>>
      /\ pc' = IF exit THEN "after" ELSE "reading"
  BY DEF ReadOther, Continue
<1>2. /\ TypeOK /\ Reading /\ Undisturbed' = Undisturbed /\ far' = far /\ did' = did /\ pc = "reading"
      /\ cache \in Passwords \cup {NoPassword} /\ sent \in Seq(Lines) /\ out \in Seq(Items)
      /\ result \in {"BEGIN", "OKAY", "AUTH_FAIL", "ABORT"}
  BY <1>1, KnownHere DEF AtItem
<1>3. Len(out) \in Nat /\ Len(out) > 0 /\ out[1] \in {"text", "key", "old"} /\ Len(out') = Len(out) - 1
  BY <1>1, <1>2, ItemIs, LineFacts
<1>4. out # <<>>
  BY <1>1 DEF AtItem
<1>5. \A x \in {"prompt", "refused", "cmd-run", "done"} :
         (Leads(out, x) => Leads(out', x)) /\ (Ends(out, x) => Ends(out', x))
  BY <1>1, <1>2, <1>3, <1>4, TailLeads
<1>6. Silent(out) => Silent(out')
  BY <1>3 DEF Silent
<1>7. Undisturbed => Reading'
  <2>1. SUFFICES ASSUME Undisturbed PROVE Reading'
    OBVIOUS
  <2>2. CASE did.ran = <<>> /\ Launching
    BY <1>3, <2>2 DEF Launching
  <2>3. CASE did.ran = <<>> /\ far.tool \in Tools /\ AtWork
    <3>1. AtWork'
      BY <1>1, <1>2, <1>3, <1>5, <1>6, <2>3 DEF AtWork
    <3> QED BY <1>2, <2>3, <3>1 DEF Reading
  <2>4. CASE did.ran = <<>> /\ far = Shell /\ Len(sent) = 0 /\ (Leads(out, "done") \/ Leads(out, "refused"))
    BY <1>1, <1>2, <1>5, <2>4 DEF Reading
  <2>5. CASE Len(did.ran) = 1 /\ far.at \in {"ready", "linked"} /\ Len(sent) = 0 /\ Leads(out, "cmd-run")
    BY <1>1, <1>2, <1>5, <2>5 DEF Reading
  <2> QED BY <1>2, <2>1, <2>2, <2>3, <2>4, <2>5 DEF Reading
<1>8. Reading'
  BY <1>2, <1>7 DEF Reading
<1>9. pc' = "after" => Ended'
  BY <1>1, <1>2 DEF Ended, Undisturbed
<1>10. pc' \in {"reading", "after"}
  BY <1>1
<1> QED BY <1>1, <1>2, <1>8, <1>9, <1>10, ReadKeeps

LEMMA ReadNothingKeeps == ASSUME IInv, ReadNothing PROVE IInv'
<1>1. /\ pc = "reading" /\ (exit \/ ~up) /\ pc' = "after" /\ UNCHANGED <<exit, up, remote>>
      /\ UNCHANGED <<next, call, retried, result, cache, late, sent, out>>
  BY DEF ReadNothing
<1>2. ~Undisturbed'
  BY <1>1, KnownHere DEF Undisturbed
<1>3. Synchronising' /\ Writing' /\ Reading' /\ Ended' /\ Failing'
  BY <1>1, <1>2 DEF Synchronising, Writing, Reading, Ended, Failing
<1>4. sent' \in Seq(Lines) /\ out' \in Seq(Items)
  BY <1>1, KnownHere
<1> QED BY <1>1, <1>3, <1>4, KnownHere, ProgramKeeps

LEMMA EndTryKeeps == ASSUME IInv, EndTry PROVE IInv'
<1>1. /\ pc = "after" /\ UNCHANGED <<exit, up, remote>>
      /\ UNCHANGED <<call, retried, result, cache, late>>
  BY DEF EndTry
<1>2. CASE pc' = "decide" /\ UNCHANGED <<next, sent, out>>
  <2>1. Ended'
    BY <1>1, <1>2, KnownHere DEF Ended, OnlyOne, Dead
  <2>2. Synchronising' /\ Writing' /\ Reading' /\ Failing'
    BY <1>2 DEF Synchronising, Writing, Reading, Failing
  <2>3. sent' \in Seq(Lines) /\ out' \in Seq(Items)
    BY <1>1, <1>2, KnownHere
  <2> QED BY <1>1, <1>2, <2>1, <2>2, <2>3, KnownHere, ProgramKeeps
<1>3. CASE pc' = "sync" /\ next' = "decide" /\ SendKey
  <2>1. Ended' /\ Synchronising' /\ sent' \in Seq(Lines) /\ out' \in Seq(Items)
    BY <1>1, <1>3, SendKeyEnded, SendKeySynchronising
  <2>2. Writing' /\ Reading' /\ Failing'
    BY <1>3 DEF Writing, Reading, Failing
  <2> QED BY <1>1, <1>3, <2>1, <2>2, KnownHere, ProgramKeeps
<1> QED BY <1>2, <1>3 DEF EndTry

LEMMA DecideKeeps == ASSUME IInv, Decide PROVE IInv'
<1>1. pc = "decide" /\ UNCHANGED <<exit, up, remote>> /\ UNCHANGED <<result, cache, late>>
  BY DEF Decide
<1>2. CASE result = "OKAY" \/ retried
  <2>0. pc' = "done" /\ UNCHANGED <<next, call, retried, sent, out>>
    BY <1>2 DEF Decide
  <2>1. Ended'
    BY <1>1, <2>0, KnownHere DEF Ended, OnlyOne, Dead
  <2>2. Synchronising' /\ Writing' /\ Reading' /\ Failing'
    BY <2>0 DEF Synchronising, Writing, Reading, Failing
  <2>3. sent' \in Seq(Lines) /\ out' \in Seq(Items)
    BY <1>1, <2>0, KnownHere
  <2> QED BY <1>1, <2>0, <2>1, <2>2, <2>3, KnownHere, ProgramKeeps
<1>3. CASE ~(result = "OKAY" \/ retried)
  <2>0. /\ pc' = "sync" /\ next' = "write" /\ retried' = TRUE /\ SendKey
        /\ call' = [call EXCEPT !.flags = @ \ {"SUDO"}] /\ result # "OKAY"
    BY <1>3 DEF Decide
  <2>1. Ended' /\ Synchronising' /\ sent' \in Seq(Lines) /\ out' \in Seq(Items)
    BY <1>1, <2>0, SendKeyEnded, SendKeySynchronising
  <2>2. call' \in RequestType
    BY <1>1, <2>0, KnownHere DEF RequestType
  <2>3. retried' \in BOOLEAN
    BY <2>0
  <2>4. Writing' /\ Reading' /\ Failing'
    BY <1>1, <2>0 DEF Writing, Reading, Failing
  <2> QED BY <1>1, <2>0, <2>1, <2>2, <2>3, <2>4, KnownHere, ProgramKeeps
<1> QED BY <1>2, <1>3

LEMMA ProgramKeepsAll == ASSUME IInv, Program PROVE IInv'
BY SyncMatchKeeps, SyncSkipKeeps, SyncTimeoutKeeps, SyncClosedKeeps, WriteCommandKeeps,
   ReadPromptKeeps, ReadRefusalKeeps, ReadStartedKeeps, ReadDoneKeeps, ReadOtherKeeps,
   ReadNothingKeeps, EndTryKeeps, DecideKeeps DEF Program

-------------------------------------------------------------------------------
(* The theorems.                                                               *)

LEMMA InitHolds == ASSUME Init PROVE IInv
<1>1. <<"key">> \in Seq(Lines) /\ Len(<<"key">>) = 1 /\ <<"key">>[1] = "key"
  BY LineFacts
<1>2. out \in Seq(Items) /\ Without(out, {"key"})
  <2>1. <<>> \in Seq(Items) /\ Without(<<>>, {"key"}) /\ <<"text">> \in Seq(Items) /\ Without(<<"text">>, {"key"})
    BY DEF Items, Without
  <2> QED BY <2>1 DEF Init
<1>3. did = [ran |-> <<>>, astray |-> {}] /\ did \in Histories /\ did.ran = <<>> /\ did.astray = {}
  BY EmptySeq DEF Init, Histories
<1>4. /\ pc = "sync" /\ next = "write" /\ call \in Requests /\ retried = FALSE
      /\ result = "BEGIN" /\ cache = NoPassword /\ exit = FALSE /\ up = TRUE
      /\ sent = <<"key">> /\ late = 0 /\ installed \in SUBSET Tools /\ far = Shell
  BY DEF Init
<1>5. TypeOK
  <2>1. exit \in BOOLEAN /\ up \in BOOLEAN /\ retried \in BOOLEAN
    BY <1>4
  <2>2. late \in 0..MaxLate /\ call \in RequestType
    BY <1>4, SSHCommandAssumption
  <2>3. far \in Places
    BY <1>4, ShellIs
  <2> QED BY <1>1, <1>2, <1>3, <1>4, <2>1, <2>2, <2>3 DEF TypeOK, Places, Steps, Histories
<1>6. Synchronising /\ Writing /\ Reading /\ Failing /\ NothingAstray
  BY <1>1, <1>2, <1>3, <1>4 DEF Synchronising, Writing, Reading, Failing, NothingAstray
<1>7. Without(sent, Passwords) /\ Without(sent, Commands)
  BY <1>1, <1>4, LineFacts DEF Without
<1>8. Ended
  BY <1>3, <1>4, <1>7, ShellIs DEF Ended, Dead
<1> QED BY <1>5, <1>6, <1>8 DEF IInv

LEMMA NextKeeps == ASSUME IInv, [Next]_vars PROVE IInv'
<1>1. CASE Program
  BY <1>1, ProgramKeepsAll
<1>2. CASE Far
  BY <1>2, FarKeepsAll
<1>3. CASE Close
  BY <1>3, CloseKeeps
<1>4. CASE Signal
  BY <1>4, SignalKeeps
<1>5. CASE UNCHANGED vars
  <2>1. UNCHANGED <<exit, up, remote>> /\ UNCHANGED <<pc, next, call, retried, result, cache, late, sent, out>>
    BY <1>5 DEF vars, program
  <2>2. Synchronising' /\ Writing' /\ Failing'
    BY <2>1, KnownHere DEF Synchronising, Writing, Failing
  <2>3. Reading'
    <3>1. Reading /\ Undisturbed' = Undisturbed /\ far' = far /\ did' = did
      BY <2>1, KnownHere
    <3>2. (Launching <=> Launching') /\ (AtWork <=> AtWork')
      BY <2>1, <3>1 DEF Launching, AtWork
    <3> QED BY <2>1, <3>1, <3>2 DEF Reading
  <2>4. Ended'
    BY <2>1, KnownHere DEF Ended, OnlyOne, Dead
  <2> QED BY <2>1, <2>2, <2>3, <2>4, KnownHere, ProgramKeeps
<1> QED BY <1>1, <1>2, <1>3, <1>4, <1>5 DEF Next

LEMMA Invariant == Spec => []IInv
<1>1. Init => IInv
  BY InitHolds
<1>2. IInv /\ [Next]_vars => IInv'
  BY NextKeeps
<1> QED BY <1>1, <1>2, PTL DEF Spec

\* Every variable keeps its type: what the program writes to the connection and
\* reads from it are lines and items, the keys' count stays within its bound.
THEOREM TypeCorrect == Spec => []TypeOK
<1>1. IInv => TypeOK
  BY DEF IInv
<1> QED BY <1>1, Invariant, PTL

\* SSHVpnSync does what it is for: when a command is about to be written, the
\* remote shell reads its terminal and nothing old is under way.
THEOREM SyncCleans == Spec => []SyncIsClean
<1>1. ASSUME IInv PROVE SyncIsClean
  <2>1. Writing /\ sent \in Seq(Lines) /\ out \in Seq(Items)
    BY <1>1 DEF IInv, TypeOK
  <2> QED BY <2>1, EmptyIs DEF Writing, SyncIsClean
<1> QED BY <1>1, Invariant, PTL

\* No command is taken for a password by sudo or su, no password for a command
\* by the shell.
THEOREM NothingGoesAstray == Spec => []NothingAstray
<1>1. IInv => NothingAstray
  BY DEF IInv
<1> QED BY <1>1, Invariant, PTL

\* SSHVpnRunCommand's two tries execute the command at most once, and not at all
\* when it returns FALSE.
THEOREM RunsAtMostOnce == Spec => []AtMostOnce
<1>1. ASSUME IInv PROVE AtMostOnce
  <2>1. SUFFICES ASSUME Undisturbed
                 PROVE Len(did.ran) <= 1 /\ (pc = "done" /\ result # "OKAY" => did.ran = <<>>)
    BY DEF AtMostOnce
  <2>2. did.ran \in Seq(Commands)
    BY <1>1 DEF IInv, TypeOK
  <2>3. pc = "write" => did.ran = <<>>
    BY <1>1, <2>1 DEF IInv, Writing
  <2>4. pc = "reading" => did.ran = <<>> \/ Len(did.ran) = 1
    BY <1>1, <2>1 DEF IInv, Reading
  <2>5. pc \notin {"write", "reading"} =>
          /\ did.ran = <<>> \/ Len(did.ran) = 1
          /\ result # "OKAY" => did.ran = <<>>
    BY <1>1, <2>1 DEF IInv, Ended, OnlyOne, Dead
  <2>6. Len(did.ran) \in Nat /\ (did.ran = <<>> => Len(did.ran) = 0)
    BY <2>2, EmptyIs
  <2>7. did.ran = <<>> \/ Len(did.ran) = 1
    BY <2>3, <2>4, <2>5
  <2>8. Len(did.ran) = 0 \/ Len(did.ran) = 1
    BY <2>6, <2>7
  <2>9. Len(did.ran) <= 1
    <3> DEFINE n == Len(did.ran)
    <3>1. n \in Nat /\ (n = 0 \/ n = 1)
      BY <2>6, <2>8
    <3> HIDE DEF n
    <3>2. n <= 1
      BY <3>1
    <3> QED BY <3>2 DEF n
  <2> QED BY <2>5, <2>9
<1> QED BY <1>1, Invariant, PTL

===============================================================================
