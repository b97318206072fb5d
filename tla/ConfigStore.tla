------------------------------ MODULE ConfigStore ------------------------------
(* The saved configurations (vpn_config.c): 'add' and 'conf' write them, 'del' *)
(* removes them and 'connect' reads them.  Each command is a process of its    *)
(* own, which may be killed between any two steps; nothing locks the files.    *)
(*                                                                             *)
(* A configuration has its directory, with the text <name>.conf and the copy   *)
(* 'add' takes of a certificate: ClientCert stands for ClientKey and           *)
(* VerifyCert too, which are handled alike, and so are the files' names sorted *)
(* behind the text's.  The text is short enough to wait in the stream's buffer *)
(* until it is closed: a longer one would go to the file in pieces.            *)
EXTENDS Naturals, Sequences

CONSTANTS
    Names,      \* the names of configurations, none of them empty
    Procs,      \* vpn_mgr processes that may run at the same time
    Certs,      \* contents of certificate files
    Values,     \* of settings; "unset" is none
    Settings    \* what the command line may set

VARIABLES
    orig,       \* the certificate file of the user, or "gone" with his other files
    dir,        \* the names that have a directory
    conf,       \* the text of each name
    copy,       \* each name's copy: "gone", "part" or a certificate
    pc, name,   \* what each process does, and the name it was given
    asked,      \* the settings it was given
    data,       \* the certificate it copies, "none", or "short": the copy failed
    todo,       \* the files it has still to delete
    open,       \* the file it has open has not been deleted
    alone,      \* no other command on the name ran beside it
    meant,      \* what the last command on a name was to leave, if it ran alone
                \* and to its end
    fresh       \* when a name was last written nothing was saved under it, and
                \* since then no command on it ran beside another, nor did a copy
                \* fail

disk == <<orig, dir, conf, copy>>
own == <<name, asked, data, todo, open>>
proc == <<pc, own, alone>>
told == <<meant, fresh>>
vars == <<disk, proc, told>>

-------------------------------------------------------------------------------
(* The text: what WriteConfig writes of the settings, in the order of Keys.     *)

Keys == <<"Server", "ClientCert", "ConfFile", "Password", "Timeout", "Protocol",
          "LocalSU", "RemoteSU">>
KeySet == {Keys[i] : i \in DOMAIN Keys}

Before(k, l) == \E i, j \in DOMAIN Keys : i < j /\ Keys[i] = k /\ Keys[j] = l

\* ClientCert is the path of the user's own file, or of the copy.
ASSUME SettingsAssumption ==
    /\ {"unset", "given", "copy"} \subseteq Values
    /\ Settings \subseteq [KeySet -> Values]
    /\ \A v \in Settings : v["ClientCert"] \in {"unset", "given", "copy"}

ASSUME CertsAssumption == Certs \cap {"none", "gone", "part", "short"} = {}

\* What is not set is not written.
Text(v) == [key \in {k \in KeySet : v[k] # "unset"} |-> v[key]]

Blank == [key \in {} |-> "unset"]

\* 'Timeout' is written without its newline: what follows is on its line, within
\* its value.
Begins(text, key) ==
    "Timeout" \in DOMAIN text /\ Before("Timeout", key) =>
        \E k \in DOMAIN text : Before("Timeout", k) /\ Before(k, key)

\* GetNameValuePair: a value ends at its first space outside of quotes, and the
\* quotes around it go.
Value(x) == CASE x = "two words" -> "two"
              [] x = "'word'" -> "word"
              [] x = "'two words'" -> "two words"
              [] OTHER -> x

Meaning(text) ==
    [key \in KeySet |->
        IF key \in DOMAIN text /\ Begins(text, key) THEN Value(text[key]) ELSE "unset"]

\* ReadConfig, for a 'connect' that is given no options.
ReadConfig(n) == Meaning(conf[n].text)

\* main(): without a server there is no connection.
Connects(n) == conf[n].there /\ ReadConfig(n)["Server"] # "unset"

-------------------------------------------------------------------------------
NoText == [there |-> FALSE, torn |-> FALSE, text |-> Blank]

\* What a command was to leave: unknown, nothing, or settings and a certificate.
Unknown == [kind |-> "unknown"]
Nothing == [kind |-> "nothing"]
Saved(v, cert) == [kind |-> "saved", v |-> v, cert |-> cert]

Init ==
    /\ orig \in Certs \cup {"gone"} /\ dir = {}
    /\ conf = [n \in Names |-> NoText] /\ copy = [n \in Names |-> "gone"]
    /\ pc = [p \in Procs |-> "idle"] /\ name \in [Procs -> Names]
    /\ asked \in [Procs -> Settings] /\ data = [p \in Procs |-> "none"]
    /\ todo = [p \in Procs |-> {}] /\ open = [p \in Procs |-> FALSE]
    /\ alone = [p \in Procs |-> TRUE]
    /\ meant = [n \in Names |-> Unknown] /\ fresh = [n \in Names |-> TRUE]

Beside(p, n) == {q \in Procs \ {p} : pc[q] # "idle" /\ name[q] = n}

Files(n) == {f \in {"conf", "copy"} : IF f = "conf" THEN conf[n].there ELSE copy[n] # "gone"}

\* p starts to work on n.
Begin(p, n) ==
    /\ pc[p] = "idle"
    /\ name' = [name EXCEPT ![p] = n]
    /\ alone' = [q \in Procs |-> IF q = p THEN Beside(p, n) = {}
                                 ELSE alone[q] /\ q \notin Beside(p, n)]
    /\ meant' = [meant EXCEPT ![n] = Unknown]
    /\ data' = [data EXCEPT ![p] = "none"] /\ open' = [open EXCEPT ![p] = FALSE]

Writes(p, n) ==
    /\ Begin(p, n)
    /\ \E v \in Settings :
         /\ asked' = [asked EXCEPT ![p] = v]
         /\ fresh' = [fresh EXCEPT ![n] =
                        Files(n) = {} /\ Beside(p, n) = {} /\ v["ClientCert"] # "copy"]
    /\ UNCHANGED <<orig, conf, copy, todo>>

\* 'add <name> <url>'
AddConfig(p, n) ==
    /\ Writes(p, n) /\ pc' = [pc EXCEPT ![p] = "copy"] /\ dir' = dir \cup {n}

\* 'conf <name> <url>'
Config(p, n) ==
    /\ Writes(p, n) /\ pc' = [pc EXCEPT ![p] = "write"] /\ UNCHANGED dir

Goes(p, at) == pc' = [pc EXCEPT ![p] = at] /\ UNCHANGED <<name, asked, todo, alone, told>>

Given(p) == CASE asked[p]["ClientCert"] = "given" -> orig
              [] asked[p]["ClientCert"] = "copy" -> copy[name[p]]
              [] OTHER -> "gone"

\* PathValid: there is no certificate to copy.
NoCopy(p) ==
    /\ pc[p] = "copy" /\ Given(p) = "gone"
    /\ Goes(p, "write") /\ UNCHANGED <<disk, data, open>>

\* FileCopy opens the one and empties the other, and they may be the same.
CopyOpens(p) ==
    /\ pc[p] = "copy" /\ Given(p) # "gone"
    /\ data' = [data EXCEPT ![p] = IF asked[p]["ClientCert"] = "copy" THEN "part" ELSE orig]
    /\ copy' = [copy EXCEPT ![name[p]] = IF name[p] \in dir THEN "part" ELSE @]
    /\ open' = [open EXCEPT ![p] = name[p] \in dir]
    /\ Goes(p, "fill") /\ UNCHANGED <<orig, dir, conf>>

CopyFills(p) ==
    /\ pc[p] = "fill"
    /\ copy' = [copy EXCEPT ![name[p]] = IF open[p] THEN data[p] ELSE @]
    /\ Goes(p, "write") /\ UNCHANGED <<orig, dir, conf, data, open>>

\* FileCopy cannot open a file, or gives up half-way: AddConfig does not look.
CopyFails(p) ==
    /\ \/ pc[p] = "copy" /\ Given(p) # "gone"
       \/ pc[p] = "fill"
    /\ pc' = [pc EXCEPT ![p] = "write"]
    /\ data' = [data EXCEPT ![p] = "short"]
    /\ fresh' = [fresh EXCEPT ![name[p]] = FALSE]
    /\ UNCHANGED <<disk, name, asked, todo, open, alone, meant>>

\* Fault: the file is not emptied.
TextOpens_Keeps(p) ==
    /\ pc[p] = "write"
    /\ dir' = dir \cup {name[p]}
    /\ conf' = [conf EXCEPT ![name[p]].there = TRUE]
    /\ open' = [open EXCEPT ![p] = TRUE]
    /\ Goes(p, "close") /\ UNCHANGED <<orig, copy, data>>

\* WriteConfig makes the directory and empties the file.
TextOpens(p) ==
    /\ pc[p] = "write"
    /\ dir' = dir \cup {name[p]}
    /\ conf' = [conf EXCEPT ![name[p]] = [there |-> TRUE, torn |-> FALSE, text |-> Blank]]
    /\ open' = [open EXCEPT ![p] = TRUE]
    /\ Goes(p, "close") /\ UNCHANGED <<orig, copy, data>>

\* Fault: the path that was given stays.
ToSave_AsGiven(p) == asked[p]

\* The settings WriteConfig saves: AddConfig has put its copy in their place.
ToSave(p) == IF data[p] = "none" THEN asked[p] ELSE [asked[p] EXCEPT !["ClientCert"] = "copy"]

\* What was written goes to the file at STREAMClose: over what another process has
\* put there meanwhile, the rest of which stays if that was longer.
TextCloses(p) ==
    /\ pc[p] = "close"
    /\ conf' = [conf EXCEPT ![name[p]] =
                  IF ~open[p] THEN @
                  ELSE [there |-> TRUE, text |-> Text(ToSave(p)), torn |-> @.text # Blank]]
    /\ pc' = [pc EXCEPT ![p] = "idle"]
    /\ meant' = [meant EXCEPT ![name[p]] = IF alone[p] THEN Saved(asked[p], data[p]) ELSE @]
    /\ UNCHANGED <<orig, dir, copy, own, alone, fresh>>

\* 'del <name>': FileSystemRmDir looks what is there,
DeleteConfig(p, n) ==
    /\ Begin(p, n) /\ pc' = [pc EXCEPT ![p] = "unlink"]
    /\ todo' = [todo EXCEPT ![p] = Files(n)]
    /\ fresh' = [fresh EXCEPT ![n] = @ /\ Beside(p, n) = {}]
    /\ UNCHANGED <<disk, asked>>

\* Fault: in the order of the directory.
First_Any(files) == IF "copy" \in files THEN "copy" ELSE "conf"

\* and takes it in alphabetical order.
First(files) == IF "conf" \in files THEN "conf" ELSE "copy"

Unlink(p) ==
    /\ pc[p] = "unlink" /\ todo[p] # {}
    /\ LET f == First(todo[p]) IN
       /\ IF f = "conf"
          THEN conf' = [conf EXCEPT ![name[p]] = NoText] /\ UNCHANGED copy
          ELSE copy' = [copy EXCEPT ![name[p]] = "gone"] /\ UNCHANGED conf
       /\ open' = [q \in Procs |->
                     open[q] /\ ~(name[q] = name[p] /\ pc[q] = (IF f = "conf" THEN "close" ELSE "fill"))]
       /\ todo' = [todo EXCEPT ![p] = @ \ {f}]
    /\ UNCHANGED <<orig, dir, pc, name, asked, data, alone, told>>

\* The directory goes unless something has been put into it meanwhile.
RmDir(p) ==
    /\ pc[p] = "unlink" /\ todo[p] = {}
    /\ dir' = IF Files(name[p]) = {} THEN dir \ {name[p]} ELSE dir
    /\ pc' = [pc EXCEPT ![p] = "idle"]
    /\ meant' = [meant EXCEPT ![name[p]] = IF alone[p] THEN Nothing ELSE @]
    /\ UNCHANGED <<orig, conf, copy, own, alone, fresh>>

\* The process is killed.
Killed(p) ==
    /\ pc[p] # "idle" /\ pc' = [pc EXCEPT ![p] = "idle"]
    /\ UNCHANGED <<disk, own, alone, told>>

\* The user deletes or replaces the file the copy was taken of.
UserChanges ==
    /\ orig' \in (Certs \cup {"gone"}) \ {orig}
    /\ UNCHANGED <<dir, conf, copy, proc, told>>

Step(p) ==
    \/ \E n \in Names : AddConfig(p, n) \/ Config(p, n) \/ DeleteConfig(p, n)
    \/ NoCopy(p) \/ CopyOpens(p) \/ CopyFills(p) \/ CopyFails(p)
    \/ TextOpens(p) \/ TextCloses(p) \/ Unlink(p) \/ RmDir(p) \/ Killed(p)

Next == (\E p \in Procs : Step(p)) \/ UserChanges

Spec == Init /\ [][Next]_vars

-------------------------------------------------------------------------------
(* Properties.                                                                 *)

\* Every variable keeps its type.
TypeOK ==
    /\ orig \in Certs \cup {"gone"} /\ dir \subseteq Names
    /\ DOMAIN conf = Names
    /\ \A n \in Names :
         /\ DOMAIN conf[n] = {"there", "torn", "text"}
         /\ conf[n].there \in BOOLEAN /\ conf[n].torn \in BOOLEAN
         /\ conf[n].text \in [DOMAIN conf[n].text -> Values]
         /\ DOMAIN conf[n].text \subseteq KeySet
    /\ copy \in [Names -> Certs \cup {"gone", "part"}]
    /\ pc \in [Procs -> {"idle", "copy", "fill", "write", "close", "unlink"}]
    /\ name \in [Procs -> Names] /\ asked \in [Procs -> Settings]
    /\ data \in [Procs -> Certs \cup {"none", "part", "short"}]
    /\ todo \in [Procs -> SUBSET {"conf", "copy"}]
    /\ open \in [Procs -> BOOLEAN] /\ alone \in [Procs -> BOOLEAN]
    /\ meant \in [Names -> {Unknown, Nothing}
                  \cup {Saved(v, c) : v \in Settings, c \in Certs \cup {"none", "part", "short"}}]
    /\ fresh \in [Names -> BOOLEAN]

\* What stands on the line of the time-out, and is lost.
Swallowed(v) ==
    {k \in KeySet : v["Timeout"] # "unset" /\ v[k] # "unset" /\ Before("Timeout", k)
                      /\ \A l \in KeySet : Before("Timeout", l) /\ Before(l, k) => v[l] = "unset"}

\* What 'connect' reads is what the last command on the name was given, whatever
\* else was done to it before or at the same time elsewhere: every setting, the
\* place of the certificate apart, but for the one behind the time-out, and of a
\* value what Value leaves of it (the first word, without quotes).
ReadsBack ==
    \A n \in Names : meant[n].kind = "saved" =>
        /\ ~conf[n].torn
        /\ \A k \in KeySet \ {"ClientCert"} :
              ReadConfig(n)[k] = IF k \in Swallowed(meant[n].v) THEN "unset"
                                 ELSE Value(meant[n].v[k])

\* README.md:91: what 'add' saved with all options on the command line "can then
\* be simply called with 'connect'".  It does not hold: Timeout is written
\* without its newline, and spaces and quotes are not protected.
AllReadBack ==
    \A n \in Names : meant[n].kind = "saved" =>
        \A k \in KeySet \ {"ClientCert"} : ReadConfig(n)[k] = meant[n].v[k]

\* The certificate 'add' took a copy of is still there and the one the
\* configuration names, whatever became of the original and whatever was saved
\* before, unless the copy itself was given for the original, or FileCopy failed.
CertificateKept ==
    \A n \in Names :
        meant[n].kind = "saved" /\ meant[n].cert \in Certs /\ meant[n].v["ClientCert"] = "given" =>
            ReadConfig(n)["ClientCert"] = "copy" /\ copy[n] = meant[n].cert

\* Once a name has been deleted nothing of it is left.
NothingLeft ==
    \A n \in Names : meant[n] = Nothing => n \notin dir /\ Files(n) = {}

\* Where nothing was saved before and FileCopy does not fail, a command that is
\* killed at any moment leaves a configuration that 'connect' refuses, or a whole
\* one with a whole copy; nor does 'del' take the copy from one that still
\* connects.
FirstIsAtomic ==
    \A n \in Names : fresh[n] /\ Connects(n) =>
        /\ ~conf[n].torn
        /\ \E v \in Settings, path \in {"unset", "given", "copy"} :
              conf[n].text = Text([v EXCEPT !["ClientCert"] = path])
        /\ ReadConfig(n)["ClientCert"] = "copy" => copy[n] \in Certs

=============================================================================
