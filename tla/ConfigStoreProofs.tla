--------------------------- MODULE ConfigStoreProofs ---------------------------
(* Proofs about ConfigStore, for any names, processes, certificates and        *)
(* settings.                                                                   *)
EXTENDS ConfigStore, TLAPS

-------------------------------------------------------------------------------
(* The inductive invariant.                                                    *)

Busy(p) == pc[p] # "idle"

\* 'alone' means what it says, and a command on a fresh name is alone.
Exclusive(p) ==
    Busy(p) /\ alone[p] => \A q \in Procs \ {p} : ~Busy(q) \/ name[q] # name[p]

FreshAlone(p) == Busy(p) /\ fresh[name[p]] => alone[p]

\* How far a command has come that has its name to itself.
Copied(p) == data[p] \notin {"none", "short"} => copy[name[p]] = data[p]

Emptied(c) == c.there /\ ~c.torn /\ c.text = Blank

Working(p) ==
    Busy(p) /\ alone[p] =>
        /\ pc[p] = "copy" => name[p] \in dir /\ data[p] = "none"
        /\ pc[p] = "fill" => open[p]
        /\ pc[p] = "write" => Copied(p)
        /\ pc[p] = "close" => Copied(p) /\ open[p] /\ Emptied(conf[name[p]])
        /\ pc[p] = "unlink" =>
              /\ conf[name[p]].there => "conf" \in todo[p]
              /\ copy[name[p]] # "gone" => "copy" \in todo[p]

\* What is written to a copy is a certificate, or what was left of one.
Filling(p) == pc[p] = "fill" => data[p] \notin {"none", "short"}

\* One that found nothing saved.
FirstWork(p) ==
    Busy(p) /\ fresh[name[p]] /\ pc[p] # "unlink" =>
        /\ data[p] \in Certs \cup {"none"} /\ asked[p]["ClientCert"] # "copy"
        /\ pc[p] # "close" => ~conf[name[p]].there

\* A command that ran alone has left what it was to leave, until the next.
Left(v, cert) == IF cert = "none" THEN v ELSE [v EXCEPT !["ClientCert"] = "copy"]

Settled(n) ==
    /\ meant[n].kind # "unknown" => \A p \in Procs : ~Busy(p) \/ name[p] # n
    /\ meant[n].kind = "saved" =>
          /\ ~conf[n].torn /\ conf[n].text = Text(Left(meant[n].v, meant[n].cert))
          /\ meant[n].cert \notin {"none", "short"} => copy[n] = meant[n].cert
    /\ meant[n].kind = "nothing" => n \notin dir /\ Files(n) = {}

\* What stands under a fresh name.
Whole(n) ==
    /\ ~conf[n].torn
    /\ \E v \in Settings, path \in {"unset", "given", "copy"} :
          /\ conf[n].text = Text([v EXCEPT !["ClientCert"] = path])
          /\ path = "copy" => copy[n] \in Certs

Sound(n) == fresh[n] /\ conf[n].there => conf[n].text = Blank \/ Whole(n)

Own(p) == Exclusive(p) /\ FreshAlone(p) /\ Filling(p) /\ Working(p) /\ FirstWork(p)

IInv ==
    /\ TypeOK
    /\ \A p \in Procs : Own(p)
    /\ \A n \in Names : Settled(n) /\ Sound(n)

-------------------------------------------------------------------------------
(* The text.                                                                   *)

LEMMA KeyFacts ==
  /\ KeySet = {"Server", "ClientCert", "ConfFile", "Password", "Timeout", "Protocol",
               "LocalSU", "RemoteSU"}
  /\ \A k \in KeySet : Before("Timeout", k) => k \in {"Protocol", "LocalSU", "RemoteSU"}
<1>1. /\ DOMAIN Keys = 1..8
      /\ Keys[1] = "Server" /\ Keys[2] = "ClientCert" /\ Keys[3] = "ConfFile"
      /\ Keys[4] = "Password" /\ Keys[5] = "Timeout" /\ Keys[6] = "Protocol"
      /\ Keys[7] = "LocalSU" /\ Keys[8] = "RemoteSU"
  BY DEF Keys
<1>2. 1..8 = {1, 2, 3, 4, 5, 6, 7, 8}
  OBVIOUS
<1>3. KeySet = {Keys[i] : i \in {1, 2, 3, 4, 5, 6, 7, 8}}
  BY <1>1, <1>2 DEF KeySet
<1>4. KeySet = {"Server", "ClientCert", "ConfFile", "Password", "Timeout", "Protocol",
                "LocalSU", "RemoteSU"}
  BY <1>1, <1>3
<1>5. ASSUME NEW k \in KeySet, Before("Timeout", k)
      PROVE  k \in {"Protocol", "LocalSU", "RemoteSU"}
  <2>1. PICK i \in 1..8, j \in 1..8 : i < j /\ Keys[i] = "Timeout" /\ Keys[j] = k
    BY <1>1, <1>5 DEF Before
  <2>2. i = 5
    BY <1>1, <1>2, <2>1
  <2>3. j \in {6, 7, 8}
    BY <2>1, <2>2
  <2> QED BY <1>1, <2>1, <2>3
<1> QED BY <1>4, <1>5

LEMMA TextFacts ==
  ASSUME NEW v \in [KeySet -> Values]
  PROVE  /\ Text(v) \in [DOMAIN Text(v) -> Values]
         /\ DOMAIN Text(v) = {k \in KeySet : v[k] # "unset"}
         /\ \A k \in DOMAIN Text(v) : Text(v)[k] = v[k]
BY DEF Text

\* A value that stands on its own line is read, in so far as it is not cut.
LEMMA MeaningFacts ==
  ASSUME NEW v \in [KeySet -> Values], NEW k \in KeySet
  PROVE  Meaning(Text(v))[k] = IF k \in Swallowed(v) THEN "unset" ELSE Value(v[k])
<1>1. Meaning(Text(v))[k] =
        IF k \in DOMAIN Text(v) /\ Begins(Text(v), k) THEN Value(Text(v)[k]) ELSE "unset"
  BY DEF Meaning
<1>2. Value("unset") = "unset"
  BY DEF Value
<1>3. CASE v[k] = "unset"
  BY <1>1, <1>2, <1>3, TextFacts DEF Swallowed
<1>4. CASE v[k] # "unset"
  <2>1. k \in DOMAIN Text(v) /\ Text(v)[k] = v[k]
    BY <1>4, TextFacts
  <2>2. "Timeout" \in KeySet
    BY KeyFacts
  <2>3. Begins(Text(v), k) <=> k \notin Swallowed(v)
    BY <1>4, <2>2, TextFacts DEF Begins, Swallowed
  <2> QED BY <1>1, <2>1, <2>3
<1> QED BY <1>3, <1>4

\* The certificate's path is before the time-out, and is one word.
LEMMA PathFacts ==
  ASSUME NEW v \in [KeySet -> Values], v["ClientCert"] \in {"unset", "given", "copy"}
  PROVE  Meaning(Text(v))["ClientCert"] = v["ClientCert"]
<1>1. "ClientCert" \in KeySet /\ ~Before("Timeout", "ClientCert")
  BY KeyFacts
<1>2. "ClientCert" \notin Swallowed(v)
  BY <1>1 DEF Swallowed
<1>3. Value(v["ClientCert"]) = v["ClientCert"]
  BY DEF Value
<1> QED BY <1>1, <1>2, <1>3, MeaningFacts

LEMMA LeftFacts ==
  ASSUME NEW v \in Settings, NEW cert
  PROVE  /\ v \in [KeySet -> Values] /\ Left(v, cert) \in [KeySet -> Values]
         /\ \A k \in KeySet \ {"ClientCert"} : Left(v, cert)[k] = v[k]
         /\ Left(v, cert)["ClientCert"] = IF cert = "none" THEN v["ClientCert"] ELSE "copy"
         /\ \E path \in {"unset", "given", "copy"} :
               /\ Left(v, cert) = [v EXCEPT !["ClientCert"] = path]
               /\ path = IF cert = "none" THEN v["ClientCert"] ELSE "copy"
<1>1. v \in [KeySet -> Values] /\ "ClientCert" \in KeySet
      /\ v["ClientCert"] \in {"unset", "given", "copy"}
  BY SettingsAssumption, KeyFacts
<1>2. v = [v EXCEPT !["ClientCert"] = v["ClientCert"]]
  BY <1>1
<1>3. CASE cert = "none"
  BY <1>1, <1>2, <1>3 DEF Left
<1>4. CASE cert # "none"
  <2>1. Left(v, cert) = [v EXCEPT !["ClientCert"] = "copy"]
    BY <1>4 DEF Left
  <2>2. Left(v, cert) \in [KeySet -> Values] /\ Left(v, cert)["ClientCert"] = "copy"
    <3>1. "copy" \in Values
      BY SettingsAssumption
    <3>2. [v EXCEPT !["ClientCert"] = "copy"] \in [KeySet -> Values]
      BY <1>1, <3>1, Zenon
    <3>3. [v EXCEPT !["ClientCert"] = "copy"]["ClientCert"] = "copy"
      BY <1>1, Zenon
    <3> QED BY <2>1, <3>2, <3>3, Zenon
  <2>3. \A k \in KeySet \ {"ClientCert"} : Left(v, cert)[k] = v[k]
    BY <1>1, <2>1
  <2>4. \E path \in {"unset", "given", "copy"} :
           Left(v, cert) = [v EXCEPT !["ClientCert"] = path] /\ path = "copy"
    BY <2>1
  <2> QED BY <1>1, <1>4, <2>2, <2>3, <2>4
<1> QED BY <1>3, <1>4

-------------------------------------------------------------------------------
(* Types.                                                                      *)

FilesType ==
    /\ orig \in Certs \cup {"gone"} /\ dir \subseteq Names
    /\ copy \in [Names -> Certs \cup {"gone", "part"}]

ConfType ==
    /\ DOMAIN conf = Names
    /\ \A n \in Names :
         /\ DOMAIN conf[n] = {"there", "torn", "text"}
         /\ conf[n].there \in BOOLEAN /\ conf[n].torn \in BOOLEAN
         /\ conf[n].text \in [DOMAIN conf[n].text -> Values]
         /\ DOMAIN conf[n].text \subseteq KeySet

ProcType ==
    /\ pc \in [Procs -> {"idle", "copy", "fill", "write", "close", "unlink"}]
    /\ name \in [Procs -> Names] /\ asked \in [Procs -> Settings]
    /\ data \in [Procs -> Certs \cup {"none", "part", "short"}]
    /\ todo \in [Procs -> SUBSET {"conf", "copy"}]
    /\ open \in [Procs -> BOOLEAN] /\ alone \in [Procs -> BOOLEAN]

Promises ==
    {Unknown, Nothing} \cup {Saved(v, c) : v \in Settings, c \in Certs \cup {"none", "part", "short"}}

ToldType == meant \in [Names -> Promises] /\ fresh \in [Names -> BOOLEAN]

LEMMA TypeParts ==
  /\ TypeOK <=> FilesType /\ ConfType /\ ProcType /\ ToldType
  /\ TypeOK' <=> FilesType' /\ ConfType' /\ ProcType' /\ ToldType'
BY DEF TypeOK, FilesType, ConfType, ProcType, ToldType, Promises

LEMMA BeginTypes ==
  ASSUME TypeOK, NEW p \in Procs, NEW n \in Names,
         AddConfig(p, n) \/ Config(p, n) \/ DeleteConfig(p, n)
  PROVE  ProcType' /\ ToldType'
<1>1. ProcType /\ ToldType
  BY TypeParts
<1>2. /\ Begin(p, n)
      /\ asked' = asked \/ \E v \in Settings : asked' = [asked EXCEPT ![p] = v]
      /\ \E f \in BOOLEAN : fresh' = [fresh EXCEPT ![n] = f]
      /\ todo' = todo \/ todo' = [todo EXCEPT ![p] = Files(n)]
      /\ \E at \in {"copy", "write", "unlink"} : pc' = [pc EXCEPT ![p] = at]
  BY <1>1 DEF AddConfig, Config, DeleteConfig, Writes, ToldType
<1>3. Files(n) \in SUBSET {"conf", "copy"} /\ Unknown \in Promises
  BY DEF Files, Promises
<1>4. /\ name' = [name EXCEPT ![p] = n]
      /\ alone' = [q \in Procs |-> IF q = p THEN Beside(p, n) = {}
                                   ELSE alone[q] /\ q \notin Beside(p, n)]
      /\ meant' = [meant EXCEPT ![n] = Unknown]
      /\ data' = [data EXCEPT ![p] = "none"] /\ open' = [open EXCEPT ![p] = FALSE]
  BY <1>2 DEF Begin
<1>5. ToldType'
  BY <1>1, <1>2, <1>3, <1>4 DEF ToldType
<1>6. alone' \in [Procs -> BOOLEAN]
  <2>1. \A q \in Procs : alone[q] \in BOOLEAN
    BY <1>1 DEF ProcType
  <2>2. \A q \in Procs :
          (IF q = p THEN Beside(p, n) = {} ELSE alone[q] /\ q \notin Beside(p, n)) \in BOOLEAN
    BY <2>1, Zenon
  <2> QED BY <1>4, <2>2, Zenon
<1>7. pc' \in [Procs -> {"idle", "copy", "fill", "write", "close", "unlink"}]
  BY <1>1, <1>2 DEF ProcType
<1>8. /\ name' \in [Procs -> Names] /\ asked' \in [Procs -> Settings]
      /\ todo' \in [Procs -> SUBSET {"conf", "copy"}]
  BY <1>1, <1>2, <1>3, <1>4 DEF ProcType
<1>9. data' \in [Procs -> Certs \cup {"none", "part", "short"}] /\ open' \in [Procs -> BOOLEAN]
  BY <1>1, <1>4 DEF ProcType
<1> QED BY <1>5, <1>6, <1>7, <1>8, <1>9 DEF ProcType

IsConf(c) ==
    /\ DOMAIN c = {"there", "torn", "text"} /\ c.there \in BOOLEAN /\ c.torn \in BOOLEAN
    /\ c.text \in [DOMAIN c.text -> Values] /\ DOMAIN c.text \subseteq KeySet

LEMMA ConfWritten ==
  ASSUME ConfType, NEW n \in Names, NEW c, IsConf(c), conf' = [conf EXCEPT ![n] = c]
  PROVE  ConfType' /\ conf'[n] = c /\ \A m \in Names \ {n} : conf'[m] = conf[m]
<1>1. DOMAIN conf = Names /\ \A m \in Names : IsConf(conf[m])
  BY DEF ConfType, IsConf
<1>2. /\ DOMAIN conf' = Names /\ conf'[n] = c
      /\ \A m \in Names \ {n} : conf'[m] = conf[m]
  BY <1>1
<1>3. \A m \in Names : IsConf(conf'[m])
  BY <1>1, <1>2, Zenon
<1>4. ConfType'
  BY <1>2, <1>3 DEF ConfType, IsConf
<1> QED BY <1>2, <1>4

LEMMA ConfIs ==
  ASSUME NEW there \in BOOLEAN, NEW torn \in BOOLEAN, NEW text,
         text \in [DOMAIN text -> Values], DOMAIN text \subseteq KeySet
  PROVE  LET c == [there |-> there, torn |-> torn, text |-> text]
         IN  IsConf(c) /\ c.there = there /\ c.torn = torn /\ c.text = text
BY DEF IsConf

LEMMA BlankIs == DOMAIN Blank = {} /\ Blank \in [DOMAIN Blank -> Values]
BY DEF Blank

LEMMA ToSaveIs ==
  ASSUME TypeOK, NEW p \in Procs
  PROVE  /\ ToSave(p) = Left(asked[p], data[p]) /\ asked[p] \in Settings
         /\ ToSave(p) \in [KeySet -> Values]
         /\ Text(ToSave(p)) \in [DOMAIN Text(ToSave(p)) -> Values]
         /\ DOMAIN Text(ToSave(p)) \subseteq KeySet
<1>1. ToSave(p) = Left(asked[p], data[p]) /\ asked[p] \in Settings
  BY TypeParts DEF ToSave, Left, ProcType
<1>2. ToSave(p) \in [KeySet -> Values]
  BY <1>1, LeftFacts
<1> QED BY <1>1, <1>2, TextFacts

LEMMA FilesTypes ==
  ASSUME TypeOK, NEW p \in Procs, Step(p), Filling(p)
  PROVE  FilesType' /\ ConfType'
<1>1. /\ FilesType /\ ConfType /\ name[p] \in Names /\ data[p] \in Certs \cup {"none", "part", "short"}
  BY TypeParts DEF ProcType
<1>2. ASSUME NEW n \in Names, AddConfig(p, n) \/ Config(p, n) \/ DeleteConfig(p, n)
      PROVE  FilesType' /\ ConfType'
  <2>1. UNCHANGED <<orig, conf, copy>> /\ dir' \subseteq Names
    BY <1>1, <1>2 DEF AddConfig, Config, DeleteConfig, Writes, disk, FilesType
  <2> QED BY <1>1, <2>1 DEF FilesType, ConfType
<1>3. CASE NoCopy(p) \/ Killed(p)
  BY <1>1, <1>3 DEF NoCopy, Killed, disk, FilesType, ConfType
<1>4. CASE CopyOpens(p)
  BY <1>1, <1>4 DEF CopyOpens, FilesType, ConfType
<1>5. CASE CopyFills(p)
  <2>1. /\ UNCHANGED <<orig, dir, conf>>
        /\ copy' = [copy EXCEPT ![name[p]] = IF open[p] THEN data[p] ELSE @]
    BY <1>5 DEF CopyFills
  <2>2. data[p] \notin {"none", "short"}
    BY <1>5 DEF CopyFills, Filling
  <2> QED BY <1>1, <2>1, <2>2 DEF FilesType, ConfType
<1>6. CASE TextOpens(p)
  <2>1. /\ UNCHANGED <<orig, copy>> /\ dir' \subseteq Names
        /\ conf' = [conf EXCEPT ![name[p]] = [there |-> TRUE, torn |-> FALSE, text |-> Blank]]
    BY <1>1, <1>6 DEF TextOpens, FilesType
  <2>2. IsConf([there |-> TRUE, torn |-> FALSE, text |-> Blank])
    BY BlankIs DEF IsConf
  <2>3. ConfType'
    BY <1>1, <2>1, <2>2, ConfWritten
  <2> QED BY <1>1, <2>1, <2>3 DEF FilesType
<1>7. CASE TextCloses(p)
  <2>1. UNCHANGED <<orig, dir, copy>>
    BY <1>7 DEF TextCloses
  <2> DEFINE c == IF ~open[p] THEN conf[name[p]]
                  ELSE [there |-> TRUE, text |-> Text(ToSave(p)),
                        torn |-> conf[name[p]].text # Blank]
  <2>2. conf' = [conf EXCEPT ![name[p]] = c]
    BY <1>7 DEF TextCloses
  <2>3. IsConf(c)
    BY <1>1, ToSaveIs DEF IsConf, ConfType
  <2>4. ConfType'
    BY <1>1, <2>2, <2>3, ConfWritten
  <2> QED BY <1>1, <2>1, <2>4 DEF FilesType
<1>8. CASE Unlink(p)
  <2>1. UNCHANGED <<orig, dir>>
    BY <1>8 DEF Unlink
  <2>2. \/ conf' = [conf EXCEPT ![name[p]] = NoText] /\ UNCHANGED copy
        \/ copy' = [copy EXCEPT ![name[p]] = "gone"] /\ UNCHANGED conf
    BY <1>8 DEF Unlink
  <2>3. IsConf(NoText)
    BY BlankIs DEF IsConf, NoText
  <2>4. ConfType'
    BY <1>1, <2>2, <2>3, ConfWritten DEF ConfType
  <2> QED BY <1>1, <2>1, <2>2, <2>4 DEF FilesType
<1>9. CASE RmDir(p) \/ CopyFails(p)
  BY <1>1, <1>9 DEF RmDir, CopyFails, disk, FilesType, ConfType
<1> QED BY <1>2, <1>3, <1>4, <1>5, <1>6, <1>7, <1>8, <1>9 DEF Step

\* The steps that follow the first, and what they leave alone.
Later(p) ==
    \/ NoCopy(p) \/ CopyOpens(p) \/ CopyFills(p) \/ CopyFails(p)
    \/ TextOpens(p) \/ TextCloses(p) \/ Unlink(p) \/ RmDir(p) \/ Killed(p)

LEMMA LaterTypes ==
  ASSUME TypeOK, NEW p \in Procs, Later(p)
  PROVE  ProcType' /\ ToldType'
<1>1. /\ ProcType /\ ToldType /\ orig \in Certs \cup {"gone"}
      /\ copy \in [Names -> Certs \cup {"gone", "part"}] /\ name[p] \in Names
  BY TypeParts DEF ProcType, FilesType
<1>2. CASE NoCopy(p) \/ CopyFills(p)
  BY <1>1, <1>2 DEF NoCopy, CopyFills, Goes, disk, told, ProcType, ToldType
<1>3. CASE CopyOpens(p)
  <2>1. IF asked[p]["ClientCert"] = "copy" THEN TRUE ELSE orig \in Certs
    <3>1. asked[p]["ClientCert"] \in {"unset", "given", "copy"}
      BY <1>1, SettingsAssumption DEF ProcType
    <3>2. CASE asked[p]["ClientCert"] = "unset"
      <4>1. Given(p) = "gone"
        BY <3>2 DEF Given
      <4> QED BY <1>3, <4>1 DEF CopyOpens
    <3>3. CASE asked[p]["ClientCert"] = "given"
      <4>1. Given(p) = orig
        BY <3>3 DEF Given
      <4> QED BY <1>1, <1>3, <4>1 DEF CopyOpens
    <3> QED BY <3>1, <3>2, <3>3
  <2>2. (IF asked[p]["ClientCert"] = "copy" THEN "part" ELSE orig) \in Certs \cup {"part"}
    BY <1>1, <2>1
  <2>3. (name[p] \in dir) \in BOOLEAN
    OBVIOUS
  <2>4. data' \in [Procs -> Certs \cup {"none", "part", "short"}]
    BY <1>1, <1>3, <2>2 DEF CopyOpens, ProcType
  <2>5. open' \in [Procs -> BOOLEAN]
    BY <1>1, <1>3, <2>3 DEF CopyOpens, ProcType
  <2>6. /\ pc' = [pc EXCEPT ![p] = "fill"] /\ UNCHANGED <<name, asked, todo, alone, meant, fresh>>
    BY <1>3 DEF CopyOpens, Goes, told
  <2> QED BY <1>1, <2>4, <2>5, <2>6 DEF ProcType, ToldType
<1>4. CASE TextOpens(p)
  BY <1>1, <1>4 DEF TextOpens, Goes, told, ProcType, ToldType
<1>5. CASE TextCloses(p)
  <2>1. /\ pc' = [pc EXCEPT ![p] = "idle"] /\ UNCHANGED <<own, alone, fresh>>
        /\ meant' = [meant EXCEPT ![name[p]] = IF alone[p] THEN Saved(asked[p], data[p]) ELSE @]
    BY <1>5 DEF TextCloses
  <2>2. asked[p] \in Settings /\ data[p] \in Certs \cup {"none", "part", "short"}
    BY <1>1 DEF ProcType
  <2>3. Saved(asked[p], data[p]) \in Promises
    BY <2>2 DEF Promises
  <2>4. ToldType'
    BY <1>1, <2>1, <2>3 DEF ToldType
  <2> QED BY <1>1, <2>1, <2>4 DEF ProcType, own
<1>6. CASE Unlink(p)
  <2>1. todo' \in [Procs -> SUBSET {"conf", "copy"}]
    BY <1>1, <1>6 DEF Unlink, ProcType
  <2>2. open' \in [Procs -> BOOLEAN]
    <3>1. PICK f : open' = [q \in Procs |->
                open[q] /\ ~(name[q] = name[p] /\ pc[q] = (IF f = "conf" THEN "close" ELSE "fill"))]
      BY <1>6 DEF Unlink
    <3>2. \A q \in Procs : open[q] \in BOOLEAN
      BY <1>1 DEF ProcType
    <3>3. \A q \in Procs :
            (open[q] /\ ~(name[q] = name[p] /\ pc[q] = (IF f = "conf" THEN "close" ELSE "fill")))
              \in BOOLEAN
      BY <3>2, Zenon
    <3> QED BY <3>1, <3>3, Zenon
  <2>3. UNCHANGED <<pc, name, asked, data, alone, meant, fresh>>
    BY <1>6 DEF Unlink, told
  <2> QED BY <1>1, <2>1, <2>2, <2>3 DEF ProcType, ToldType
<1>7. CASE RmDir(p)
  <2>1. /\ pc' = [pc EXCEPT ![p] = "idle"] /\ UNCHANGED <<own, alone, fresh>>
        /\ meant' = [meant EXCEPT ![name[p]] = IF alone[p] THEN Nothing ELSE @]
    BY <1>7 DEF RmDir
  <2>2. ToldType'
    BY <1>1, <2>1 DEF ToldType, Promises
  <2> QED BY <1>1, <2>1, <2>2 DEF ProcType, own
<1>8. CASE Killed(p)
  BY <1>1, <1>8 DEF Killed, own, told, ProcType, ToldType
<1>9. CASE CopyFails(p)
  BY <1>1, <1>9 DEF CopyFails, ProcType, ToldType
<1> QED BY <1>2, <1>3, <1>4, <1>5, <1>6, <1>7, <1>8, <1>9 DEF Later

LEMMA TypesKept ==
  ASSUME TypeOK, NEW p \in Procs, Step(p), Filling(p)
  PROVE  TypeOK'
<1>1. ProcType' /\ ToldType'
  BY BeginTypes, LaterTypes DEF Step, Later
<1> QED BY <1>1, FilesTypes, TypeParts

-------------------------------------------------------------------------------
(* What a step leaves alone.                                                   *)

\* The others go on with what they do; one of them may lose its file or its
\* being alone.
OthersGoOn(p) ==
    \A q \in Procs \ {p} :
        /\ pc'[q] = pc[q] /\ name'[q] = name[q] /\ asked'[q] = asked[q]
        /\ data'[q] = data[q] /\ todo'[q] = todo[q]
        /\ alone'[q] => alone[q]
        /\ name[q] # name'[p] => open'[q] = open[q] /\ (alone'[q] <=> alone[q])

\* Only the name that was given is worked on.
NamesKept(n) ==
    \A m \in Names \ {n} :
        /\ conf'[m] = conf[m] /\ copy'[m] = copy[m] /\ (m \in dir' <=> m \in dir)
        /\ meant'[m] = meant[m] /\ fresh'[m] = fresh[m]

\* Of two on one name neither is alone, nor is the name fresh.
Apart(p) ==
    \A q \in Procs \ {p} :
        Busy(q) /\ name[q] = name'[p] =>
            ~alone'[q] /\ ~fresh'[name'[p]] /\ (pc'[p] # "idle" => ~alone'[p])

LEMMA BeginFrame ==
  ASSUME TypeOK, NEW p \in Procs, NEW n \in Names,
         AddConfig(p, n) \/ Config(p, n) \/ DeleteConfig(p, n)
  PROVE  /\ OthersGoOn(p) /\ NamesKept(n) /\ Apart(p) /\ name'[p] = n
         /\ UNCHANGED <<orig, conf, copy>> /\ dir \subseteq dir'
         /\ data'[p] = "none" /\ meant'[n] = Unknown
<1>1. /\ ProcType /\ ToldType
  BY TypeParts
<1>2. /\ Begin(p, n)
      /\ asked' = asked \/ \E v \in Settings : asked' = [asked EXCEPT ![p] = v]
      /\ \E f \in BOOLEAN : fresh' = [fresh EXCEPT ![n] = f]
      /\ todo' = todo \/ todo' = [todo EXCEPT ![p] = Files(n)]
      /\ \E at \in {"copy", "write", "unlink"} : pc' = [pc EXCEPT ![p] = at]
      /\ UNCHANGED <<orig, conf, copy>> /\ (dir' = dir \/ dir' = dir \cup {n})
  BY <1>1 DEF AddConfig, Config, DeleteConfig, Writes, ToldType, disk
<1>3. /\ name' = [name EXCEPT ![p] = n]
      /\ alone' = [q \in Procs |-> IF q = p THEN Beside(p, n) = {}
                                   ELSE alone[q] /\ q \notin Beside(p, n)]
      /\ meant' = [meant EXCEPT ![n] = Unknown]
      /\ data' = [data EXCEPT ![p] = "none"] /\ open' = [open EXCEPT ![p] = FALSE]
  BY <1>2 DEF Begin
<1>4. /\ name'[p] = n /\ data'[p] = "none" /\ meant'[n] = Unknown
      /\ \A q \in Procs \ {p} : name'[q] = name[q] /\ data'[q] = data[q] /\ open'[q] = open[q]
      /\ \A m \in Names \ {n} : meant'[m] = meant[m] /\ fresh'[m] = fresh[m]
  BY <1>1, <1>2, <1>3 DEF ProcType, ToldType
<1>5. \A q \in Procs \ {p} : pc'[q] = pc[q] /\ asked'[q] = asked[q] /\ todo'[q] = todo[q]
  BY <1>1, <1>2 DEF ProcType
<1>6. ASSUME NEW q \in Procs \ {p}
      PROVE  /\ (alone'[q] => alone[q]) /\ (name[q] # n => (alone'[q] <=> alone[q]))
             /\ Busy(q) /\ name[q] = n => ~alone'[q] /\ ~alone'[p] /\ ~fresh'[n]
  <2>1. alone'[q] = (alone[q] /\ q \notin Beside(p, n)) /\ alone'[p] = (Beside(p, n) = {})
    BY <1>3
  <2>2. q \in Beside(p, n) <=> Busy(q) /\ name[q] = n
    BY DEF Beside, Busy
  <2>3. Beside(p, n) # {} => ~fresh'[n]
    BY <1>1 DEF AddConfig, Config, DeleteConfig, Writes, ToldType
  <2> QED BY <2>1, <2>2, <2>3
<1>7. OthersGoOn(p)
  BY <1>4, <1>5, <1>6 DEF OthersGoOn
<1>8. NamesKept(n)
  BY <1>2, <1>4 DEF NamesKept
<1>9. Apart(p)
  BY <1>4, <1>6 DEF Apart
<1> QED BY <1>2, <1>4, <1>7, <1>8, <1>9

LEMMA LaterFrame ==
  ASSUME TypeOK, NEW p \in Procs, Later(p), \A q \in Procs : Exclusive(q) /\ FreshAlone(q)
  PROVE  /\ OthersGoOn(p) /\ NamesKept(name[p]) /\ Apart(p)
         /\ Busy(p) /\ name'[p] = name[p] /\ asked'[p] = asked[p] /\ alone' = alone
         /\ fresh'[name[p]] => fresh[name[p]]
<1>1. /\ ProcType /\ ToldType /\ FilesType /\ ConfType /\ name[p] \in Names
  BY TypeParts DEF ProcType
<1>2. /\ UNCHANGED <<name, asked, alone>> /\ Busy(p)
      /\ fresh' = fresh \/ fresh' = [fresh EXCEPT ![name[p]] = FALSE]
      /\ pc' = pc \/ \E at \in {"idle", "fill", "write", "close"} : pc' = [pc EXCEPT ![p] = at]
  BY DEF Later, NoCopy, CopyOpens, CopyFills, CopyFails, TextOpens, TextCloses, Unlink, RmDir, Killed,
         Goes, own, told, Busy
<1>3. /\ \A q \in Procs \ {p} : data'[q] = data[q] /\ todo'[q] = todo[q]
  BY <1>1 DEF Later, NoCopy, CopyOpens, CopyFills, CopyFails, TextOpens, TextCloses, Unlink, RmDir, Killed,
         Goes, own, ProcType
<1>4. \A q \in Procs \ {p} : name[q] # name[p] => open'[q] = open[q]
  <2>1. CASE Unlink(p)
    <3>1. PICK f : open' = [q \in Procs |->
                open[q] /\ ~(name[q] = name[p] /\ pc[q] = (IF f = "conf" THEN "close" ELSE "fill"))]
      BY <2>1 DEF Unlink
    <3>2. ASSUME NEW q \in Procs \ {p}, name[q] # name[p] PROVE open'[q] = open[q]
      <4>1. open'[q] = (open[q] /\ ~(name[q] = name[p] /\ pc[q] = (IF f = "conf" THEN "close" ELSE "fill")))
        BY <3>1
      <4>2. open[q] \in BOOLEAN
        BY <1>1 DEF ProcType
      <4> QED BY <3>2, <4>1, <4>2, Zenon
    <3> QED BY <3>2
  <2>2. CASE ~Unlink(p)
    <3>1. open' = open \/ \E b : open' = [open EXCEPT ![p] = b]
      BY <2>2 DEF Later, NoCopy, CopyOpens, CopyFills, CopyFails, TextOpens, TextCloses, RmDir, Killed, own
    <3> QED BY <1>1, <3>1 DEF ProcType
  <2> QED BY <2>1, <2>2
<1>5. \A m \in Names \ {name[p]} : conf'[m] = conf[m]
  <2>1. conf' = conf \/ \E c : conf' = [conf EXCEPT ![name[p]] = c]
    BY DEF Later, NoCopy, CopyOpens, CopyFills, CopyFails, TextOpens, TextCloses, Unlink, RmDir, Killed, disk
  <2> QED BY <1>1, <2>1 DEF ConfType
<1>6. \A m \in Names \ {name[p]} : copy'[m] = copy[m]
  <2>1. copy' = copy \/ \E c : copy' = [copy EXCEPT ![name[p]] = c]
    BY DEF Later, NoCopy, CopyOpens, CopyFills, CopyFails, TextOpens, TextCloses, Unlink, RmDir, Killed, disk
  <2> QED BY <1>1, <2>1 DEF FilesType
<1>7. \A m \in Names \ {name[p]} : meant'[m] = meant[m]
  <2>1. meant' = meant \/ \E c : meant' = [meant EXCEPT ![name[p]] = c]
    BY DEF Later, NoCopy, CopyOpens, CopyFills, CopyFails, TextOpens, TextCloses, Unlink, RmDir, Killed, told,
           Goes
  <2> QED BY <1>1, <2>1 DEF ToldType
<1>8. \A m \in Names \ {name[p]} : m \in dir' <=> m \in dir
  <2>1. dir' = dir \/ dir' = dir \cup {name[p]} \/ dir' = dir \ {name[p]}
    BY DEF Later, NoCopy, CopyOpens, CopyFills, CopyFails, TextOpens, TextCloses, Unlink, RmDir, Killed, disk
  <2> QED BY <2>1
<1>9. OthersGoOn(p)
  BY <1>1, <1>2, <1>3, <1>4 DEF OthersGoOn, ProcType
<1>10. NamesKept(name[p])
  <2>1. \A m \in Names \ {name[p]} : fresh'[m] = fresh[m]
    BY <1>1, <1>2 DEF ToldType
  <2> QED BY <1>5, <1>6, <1>7, <1>8, <2>1 DEF NamesKept
<1>11. fresh'[name[p]] => fresh[name[p]]
  BY <1>1, <1>2 DEF ToldType
<1>12. Apart(p)
  BY <1>2, <1>11 DEF Apart, Exclusive, FreshAlone, Busy
<1> QED BY <1>2, <1>9, <1>10, <1>11, <1>12

-------------------------------------------------------------------------------
(* The invariant is kept.                                                      *)

LEMMA StepFrame ==
  ASSUME IInv, NEW p \in Procs, Step(p)
  PROVE  /\ OthersGoOn(p) /\ NamesKept(name'[p]) /\ Apart(p) /\ name'[p] \in Names
         /\ TypeOK /\ TypeOK'
<1>1. TypeOK /\ \A q \in Procs : Exclusive(q) /\ FreshAlone(q) /\ Filling(q)
  BY DEF IInv, Own
<1>2. CASE \E n \in Names : AddConfig(p, n) \/ Config(p, n) \/ DeleteConfig(p, n)
  BY <1>1, <1>2, BeginFrame, TypesKept
<1>3. CASE Later(p)
  <2>1. name[p] \in Names
    BY <1>1, TypeParts DEF ProcType
  <2> QED BY <1>1, <1>3, <2>1, LaterFrame, TypesKept
<1> QED BY <1>2, <1>3 DEF Step, Later

LEMMA OthersKept ==
  ASSUME IInv, NEW p \in Procs, Step(p), NEW q \in Procs \ {p}
  PROVE  Own(q)'
<1>1. /\ OthersGoOn(p) /\ NamesKept(name'[p]) /\ Apart(p) /\ Own(q) /\ name[q] \in Names
  BY StepFrame, TypeParts DEF IInv, ProcType
<1>2. /\ pc'[q] = pc[q] /\ name'[q] = name[q] /\ asked'[q] = asked[q]
      /\ data'[q] = data[q] /\ todo'[q] = todo[q]
  BY <1>1 DEF OthersGoOn
<1>3. Filling(q)'
  BY <1>1, <1>2 DEF Own, Filling
<1>4. CASE pc[q] = "idle"
  BY <1>2, <1>3, <1>4 DEF Own, Exclusive, FreshAlone, Working, FirstWork, Busy
<1>5. CASE Busy(q) /\ name[q] = name'[p]
  <2>1. ~alone'[q] /\ ~fresh'[name'[q]]
    BY <1>1, <1>2, <1>5 DEF Apart
  <2> QED BY <1>3, <2>1 DEF Own, Exclusive, FreshAlone, Working, FirstWork
<1>6. CASE Busy(q) /\ name[q] # name'[p]
  <2>1. /\ open'[q] = open[q] /\ (alone'[q] <=> alone[q])
        /\ conf'[name[q]] = conf[name[q]] /\ copy'[name[q]] = copy[name[q]]
        /\ (name[q] \in dir' <=> name[q] \in dir) /\ fresh'[name[q]] = fresh[name[q]]
    BY <1>1, <1>6 DEF OthersGoOn, NamesKept
  <2>2. Exclusive(q)'
    BY <1>1, <1>2, <1>6, <2>1 DEF Own, Exclusive, Busy, OthersGoOn
  <2>3. FreshAlone(q)'
    BY <1>1, <1>2, <2>1 DEF Own, FreshAlone, Busy
  <2>4. Working(q)'
    BY <1>1, <1>2, <2>1 DEF Own, Working, Busy, Copied, Emptied
  <2>5. FirstWork(q)'
    BY <1>1, <1>2, <2>1 DEF Own, FirstWork, Busy
  <2> QED BY <1>3, <2>2, <2>3, <2>4, <2>5 DEF Own
<1> QED BY <1>4, <1>5, <1>6 DEF Busy

LEMMA OtherNamesKept ==
  ASSUME IInv, NEW p \in Procs, Step(p), NEW m \in Names, m # name'[p]
  PROVE  Settled(m)' /\ Sound(m)'
<1>1. /\ OthersGoOn(p) /\ NamesKept(name'[p]) /\ Settled(m) /\ Sound(m)
  BY StepFrame DEF IInv
<1>2. /\ conf'[m] = conf[m] /\ copy'[m] = copy[m] /\ (m \in dir' <=> m \in dir)
      /\ meant'[m] = meant[m] /\ fresh'[m] = fresh[m]
  BY <1>1 DEF NamesKept
<1>3. Files(m)' = Files(m)
  BY <1>2 DEF Files
<1>4. \A q \in Procs : (~Busy(q) \/ name[q] # m) => (~Busy(q) \/ name[q] # m)'
  BY <1>1 DEF OthersGoOn, Busy
<1>5. Settled(m)'
  BY <1>1, <1>2, <1>3, <1>4 DEF Settled
<1>6. Sound(m)'
  BY <1>1, <1>2 DEF Sound, Whole
<1> QED BY <1>5, <1>6

KeptAt(p) == Own(p)' /\ Settled(name[p])' /\ Sound(name[p])'

LEMMA KindFacts ==
  /\ Unknown.kind = "unknown" /\ Nothing.kind = "nothing"
  /\ \A v, c : Saved(v, c).kind = "saved" /\ Saved(v, c).v = v /\ Saved(v, c).cert = c
BY DEF Unknown, Nothing, Saved

LEMMA BeginKept ==
  ASSUME IInv, NEW p \in Procs, NEW n \in Names,
         AddConfig(p, n) \/ Config(p, n) \/ DeleteConfig(p, n)
  PROVE  KeptAt(p)
<1>1. /\ OthersGoOn(p) /\ Apart(p) /\ name'[p] = n /\ UNCHANGED <<orig, conf, copy>>
      /\ data'[p] = "none" /\ meant'[n] = Unknown /\ dir \subseteq dir'
      /\ TypeOK /\ ProcType /\ ToldType /\ Sound(n)
  BY BeginFrame, TypeParts DEF IInv
<1>2. \/ AddConfig(p, n) /\ pc'[p] = "copy" /\ n \in dir'
      \/ Config(p, n) /\ pc'[p] = "write"
      \/ DeleteConfig(p, n) /\ pc'[p] = "unlink" /\ todo'[p] = Files(n)
  BY <1>1 DEF AddConfig, Config, DeleteConfig, ProcType
<1>3. /\ (alone'[p] <=> Beside(p, n) = {}) /\ (fresh'[n] => Beside(p, n) = {})
  <2>1. Begin(p, n) /\ (fresh'[n] => Beside(p, n) = {})
    BY <1>1 DEF AddConfig, Config, DeleteConfig, Writes, ToldType
  <2> QED BY <2>1 DEF Begin
<1>4. Exclusive(p)'
  BY <1>1 DEF Exclusive, Busy, OthersGoOn, Apart
<1>5. FreshAlone(p)' /\ Filling(p)'
  BY <1>1, <1>2, <1>3 DEF FreshAlone, Filling
<1>6. Settled(n)'
  BY <1>1, KindFacts DEF Settled
<1>7. Working(p)'
  <2>1. Files(n) = {f \in {"conf", "copy"} :
                       IF f = "conf" THEN conf[n].there ELSE copy[n] # "gone"}
    BY DEF Files
  <2> QED BY <1>1, <1>2, <2>1 DEF Working, Copied
<1>8. CASE AddConfig(p, n) \/ Config(p, n)
  <2>1. fresh'[n] => Files(n) = {} /\ asked'[p]["ClientCert"] # "copy"
    BY <1>1, <1>8 DEF AddConfig, Config, Writes, ProcType, ToldType
  <2>2. fresh'[n] => ~conf[n].there
    BY <2>1 DEF Files
  <2>3. Sound(n)'
    BY <1>1, <2>2 DEF Sound
  <2>4. FirstWork(p)'
    BY <1>1, <2>1, <2>2 DEF FirstWork
  <2> QED BY <1>1, <1>4, <1>5, <1>6, <1>7, <2>3, <2>4 DEF KeptAt, Own
<1>9. CASE DeleteConfig(p, n)
  <2>1. (fresh'[n] => fresh[n]) /\ pc'[p] = "unlink"
    BY <1>1, <1>9 DEF DeleteConfig, ToldType, ProcType
  <2>2. Sound(n)'
    BY <1>1, <2>1 DEF Sound, Whole
  <2>3. FirstWork(p)'
    BY <2>1 DEF FirstWork
  <2> QED BY <1>1, <1>4, <1>5, <1>6, <1>7, <2>2, <2>3 DEF KeptAt, Own
<1> QED BY <1>8, <1>9

\* What a later step starts from, and what remains to be shown of it.
LEMMA LaterKept ==
  ASSUME IInv, NEW p \in Procs, Later(p),
         Working(p)', FirstWork(p)', Filling(p)', Sound(name[p])',
         Settled(name[p])' \/ meant'[name[p]] = meant[name[p]]
  PROVE  KeptAt(p)
<1>1. /\ OthersGoOn(p) /\ NamesKept(name[p]) /\ Apart(p) /\ Busy(p) /\ name[p] \in Names
      /\ name'[p] = name[p] /\ alone' = alone /\ (fresh'[name[p]] => fresh[name[p]])
      /\ TypeOK /\ Own(p) /\ Settled(name[p])
  BY LaterFrame, TypeParts DEF IInv, Own, ProcType
<1>2. Exclusive(p)' /\ FreshAlone(p)'
  BY <1>1 DEF Own, Exclusive, FreshAlone, Busy, OthersGoOn
<1>3. meant[name[p]].kind = "unknown"
  BY <1>1 DEF Settled
<1>4. meant'[name[p]] = meant[name[p]] => Settled(name[p])'
  BY <1>1, <1>3 DEF Settled
<1> QED BY <1>1, <1>2, <1>4 DEF KeptAt, Own

LEMMA BeforeLater ==
  ASSUME IInv, NEW p \in Procs, Later(p)
  PROVE  /\ FilesType /\ ConfType /\ ProcType /\ ToldType
         /\ Exclusive(p) /\ FreshAlone(p) /\ Filling(p) /\ Working(p) /\ FirstWork(p)
         /\ Settled(name[p]) /\ Sound(name[p]) /\ Busy(p) /\ name[p] \in Names
         /\ name'[p] = name[p] /\ asked'[p] = asked[p] /\ alone' = alone
         /\ fresh'[name[p]] => fresh[name[p]]
BY LaterFrame, TypeParts DEF IInv, Own, ProcType

LEMMA IdleKept ==
  ASSUME NEW p \in Procs, pc'[p] = "idle"
  PROVE  Working(p)' /\ FirstWork(p)' /\ Filling(p)'
BY DEF Working, FirstWork, Filling, Busy

LEMMA SoundKept ==
  ASSUME IInv, NEW p \in Procs, Later(p), UNCHANGED <<conf, copy>>
  PROVE  Sound(name[p])'
<1>1. Sound(name[p]) /\ name'[p] = name[p] /\ (fresh'[name[p]] => fresh[name[p]])
  BY BeforeLater
<1>2. Whole(name[p]) => Whole(name[p])'
  BY <1>1 DEF Whole
<1> QED BY <1>1, <1>2 DEF Sound

LEMMA NoCopyKept ==
  ASSUME IInv, NEW p \in Procs, NoCopy(p)
  PROVE  KeptAt(p)
<1>1. Later(p)
  BY DEF Later
<1>2. /\ pc[p] = "copy" /\ pc'[p] = "write" /\ UNCHANGED <<conf, copy, dir, data, meant>>
  BY <1>1, BeforeLater DEF NoCopy, Goes, disk, told, ProcType
<1>3. Working(p)' /\ FirstWork(p)' /\ Filling(p)' /\ Sound(name[p])'
  BY <1>1, <1>2, BeforeLater, SoundKept DEF Working, FirstWork, Filling, Copied, Busy
<1> QED BY <1>1, <1>2, <1>3, LaterKept

LEMMA CopyOpensKept ==
  ASSUME IInv, NEW p \in Procs, CopyOpens(p)
  PROVE  KeptAt(p)
<1>1. Later(p)
  BY DEF Later
<1>2. /\ pc[p] = "copy" /\ pc'[p] = "fill" /\ UNCHANGED <<conf, dir, meant>>
      /\ data'[p] = IF asked[p]["ClientCert"] = "copy" THEN "part" ELSE orig
      /\ open'[p] = (name[p] \in dir) /\ Given(p) # "gone"
  BY <1>1, BeforeLater DEF CopyOpens, Goes, told, ProcType
<1>3. asked[p]["ClientCert"] = "copy" \/ orig \in Certs
  <2>1. asked[p]["ClientCert"] \in {"unset", "given", "copy"} /\ orig \in Certs \cup {"gone"}
    BY <1>1, BeforeLater, SettingsAssumption DEF ProcType, FilesType
  <2>2. asked[p]["ClientCert"] = "unset" => Given(p) = "gone"
    BY DEF Given
  <2>3. asked[p]["ClientCert"] = "given" => Given(p) = orig
    BY DEF Given
  <2> QED BY <1>2, <2>1, <2>2, <2>3
<1>4. Filling(p)'
  BY <1>2, <1>3, CertsAssumption DEF Filling
<1>5. Working(p)' /\ FirstWork(p)' /\ Sound(name[p])'
  BY <1>1, <1>2, <1>3, BeforeLater DEF Working, FirstWork, Sound, Busy
<1> QED BY <1>1, <1>2, <1>4, <1>5, LaterKept

LEMMA CopyFillsKept ==
  ASSUME IInv, NEW p \in Procs, CopyFills(p)
  PROVE  KeptAt(p)
<1>1. Later(p)
  BY DEF Later
<1>2. /\ pc[p] = "fill" /\ pc'[p] = "write" /\ UNCHANGED <<conf, dir, meant, data>>
      /\ open[p] => copy'[name[p]] = data[p]
  BY <1>1, BeforeLater DEF CopyFills, Goes, told, ProcType, FilesType
<1>3. Working(p)' /\ FirstWork(p)' /\ Filling(p)' /\ Sound(name[p])'
  BY <1>1, <1>2, BeforeLater DEF Working, FirstWork, Filling, Sound, Copied, Busy
<1> QED BY <1>1, <1>2, <1>3, LaterKept

LEMMA CopyFailsKept ==
  ASSUME IInv, NEW p \in Procs, CopyFails(p)
  PROVE  KeptAt(p)
<1>1. Later(p)
  BY DEF Later
<1>2. /\ pc'[p] = "write" /\ data'[p] = "short" /\ ~fresh'[name[p]]
      /\ UNCHANGED <<conf, copy, dir, meant>>
  BY <1>1, BeforeLater DEF CopyFails, disk, ProcType, ToldType
<1>3. Working(p)' /\ FirstWork(p)' /\ Filling(p)' /\ Sound(name[p])'
  BY <1>1, <1>2, BeforeLater DEF Working, FirstWork, Filling, Sound, Copied, Busy
<1> QED BY <1>1, <1>2, <1>3, LaterKept

LEMMA TextOpensKept ==
  ASSUME IInv, NEW p \in Procs, TextOpens(p)
  PROVE  KeptAt(p)
<1>1. Later(p)
  BY DEF Later
<1>2. /\ pc[p] = "write" /\ pc'[p] = "close" /\ UNCHANGED <<copy, meant, data>> /\ open'[p]
      /\ conf'[name[p]] = [there |-> TRUE, torn |-> FALSE, text |-> Blank]
  BY <1>1, BeforeLater DEF TextOpens, Goes, told, ProcType, ConfType
<1>3. Emptied(conf'[name[p]])
  BY <1>2 DEF Emptied
<1>4. Working(p)' /\ FirstWork(p)' /\ Filling(p)' /\ Sound(name[p])'
  BY <1>1, <1>2, <1>3, BeforeLater DEF Working, FirstWork, Filling, Sound, Copied, Busy, Emptied
<1> QED BY <1>1, <1>2, <1>4, LaterKept

LEMMA TextClosesKept ==
  ASSUME IInv, NEW p \in Procs, TextCloses(p)
  PROVE  KeptAt(p)
<1> DEFINE n == name[p]
<1>1. Later(p)
  BY DEF Later
<1>2. TypeOK /\ n \in Names
  BY <1>1, BeforeLater, TypeParts
<1>3. /\ pc[p] = "close" /\ pc'[p] = "idle" /\ UNCHANGED <<copy, dir, data, asked>>
      /\ meant' = [meant EXCEPT ![n] = IF alone[p] THEN Saved(asked[p], data[p]) ELSE @]
      /\ conf' = [conf EXCEPT ![n] =
                    IF ~open[p] THEN @
                    ELSE [there |-> TRUE, text |-> Text(ToSave(p)), torn |-> @.text # Blank]]
  BY <1>1, BeforeLater DEF TextCloses, own, ProcType
<1>4. ASSUME alone[p]
      PROVE  /\ conf'[n].there /\ ~conf'[n].torn
             /\ conf'[n].text = Text(Left(asked[p], data[p]))
             /\ Copied(p)
  <2>1. open[p] /\ Emptied(conf[n]) /\ Copied(p)
    BY <1>1, <1>3, <1>4, BeforeLater DEF Working
  <2>2. conf'[n] = [there |-> TRUE, text |-> Text(ToSave(p)), torn |-> conf[n].text # Blank]
    BY <1>1, <1>3, <2>1, BeforeLater DEF ConfType
  <2>3. conf[n].text = Blank
    BY <2>1 DEF Emptied
  <2>4. ToSave(p) = Left(asked[p], data[p])
    BY <1>2, ToSaveIs
  <2>5. /\ conf'[n].there /\ conf'[n].text = Text(ToSave(p))
        /\ conf'[n].torn = (conf[n].text # Blank)
    BY <2>2
  <2> QED BY <2>1, <2>3, <2>4, <2>5
<1>5. Sound(n)'
  <2>1. SUFFICES ASSUME fresh[n] PROVE Whole(n)'
    BY <1>1, BeforeLater DEF Sound
  <2>2. /\ alone[p] /\ data[p] \in Certs \cup {"none"} /\ asked[p]["ClientCert"] # "copy"
        /\ asked[p] \in Settings
    BY <1>1, <1>3, <2>1, BeforeLater DEF FreshAlone, FirstWork, ProcType
  <2>3. PICK path \in {"unset", "given", "copy"} :
           /\ Left(asked[p], data[p]) = [asked[p] EXCEPT !["ClientCert"] = path]
           /\ path = IF data[p] = "none" THEN asked[p]["ClientCert"] ELSE "copy"
    BY <2>2, LeftFacts
  <2>4. path = "copy" => copy'[n] \in Certs
    BY <1>3, <1>4, <2>2, <2>3, CertsAssumption DEF Copied
  <2>5. name'[p] = n /\ ~conf'[n].torn
        /\ conf'[n].text = Text([asked[p] EXCEPT !["ClientCert"] = path])
    BY <1>1, <1>4, <2>2, <2>3, BeforeLater
  <2> QED BY <2>2, <2>4, <2>5 DEF Whole
<1>6. Settled(n)' \/ meant'[n] = meant[n]
  <2>1. CASE ~alone[p]
    BY <1>1, <1>3, <2>1, BeforeLater DEF ToldType
  <2>2. CASE alone[p]
    <3>1. meant'[n] = Saved(asked[p], data[p])
      BY <1>1, <1>3, <2>2, BeforeLater DEF ToldType
    <3>2. meant'[n].kind = "saved" /\ meant'[n].v = asked[p] /\ meant'[n].cert = data[p]
      BY <3>1, KindFacts
    <3>3. \A q \in Procs : (~Busy(q) \/ name[q] # n)'
      BY <1>1, <1>2, <1>3, <2>2, BeforeLater, StepFrame DEF Exclusive, OthersGoOn, Busy, Step, Later
    <3>4. name'[p] = n
      BY <1>1, BeforeLater
    <3> QED BY <1>3, <1>4, <2>2, <3>2, <3>3, <3>4 DEF Settled, Copied
  <2> QED BY <2>1, <2>2
<1>7. Working(p)' /\ FirstWork(p)' /\ Filling(p)'
  BY <1>3, IdleKept
<1> QED BY <1>1, <1>5, <1>6, <1>7, LaterKept, BeforeLater

LEMMA UnlinkKept ==
  ASSUME IInv, NEW p \in Procs, Unlink(p)
  PROVE  KeptAt(p)
<1>1. Later(p)
  BY DEF Later
<1>2. PICK f \in {"conf", "copy"} :
        /\ f = First(todo[p]) /\ todo'[p] = todo[p] \ {f}
        /\ IF f = "conf"
           THEN conf' = [conf EXCEPT ![name[p]] = NoText] /\ UNCHANGED copy
           ELSE copy' = [copy EXCEPT ![name[p]] = "gone"] /\ UNCHANGED conf
  BY <1>1, BeforeLater DEF Unlink, First, ProcType
<1>3. /\ pc[p] = "unlink" /\ UNCHANGED <<pc, dir, data, asked, meant>>
  BY DEF Unlink, told
<1>4. CASE f = "conf"
  <2>1. conf'[name[p]] = NoText /\ UNCHANGED copy
    BY <1>1, <1>2, <1>4, BeforeLater DEF ConfType
  <2>2. ~conf'[name[p]].there
    BY <2>1 DEF NoText
  <2>3. Working(p)' /\ FirstWork(p)' /\ Filling(p)' /\ Sound(name[p])'
    BY <1>1, <1>2, <1>3, <1>4, <2>1, <2>2, BeforeLater DEF Working, FirstWork, Filling, Sound, Busy
  <2> QED BY <1>1, <1>3, <2>3, LaterKept
<1>5. CASE f = "copy"
  <2>1. copy'[name[p]] = "gone" /\ UNCHANGED conf /\ "conf" \notin todo[p]
    BY <1>1, <1>2, <1>5, BeforeLater DEF FilesType, First
  <2>2. fresh[name[p]] => ~conf[name[p]].there
    BY <1>1, <1>3, <2>1, BeforeLater DEF FreshAlone, Working
  <2>3. Working(p)' /\ FirstWork(p)' /\ Filling(p)' /\ Sound(name[p])'
    BY <1>1, <1>2, <1>3, <1>5, <2>1, <2>2, BeforeLater DEF Working, FirstWork, Filling, Sound, Busy
  <2> QED BY <1>1, <1>3, <2>3, LaterKept
<1> QED BY <1>4, <1>5

LEMMA RmDirKept ==
  ASSUME IInv, NEW p \in Procs, RmDir(p)
  PROVE  KeptAt(p)
<1> DEFINE n == name[p]
<1>1. Later(p)
  BY DEF Later
<1>2. /\ pc[p] = "unlink" /\ todo[p] = {} /\ pc'[p] = "idle" /\ UNCHANGED <<conf, copy>>
      /\ dir' = IF Files(n) = {} THEN dir \ {n} ELSE dir
      /\ meant' = [meant EXCEPT ![n] = IF alone[p] THEN Nothing ELSE @]
  BY <1>1, BeforeLater DEF RmDir, ProcType
<1>3. Sound(n)'
  BY <1>1, <1>2, SoundKept
<1>4. Settled(n)' \/ meant'[n] = meant[n]
  <2>1. CASE ~alone[p]
    BY <1>1, <1>2, <2>1, BeforeLater DEF ToldType
  <2>2. CASE alone[p]
    <3>1. meant'[n] = Nothing /\ meant'[n].kind = "nothing" /\ n \in Names
      BY <1>1, <1>2, <2>2, BeforeLater, KindFacts DEF ToldType
    <3>2. \A q \in Procs : (~Busy(q) \/ name[q] # n)'
      BY <1>1, <1>2, <2>2, <3>1, BeforeLater, StepFrame DEF Exclusive, OthersGoOn, Busy, Step, Later
    <3>3. Files(n) = {}
      BY <1>1, <1>2, <2>2, BeforeLater DEF Working, Files
    <3>4. name'[p] = n
      BY <1>1, BeforeLater
    <3>5. Files(n)' = {} /\ n \notin dir'
      BY <1>2, <3>3, <3>4 DEF Files
    <3> QED BY <3>1, <3>2, <3>4, <3>5 DEF Settled
  <2> QED BY <2>1, <2>2
<1>5. Working(p)' /\ FirstWork(p)' /\ Filling(p)'
  BY <1>2, IdleKept
<1> QED BY <1>1, <1>3, <1>4, <1>5, LaterKept, BeforeLater

LEMMA KilledKept ==
  ASSUME IInv, NEW p \in Procs, Killed(p)
  PROVE  KeptAt(p)
<1>1. Later(p)
  BY DEF Later
<1>2. pc'[p] = "idle" /\ UNCHANGED <<conf, copy, meant>>
  BY <1>1, BeforeLater DEF Killed, disk, told, ProcType
<1>3. Sound(name[p])'
  BY <1>1, <1>2, SoundKept
<1>4. Working(p)' /\ FirstWork(p)' /\ Filling(p)'
  BY <1>2, IdleKept
<1> QED BY <1>1, <1>2, <1>3, <1>4, LaterKept

LEMMA StepKept ==
  ASSUME IInv, NEW p \in Procs, Step(p)
  PROVE  IInv'
<1>1. KeptAt(p)
  BY BeginKept, NoCopyKept, CopyOpensKept, CopyFillsKept, CopyFailsKept, TextOpensKept,
     TextClosesKept, UnlinkKept, RmDirKept, KilledKept DEF Step
<1>2. TypeOK' /\ \A q \in Procs \ {p} : Own(q)'
  BY StepFrame, OthersKept
<1>3. \A m \in Names \ {name'[p]} : Settled(m)' /\ Sound(m)'
  BY OtherNamesKept
<1>4. \A q \in Procs : Own(q)'
  BY <1>1, <1>2 DEF KeptAt
<1>5. \A m \in Names : Settled(m)' /\ Sound(m)'
  BY <1>1, <1>3 DEF KeptAt
<1> QED BY <1>2, <1>4, <1>5 DEF IInv

LEMMA UserChangesKept == IInv /\ UserChanges => IInv'
<1> SUFFICES ASSUME IInv, UserChanges PROVE IInv'
  OBVIOUS
<1>1. /\ UNCHANGED <<dir, conf, copy, pc, name, asked, data, todo, open, alone, meant, fresh>>
      /\ orig' \in Certs \cup {"gone"}
  BY DEF UserChanges, proc, own, told
<1>2. TypeOK'
  BY <1>1 DEF IInv, TypeOK
<1>3. ASSUME NEW p \in Procs PROVE Own(p)'
  <2>1. Own(p)
    BY DEF IInv
  <2> QED BY <1>1, <2>1
          DEF Own, Exclusive, FreshAlone, Filling, Working, FirstWork, Busy, Copied, Emptied
<1>4. ASSUME NEW n \in Names PROVE Settled(n)' /\ Sound(n)'
  <2>1. Settled(n) /\ Sound(n)
    BY DEF IInv
  <2> QED BY <1>1, <2>1 DEF Settled, Sound, Whole, Busy, Files
<1> QED BY <1>2, <1>3, <1>4 DEF IInv

LEMMA StutterKept == IInv /\ UNCHANGED vars => IInv'
<1> SUFFICES ASSUME IInv, UNCHANGED vars PROVE IInv'
  OBVIOUS
<1>1. UNCHANGED <<orig, dir, conf, copy, pc, name, asked, data, todo, open, alone, meant, fresh>>
  BY DEF vars, disk, proc, own, told
<1>2. TypeOK'
  BY <1>1 DEF IInv, TypeOK
<1>3. ASSUME NEW p \in Procs PROVE Own(p)'
  <2>1. Own(p)
    BY DEF IInv
  <2> QED BY <1>1, <2>1
          DEF Own, Exclusive, FreshAlone, Filling, Working, FirstWork, Busy, Copied, Emptied
<1>4. ASSUME NEW n \in Names PROVE Settled(n)' /\ Sound(n)'
  <2>1. Settled(n) /\ Sound(n)
    BY DEF IInv
  <2> QED BY <1>1, <2>1 DEF Settled, Sound, Whole, Busy, Files
<1> QED BY <1>2, <1>3, <1>4 DEF IInv

LEMMA InitFacts == Init => IInv
<1> SUFFICES ASSUME Init PROVE IInv
  OBVIOUS
<1>1. /\ orig \in Certs \cup {"gone"} /\ dir = {}
      /\ conf = [n \in Names |-> NoText] /\ copy = [n \in Names |-> "gone"]
      /\ pc = [p \in Procs |-> "idle"] /\ name \in [Procs -> Names]
      /\ asked \in [Procs -> Settings] /\ data = [p \in Procs |-> "none"]
      /\ todo = [p \in Procs |-> {}] /\ open = [p \in Procs |-> FALSE]
      /\ alone = [p \in Procs |-> TRUE]
      /\ meant = [n \in Names |-> Unknown] /\ fresh = [n \in Names |-> TRUE]
  BY DEF Init
<1>2. FilesType /\ ProcType /\ ToldType
  BY <1>1 DEF FilesType, ProcType, ToldType, Promises
<1>3. ConfType
  <2>1. IsConf(NoText)
    BY BlankIs DEF IsConf, NoText
  <2> QED BY <1>1, <2>1 DEF ConfType, IsConf
<1>4. ASSUME NEW p \in Procs PROVE Own(p)
  BY <1>1 DEF Own, Exclusive, FreshAlone, Filling, Working, FirstWork, Busy
<1>5. ASSUME NEW n \in Names PROVE Settled(n) /\ Sound(n)
  <2>1. meant[n].kind = "unknown"
    BY <1>1, KindFacts
  <2>2. ~conf[n].there
    BY <1>1 DEF NoText
  <2> QED BY <2>1, <2>2 DEF Settled, Sound
<1> QED BY <1>2, <1>3, <1>4, <1>5, TypeParts DEF IInv

LEMMA Inductive == Spec => []IInv
<1>1. IInv /\ [Next]_vars => IInv'
  BY StepKept, UserChangesKept, StutterKept DEF Next
<1> QED BY InitFacts, <1>1, PTL DEF Spec

\* Every variable keeps its type: what stands in a copy is a certificate or
\* what an interrupted FileCopy left of one.
THEOREM TypeCorrect == Spec => []TypeOK
BY Inductive, PTL DEF IInv

LEMMA PromiseIs ==
  ASSUME TypeOK, NEW n \in Names, meant[n].kind = "saved"
  PROVE  meant[n].v \in Settings
<1>1. meant[n] \in Promises
  BY TypeParts DEF ToldType
<1>2. PICK v \in Settings, c \in Certs \cup {"none", "part", "short"} : meant[n] = Saved(v, c)
  BY <1>1, KindFacts DEF Promises
<1> QED BY <1>2, KindFacts

\* For any names, processes and settings: what ReadConfig reads is what the last
\* command to have had the name to itself was given, but for what stands behind
\* the time-out, and as Value cuts it.
THEOREM WhatIsSavedIsRead == Spec => []ReadsBack
<1>1. IInv => ReadsBack
  <2> SUFFICES ASSUME IInv, NEW n \in Names, meant[n].kind = "saved"
               PROVE  /\ ~conf[n].torn
                      /\ \A k \in KeySet \ {"ClientCert"} :
                            ReadConfig(n)[k] = IF k \in Swallowed(meant[n].v) THEN "unset"
                                               ELSE Value(meant[n].v[k])
    BY DEF ReadsBack
  <2> DEFINE v == meant[n].v
             w == Left(v, meant[n].cert)
  <2>1. Settled(n) /\ TypeOK /\ v \in Settings
    BY PromiseIs DEF IInv
  <2>2. ~conf[n].torn /\ conf[n].text = Text(w)
    BY <2>1 DEF Settled
  <2>3. w \in [KeySet -> Values] /\ \A k \in KeySet \ {"ClientCert"} : w[k] = v[k]
    BY <2>1, LeftFacts
  <2> HIDE DEF w, v
  <2>4. ASSUME NEW k \in KeySet \ {"ClientCert"}
        PROVE  k \in Swallowed(w) <=> k \in Swallowed(v)
    <3>1. "Timeout" \in KeySet \ {"ClientCert"} /\ ~Before("Timeout", "ClientCert")
      BY KeyFacts
    <3>2. \A l \in KeySet : Before("Timeout", l) => w[l] = v[l]
      BY <2>3, <3>1
    <3> QED BY <2>3, <3>1, <3>2 DEF Swallowed
  <2>5. ASSUME NEW k \in KeySet \ {"ClientCert"}
        PROVE  ReadConfig(n)[k] = IF k \in Swallowed(v) THEN "unset" ELSE Value(v[k])
    BY <2>2, <2>3, <2>4, <2>5, MeaningFacts DEF ReadConfig
  <2> QED BY <2>2, <2>5 DEF v
<1> QED BY <1>1, Inductive, PTL

\* For any of them: AddConfig's copy is there and named as long as nothing else
\* is done to the name.
THEOREM CopyIsKept == Spec => []CertificateKept
<1>1. IInv => CertificateKept
  <2> SUFFICES ASSUME IInv, NEW n \in Names, meant[n].kind = "saved", meant[n].cert \in Certs
               PROVE  ReadConfig(n)["ClientCert"] = "copy" /\ copy[n] = meant[n].cert
    BY DEF CertificateKept
  <2> DEFINE w == Left(meant[n].v, meant[n].cert)
  <2>1. Settled(n) /\ TypeOK /\ meant[n].v \in Settings
    BY PromiseIs DEF IInv
  <2>2. meant[n].cert \notin {"none", "short"}
    BY CertsAssumption
  <2>3. conf[n].text = Text(w) /\ copy[n] = meant[n].cert
    BY <2>1, <2>2 DEF Settled
  <2>4. w \in [KeySet -> Values] /\ w["ClientCert"] = "copy"
    BY <2>1, <2>2, LeftFacts
  <2> HIDE DEF w
  <2>5. Meaning(Text(w))["ClientCert"] = w["ClientCert"]
    BY <2>4, PathFacts
  <2> QED BY <2>3, <2>4, <2>5 DEF ReadConfig
<1> QED BY <1>1, Inductive, PTL

\* For any of them: where nothing was saved a command that is killed leaves
\* either nothing that connects or all of it, and 'del' leaves none without its copy.
THEOREM FirstSaveIsAtomic == Spec => []FirstIsAtomic
<1>1. IInv => FirstIsAtomic
  <2> SUFFICES ASSUME IInv, NEW n \in Names, fresh[n], Connects(n)
               PROVE  /\ ~conf[n].torn
                      /\ \E v \in Settings, path \in {"unset", "given", "copy"} :
                            conf[n].text = Text([v EXCEPT !["ClientCert"] = path])
                      /\ ReadConfig(n)["ClientCert"] = "copy" => copy[n] \in Certs
    BY DEF FirstIsAtomic
  <2>1. Sound(n) /\ conf[n].there /\ ReadConfig(n)["Server"] # "unset" /\ KeySet # {}
        /\ "Server" \in KeySet /\ "ClientCert" \in KeySet
    BY KeyFacts DEF IInv, Connects
  <2>2. conf[n].text # Blank
    BY <2>1, BlankIs DEF ReadConfig, Meaning
  <2>3. PICK v \in Settings, path \in {"unset", "given", "copy"} :
          /\ conf[n].text = Text([v EXCEPT !["ClientCert"] = path])
          /\ path = "copy" => copy[n] \in Certs
    BY <2>1, <2>2 DEF Sound, Whole
  <2>4. ~conf[n].torn
    BY <2>1, <2>2 DEF Sound, Whole
  <2> DEFINE w == [v EXCEPT !["ClientCert"] = path]
  <2>5. w \in [KeySet -> Values] /\ w["ClientCert"] = path
    <3>1. v \in [KeySet -> Values] /\ path \in Values
      BY SettingsAssumption
    <3> QED BY <2>1, <3>1
  <2>6. conf[n].text = Text(w)
    BY <2>3
  <2> HIDE DEF w
  <2>7. Meaning(Text(w))["ClientCert"] = path
    BY <2>5, PathFacts
  <2> QED BY <2>3, <2>4, <2>6, <2>7 DEF ReadConfig
<1> QED BY <1>1, Inductive, PTL

\* For any of them: 'del' leaves neither file nor directory.
THEOREM NothingIsLeft == Spec => []NothingLeft
<1>1. IInv => NothingLeft
  BY KindFacts DEF IInv, Settled, NothingLeft
<1> QED BY <1>1, Inductive, PTL

===============================================================================
