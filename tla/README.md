# vpn_mgr: a TLA+ development

Models, checks and proofs about `vpn_mgr` (the source under `src/`), kept beside the code.
Every definition is translated from the source; `PROJECT.json` names, for each of them, the
lines it stands for.

## 1. The system and its parts

`vpn_mgr` is one single-threaded C program with a signal handler. It brings a VPN up by running
other programs (ip, ifconfig, route, ssh, pppd, wg, openvpn, sudo, su) on ptys, reads what
they print, and relays bytes. Only one part of it serves several parties at a time: the
ppp-over-TLS server. There is no test suite; the README and the comments are all that says what
the program should do.

| part | state | operations | talks to |
|---|---|---|---|
| ppp-over-TLS server (`ssl_server.c`) | list `Connections`, the `Peer` item of each stream, `Vpn->RemoteAddress` | accept, authorise, launch a pppd, relay, shut down, collect a child | TLS clients, one pppd each, through the stream library |
| stream library (`libUseful-bundled/Stream.c`, `Server.c`, `List.c`, `OpenSSL.c`) | input and output buffer of each stream | select, read, write, flush, close, accept | poll, OpenSSL, the kernel |
| privileged commands (`run_command.c`) | sudo/su flags, password cache, paths found | RunCommandOpen, the read loop, RunCommand, clean-up | sudo, su, the user at the terminal |
| native ssh tunnel (`ssh.c`) | the ssh stream, `Active` | sync, remote command, connect, set up, process, terminate | ssh, the remote shell, run_command, net, updown |
| pppd, client side (`ppp.c`, `pppssh.c`, `ssl_client.c`) | both streams, `EndpointConfigured` | launch, relay, configure the endpoint | pppd, ssh or a TLS server |
| openvpn, wireguard (`openvpn.c`, `wireguard.c`) | device name, pid file | launch, follow the log, shut down | openvpn, wg, tuntap, updown |
| host network (`net.c`, `route.c`, `tuntap.c`, `resolv.c`, `updown.c`) | devices, addresses, routes, resolv.conf (all in the kernel or on disk) | find or create a device, routes, change resolv.conf, run scripts | run_command |
| saved configurations (`vpn_config.c`, `vpn_ctx.c`) | a directory for each name: the text and the copies of its files | write, read, add, list, delete | the file system |
| command line, dispatch, signals (`main.c`, `command_line.c`, `common.c`) | `GlobalFlags` | parse, dispatch, SIGINT | everything |

What makes each of them right:

* **Server**: only the peers an `-auth` method names reach a pppd; no stream is used after it has
  been freed and none is left open and unserved; bytes are neither lost nor repeated while both
  ends live; every client is served; a couple one end of which has gone is torn down; SIGINT ends
  the loop.
* **Privileged commands**: a command runs at most once whatever is retried; success is reported
  only of a command that ran; each method the flags allow is tried.
* **ssh**: what is read after a sync belongs to what was sent after it; a session ends on SIGINT
  wherever it stands and removes its device.
* **streams**: a write is taken over whole or its caller is told; what was taken over comes out in order, each byte once; a line is returned whole; NULL means
  that nothing will come any more.
* **pppd client**: the endpoint is configured once, when the device has its address; the relay drops nothing
  and ends when either side does or SIGINT comes.
* **host network**: the original resolv.conf is never lost; two sessions do not share a device;
  up and down scripts run in pairs.
* **configurations**: what is saved is what is read back; the copy of a certificate lives as long as
  the configuration; a command that is killed does not leave one that connects with half of it.

The code falls short of some of this: the runs that expect a violation and section 5 say where.

Where it is hard: hazards are listed at their lines in `PROJECT.json`. In short: freed streams
still pointed at, a launch that fails half-way through an accept, data left in buffers at a close,
fairness of a hand-written poll loop, a signal between a test and a wait, retries that answer a
prompt of the previous attempt, `exit` from deep inside a helper, threads that write to each other and read
only afterwards, files that are emptied before they are filled.

## 2. Modules

Each module is about one part; where two parts meet, the one that is used appears in the other by
what it promises. Definitions named `X_Something` and marked "Fault" are plausible mistakes in `X`;
no specification uses them. With each of them in the place of `X` a run finds its property violated.

`SSLAuth` -- the decision of `SSLAuth()`. A credential is what the server knows of a peer;
`AuthFlags` gives the two flags the C code sets and `Authorised` its answer. `Documented` states
what the README says of each method, for the peers whose certificates name them.

`SSLServer` (EXTENDS `SSLAuth`) -- the loop. One action is one step of the thread: the test of
the flag (`LoopCheck`), the flushing walk over the list at the head of `STREAMSelect` (`FlushAndReturn` when
a stream has bytes in its own buffer, `FlushAndWait` otherwise), the return of `poll` with the move of the chosen
node to the end of the list (`Wake`), then either `Accept`, the end of the TLS negotiation, `Refuse` or
`Admit` and `Launch`/`LaunchFailed`, or `Relay`/`Disconnect`, and `Reap`. Around the thread,
clients dial, send, hang up, and send TLS records without data; pppds exit; SIGINT comes at any
point. A write to a client that has reset its connection may end the program (`BrokenPipe`: main.c does not catch SIGPIPE). `conns` is the list, `peer` the Peer items, `stream` says whether a stream is allocated or freed,
`inbox`/`inbuf`/`outbuf` are the kernel's queue and the stream's two buffers. Data is counted in
units of one 4096-byte read, so that `BUFSIZ` (8192) is two units. `transit` is a history variable that counts the units
that have gone in at one end of a couple and not come out at the other. `MCSSLServer` has the
credentials and hosts of the runs.

`Connection` -- what one client of the server is promised whatever the others do: its connection is accepted, refused,
coupled to a pppd of its own or left alone, nothing comes out but in a couple, and a couple is closed as a whole, after what
the side that left had sent. `phase`, `live` and `way` are functions of the server's state (`Phase`, `Live`, `Way` in
`SSLServer`, a refinement mapping for each client), and `KeepsConnections` says that the server, for all its clients at
once, does nothing else. `Abrupt` is the one exception: an empty TLS read passes for the end.

`ByteQueue` -- what a stream promises: what a write was given is taken over whole, or the writer is told that it was not;
what was taken over is sent, unless the writer closes before that; what was sent is handed out in order, each byte once.
Nothing else makes a byte disappear.

`Stream` -- libUseful's STREAM between a writer and a reader: `STREAMWriteBytes` and `STREAMWriteLine` with the
three ways of flushing, the queueing that pushes when the buffer is full, the push that a signal or a closed reader
cuts short, the input buffer whose start moves (`start` is InStart, `Moved` the making of room), and
`STREAMReadToTerminator`, `STREAMReadToMultiTerminator` and `STREAMReadBytes` with their time-outs.
`out` and `inbuf` are the buffers, `wire` the kernel's queue; the kernel takes and gives any part.
Bytes are real here: the contents of a line is what the properties are about. `MCStream` instantiates it;
`Stream` implements `ByteQueue` (`InOrder`) with `given <- rest`, `told <- wrote`, `kept <- out`, `sent <- inbuf \o wire` and
`open <- wpc # "closed"`: a push that fails drops what is not yet copied and keeps what is (`Fails`); only `STREAMShutdown` drops that too.

`PPPRelay` -- `PPPDProcess` with `PPPDLaunch`, `PPPDTryConfigureEndpoint` and `PPPDHandleExit`: one thread
between our pppd and the far end, ssh or a TLS server. As in `SSLServer`, data is counted in 4096-byte units. Unlike there the kernel may be
full, so that a write blocks (`Push`, `Blocked`), and the TLS server's thread is one that may itself be writing to
us (`busy`). When our pppd goes the thread waits for its process (`reap`, until `Exits`), and a write to a TLS server that has
gone ends the program (`BrokenPipe`). The link comes up when both pppds have heard each other; `link` is the address they
agreed on, the one asked for or another.

`ConfigStore` -- `add`, `conf`, `del` and what `connect` reads. Each command is a process that may be killed
between any two steps and may run beside others. `conf` is the text of each name, `copy` the copy of the certificate, `orig` the user's file;
the text is a function of the keys that were written, and `Meaning` what `ReadConfigLine` makes of it
(a value ends at its first space outside of quotes, and quotes around it go: `Value`; nothing behind a `Timeout` is a line of its own).
`CopyFails` is a FileCopy that cannot open a file or gives up half-way, which `AddConfig` does not notice. `alone`,
`meant` and `fresh` are history: who ran beside whom, what the last command was to leave, and whether anything
was saved before or a copy failed. `MCConfigStore` instantiates it.

`PrivilegedCall` -- what a caller is promised of a command run as root: it is executed at most once
before the call answers, and the program does not end between the execution and the answer.

`RunCommand` -- `RunCommandOpen`, `RunCommandRead`, `RunCommand` and `RunCommandCleanUp`, with sudo, su and the user at the terminal.
`call` is the request and the flags left to it, `child` the tool on the pty, `out` what it has
printed and the program has not read, `cache` the password, `flags` the machine's
sudo/su flags, `pc` the place in the loop; `did` is history. The program tries sudo, and, when no
stream came of it, su (`NoStream`); the read loop answers prompts, sees a refusal, times out or stops at SIGINT. `MCRunCommand`
instantiates it; `RunCommand` implements `PrivilegedCall` under a refinement mapping (`KeepsPromise`).

`SSHCommand` -- `SSHVpnSync`, `SSHVpnRunCommandTry` and `SSHVpnRunCommand` over a connection to a shell. `sent` and
`out` are the two queues, `far` the shell or the sudo or su that has its terminal, `call` the
request being tried, `installed` what is found over there; answers may come after the timeout that
gave them up (`MaxLate`), and the connection may end at any time. `key` is the answer to the
latest sync, `old` one to an earlier one. `MCSSHCommand` instantiates it.

`Session` -- what `vpn_mgr connect` does to the host: `SSHVpnUp`, `WireguardUp` and `OpenVpnUp`
down to each command run as root. One session is one process: `conf` is its request, `pc` where it
stands, `dev` its device, `tries` the userspace programs tried, `exit` FLAG_EXIT, `active` the
pointer SIGINT's handler uses (`freed` from the close of its stream on), `link` the ssh connection, the
wireguard settings or the openvpn process. Sessions share the devices (`maker` says who made each)
and the two resolv.conf files (`resolv`, `saved`). `did` is history: among other things whether the
'mv' that saves resolv.conf left it in its place (`unmoved`). `Steps` are the program's,
`Remote` those that wait for the far end of ssh, `Outside` what others do (the connection ends, a
line of openvpn's log comes, the terminal closes, SIGINT). A command run as root has its effect or not, and may end the program (`Quit`, the
`exit` in RunCommand) or hang (`Hang`, the waitpid after a SIGINT); through sudo or su it is
reported to have succeeded whatever it did. A read of a line does not end at a time-out, as `Stream` shows of
`STREAMReadLine`, so that a session sits in `Watch` until a line comes or the link ends. `MCSession` instantiates it.

`SSLAuthProofs`, `SSLServerProofs`, `StreamProofs`, `PPPRelayProofs`, `ConfigStoreProofs`, `RunCommandProofs`,
`SSHCommandProofs` and `SessionProofs` hold the proofs, each about the module it is named after.

## 3. Runs

| run | question | what it shows |
|---|---|---|
| `ssl_pairs` | two clients come, go and come back while pppds start, fail and exit: is the list ever wrong, does one client disturb the other? | no: `NoDangling` and `NoLeak` hold, and for each client the server refines `Connection` (`KeepsConnections`) |
| `ssl_single` | one client that may come back, every credential, over-full reads, empty TLS reads, SIGINT: is data lost, is everyone served, is a named peer admitted exactly when the README says? | yes to the last two, for all 32 credentials and all methods: types, `AuthorisedOnly`, `NamedPeersAsDocumented`, `Conservation`, `EofLosesNothing`; live: `TornDown`, `Served`, `ExitComesToRest` |
| `ssl_busy` | may one stream lock the others out (comment at Stream.c:414)? | yes: one whose buffer is filled again at each turn is returned without a look at the others, and is not moved |
| `stream` | lines cut up by the kernel, by both buffers and by signals: do they come out whole and in order, and nothing missing that was taken over? | yes; it refines `ByteQueue`, NULL is answered only at the end, and a line that has come is returned |
| `relay` | full queues, over-full reads, either end going, SIGINT: does the relay lose a frame, configure the endpoint, end? | yes to the last two, and nothing is lost, except that both threads may wait for each other (`Deadlocked`) |
| `config` | two commands on one configuration, killed anywhere, the originals deleted, copies that fail: what does `connect` read? | what was saved, if the command ran alone, but for the setting behind a time-out and what quotes and spaces do to a value; the copy of the certificate is kept; a first save is whole or refused unless FileCopy fails (the types are proved, `ConfigStoreProofs`) |
| `config_promise` | is everything that was saved read back (README.md:91, :93)? | no: `LocalSU` behind `Timeout` is lost (vpn_config.c:201) |
| `cmd_user` | three calls with sudo and su, right and wrong passwords, failures to open, SIGINT: does a command run twice, as the user, does a password reach anything but the tool, does the program wait for a tool that waits for it? | no; it refines `PrivilegedCall`, and every call ends unless SIGINT came |
| `cmd_both` | is a user sudo refuses offered su, as the comment says? | no: the failure is not seen, and reported as a success |
| `ssh_command` | what does a retry meet on the connection? | after a sync nothing older is under way; no command twice; a password is never read by the shell |
| `session_pair` | two sessions on one machine, failures and SIGINT anywhere: what is left of devices, resolv.conf? | the four invariants hold; SIGINT ends an ssh session of root; a user's may be caught in a waitpid, and the other kinds may read a silent terminal or log |
| `session_ctrlc` | does control-C end the wait of a wireguard session, as the comment at wireguard.c:114 says? | no: the read goes on until a line comes |

Bounds of the server. `InMax` units wait in the kernel at one end: two fill an input buffer in one read, leave a
remainder there and fill an output buffer, so that every branch of the read and write paths is
taken. Two clients give every order of two couples in the list, which is what the list operations
can tell apart (a third adds no new neighbour relation); they are interchangeable, so `ssl_pairs`
uses symmetry (it checks invariants and a step property over all clients alike). `MaxFailed` failed launches, each of which leaves a NULL in the
list for good. A client may come back any number of times.

Bounds of the stream. A buffer of three and a kernel's queue of two, and three texts: an empty line, a line with the
beginning of another, and one longer than either buffer; so lines end at every place of the buffer, and room is
made both because half is read and because it is full. One signal. The writer may write any number of texts.

Bounds of the relay. `InMax = 2` as for the server; `OutMax = 1`, since a queue that takes less fills sooner.

Bounds of the configurations. One name (names share nothing), two processes (a third meets what two have
left), two certificates, and four settings that differ in the certificate, the certificate file, a value with a space, a value in quotes and
what follows the time-out. `config_promise` has the settings whose words need no quotes, and one with a setting behind the time-out, so that its
trace shows that one failure. Processes and certificates are interchangeable; only invariants are checked.

Bounds of the commands. `MaxCalls = 3`: one call to fill the password cache, one to use it, and
one after a password was dropped. `MaxTries = 2` wrong answers in a call, in RunCommand and in
SSHCommand: the first and one more. `MaxLate = 2` late answers, so that one may be under way while another
is awaited.

Bounds of the sessions. Two sessions, because every hazard here is one between two (who looked
first, who deletes, who saves the file). The three pairs of requests are two
wireguards for the one name there is (one finds it, or both do), ssh with openvpn on the `tun` names, and two
ssh one of which was given `tun1`, which the user made. Root and ordinary users occur, so that both kinds of answer of RunCommand do. `MaxUps = 2`: openvpn's second call is the one
that loses the original resolv.conf; a third does what the second did.

Fairness. The server's `FairSpec`: weak fairness of the thread (it is never kept from running), of
the end of a negotiation whose client has gone (the socket reports it) and of the exit of a pppd whose pty
has been closed (SIGHUP). Nothing is asked of clients: one that is silent in its TLS handshake
holds the loop, as in the code, and the liveness properties say so (`NotStuck`); one that keeps its buffer full
has it too (`Drains`), which `ssl_busy` shows to be no idle condition. Stream: both ends go on with a call they are in,
and nobody has to begin one. Relay: the thread runs; the pppds read, ask for a link, agree on it, give up when
nothing is answered (lcp-echo-failure), and exit once they have closed their pty. That the TLS server gives each stream its turn is strong fairness of
`Deliver`, since its thread is sometimes busy; by `ssl_busy` this rests on the other clients. RunCommand: the
program and the tool run. Nothing is asked of the user beyond the answer to a prompt.
SSHCommand: the program and the far end run; its properties hold until SIGINT or the end of the
connection (`Undisturbed` names where that matters). Session: each process runs, its
commands return or hang as `Hang` says, and the far end of ssh answers. Nothing is asked of `Outside`, so that `EndsOnSignal` does not count
on the terminal to close or on openvpn to end. ConfigStore promises no progress.

`CHECK_DEADLOCK FALSE` stands where the system stops for good: sessions end, calls run out, both ends of a stream close.

## 4. Proofs

`SSLServerProofs` proves, for any set of clients, any `-auth` method and any bounds:

* `TypeCorrect`: `Spec => []TypeOK`;
* `NothingDangles` and `NothingLeaks`: the two invariants of `ssl_pairs`. They are not inductive.
  `Couples` strengthens them: no stream is in the list twice (otherwise taking one node out would
  leave the stream listed), Peer items come in pairs within the list, the stream being accepted is
  open and in no list, `poll` answers only with streams of the list, and a connection in the
  backlog has no streams yet. The proof has one lemma per action; `QuietStep` covers those that leave the list alone, and
  `WithoutFacts`, `RequeueFacts`, `AppendFacts` say what the list operations do;
* `OnlyTheAuthorised`: a running pppd belongs to an authorised client, from `Vetted` (the
  credentials do not change between the decision and the exit of the pppd) and `AuthorisedMeans`, which unfolds SSLAuth's flags;
* `NothingIsLostOrDoubled` and `LastBytesArrive`: `Conservation` and `EofLosesNothing`. The invariant `Buffers` follows the units of
  each couple through its three buffers: `Balanced` is `Conservation` for streams whose far side has gone as well (with the living
  alone it is not inductive), `Clean` says that a stream that is not open holds nothing, so that the next connection in its place
  starts from empty buffers, and `Fresh` that nothing has been read from or written to the one being accepted, which is what `Balanced`
  needs when it gets its pppd;
* `EachIsAConnection` and `Implements`: the server implements `Connection` for every client, and all clients at once. What it needs
  beside `Couples` and `Buffers` is `Connected`: the two streams of a client are always in one of the phases (`Whole`), a stream that `STREAMSelect` has
  returned has something to read, or its far side has gone, or it is an empty TLS read (`Chosen`, with `Silent` where those are ruled out), and
  no pppd runs for a client that has not dialled (`Unborn`). `PhaseIs` turns the cases of the mapping into facts about the streams, and `StepLinks` reduces
  each step to the one client it is about: it leaves every other where it was.

`SSLAuthProofs`, for every method and credential: `AsDocumented`, that a named peer is admitted as the README says, from which
`NamedAsDocumented` in `SSLServerProofs` follows; that a peer without a name is admitted by `open`
alone (`NamelessOnlyIfOpen`); and that the README's `ip:` admits nobody (`IpAdmitsNobody`). `FlagsMean` says what each of the two flags stands for.

`StreamProofs`, for any bytes, sizes, texts and flush types: `TypeCorrect` (no buffer is filled past its size),
`NullMeansEnd`, `WholeLines`, and `Implements`, the refinement of `ByteQueue`. The invariant says what is asked for where a
reader stands, that a line in the making has no newline yet, that the end is only seen when nothing can come, and that only a call under
way has anything left to copy (`Given`). `Copied` reduces the four ways of taking bytes to one transfer of the first n; `PassedFacts`, `Cut` and `Longer` are the facts on
sequences the refinement stands on, and there is one lemma for each step of `ByteQueue`.

`PPPRelayProofs`, for any sizes: `TypeCorrect`, and `NothingIsLost`. `STREAMWriteBytes` drops what its buffer has
no room for, so that the latter needs `Flushed`: where the thread reads, the buffer it will write to is empty, unless that end
has gone or a signal has cut a write short, and then it does not read again.

`ConfigStoreProofs`, for any names, processes, certificates and settings: `TypeCorrect`, `WhatIsSavedIsRead`, `CopyIsKept`,
`FirstSaveIsAtomic`, and that `del` leaves nothing (`NothingIsLeft`). The invariant follows a command that is alone with
its name (`Exclusive`, `Working`), then what it has left when it ends (`Settled`), and apart from these what the first command on a
name may have put there (`FreshAlone`, `FirstWork`, `Sound`). `MeaningFacts` says, for every settings, what becomes of each key in
writing and reading, and `PathFacts` that a path survives both.

`RunCommandProofs`: `TypeCorrect`, at-most-once (`OnceOnly`), `PasswordsGoToTheTool`,
`AskedOnlyOnce`, `SudoStaysGivenUp`, `NoDeadlyWait`, and that `RunCommand` implements `PrivilegedCall` (`Implements`): every step is one of the
abstract ones or a stutter. Its invariant adds to the types what connects the
program to the tool: nothing is on the pty between calls (`Quiet`), a tool listens only while it
asks (`Listening`), what was executed and what was printed agree
(`Executions`, `Unread`), how often the user was asked (`Asked`), and which tools have been given up (`GivenUp`). `NoDeadWait` needs
more: `PromptLast`, that while the loop reads, a tool that waits has printed nothing behind its prompt; `Heard`, that what the shell or the
command prints is there only when the tool needs nobody any more; and `Settled`, that the loop, SIGINT aside, ends only then (`Past`). `ProgramPrompts` and `ToolPrompts` are its two halves.

`SSHCommandProofs`: `TypeCorrect`, `SyncCleans`, `NothingGoesAstray` and `RunsAtMostOnce`: all the safety properties of
`ssh_command`, for any passwords, tools, requests and bounds. `SyncIsClean` is not inductive; the invariant has a part for each
place of the program. `Synchronising`: the newest key is the last line under way, and once its answer is, the shell reads its
terminal and nothing is under way to it. `Reading`: how far the tool is, by what it has printed that the program has not read
(`AtWork`), which is why a refusal or a second echo is read only where nothing was executed. `Ended`: when the result is not
OKAY, no command is under way and none has run (`Dead`), otherwise at most one is or has (`OnlyOne`); this lets the second try
begin. There is one lemma for each action; `ToolKeeps` carries those of sudo and su, `SendKeyEnded` the three that send a key.

`SessionProofs`: the four safety invariants of `session_pair`, and the pairing of the scripts of ssh sessions, for any number of sessions, requests,
devices and any bound. The inductive invariant `IInv` is `TypeOK`, and of each session:

* `Counts`: how many VpnUps and saves go with each place (without it `TypeOK` is not inductive);
* `Paired`, `Carried`, `Named`: the scripts of ssh; no link before the connection, and `Active`
  open only where its stream is; a device named from `Choose` on;
* `Owns`: a device a session made is its `dev`, so that deleting that one deletes all; `Gone`
  and `HasDevice`, which give `LeavesNoDevice` and `TunnelHasDevice`;

and of all together `Resolving`: as long as no first 'mv' left resolv.conf in its place and no second VpnUp moved it, the original is
in one of the two files, at whatever place each session stands or ended. `MoveShape`, `OthersKept` and `MakerEffect` say what a step leaves alone;
after them each part needs only the session's own steps.

The assumptions are the named ASSUMEs of the modules on their constants. Every invariant and every step property that a passing run
checks is proved. Only model-checked are the liveness properties (temporal reasoning under fairness, and ENABLED, are out of
the prover's reach), and that the code does otherwise than a comment says, in the runs that expect a violation.

## 5. Not modelled, and what is known beside the properties

Left out: SIGPIPE in the middle of a TLS negotiation, and in `Stream`, where a closed reader is answered by STREAM_CLOSED, as a pty does;
a TLS record cut in two, which makes OpenSSL's read wait; in `SSLServer` writes that block (`PPPRelay`
has them); in `RunCommand` and `SSHCommand` the tty's echo of what is typed; streams that are files, proxies or
compressed; what ip, ifconfig and /proc/net/route print and how it is parsed; logging; the start-up tests for
certificate and key files; routes (they go with their device); commands of the endpoint's set-up that hang; the help text. Parsing the command line fills in the record that the modules take as constants.

Known from the source, beside what the runs state:

*Server*

* `-auth ip-only` admits only a peer that shows a certificate with a name, since the test sits inside the one for it
  (ssl_server.c:35; README.md:208 says otherwise); the README's example `-auth ip:...` matches no test of `SSLAuth`.
* The last pppd stays a zombie until some client causes the next event (ssl_server.c:179; CHANGELOG:8).
* A TLS read of no bytes ends a connection, of the server (ssl_server.c:104) and of `PPPDProcess` alike, although Stream.c:1678 tells such a read from the end.
* SIGPIPE is not caught (main.c:69-74): a write to a client that has reset its connection ends the server with all its other links, and
  one to a TLS server ends `PPPDProcess` without its clean-up (`BrokenPipe` in both modules). The properties hold up to that end.
* The stream of an accepted client is FLUSH_ALWAYS (Stream.c:755), so that what is written to it goes out within `STREAMWriteBytes`; `PutUnit` leaves it to the
  flush at the head of `STREAMSelect` as for a pppd, which adds behaviours and takes none away.
* A client that is silent in its TLS negotiation holds the loop for as long as it likes (`NotStuck` in `TornDown` and `Served`).
* `-R` is overwritten for every client (ssl_server.c:120), and `NetDevFindNextIP` looks at local addresses only, so that clients that come before the first device is up get the same.

*Commands*

* With only sudo enabled, a command whose sudo could not be started is started as the user (run_command.c:296); `StaysWithSu` is about
  machines where both tools are allowed.
* The tools of the local machine decide what is asked of the remote one (run_command.c:89; README.md:70): without sudo here, a command for sudo
  over there is never written, and the call waits for the answer.
* After SIGINT `SSHVpnSync` stops at the first line (ssh.c:156), and the second try is started all the same. A line
  that arrives in two parts is not cut by the time-out: `STREAMReadLine` goes on waiting (`NullOnlyAtEnd`), and so does every caller that counts on a time-out.

*Streams*

* The comments at Stream.c:1984-1985 and Stream.h:453 say that `STREAMWriteBytes` always queues all the data. It does not: when a push in the middle of
  it fails, the rest is not copied (Stream.c:1941-1947); the call then answers STREAM_CLOSED, which is the second case of `ByteQueue`'s promise (`Refuse`).
  A `STREAMWriteLine` that fails has then left the first part of its line in the buffer, and it goes out in front of the next.
* `STREAMShutdown` drops what it cannot push in two tries, with nobody to tell (`ByteQueue`'s `Close`).

*Sessions*

* `Active` dangles from `STREAMClose` on (ssh.c:442). `Signal` gives that every outcome up to the
  end of the program; nothing documents what should happen.
* resolv.conf is never put back (`ResolvRestore` has no caller), and openvpn's two `VpnUp`s per
  session lose the original: the second moves what the first put there over the copy. When only the first 'mv' has no effect (resolv.c:24
  does not look), the second overwrites the original. `OriginalKept` excuses these two and no other failure.
* A connection that cannot be made leaves its device (`LeavesNoDevice` speaks of sessions that
  were connected). Two sessions may choose one device, since `NetDevFindNext` looks before `TunSetup` makes it, and then spoil each other:
  `TunnelHasDevice` excepts sessions that have the same device, and `LeavesNoDevice` one whose 'ip tuntap add' met the other's device.
* Control-C does not end the reads of `WireguardUp` (wireguard.c:117, `session_ctrlc`) and `OpenVpnProcess`, for the same reason as above.
* After SIGINT an ordinary user's session of any kind may stay in waitpid() for a sudo or su that asks again (run_command.c:141); `EndsOnSignal`
  names it ('stuck') and does not count it as an end.
* README.md:101 says that up and down scripts run when a vpn becomes active or shuts down. The down scripts are run by `VpnDown`, which only `SSHVpnUp`
  calls: `WireguardUp` ends with `TunShutdown` (wireguard.c:124) and so does `OpenVpnShutDown`. Of ssh sessions it is true (`SshPaired`).

*pppd client*

* Client and server each write before they read; with both queues full each waits for the other for ever, and SIGINT does not end a TLS
  write (`Deadlocked`, the one exception in `ComesUp` and `EndsWhenOver`).
* `PPPDLaunch` pays no attention to `-local-su`; the stream to the far end is never closed by `PPPDProcess`; none of the
  ppp clients calls `VpnDown`, so that their down scripts do not run.
* `NetDevFindForIP` finds a device by its address: with the default 172.16.0.2, that of another session may be taken.

*Configurations*

* Timeout is written without its newline (vpn_config.c:201), so that the first of Protocol, LocalSU and RemoteSU behind it is lost (`config_promise`;
  `ReadsBack` names it: `Swallowed`). A value in the text is not quoted: `GetNameValuePair` (vpn_config.c:24, Tokenizer.c:453-479) ends it at its first space
  and takes quotes off, so that the first word is read back without them; what follows on the line is taken for a further name and value, which matters
  only if that begins with the name of a setting. In the model's values it does not. RemoteAddress, MTU, the device and others are not saved.
* FileCopy's result is not looked at (vpn_config.c:273): the configuration names a copy that may be short, old or missing (`CopyFails`, which
  `CertificateKept` and `FirstIsAtomic` except).
* The text is taken to fit into the stream's buffer, and so to reach the file at the close; a longer one is pushed in pieces (Stream.c:1931-1941), and a
  command killed between two of them leaves the beginning of it, which `FirstIsAtomic` does not cover.
* `add` given its own copy empties it (vpn_config.c:273), which is a stated exception of `CertificateKept`. `add -c` takes no copy of the
  config file, although README.md:95 speaks of one. `del` without a name removes the directories of all configurations (vpn_config.c:327).
* `connect <name>` reads the file after the command line, so that what was saved overrides the options given. A configuration saved over another is
  not replaced in one step: `FirstIsAtomic` speaks of first saves only.

## 6. What could be added

* A bound on how long a client may hold the server in its negotiation.
* The parsing of addresses and routes (`RouteParseHexAddress`, `IsServerURL`) against reference definitions; these are pure functions on strings that
  no property of the system rests on.
* The composition of `PPPRelay` with `SSLServer`: one relay at each end of the connection, instead of the far end's `busy` flag.
