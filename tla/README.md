# A TLA+ model of sshtun

sshtun keeps a set of SSH tunnels up: it connects to a server, starts local
(`-L`), remote (`-R`), dynamic (`-D`) and layer-3 (`-w`) forwards, watches the
link, tears everything down when the link is lost and starts again. This
directory holds TLA+ modules that model the parts of the program in which the
order of events matters, the TLC configurations that check them on small
instances, and TLAPS proofs of the properties that hold for every instance.

The code is a Rust crate (`src/src/`, about 1900 lines without tests) on the
tokio runtime, and a fork of the russh library (`src/crates/russh/`), a client and
a server of the SSH protocol, of which sshtun uses the client. What is not in the repository (tokio's scheduler and its
signal handler, the kernel's tun driver, the SSH server) is modelled from the way
the code uses it, and is marked external in the map of `PROJECT.json`.

## 1. The system

### Components, their state and their operations

| Component | Source | State | Operations |
|---|---|---|---|
| Supervisor | `main.rs` | the current connection, the manager, the monitor's handle | connect, start, post-up hooks, `select!`, teardown, cleanup, sleep; SIGINT |
| Tunnel manager | `tunnels/mod.rs` | vector of task handles, exit channel (capacity 16) | `start`, `abort_all` |
| Local forward | `tunnels/local_forward.rs` | listener; one task per accepted client | bind, accept, open `direct-tcpip`, copy both ways |
| Dynamic forward | `tunnels/dynamic_forward.rs` | listener; one task per client | the same, after a SOCKS5 dialogue |
| Remote forward | `tunnels/remote_forward.rs` | queue of forwarded channels (100) | register at the server, serve the queue, copy both ways |
| TUN forward | `tunnels/tun_forward.rs` | tun descriptor, `tun@openssh.com` channel, three tasks | build the device, open the channel (five attempts), pump both ways |
| Link monitor | `monitor.rs` | count of consecutive failures | sleep, ping under a timeout of 5 s, verdict |
| Hooks | `hooks.rs` | none; rules on both hosts | post-up commands, cleanup command |
| Connection | `ssh.rs` | session handle, handles of the jump hosts | TCP connect, handshake, authentication, chain of jumps |
| Configuration | `config.rs` | the resolved configuration, constant | parse arguments and `ssh_config`, derive the tun id |
| Transport | russh `negotiation.rs`, `*/kex.rs`, `cipher/`, `session.rs` | exchange, keys, sequence numbers, session id, packets put aside | choose algorithms, exchange and re-exchange keys |
| Authentication | russh `auth.rs`, `*/encrypted.rs`; `ssh.rs` | current method, methods left, reply queues | service request, probe, sign, accept, reject |
| Connection layer | russh `client/`, `server/`, `session.rs` | two tables of channels, queue of global requests | open, confirm, refuse, data, adjust, EOF, close, requests |
| Session loop | `crates/russh/src/client/` | channels, re-exchange state, timers | read a packet, take a message, flush, end |
| Channel data path | `crates/russh/src/channels/`, `session.rs` | windows, kept data, queues | write, send, keep back, flush, close |

### How they interact

`main` owns everything of a connection and loops over it. The workers are tokio
tasks that the manager spawns; each holds a clone of the session's handle, that
is a sender of the session task's queue. The session task ends when its link
fails, when nothing moved for 60 s, or when the last sender is dropped. A worker
tells `main` of its end through the exit channel only: no handle is ever awaited.
`main` tells a worker to stop by `abort()`, which is a request: the task keeps its
listener, descriptor or channel until the runtime drops it. Tasks that a worker
spawns (the proxied connections, the two pumps of the TUN worker) are in no vector
of handles, and the end of their parent does not end them.

Data takes another way: a worker writes to a `ChannelTx`, which takes bytes off a
window it shares with the session task and queues a message; the session task puts
the message on the wire against its own count of the same window.

### What is hard about it

* **Interleaving**: an aborted task and its successor on the same address or
  device; a worker that ends while `main` is still in `start()` or in a hook; a
  key re-exchange between a write and its sending.
* **Partial failure**: `start()` gives up half way with `?`.
* **Stale state**: tasks of an old session that survive the teardown and hold its
  device, its address, its session; a shared window that is overwritten.
* **Timeouts and retries**: the ping, the cleanup command that the server may run
  after it was given up, the five attempts to open the server's device while the
  server has not noticed yet that the last session is gone.
* **Two halves that must agree**: client and server choose algorithms, switch
  keys, reset sequence numbers and number channels each by its own code, while
  packets cross; either may start a re-exchange at any time.
* **Layers of precedence**: `~/.ssh/config` with sections, includes and includes in
  sections, read anew for every host of a chain, under a command line that is for
  one of them.
* **Something must happen**: after the last fault the tunnels come up again, for
  good; SIGINT ends the program; what was written arrives.

`PROJECT.json` lists the hazards one by one, at the line where each bites, with
the properties that would catch it.

### What makes each component correct

* Supervisor: after a loss a new connection attempt follows, and once faults stop
  all tunnels are served for good; Ctrl+C terminates; nothing of an old session
  serves clients or holds the device.
* Tunnel manager: no worker ends without `main` learning of it.
* Link monitor: a verdict after exactly `keepalive_max` unanswered pings in a
  row, and none while the peer answers.
* TUN forward: the device is free when the next connection is made.
* Channel: order, exactly once, within the window, silent during a re-exchange,
  bounded memory, nothing stuck, a close that is answered; no message on another
  channel, tables that agree when nothing is under way.
* Transport: sessions with algorithms in common never end each other, nothing is
  lost in a re-exchange, and an exchange ends.
* Authentication: both ends agree on who was let in; every identity is tried; it ends.
* Configuration: the first value that applies wins, every host gets its own, a
  forward is what was written, an automatic TUN device has two usable addresses.

## 2. The modules

| Module | Models | Extends |
|---|---|---|
| `Sessions` | the SSH sessions as the rest of the program sees them, and the faults | |
| `TunnelManager` | `start`, `abort_all`, listeners, `-R` task, exit channel | `Sessions` |
| `TunForward` | TUN setup, outer and inner tasks, who holds the device | `Sessions` |
| `LinkMonitor` | the ping loop | `Sessions` |
| `Supervisor` | `main`, composing the three above | all of them |
| `SupervisorProofs` | theorems about `Supervisor` | `Supervisor` |
| `ByteStream` | abstract: one direction of a channel, a byte stream with credit | |
| `ChannelFlow` | the sending half of a channel in russh | |
| `ChannelFlowProofs` | theorems about `ChannelFlow` | `ChannelFlow` |
| `Negotiation` | the lists of algorithms and the choice from them | |
| `Kex`, `MCKex` | key exchange and re-exchange, client and server | `Negotiation` |
| `KexProofs` | theorems about `Kex` | `Kex` |
| `UserAuth`, `MCUserAuth` | sshtun's loop over identities, client's Handle and task, server | |
| `UserAuthProofs` | theorems about `UserAuth` | `UserAuth` |
| `Channels`, `MCChannels` | channels, requests and global requests, client and server | |
| `ChannelsSteps` | what each step of `Channels` changes and writes, as lemmas | `Channels` |
| `ChannelsProofs` | theorems about `Channels`: numbers, opening, tables, global requests | `ChannelsSteps` |
| `ChannelsDataProofs` | theorems about `Channels`: what is said on a channel, windows, closing | `ChannelsProofs` |
| `ForwardSpecs` | the specifications of `-L`, `-R`, `-D`, `-w` | |
| `TunAddress` | ids and addresses of automatic TUN devices | |
| `Config`, `MCConfig` | `~/.ssh/config` and `ResolvedConfig::from_args` | `ForwardSpecs`, `TunAddress` |
| `ConfigProofs` | theorems about `TunAddress` and `Config` | `Config` |

`Sessions` to `Supervisor` are the program seen from `main`; `Config`, `Kex`,
`UserAuth`, `Channels` and `ChannelFlow` open up what is one step there: the
configuration before the loop, the connection, the authentication, a ping (which
is the opening of a channel), and the bytes of a worker.

### Sessions and tasks

A session has a slot `g \in 1 .. N`. `link[g]` is the client's side (`"up"`,
`"stalled"` when nothing comes back but no error shows, `"dead"` when the session
task has ended); `srv` is the set of sessions the server has not given up. A slot
is used again only once nothing of its last session is left (`Free`), so the
number of reconnections is unbounded and `N` only bounds how many sessions leave
something behind at one time. When all slots are occupied `ConnectOk` is disabled:
that is the one place where the bound cuts behaviours. `Drops` is the end of a session
whose last sender is dropped; its guard lists every holder (`main`, listeners,
connections, the three TUN tasks).

A task is `"none"`, possibly `"bind"`, `"run"`, `"aborting"`, `"end"`. The two
steps from `"run"` to `"end"` are the point: between `abort()` and the drop the
task still owns its resources. An abort that hits a listener which has not bound
yet leaves nothing to release and ends it at once.

### Supervisor

`phase` is where `main` is; every `await` of `main` at which other tasks can
overtake it is a phase of its own. `ConnectOk` contains the part of `start()` up to
its first `await`, because nothing can come between. `AbortEverything` is what
both ways out of `select!` do before their next `await`: monitor, every task of
the vector, and the loss of `exit_rx`. `StartRegisterErr`, `StartTunBuildErr` and
`StartTunErr` are the exits of `start()` by `?`, which drop the vector without
aborting it.

SIGINT is possible in every phase. Before the first `select!` it kills the
process; afterwards tokio's handler is installed and the signal matters only while
a `ctrl_c()` is being awaited (`SigintHeard`, `SigintForces`), otherwise it is lost
(`SigintLost`).

The cleanup hooks are a command sent to the server under a timeout.
`CleanupTimeout` leaves the session in `late`, and `LateCleanup` is the moment
the server runs the command nobody waits for; it deletes the server's device
whoever owns it by then.

### ChannelFlow

Bytes are numbered in the order they are written; a buffer is an interval
`(lo, hi]`. `taken` is what the writer took from the application, `wire.hi` what
went out last; between them lie, in this order, `pending` (kept back by the
session), `queue` (the mpsc queue) and `fut` (the message waiting for a permit).
`win` is the window of the writer, `rw` the one of the session; `Adjust` adds to
`rw`, flushes, and then overwrites `win` with `rw`, as the handler of
WINDOW_ADJUST does. `rekey` follows `Encrypted.rekey`; `stash` is what arrived
between the client's KEXINIT and the peer's and is processed at NEWKEYS. A flush of
`flush_channel` is described by the byte up to which it gets (`cut`) and the
number of buffers that went out whole (`Whole`, `RestOf`) instead of a loop.

### Kex and Negotiation

A packet on `wire[s]` carries the key and the sequence number it was sealed with;
the peer can open it only with the same two (`Opens`), and ends otherwise. Keys are
terms: the exchange hash is the tuple of what the code hashes, so that two sides
have the same key exactly when they have seen the same exchange and chosen the same
names. `phase` is `Kex` before encryption and `Encrypted.rekey` after it. Client
and server are separate (`ClientKexInit`, `ClientEcdhReply`; `ServerKexInit`,
`ServerEcdhInit`), because their code is: they differ in what is flushed when, in
who resets which sequence number where, and in what is put aside. `NewKeys` is the
whole handler: keys, kept data, the packets put aside and the answers to them, the
reset. `stash` is `pending_reads`, of which the data in order, the number of
keepalives (which are answered) and the size matter. A list from which names were
left out keeps the places of the others (`Filter`): only their order is looked at.
`loud` is a history variable: a keepalive was written in a re-exchange.

### UserAuth

Two queues join `Handle` and the session task of the client, two wires the client
and the server. `app` is where `authenticate_handle` and the method of `Handle` it
is in are; `cli.blocked` the `await`s inside the packet handler during which the
session task reads nothing but one kind of message. A plan is what the application
will try; `Good`, `Offered` and `Accepted` say what the server will find. `cli.cur`
is `auth_request.current`, which is set by the first attempt only.

### Channels

`chans` is `Encrypted.channels`, `refs` is `Session.channels`. A message names a
channel by the receiver's number; its field `ch`, which no operation reads, says
which channel was meant, and `NoCrossTalk` compares the two. Where the code of the
two sides differs there are two operators: an OPEN that is refused leaves a
reference on the server; CLOSE is answered by the client and only remembered by
the server; a FAILURE for a task that has given up is an error on the server;
EOF and CLOSE wait for kept data on the client only; the client does not answer a
keepalive that wants no reply, the server answers every global request. (The client
does not answer `hostkeys-00@openssh.com` either, which only other servers send, so it
is not a message of the model.) `wants` of a session is `common.wants_reply`, which the
server's answer to a request for the agent looks at. A RESULT carries the number of the
request it answers, which no operation reads, and 0 where nobody has queued for it. A
write has a length (`Writes`): the part that the window admits is sent at once and the
rest kept back. Tasks write no data after their EOF.

### Config, ForwardSpecs, TunAddress

A file is a sequence of lines (a section header, an option, an include), a host a
sequence of parts between colons. Reading is recursive in the code and a stack of
frames here, one line a step. `Lines` is the reference: the lines in the order in
which `ssh_config(5)` takes them, each include replaced by its file, of which
`Values` takes those that apply. `ParseForward` follows the cases of the code;
`Written` is the reference, the set of ways to write a given forward. A
specification of one token is split by the code together with the white space around
it (`config.rs:181`, `:228`, `:275`), so that a port next to white space is refused;
specifications with white space around a single token are not in the model. An
address is the last two octets of 169.254.x.y. `args.raw` stands for the digest and
`args.checks` for a build that checks for overflow, in which `from_args` may end in a
panic (`TunPanics`).

## 3. What the runs check

Every run starts from `Init` and explores everything within its constants. All
set `CHECK_DEADLOCK FALSE`: the program ends after SIGINT; an exchange of keys, an
authentication and a configuration come to an end; a writer with nothing more to
write and tasks without operations left may rest.

| Run | Configuration | Checks | Result |
|---|---|---|---|
| `sup_local` | one listener, 3 slots, 2 faults, `keepalive_max` 2, no reconnect delay | `TypeOK`, `NoStaleListener`, `VerdictExact`, `VerdictOnSilence`, `Reconnects`, `Recovers` | hold |
| `sup_full` | a listener, two `-R`, `-w auto`, no delay | `NoSilentDeath`, `TunReleased` | hold |
| `sup_auto_live` | `-w auto`, 1 fault | `Recovers` | holds |
| `flow` | window 4, packets of 2, queue of 1, 10 bytes | `TypeOK`, `WindowExact`, `BacklogBounded`, `KeptOnlyWhenFull`, `InOrder`, `RekeyQuiet`, `StreamSpec`, `Delivered` | hold |
| `kex` | eight pairs of preferences; a re-exchange, a packet and a keepalive of each side | `SessionsSurvive`, `KeysAgree`, `NothingLost`, `SessionIdFixed`, `ExchangeEnds` | hold |
| `auth` | all plans of up to two of 13 attempts, three of three | `AuthAgrees`, `OneUnderWay`, `AllTried`, `AuthEnds` | hold |
| `channels` | three channels of the client, two of the server, 4 operations, writes of 1 to 3, window 2 | `TypeOK`, `NoCrossTalk`, `TablesAgree`, `CloseCompletes`, `OpenersAnswered`, `EofLast`, `GlobalsInStep`, `AnswersInOrder`, `EndsExplained` | hold |
| `config` | three files of up to three lines; command lines; specifications of up to four tokens | `NoFileTwice`, `FirstWins`, `EachHostItsOwn`, `ForwardsAsWritten`, `TunPaired` | hold |
| `sup_leak` | a listener and one `-R` | `Recovers` | violated |
| `sup_orphan_session` | `-w`, no auto, server with keepalives | `Recovers` | violated |
| `sup_ctrlc` | one listener | `CtrlCTerminates` | violated |
| `auth_sign` | an agent that fails on the first of two identities | `AgentAuthEnds` | violated |

What the properties say:

* `NoSilentDeath`: while `main` is in `select!` and no reason is queued, every
  listener of the current session, the `-R` task and the outer TUN task are alive.
  It relates tasks nobody awaits to a queue filled by them in any order, some of
  them while `main` is still in `start()` or in the hooks.
* `NoStaleListener`: no listener of a session that `main` has left accepts clients.
* `TunReleased`: when `main` sleeps or connects, no descriptor of an old session is
  attached to the device.
* `VerdictExact`: the monitor is dead exactly when `keepalive_max` pings in a row
  went unanswered (`unanswered` is a history variable that does not look at the
  program's own count).
* `VerdictOnSilence`: the step to the verdict is never taken while the link is up.
* `Reconnects`, `Recovers`: a session lost while active leads to a connection
  attempt; and once the finite faults are used up, the program serves all tunnels
  for ever (or was stopped by SIGINT).
* `WindowExact`: bytes sent, window left and window put aside add up to what the
  peer granted. `KeptOnlyWhenFull`: data is kept only when the window is used up.
  `BacklogBounded`: at most the queue and one message are kept; the bound is
  reached in `flow`, and it exists only because the adjustment forgets the
  queue: with an exact shared window nothing would ever be kept.
* `InOrder`, `RekeyQuiet`: each buffer starts where the last one ended and none
  follows the close; nothing goes out from KEXINIT to NEWKEYS.
* `StreamSpec`: `ChannelFlow` implements `ByteStream`.
* `Delivered`: what is written reaches the peer unless the peer closes.
* `SessionsSurvive`: two sessions with a common algorithm of every kind never end
  each other, whoever starts re-exchanges and whatever crosses them; every packet
  can be opened and is expected. The two exceptions in its statement are real. A
  keepalive that russh writes during a re-exchange goes out under the old key, and the
  peer may have changed to the new one (sshtun sets no `keepalive_interval`). And a
  side whose `pending_reads` is full ends the session, after which the other finds
  the end of the stream.
* `KeysAgree`, `NothingLost`, `SessionIdFixed`, `ExchangeEnds`: the keys at the two
  ends of a wire are equal unless NEWKEYS is on its way; packets put aside are
  processed once and in order; the session id is the first hash for ever; an
  exchange that one side began ends.
* `AuthAgrees`: the server lets in on a good signature only; the client reports
  success for exactly that identity, and never gives up on a server that let it in.
  `OneUnderWay`: requests and answers alternate across all four queues. `AllTried`,
  `AuthEnds`: failure means that nothing would have succeeded, and both the loop and
  the session come to an end, except for attempts that go astray (`Astray`), which
  are what `auth_sign` is about.
* `NoCrossTalk`, `TablesAgree`: see Channels above. `CloseCompletes`,
  `EofLast`: data, EOF and CLOSE that wait for the window get out,
  in that order. An EOF that has waited is sent again at every later WINDOW_ADJUST,
  because `pending_eof` is never cleared (`session.rs:266`); this happens in the run,
  and `EofLast` says that the repetition too is not followed by data and does not
  follow the CLOSE. `OpenersAnswered`: a task that waits for a channel has its OPEN or
  the answer under way. `AnswersInOrder`: answers on a channel, which name no
  request, come in the order of the requests. `GlobalsInStep`: the queue of global
  requests is in order and waits for nothing that has been answered, and it is exact,
  every request under way being in it, until its side has sent something that is
  answered and not queued for; the operations of that kind are counted (`Strays`). `EndsExplained`: a session is ended by
  what its peer sends in two ways only, a WINDOW_ADJUST that crosses the end of its
  channel and, on the server, a refusal of a channel whose task has given up. Both
  happen in the run.
* `FirstWins`, `EachHostItsOwn`: what is extracted and resolved is what the
  reference says, for files that do not include each other in a circle;
  `NoFileTwice`: with a circle too the stack of files is no deeper than there are
  files, so reading ends. `ForwardsAsWritten`: a forward is the one meaning of its
  specification, and only what has no meaning is refused. `TunPaired`: both ends of
  an automatic TUN device get the same name, the addresses that are resolved for a
  derived id lie side by side in a block where both can be used, and deriving an id
  never panics. An id given by `-w auto:<id>` is not checked by the code: of its
  addresses the property says only that they follow each other, and it names the
  exception. For 65535 the sum at `config.rs:847` does not fit into 16 bits; a build
  without overflow checks resolves 169.254.255.255 and 169.254.0.0, one with them (the
  debug build) panics. Both are in the run, as `args.checks`.

### Disagreements between the code and its texts

The four violated runs each show one, with a trace:

1. `sup_leak`: a registration that the server refuses once (its old session still
   owns the port) makes `start()` return with its listeners detached; they hold
   their addresses for ever, each later manager is torn down by its own
   "address in use", and the program never serves again. The README promises to
   tear down stale tunnels and to reconnect.
2. `sup_orphan_session`: the teardown aborts the outer TUN task only, so that
   without `auto` its two pumps go on; they keep the device and the old session. If
   the link recovers and the server sends keepalives of its own, neither side ever
   ends that session, and its device on the server stays taken.
3. `sup_ctrlc`: Ctrl+C is lost outside `select!` from the second round on.
4. `auth_sign`: an agent that fails to sign makes `authenticate_future` return
   without telling the session task, which goes on waiting for the signature and
   discards every other message, the next attempt included; nothing times out.

Smaller ones, seen while modelling and not given a run:

* The ping is not the `keepalive@openssh.com` request its comment names but the
  opening of a session channel, and a refusal, which is an answer, counts as a
  failure: a server without session channels is declared dead. In `Supervisor` this
  is the constant `RefusesSessions`, under which `VerdictOnSilence` is false.
* The client's CLOSE waits for kept data, and so for a window that a peer may no
  longer grant after its own CLOSE, although the comment at
  `client/encrypted.rs:446` says that it "must be sent". The peer of `ChannelFlow` stops
  granting; the server of russh does not, and so `CloseCompletes` holds.
* The comment in `Encrypted::flush`, "and we've not started to rekey", states a
  condition the code does not test; its callers do, except for keepalives.
* `max_auth_attempts` of the server's configuration is read by nothing.
* `keepalive_max` 0 is accepted and makes the first successful ping a verdict; the
  properties of the monitor are stated and proved for positive values.
* The server's `eof` and `close` are written at once and overtake data that is kept
  back, so `EofLast` is about the client only.
* The queue of global requests can slip. `tcpip_forward` and `cancel_tcpip_forward`
  without a reply channel queue nothing and want no reply (`client/session.rs:291`, `:318`), but
  the server answers them (`server/encrypted.rs:996`, `:1017`); and the server answers the
  channel request `auth-agent-req@openssh.com` with the reply to a global request
  (`server/encrypted.rs:897`; the refusal is sent whether or not a reply is wanted,
  `server/session.rs:705`). Either answer pops the entry of another request, whose
  sender is then told of the wrong one. `GlobalsInStep` without its last premise is
  violated in four steps. sshtun asks for forwardings through `Handle`, which
  always has a reply channel, and never for the agent.
* The client's EOF is repeated (see `EofLast` above).
* A keepalive request on a channel is answered to the client's own number of it.
* Message 60 is PK_OK or INFO_REQUEST by what the first attempt was, and a closed
  queue keeps `wait_recv_keyboard_interactive_reply` asking for ever. Both concern
  methods that sshtun does not use; they are the exceptions of `AuthEnds`.
* More than two windows of packets put aside in a re-exchange end the session; the
  queue from the session to a reader has no bound; `recipient_window_size` is added
  to in 32 bits. A peer within RFC 4254 and a reader that reads meet none of them.
* A destination that is a bare IPv6 address loses its last group to the port when it
  is a number; `-w tun5:auto` drops the name; `Tunnel no` creates a device called
  "no"; `Match user` always applies. `Config` does the same.

### Bounds, and why they are enough

* `N = 3` slots: the current session and two that leave something behind. The
  conflicts modelled (address, remote port, server's device, local device) are
  between two sessions; the third shows a conflict with a session that is itself
  the victim of one. `sup_full` uses 2 for its size.
* `MaxFaults`: stalls, resets, failed connects, refusals, builds and cleanups that
  fail for an outside reason. Recovery from a stall (`Resume`), the session's own
  end and everything the program does are not faults and not bounded. Two faults
  let a second one hit the recovery from the first.
* `keepalive_max` 1 or 2: with 2 a success between two failures must reset.
* `ReconnectInterval` 0 lets `main` overtake aborted tasks; with at least one
  second the model assumes that an aborted task is dropped first.
* `flow`: the window holds two packets, so that both a whole and a split buffer are
  kept; `MaxBytes` lets the window be refilled at least twice. The proofs remove
  all these bounds.
* `kex`: with `MaxRekeys` 1 each side starts a re-exchange after the first
  exchange, so that two can meet or follow each other: three exchanges, which
  is where a hash, a session id or a sequence number of the last but one would
  show. One packet and one keepalive of each side can be anywhere in them.
  `PendingMax` 2 is reached: a session with one packet more to put aside ends. The
  pairs of preferences have the same lists in other orders, strict or not, no MAC in common, and only the names of
  extensions in common.
* `auth`: two attempts show what one leaves for the next; the plans of three have an
  agent that fails, or a narrowing of the methods, in between. Two prompts of
  keyboard-interactive are one and then another.
* `channels`: both sides open channels, so that the numbers of the two sides differ
  and one is given while another is forgotten. Four operations are enough to open,
  overfill a window of two at once (a write of three), and have EOF and CLOSE wait; to
  have an EOF wait, go out and be sent again at the next grant; to close while a grant
  is under way; to ask twice before an answer. Each side has one operation whose answer
  nobody waits for (`MaxStrays`), after which its queue of global requests has slipped.
  Longer sequences are the business of the proofs: all nine properties of this run are
  theorems for every number of operations.
* `config`: three files allow a circle through an included file and a file
  included twice; three lines a header, an option and an include in any order.

### Fairness

`FairSpec` of `Supervisor` assumes: `main` and the monitor go on when they can
(they wait on timers and futures that complete); every task that has something to
do is polled; an aborted task is dropped; a silent link ends or comes back (the
inactivity timer, TCP's retransmission limit); the server notices a dead session
and runs a command it has received; an unmonitored session over which nothing
moves ends by the inactivity timer. It does not assume that users connect or leave,
that SIGINT comes, that packets flow on a device, or that a proxied connection ends.
An inner TUN task is assumed to notice an error only where it needs no packet for it.

`FairSpec` of `ChannelFlow` assumes: a permit is granted when there is room; the
session task serves its queue and the peer grants what it has received, both
strongly, since a re-exchange may interrupt them again and again; and the peer
answers in a re-exchange. Re-exchanges are an hour or a gigabyte apart, so between
two of them both get their turn. Writing and closing are free.

`Kex` assumes that each session goes on reading what has come and learns of the
end of the other; starting re-exchanges, data and keepalives is free. `UserAuth`
assumes that the application, the two session tasks and the wires go on, and nothing
of the loss of the server or of what its handlers answer. `Channels` has no fairness:
what must happen is stated of the states in which nothing is under way. `Config` is
one thread and has none either.

## 4. What is proved

All proofs are checked by TLAPS, for every value of the constants that satisfies
the named assumptions of the modules (natural numbers, positive sizes, Booleans).

### Supervisor (`SupervisorProofs`)

* `TypeCorrect`. `TypeOK` is not inductive: that `late` holds slots needs
  `CurHeld` (`main` holds a session from `connect` to the end of the arm), and that
  the counters stay within their range needs `MonitorCount` (the program's count
  is the number of unanswered pings, and a monitor that goes on has not reached the
  limit). `TypeInv` is the conjunction.
* `VerdictIsExact` (for `keepalive_max > 0`) follows from the same invariant;
  `VerdictNeedsSilence` (also for a server that allows session channels) is an
  action property.
* `WorkersNeverDieSilently`. The strengthening `Workers` speaks of every phase
  from `start()` on: the exit channel exists, and a worker that was spawned is alive
  or a reason is queued. It needs no assumption on the tunnels.
* `AutoReleasesTun` (with `-w auto`): `DevInv` says that the device is attached only
  from the build to the deletion, whatever inner tasks are left.
* `LocalTunnelsTornDown` (only `-L`, `-D`): `ListenerInv` adds that a slot about to
  be used, or left, has no listener going. With `-R` or `-w` it is false, see
  `sup_leak`.

### ChannelFlow (`ChannelFlowProofs`)

`FlowInv` is the inductive invariant: types, `WindowExact`, `KeptOnlyWhenFull`,
`Joined` (the three places between the wire and the writer are chains of non-empty
buffers that join without a gap) and `Closing` (a channel that is closing or gone
awaits no grant). From it follow `FlowTypes`, `WindowIsExact`,
`NothingKeptInVain`, `WireInOrder`, `QuietWhileRekeying` and, with the steps mapped
one by one, `ImplementsByteStream`.

`BacklogIsBounded` needs two more: `QueueSize` (the bytes behind a message of the
queue are bounded by the messages behind it) and `Ahead`: what is taken and may
still be taken is at most what the peer granted plus `Cap + 1` messages. It is the
overwriting of the window that makes `Ahead` non-trivial: at that moment either
nothing is kept, and the distance is the queue, or something is kept, the window
was 0 before, and the old bound carries over.

### TunAddress (in `ConfigProofs`)

`AutoPairsUsable` and `AutoPairsDisjoint` hold for every digest, where the run takes
four. Both rest on `AutoIdParts` (an id is 256 x + 2 k + 1 with x in 1 .. 254 and k in
0 .. 126) and `PairOctets` (then its addresses are x.(2k+1) and x.(2k+2)): the low
octet is odd and below 254, so adding one never carries, and a pair is determined
by either of its members.

### Channels (`ChannelsSteps`, `ChannelsProofs`, `ChannelsDataProofs`)

For every number of channels and operations (`OpensAssumption`, `OpsAssumption`,
`StraysAssumption`: natural numbers), every length of what is written
(`WritesAssumption`) and every window of at least two units (`WindowAssumption`).

The properties are about two tables, two sets of tasks and two wires at once, and
none of them is inductive. `HandshakeHolds` proves `Typed /\ HandInv`, of which
`HandInv` says for each side and what it faces:

* `Numbered`: tables, tasks and messages use only numbers that `new_channel_id` has
  given, and a message, or an entry with the peer's number, that finds a channel
  finds the one it was meant for;
* `Once`: a channel is opened once and answered once;
* `Handshake`: a channel lacks the peer's number exactly while its OPEN or the answer
  is under way, and only such a channel is waited for, or was given up;
* `ConfirmFirst`: nothing that is written on a channel overtakes its confirmation;
* `Paired`: an entry with the peer's number is met by the peer's entry, which has
  this side's number or the CONFIRM with it under way, or, on the server, the
  client's CLOSE is under way;
* `Closing`: the client has forgotten a channel whose CLOSE is under way, and the
  server keeps no CLOSE back.

From it follow `MessagesStayOnChannel`, `OpenersAreAnswered` and
`TablesAgreeAtRest`; `EndsAreExplained` adds that the confirmation of an unknown
channel, the error `Inconsistent`, does not happen, because the entry is removed by
nothing before the answer is read. `GlobalsStayInStep` has an invariant of its own,
`GlobalsInv`: the answers under way, then the requests under way, are in rising order,
and the queue is the end of them (`InStep`); so long as the side has sent nothing whose
answer nobody waits for, none of those is under way and the queue is all of them
(`Honest`). That the client leaves some keepalives unanswered does no harm, because the
server's want a reply (`Polite`). A step is described once (`Took` for the message read,
`Did` for what a task does) and then classified (`Moves`); each part of the invariant
is then shown to survive each kind of move.

`NothingAfterTheEnd` (`EofLast`) needs more than `HandInv`, because what must not be
written is decided by four places: the task's `eof`, the EOF and CLOSE that wait in
the table behind data kept back, the messages on the wire, and the name of the
channel. `EndInv` says: a channel is in the table once by its name (`NamedOnce`); while
its EOF or CLOSE is on the wire and the channel is known, it was an EOF, nothing is kept
back and its task writes no more (`EndSaid`); where an EOF waits, or has waited and may be
repeated, the task has asked for it and writes no more either (`EndWaits`); a task that still waits for its channel,
or gave it up, has said no EOF (`NotYet`); the names of channels still to be opened are on no wire and in no table
(`NewNames`, `OpensOnce`). A step of the client then holds back or says nothing, says
something on one channel, or adds one (`Holding`, `Uttering`, `Adding`), and each of
the three keeps it.

`AnswersComeInOrder` (`AnswersInOrder`) is about answers that carry the number of a
channel and no number of a request: nothing but the order of the wires ties an answer
to what was asked. `AskInv` says where a request may be. While the client lives, a
request on its wire is later than the one the server's channel keeps unanswered
(`RequestsDue`), that one is later than the answers on the way back (`WantsDue`), and
those are later than the answers the task has seen (`AnswersDue`); the requests of one
channel are on the wire in the order they were made (`RequestsClimb`). What makes
this chain per channel is `BelongOnce`: at most one channel of the server, known or
with its confirmation under way, belongs to a channel of the client. After the client
has ended only what its tasks have seen remains to be said (`OwnAnswers`).

`WindowsBounded` (`TypeOK`) bounds the windows of every channel, and the bound is no
fact of one side: a session adds to `win` whatever number a WINDOW_ADJUST carries. It
holds because of a balance (`FlowInv`): the window of the sender, the data under way to
the receiver and the grants under way back are together exactly what the receiver
counts as its `own` window, which `adjust_window_size` keeps between 1 and `Window`;
once the receiver has forgotten the channel, window and grants are at most `Window`
(`Level`). The sum over a wire is written without recursion, as a function of partial
sums (`Totals`), with lemmas for what is appended and what is read. A channel that is
not yet confirmed counts with the window it will have (`Room`, `Links`), nothing has
been received on one whose OPEN is under way (`Fresh`), and data is kept back only at
window 0 (`Sound`).

`NothingStuck` (`CloseCompletes`) follows from the balance: with empty wires the
window of every channel is the peer's `own`, at least 1, so nothing is kept back. For the
channels that are closed `CloseInv` adds where a CLOSE may be: the client's waits in its
table, and only behind data (`CloseWaits`); that of a task of the server is under way, or
the client has read it and its own CLOSE waits in the table or is under way (`Coming`).

### Kex (`KexProofs`)

For all lists of algorithms and all pairs of them (`PrefsAssumption`: lists are
sequences of names, and in the list of key exchanges the names of extensions come
last, as in `SAFE_KEX_ORDER`; `PairsAssumption`), any number of re-exchanges, packets
and keepalives, and any room for packets put aside (`BoundsAssumption`).

The handlers are first described field by field (`Took` for a packet read, `Did` for
what a side does of its own accord; `SideSteps` puts them together), and the proofs
use nothing else of them.

* `NothingIsLost` (`NothingLost`). `DataInv` says of each direction that what was
  processed, what is put aside and what is on the wire are together 1, 2, 3 ... up to
  the number sent. The reader may have died: then only what was processed counts.
* `TheKeysAgree` (`KeysAgree`). `Joint` lists the situations the two sessions can be
  in while both are alive, as thirteen rows: the phases of both, what of the exchange
  each has seen, the keys computed and in use, and the messages of the exchange on
  both wires (`Marks`, which leaves out all packets that belong to no exchange). Among
  them are the exchanges that both sides begin at once, and those in which one side
  uses its new keys and begins the next exchange while its NEWKEYS is still on the
  wire. That encryption begins only between compatible sides is `OkCompatible`
  about the choice of algorithms, and that both choose the same is `SameNames`.
* `TheSessionIdIsFixed` (`SessionIdFixed`, an action property) follows from the same
  rows: a hash is computed from the same exchange on both sides.
* `TheSessionsSurvive` (`SessionsSurvive`) needs the packets, not only the order of the
  messages. `Surviving` adds to `Joint`, for compatible and quiet sides, that what is on
  a wire can be read to its end by the session that reads it (`Wired`). Either no
  NEWKEYS is on it, all is sealed with the reader's key and numbered on from the
  reader's number, and what belongs to no exchange comes before what does
  (`Straight`). Or one is, and after it the key is the writer's and the numbers begin
  anew, at 0 if the names chosen are strict (`Turned`, `Restart`). Two sides reset
  four numbers at four places of the code, so this is where strict key exchange is
  decided; `Ready` says that both took it from the same names, and that a first
  KEXINIT was packet 0. The handlers then end a session for none of their reasons but
  a full `pending_reads` (`ReceiveSurvives`). That compatible sides find algorithms at
  all, the same on both, is `CompatibleOk`.

### UserAuth (`UserAuthProofs`)

For all plans that try something by one of the methods of `Handle`
(`PlansAssumption`, which also keeps the two values that `cur` has in place of an
identity out of the identities), and all answers of the server's handlers.

`AuthInv` follows the one message of the attempt that is under way. `Held` says in
which of the four queues it is, with nothing but EXT_INFO and BANNER besides it;
`Fits` what it may be at that place, and how far application, client and server then
are: the key probed, the prompt asked, the identity let in. A step takes the message
from its place and puts down at most one other; the lemmas about `ClientHandle` and
`ServerHandle` say which. Two facts complete it. A BANNER comes behind the
SERVICE_ACCEPT (`Greeted`): before it, it would end the client. `Tried` says of the
attempts that are over that they were not good, or that there is an excuse.

* `WhoWasLetIn` (`AuthAgrees`).
* `OneAtATime` (`OneUnderWay`). An attempt that goes astray ends the client or is
  left without an answer; it never puts a second message beside the first.
* `EveryIdentityIsTried` (`AllTried`) needs besides that the application gives up
  after the last attempt of the plan only (`Last`).

### Config (`ConfigProofs`)

`NoFileReadTwice` holds for all files: `Reading` adds to it what the stack is made
of, a frame being a file, a line of it and whether the section applies. A step goes
on in the topmost frame, leaves it, or pushes a file that was not on the stack.
`TunIsPaired` follows from `TunResolved` (when `from_args` has returned or panicked, its
TUN is the one of the options it merged, and the sum has overflowed exactly if it
panicked), from `AutoPairsUsable` for a derived id, which is carried to the addresses
that are returned (`TunFor`), and from `AddressesFollow` for a given one; it needs `RawAssumption`
(the digest is 16 bits) and `NumeralAssumption` (a token that is a number is one of
16 bits).

`ForwardsAreAsWritten` (`ForwardsAsWritten`) has two halves, and neither needs an
induction, because both sides count tokens and parts. That a specification written in
one of the ways is taken for what was meant is `FormParsed`: the last colon, where the
code splits, is where `Written` has put it. That whatever the code accepts is written in
one of the ways is `ParsedForm`, which names the address, the host and the ports for each
arm of the parser. With `ForwardMeanings` and `DynamicMeanings` the meanings of a
specification are the one forward it is parsed as, or none if it is refused
(`MeansParsed`), so nothing is written in two ways with two meanings.
`ForwardsResolved` carries that to the end of `from_args`: the options that are read
keep lists, what is returned are the parsed lists of the merged options followed by the
command line's, and the program ends with an error only if one of them or the TUN
specification is bad. It needs `SpecsAssumption` (a specification is a sequence of
tokens, and each has a part, as `split_whitespace` and `split` give them) and
`NumeralAssumption`.

### What stays with TLC

Everything under fairness: `Reconnects`, `Recovers`, `Delivered`, `ExchangeEnds`,
`AuthEnds`. `FirstWins` and `EachHostItsOwn` compare what is read with a recursive
reference, which needs induction over the files that include each other. The violated
runs.

## 5. What is not modelled

* The arithmetic of ciphers, MACs and key agreement, compression and packet framing:
  computations on bytes.
* The copy directions of proxied connections, the SOCKS5 dialogue and the queue of
  100 forwarded connections; see the plan.
* Of the configuration: clap, `--fwmark`, quotes, `~` and glob patterns, and the
  device and network information that goes into the digest.
* Of the server: the accept loop and its shutdown, and the default handlers.
* The chain of jump hosts as sessions over channels of other sessions (its
  configuration is in `Config`).
* A re-exchange among several channels: `Kex` has packets and no channels,
  `Channels` has channels and no re-exchange, `ChannelFlow` has one channel and both.
* Contents: packets, addresses, the text of the commands.
* Time: only the order in which timers fire relative to other events.
* Panics: a task that panics ends without a message; the models have no such step,
  except for the one in `from_args` (`TunPanics`).

## 6. Plan

The order is by importance for a running tunnel.

1. Done: `Sessions`, `TunnelManager`, `TunForward`, `LinkMonitor`, `Supervisor`;
   `ByteStream`, `ChannelFlow`; `Negotiation`, `Kex`; `UserAuth`; `Channels`;
   `ForwardSpecs`, `TunAddress`, `Config`; the proofs above.
2. Theorems: of `Supervisor` the ownership of the server's device and of the remote
   ports.
3. `Forwarding`: the two copy directions of a proxied connection over a channel,
   half-close, EOF and close from either side, when the task and its channel are
   gone; the handler that awaits room in the queue of 100 inside the session task
   and the task that serves it; the dialogue of `-D`.
4. `JumpChain`: the chain of sessions each carried by a channel of the one before,
   and what a failure in the middle leaves.
