# A TLA+ verification of netunnel

netunnel is a reverse tunnel. A **client** behind a firewall keeps one control
connection to a **server**; the server listens on public ports for it. When a
public peer connects, the server asks the client over the control connection to
dial a **work connection**, pairs it with the public connection and forwards
between the two; the client forwards between the work connection and a local
service. TCP and UDP mappings exist.

The program has no tests of its own. This directory holds TLA+ models of its
concurrent core, TLC configurations that check them, and proofs checked by TLAPS.
Paths below are relative to `src/internal/` unless they start with `src/`.

## 1. Inventory

| Component | Source | State it keeps | Operations |
|---|---|---|---|
| pairing | `server/control.go`, `server/proxy.go`, `client/proxy.go` | `Server.pending` (session id → channel of capacity 1), `client.sendCh` (64) | `handleTCPConn`, `registerPending`, `releasePending`, `send`, `writeLoop`, `handleWorkConn`, `deliverWorkConn`, `openWorkConn` |
| registry | `server/server.go`, `control.go`, `proxy.go` | `Server.clients`, `.proxies`, `.portOwner`, `.done`, `wg`; `client.proxies`, `closeOnce`; `proxy.done`, `closeOnce`, listener | `acceptLoop`, `handleLogin`, `registerClient`, `setupProxies`, `proxy.start/close`, `readLoop`, `client.close`, `Stop` |
| UDP mapping | `server/udp.go`, `proxy.go` | `proxy.udpSessions`; per session queue, tunnel, `lastActive`, `done` | `readUDP`, `getOrCreateUDPSession`, `enqueue`, `run`, `readTunnel`, `close`, `cleanUDP`, `closeUDPSessions` |
| client control | `client/client.go` | `Client.conn`, `done`, `fatalErr`, `workConns`; backoff in `runLoop` | `runLoop`, `connectAndServe`, `controlLoop`, `closeWorkConns`, `Stop` |
| client work connections | `client/proxy.go` | one goroutine and its connections per notice | `handleNewProxy`, `handleTCPWorkConn`, `handleUDPWorkConn`, `trackWorkConn` |
| forwarding | `netutil/netutil.go` | the two directions of a pair | `Join`, `proxyCopy`, `countingReader` |
| statistics | `stats/stats.go` | atomic counters per mapping | `OpenConn`, `CloseConn`, `BytesIn/Out`, `Snapshot` |
| wire protocol | `protocol/protocol.go` | none | `ReadMessage`, `WriteMessage`, `ReadFrame`, `WriteFrame`, `ValidateProxySpec` |
| secure stream | `protocol/secure.go` | `rbuf`, what a record left over | `Read`, `Write` of the control connection |
| configuration | `config/config.go` | settings with defaults | `applyDefaults`, `Validate`, durations |
| logging, command line | `log/`, `cli/`, `version/`, `src/main.go` | output, process set-up | not part of the core |

**How they interact.** A control connection is one handler goroutine
(`handleConn` → `handleLogin` → `readLoop`) and, once online, one `writeLoop`.
Public connections, work connections, UDP sessions, the reaper and `Stop` run in
goroutines of their own. They share the tables under `Server.mu`, the lists under
`client.mu` and `proxy.mu`, and the channels `pending.ch`, `sendCh` and `done`.
`client.close` and `proxy.close` run once, under `sync.Once`, in whichever
goroutine comes first, and all other callers wait for that run.

**What is hard here.**

- The hand-over of a work connection races the session's timeout, the close of
  the mapping and the loss of the control connection (four cases of one `select`
  and a deferred cleanup).
- A login claims ports one by one with rollback while `Stop`, or the client's own
  `client.close`, runs against it.
- A UDP session has four goroutines that may each close it, and a receive loop
  that creates the next one meanwhile.
- The client's `Stop` reads `Client.conn` before the loop may have published it.
- A dead link is noticed by the two ends at different times, and only by their
  read deadlines; the client may come back before the server noticed. The two
  deadlines and the two heartbeat intervals come from two configuration files that
  no code compares.
- TCP delivers a message in pieces, and on the encrypted control connection a message is
  spread over several records.
- A UDP session's four goroutines, two on each side, block in reads that only the
  end of another one releases.

**What makes each component correct.**

- *Pairing*: no session left in `pending`, no connection without a goroutine that
  closes it, no connection handed to a wrong or a second session, no delivery
  that blocks with the lock held, and every wait decided in the end.
- *Registry*: the tables agree with the listeners that are open; a login leaves
  all its mappings or none; `Stop` returns and leaves nothing.
- *UDP mapping*: one session per source, datagrams in the tunnel of their own source's
  session, in order and never twice, no tunnel lost, nothing left after the mapping's close.
- *Client control*: one control connection at a time; a tracked work connection always has
  someone who will close it; `Stop` always returns and leaves no control connection; a
  lost connection is replaced.
- *The link in time*: heartbeats keep a working link, a dead one is dropped by both
  ends, and the client is back soon.
- *Messages*: whole, in order, once, whatever TCP does to the bytes; nothing between
  ends with different tokens.
- *Forwarding*: a byte stream with half-close each way, delivered completely.

The list of hazards, each at the line where it bites and with the property that
watches it, is in `PROJECT.json` under `hazards`.

## 2. The modules

| Module | What it is | Abstracts to |
|---|---|---|
| `Rendezvous` | pairing of public TCP connections with work connections | `Pairing` |
| `Pairing` | what pairing promises, without channels and locks | |
| `Registry` | logins, tables, mappings, closes, `Stop` | `PortLease` |
| `PortLease` | exclusive leases of ports | |
| `UdpSession` | a UDP mapping on the server | |
| `UdpTunnel` | `UdpSession` composed with the client's end of each tunnel | |
| `ClientControl` | the client's life, without lengths of time | |
| `Heartbeat` | the control link in time: settings, heartbeats, deadlines, backoff | |
| `Stream` | messages, frames and encrypted records on a byte stream | `Channel` |
| `Channel` | a channel of messages that may break | |
| `Forward` | the data phase: the two `Join`s in a row | `Duplex` |
| `Duplex` | a duplex stream with half-close | |
| `RendezvousProofs`, `RegistryProofs`, `UdpSessionProofs`, `UdpTunnelProofs`, `ForwardProofs`, `ClientControlProofs`, `HeartbeatProofs`, `StreamProofs` | theorems about the module in the name | |
| `MC*` | instances for TLC | |

The modules meet at narrow interfaces and each takes the other side as its
environment: `Rendezvous` treats the owner client as online, leaving or gone
(`Registry` says how it gets there) and a joined pair as something that forwards
and ends (`Forward` opens it up); `UdpSession` treats the arrival of its tunnel as
an event that may or may not come (`Rendezvous` says when); `ClientControl` takes
of the server what the client sees; all of them send whole messages (`Stream` says
why they may). Composing these as one state machine would multiply their states
without adding an interaction: what passes between them are single events, and
each module lets those events happen at every moment. The two ends of a UDP
session do interact all the time, and `UdpTunnel` composes them: it extends
`UdpSession`, and its next-state relation is the server's steps, the client's steps
and the steps both take part in.

In every module one action is one critical section, one channel operation or one
socket operation of one goroutine, and the next step of that goroutine is kept in
a program counter named in the comment of its variable. Above the actions each
module keeps a block of *variants with a plausible bug*; no specification uses
them, they are the changed forms under which each property was seen to fail.

### Rendezvous

`pc[s]` follows `handleTCPConn` with its two deferred calls: `Accept`,
`RegisterPending`, `SendNotify`/`SendFails`, the `select` as `TakeWorkConn` and
`GiveUpWaiting`, `Forward` and `JoinEnd` for `Join`, `ReleasePending` and `Drain` for the
two halves of `releasePending`. `hpc[w]` follows `handleConn`/`handleWorkConn` for one work
connection: `DeliverWorkConn` is the critical section of `deliverWorkConn` with its
channel send; the response is written in two steps, `WriteHeader` and `WriteBody`,
because `WriteMessage` makes two writes on the socket. `cpc[w]` follows the client's
handler. `sendCh` and `ctrl` are the notices queued and on their way; they are lost
with the connection. The session ids are the elements of `Sessions`: they are
random in the code, so two sessions never share one. The length of the timeouts
is left out; a timeout may expire at any moment of its wait. The bytes forwarded
are one symbol, `"data"`, because only their place relative to the response matters.

### Registry

A login is a control connection, its `client` object and its handler.
`login[l]` follows `handleLogin` and `setupProxies`: `RegisterClient`, then `ClaimPort` and `Listen` for
each mapping with `ClaimFails`, `ListenFails`, `Unclaim` and the rollback, then `AddProxy` and
`RegisterProxy` for each, then `Answer`. `cclose[l]` follows `client.close` (snapshot, drain,
unregister) and `px[p]` the life of a mapping, `proxy.close` included. Because the
closes are `sync.Once` machines that any goroutine may start and all callers wait
for, they are machines of their own here. `stop` follows `Server.Stop`, and `StopReturns`
is the return of `wg.Wait`. A request is an id and a list of (name, port key); a key
is protocol and number. `BindKeys` are the keys with the control port's number, which
`setupProxies` refuses for both protocols. Token checks and spec validation refuse a
login before it touches the tables and are not distinguished from a bad request.

### UdpSession

`loop` and `hand` follow `readUDP` and `getOrCreateUDPSession`, split where the socket, the table,
the counter and the queue are touched separately: `Receive` is `ReadFromUDP`, `Lookup` the
critical section that follows, which may come after the mapping's socket is closed. `run[s]`, `reader[s]` and `cl[s]` are the session's two
goroutines and its `close`. `Scan` and `Reap` are the two halves of `reapUDPSessions`, `OwnerLeaves`,
`CloseDone`, `CloseSocket`, `SnapshotSessions` and `ProxyCloses` the mapping's close. Datagrams are
numbered in order of reception, so that order and duplication can be seen; `origin` is a
history variable, written by `Receive`, that says which source each came from. The
module has a fixed set of session objects; a datagram that would need one more is
dropped by `Lookup`, so that the bound never holds up the loop. `cleanUDP` may take its ticker
once more after `p.done` is closed, so `Scan` does not ask whether the mapping is open.
Idleness is a flag that may be set at any moment and is cleared by `touch`.

### UdpTunnel

`handler[s]` follows `handleUDPWorkConn` for the session's notice: `OpenLocal`, `OpenWorkConn`, the
answer as `Answered` or `AskFails`, then `Shut` when the first goroutine ended and
`HandlerEnds` after the second. `inward` and `outward` are `tunnelToLocal` and `localToTunnel`.
`Delivered` is the server's `deliverWorkConn`, `TunnelDelivered` the session that takes the
connection from `pend.ch`; a session that stopped waiting leaves it to `releasePending`,
which closes it (`ServerEndClosed`). `CleanUp` is `closeWorkConns` at any moment, since the client
may lose its control connection before the server knows. The two closes between
the waits of `handleUDPWorkConn` are one step: no other goroutine tells them apart.

### ClientControl

`loop` follows `runLoop` with `connectAndServe` and `controlLoop` inside it, `stop` follows `Stop`,
`work[w]` the handler of a notice. `srv[k]`, `reply[k]` and `holder` are what the server does with
an attempt's login. A link is up or broken; a broken one tells neither end, and
each learns of it from its own read deadline. `Other` is a second client process
with the same `client_id`.

### Heartbeat

Time passes in ticks; `Tick` is enabled only when nothing is due, so what is due at
one instant happens in every order. `cDue`, `cTick`, `sDue` and `sTick` are the ticks left to the
client's deadline, its ticker, the server's read deadline and its ticker. A message
on a working link takes up to `Delay` ticks; a link may lose either direction for good
(`Lose`), the server may be unreachable for a while (`NetDown`, `NetUp`), and the last message
of a connection the client has left may be lost (`LoseOld`). The settings are applied
as `applyDefaults` does: missing, zero or negative becomes the default. Every combination
of the values given is an initial state. `Leave` is the close of the client's end, after
which the server's registration is an *old* one, until its deadline or the close's
arrival. The kernel's own keepalive is left out: it only shortens these times.

### Stream

A byte is known by what it is part of, so a prefix that is read from the middle of a
message is seen to be no prefix, and may then say any length. `Send` puts a message into
the calls of `conn.Write` it becomes (two for `WriteMessage`, one for `WriteFrame`), `WriteRecord` is
one turn of `SecureConn.Write`, the `Read…` actions are the reads under `io.ReadFull` with any number
of bytes that are there, `RecordLength` and `MessageLength` the checks of the two prefixes, `OpenRecord` the
decryption and `rbuf`. The two ends have a token each or none. In the program itself
records and reads happen to fall together (`WriteMessage`'s two writes are
`ReadMessage`'s two reads), so its own calls leave `rbuf` empty as long as a message fits a
record; frames on an encrypted connection, which the program does not use, are the
`net.Conn` caller that fills it. The cipher is perfect, and the four bytes of a prefix are
two here.

### Forward

Three TCP connections in a row and two relays, each with two `proxyCopy` goroutines
and the two waits of `Join`. A byte is its position in its direction. A connection
is what was written, what was read and whether the writer half-closed it; the
connections may be reset at any moment, and a relay that closes a connection with
unread data resets it, as TCP does. `CounterOf` reproduces which counter `Join` gives to
which direction.

## 3. What is checked

Twelve configurations. Eight must pass, with their safety invariants, the
refinement and the liveness properties in one run each:

| Run | Instance | Shows |
|---|---|---|
| `rendezvous` | 2 sessions, 2 work connections, `sendCh` of 1, 1 unread symbol | `PendingSound`, `NoOrphan`, `NoCrossTalk`; implements `Pairing`; `Resolved` |
| `registry` | 2 logins; 2 ids, 2 names, 2 ports and the control port; requests of 1 and 2 mappings, one bad | `PortExclusive`, `ServedExactly`, `CleanAfter`; implements `PortLease`; `CloseEnds` |
| `udp_session` | 2 sources, 2 session objects, queues of 2, 3 datagrams | `SessionTable`, `TunnelOrdered`, `TunnelOwned`, `CounterExact` |
| `udp_tunnel` | 1 session with both ends, queue of 2, 2 datagrams, 1 reply on its way | `LocalPrefix`; `MappingDrains`, `SessionEnds`, `QueuedDelivered` |
| `client_control` | 2 control connections, 1 fault, 1 work connection, backoff 1 up to 2 | `OneControl`, `JoinedKept`, `StoppedQuiet`; `StopEnds`, `HalfOpenEnds`, `Reconnects` |
| `heartbeat` | 16 settings: `heartbeat_timeout` 60 s or default, `heartbeat_interval` 10 s or default, `reconnect_interval` 40 s or default, `dial_timeout` 15 s or 100 s; messages take up to 5 s | `LossNoticed`, `BackSoon`, `HealthyKept` |
| `stream` | 3 messages; plain, encrypted, and ends that differ; prefix of 2 bytes, records of up to 3, messages of 1, 4 and 5 | implements `Channel`, delivery included |
| `forward` | 2 bytes up, 1 down, buffers of 1, two connections that may break | `CleanClose`; implements `Duplex`; `Delivers`, `BothEnd` |

Each property is stated with its meaning above its definition, and each was seen
to fail under a changed definition (`mutants` in `PROJECT.json`).

**Why these bounds.** *Rendezvous*: mispairing and blocking need two connections
for one session or two sessions for one connection; a queue of one entry is full
as soon as the second session queues. The proofs drop the bound. *Registry*: every
conflict is between two logins (same id, same port, same name), a rollback needs
a second mapping to fail after a first one, which a request of two mappings gives. *UdpSession*: two session objects make
a successor of a source's session or two sources at once; the second datagram is
the one that meets a session closing. Queues of two have an order, and with three datagrams
one source can fill its queue, or have two in it or spread over a session and its successor
while the other source has a session beside it. To fit, the last datagram comes only while the
mapping stays up and no session falls idle after it (`Stays` in `MCUdpSession`): the mapping's
close and its races with the loop are met by up to two datagrams, and three meet
sessions that end by failures of the dial, the tunnel and the reader, or were reaped before.
The proofs are without these bounds. *UdpTunnel*: liveness is checked on one session,
since sessions do not wait for each other; the session the loop creates while the mapping
closes is the only one there is. The first datagram meets every stage of both ends. The
second one, which gives the order and two at once in queue and tunnel, comes only while the
mapping stays up, the session is not idle and no reply is on its way (`Stays` in `MCUdpTunnel`);
failures, the client's cleanup and the ends of all goroutines meet it. `Stays` restricts the
public side, the local service, the owner and the passing of time only, of which no fairness
is asked.
*ClientControl*: one fault separates two control connections, and every race of the
client is between one connection's end and the next one's start, or `Stop`.
*Heartbeat*: a tick stands for 5 s, and the instance keeps the code's constants: 30 s
least read timeout and greatest backoff, 60 s of stable run, defaults of 90, 30, 5 and
10 s (a `dial_timeout` is written instead: 15 s, so that two messages of up to 5 s fit into a
login, or 100 s, longer than every read deadline). The settings include one pair that is
not compatible, a reconnect interval above the cap, and one whose client timeout is the
30 s minimum. The server's least interval
of one second rounds up to a tick and is never the larger. The bounds stated in
`LossNoticed` and `BackSoon` were seen to be exact: each fails when lowered by one tick, and
`HealthyKept` fails without its condition or with one message's time less in it.
*Stream*: a message within one record, one that ends in its second record with the prefix
in its first, and the next message's record that has to wait until `rbuf` is used up all occur
with these lengths. Three things never occur in the run: a record with parts of two messages,
which no writer makes, a prefix of zero, and a message's prefix above the limit; what a
wrong token or a plain peer does bring about is a record length above the limit. *Forward*: with two bytes one is held by a relay while another waits in the
connection. Counters of attempts, datagrams
and bytes only grow, so they are bounded by `MaxFaults`, `MaxPkts`, `MaxMsgs`, `MaxUp` and `MaxDown`,
guards of the environment's actions. Deadlock is checked in `heartbeat` and
`client_fatal`, where time must always be able to pass. In the other runs a server that
is stopped, a client that exited, or a session that ended has nothing left to do.
Symmetry is used in
`udp_session` only, over the two sources, with no temporal property.

**Fairness.** Weak fairness of each goroutine's next step, which is what the Go
scheduler gives. An operation with a deadline is weakly fair because the
deadline expires: the session's wait for a work connection, the client's dial and
handshake, the read deadlines of both ends of a control connection, the dial of a
UDP tunnel. Waiting on a peer without a deadline is *not* fair: no public peer has
to connect, send or close, no link to break, no session to fall idle, nobody to
call `Stop`, no notice to arrive. In `UdpTunnel` a read of a connection that either side closed
ends: the close arrives, or TCP keepalive (`SetKeepAlive`, 30 s) finds that it will not.
`Heartbeat` needs no fairness: its bounds are invariants on counted ticks. `Join` has no deadline, so nothing says that forwarding ends; `Forward`
assumes that the two peers read, since a peer that never reads holds up a byte
stream by its own choice. The choice between cases of one `select` is free in
every module.

### Where code and comments differ

Four runs each check one sentence of the source and find it broken:

| Run | Property | Sentence | What happens |
|---|---|---|---|
| `response_first` | `ResponseFirst` | `server/control.go:196`: the response precedes the data phase | `deliverWorkConn` wakes the session first, whose `Join` may write public bytes ahead of, or inside, the response on the same socket |
| `client_fatal` | `FatalOnlyOnConflict` | `client/client.go:192`: a conflict of configuration, not a passing failure | all settings at their defaults, no other client: a login whose answer is lost is given up after 10 s and repeated 10 s later, while the server keeps the first connection for 90 s; the client is refused because of its own old connection, and exits for good |
| `client_late_work` | `WorkEndsWithControl` | `client/client.go:263`: work connections are reclaimed with the control connection | a handler inside `openWorkConn` tracks its connection after the cleanup, and forwards on |
| `forward_count` | `InboundCounted` | `netutil/netutil.go:15`, `server/proxy.go:185`: public → tunnel is inbound | `Join(a, b, aToB, …)` counts what it reads from `b` in `aToB`, so in and out are exchanged, on both sides |

Others were seen while modelling and have no run of their own:

- `stats/stats.go:35` says that the count does not fall below 0; `getOrCreateUDPSession` enters a
  session in the table before `OpenConn` (`server/udp.go:268`), so a close in between makes it -1
  for a while. `CounterExact` states what does hold.
- `server/udp.go:297` says that sessions idle for longer than `idle` are closed; a session touched
  between the scan and `close` is closed as well, with the datagram in its queue. Nothing else goes
  wrong with it (the next datagram starts a session), so it is a hazard without a property.
- No code compares the two ends' settings (`Compatible` in `Heartbeat`). With `heartbeat_interval`
  10 and the default `heartbeat_timeout` the client waits 30 s for heartbeats that come every
  30 s; with `heartbeat_timeout` 300 and the default interval it waits 90 s for heartbeats that
  come every 100 s.
- `config/config.go:150` says that the YAML file is read in strict mode so that misspelt fields are
  found; `loadYAML` calls the plain `yaml.Unmarshal`, which ignores unknown fields.
- `protocol/protocol.go:53` says that the peer answers a heartbeat; the server's `readLoop` only
  renews its deadline, and sends by its own ticker.
- `src/configs/client.yaml:23` gives 30 s as the limit of the backoff; after a stable run the first
  wait is `reconnect_interval` itself, however long (`client/client.go:169`).
- The client's `udp_idle_timeout` is read and never used.
- A mapping name used by two clients makes the second entry of `Server.proxies` replace the
  first (`server/server.go:200`), and `Stop` between `addProxy` and `registerProxy` leaves a closed
  mapping in that table (`server/control.go:286`). Only the status query reads it; both are
  hazards without a property in `PROJECT.json`.

## 4. What is proved

TLAPS checks these for every value of the constants, that is for any number of
sessions, work connections, logins, mappings, ports, datagrams and bytes, any
settings and any message delay:

| Theorem | Statement |
|---|---|
| `RendezvousProofs!TypeInvariant` | `Spec => []TypeOK` |
| `RendezvousProofs!PendingSafe` | `Spec => []PendingSound`, that is `PendingLive` and `DeliverNeverBlocks` |
| `RendezvousProofs!NoOrphanHolds` | `Spec => []NoOrphan` |
| `RendezvousProofs!NoCrossTalkHolds` | `Spec => []NoCrossTalk` |
| `RendezvousProofs!Implements` | `Spec => PairingSpec`, the handlers implement `Pairing` |
| `RegistryProofs!TypeInvariant` | `Spec => []TypeOK` |
| `RegistryProofs!PortExclusiveHolds` | `Spec => []PortExclusive` |
| `RegistryProofs!ServedExactlyHolds` | `Spec => []ServedExactly` |
| `RegistryProofs!CleanAfterHolds` | `Spec => []CleanAfter` |
| `RegistryProofs!Implements` | `Spec => PortLeaseSpec`, the tables implement `PortLease` |
| `UdpSessionProofs!TypeInvariant` | `Spec => []TypeOK` |
| `UdpSessionProofs!SessionTableHolds` | `Spec => []SessionTable` |
| `UdpSessionProofs!TunnelOrderedHolds` | `Spec => []TunnelOrdered`: own source, order of reception, no duplicates |
| `UdpSessionProofs!TunnelOwnedHolds` | `Spec => []TunnelOwned` |
| `UdpSessionProofs!CounterExactHolds` | `Spec => []CounterExact` |
| `UdpTunnelProofs!ServerImplemented` | `TunnelSpec => Spec`, so all of the above holds in the composition |
| `UdpTunnelProofs!TunnelTypeInvariant` | `TunnelSpec => []TunnelTypeOK` |
| `UdpTunnelProofs!LocalPrefixHolds` | `TunnelSpec => []LocalPrefix` |
| `ForwardProofs!TypeInvariant` | `Spec => []TypeOK` |
| `ForwardProofs!CleanCloseHolds` | `Spec => []CleanClose` |
| `ForwardProofs!DuplexImplemented` | `Spec => DuplexSpec`, the two `Join`s implement `Duplex` |
| `ClientControlProofs!TypeInvariant` | `Spec => []TypeOK` |
| `ClientControlProofs!OneControlHolds` | `Spec => []OneControl` |
| `ClientControlProofs!JoinedKeptHolds` | `Spec => []JoinedKept` |
| `ClientControlProofs!StoppedQuietHolds` | `Spec => []StoppedQuiet` |
| `HeartbeatProofs!TypeInvariant` | `Spec => []TypeOK` |
| `HeartbeatProofs!HealthyKeptHolds` | `Spec => HealthyKept` |
| `HeartbeatProofs!LossNoticedHolds` | `Spec => []LossNoticed` |
| `HeartbeatProofs!BackSoonHolds` | `Spec => []BackSoon` |
| `StreamProofs!TypeInvariant` | `Spec => []TypeOK` |
| `StreamProofs!ChannelImplemented` | `Spec => ChannelSafety`, frames and records implement `Channel` but for its fairness |

Each proof module begins with its inductive invariant (`IInv`; the parts of `Rendezvous` and
`Registry` that their runs also use are in the modules themselves), proves that `Init`
gives it and that every action keeps it, and derives the properties.

**Rendezvous.** `NoOrphan` is not inductive: it says that an open server end has someone
to close it, but not that the one who has it got it by delivery, nor that a
session that leaves leaves nothing behind. `IInv` adds to `TypeOK` and `PendingLive`:
`UnboundWhilePending` (a registered session has been given nothing), `DeliveredToClaim` (what a
session has was delivered to it, and names it), `CarriedByClaim` (a delivered open
connection is in the channel or in the hands of exactly the session it names),
`HandledUntilFound` (until then its handler has it), `Phases` (how far the client, the
handler and the connection can be apart) and `JoinHolds`. The key step is
`deliverWorkConn`: it removes the entry in the critical section that fills the
channel, so a second delivery finds no entry. The other is `releasePending`: it
removes the entry *before* it empties the channel, so nothing can arrive in
between. `DeliverNeverBlocks`, `NoOrphan` and `NoCrossTalk` follow from `IInv`. The refinement maps a session to
idle, open or ended, and a connection to idle, offered, bound or closed; `Drain`
maps to `End`, which closes what is still bound.

**Registry.** `PortExclusive` says that the port table is exactly the ports of mappings that
hold one, and that no two hold the same. A release deletes by key, not by owner;
it is right only because the mapping that releases is the one that holds. `IInv` says
where the first loop of `setupProxies` can be: `RequestKnown`, `LoopBounds` and `ClaimPhase`
(mappings before the current one have been started, the current one is claimed
exactly between the claim and the listen, the later ones are new). The refinement
maps a port to the mapping that holds it, unique by `PortExclusive`.

`ServedExactly` and `CleanAfter` need a second invariant, `Closing`, which says of each login
where its id and its mappings are while it is set up, served and closed by several
goroutines at once. `TableExact`: the table of clients has a login from `registerClient` to the
first of the two places that unregister it, and at no other time. `CloseBegun`: only a
registered login is closed, and its connection is closed first, so that a close
that overtakes `setupProxies` cannot be followed by a successful answer. `ListsInUse`: the
two lists of mappings to close are used in one place each. `StillServed`: nobody
has closed a mapping of a login that still succeeds. `Disposed`: a mapping of a login
that ends is gone, or is on the list its handler, or its close, still works through;
the second `closeProxies` of `client.close`, inside `unregisterClient`, is not needed for a login that is
online, and the handler's own is what catches the mappings added after a close.
`StopSound` says that `Stop` closes registered clients only and returns after every handler.
A step of one login leaves the others alone (`Others`), so each action is one lemma about
one login, and `StepOf` says which steps there are.

**UdpSession.** A session is created, entered in the table and started in three steps of
the receive loop (`LoopHand`, `Beginnings`), so `Entered` separates the session in hand from those
that others can find. `TableSound` and `Findable` tie the table to the sources; they hold over
`removeUDPSession` because it compares the entry with the session before it deletes.
`Tunnels` says who may use a tunnel and who will close it, `ListsEntered` that the reaper and
the mapping's close hold only sessions they found. `Datagrams` says that a datagram is with
one session, and that what was written precedes what is queued; `Sourced` that a session
has datagrams of its own source only, for which `TableSound` is needed at the lookup, and
that the datagram the loop is about to queue has the source of the session in its hand. `Counted` equates the
counter with the sessions whose goroutine was started minus those whose close has
ended. A session may end its close before it is counted, which is how the counter
falls below zero for a moment, and why `CounterExact` has its condition.

**UdpTunnel.** Every step of the composition is a step of the server's module or leaves its
variables alone, so `UdpSession`'s invariant holds there. `Passed` adds what the client's
goroutine has read and passed on; the server's frames only grow (`FramesGrow`), so a prefix
stays one.

**Forward.** `PassesOn` counts: a relay has written what it read but for the byte in its hand.
`EndsClean`: a relay half-closes a direction only after it has seen its end and written
all. The refinement reads a duplex stream off the two outer connections.

**ClientControl.** `OneControl` and `JoinedKept` are inductive with two facts about the lists the two
callers of `closeWorkConns` hold (`Drained`) and the order of `Stop` (`Waited`).

**Heartbeat.** The invariant speaks of numbers of ticks. `Roles` says which ends there are
and which message may be on its way between them, `Paced` that a message arrives before
its sender's next one, `InTime` that on a working link with compatible settings each
deadline is later than the next message that renews it. `Fading` and `OldFading` are the sums
that only stay level once a direction is lost: the time since the loss plus the time
to the deadline. `OnTheWay` is the same for the way back. `LossLimit` has
to include `dial_timeout`: longer than the read deadlines, it is what notices a login whose
answer is lost.

**Stream.** `Together` says that, with equal tokens, there are one text, the bytes of all messages
sent, and, if they are encrypted, one stream of all records sealed, of which every buffer
is a piece. `Layout` says where the units of a stream begin, `Takes` that a reader holds the start of the
unit after those it has taken, `Unwritten` that the calls left to write are the end of the
text, `Carried` that the wire has what follows the reader's buffer, `Texts` that the
records' texts in a row are the text, `Left` that the rest of the last record follows
what the message reader has. A message or a record only extends a stream (`LayoutGrows`), so
what is known of the pieces stays true, and a reader of `n` bytes moves them from one
piece to the next (`PieceMoves`); no definition is recursive. Two buffers are never in the way
of each other since `SecureConn` begins no record before the rest of the last one is used
up (`Idle`). `Apart` covers different tokens: a record does not open, and what a reader
without encryption takes for a message has no byte of one. `TypeOK` is not inductive without
`Together`: only with it does the index in a sealed text name a record that was written.

The assumptions are the `ASSUME`s of the modules: `None` and `Nil` are no session, connection
or login; capacities, bounds and limits are natural numbers; the sessions and logins are
finitely many; a request has at most `MaxSpecs` mappings; the settings are integers, the
defaults and limits positive, and a message takes less time than the shortest interval; the
sizes of `Stream` are positive and no message is longer than `MaxSize`.

**Only model-checked**: every liveness property (`Resolved`, `CloseEnds`, `MappingDrains`,
`SessionEnds`, `QueuedDelivered`, `StopEnds`, `HalfOpenEnds`, `Reconnects`, `Delivers`, `BothEnd` and the fair part of
`ChannelSpec`), since `ENABLED` and fairness are beyond this prover.

## 5. What is not modelled

- *Lengths of time outside the control link*: in every module but `Heartbeat` a deadline may
  expire at any moment, so that the two seconds of `enqueue`, for which one full queue
  holds up all sources of a mapping, are not a property of their own.
- *Flow control*: a write to a work connection that the peer does not read blocks in the
  code; only `Forward` limits the buffers of a connection.
- *Content of messages*: JSON, the version field, session ids as random bytes (they are
  taken as distinct), the single checks of `ValidateProxySpec` (one bad request stands for all).
- *The cipher*: a record opens with the same token and whole, and not otherwise.
- *Configuration files*: of the settings only those that `Heartbeat` depends on; parsing,
  paths and the messages of `Validate` are left out.
- *Status output, logging, command line*: they read state or set parameters; no protocol
  step depends on them.
- *Panics, memory exhaustion, failures of the random source.*

## 6. Plan

The models cover the components whose state matters, and every safety property that a run
checks is proved. What is left is to keep models and proofs with the code, and to shorten
the longest proofs (`StreamProofs`, `RegistryProofs`) where lemmas can be shared.
