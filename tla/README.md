# construct-transport in TLA+

A verification development of the QUIC / HTTP-3 transport in `src/`: TLA+
modules translated from the Rust sources, TLC configurations that check them on
small instances, and TLAPS proofs of what matters most for every instance.

Each `.cfg` is run on the `MC` module of the same name, up to an underscore
(`tlc -config Dial_budget.cfg MCDial.tla`); the `*Proofs.tla` modules and `LeastNatural`
are checked with `tlapm`. `PROJECT.json` lists the runs, the source lines each definition stands
for, the hazards with the properties that cover them, and for each property a
fault in the model that breaks it (the definitions commented *Fault:* in the
modules, which no specification uses).

## 1. The system and its parts

The crate is a client library for a phone (called from Swift through UniFFI), a
gateway that terminates HTTP/3 and forwards gRPC calls over h2c, and a few
diagnostic programs.

| part | state it keeps | operations |
|---|---|---|
| `QuicClient` (`client.rs`) | connection, endpoint handle, h3 driver task, `retired` flag; process-wide `LIVE_CONNECTIONS` | `handshake`, `open_stream`, `close`, `Drop`, `retire` |
| dialling (`client.rs`) | candidates, the plan (`dial_plan`), the attempt in progress | `resolve_all`, `dial_candidates`, `dial` |
| migration (`client.rs`) | the endpoint's current and previous socket, the counters before and after the swap | `rebind` |
| sockets (`spin_free_socket.rs`, `obf_socket.rs`, `salamander.rs`) | datagrams received, error counters, the pre-shared key | `poll_recv`, `try_send`, obfuscate, de-obfuscate |
| FFI (`ffi.rs`) | the runtime `RT`, `Arc`s of clients, the two locked halves of a stream | `QuicChannel`, `QuicStream`, `on_rt` |
| framing (`grpc.rs`) and streams (`client.rs`) | `recv_buf`, the split halves | `send_message`, `recv_message`, `finish`, `recv_response`, `recv_trailers` |
| proxy (`proxy.rs`) | per call: upload pump, download loop, a channel of 64 frames | `handle_conn`, `proxy_request` |
| echo server (`echo_server.rs`) | none beyond the request in progress | `handle_conn` |
| certificates (`tls.rs`) | two files | `load_or_generate` |
| binaries (`bin/`, `main.rs`) | none | entry points, probes, `udpcheck` |

How they interact. A Swift call on a `QuicChannel` or `QuicStream` becomes a task
on `RT` (`on_rt`); cancelling the Swift call detaches the task, it does not stop
it. Tasks share a client through `Arc`, so the last reference is often dropped
by a worker thread, and `Drop` and `close()` meet in `retire()`. A connect
resolves, then makes endpoints one after another until a handshake completes.
Each endpoint has a driver task that reads its socket and hands datagrams to
the connection; `rebind` swaps the socket under a running connection and
compares a counter of the socket with a counter of the connection. A stream's
halves are locked separately, so a sender and a receiver run together.

What is hard here, and what makes each part correct:

- *Lifecycle* - close, drop, cancellation and a dying connection interleave.
  Teardown must be complete and happen once; the gauge must neither drift nor
  under-report; pending calls must return; background tasks must end.
- *Dialling* - many addresses share one budget; failures half-way through an
  attempt must not leave an endpoint behind.
- *Migration* - success must rest on evidence, with loss, delay, reordering, a
  second migration and a dying connection in between.
- *Streams* - chunks cut messages anywhere, callers leave, flow control stalls
  senders, streams break. Messages must come out whole and in order, the halves
  must not wait for each other, and a broken stream must free its callers.
- *Sockets* - an error that stays pending must not be retried for ever inside a
  poll; back-pressure, oversized probes and noise look like errors; length
  arithmetic at the size of the salt; a replacement socket must speak like the
  first.
- *Proxy* - two pumps per call with early returns; back-pressure; how an aborted
  upload looks upstream and an aborted answer to the client.
- *Echo server* - requests of a connection queue behind each other, and one that
  fails takes the others with it.
- *Certificates* - a crash inside or between the writes of two files, writes that are
  never synced, a failed `stat` that reads as absence, when clients have pinned what
  was there before.
- *udpcheck* - two probes and a table of verdicts must tell the network, the public
  host and our gateway apart.

`hazards` in `PROJECT.json` gives these line by line.

## 2. Modules

```
LiveGauge          abstract: a gauge of clients counted once
ClientLifecycle    implements LiveGauge; ClientLifecycleProofs
Dial               DialProofs
Rebind             RebindProofs
MessageFifo        abstract: messages out whole, once, in order
GrpcFraming        encode_frame / take_frame as operators
GrpcStream         uses GrpcFraming; implements MessageFifo in each direction;
                   GrpcStreamProofs
Salamander         obfuscate / deobfuscate_in_place as operators
UdpSocket          uses Salamander: both sockets and the network between them;
                   UdpSocketProofs
Proxy              one call; its upload implements MessageFifo
EchoServer         one connection
Servers            composes Proxy and EchoServer (bounds in ServerBounds);
                   ServersProofs
CertStore          the gateway's two files across crashes and power losses
Udpcheck           a run of the tool in a network of some kind
PinCheck           the two programs, CertStore and Udpcheck; PinCheckProofs
LeastNatural       a lemma: the least counterexample, for the recursive functions
```

### ClientLifecycle

A *process* is whoever executes one FFI call: the task of `on_rt`, or the foreign
thread in the synchronous `close`. A *client* stands for one run of `handshake`
and the `QuicClient` it may build. `pc`, `on` and `dropping` are the call's
position, its client, and whether it is inside `Drop`; `swift` and `stream` are
the references the foreign side holds. Actions follow the code from one
shared-state step to the next:

| action | code |
|---|---|
| `StartConnect`, `HandshakeSucceeds`, `HandshakeFails`, `H3Succeeds`, `H3Fails` | `handshake`, with `close_endpoint` on each early return |
| `Deliver`, `CancelConnect` | the result of `connect` reaching its caller, or nobody |
| `StartOpenStream`, `OpenStreamReturns`, `StartRebind`, `RebindReturns`, `StartRecv`, `RecvReturns` | FFI calls, each with the `Arc` it clones (a receive holds its stream half and no client) |
| `Close`, `LetGo` | `QuicChannel::close`; an `Arc` going away, the last one running `Drop` |
| `CloseConn`, `AbortDriver`, `RetireEndpoint`, `SwapRetired`, `SubGauge`, then `CloseReturns` or `DropFields` | the lines of `retire`, one action each |
| `ConnDies`, `EndpointFails`, `EndpointDriverStops`, `H3DriverEnds` | quinn and h3 (external), and a receive error |

Every failure of a connect is one early return here; the loop over candidates is
in `Dial`. From quinn: an endpoint driver may end when there is neither a handle
nor a connection, and is only sure to once `Endpoint::close` was called (section 3);
it ends when `poll_recv` returns an error; closing an endpoint closes its
connections.

### Dial

One `connect`. `answer` is what the resolver has yielded and `candidates` the
list without duplicates; `next`, `endpoint` and `deadline` are the attempt in
progress. `Attempts` and `AttemptBudget` are `dial_plan`. Time (`now`) passes only
at an `await`, and timers fire on time: the model has no slow executor. The wait
for `h3::client::new` has no timeout in the code and none here; `h3Spent` is the
time it takes, bounded for TLC by `MaxH3Wait`.

### Rebind

Calls of `rebind()`, each with its own socket, beside the endpoint driver
(`Deliver`, `DeliverStray`, `PrevFails`), the connection (`Accept`, `ClientSends`), the
gateway (`GatewayHears`, `GatewaySends`, `PathValidated`, `PathReverts`) and a network
that delays and loses. One action per step of the code between which something else
can happen: the snapshot of `udp_rx`, the swap (`rebind_abstract`: the old socket is
kept until a packet of the connection arrives on the new one, or until receiving on
it fails), the read of `local_addr`, which may fail after the swap
(`LocalAddrFails`), and in the polling loop the check of `close_reason`, of the proof
and of the deadline, and the sleep.
`Disciplined` is the protocol `ffi.rs` asks of the caller: one call at a time, and
a reconnect, not another rebind, after an error. `answered` is a history variable.

`noisy` is whether datagrams of no connection reach the client. The evidence
`rebind` uses is two counters, and noise moves the first while a late datagram on
the old socket moves the second; together they pass for an answer. The verdict
properties are therefore stated for a client that hears only its gateway; that calls
return, and that an answer in time counts, holds with noise as well.

The gateway is quinn too: it follows the newest packet it hears, challenges the new
path, and returns to the last one it had validated if the challenge is not answered
in time. So `ok` does not promise that the gateway stays on the new address
(`OkMeansMoved` says what it does promise), and after an error nobody knows which
socket the gateway uses: the client may already have lost the previous one.

### GrpcFraming, GrpcStream

A unit is a byte, except that the four bytes of a length are one unit, so a header
is two. `LenModulus` is the width of the length field; bodies are assumed to be
shorter (`MessageAssumption`), as `body.len() as u32` would otherwise cut it.

`GrpcStream` is one call after its response headers. `recvQ` and `sendQ` are the
two tokio mutexes (fair: the holder, then those who wait); a call's first step is
taking a place. Receives loop over `take_frame` (`RecvFrame`), `recv_data`
(`RecvData`, any chunk), end (`RecvEnd`) and error (`RecvErr`). Sends write a unit at
a time, as far as flow control lets them. `Cancel` is a caller that stops waiting,
which the detached task does not notice. The gateway sends messages, ends the
stream on a boundary or inside a frame, or breaks either direction.

Two things the code does that the model shows and no property forbids: a
cancelled `recv_message` still takes a message, which nobody gets; and an end of
stream in the middle of a frame is `None`, like a clean end.

### Salamander, UdpSocket

One direction of a connection: quinn's packets (`Transmit`) through the sender's
socket, the network and the receiver's socket to its endpoint driver. With a
pre-shared key both sockets are wrapped.

| action | code |
|---|---|
| `Sent`, `SendWouldBlock`, `ProbeTooLarge`, `SendFailed` | `try_send` by `SendDisposition`, under the wrapper's fresh salt (`OnWire`) |
| `Writable` | `WritablePoller` |
| `Rebind` | `client_socket` building the replacement for `rebind` |
| `Deliver`, `Park`, `Pending`, `FailEndpoint` | `poll_recv` by `RecvDisposition`, then unwrapping in place (`Unwrap`) |
| `Arrive`, `StrayArrives`, `SocketError`, `Wake` | network, kernel and tokio (external) |

The hash is an arbitrary function of key and salt and the exclusive or any
operation that undoes itself (`SalamanderAssumption`). `deobfuscate_in_place` keeps
the code's single forward pass, each byte written over the buffer that the next
ones are read from. The salt of a datagram is chosen for each attempt, so a packet
that met back-pressure goes out under another one. `routed` is a history variable:
no send has failed for want of a route.

### Proxy, EchoServer, Servers

`Proxy` is one call. `call` is the position of `proxy_request` and `pump` that of the
upload task; `chan` is the channel between the pump and the request body, `rx` whether
the body is still there; `up`, `got`, `resp`, `down` are what each side has written and
taken. Early returns are `DialFails`, `UpstreamFails` and `ClientFails`, and none of
them touches the pump; `PumpAborted` follows the last line of a call that succeeds.
The client and the upstream write, stall, end, reset or disappear at any point.

`EchoServer` is one connection: `serving` is the request `handle_conn` is at. A failure
ends the connection (`Fail`).

`Servers` is the choice between the two programs, as `bin/gateway.rs` and `main.rs` make
it: one starts the proxy, the other the echo server.

### CertStore, Udpcheck, PinCheck

`CertStore` is the life of the gateway's process and of its volume. A write empties a
file and then fills it, in two steps, and the process may end before, between and
after any of them (`Die`). `Refuse` is rustls rejecting what `Load` has read: a torn file,
or a certificate with another's key. The volume starts empty, or with the
certificate that the gateway's first version wrote without its key, and served
(`legacy`). `certDisk` and `keyDisk` are what has been written back: `fs::write` syncs
nothing, so a `PowerLoss` may leave a file as it is, as it was, or torn, also after
it was served. `Generate` is taken when a file is missing and also when both are
there and `Path::exists` fails to see one. People remove files and copy the
certificate into the app (`Bundle`, `pin`). `damaged` is a history variable: the
generations a file of which was removed or lost, or which were taken for absent.

`Udpcheck` is one run of the tool: `Start` takes its options, then each target is
probed (`NoHandshake`, `Handshake`, `HoldDies`, `HoldSurvives`), and `Report` draws the
verdict and the exit code. `world` is what the tool cannot see: what the network
kills (nothing, UDP, QUIC, our name, our address), whether also the name given to
`--sni`, and when. A handshake may also fail, and a held connection die, because of
the host or of plain loss; `why` is a history variable with the cause. A hold is
`"long"` when it outlasts both the kill and the idle timeout, which is when a silenced
flow is noticed; a `"short"` one may end before that. The gateway starts, stops and
changes its certificate at any time (`GatewayChanges`), so what the tool is run
against is any gateway, the one of `CertStore` included.

`VerdictSound` has two halves. `VerdictHolds`: what a verdict says of the network is
so, whatever else was wrong. It cannot hold "all throttled" or "UDP blocked" to their
words, since a control host that fails by itself reads the same to the tool, and
"mode failed" says nothing of the network. `VerdictExact`: where only the network made
a probe fail and the connections were held past the idle timeout, the plain verdict
is the right one for that network, both ways (`Diagnosis`).

`PinCheck` is the choice between the two programs, like `Servers`.

## 3. Runs

| cfg | what it shows | instance |
|---|---|---|
| `ClientLifecycle_safety` | teardown complete and once; no endpoint left behind; the gauge covers the open connections and implements `LiveGauge` | 2 clients, 3 processes, symmetric |
| `ClientLifecycle_live` | calls on a closed connection return; a released client is dropped; its tasks end | 1 client, 3 processes |
| `ClientLifecycle_gauge` | finding: the gauge counts dead connections | 1 client, 1 process |
| `Dial` | one endpoint at a time, resolver's order, the plan and the handshakes within the budget, no address twice, connect returns | 4 addresses, answers up to 4 |
| `Dial_budget` | finding: `connect` can outlast `CONNECT_BUDGET` | 2 addresses |
| `Rebind` | `ok` means the gateway answered on this call's socket and has heard it last; an answer that came in time is not turned down; calls return | 2 calls, 2 datagrams, 2 polls |
| `Rebind_overlap` | finding: overlapping calls return each other's address | 2 calls, 2 datagrams, 1 poll |
| `GrpcStream_in` | the inbound direction implements `MessageFifo`; `None` only after every whole message; receivers get their data beside a parked sender; a broken stream frees its receives | 2 receives, 1 send, 2 messages |
| `GrpcStream_out` | the outbound direction, as the gateway decodes it, implements `MessageFifo`; the half-close is on a message boundary; a broken stream frees a parked send and what is queued behind it | 2 sends, 1 finish |
| `UdpSocket` | packets arrive byte for byte, plain and obfuscated, also after a rebind; nothing exceeds the MTU ceiling; the gauges count failures only; the driver misses nothing and does not spin on a pending error | 2 packets of 3 sizes, 3 arrivals, 4 kinds of noise |
| `Servers` | uploads in order and once (`MessageFifo`); what looks complete upstream is; trailers certify the answer and the echo; the answer does not wait for the upload; the pump ends; headers need no request data | channel of 1, 3 chunks, 3 response frames; 2 requests of 2 chunks |
| `PinCheck` | what a verdict of `udpcheck` says of the network is so, and exact where only the network was at fault; a bundled certificate that clients have seen is replaced only if its pair came to harm or was the old gateway's | 3 certificates, any number of crashes; all options and worlds, 2 certificates shown |

Why these bounds. *Lifecycle*: a race over one client takes two processes, the
third is the bystander that holds the last reference; the second client is what
lets the gauge be right in total and wrong for one. *Dial*: with budget 9, 3 for
resolution and a floor of 2, three attempts fit, so four addresses reach every
case of `dial_plan`: none, one, as many as fit, too many; duplicates come from
repeated answers. *Rebind*: the second migration is the interesting one (three
sockets); with two datagrams a late one on an old socket meets an answer on the new
one; two polls put an answer before, between and after polls. *GrpcStream*:
two messages are enough for order and for a chunk that spans two; an empty body
makes a frame that is a header alone; two receives give a holder and one queued;
two sends and a finish give every order of the send lock. *UdpSocket*: with a salt of
two and a key of two, a packet of three bytes uses the key twice and makes the pass
in place overwrite what it has read; strays are empty, shorter than a salt, exactly
a salt and one byte more; packets sit below and above the path's MTU with and
without a salt. *Servers*: a channel of one is full with one chunk, the pump holds
the second and the third is unread, which is every position of a parked upload.
*PinCheck*: with three certificates the old gateway's is replaced and that one is
replaced again; a second certificate of the tool's gateway is what makes a pin stale.
Nothing is lost by the bound on the number of calls: each call is over once it has
returned.

`CHECK_DEADLOCK FALSE` is everywhere because all these systems may stop: no more
calls, a finished connect, a dead connection.

### Fairness

- `RT` has its own worker threads, so a runnable task is polled: weak fairness of
  the steps of calls and of the teardown.
- A handshake has a timeout and `rebind` a deadline, so these return by themselves.
  h3 set-up, `open_stream` and `recv_message` are only sure to return once the
  connection is closed, and are fair only then. A detached `open_stream` parked on
  a live connection therefore keeps its client alive after Swift has let go, and
  `ReleasedClientIsDropped` says so.
- The h3 driver ends with its connection. An endpoint driver is only assumed to end
  once `Endpoint::close` was called: dropping the handle does not stop it, says the
  comment on `close_endpoint`, so `RuntimeDrains` needs that call on every path.
- In `Dial` time passes and timers fire; no answer of the resolver or a peer is
  assumed. In `Rebind` nothing is assumed of the network or the gateway.
- In `GrpcStream` a receive with data, end or error is fair, but not reading on from
  a stream that has failed (a reset discards unread data). No write is fair, because
  the gateway may withhold flow-control credit for ever. A send returning once all
  is written, or any call of the send half once the stream has failed, is. `finish`
  may write a frame of its own and park like a send, so it is not fair either.
- In `UdpSocket` the endpoint driver is polled while it can go on, and readiness
  wakes it; nothing is assumed of the network.
- In `Servers` the tasks of a call and of a connection are polled; dialling the
  upstream has no timeout and is not fair, and neither client nor upstream owes
  anything.
- `PinCheck` has safety properties only.

### Where the code and its documentation differ

- `ClientLifecycle_gauge`: `live_connections()` (`client.rs:78`) promises the
  connections held *open*. A connection that died by itself is counted until its
  client is closed or dropped. What does hold is the other direction,
  `GaugeCoversOpen`.
- `Dial_budget`: `CONNECT_BUDGET` (`client.rs:25`) is described as everything
  `connect` may spend. The wait for h3 (`client.rs:379`) has no timeout. What holds
  is `HandshakesWithinBudget`.
- `Rebind_overlap`: `ffi.rs:165` promises the new local address once the gateway
  has answered on it. The address is read after the swap in a separate step
  (`client.rs:446`), and another call may have swapped meanwhile. Calls one at a
  time are right (`OkMeansAnswered`).

Three smaller differences are visible in the modules, without a run of their own:

- `udpcheck`'s own example `--hold 30` (`udpcheck.rs:37`) is no longer than the idle
  timeout (line 171), so it may end before a silenced flow is noticed; `VerdictSound`
  excuses what such a hold could not notice. A control host whose name does not
  resolve reads as "UDP/443 blocked".
- The exit code is meant to be non-zero "when UDP works publicly but our endpoint is
  the odd one out" (`udpcheck.rs:554`); a gateway that goes silent while the control
  survives exits with 0, since its handshake succeeded.
- `load_or_generate` tests only that the files exist (`tls.rs:49`). A file torn by a
  crash is loaded, refused by rustls, and every later start fails the same way until
  somebody removes it. The pin is safe then (`BundledPinHolds`), the service is not.
  It is not safe from a power loss soon after the first start, nor from a `stat` that
  fails: both are among the excuses of `BundledPinHolds`.

And what the proxy does at its edges: a client that resets its upload looks finished
upstream; a dropped or cancelled answer ends like a complete one but has no
trailers; after an error return the upload pump goes on, and one parked on a full
channel stays as long as the upstream does not read.

## 4. Proofs

`ClientLifecycleProofs` - for any finite sets of clients and processes. None of the
safety properties is inductive alone: that a client is torn down when `retired` is
set depends on how far the process that set it had come, and that `Drop` runs
once depends on who can still reach the client. `IInv` adds

- *ownership* (`OwnerInv`): a process that is connecting, carries an undelivered
  client or runs `Drop` has the client for itself; otherwise only holders of an
  `Arc` reach it;
- *progress* (`RetireInv`, `OneSub`, `RetiredIsBuilt`): what each step of `retire`
  has already done, and that the swap lets one process through;
- *the exact gauge* (`GaugeExact`): `gauge` is the number of counted clients. The
  type invariant needs it, since the gauge is decremented.

Proved from it: `TypeOK`, `RetiredIsTornDown`, `NoEndpointLeftBehind`,
`GaugeCoversOpen`, and `GaugeRefinement`: every step is a step of `LiveGauge` or leaves it alone. Assumption: `FiniteInstances`.

`DialProofs` - for any budgets with `RESOLVE_TIMEOUT + MIN_ATTEMPT <=
CONNECT_BUDGET` and any answer. `PlanLemma` is `dial_plan`: the attempts fit the
budget and none is below the floor. The invariant relates the clock to the plan:
before attempt *i* at most `RESOLVE_TIMEOUT + (i - 1) * Budget` has been spent,
and the deadline of an attempt is at most one slice later. Proved: `TypeOK`,
`OneEndpointAtATime`, `PlanFits`, `HandshakesWithinBudget`.

The order of the candidates is a second invariant (`OrderInv`), stated with the first
place of an address in the resolver's answer: everything answered is a candidate,
every candidate has a first place, and candidates are in the order of these. From it
`CandidatesKeepResolverOrder`.

`RebindProofs` - for any set of calls, any number of datagrams and polls. The
properties say what two counters prove, and are far from inductive: nothing in them
tells why a datagram on a socket is the gateway's answer. The invariant orders the
sockets by age: the current one is the newest (`AgeInv`), a socket that was not
swapped in has taken no part (`FreshInv`), and the gateway sends to the current
socket, or would return to it, only once it has heard from it (`AnswerInv`).
These hold for any calls, and so does `TypeOK`. For calls one at a time (`Disciplined`)
are added: a call in its polling loop owns the current socket, and one that returned
`ok` has something arrived there (`OneCall`, `CallInv`); without noise what has arrived
is an answer (`QuietInv`). From these `OkMeansAnswered` and `OkMeansMoved`, each under the
hypothesis `Disciplined`; `Rebind_overlap` shows that the first needs it.

`ServersProofs` - for any chunks and answers, any capacity of the channel, any number
of frames and requests. Proxy: what the upstream has, then what the channel holds, is
the upload so far, and the pump has at most one more chunk (`FlowInv`); why a pump that
has ended did so (`DoneInv`); the answer reaches the client from the front and trailers
are last (`DownInv`). Echo server: the frames written on the request in progress
(`ServedInv`), all those before it finished and none after it begun (`TurnInv`). Proved:
`TypeOK`, `CompleteMeansWhole`, `TrailersMeanWhole`, `EchoedWhole`, and that the upload
implements `MessageFifo`. Assumption: the capacity is at least one, and no chunk is
the word for headers or trailers (`ServerAssumption`).

`PinCheckProofs` - for any number of crashes and certificates, every world and every
option. Gateway: from the moment it has written or read a certificate, what it has in
memory is what is on the volume (`MemoryInv`), and once one was shown and its pair
has come to no harm both files hold that one, so every restart loads it (`ShownInv`).
Tool: what each outcome of a probe, with its cause, tells of the world (`Means`,
`ControlInv`, `OursInv`), and that what is held was shaken hands with (`ProbeInv`).
Proved: `BundledPinHolds` and `VerdictSound`.

`UdpSocketProofs` - for any hash, salt, key, packets and noise. `DeobfuscateUndoesObfuscate`
is about data: `deobfuscate_in_place` gives back the plain text for every length. The
pass is a recursive function, which TLA+ defines as some solution of its equation.
The proof exhibits a solution (after *i* bytes: *i* bytes of plain text, then the
datagram as it was) and shows that there is no other, by the least index at which
they differ. `LeastNatural` gives such an index, from the well-foundedness of the
naturals. It is where the code could be wrong: a byte is written over the buffer
that later ones are read from, and the proof needs the salt to have at least one byte.
With it `DatagramsIntact` follows from what each datagram on its way carries, also when
`rebind` has replaced the socket. `CountersMeanFailure` is inductive as it stands, given
that `endpoint_receive_error` leaves no error that quinn would ignore.

`GrpcStreamProofs` - for any calls, any messages shorter than `LenModulus`, any chunks.
A stream is described by the boundaries of its frames: `Laid(w, msgs, n, b)` says that the
units `w` start with the frames of the first `n` messages and that `b[i]` units are in
the first `i`. Receiving (`InInv`): the gateway's units are the frames of what it sent
and at most the start of another; `recv_buf` is what was read after the frames taken.
`take_frame` then finds a frame exactly where one begins (`NextFrame`), and with nothing
left to read and no frame buffered all have been taken (`NothingLeft`). Sending (`OutInv`):
the client's units are the frames of the first messages in the order of the mutex and
at most the start of the next, which belongs to the send that holds the mutex; while
the stream works, the queue and the order agree on whose turn it is (`Queued`). A send
whose caller has left goes on, so the start of a frame is never followed by another.
`DecodeFrames` is what a decoder makes of such a stream: `Decode` is recursive, its
recursion has a solution because it goes upward (`UpwardRecursion`), and at the
boundaries, from the last back to the first, the solution is the messages and the
tail. Proved: `TypeOK`, `EndMeansAllTaken`, `FinishSealsMessages`, and that both directions
implement `MessageFifo`. Assumptions (`MessageAssumption`): no body is as long as the
length field can count, and no call is both a send and a finish.

So every invariant and every refinement that a run checks has a theorem. TLC finds
`IInv` of `ClientLifecycleProofs`, `DialProofs`, `RebindProofs`, `ServersProofs`,
`UdpSocketProofs` and `PinCheckProofs` to hold on the instances of the runs;
`OrderInv` of `DialProofs` and the invariant of `GrpcStreamProofs` quantify over
sets that TLC cannot enumerate and rest on their proofs alone.

Model-checked only: liveness (`CallsReturnAfterClose`, `ReleasedClientIsDropped`,
`RuntimeDrains`, `ReturnsOrWaitsForH3`, `RebindReturns`, `AnswerInTimeCounts`,
`DataReachesReceiver`, `BrokenReceivesReturn`, `BrokenSendsReturn`,
`ResponseFlows`, `PumpEnds`, `HeadersFirst`, `ReceiverServes`), whose proof needs ENABLED and fairness, out of the prover's reach; and the three findings, which
are counterexamples.

## 5. Not modelled, and the plan

The safety properties are all proved. What is left to do:

1. Converse results for the findings: that `Rebind`'s overlap needs two calls, and that
   h3 set-up is the only way past `CONNECT_BUDGET`, as theorems.
2. That frames of bodies too long for the length field are the only ones a decoder
   gets wrong (`grpc.rs:20`).
3. `UdpSocket`: a type invariant and its theorem.

Parts of modelled components that are left out: `recv_response` and
`recv_trailers`, one wait each under the receive lock, before and after the messages
that `GrpcStream` is about; the unsplit `QuicStream`, which only the binaries use;
several calls on one connection of the proxy, which share no state of the gateway.

Left out for good: rustls and quinn configuration values (data without state),
reading the environment of the servers, `probe`, `smoke` and `ffiprobe` (straight-line
scripts over the client), `uniffi-bindgen`, logging, and the cryptography of TLS and of
the Salamander hash.
