# A verification project for BriK

BriK carries the traffic of several users through one *bridge* to Tor. Every
client sends a constant stream of fixed-size frames (DATA, CTRL or CHAFF) to the
bridge over TLS; the bridge forwards DATA to Tor only while the client's
*K-circuit* is large enough, that is, while at least `k_min` clients are
connected. This directory holds TLA+ specifications of that program, the TLC
configurations that check them on small instances, and proofs of the main
invariants for every instance.

All paths below are relative to the repository.

## 1. The system

| Component | State it keeps | Operations | Correct when |
|---|---|---|---|
| `ControllerServer` (bridge) | the settings; everything else is in the client table | one handler per CTRL type, CHAFF, DATA, new connection, end of connection, CLI request, traffic shaping tick | groups respect `k_min`; nobody waits in vain; orders queued agree with states; rounds of delivery need every client |
| `ClientManager`, `Client` | `_clients`: state, `k_min`, reception mark and queue, CTRL and DATA queues, half-read and half-written frames | group queries, state updates, rounds, removal | its queries count exactly the valid clients; a removed client gives everything back |
| `SocksProxyServer`, `FdPair` | `_fds`, `_zombies`, the select sets, the local Tor segment of each pair | accept and TLS handshake, read, write, shut down, restore, sweep | a pair is destroyed once, after the pass; only pairs in the table are removed |
| `FrameQueue`, `FramePool`, `Frame` | queued frames with the position inside the first; free and used frames; chunks | push, pop, alloc, unalloc, encode, decode | each frame has one owner; what is decoded is what was encoded |
| `TrafficShaper` | `_state`, `_rate_microsec` | on, idle, setRate, terminate, the tick loop | ticks run exactly while a client is there; terminate returns |
| `ControllerClient`, `SocksProxyClient` | channel state, `_circ`, `_circ_state`, attempts, pending streams; connections | CTRL frames from the bridge, Tor events, CLI commands, local connections | a channel carries data only on a built circuit; a change of circuit ends; failures are retried a bounded number of times |
| `TorController`, `RingBuffer` | command lock, two ring buffers | commands, reader thread, event thread | a reply reaches the command that asked; the threads never wait on each other |
| `TorPT*`, `Cli*`, `tork.cc` | settings | start, end, one request at a time | – |

**How they interact.** On the bridge the *proxy thread* (`SocksProxyServer::main_thread`)
selects on all sockets and calls the controller's handlers one after the other; the
*traffic shaping thread* calls `handleTrafficShapingEvent` once per tick and sends
at most one chunk per client; the *CLI thread* calls `handleCliRequest`; the main
thread waits for the end of stdin. Handlers share the client table (one recursive
lock per call, not per handler), the frame pool and the queues. A client is made
the same way, with two more threads that read Tor's control port and handle its
events.

**What is hard.** Handlers of one client move others (HELLO wakes the waiting,
ACTIVE sends the active to change circuit, SHUT and a lost connection regroup
everybody). Between an order and its answer the group may change. A round of
delivery may stop half way, because a write to Tor is refused. Connections are
shut down in a pass and destroyed after it. The traffic shaper is switched by one
thread and runs in another. `PROJECT.json` lists every hazard with its line.

## 2. Modules

### `ControllerServer` – the bridge

| Variable | Code |
|---|---|
| `state`, `kmin`, `mark`, `recvQ`, `ctrlQ` | the fields of `Client`; `state` also says where a connection is before (`ABSENT`, `ACCEPTING`) it has a `Client` |
| `open` | the pairs whose `fd1` is a connected local Tor segment |
| `zombies`, `sweeping` | `SocksProxyServer::_zombies` and the loop over it at the end of a pass |
| `ts`, `rate` | `TrafficShaper::_state`, `_rate_microsec` |

One action is one handler run to its end, because all handlers that change the
state of a client run on the proxy thread. `SendCtrl` (the traffic shaping thread)
and `CliTsRate` (the CLI thread) interleave with them. A handler of a frame is
`Recv...`; each ends, as the code does, with a round of delivery
(`MarkAndDeliver` / `HandleReceptionFrames`), in which any subset of the writes to
Tor may be refused (the frame stays) or fail (the connection joins the zombies).
`Terminated` is one iteration of the sweep: `remove_client` and
`handleSocksConnectionTerminated`, with `order_WAIT`, `order_CHANGE` and
`ts_rate_update`. Once a sweep has begun it runs to its end before anything else
is read; it may begin later than the end of the pass in which the connection was
shut down, so the model has every order of handlers the code has, and more.

`OrderTsRate` begins with the assertion of `order_TS_RATE` (`ControllerServer.cc:1064`).
It is a guard: a handler whose rate is out of bounds does not return, the process
ends, and the model has no later state. A connection too many is therefore never
registered, and its last state in the model is the one before `NewConnection`.

Definitions named after a fault (`...Strict`, `...OffByOne`, `...EarlySize`) are
not part of the model: they are plausible faults of the definition that follows,
used to see that the properties notice them.

### `SyncDelivery` – the promise of synchronised delivery

Adds a ledger to the bridge. `earned[d]` goes up by one with every frame of `d` that
arrives (as far as the bridge can keep it: the frames in its queue and one mark) and
down by one with every round in which DATA went to Tor while `d` was valid. It counts
arrivals and deliveries (a delivery is a reception queue that got shorter), and does not
look at the test by which the bridge decides that a round is due, nor at the marks. A
mark that is not spent, or that a new connection inherits, a frame that is counted twice,
or a client that waits or changes between a frame and its round would show as a debt,
perhaps many frames later. A client whose own write Tor has refused is not
charged for that round: what becomes of its frame is the subject of `RoundReuse`.

### `RoundReuse` – refused writes

The bridge with two other history variables: how often the frames in a queue have
already served as "a frame from every client" (`served`), and which clients' DATA the
last handler delivered on a frame that had served before (`twice`).

### `FramePool`, `FrameCodec` – frames and where they come from

Operators only. A pool is a value, the queue of free frames and the set of allocated
ones; `AllocFrame` and `UnallocFrame` are what the two operations leave behind,
`UnallocAll` what the release of several frames may, in whatever order they go back
(which frame the next allocation gets matters to nobody). A frame is named by the order
of its creation. `FrameCodec` has the sizes of
`Frame.cc`: how much data a frame takes, over how many chunks it is spread, and the
signed byte that number is kept in. The bytes are left out.

### `FrameSender` – `handleTrafficShapingEvent`

Bridge and client have the same code here, so its steps are operators both use:
which chunk is picked (`PickedWhen`), `WriteRefused`, `WriteTaken`, `WriteFails` for what
`SSL_write` does with it, and `Settle`, which moves on inside the frame or pops and
releases it. A write and its settling are two actions, because the queues and the
pool are locked call by call and the other threads may run in between.

| Variable | Code |
|---|---|
| `pool` | `_frame_pool` |
| `content` | the number of chunks in the header of a DATA frame; 0 for another type |
| `ctrlQ`, `dataQ`, `lastChunk` | `Client::_ctrl_queue`, `_data_queue` and the latter's `_last_chunk` |
| `wrType` | `Client::_wr_tmp_frame_type` |
| `sending` | the locals of the thread between the write and the pop |
| `owed` | history: the chunk that TLS, or the reader at the other end, must get next |

### `BridgeFrames` – who holds which frame on the bridge

The reads of the proxy thread (`ReadPart` when TLS has no more bytes, `ReadFails`,
`ReadData`, `ReadOther`), the orders a handler queues, one allocation at a time, the
round of delivery, the last look at the frame just read, data from Tor (`LocalRead`),
a new connection, its removal with `unallocFramesFromClient`, the CLI's `ts_rate`, and
the shaping thread. `proxy` says where the proxy thread is inside a handler. What a
handler decides is in `ControllerServer`: here any clients may be due an order, and a
round may serve any that have a frame queued, so that the model allows every hand-over
of frames the bridge makes, and more. `add_client` and `remove_client` take the lock the
shaping thread holds during its whole iteration, hence their `sending = None`.

### `ClientFrames` – the same on a client

The client empties its data queue when the bridge orders it to wait, stop or change
circuit (`Emptied`, one frame at a time, as `shutdown_local_helper` does), and sends DATA
only while it is ACTIVE. The order in which its threads do this is the model's
subject; the client's reads of frames are like those of the bridge and left out.

### `TorK` – the bridge and its clients

`ControllerServer`, unchanged, and its clients: `chan` is the state of the channel on the
client's side, `sent` the CTRL frames a client has sent and the bridge has not read.
A step of a client hears the first frame of the bridge's queue for it (`Hears...`) or
is a command of its user; a step of the bridge reads the first of `sent` (`Reads...`)
and is the handler of `ControllerServer`. The handler of CHANGE is two steps, as a
command to Tor lies between the test of the state and its setting. `crossed` is a
history variable: the clients that have declared a state of their own (HELLO, SHUT, or
INACTIVE when no circuit can be built) while an order of the bridge was on its way.

### `TrafficShaper` – the traffic shaping thread

One action is one critical section on `TrafficShaper::_mtx` or one notification of
`_cv`; `on()` and `terminate()` notify after they have unlocked, so both are steps of
their own. `proxy`, `main` and `shaper` say where the proxy thread, the main thread
and the shaping thread are; `clients` is the size of the client table. A client's
shaper is the instance `InitState = "ON"`, `MaxClients = 0`: a client never calls
`on()` or `idle()`. `EarlyClients` says whether a client may come between the start of
the proxy and `initialize`, `LateClients` whether clients may come and go while the
process ends; `_state` has any value before `initialize`, as nothing sets it.

### `Ring`, `RingBuffer`, `BoundedQueue` – the ring buffer

`Ring` holds the operators on the slots and indices, with C++'s remainder (`CRem`:
that of a negative number is not positive). `RingBuffer` adds the lock, the two
condition variables and the threads; an action is what a thread does from taking the
lock to releasing it or waiting. `BoundedQueue` is what the users get, and
`RingBuffer` implements it: a FIFO of `Size - 1` items that a put to a full buffer
may empty (`QOverrun`), because with `head_ = 0` the test for full never succeeds.

### `TorController` – the control port

The reader thread (`ReadLine`, `DispatchEvent`, `DispatchReply`), the event thread
(`TakeEvent` and the commands its handler runs) and the commands of the proxy and CLI
threads (`StartCommand`, `BeginAndSend`, `GetReply`) over two `Ring`s and the command
lock. A thread that waits for a buffer is an action that is not enabled; that no
wake-up is lost is checked in `RingBuffer`. Tor is external: it answers commands in
order and reports events when it likes.

### `ControllerClient` – the client

| Variable | Code |
|---|---|
| `cstate` | the `Client::_state` of the one connection; `NOT_CONN` before it, `GONE` after it (`main_thread` never opens a second) |
| `circ`, `built`, `attempts`, `dirInfo`, `pending` | `_circ`, `_circ_state`, `_circ_attempts`, `_dir_info`, `_pending_streams` |
| `todo` | for the proxy, event and CLI thread, the steps its handler has still to make |
| `circuit`, `stream`, `evt`, `dir`, `subscribed` | Tor (external): its circuits and streams, the events not yet handled, and the kinds of events it reports (SETEVENTS) |

Nothing but the command lock orders the three threads, so a handler is cut where it
runs a command, and where it writes `_circ` or `_circ_state` after a test that another
thread may undo (`Postpone`, `StoreCircuit`, `HearBuilt`, `DropCircuit`). The history
variable `misled` remembers a write made after its test was undone, and an event that Tor kept to
itself because the user's `sec` or `ses` has replaced the subscription to it. The rest of a
handler is one step: the finer races left out are the reads of the channel's state
before it is set, and `_circ_attempts++`. The bridge is external and may send any
CTRL frame at any time.

Tor detaches a stream for a reason the handler knows, TIMEOUT or END (`EvDetached`: it
is kept, and a new circuit asked for), or for another (`EvDetachedOther`: the handler
does nothing). The stream waits in both cases; the model calls the second `"detached"`,
to tell the streams the client is to look after from those it does not heed.

Definitions named after a fault (`StoreCircuitOnly`, `HearBuiltForgetful`, ...) are
again faults, not part of the model.

### `..._proofs`, `MC...`

A module's theorems are in a module of their own, named after it (section 5), those of
`SyncDelivery` in `ControllerServer_proofs`; `Ring_proofs` has the lemmas on the ring's operators that `RingBuffer_proofs` and
`TorController_proofs` share. The modules TLC runs are named `MC...`.

## 3. Runs

| Run | Instance | Shows |
|---|---|---|
| `Groups` | 3 clients, `k_min` 2 or 3, no circuit changes, one DATA frame in a queue, failing handshakes | an active client's group is large enough; a waiting client's is not |
| `Rounds` | 3 connections, `k_min` unset or 2, circuit changes, DATA, refused writes, failing handshakes, dynamic rate with limits that fit two clients and not three | `TypeOK`, with the bound of the reception queues; no client is used for more rounds than it has sent frames; held clients have no Tor segment; rate and state of the shaper follow the table, within the limits; only CHANGE_OK exposes a client |
| `FramesHeld` | 2 connections, frames of 1 or 2 chunks, a pool of 1 frame that grows to 2 | a frame is in one place; what TLS refused, or the rest of a frame, is what is sent next; only the half-read frame of a removed connection is lost; orders get out between endless data; a full pool gets room |
| `Channels` | the bridge and 2 clients with `k_min` 1 or 2, circuit changes, 1 command of their users, connections that come and go, queues of up to five frames | the newest order queued for a client is the one its state follows from, with orders of several handlers in the queue; once nothing is on its way, both ends of a channel agree on its state; no order finds a client in a state that ignores it; a client ordered to change is let in again, or leaves |
| `ShaperServes` | up to 3 clients, a process that starts and ends in order | with a client there the shaper keeps serving; no event over an empty table; `terminate` returns |
| `RingThreads` | 1 producer, 2 consumers, 3 slots, 9 items | `RingBuffer` implements `BoundedQueue`; no item overtakes another; no wake-up is lost; `disable` ends every thread |
| `TorCommands` | proxy, CLI and event thread, buffers of 3, 5 events, 2 commands | a reply belongs to a command that waits for it; without a burst of events each command returns and each event is handled; a command hangs only when reader and event thread wait for each other |
| `ClientCircuits` | 1 stream, 2 circuits, 1 retry, 1 command of the user, 2 events waiting | unless the client was misled: what is taken for a built circuit is one, a stream kept for a circuit gets it if the client was to heed it, a circuit put off is opened when Tor is ready, an active channel has a circuit or a reason |
| `ChangeOkIgnoresK` | 2 clients, circuit changes | *violation*: CHANGE_OK makes a client active alone |
| `RefusedWrite` | 2 clients, `k_min` 1 | *violation*: one frame serves two rounds |
| `ShaperStartRace` | 1 client before `initialize` | *violation*: the first client is not served |
| `ClientRetry` | 1 connection of a client | *violation*: a refused DATA chunk is not what is offered next once the client has left ACTIVE |

**Bounds.** `MaxCtrl` bounds the CTRL frames waiting for one client; a handler
pushes at most two (`MaxPush`). In `Groups` and `Rounds` it is 2, so a handler that may
order something runs when every queue is empty: what these runs check does not look
at the queues. The properties that do are checked in `Channels`, where `MaxCtrl` is 6 and
orders of several handlers are in one queue. `MaxRecv` bounds the DATA frames waiting for a round; one is
enough for a frame to be kept by a refused write. Three clients are the fewest for
which one handler moves two others in different ways (one woken or made to wait,
one sent to change); the theorems of section 5 say the same of every number of
clients. In `Rounds` `TsMin` is 5 and `TsMax` 12, so that the
rates of one and two clients are allowed and a third connection fails the assertion; the
branch of `ts_rate_update` for more than `MaxListenUsers` clients is in the proofs only. Clients are interchangeable, so runs of invariants and
action properties use symmetry. The buffers of `TorController` have ten slots in the
code and three in the model: what matters is that indices wrap around at zero and
that a burst fills them. `MaxItems` 9 is three times round. `MaxCirc` 2 is what a
circuit and its replacement need, and two waiting events are the fewest that can
tell of one circuit and come late; `ClientCircuits` does not go on from a state in which the
client has been misled (`NotMisled`), as nothing but `TypeOK` is said of those that follow, and
`TypeOK` is proved. `Groups` does not go on
from a state in which DATA of two clients is queued (`FewData`): DATA moves nobody between
groups, and `Rounds` has all of it. In `FramesHeld` the limit of the pool, 30000 frames in
the code, is 2, so that it is reached at every point of every handler, and the pool
grows once; chunks of 10 bytes are the smallest that hold a CTRL frame; two chunks are
the fewest for a frame to be half-read or half-written. In `Channels` the one command
may cross an order, and `MaxCtrl` 6 is more than the orders two clients and one command
bring about for one of them before it hears the first; with three commands TLC finds
`AgreeWhenQuiet` and `OrdersAreObeyed` true as well, and for every number of them all three
safety properties are proved.

**Deadlock** is checked except where the system really stops. In `Groups` and
`Rounds` a failed handshake leads to the failed assertion of `remove_client`, and the
bridge ends, and in `Rounds` a third connection fails that of `order_TS_RATE`.
`TorCommands` ends when the bounded work is done, and in the state where reader and
event thread wait for each other. `ClientCircuits` ends when the connection is gone and
Tor has nothing more to do. `FramesHeld` stops when every frame waits in a reception
queue or is half-read: the bridge then reads nothing and queues no order (in the code
the assertion of a handler fails). `Channels` ends when the command is given and no client
is connected again; `ClientRetry` stops before the pop of an empty queue.

**Fairness.** Weak fairness of a thread that can go on, never of its environment:
the shaping thread, the main thread inside `initialize` and `terminate` and a proxy
thread inside `on()` or `idle()`; the consumers of a ring buffer; in `TorController`
the reader, the event thread, a command that has begun, and Tor's answers. These are
loops and calls that only a lock held for a moment or a buffer delays. Nothing forces
clients to come or go, stdin to close, an event to happen, an item to be put, a
buffer to be disabled, or a thread to wake without a notification. In `FramesHeld` the
shaping thread settles what it has written (weak), and a connection it offers chunks
to again and again takes one or fails (strong, because the chunk offered changes: TCP
delivers, or its timeout ends the connection). In `Channels` a client handles the
frames that have come, the bridge reads those that have come and removes connections
that have ended; nothing makes users, clients or the network act.

## 4. Disagreements found

1. `ChangeOkIgnoresK`: `handleCtrlFrame_CHANGE_OK` (`ControllerServer.cc:878`) does not look at `k_min`. What does hold with circuit changes on is `ExposedOnlyByChange`.
2. `RefusedWrite`: a refused write to Tor lets other clients deliver two DATA frames upon one frame of the refused one (`Common.hh:51`).
3. `ShaperStartRace`: `main` starts the proxy before `traffic_shaper.initialize` (`tork.cc:271`, `277`), which overwrites the `on()` of a client that came in between.
4. `ClientRetry`: `_wr_tmp_frame_type` is kept to offer `SSL_write` the refused chunk again (`Client.hh:150`), but a client that has left ACTIVE offers chaff instead (`ControllerClient.cc:858`), and its handlers may have released the frame (`1412`). OpenSSL answers with an error, which is settled as if the chaff had been sent.

Seen while modelling, without a run of their own:

* A failed TLS handshake fails the assertion at `ClientManager.cc:24`: the pair was never added.
* A put to a full `RingBuffer` with `head_ = 0` is accepted and empties it (`RingBuffer.cc:65`); `BoundedQueue` states it as `QOverrun`. After a burst of events a command may hang (`TorController.cc:602`); `CommandsReturnUnlessStuck` says when.
* With `LateClients`, an `on()` or `idle()` after `terminate()` overwrites `TS_STATE_SHUTTING` and `terminate` waits for ever (`TrafficShaper.cc:55`). `terminate` may return, and the object be destroyed, before the thread's last `notify_all` (`TrafficShaper.cc:126`).
* `nym` does not signal Tor: `TCTL_SIGNAL_NEWNYM` counts as invalid (`TorController.hh:41`, `ControllerClient.cc:637`).
* `_circ_attempts <= CIRC_RETRY_ATMPS` makes six attempts for "Maximum number of attempts" 5 (`Common.hh:62`); the count is reset only by a circuit that is built, so after six failures no handler tries again.
* A circuit that Tor closes is not replaced (`ControllerClient.cc:497`), and a stream whose attachment is refused is not kept (`ControllerClient.cc:406`).
* When a circuit is put off after another thread has stored one that is built, `_circ_state` stays BUILT (`ControllerClient.cc:1369`): why `BuiltIsBuilt` excludes races.
* With the default `--ts_min` and `--ts_max` the rate for a fourth connection fails the assertion at `ControllerServer.cc:1064`, and the bridge ends. In the model the handler does not return (`OrderTsRate`); `RateFollowsClients` says that no population with a rate out of bounds is reached, not that the bridge survives the next client.
* `create_circuit` tests `_dir_info` and then sets `WAITING_DIR_INFO` without a lock (`ControllerClient.cc:1368`): a circuit put off just as Tor becomes ready is not opened. `PostponedIsOpened` excludes that race (`misled`), and fails without.
* A circuit may be reported BUILT or FAILED before `_circ` is set to its id (`ControllerClient.cc:1377`), and the event thread writes `_circ_state` after a test of `_circ` that another thread may have undone (`430`). The model has these races; the properties leave out the behaviours in which one has happened (`misled`).
* A stream detached for another reason than TIMEOUT and END is neither attached nor closed (`ControllerClient.cc:521`): if it is still in `_pending_streams`, the next circuit to be built gets it, else nothing does.
* `sec` and `ses` replace Tor's subscription by one kind of event (`ControllerClient.cc:689`), and no command restores it: after `sec` no new stream is heard of, after `ses` no circuit is ever known to be built, and after either ENOUGH_DIR_INFO is not heard. The properties leave out the behaviours in which an event was lost that way (`misled`).
* The last look at a DATA frame (`ControllerServer.cc:323`) comes after its release. When the CLI thread allocates it in between as a TS_RATE frame, the proxy thread releases a queued frame, and the assertion at `ClientManager.cc:27` fails when its client goes. `CliRaces = TRUE` allows it, and `FramesHaveOneHolder` then fails in six steps.
* `remove_client` does not give a half-read frame back (`ClientManager.cc:257`): `OnlyHalfReadFramesAreLost` says that nothing else is lost. `announce_k`, `set_channel_status` and `shut` push one frame to every connection, and lose it when there is none (`ControllerClient.cc:1448`).
* When all frames of the pool wait for a round, no client is read and no round can come; a handler of a CTRL frame asserts that it gets one. `FullPoolGetsRoom` leaves this case out.
* A client that gives up its circuits sends INACTIVE; if a CHANGE is on its way, the bridge answers ERR_INACTIVE, the client ignores the CHANGE, and the bridge keeps it CHANGING and refuses its later requests (`ControllerClient.cc:488`). The CHANGE handler overwrites a `set_k` or `shut` made during its command to Tor (`ControllerClient.cc:1118`): after a `set_k` the bridge then has the client CONNECTED, the client itself ACTIVE. A second HELLO with an ACTIVE on its way may leave the client in WAIT and the bridge with CONNECTED. `AgreeWhenQuiet`, `OrdersAreObeyed` and `ChangeEnds` leave out the clients in `crossed`.
* `shutdown_local_helper` empties the data queue (`ControllerClient.cc:1412`) while the shaping thread may be between its write and its pop, which then takes another frame or pops an empty queue; after the first of two chunks the second is never sent, and the bridge reads the next frame in its place.
* `--max_chunks` may be up to 255, but the number of chunks is read back from a signed char (`Frame.cc:39`): from 128 on it is negative, and the reader's assertion fails. A CTRL frame takes two chunks when `--chunk` is below ten, and only the first is sent. `SenderAssumption` excludes both.
* `setCtrlFrameData` knows no ERR_HELLO (`Frame.cc:414`), so nobody can send one.
* A DATA frame that Tor takes in parts is resumed with the offset of the last part only, and its full length (`ControllerServer.cc:268`, `275`).
* DATA frames received before an order to wait or change stay in the reception queue unless a round comes while the client is held, and then go into the new local segment; so do, in the other direction, DATA frames still queued for the client.
* `read_msg_local` and `read_msg_client` return 0 both for nothing to read and for the end of the stream, so an ended local connection is not closed, though a branch is there to "shutdown Tor connection if the user doesn't send any data" (`ControllerServer.cc:362`).
* A second local connection before the first is closed fails the assertion at `SocksProxyClient.cc:799`.

## 5. Proofs

Each theorem holds for every value of the constants that the named assumption admits
(`ConstantsAssumption`, `ShaperAssumption`, `RingAssumption`, ...: sets are finite,
bounds are numbers of the right size; `TLC` evaluates them in the runs). Every invariant
and every action property of the passing runs is proved; what must eventually happen is not.

### The bridge: `ControllerServer_proofs`

* `TypeCorrect`: `Spec => []TypeOK`.
* `WaitingCorrect`: `Spec => []WaitingIsBroken`.
* `KCircuitCorrect`: without circuit changes, `Spec => []ActiveIsFulfilled`.
* `ExposureCorrect`: `Spec => ExposedOnlyByChange`.
* `CutOffCorrect`: `Spec => []HeldClientsAreCutOff`.
* `ShaperCorrect`: `Spec => []ShaperRunsIffClients`.
* `RateCorrect`: `Spec => []RateFollowsClients`. The rate is that of the present population and
  within the limits, for any limits: a handler that would break them fails the assertion of
  `order_TS_RATE`, after which there is no state. It does not say that the bridge goes on.
* `OrdersCorrect`: `Spec => []OrdersMatchState`.

The three theorems on groups rest on one lemma, `GroupStep`: as one client sees a step, it waits
afterwards only if its group is too small, or it waited before in a group no
larger; it is active afterwards only if its group is large enough, or it was
active before in a group no smaller, or it was CHANGING. The lemma is proved once
per kind of handler: those that leave the group as it is (`SameGroup`), those that
shrink it (`Departure`) and HELLO, which grows it (`Arrival`). `ActiveIsFulfilled` is not
inductive by itself: from CHANGING a client turns active unconditionally, so the
invariant is strengthened by `NobodyChanging`, which holds without circuit changes.
`HeldClientsAreCutOff` is strengthened to the connections without a `Client`, which
have no segment either (`CutOffInv`). The shaper and its rate depend on who is
registered only: `PopulationInv` is preserved by every step that is not a
`ConnectionStep` because the set of registered clients stays, and by a connection's
start and end because the count is taken after the change. `OrdersInv` adds to
`OrdersMatchState` that a connection without a `Client` has an empty queue, as `Init`
and `remove_client` leave it. Its steps follow one client: a handler moves it and
queues an order in the same breath (`PushFollows`), or touches neither.

About its rounds of delivery, for which `SyncDelivery` watches it:

* `HistoryOnlyWatches`: `SyncSpec => Spec`. The history variables keep nothing from
  happening, so what is proved of `ControllerServer` holds of the bridge that is watched.
* `RoundsCorrect`: `SyncSpec => []RoundsAreEarned`.

`RoundsAreEarned` says that no client is in debt; it is not inductive, because a client
with nothing on its account may have a frame queued. `LedgerInv` adds that `earned[d]` is
at least what the bridge could still spend of `d`: the DATA frames in its reception queue
and one for its mark. A round spends exactly one of these of every valid client whose
write is not refused (`RoundSpends`), and a frame that arrives adds to both sides or
finds a mark already set (`FrameIsEarned`).

### The bridge and its clients: `TorK_proofs`

* `BridgeUnchanged`: `TorKSpec => Spec`. Every step of the composition is one of the bridge or
  leaves it alone, so the theorems above hold of the bridge that reads what clients send.
* `AgreeCorrect`, `ObeyedCorrect`: `TorKSpec => []AgreeWhenQuiet`, `TorKSpec => OrdersAreObeyed`.
* `ChangeCorrect`: `TorKSpec => []ChangeIsUnderWay`, the part of `ChangeEnds` that needs no fairness:
  while the bridge has a client as CHANGING, the order, the handler or CHANGE_OK is there.
* `TorKInvariant`: `TorKSpec => []TorKInv`, on which the last three rest.

for every number of clients and commands, and like the properties for clients not in `crossed`.
`AgreeWhenQuiet` speaks of channels on which nothing moves; `TorKInv` of all of them, by
`OrdersInv`, by `LinkInv` (who is connected has a `Client` on the bridge, and nobody else has
anything on its way to it) and by `AgreeInv`. The latter is `InStep` of four values: the bridge's
state `s` of a client, the queue `q` of frames for it, the state `h` of its channel and the frames
`out` it has sent.

* Orders and declarations are not on their way together, and without either `s` and `h` are the
  same, CHANGING counting as ACTIVE (`Mirror`).
* `Follows`: the newest order in `q` fits `s`. `Obeyed`: the oldest finds `h`, and each later one
  finds what the order before it leaves, a channel that accepts it (`Accepts`, `Effect`); that
  the newest fits is of no use if the client ignores it.
* `Answered`: a client CHANGING on the bridge has its order, its handler or its CHANGE_OK under way.
* `GivesUpActive`: when the bridge reads the INACTIVE of a client that has given up, it has it as
  ACTIVE, CHANGE_OK having come before; else it would refuse it. `Told`: `h` is what the newest
  declaration says.

A handler of the bridge gives a client nothing, one order that its state makes acceptable, a
notice (TS_RATE, ERR), or an order and a notice (`BridgeSteps`); this is proved once per
handler, for the client it serves and for the others. What each such step, and each frame
heard, sent or read, does to `InStep` is a lemma on the four values. TLC checked `TorKInv` on
instances like that of `Channels` first, with two commands, and with four and `ch_active` off.

### The traffic shaper: `TrafficShaper_proofs`

* `ShaperTypeCorrect`: `Spec => []TypeOK`.
* `EventsCorrect`: on a bridge (`InitState = "IDLE"`), `Spec => EventsNeedClients`.
  It rests on `EmptyIsIdle`: with an empty table and the process not ending, the
  shaper is IDLE or `idle()` is due; the thread's test of IDLE, which it makes again
  when it wakes, does the rest.

### The ring buffer: `Ring_proofs`, `RingBuffer_proofs`

* `FullUnlessHeadIsZero`: for rings of every size, `RingFull` is true of a full ring
  whose head is not slot 0, and of no other.
* `RingTypeCorrect`, `OrderCorrect`: `Spec => []TypeOK`, `Spec => TakenInOrder`.
* `QueueCorrect`: `Spec => IsBoundedQueue`, the refinement of the abstract queue, with the
  items between head and tail (`Content`) as the queue.

`Ring_proofs` computes what `RingPut` and `RingGet` do to the content of a ring, from the
arithmetic of indices modulo the size, wrapping and overrunning included. `RingInv`: the
items in the ring are numbered upwards, after the last one taken and up to the last one
accepted, and no more have been taken and are held than were accepted. From it a put
maps to `BoundedQueue`'s put or overrun, a get to its get, and waiting, waking and
notifying to nothing.

### The control port: `TorController_proofs`

* `TorTypeCorrect`, `RepliesCorrect`: `Spec => []TypeOK`, `Spec => []RepliesMatch`.

`RepliesMatch` speaks of the reply a command takes; `TorInv` of every reply on its way.
`LockInv`: one command at a time is between its lock and its unlock, and while Tor has
not begun to answer it there is no reply anywhere. `RepliesInv`: every reply in the
socket, in the reader's hand or in the buffer is for the command that waits, and what
follows a final line, in that order of places, is no reply. `LinesInv` keeps events and
replies in their own buffers.

### Frames: `BridgeFrames_proofs`

* `FramesTypeCorrect`: `~CliRaces /\ Spec => []TypeOK`.
* `HolderCorrect`: `~CliRaces /\ Spec => []FramesHaveOneHolder`.
* `OwedCorrect`: `~CliRaces /\ Spec => []OwedIsPicked`.
* `LossesCorrect`: `~CliRaces /\ Spec => OnlyHalfReadFramesAreLost`.

for every pool, every number of connections and every number of chunks a frame is spread
over. The hypothesis is the condition the code needs and does not enforce: with `CliRaces`
the CLI thread may allocate a frame after a round has released it and before the handler
looks at it for the last time, and `FramesHaveOneHolder` fails in six steps (section 4).
Without `CliRaces` the CLI thread still interleaves with everything else.

`FramesInv` has one part per hand-over. `OwnInv`: the three queues and the half-read
frame of each connection and the handler own disjoint sets of allocated frames, no queue
has a frame twice, and the pool's free frames are the others (`PoolInv`). `ReadInv`: a
half-read frame has chunks to come. `HandlerInv`: the frame in a handler is not a DATA
frame, or it is in a reception queue until the round, so that the last look finds it
there or free. `SendInv`: the chunk the shaping thread has in hand heads its queue,
although CTRL frames are queued and the lock is free between write and pop; this is
why `remove_client` has to wait for it. `OwedInv`: what TLS is owed is the head of the
queue it was refused from, or the next chunk of a DATA frame that is still there.

### The client: `ControllerClient_proofs`

* `ClientTypeCorrect`: `Spec => []TypeOK`.
* `BuiltCorrect`, `PendingCorrect`, `PostponedCorrect`, `ActiveCorrect`:
  `Spec => []BuiltIsBuilt`, `[]PendingAreAttached`, `[]PostponedIsOpened`, `[]ActiveHasCircuit`.

for every number of circuits, streams, retries and commands. Like the properties they
speak of behaviours in which the client has not yet been misled (`~misled`: no handler has
written after its test was undone, and Tor has kept no event to itself); no action is forbidden. The properties are about quiet states, `ClientInv` about
all of them, and says who is still to act: an event on its way (`Says`), or a step that a
thread has still to make (`At`, `Opens`). `StepsInv`: what is left of a handler has the shape
the handlers give it, one that sets ACTIVE ends in `create_circuit`, and, as long as Tor has
kept nothing to itself, its events are true or about to be corrected by a later one
(`Truthful`). The rest (`KnowInv`) holds until the client is misled. `DirInv`: before
`ENOUGH_DIR_INFO` no circuit is opened. `HearInv`, `BuiltInv`, `HeardInv`: the event thread's
steps about a circuit are called for, a circuit taken for built is, and one that is built
is known or will be. `PostponedInv`, `PendingInv`, `ActiveInv`: a circuit put off, a stream kept
and an active channel without a circuit each have their event or step to come. TLC checked
the parts on `ClientCircuits`' instance before they were proved.

### Only model-checked

* What must eventually happen, with fairness: `ClientsAreServed`, `TerminateReturns`,
  `ConsumersGoOn`, `ProducersGoOn`, `DisableEndsAll`, `CommandsReturn`,
  `CommandsReturnUnlessStuck`, `EventsAreHandled`, `OrdersGetOut`, `FullPoolGetsRoom`, `ChangeEnds`.
  Liveness and ENABLED are out of the prover's reach.
* What the violation runs refute.

## 6. Plan

Done: the bridge and its rounds of delivery, its frames, pool and chunks, the traffic
shaper, the ring buffer, the control port, the client's circuits and frames, bridge and
clients together; the proofs of section 5. Left: `RefusedIsRetried` of
`ClientFrames` under the condition that the client stays ACTIVE, once TLC has confirmed it there.

What a further module could add: sessions of local connections end to end, with what
remains in queues when one ends.

## 7. Not modelled

The pluggable transport's environment and stdout protocol, logging and statistics,
the command line parser (vendored), the unused thread pool, the experiment
scripts. The failure of `restore_local_connection` ends the process and is left
out, and so are the SOCKS handshake with the local Tor (it runs once, on one
connection) and the bytes of frames. The CLI server passes one request at a time to
`handleCliRequest`. Of the client's commands `nym`, `c`, `set_k`, `ch`, `shut`, `sec` and `ses` are
modelled, of the bridge's `ts_rate`. Left out are the questions (`s`, `v`, `ts`, `pend_streams`, the
statistics with their files and resets), a `set_k` without a value, which sends nothing, and `drop` of
debugging builds.
