# BasisRustServer: verification

TLA+ models of the Basis server (`src/BasisRustServer`) and of the half of the
headless client (`src/BasisRustClient`) that speaks its transport protocol; TLC
configurations that check them on small instances; and TLAPS proofs of the main
safety properties for every value of the constants.

Contents: [the system](#the-system), [modules](#modules-and-the-code),
[runs](#runs), [fairness](#fairness), [proofs](#proofs),
[findings](#findings), [abstractions](#what-the-models-leave-out),
[plan](#plan). `PROJECT.json` ties every definition to the lines it stands for
and lists the hazards with the properties that cover them.

Below, *transport* is `crates/basis-transport/src/lib.rs`, *core* is
`crates/basis-server-core/src/lib.rs`, and a number is a line in that file.

## The system

Clients talk LiteNetLib-shaped UDP to one server process. The transport turns
packets into events on a channel; the core takes each event off the channel and,
but for a few frequent kinds, spawns a tokio task for it (core 322-357). So the
handlers of one peer run side by side and in any order, on tables that are shared
without a common lock: a `DashMap` each, an atomic, a queue under a mutex. Nearly
everything that is hard in this server follows from that.

### Inventory

| Component | State | Operations | Status |
|---|---|---|---|
| connection table (transport) | `peers`, `by_addr`, `pending_requests`, `next_peer_id`, `reusable_peer_ids`, `retired_peer_ids` | packets ConnectRequest, Disconnect, Channeled (857-1035); `accept`, `reject`, `disconnect`, `recycle_peer_id`; `timeout_loop` | modelled |
| reliable delivery (transport, client) | per peer `outgoing_reliable`, `pending_reliable`, `next_reliable_sequence`, `outgoing_acks`; the client's `pending_reliable` | `send`, `reliable_resend_loop`, `process_ack`, `queue_ack`; the client's send, resend, ack | partly |
| connection handling (core) | `authenticated_peers`, `pending_identity` | `handle_connection_request`, `finalize_accept`, AUTH_IDENTITY, `handle_disconnect`, `send_accept_fanout` | partly |
| message handlers, broadcast (core) | `global_state`, the configuration | `handle_message` by channel; `handle_admin_message`; `broadcast` | partly: relays of chat and voice are left out |
| P2P broker (`p2p.rs`) | `sessions`, `peer_sessions`, `offloaded_pairs` | signals REQUEST ... LINK_LOST, NAT introduction, `remove_peer` | modelled |
| shared scene state (`basis-server-resources`) | resources, preload sessions, net ids, ownership, shared content, PIP | load, unload, preload, claim, release, reset; replay to late joiners | modelled |
| avatar synchronisation (`avatar_sync.rs`) | pending update and state of each player, `last_seen_generation`, receiver slices | upsert, remove, tick | modelled |
| permissions (`basis-server-permissions`) | users, groups with parents, `permissions.xml` | add and remove rules, `has`, save, load | partly |
| moderation (`basis-server-admin`) | bans with two indexes, whitelist, blacklist and their files | add, remove, reload, save | partly |
| wire format (`basis-protocol`) | none | serialise, deserialise, repack poses, bundle | partly |
| console | none | commands | its permission commands |
| persistent database (`basis-server-storage`) | a map, written at shutdown | get, put, shutdown | not modelled: one map, nothing races |
| configuration | none | parse a file and the environment | not modelled: no behaviour over time |
| health endpoint, source sync tool | none | read and print | not modelled: I/O |
| headless client | connection, voice, reconnects | connect, authenticate, move, speak, reconnect | its reliable channel only |

### How they interact

- **transport to core**: the event channel (ConnectionRequest, Message,
  PeerDisconnected). The transport has let go of a connection when it announces
  its end; the *id* is held back (`retired_peer_ids`) until `handle_disconnect`
  has run and calls `recycle_peer_id`.
- **core to transport**: `accept` gives a request an id, `reject` and
  `disconnect` end it, `send` queues reliable payloads per peer. A message to a
  peer that is not in `peers` is dropped without an error.
- **core to core**: handlers meet in `authenticated_peers`: `broadcast` iterates
  over it while others insert and remove.
- **`handle_disconnect`** walks through every component in a fixed order: P2P
  broker, pending identity, voice, avatar, ownership, shared content, PIP, player
  table, announcement of the leave, reset of the shared state if nobody is left,
  and the id last.
- **P2P broker to voice and avatars**: a pair in `offloaded_pairs` gets none of
  the sender's voice and avatar data from the server.
- **shared scene to clients**: a handler changes a table and then broadcasts the
  change; a join is sent what each table held when it was read. Clients know the
  tables from these messages only.
- **core to avatars**: the tasks of messages put updates into `pending`, the tick
  thread takes them out; `remove_player` clears what a player left.
- **admin commands to everything**: a ban looks for its player in
  `authenticated_peers` and ends it by `disconnect`; a toggle of a lock is stored and
  broadcast, `disallow_headless` is stored, copied into the configuration and then
  enforced, one step after the other. `/config` changes the configuration alone.

### What is hard, and what makes each part correct

- *Connection table.* Read loops, the timeout loop, kicks and handlers compete for
  one connection. Correct: a connection that ends is announced once; an id is used
  again only after the clean-up of its last connection; no id leaks; a live entry
  is never overwritten; a `pending_requests` mark, which silences the retries of
  a client, never outlives its request.
- *Connection handling.* A PeerDisconnected may be handled before the request that
  made the connection has entered its player; a message that was read under an old
  connection may authenticate the next one with that id. Correct: no live
  connection is forgotten, and no player stays without a connection.
- *Who is shown to whom.* Joins and leaves overlap with broadcasts that visit one
  player at a time. Correct: players that are both there see each other; one that
  has left disappears.
- *P2P broker.* Three maps, no common lock, signals repeated and late. Correct:
  voice is withheld only from pairs that have a session; each session is found
  again when either of its players leaves.
- *Reliable delivery.* Loss, repetition and reordering with sequence numbers that
  wrap, and acks that name a window of them. Correct: an ack never takes out a
  packet that did not arrive; what is queued arrives.
- *Shared scene.* Broadcasts, replays and resets of different tasks overlap, net ids
  are reset under two locks, preloads wait for the answers of players that left.
  Correct: clients know what the tables hold; names share no id; what a player had
  is taken back; nobody waits for nobody; an empty server is reset.
- *Avatars.* The tick thread and the tasks have no common lock, sequences have eight
  bits, receivers take turns. Correct: nobody is shown an older pose after a newer
  one, an earlier connection does not mute the next one, and every receiver gets
  the latest pose.
- *Administration.* Lists, indexes, files, players and the configuration are changed
  one after the other by tasks that overlap; saves copy under a lock and write
  without it; the process may die. Correct: a ban that was made is in force and on
  file; denial outweighs permission; players know the settings.
- *Wire.* Lengths that are one more than the length, fields that end in the
  rest of the packet, bits across bytes, bundles tried twice. Correct: what is read is
  what was written, and a packet that is cut short is noticed.

## Modules and the code

State keeps the names of the source. One step is one access to a shared table (a
`DashMap`, a mutex, an atomic) with the local computation around it, unless said
otherwise.

**PeerTable** is the connection table. `thr` says what each thread is doing, by
its program counter `pc`; `Workers` run `read_loop`, `TimeoutLoop` runs
`timeout_loop`, `Operators` call `disconnect()`, and `Handlers` are the tasks of
the core. A ConnectRequest packet is `ReceiveConnectRequest`,
`ExamineExisting`, `EvictExisting` (then `Unmap`, `Retire`, `Announce`),
`CheckPending`, `AdmitRequest`; a Disconnect packet is `ReceiveDisconnect`,
`TakePeer` and, if the connection was another one, `RestoreAddr` and
`RestorePeer`; `accept()` is `Accept`, `AllocateReused` or `AllocateFresh` until an id
is not live, `MapAddr`, `InsertPeer`; `recycle_peer_id` is `ReleaseId`, `Recycle`.
The event channel is a counter for each distinct event: tasks are spawned in
order but start in any, so no order is kept. Four pairs of accesses are merged into
one step: the pending mark with the enqueueing of its request (`AdmitRequest`), the pop
or fetch of an id with its look-up in `peers` (`Allocate*`), the look-up with the
removal in `retired_peer_ids` (`ReleaseId`), and the comparison with the player
limit with the removal of the pending mark (`AcceptBelowLimit` of PeerSession).

**PeerIds** is the abstract promise: each id goes through `free`, `claimed`, `live`
(`held` while a Disconnect packet looks at it), `closing`, `retired`, `told`,
`cleaning` and is `free` again, or it is `lost`. **PeerTableIds** is the refinement
mapping: the phase of an id follows from the one table, queue or thread that has it.

**PeerSession** puts the core on top: `pending_identity`, `authenticated_peers` and
`task`, how far each handler is. `Challenge`, `FinalizeAccept`, `AuthIdentity`,
`ForgetPending`, `ForgetPeer` and `Release` are the steps of the handlers that touch these two
tables or give the id back. `late` and `unregistered` are history variables that
name the two kinds of error that the code admits.

**Presence** is what each client is told to show (`screen`): `Insert`, `Create`
(one visit of the broadcast of CREATE_REMOTE_PLAYER), `Created`, `Find`
(one entry of the loop over those who are there), `Introduce` for a join; `Remove`, `Tell`
(one visit of DISCONNECTION), `Recycle` for a leave. Tasks are not tied to
connections: a join of an earlier connection may still be running when the id is in
use again. What PeerTable shows is assumed: an id is not in use while its leave runs.

**P2PBroker** is `p2p.rs`: `Request`, `Arm`, `TrackInitiator`, `TrackTarget` for REQUEST;
`Accept`, `LinkUp`, `LinkLost`, `NatRequest` for the signals that are handled under one
guard; `Drop` with `Untrack*` and `Unlink` for `remove_session`; `Leave`, `RemoveNext`,
`Left` for `remove_peer`. A signal may come at any time and again, since the
transport hands a repeated reliable packet to the core again (transport 1030).

**SequenceSpace** has the arithmetic that server and client share. **ReliableDown**
is one channel from the server to a client: `Enqueue`, `Fill` (the loop takes what
the window has room for), `Record` (number, enter in `pending_reliable`), `Transmit`,
`ProcessAck`, and the client's `Receive`. **ReliableUp** is the other direction:
`Send`, `Save` (the client enters a packet only after it sent it), `Resend`,
`ProcessAck`, and the server's `Receive` (`queue_ack`) and `SendAck`. The server has
a counter for each channel, the client one for all of them: `SendElsewhere` is
another channel that takes a number, so that one channel sees gaps. Nothing bounds
how many packets the client has unacked; `lingering` are those that were there when
their number was almost due again. **AtLeastOnce** is the abstract promise of both: a
payload is accepted once (`Accept`), may arrive any number of times in any order
(`Deliver`), and the sender lets go of it (`Settle`) when it has arrived or is excused, as
its number may be taken for that of another. `DeliversDown` and `DeliversUp` are the
refinements: what the sender owes is what is queued or pending, and what is pending or
still to be entered by the task that sent it.

**SharedScene** is `basis-server-resources` with its handlers, the replay and the end
of `handle_disconnect`. An item is a name, a resource, an object, a sphere or, for
its camera, a player; `world` is what the tables hold for it, and `told` what each
client was last sent. A task has a program counter and what it has still to send:
`Receive` begins one for a message, and `AddOrFind`, `Load`, `CollectPeers`,
`LoadResource`, `InsertSession`, `Unload`, `RemoveResource`, `PutBack`, `MarkReady`,
`FindScene`, `GetOwner`, ... are its accesses to the tables. Where the code lists ids under
a lock and takes it anew to remove them, so does the model (`ListScenes` and
`UnloadScenes`, `ListTransient` and `ResetResources`); `Visit` is the sending to one player, which `Telling` remembers in
`misled` while that player is not entered: a task of an earlier connection answers by
peer id, and tells the new connection what nobody will take back. `Connect`, `Insert`, `ReadTable`,
`SendTable` are a join; `Close`, `Disown`, `Unshare`, `RemoveCamera`, `RemovePeer`,
`RemovePreloadPeer`, `IsEmpty` and the steps of the reset are a leave. `CutOff` is the other
end of a connection, a kick, a ban or a ShutdownOk that cannot be sent: no leave follows
it, and `abandoned` names the player.

**AvatarSync** is `avatar_sync.rs` with the tasks that feed it. The tick is `Drain`,
`Process`, `Clone`, `Build` (one receiver) and `Flush`, which adapts the number of
slices; `CacheInitial`, `Upsert` and `RemovePlayer` come in between. An update is
known by its connection and number, and its sequence is the number modulo
`SeqSpace`, so that what the eight bits confuse is told apart. `odd` are the updates
that went astray (`Astray`): late by more than half a round, of an earlier
connection, or taken for newer or older by comparison with one that went astray.

**Messages** has writer and reader: `Serialize` and `Deserialize` follow a
schema, the sequence of a message's fields, and **MessageSchemas** has the schema of every
message. **AvatarBits** is the layout of the rotations in the four qualities and
`repack_high_to_lower_into`. **AvatarBundles** is `emit_greedy_avatar_bundles`, which packs
the packets of a tick: a round of its loop is `Attempt` or `Break`, the second attempt at a
chunk that overshot is `Retry` or `GiveUp`, and `SendTail` sends what is left. **Wire**
sends: a message that may be cut short on its way, a pose that is entered, repacked
and seen, or a tick of AvatarBundles, whose bundles it turns into bytes.

**Moderation** is `basis-server-admin` and its users: a new connection is checked
against one index, then the other (`CheckIp`, `Accept`, `Insert`); a command changes
the list (`AddBan`, `RemoveBan`, `RemoveIpBan`), rebuilds the indexes (`Index`), copies
the list and writes it (`Clone`, `Open`, `Write`), and a ban then looks for its player
(`Find`, `Kick`). `FailSave` is a save of the bans that fails, `FailRoll` one of the
whitelist or the blacklist, whose list has changed by then and whose file may have been
emptied; `Restart` is a process that dies and reads its files. **Permissions** has the store, the commands of admins (saved)
and of the console (not saved), loads and reloads. **PermissionRules** is `has`, what a
user may do: one check of one node, which holds the lock of the store, so that commands
wait for its end. The recursion over groups and their parents is a stack of calls
(`Check`, `EnterGroup`, `ApplyRaw`, `Return`, `EndCheck`); each call takes its groups and
then its entries in any order, as hash sets do. **Globals** has the
lock toggles and `disallow_headless`, which alone is copied into the configuration, the
broadcast, and the joins that are sent both. It starts from any configuration. **Administration** puts the three side by
side. They share no state, so a behaviour is about one of them (`topic`), which
keeps the instance small and loses no interleaving.

`MC*` modules add symmetry and values of the constants; `*Proofs` modules hold the
theorems (**ConnectionProofs** those of PeerTable, PeerTableIds and PeerSession). Definitions marked *Mutant* are plausible bugs; with each of them in
place of the real definition, the property it belongs to is violated.

## Runs

| Run | Question | Bounds |
|---|---|---|
| `table_safety` | Are ids reused only after their clean-up, and none lost or overwritten? Is each end announced once, each pending mark backed? Does the table implement PeerIds (`Lifecycle`)? | one address that connects with two times, one id, two read loops, two handlers, a kick, the timeout loop |
| `table_wrap_reuse` | *violation*: a retired id is handed out after the wrap | two ids, three fetches |
| `session` | Is no live connection forgotten, is each ghost explained? Does an announced end give the id back and remove the player; is a pending mark taken off? | one address, one time, one id that is reused, two handlers, messages, a kick; fair |
| `session_ghost` | *violation*: `/players` lists a player that was kicked | one id, one handler, a kick |
| `presence` | Do players that are there see each other; does one that left stay only where a join raced with it? | two players, up to four joins at once |
| `p2p_tasks` | Is no pair offloaded without a session, is each session found from both its players? | two players, a token each way, two tasks |
| `down` | Is no payload lost, does each arrive? Does the server implement AtLeastOnce? | six payloads over four sequence numbers, window of two |
| `up` | Does no ack name what did not come, is nothing forgotten, is each acked? Does the client implement AtLeastOnce? | seven numbers of six, four of them for this channel, window of two, two senders, two packets unacked |
| `scene` | Do clients know what the tables hold? Are names distinct, things of players that left taken back, preloads ended, empty servers reset? | two players, two tasks, two names and two ids, one of each other item, three requests or kicks, two connections |
| `avatars` | Is no older pose shown after a newer one, is nobody muted, does the latest pose arrive? | two players, one of which moves, four sequences, one or two slices, five events less the slices |
| `admin` | Are bans, files, permissions and settings what the commands made them? Does a check answer as the entries say? | two tasks and two players; two commands on the bans, of which one may be there, two on permissions, two on settings, of any values at the start; one crash, one failing save of the bans or of a list; checks of permissions at any time, of one user and two groups that may be each other's parents |
| `wire` | Is every message, pose and bundle read as it was written? | every message with usual values, each field in turn at its limits, cut at every place up to 30 bytes; five patterns of poses; up to five packets in a tick, four sizes of a chunk |

The runs check invariants that the code could break. The type invariants of the
connection, the broker, Presence and reliable delivery are only proved.

Why these bounds are enough to meet the interesting cases:

- One address suffices for the table: threads meet in `by_addr` only for equal
  addresses. With one id every race is one for the *same* id, between a connection
  and the one that gets the id next, as when a request evicts, or a
  Disconnect packet takes out, a connection that was made after it looked. Two
  connection times make one request newer, equal or older than another. `MaxQueue`
  is 1: more would be two ends of one id under way, which
  `OneClosurePerConnection` excludes. The theorems cover any number of each.
- Every property and step of Presence is about a pair; more players add no new
  one. Four joins for two players let two joins of earlier connections overlap with
  those of the present ones. The theorems cover any number.
- Two tokens of one pair in opposite directions share their entry of
  `offloaded_pairs`, whose key is unordered; two tasks are what a race needs.
- In ReliableDown the numbers go round once and a half, so that a number is used
  while its last packet may still be pending. In `up` the numbers
  wrap and come round once, as the last is that of the first payload again, and a
  packet lingers when four more were numbered. The channel has four of the seven
  (`Ours`), with a gap, so that the server's window also moves by two.
- In SharedScene every race is one of two tasks, which are a join, a leave, a
  request or any two of them; two names are what an id is shared by, and two
  connections are a player that comes back or two that meet. Three requests are
  a preload, its answer and an unload, two claims and a release, or a kick among them.
- In AvatarSync half of the four sequences is two, so that two updates of
  one connection are already late by more than half a round; five events are two
  connections, a close and two updates.
- In Administration every race is one of two commands, of a command and a join, or
  of a command and the crash; two users with one address are what a ban of an
  address can confuse. A second crash would find what the first one left.
- In Wire a byte has 64 values and the limits are scaled (chat 9, name 5, a bundle 3 items or 30 bytes),
  so that strings reach the ends of their length fields; 41 is the
  largest number of an enumeration. One field at its limit at a time is enough, as
  a reader's fields meet only in what is left of the packet.

Deadlock is not checked: clients may stay silent, commands end, and bounded models stop.

## Fairness

Liveness is checked by TLC only.

- `FairSession` (run `session`): weak fairness for the steps of a worker, of a closing thread and
  of a handler that has begun (a task once spawned is scheduled until it ends);
  strong fairness for taking each closure and each request, as the few
  handlers of the model compete for events while the runtime has a task for each.
  Packets, timeouts and kicks are not fair.
- `FairSpec` of ReliableDown: weak fairness for `Fill`, `Record` and the resending
  of what is pending (the loop ticks for ever); strong fairness for the receipt of each
  payload and of some ack: the network does not lose every one of endlessly many
  resends. Without this assumption no protocol delivers.
- `FairSpec` of ReliableUp: the same for its two loops and the network, weak
  fairness for `Save` (a task that sent goes on), and for the loss of what is on
  its way, as no packet travels for ever.
- `FairSpec` of AvatarSync: weak fairness for the tick, whose thread loops until the
  shutdown, and for the tasks of joins and leaves; strong fairness for a build
  of each receiver that skips nobody. A receiver whose turn comes again and again
  finds that all intervals have passed, since an interval is 255 ms and the default at
  most. Clients need not move. `LatestReaches` has the premise that the number of slices
  settles: while it is adapted without end, no turn is promised by the code.

## Proofs

All theorems hold for every value of the constants that satisfies the named
assumptions of the modules. Each is an invariance argument: an
inductive invariant, one step per action, temporal reasoning only in the last line.

- **ConnectionProofs**, the table: types (`TypesHold`), `PendingBacked` and
  `NoDuplicates` (the queue of ids holds none twice, also after the wrap), without
  further assumption; and with `NoWrap` (`MaxFetch <= IdSpace`, i.e. the counter has
  not come round) `IdsInOnePlace`, `ReuseIsSafe`, `ClosedOnce`, `NoLeak`,
  `NoOverwrite`. None of these properties is inductive. `IInv` is: *each id is in one
  place* (carried by one thread, live, announced, queued or orphaned). Reuse
  is safe because the thread that has an id to allocate is then the only place of
  it. `NoWrap` is needed: `table_wrap_reuse` is the counterexample without it.
  The refinement: `Implements`, the table implements PeerIds. From `IInv`
  the phase of an id is what its one place says (`Placed`); a step then moves at most
  one id, to a next phase (`OneStep`).
  The core: `Tracking` (LiveIsTracked), `NoOtherGhosts`
  (GhostsExplained), `SessionTypes`; `SessionIsTable`, that the core is one of the
  environments that the table allows, which carries the table's invariant over; and
  `SessionLifecycle`. The invariant adds to `IInv` what stage of a handler goes
  with what program counter (`TaskInv`). `NoWrap` again, but for `SessionIsTable`.
- **PresenceProofs**: `EveryoneSeen` (NoneUnseen), `GhostsExcused` (GhostsRaced),
  `PresenceTypes`. The invariant: of two entered players each is shown to the
  other *or some task will still do it* (`SeenOrPending`); whoever is shown without
  being entered is excused or will still be revoked (`GhostsPending`).
- **P2PBrokerProofs**: `Offloading` (OffloadBacked), `SessionsFound`
  (SessionsTracked), `P2PTypes`. OffloadBacked is inductive with the types;
  SessionsTracked needs `Cleaning`, which ties the tokens a task has still to remove
  to a leave that is running.

- **ReliableDownProofs**: `NothingIsLost` (NoneLost), `DeliversFromServer` (DeliversDown, the
  refinement of AtLeastOnce), `DownTypes`, and `WindowHolds`,
  that acks which come between `Fill` and `Record` do not let the loop exceed its
  window. Two payloads with one number are at least a round apart (`SameNumber`).
  The invariant: a payload is pending under its own number (DownTypeOK) and for less
  than a round, as the next one with that number takes its place (`Recent`), and after
  almost a round it lingers (`Lingers`); what is on its way was sent less than a round
  trip ago, while it was pending (`Flights`); an ack on its way is of a payload that
  came (`Acked`). An ack then finds under its number the payload it was sent for, or
  one that came a round earlier and lingered.
- **ReliableUpProofs**: `AcksAreTruthful` (AcksTruthful), `NothingForgotten`
  (NoneForgotten), `DeliversToServer` (DeliversUp), `UpTypes`. About the operators: an ack names at most one number
  by each bit (`BitNamesOne`), and `SlideNames`: moving the window keeps the meaning of
  the bits that stay, so that it names what it named before and the new number. The
  invariant: each number that a window or an ack names is that of a packet which
  came, and which lingers if it was almost a round old when the oldest packet of the
  window was sent (`Told`); `Flying` and `Lingers` as above.
  Both refinements follow from the invariant of the state after a step (`LettingGo`): what
  left the sender's tables is neither queued nor pending then, so that it came or is
  excused.
- **AvatarSyncProofs**: `NobodyStepsBack` (NoStepBack, an action property),
  `NobodyIsMuted` (NoneMuted), `AvatarTyped`; and `EachPacketOnce` (BundlesWhole), for
  ticks of any number of packets. The invariant of the ticks: the snapshot of a tick
  is of the states as they are, or of players that were removed meanwhile
  (`SnapshotWell`); a state is not before what any receiver heard of its connection,
  nor is the snapshot (`InStep`); what counts as sent was sent or is about to be
  (`TrackingTrue`), and nothing counts for a player that is gone (`TrackingCleared`).
  That of the bundles (`BundleInv`): what was sent are ranges that follow one another up to
  the cursor, and a chunk to be tried again ends behind it. It rests on `GreatestNumber`:
  `pick_bundle_chunk_end` chooses an end at which the sizes stop to fit, and some end is
  one, as a set of numbers with a bound has a greatest.
  `RescaledIsNearest` is the arithmetic of PoseKept for any two sizes of a component:
  what `rescale_quant` makes of it fits and is at most half a step off.
- **SharedSceneProofs**: `ClientsAreTold` (ClientsAgree), `NobodyOrphans`
  (NoOrphans), `NobodyWaitsForNobody` (NoneWaitsForNobody), `NothingIsLeft`
  (EmptyWhenAlone), `SceneTyped`, and `NamesAreDistinct` (NamesDistinct) for a finite
  `Name` with no more names than ids. The invariants all say of some obligation that it
  is met *or some task will still meet it*: each player that is there was told of an
  item, or a task has the message for it, or its join has still to read
  that table (`AgreeInv`); what a player had is gone, or its leave has still that step
  to take, or the player was cut off and has no leave (`OrphansInv`, `ResetInv`); a preload counts no more answers than can come
  (`SessionsInv`, `WaitInv`); the names added since the counter was reset have the
  first ids (`NamesInv`).
- **AdministrationProofs**: `BansAreInForce` (BansInForce), `FilesAreCurrent`
  (FilesCurrent), `DenialsWin` (DenyWins), `SettingsAreInForce` (SettingsInForce),
  `AdminTyped`. For the bans:
  the indexes follow the list or a command has still to rebuild them, a banned player
  has no connection or a ban is on its way to it, the file of bans is the list or what
  will be saved (`BanInv`), and the whitelist's and the blacklist's are their lists, or
  are being written, or are named by `unkept` (`RollFollows`); for permissions, that one save at a time holds the store as
  it is unless a later one follows (`PermInv`); for settings, that of two tasks that
  tell a player of one setting neither is behind (`GlobalInv`). For a check (`RulesInv`):
  each call under way has visited its groups or has still to go to them, and so have those
  that returned; no group is visited that a closed set could leave out; and the
  decisions are those of the entries applied. The property compares the answer with the
  least set of groups that is closed under parents, so that nothing is assumed of the
  hierarchy, which may be cyclic or name groups that do not exist.

The assumptions are those of the modules: kinds of values are disjoint, sets of
players and tasks finite; for reliable delivery that windows divide the sequence space,
which holds two at least, and that a packet, an ack or a window of acks lives for less than a round of it
(`RoundTrip < MaxSequence`; a round is 32768 packets).

Three attempts failed because the statement was wrong, and TLC then found the
behaviour on a larger instance. NoStepBack did not hold with seven events: an update
that is late by half a round carries along those that are compared with it
(`Astray`). ClientsAgree did not hold with four joins: a message answered by peer id
reaches the next connection before that is entered (`misled`). ReliableUp held only as long as no number
was used twice, which nothing in the client ensures (`Confused`).

Model-checked only: everything under fairness (`Settles`, `Arrives`, `LatestReaches`
and the properties of `session` that something happens), which is out of this prover's
reach; and RoundTrips and PoseKept, what a reader makes of what was written, as a proof for
every message would be an induction over its fields, and for every pose over its bits (of
a pose the rounding is proved, and that its fields do not overlap is not).

## Findings

1. **A kicked player stays for ever.** `TransportHandle::disconnect` (transport
   591-604) removes the peer and retires its id but never enqueues
   PeerDisconnected, unlike the three other ways to end a connection. The clean-up of
   a kicked or banned player never runs, its id is lost, and `/players`, which
   "Lists all connected players" (console 237), lists it on. Run `session_ghost`.
2. **A retired id is handed out after the wrap.** `allocate_peer_id` (transport 389)
   checks a freshly fetched id against `peers` only. Once the `u16` has wrapped the
   id of a connection whose clean-up is still to run can be given out, whose
   clean-up then hits the new player. The test
   `peer_ids_reuse_only_after_cleanup_release` (transport 1748) covers the case before
   the wrap. Run `table_wrap_reuse`.

The passing properties also name what the code does admit: GhostsExplained lists
a player entered after its clean-up (`late`) and one whose end the core was not told of (`orphaned`);
LiveIsTracked a connection whose ConnectAccept could not be sent
(`unregistered`); SessionsTracked a session armed again while `remove_session` works on
its token (`stray`); NoneLost a payload that is pending while a whole round of
numbers goes by (`lingering`), as the window counts packets and not their span;
AcksTruthful and NoneForgotten the same of the client (`Confused`), which has no window at
all;
GhostsRaced a leave that runs while a join still announces (`raced`).

In the shared scene:

- `abandoned`: the objects, spheres and camera of a player that was kicked or banned, or
  whose ShutdownOk failed, stay, preloads wait for its answer, and the server never
  counts as empty again (finding 1).
- What is listed under one lock and removed under the next one is removed by its id: an
  entry of that id that came in between is removed too.
- `raced`: an item that changed while something older about it was still to be sent is
  told in the wrong order; a client may keep the older one for ever. The resets of an
  empty server tell nobody, so a player that joins meanwhile keeps what they took.
- `misled`: what a task of an earlier connection answers by peer id to the next one,
  before that is entered: its change is not broadcast to it, or not taken back.
- `early`: a name added between the two halves of `NetIdState::reset` shares
  its id with the next one.
- `late`: what a player takes in a message that is handled after its leave stays.
- `lost`: a refused UNLOAD puts the resource back and not its preload session, and a
  session may count players that left before it was entered. As
  `timed_out_preloads` is never called, its players wait for ever.
- `all_scene_unloads`, called before a preloaded scene is spawned, unloads that scene
  as well. GET_CURRENT_OWNER_REQUEST makes an owner and tells only the player that
  asked, which `Agrees` allows for.

Of avatars: `late` and `stale` are what a tick puts back while `remove_player` clears
the tables, or a message that comes after it; `odd` an update late by more than half
a round, which the eight bits take for a newer one, or of an earlier connection, and
those that are compared with it until the tables are cleared.

Of bans: a ban does not reach a player that is being entered, a second connection
with the same uuid, a player whose earlier entry `peer_by_uuid` finds in its
place (see finding 1), nor anyone when its save fails, as the error ends the
command before the player is disconnected (`excused`). `remove_ip_ban` (admin 213)
takes an address out of the index that a ban may have entered meanwhile (`undone`),
until the next rebuild. Saves that overlap may leave the older list or a mixture of
both, and a crash in `fs::write` loses every ban at the next start
(`crossed`, `Torn`). A whitelist or blacklist whose save fails (admin 297-305) keeps the
change in memory while its file stays behind it or is empty, until the next save of
that list (`unkept`).

Of permissions (`behind`): a load during a save installs an empty store; changes
between the read and the replacement of a load are lost; an admin is told of
success when the save failed; what the console or a join changed is not saved.

Of the settings: two broadcasts may overtake each other (`muddled`), the copy of
`disallow_headless` in the configuration may end with the other value than the state
(`clashed`), and a headless player that is being entered stays (`late`). The locks are
in the configuration as well, but a toggle (core 1695-1718) does not write them to it,
and `/config` changes them there only, so that the two differ until a restart: no
property says that they agree.

Of connections, what no property excludes: a ConnectRequest that passed
`ExamineExisting` evicts whatever connection has its address by then; two requests of one
address may both be accepted, under two ids; a REQUEST may make a session with a player
that is leaving, which stays until its token is used again or its other player leaves.

Each of these exceptions is needed: without it, TLC finds its property violated. They
are no findings of the list above, as no text in the repository claims otherwise.

## What the models leave out

- In the modules of the transport: packet bytes, the answers to pings and retries of ConnectRequest, and
  statistics. Connection numbers are a choice: a request of the pending one's time may
  go on or not (`CheckPending`), and a Disconnect packet with another number is one
  with another time. Silence is abstract: any peer
  may time out at any time.
- Shutdown of the server.
- PeerSession: the tables of the other components in `handle_disconnect`; the
  checks of a request other than the limit (it may be rejected at any time).
- Presence: what is said of each player (avatar, shared state); kicks, which never
  reach `handle_disconnect`; the order in which a client sees messages of different
  channels; that the guards of a `DashMap` iteration are held across await points.
- P2PBroker: the forwarded messages, and two pairs that choose the same token (each
  token belongs to one pair, in one direction). Whether the target of a REQUEST is authenticated
  is the caller's answer and may be either.
- Reliable delivery: the limit of 4096 pending packets over all channels,
  unreliable and sequenced methods, merged packets, and packets of an earlier
  connection from the same address. The time between two resends is abstract;
  delays are bounded in payloads numbered meanwhile (`RoundTrip`), as only a whole round of
  numbers can make an old packet look like a new one. A `send_to` of the client that
  fails, upon which the packet is not entered, is left out.
- SharedScene: the positions of cameras, which are relayed; the default library of a
  directory, read at the start. Clients name themselves as requester and as owner. The
  players whom a preload counts are collected at one moment (`CollectPeers`), where the
  code iterates over the shards of the map.
  Whether a player has a permission may be either.
- AvatarSync: distances, intervals and what a tick costs, which are choices. A
  receiver may skip any sender, for its interval, a link of their own, or a quality
  that cannot be made. `update_config` changes only distances and intervals. A send
  that fails (avatar_sync 758, 1130) ends the sending of that tick: the packets after it
  are tracked as sent and are not. The model leaves that out, as it does loss on the way
  to a receiver: `LatestReaches` is about what is handed to the network.
- Moderation: `add_ip_ban`, which has no caller; reasons and times; restriction mode,
  password and version, which can only refuse (`Refuse`).
- Permissions: files other than `permissions.xml`, its parser, and a restart, which
  is a load.
- Wire: the bit set of known permissions, the compression itself (LZ4 or deflate:
  whether a bundle fits is a choice), decentralised identities (`did.rs`), and
  the query for the server's information. Where only one of writer and reader is
  in the repository, the other is its mirror image. A string longer than its length
  field can say is written with a wrong length by `put_string`; no caller has one.
  A packet that is cut short is not noticed when its message ends with the rest of the
  packet (avatar data), nor when it is an empty net id.
- Not modelled: the **database**, a map that is read at the start and written once, at
  the shutdown (a crash loses every change, and nothing races); **configuration**,
  **health endpoint** and **source sync tool**, which have no behaviour over time; chat
  and voice, which read the tables and relay; the guards that `broadcast` holds.

## Plan

Done, in this order: the life of a connection (PeerTable, PeerIds,
PeerTableIds, PeerSession with their proofs), the P2P broker with its proofs,
reliable delivery (SequenceSpace, ReliableDown, ReliableUp), who sees whom
(Presence with its proofs), the shared scene, avatars, what goes over the wire,
administration, the proofs of the invariants of reliable delivery, the scene, avatars and
administration, and those of the bundles and of the checks of permissions.

Next, by importance:

1. **Composition**: ReliableDown with the connection table, where acks of an
   earlier connection from the same address are matched by address (transport 999).
2. **Broadcast** as a user of the shards of a `DashMap`, whose guards are held
   across await points (core 291): can all threads wait for one another?
3. `allocate_peer_id` with every id live, where it loops without end (transport 383).
4. **Proofs**: that one channel of the composition of item 1 still implements
   AtLeastOnce.
5. **HeadlessClient**: connect, identity, reconnect against the table.
6. **P2PBroker** with sessions that carry their parties, so that two pairs may use the
   same token: the pair of the session that is overwritten is then offloaded without
   one, and OffloadBacked has to name that case.
7. The limit of 4096 pending packets over all channels.
