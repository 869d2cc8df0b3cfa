----------------------------- MODULE SharedScene -----------------------------
(****************************************************************************)
(* The scene that the players of a server share: the names that stand for  *)
(* small net ids, the loaded resources and their preload sessions, the     *)
(* owners of objects, the shared content spheres and the cameras.          *)
(*                                                                          *)
(* Each table of basis-server-resources has a lock of its own, and an      *)
(* access under the lock is one step. The handlers of the server core run  *)
(* as tasks, one per message, connection and disconnection: a handler      *)
(* changes a table and then broadcasts, to one player after the other; a   *)
(* join replays one table after the other to the new player; the leave of  *)
(* the last player resets the tables, one by one.                          *)
(*                                                                          *)
(* An item is a name, a resource, an object, a sphere, or a player for its *)
(* camera. world is what the tables hold, told what each client was last   *)
(* sent about an item.                                                     *)
(****************************************************************************)
EXTENDS Naturals, Sequences, FiniteSets

CONSTANTS
  Peer, Task, None,
  Name, Resource, Object, Sphere,
  LoadKind,     \* the resources that clients load, with their flags
  IdSpace,      \* how many net ids there are: 2^16 in the program
  MaxRequests,  \* bound: messages that are handled
  MaxJoins      \* bound: connections

ResourceKind == [scene : BOOLEAN, persist : BOOLEAN, locked : BOOLEAN, preload : BOOLEAN]
Item         == Name \cup Resource \cup Object \cup Sphere \cup Peer
NetId        == 0 .. (IdSpace - 1)
Session      == [answered : SUBSET Peer, total : 0 .. Cardinality(Peer)]

ASSUME IdSpaceAssumption  == IdSpace \in Nat \ {0} /\ {MaxRequests, MaxJoins} \subseteq Nat
ASSUME PeerAssumption     ==
  IsFiniteSet(Peer) /\ IsFiniteSet(Task) /\ \A p \in Peer : Peer # {p}
ASSUME KindAssumption     == LoadKind \subseteq ResourceKind
ASSUME DistinctAssumption ==
  /\ None \notin NetId \cup ResourceKind \cup Session \cup Peer \cup {"on", "off"}
  /\ Name \cap (Resource \cup Object \cup Sphere \cup Peer) = {}
  /\ Resource \cap (Object \cup Sphere \cup Peer) = {}
  /\ Object \cap (Sphere \cup Peer) = {} /\ Sphere \cap Peer = {}

VARIABLES
  live,      \* players with a connection
  known,     \* authenticated_peers
  world,     \* the tables: what they hold for each item, None when absent
  next_id,   \* NetIdState.next_id
  preload,   \* preload_sessions: who answered, and how many answers are needed
  told,      \* what each client was last sent, per item
  task,      \* what each task is doing
  handled, joins,   \* for the bounds
  abandoned, \* players whose connection has ended without the core being told
  raced,     \* history: items whose last change overlapped something sent about them
  late,      \* history: items added for a player whose connection had ended
  early,     \* history: names added between the two halves of a reset
  lost,      \* history: preloads whose session was dropped or counted wrongly
  misled     \* history: what a connection was sent before it was entered

tables  == <<world, next_id, preload>>
sent    == <<told, misled>>
history == <<raced, late, early, lost>>
bounds  == <<handled, joins, abandoned>>
vars    == <<live, known, tables, sent, task, bounds, history>>

\* Where a leave can be
LeavePC == {"disown", "unshare", "unwatch", "forget", "unpreload", "is_empty", "list_ids",
            "reset_resources", "reset_names", "reset_counter", "reset_tables", "recycle"}

\* The tables in the order in which they are replayed
Stage == <<Name, Resource, Object, Sphere, Peer>>

Job(p, pc, i, v) == [peer |-> p, pc |-> pc, item |-> i, val |-> v, stage |-> 0, out |-> {}]
Idle             == Job(None, "idle", None, None)

\* A message that is on its way to the players in left
Message(kind, i, v, left) == [kind |-> kind, item |-> i, val |-> v, left |-> left]
Broadcast(i, v)           == {Message("set", i, v, Peer)}
BroadcastExcept(p, i, v)  == {Message("set", i, v, Peer \ {p})}
Reply(p, i, v)            == {Message("reply", i, v, {p})}
Spawn(r)                  == {Message("spawn", r, None, Peer)}

Init ==
  /\ live = {} /\ known = {}
  /\ world = [i \in Item |-> None]
  /\ next_id = 0
  /\ preload = [r \in Resource |-> None]
  /\ told = [p \in Peer |-> [i \in Item |-> None]]
  /\ task = [t \in Task |-> Idle]
  /\ handled = 0 /\ joins = 0 /\ abandoned = {}
  /\ raced = {} /\ late = {} /\ early = {} /\ lost = {} /\ misled = {}

\* A step of a handler: it is there, and all it had to send is sent.
At(t, pc)        == task[t].pc = pc /\ task[t].out = {}
Goto(t, pc, out) ==
  task' = [task EXCEPT ![t] = IF pc = "done" /\ out = {} THEN Idle
                              ELSE [@ EXCEPT !.pc = pc, !.out = out]]
Present(S)       == {i \in S : world[i] # None}

\* Something another task still sends was read before this change of i, or a name is
\* added that existed when it was looked up, so that only the asking player hears of it.
Overtaken(t, i) ==
  \/ task[t].pc = "add_or_find" /\ task[t].val
  \/ \E u \in Task \ {t} :
    \/ \E m \in task[u].out : m.item = i
    \/ task[u].pc = "send" /\ i \in Stage[task[u].stage] /\ task[u].val[i] # None
    \/ task[u].pc \in {"put_back", "session"} /\ task[u].item = i

Change(t, S, v) ==
  /\ world' = [i \in Item |-> IF i \in S THEN v ELSE world[i]]
  /\ raced' = (raced \ S) \cup {i \in S : Overtaken(t, i)}

\* An item is added for a player, or given to it
TakenBy(p, i) == late' = IF p \in live THEN late \ {i} ELSE late \cup {i}

Take(t, i, v) == Change(t, {i}, v) /\ TakenBy(task[t].peer, i)

\* The same when not all players are told
TakeQuietly(t, i, v) ==
  /\ world' = [world EXCEPT ![i] = v]
  /\ raced' = raced \cup {j \in {i} : Overtaken(t, i)}
  /\ TakenBy(task[t].peer, i)

-----------------------------------------------------------------------------
(* ServerState::broadcast visits the players one by one and sends to those  *)
(* in authenticated_peers; what is sent to a peer without a connection goes *)
(* nowhere. The channel of all these messages is reliable and ordered.      *)

Heard(q, m) ==
  IF m.kind # "spawn" THEN m.val
  ELSE IF told[q][m.item] = None THEN None ELSE [told[q][m.item] EXCEPT !.preload = FALSE]

\* A task of an earlier connection of the player may tell it something before it is
\* entered; what is broadcast about that then does not reach it.
Telling(q, S) == misled' = IF q \in known THEN misled \ ({q} \X S) ELSE misled \cup ({q} \X S)

Visit(t, q, m) ==
  /\ m \in task[t].out /\ q \in m.left
  /\ Goto(t, task[t].pc, (task[t].out \ {m})
             \cup (IF m.left = {q} THEN {} ELSE {[m EXCEPT !.left = @ \ {q}]}))
  /\ IF q \in live /\ (q \in known \/ m.kind = "reply")
       THEN /\ told' = [told EXCEPT ![q][m.item] = Heard(q, m)]
            /\ Telling(q, {i \in {m.item} : m.kind # "spawn"})
       ELSE UNCHANGED sent
  /\ UNCHANGED <<live, known, tables, bounds, history>>

-----------------------------------------------------------------------------
(* handle_message: a task per message, whenever the runtime gets to it. The *)
(* message is read from a connection, entered or not.                       *)

Receive(t, p, pc, i, v) ==
  /\ task[t] = Idle /\ p \in live /\ handled < MaxRequests
  /\ task' = [task EXCEPT ![t] = Job(p, pc, i, v)]
  /\ handled' = handled + 1
  /\ UNCHANGED <<live, known, tables, sent, joins, abandoned, history>>

\* A client answers a preload that it was told of.
Waiting(p, r) == told[p][r] # None /\ told[p][r].preload

Request(t, p) ==
  \/ \E i \in Name : Receive(t, p, "net_id", i, None)
  \/ \E i \in Resource, v \in LoadKind : Receive(t, p, "load", i, v)
  \/ \E i \in Resource : Receive(t, p, "unload", i, None)
  \/ \E i \in Resource : Waiting(p, i) /\ Receive(t, p, "preload_ready", i, None)
  \/ \E i \in Object, pc \in {"get_owner", "change_owner", "remove_owner"} :
       Receive(t, p, pc, i, None)
  \/ \E i \in Sphere, pc \in {"share", "share_cleanup"} : Receive(t, p, pc, i, None)
  \/ \E v \in {"on", "off"} : Receive(t, p, "camera", p, v)

\* NET_ID_ASSIGN: net_ids.all() tells whether the name is there, for the choice
\* between an answer and a broadcast; then add_or_find.
NetIdExisted(t) ==
  /\ At(t, "net_id")
  /\ task' = [task EXCEPT ![t].pc = "add_or_find", ![t].val = world[task[t].item] # None]
  /\ UNCHANGED <<live, known, tables, sent, bounds, history>>

Assign(t, answer, next) ==
  /\ At(t, "add_or_find")
  /\ LET n  == task[t].item
         id == IF world[n] = None THEN next_id ELSE world[n] IN
       /\ Goto(t, "done", IF answer THEN Reply(task[t].peer, n, id) ELSE Broadcast(n, id))
       /\ IF world[n] # None THEN UNCHANGED <<world, next_id, raced, late, early>>
          ELSE /\ Take(t, n, id)
               /\ next_id' = next
               /\ early' = IF \E u \in Task : task[u].pc = "reset_counter"
                             THEN early \cup {n} ELSE early
  /\ UNCHANGED <<live, known, preload, sent, bounds, lost>>

\* Mutants: the counter does not wrap; it does not move; the others are not told.
AddOrFindUnwrapped(t) == Assign(t, task[t].val, next_id + 1)
AddOrFindSame(t)      == Assign(t, task[t].val, next_id)
AddOrFindAnswers(t)   == Assign(t, TRUE, (next_id + 1) % IdSpace)

AddOrFind(t) == Assign(t, task[t].val, (next_id + 1) % IdSpace)

\* LOAD_RESOURCE: only for an authenticated player and when the scene is not locked
\* (a refused request changes nothing).
Load(t) ==
  /\ At(t, "load")
  /\ Goto(t, IF task[t].peer \notin known THEN "done"
             ELSE IF task[t].val.preload THEN "collect" ELSE "load_resource", {})
  /\ UNCHANGED <<live, known, tables, sent, bounds, history>>

\* For a preload the players are collected first. (The iteration may miss, or see, those
\* that come and go meanwhile: a number that differs from theirs at InsertSession is lost.)
CollectPeers(t) ==
  /\ At(t, "collect")
  /\ task' = [task EXCEPT ![t].pc = "load_resource", ![t].stage = Cardinality(known)]
  /\ UNCHANGED <<live, known, tables, sent, bounds, history>>

\* load_resource, of which start_preload makes the session under another lock
LoadResource(t) ==
  /\ At(t, "load_resource")
  /\ LET r == task[t].item
         k == task[t].val IN
       \/ world[r] # None /\ Goto(t, "done", {}) /\ UNCHANGED <<world, raced, late>>
       \/ world[r] = None /\ k.preload /\ Goto(t, "session", {}) /\ Take(t, r, k)
       \/ world[r] = None /\ ~k.preload /\ Goto(t, "done", Broadcast(r, k)) /\ Take(t, r, k)
  /\ UNCHANGED <<live, known, next_id, preload, sent, bounds, early, lost>>

InsertSession(t) ==
  /\ At(t, "session")
  /\ LET r == task[t].item IN
       /\ preload' = [preload EXCEPT ![r] = [answered |-> {}, total |-> task[t].stage]]
       /\ lost' = IF task[t].stage = Cardinality(known) THEN lost \ {r} ELSE lost \cup {r}
       /\ Goto(t, "done", Broadcast(r, task[t].val))
  /\ UNCHANGED <<live, known, world, next_id, sent, bounds, raced, late, early>>

\* UNLOAD_RESOURCE: the session goes first, then the resource; one that is locked is
\* put back when the player has no PROTECTION permission (any player may have it or
\* not), and its session stays away.
Unload(t) ==
  /\ At(t, "unload")
  /\ LET r == task[t].item IN
       /\ preload' = [preload EXCEPT ![r] = None]
       /\ lost' = IF preload[r] # None THEN lost \cup {r} ELSE lost
  /\ Goto(t, "remove", {})
  /\ UNCHANGED <<live, known, world, next_id, sent, bounds, raced, late, early>>

RemoveResource(t) ==
  /\ At(t, "remove")
  /\ LET r == task[t].item IN
       \/ /\ world[r] = None
          /\ Goto(t, "done", {})
          /\ UNCHANGED <<world, raced>>
       \/ /\ world[r] # None /\ world[r].locked
          /\ task' = [task EXCEPT ![t].pc = "put_back", ![t].val = world[r]]
          /\ world' = [world EXCEPT ![r] = None]
          /\ UNCHANGED raced
       \/ /\ world[r] # None /\ (world[r].locked => task[t].peer \in known)
          /\ Goto(t, "done", Broadcast(r, None))
          /\ Change(t, {r}, None)
  /\ UNCHANGED <<live, known, next_id, preload, sent, bounds, late, early, lost>>

PutBack(t) ==
  /\ At(t, "put_back")
  /\ LET r == task[t].item IN
       IF world[r] = None
         THEN /\ world' = [world EXCEPT ![r] = task[t].val]
              /\ late' = IF task[t].peer \in live THEN late ELSE late \cup {r}
         ELSE UNCHANGED <<world, late>>
  /\ Goto(t, "done", {})
  /\ UNCHANGED <<live, known, next_id, preload, sent, bounds, raced, early, lost>>

\* The order to spawn may reach a client before the order to preload.
SpawnRace(t, S) == raced' = raced \cup {r \in S : Overtaken(t, r)}

\* PRELOAD_READY: mark_preload_ready (whether the client could load it or not)
MarkReady(t) ==
  /\ At(t, "preload_ready")
  /\ LET r == task[t].item
         answered == preload[r].answered \cup {task[t].peer} IN
       \/ /\ preload[r] = None
          /\ Goto(t, "done", {})
          /\ UNCHANGED <<preload, raced>>
       \/ /\ preload[r] # None /\ Cardinality(answered) < preload[r].total
          /\ Goto(t, "done", {})
          /\ preload' = [preload EXCEPT ![r].answered = answered]
          /\ UNCHANGED raced
       \/ /\ preload[r] # None /\ Cardinality(answered) >= preload[r].total
          /\ Goto(t, "scenes", {})
          /\ preload' = [preload EXCEPT ![r] = None]
          /\ SpawnRace(t, {r})
  /\ UNCHANGED <<live, known, world, next_id, sent, bounds, late, early, lost>>

\* all_resources: is it a scene?
FindScene(t) ==
  /\ At(t, "scenes")
  /\ LET r == task[t].item IN
       Goto(t, IF world[r] # None /\ world[r].scene THEN "list_scenes" ELSE "spawn", {})
  /\ UNCHANGED <<live, known, tables, sent, bounds, history>>

\* all_scene_unloads and reset_non_persistent list ids under the lock, and take it anew
\* to remove what has them then.
List(t, pc, then, S) ==
  /\ At(t, pc)
  /\ task' = [task EXCEPT ![t].pc = then, ![t].val = S]
  /\ UNCHANGED <<live, known, tables, sent, bounds, history>>

RemoveListed(t, pc, then) ==
  /\ At(t, pc)
  /\ LET S == task[t].val \cap Present(Resource) IN
       /\ Change(t, S, None)
       /\ task' = [task EXCEPT ![t].pc = then, ![t].val = None,
                              ![t].out = UNION {Broadcast(r, None) : r \in S}]
  /\ UNCHANGED <<live, known, next_id, preload, sent, bounds, late, early, lost>>

\* The new scene is one of those that are unloaded.
ListScenes(t)   ==
  List(t, "list_scenes", "unload_scenes", {s \in Present(Resource) : world[s].scene})
UnloadScenes(t) == RemoveListed(t, "unload_scenes", "spawn")

SpawnPreloaded(t) ==
  /\ At(t, "spawn")
  /\ Goto(t, "done", Spawn(task[t].item))
  /\ UNCHANGED <<live, known, tables, sent, bounds, history>>

\* GET_CURRENT_OWNER_REQUEST: request_new_or_existing; only the asking player hears it.
GetOwner(t) ==
  /\ At(t, "get_owner")
  /\ LET o == task[t].item
         p == task[t].peer IN
       \/ /\ world[o] = None
          /\ Goto(t, "done", Reply(p, o, p))
          /\ TakeQuietly(t, o, p)
       \/ /\ world[o] # None
          /\ Goto(t, "done", Reply(p, o, world[o]))
          /\ UNCHANGED <<world, raced, late>>
  /\ UNCHANGED <<live, known, next_id, preload, sent, bounds, early, lost>>

\* CHANGE_CURRENT_OWNER_REQUEST: switch_ownership
ChangeOwner(t) ==
  /\ At(t, "change_owner")
  /\ Goto(t, "done", Broadcast(task[t].item, task[t].peer))
  /\ Take(t, task[t].item, task[t].peer)
  /\ UNCHANGED <<live, known, next_id, preload, sent, bounds, early, lost>>

\* REMOVE_CURRENT_OWNER_REQUEST: remove_if_owner
RemoveOwner(t) ==
  /\ At(t, "remove_owner")
  /\ LET o == task[t].item IN
       IF world[o] = task[t].peer
         THEN Goto(t, "done", Broadcast(o, None)) /\ Change(t, {o}, None)
         ELSE Goto(t, "done", {}) /\ UNCHANGED <<world, raced>>
  /\ UNCHANGED <<live, known, next_id, preload, sent, bounds, late, early, lost>>

\* CONTENT_SHARE: the first one to share a sphere keeps it.
Share(t) ==
  /\ At(t, "share")
  /\ LET s == task[t].item
         p == task[t].peer IN
       IF p \in known /\ world[s] = None
         THEN Goto(t, "done", Broadcast(s, p)) /\ Take(t, s, p)
         ELSE Goto(t, "done", {}) /\ UNCHANGED <<world, raced, late>>
  /\ UNCHANGED <<live, known, next_id, preload, sent, bounds, early, lost>>

\* CONTENT_SHARE_CLEANUP: anyone may take it away.
ShareCleanup(t) ==
  /\ At(t, "share_cleanup")
  /\ LET s == task[t].item IN
       IF world[s] # None
         THEN Goto(t, "done", Broadcast(s, None)) /\ Change(t, {s}, None)
         ELSE Goto(t, "done", {}) /\ UNCHANGED <<world, raced>>
  /\ UNCHANGED <<live, known, next_id, preload, sent, bounds, late, early, lost>>

\* CAMERA_PIP_STATE: PipState::state_change keeps an entry that is switched off.
CameraState(t) ==
  /\ At(t, "camera")
  /\ LET p == task[t].peer
         v == task[t].val IN
       /\ Goto(t, "done", BroadcastExcept(p, p, v))
       /\ IF v = "on" \/ world[p] # None THEN Take(t, p, v)
          ELSE UNCHANGED <<world, raced, late>>
  /\ UNCHANGED <<live, known, next_id, preload, sent, bounds, early, lost>>

Handle(t) ==
  \/ NetIdExisted(t) \/ AddOrFind(t)
  \/ Load(t) \/ CollectPeers(t) \/ LoadResource(t) \/ InsertSession(t)
  \/ Unload(t) \/ RemoveResource(t) \/ PutBack(t)
  \/ MarkReady(t) \/ FindScene(t) \/ ListScenes(t) \/ UnloadScenes(t) \/ SpawnPreloaded(t)
  \/ GetOwner(t) \/ ChangeOwner(t) \/ RemoveOwner(t)
  \/ Share(t) \/ ShareCleanup(t) \/ CameraState(t)

-----------------------------------------------------------------------------
(* A join: finalize_accept, then replay_late_join_state                     *)

Connect(t, p) ==
  /\ task[t] = Idle /\ p \notin live \cup abandoned /\ joins < MaxJoins
  /\ \A u \in Task : ~(task[u].peer = p /\ task[u].pc \in LeavePC)
  /\ live' = live \cup {p}
  /\ joins' = joins + 1
  /\ task' = [task EXCEPT ![t] = Job(p, "insert", None, None)]
  /\ UNCHANGED <<known, tables, sent, handled, abandoned, history>>

Insert(t) ==
  /\ At(t, "insert")
  /\ known' = known \cup {task[t].peer}
  /\ task' = [task EXCEPT ![t].pc = "read", ![t].stage = 1]
  /\ UNCHANGED <<live, tables, sent, bounds, history>>

\* What is replayed of an item: a camera only while it is on, a preload as a load
Replayed(i) ==
  IF i \in Peer THEN IF world[i] = "on" THEN "on" ELSE None
  ELSE IF i \in Resource /\ world[i] # None THEN [world[i] EXCEPT !.preload = FALSE]
  ELSE world[i]

NextTable(t) ==
  task' = IF task[t].stage = Len(Stage) THEN [task EXCEPT ![t] = Idle]
          ELSE [task EXCEPT ![t].pc = "read", ![t].val = None, ![t].stage = @ + 1]

ReadTable(t) ==
  /\ At(t, "read")
  /\ LET S == Stage[task[t].stage] IN
       /\ IF \A i \in S : Replayed(i) = None THEN NextTable(t)
          ELSE task' = [task EXCEPT ![t].pc = "send", ![t].val = [i \in S |-> Replayed(i)]]
       /\ raced' = raced \cup {i \in S : \E u \in Task :
                                  task[u].pc = "put_back" /\ task[u].item = i}
  /\ UNCHANGED <<live, known, tables, sent, bounds, late, early, lost>>

SendTable(t) ==
  /\ At(t, "send")
  /\ LET p == task[t].peer
         S == {i \in Stage[task[t].stage] : task[t].val[i] # None} IN
       IF p \in live
         THEN /\ told' = [told EXCEPT ![p] = [i \in Item |-> IF i \in S THEN task[t].val[i] ELSE @[i]]]
              /\ Telling(p, S)
         ELSE UNCHANGED sent
  /\ NextTable(t)
  /\ UNCHANGED <<live, known, tables, bounds, history>>

JoinStep(t) == Insert(t) \/ ReadTable(t) \/ SendTable(t)

-----------------------------------------------------------------------------
(* A leave: handle_disconnect, for a connection that has ended              *)

End(p) ==
  /\ p \in live
  /\ live' = live \ {p}
  /\ told' = [told EXCEPT ![p] = [i \in Item |-> None]]
  /\ misled' = {x \in misled : x[1] # p}

Close(t, p) ==
  /\ task[t] = Idle /\ End(p)
  /\ task' = [task EXCEPT ![t] = Job(p, "disown", None, None)]
  /\ UNCHANGED <<known, tables, bounds, history>>

\* A kick or a ban (disconnect), or a ShutdownOk that cannot be sent: the connection ends
\* and the core is not told, so that no leave runs and the player stays in
\* authenticated_peers. Its id is retired for good: it does not connect again. (It is
\* counted as a message, as a kick is.)
CutOff(p) ==
  /\ End(p) /\ handled < MaxRequests
  /\ abandoned' = abandoned \cup {p}
  /\ handled' = handled + 1
  /\ UNCHANGED <<known, tables, task, joins, history>>

\* ownership, content_share and pip: remove_player, and a broadcast of each item
TakeAway(t, pc, then, S, v) ==
  /\ At(t, pc)
  /\ Change(t, S, None)
  /\ Goto(t, then, UNION {BroadcastExcept(task[t].peer, i, v) : i \in S})
  /\ UNCHANGED <<live, known, next_id, preload, sent, bounds, late, early, lost>>

Disown(t)  == TakeAway(t, "disown", "unshare", {o \in Object : world[o] = task[t].peer}, None)

\* Mutant: the spheres of the player stay.
UnshareNothing(t) == TakeAway(t, "unshare", "unwatch", {}, None)

Unshare(t) == TakeAway(t, "unshare", "unwatch", {s \in Sphere : world[s] = task[t].peer}, None)

RemoveCamera(t) ==
  /\ At(t, "unwatch")
  /\ LET p == task[t].peer IN
       /\ world' = [world EXCEPT ![p] = None]
       /\ raced' = IF world[p] # "on" THEN raced
                   ELSE IF Overtaken(t, p) THEN raced \cup {p} ELSE raced \ {p}
       /\ Goto(t, "forget", IF world[p] = "on" THEN BroadcastExcept(p, p, "off") ELSE {})
  /\ UNCHANGED <<live, known, next_id, preload, sent, bounds, late, early, lost>>

RemovePeer(t) ==
  /\ At(t, "forget")
  /\ known' = known \ {task[t].peer}
  /\ Goto(t, IF task[t].peer \in known THEN "unpreload" ELSE "recycle", {})
  /\ UNCHANGED <<live, tables, sent, bounds, history>>

\* remove_preload_peer: every session expects one answer less, whether or not the
\* player was there when it started.
Leaving(t, fewer) ==
  /\ At(t, "unpreload")
  /\ LET left(r)  == preload[r].answered \ {task[t].peer}
         total(r) == IF preload[r].total <= fewer THEN 0 ELSE preload[r].total - fewer
         sessions == {r \in Resource : preload[r] # None}
         complete == {r \in sessions : Cardinality(left(r)) >= total(r)} IN
       /\ preload' = [r \in Resource |->
            IF r \in complete \/ r \notin sessions THEN None
            ELSE [answered |-> left(r), total |-> total(r)]]
       /\ Goto(t, "is_empty", UNION {Spawn(r) : r \in complete})
       /\ SpawnRace(t, complete)
  /\ UNCHANGED <<live, known, world, next_id, sent, bounds, late, early, lost>>

\* Mutant: as many answers are expected as before.
RemovePreloadPeerKeepsTotal(t) == Leaving(t, 0)

RemovePreloadPeer(t) == Leaving(t, 1)

\* The last player resets the scene: reset_non_persistent, then each table.
IsEmpty(t) ==
  /\ At(t, "is_empty")
  /\ Goto(t, IF known = {} THEN "list_ids" ELSE "recycle", {})
  /\ UNCHANGED <<live, known, tables, sent, bounds, history>>

ListTransient(t)  ==
  List(t, "list_ids", "reset_resources", {r \in Present(Resource) : ~world[r].persist})
ResetResources(t) == RemoveListed(t, "reset_resources", "reset_names")

\* A reset tells nobody.
Clear(t, S) ==
  /\ world' = [i \in Item |-> IF i \in S THEN None ELSE world[i]]
  /\ raced' = raced \cup {i \in Present(S) : known # {} \/ Overtaken(t, i)}

ResetBy(t, S) ==
  /\ At(t, "reset_names")
  /\ Clear(t, S)
  /\ early' = {}
  /\ Goto(t, "reset_counter", {})
  /\ UNCHANGED <<live, known, next_id, preload, sent, bounds, late, lost>>

\* Mutant: only the counter is reset.
ResetNamesKept(t) == ResetBy(t, {})

ResetNames(t) == ResetBy(t, Name)

\* Three tables, each under its own lock: no handler looks at two of them.
ResetTables(t) ==
  /\ At(t, "reset_tables")
  /\ Clear(t, Object \cup Sphere \cup Peer)
  /\ Goto(t, "recycle", {})
  /\ UNCHANGED <<live, known, next_id, preload, sent, bounds, late, early, lost>>

ResetCounter(t) ==
  /\ At(t, "reset_counter")
  /\ next_id' = 0
  /\ Goto(t, "reset_tables", {})
  /\ UNCHANGED <<live, known, world, preload, sent, bounds, history>>

\* recycle_peer_id: the id may stand for the next connection.
Recycle(t) ==
  /\ At(t, "recycle")
  /\ task' = [task EXCEPT ![t] = Idle]
  /\ UNCHANGED <<live, known, tables, sent, bounds, history>>

LeaveStep(t) ==
  \/ Disown(t) \/ Unshare(t) \/ RemoveCamera(t) \/ RemovePeer(t) \/ RemovePreloadPeer(t)
  \/ IsEmpty(t) \/ ListTransient(t) \/ ResetResources(t) \/ ResetNames(t) \/ ResetCounter(t)
  \/ ResetTables(t) \/ Recycle(t)

Next ==
  \/ \E p \in Peer : CutOff(p)
  \/ \E t \in Task :
       \/ \E p \in Peer : Request(t, p) \/ Connect(t, p) \/ Close(t, p)
       \/ \E q \in Peer, m \in task[t].out : Visit(t, q, m)
       \/ Handle(t) \/ JoinStep(t) \/ LeaveStep(t)

Spec == Init /\ [][Next]_vars

-----------------------------------------------------------------------------
Quiet == \A t \in Task : task[t] = Idle

PC == {"idle", "done", "net_id", "add_or_find", "load", "collect", "load_resource", "session",
       "unload", "remove", "put_back", "preload_ready", "scenes", "list_scenes", "unload_scenes",
       "spawn", "get_owner", "change_owner", "remove_owner", "share", "share_cleanup", "camera",
       "insert", "read", "send"} \cup LeavePC

SceneTypeOK ==
  /\ live \subseteq Peer /\ known \subseteq Peer /\ abandoned \subseteq Peer \ live
  /\ \A i \in Item : world[i] # None =>
       /\ i \in Name => world[i] \in NetId
       /\ i \in Resource => world[i] \in LoadKind
       /\ i \in Object \cup Sphere => world[i] \in Peer
       /\ i \in Peer => world[i] \in {"on", "off"}
  /\ next_id \in NetId
  /\ \A r \in Resource : preload[r] # None => preload[r] \in Session
  /\ \A t \in Task :
       /\ task[t].pc \in PC /\ task[t].peer \in Peer \cup {None}
       /\ task[t].pc = "idle" <=> task[t] = Idle
       /\ \A m \in task[t].out : m.item \in Item /\ m.left \in (SUBSET Peer) \ {{}}

(* Two names never share a net id, unless one of them came between the two   *)
(* halves of NetIdState::reset (with fewer names than there are ids).        *)
NamesDistinct ==
  \A m, n \in Name : world[m] # None /\ world[m] = world[n] /\ m # n => early \cap {m, n} # {}

\* What a client was told of an item is what the table holds. An owner is told to the
\* player that asks; the others learn of it when they ask.
Agrees(p, i) ==
  IF i \in Object THEN told[p][i] \in {None, world[i]}
  ELSE IF i \in Peer THEN i = p \/ (told[p][i] = "on" <=> world[i] = "on")
  ELSE IF i \in Resource THEN
         IF world[i] = None \/ told[p][i] = None THEN told[p][i] = world[i]
         ELSE [told[p][i] EXCEPT !.preload = FALSE] = [world[i] EXCEPT !.preload = FALSE]
  ELSE told[p][i] = world[i]

(* When the tasks are done, every client was told what the tables hold, but  *)
(* for items that changed while something older about them was still to be   *)
(* sent, or that a client was told of by the tasks of the connection before   *)
(* its own: whatever the order of joins, leaves, requests and broadcasts.    *)
ClientsAgree ==
  Quiet => \A p \in known \cap live, i \in Item \ raced : <<p, i>> \in misled \/ Agrees(p, i)

(* Objects, spheres and cameras of a player that is gone are taken back,     *)
(* unless the player took them in a message handled after its connection, or *)
(* was cut off: what it had then stays, as nothing cleans up after it.       *)
NoOrphans ==
  Quiet => \A p \in Peer \ (live \cup abandoned) :
    /\ \A i \in (Object \cup Sphere) \ late : world[i] # p
    /\ world[p] = None \/ p \in late

(* A client that was told to preload is told to spawn when the others have   *)
(* answered or left: it never waits for nobody, unless the session was lost  *)
(* (a refused unload) or counted players that were gone when it started. Of   *)
(* a player that was cut off the server does not know that it has left.      *)
NoneWaitsForNobody ==
  Quiet => \A p \in known, r \in Resource \ (raced \cup lost) :
    Waiting(p, r) => preload[r] # None /\ ~(known \subseteq preload[r].answered)

(* When the last player has left, nothing of the scene is left but resources *)
(* that persist, and what late messages and racing joins left behind. (A     *)
(* player that left before it was inserted, or was cut off, keeps the server  *)
(* from being empty, which PeerSession shows.)                               *)
EmptyWhenAlone ==
  Quiet /\ live = {} /\ known = {} => \A i \in Present(Item) \ (late \cup raced) :
    i \in Resource /\ world[i].persist
=============================================================================
