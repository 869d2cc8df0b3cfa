------------------------- MODULE SharedSceneProofs -------------------------
(****************************************************************************)
(* Proofs about SharedScene, for every set of players, tasks and items, and *)
(* every number of net ids, requests and joins.                             *)
(****************************************************************************)
EXTENDS SharedScene, FiniteSetTheorems, TLAPS

-----------------------------------------------------------------------------
(* The types *)

\* What the tables can hold for an item
Holds(i) ==
  IF i \in Name THEN NetId
  ELSE IF i \in Resource THEN ResourceKind
  ELSE IF i \in Object \cup Sphere THEN Peer
  ELSE {"on", "off"}

Content  == NetId \cup ResourceKind \cup Peer \cup {"on", "off", None}
Values   == Content \cup BOOLEAN \cup (SUBSET Resource)
              \cup UNION {[Stage[k] -> Content] : k \in 1 .. 5}
Messages == [kind : {"set", "reply", "spawn"}, item : Item, val : Content,
             left : (SUBSET Peer) \ {{}}]
Tasks    == [peer : Peer \cup {None}, pc : PC, item : Item \cup {None}, val : Values,
             stage : Nat, out : SUBSET Messages]

NamePC     == {"net_id", "add_or_find"}
ResourcePC == {"load", "collect", "load_resource", "session", "unload", "remove", "put_back",
               "preload_ready", "scenes", "list_scenes", "unload_scenes", "spawn"}
RemovalPC  == {"unload_scenes", "reset_resources"}
ObjectPC   == {"get_owner", "change_owner", "remove_owner"}
SpherePC   == {"share", "share_cleanup"}

MessageWell(m) ==
  /\ m.item \in Resource => m.kind # "reply"
  /\ m.kind = "spawn" => m.item \in Resource
  /\ m.kind # "spawn" => m.val \in Holds(m.item) \cup {None}

TaskWell(j) ==
  /\ j.pc = "idle" => j = Idle
  /\ j.pc # "idle" => j.peer \in Peer
  /\ j.pc = "done" => j.out # {}
  /\ j.pc \in NamePC => j.item \in Name
  /\ j.pc \in ResourcePC => j.item \in Resource
  /\ j.pc \in ObjectPC => j.item \in Object
  /\ j.pc \in SpherePC => j.item \in Sphere
  /\ j.pc = "camera" => j.item = j.peer /\ j.val \in {"on", "off"}
  /\ j.pc \in {"load", "collect", "load_resource", "session", "put_back"} => j.val \in LoadKind
  /\ j.pc \in {"collect", "session"} => j.val.preload
  /\ j.pc \in {"load_resource", "session"} =>
       (j.val.preload => j.stage \in 0 .. Cardinality(Peer))
  /\ j.pc \in RemovalPC => j.val \in SUBSET Resource
  /\ j.pc \in {"read", "send"} => j.stage \in 1 .. 5
  /\ j.pc = "send" =>
       /\ j.val \in [Stage[j.stage] -> Content]
       /\ \A i \in Stage[j.stage] : j.val[i] \in Holds(i) \cup {None}
       /\ \A i \in Stage[j.stage] \cap Resource : j.val[i] # None => ~j.val[i].preload
  /\ \A m \in j.out : MessageWell(m)

WorldWell ==
  /\ world \in [Item -> Content] /\ \A i \in Item : world[i] \in Holds(i) \cup {None}
  /\ \A r \in Resource : world[r] # None => world[r] \in LoadKind

TablesWell ==
  /\ live \subseteq Peer /\ known \subseteq Peer /\ abandoned \subseteq Peer \ live
  /\ next_id \in NetId
  /\ preload \in [Resource -> Session \cup {None}]
  /\ told \in [Peer -> [Item -> Content]]
  /\ \A p \in Peer, i \in Item : told[p][i] \in Holds(i) \cup {None}

TasksWell == task \in [Task -> Tasks] /\ \A t \in Task : TaskWell(task[t])

TypeInv == TablesWell /\ WorldWell /\ TasksWell

-----------------------------------------------------------------------------
(* Joins and leaves *)

\* A leave is of a player without a connection, and a connection that is not entered is
\* about to be.
LeavesGone   == \A t \in Task : task[t].pc \in LeavePC => task[t].peer \notin live
Entering(p)  == \E t \in Task : task[t].pc = "insert" /\ task[t].peer = p
JoinsGoOn    == \A p \in live \ known : Entering(p)

-----------------------------------------------------------------------------
(* The names *)

Resetting == \E t \in Task : task[t].pc = "reset_counter"
Fresh     == {n \in Name : world[n] # None /\ n \notin early}

\* The names that were added since the counter was reset have the first ids.
NamesInv ==
  /\ early \subseteq {n \in Name : world[n] # None}
  /\ Resetting => Fresh = {}
  /\ \A m, n \in Fresh : world[m] = world[n] => m = n
  /\ ~Resetting => \/ /\ Cardinality(Fresh) = next_id
                      /\ \A n \in Fresh : world[n] < next_id
                   \/ Cardinality(Fresh) = IdSpace

-----------------------------------------------------------------------------
(* What a player leaves behind *)

ToClean(p, pcs) == \E t \in Task : task[t].peer = p /\ task[t].pc \in pcs

\* Its connection has ended and the core was told.
Gone == Peer \ (live \cup abandoned)

OrphansInv ==
  /\ \A i \in Object : \A p \in Gone : world[i] = p => i \in late \/ ToClean(p, {"disown"})
  /\ \A i \in Sphere : \A p \in Gone :
       world[i] = p => i \in late \/ ToClean(p, {"disown", "unshare"})
  /\ \A p \in Gone :
       world[p] # None => p \in late \/ ToClean(p, {"disown", "unshare", "unwatch"})

\* A leave that has done job j so far goes on to reset the table of i.
Resets(j, i) ==
  \/ j.pc \in {"unpreload", "is_empty", "list_ids"}
  \/ j.pc = "reset_resources" /\ (i \in Resource => i \in j.val)
  \/ j.pc = "reset_names" /\ i \notin Resource
  \/ j.pc \in {"reset_counter", "reset_tables"} /\ i \notin Resource \cup Name

ToReset(i) == \E t \in Task : Resets(task[t], i)

ResetInv ==
  known = {} => \A i \in Item \ (late \cup raced) :
    world[i] # None /\ ~(i \in Resource /\ world[i].persist)
    => ToReset(i) \/ \E p \in Peer : Entering(p)

-----------------------------------------------------------------------------
(* Preloads *)

Unpreloading == {t \in Task : task[t].pc = "unpreload"}

SessionsInv ==
  \A r \in Resource : preload[r] # None =>
    /\ preload[r].answered = {} \/ Cardinality(preload[r].answered) < preload[r].total
    /\ r \notin lost => preload[r].total <= Cardinality(known) + Cardinality(Unpreloading)

Inserting(r) == \E t \in Task : task[t].pc = "session" /\ task[t].item = r
SpawnPC      == {"scenes", "list_scenes", "unload_scenes", "spawn"}
Spawning(r)  == \E t \in Task : task[t].pc \in SpawnPC /\ task[t].item = r

\* Something on its way to p about r that ends the wait.
Release(p, r) ==
  \E t \in Task : \E m \in task[t].out :
    /\ m.item = r /\ p \in m.left
    /\ m.kind = "spawn" \/ m.val = None \/ ~m.val.preload

\* Something holds or ends the wait of p.
Ends(p, r) == preload[r] # None \/ Inserting(r) \/ Spawning(r) \/ Release(p, r)

\* An order to wait
Orders(m, r) == m.item = r /\ m.kind = "set" /\ m.val # None /\ m.val.preload

Awaits(r) ==
  /\ \A p \in Peer : Waiting(p, r) => Ends(p, r)
  /\ \A t \in Task : \A m \in task[t].out : Orders(m, r) => preload[r] # None

WaitInv ==
  /\ \A p \in Peer, r \in Resource : Waiting(p, r) => p \in live \cap known
  /\ \A r \in Resource \ (raced \cup lost) : Awaits(r)

-----------------------------------------------------------------------------
(* Clients and tables *)

\* The tasks that took a locked resource out and put it back
PuttingBack(i) == {t \in Task : task[t].pc = "put_back" /\ task[t].item = i}

\* v says of i what w says
Same(i, v, w) ==
  IF i \in Peer THEN v = "on" <=> w = "on"
  ELSE IF i \in Resource THEN
    IF v = None \/ w = None THEN v = w
    ELSE [v EXCEPT !.preload = FALSE] = [w EXCEPT !.preload = FALSE]
  ELSE v = w

\* v says of i what the tables hold, or will once it is put back
True(i, v) ==
  /\ \A t \in PuttingBack(i) : Same(i, v, task[t].val)
  /\ PuttingBack(i) = {} => Same(i, v, world[i])

\* What a client was told of i is true, but that it need not know of an owner
Knows(p, i) == i = p \/ True(i, told[p][i]) \/ (i \in Object /\ told[p][i] = None)

Coming(p, i) ==
  \E t \in Task : \E m \in task[t].out : m.item = i /\ m.kind # "spawn" /\ p \in m.left

\* The replay of p has yet to come to i.
ToReplay(p, i) ==
  \E t \in Task : task[t].peer = p /\
    \/ task[t].pc = "insert"
    \/ task[t].pc = "read" /\ \E k \in task[t].stage .. 5 : i \in Stage[k]
    \/ task[t].pc = "send" /\ \E k \in (task[t].stage + 1) .. 5 : i \in Stage[k]
    \/ task[t].pc = "send" /\ i \in Stage[task[t].stage] /\ task[t].val[i] # None

\* One task at a time has taken i out.
PutBackOnce(i) ==
  \A t \in PuttingBack(i) : world[i] = None /\ \A u \in PuttingBack(i) : u = t

\* What is on its way about i is true.
SaidTrue(i) ==
  \A t \in Task :
    /\ \A m \in task[t].out : m.item = i /\ m.kind # "spawn" => True(i, m.val)
    /\ task[t].pc = "session" /\ task[t].item = i => True(i, task[t].val)
    /\ task[t].pc = "send" /\ i \in Stage[task[t].stage] /\ task[t].val[i] # None =>
         True(i, task[t].val[i])

\* What p was told of i is true, or it is about to be told.
Hears(p, i) ==
  <<p, i>> \in misled \/ Knows(p, i) \/ Coming(p, i) \/ Inserting(i)
  \/ (told[p][i] = None /\ ToReplay(p, i))

Agreed(i) == PutBackOnce(i) /\ SaidTrue(i) /\ \A p \in known \cap live : Hears(p, i)

\* A connection that is not entered was told nothing, or is misled.
NewToldNothing ==
  /\ \A p \in Peer \ live, i \in Item : told[p][i] = None
  /\ \A p \in live \ known, i \in Item : told[p][i] # None => <<p, i>> \in misled

AgreeInv == NewToldNothing /\ \A i \in Item \ raced : Agreed(i)

-----------------------------------------------------------------------------
(* Items, messages and steps of a task *)

LEMMA Stages ==
  /\ Len(Stage) = 5
  /\ Stage[1] = Name /\ Stage[2] = Resource /\ Stage[3] = Object /\ Stage[4] = Sphere
  /\ Stage[5] = Peer
  /\ \A k \in 1 .. 5 : Stage[k] \subseteq Item
  /\ \A i \in Item : \E k \in 1 .. 5 : i \in Stage[k]
<1>1. /\ Len(Stage) = 5
      /\ Stage[1] = Name /\ Stage[2] = Resource /\ Stage[3] = Object /\ Stage[4] = Sphere
      /\ Stage[5] = Peer
  BY DEF Stage
<1>2. \A k \in 1 .. 5 : k = 1 \/ k = 2 \/ k = 3 \/ k = 4 \/ k = 5
  OBVIOUS
<1> HIDE DEF Stage
<1> QED
  BY <1>1, <1>2 DEF Item

\* The kinds of items do not overlap.
LEMMA Kinds ==
  /\ \A i \in Name : i \in Item /\ i \notin Resource /\ i \notin Object /\ i \notin Sphere /\ i \notin Peer
  /\ \A i \in Resource : i \in Item /\ i \notin Name /\ i \notin Object /\ i \notin Sphere /\ i \notin Peer
  /\ \A i \in Object : i \in Item /\ i \notin Name /\ i \notin Resource /\ i \notin Sphere /\ i \notin Peer
  /\ \A i \in Sphere : i \in Item /\ i \notin Name /\ i \notin Resource /\ i \notin Object /\ i \notin Peer
  /\ \A i \in Peer : i \in Item /\ i \notin Name /\ i \notin Resource /\ i \notin Object /\ i \notin Sphere
  BY DistinctAssumption DEF Item

LEMMA HoldsKinds ==
  /\ \A i \in Name : Holds(i) = NetId
  /\ \A i \in Resource : Holds(i) = ResourceKind
  /\ \A i \in Object \cup Sphere : Holds(i) = Peer
  /\ \A i \in Peer : Holds(i) = {"on", "off"}
  /\ \A i \in Item : Holds(i) \cup {None} \subseteq Content /\ None \notin Holds(i)
  BY Kinds, DistinctAssumption DEF Holds, Content

LEMMA NoneIsNothing ==
  /\ None \notin NetId /\ None \notin ResourceKind /\ None \notin LoadKind /\ None \notin Session
  /\ None \notin Peer /\ None # "on" /\ None # "off"
  BY DistinctAssumption, KindAssumption

\* What the handlers send
LEMMA Sends ==
  ASSUME NEW i \in Item, NEW v \in Content, NEW p \in Peer
  PROVE  /\ \A m \in Broadcast(i, v) : /\ m \in Messages /\ m.kind = "set" /\ m.item = i
                                       /\ m.val = v /\ m.left = Peer
         /\ \A m \in BroadcastExcept(p, i, v) : /\ m \in Messages /\ m.kind = "set" /\ m.item = i
                                                /\ m.val = v /\ m.left = Peer \ {p}
         /\ \A m \in Reply(p, i, v) : /\ m \in Messages /\ m.kind = "reply" /\ m.item = i
                                      /\ m.val = v /\ m.left = {p}
         /\ Broadcast(i, v) # {} /\ BroadcastExcept(p, i, v) # {} /\ Reply(p, i, v) # {}
<1>1. Peer # {} /\ Peer \ {p} # {}
  BY PeerAssumption
<1> QED
  BY <1>1 DEF Broadcast, BroadcastExcept, Reply, Message, Messages

LEMMA Spawns ==
  ASSUME NEW i \in Item, Peer # {}
  PROVE  /\ \A m \in Spawn(i) : /\ m \in Messages /\ m.kind = "spawn" /\ m.item = i
                                /\ m.val = None /\ m.left = Peer
         /\ Spawn(i) # {}
  BY DEF Spawn, Message, Messages, Content

LEMMA IdleTask == Idle \in Tasks /\ TaskWell(Idle) /\ Idle.pc = "idle" /\ Idle.out = {}
<1>1. None \in Values
  BY DEF Values, Content
<1> QED
  BY <1>1 DEF Idle, Job, Tasks, TaskWell, PC, LeavePC, NamePC, ResourcePC, RemovalPC, ObjectPC, SpherePC

\* Only the task that takes a step changes.
LEMMA OneTask ==
  ASSUME TypeInv, NEW t \in Task, NEW j, task' = [task EXCEPT ![t] = j]
  PROVE  /\ task'[t] = j /\ \A u \in Task \ {t} : task'[u] = task[u]
         /\ j \in Tasks /\ TaskWell(j) => TasksWell'
  BY DEF TypeInv, TasksWell

LEMMA GotoStep ==
  ASSUME TypeInv, NEW t \in Task, NEW pc \in PC, NEW out \in SUBSET Messages, Goto(t, pc, out)
  PROVE  /\ task' = [task EXCEPT ![t] = task'[t]]
         /\ \A u \in Task \ {t} : task'[u] = task[u]
         /\ pc = "done" /\ out = {} => task'[t] = Idle
         /\ ~(pc = "done" /\ out = {}) =>
              /\ task'[t] \in Tasks
              /\ task'[t].pc = pc /\ task'[t].out = out /\ task'[t].peer = task[t].peer
              /\ task'[t].item = task[t].item /\ task'[t].val = task[t].val
              /\ task'[t].stage = task[t].stage
<1> DEFINE j == IF pc = "done" /\ out = {} THEN Idle ELSE [task[t] EXCEPT !.pc = pc, !.out = out]
<1>1. task' = [task EXCEPT ![t] = j]
  BY DEF Goto
<1>2. task[t] \in Tasks
  BY DEF TypeInv, TasksWell
<1>3. ~(pc = "done" /\ out = {}) =>
        /\ j \in Tasks /\ j.pc = pc /\ j.out = out /\ j.peer = task[t].peer
        /\ j.item = task[t].item /\ j.val = task[t].val /\ j.stage = task[t].stage
  BY <1>2 DEF Tasks
<1>4. task'[t] = j /\ \A u \in Task \ {t} : task'[u] = task[u]
  BY <1>1 DEF TypeInv, TasksWell
<1>5. task' = [task EXCEPT ![t] = task'[t]]
  BY <1>1, <1>4
<1> QED
  BY <1>3, <1>4, <1>5

\* Where a handler goes that keeps what it has looked up
OfResource == {"remove", "collect", "load_resource", "session", "scenes", "list_scenes", "spawn"}
GotoPC     == {"done"} \cup OfResource \cup (LeavePC \ {"reset_resources"})

LEMMA GotoWell ==
  ASSUME TypeInv, NEW t \in Task, task[t].pc # "idle",
         NEW pc \in GotoPC,
         NEW out \in SUBSET Messages, Goto(t, pc, out), \A m \in out : MessageWell(m),
         pc \in OfResource => task[t].item \in Resource,
         pc = "collect" => task[t].pc = "load" /\ task[t].val.preload,
         pc = "load_resource" => task[t].pc = "load" /\ ~task[t].val.preload,
         pc = "session" => task[t].pc = "load_resource" /\ task[t].val.preload
  PROVE  TasksWell'
<1>1. pc \in PC /\ pc # "idle"
  BY DEF PC, LeavePC, GotoPC, OfResource
<1>2. CASE pc = "done" /\ out = {}
  <2>1. task' = [task EXCEPT ![t] = task'[t]] /\ task'[t] = Idle
    BY <1>1, <1>2, GotoStep
  <2>2. task' = [task EXCEPT ![t] = Idle]
    BY <2>1
  <2> QED
    BY <2>2, OneTask, IdleTask
<1>3. CASE ~(pc = "done" /\ out = {})
  <2> DEFINE j == task'[t]
  <2>1. /\ task' = [task EXCEPT ![t] = j] /\ j \in Tasks /\ j.pc = pc /\ j.out = out
        /\ j.peer = task[t].peer /\ j.item = task[t].item /\ j.val = task[t].val
        /\ j.stage = task[t].stage
    BY <1>1, <1>3, GotoStep
  <2> HIDE DEF j
  <2>2. TaskWell(task[t])
    BY DEF TypeInv, TasksWell
  <2>3. TaskWell(j)
    BY <1>3, <2>1, <2>2
       DEF TaskWell, NamePC, ResourcePC, RemovalPC, ObjectPC, SpherePC, LeavePC, GotoPC, OfResource
  <2> QED
    BY <2>1, <2>3, OneTask
<1> QED
  BY <1>2, <1>3

LEMMA ChangeWell ==
  ASSUME TypeInv, NEW S \in SUBSET Item, NEW v,
         world' = [i \in Item |-> IF i \in S THEN v ELSE world[i]],
         \A i \in S : v \in Holds(i) \cup {None},
         \A r \in S \cap Resource : v # None => v \in LoadKind
  PROVE  WorldWell'
<1>1. \A i \in Item : Holds(i) \cup {None} \subseteq Content
  BY HoldsKinds
<1>2. world' \in [Item -> Content] /\ \A i \in Item : world'[i] \in Holds(i) \cup {None}
  BY <1>1 DEF TypeInv, WorldWell
<1>3. \A r \in Resource : world'[r] # None => world'[r] \in LoadKind
  BY DEF TypeInv, WorldWell, Item
<1> QED
  BY <1>2, <1>3 DEF WorldWell

LEMMA OneChange ==
  ASSUME TypeInv, NEW i \in Item, NEW v \in Holds(i) \cup {None},
         i \in Resource /\ v # None => v \in LoadKind,
         \/ world' = [j \in Item |-> IF j \in {i} THEN v ELSE world[j]]
         \/ world' = [world EXCEPT ![i] = v]
  PROVE  WorldWell'
<1>1. world' = [j \in Item |-> IF j \in {i} THEN v ELSE world[j]]
  BY DEF TypeInv, WorldWell
<1>2. {i} \in SUBSET Item
  OBVIOUS
<1>3. \A j \in {i} : v \in Holds(j) \cup {None}
  OBVIOUS
<1>4. \A r \in {i} \cap Resource : v # None => v \in LoadKind
  OBVIOUS
<1> QED
  BY <1>1, <1>2, <1>3, <1>4, ChangeWell

LEMMA TypesInit == Init => TypeInv
<1> SUFFICES ASSUME Init PROVE TypeInv
  OBVIOUS
<1> USE DEF Init
<1>1. TablesWell
  <2>1. 0 \in NetId
    BY IdSpaceAssumption DEF NetId
  <2> QED
    BY <2>1 DEF TablesWell, Content
<1>2. WorldWell
  BY DEF WorldWell, Content, Item
<1>3. TasksWell
  BY IdleTask DEF TasksWell
<1> QED
  BY <1>1, <1>2, <1>3 DEF TypeInv

LEMMA HeardWell ==
  ASSUME TypeInv, NEW q \in Peer, NEW m \in Messages, MessageWell(m)
  PROVE  Heard(q, m) \in Holds(m.item) \cup {None} /\ Heard(q, m) \in Content
<1>1. m.item \in Item /\ told[q][m.item] \in Holds(m.item) \cup {None}
  BY DEF TypeInv, TablesWell, Messages
<1>2. CASE m.kind # "spawn"
  BY <1>1, <1>2, HoldsKinds DEF Heard, MessageWell
<1>3. CASE m.kind = "spawn" /\ told[q][m.item] = None
  BY <1>3 DEF Heard, Content
<1>4. CASE m.kind = "spawn" /\ told[q][m.item] # None
  <2>1. Holds(m.item) = ResourceKind /\ told[q][m.item] \in ResourceKind
    BY <1>1, <1>4, HoldsKinds DEF MessageWell
  <2>2. Heard(q, m) = [told[q][m.item] EXCEPT !.preload = FALSE]
    BY <1>4 DEF Heard
  <2>3. Heard(q, m) \in ResourceKind
    BY <2>1, <2>2 DEF ResourceKind
  <2> QED
    BY <1>1, <2>1, <2>3, HoldsKinds
<1> QED
  BY <1>2, <1>3, <1>4

\* What is left of a task's messages after one player was visited
Rest(t, q, m) ==
  (task[t].out \ {m}) \cup (IF m.left = {q} THEN {} ELSE {[m EXCEPT !.left = @ \ {q}]})

LEMMA Visited ==
  ASSUME TypeInv, NEW t \in Task, NEW q \in Peer, NEW m \in task[t].out, Visit(t, q, m),
         NEW out, out = Rest(t, q, m)
  PROVE  /\ task[t].pc \in PC /\ task[t].pc # "idle" /\ out \in SUBSET Messages
         /\ Goto(t, task[t].pc, out)
         /\ \A w \in out : /\ MessageWell(w)
                           /\ \/ w \in task[t].out
                              \/ /\ w.kind = m.kind /\ w.item = m.item /\ w.val = m.val
                                 /\ w.left = m.left \ {q}
         /\ \A w \in task[t].out : \/ w \in out
                                   \/ w = m /\ \A p \in w.left \ {q} : \E n \in out :
                                        /\ n.kind = w.kind /\ n.item = w.item /\ n.val = w.val
                                        /\ p \in n.left
<1>1. task[t] \in Tasks /\ TaskWell(task[t]) /\ task[t].out \subseteq Messages
  BY DEF TypeInv, TasksWell, Tasks
<1>2. task[t].pc # "idle"
  BY <1>1, IdleTask DEF TaskWell
<1> DEFINE n == [m EXCEPT !.left = @ \ {q}]
<1>3. m \in Messages /\ MessageWell(m) /\ q \in m.left
  BY <1>1 DEF TaskWell, Visit
<1>4. n.kind = m.kind /\ n.item = m.item /\ n.val = m.val /\ n.left = m.left \ {q}
  BY <1>3 DEF Messages
<1>5. m.left # {q} => n \in Messages /\ MessageWell(n)
  <2>1. m.left # {q} => n \in Messages
    BY <1>3 DEF Messages
  <2> QED
    BY <1>3, <1>4, <2>1 DEF MessageWell
<1>6. Goto(t, task[t].pc, out)
  BY DEF Visit, Rest
<1>7. task[t].pc \in PC
  BY <1>1 DEF Tasks
<1>8. CASE m.left = {q}
  <2>1. out = task[t].out \ {m}
    BY <1>8 DEF Rest
  <2> QED
    BY <1>1, <1>2, <1>6, <1>7, <1>8, <2>1 DEF TaskWell
<1>9. CASE m.left # {q}
  <2>1. out = (task[t].out \ {m}) \cup {n}
    BY <1>9 DEF Rest
  <2> HIDE DEF n
  <2>2. \A w \in out : MessageWell(w) /\ w \in Messages
    BY <1>1, <1>5, <1>9, <2>1 DEF TaskWell
  <2> QED
    BY <1>1, <1>2, <1>4, <1>6, <1>7, <1>9, <2>1, <2>2
<1> QED
  BY <1>8, <1>9

LEMMA TypesVisit ==
  ASSUME TypeInv, NEW t \in Task, NEW q \in Peer, NEW m \in task[t].out, Visit(t, q, m)
  PROVE  TypeInv'
<1>1. task[t] \in Tasks /\ TaskWell(task[t]) /\ m \in Messages /\ MessageWell(m)
  BY DEF TypeInv, TasksWell, Tasks, TaskWell
<1>2. TablesWell'
  <2>1. CASE told' = told
    BY <2>1 DEF Visit, tables, bounds, TypeInv, TablesWell
  <2>2. CASE told' = [told EXCEPT ![q][m.item] = Heard(q, m)]
    <3>1. m.item \in Item
      BY <1>1 DEF Messages
    <3>2. told' \in [Peer -> [Item -> Content]]
      BY <1>1, <2>2, <3>1, HeardWell DEF TypeInv, TablesWell
    <3>3. ASSUME NEW p \in Peer, NEW i \in Item
          PROVE  told'[p][i] = IF p = q /\ i = m.item THEN Heard(q, m) ELSE told[p][i]
      BY <2>2, <3>1 DEF TypeInv, TablesWell
    <3>4. \A p \in Peer, i \in Item : told'[p][i] \in Holds(i) \cup {None}
      BY <1>1, <3>3, HeardWell DEF TypeInv, TablesWell
    <3> QED
      BY <3>2, <3>4 DEF Visit, tables, bounds, TypeInv, TablesWell
  <2> QED
    BY <2>1, <2>2 DEF Visit, sent
<1>3. WorldWell'
  BY DEF Visit, tables, TypeInv, WorldWell
<1>4. TasksWell'
  <2> DEFINE out == Rest(t, q, m)
  <2>1. /\ task[t].pc \in PC /\ task[t].pc # "idle" /\ out \in SUBSET Messages
        /\ Goto(t, task[t].pc, out) /\ \A w \in out : MessageWell(w)
    BY Visited
  <2> HIDE DEF out
  <2>2. CASE task[t].pc = "done" /\ out = {}
    <3>1. task' = [task EXCEPT ![t] = task'[t]] /\ task'[t] = Idle
      BY <2>1, <2>2, GotoStep
    <3>2. task' = [task EXCEPT ![t] = Idle]
      BY <3>1
    <3> QED
      BY <3>2, OneTask, IdleTask
  <2>3. CASE ~(task[t].pc = "done" /\ out = {})
    <3> DEFINE j == task'[t]
    <3>1. /\ task' = [task EXCEPT ![t] = j] /\ j \in Tasks /\ j.pc = task[t].pc /\ j.out = out
          /\ j.peer = task[t].peer /\ j.item = task[t].item /\ j.val = task[t].val
          /\ j.stage = task[t].stage
      BY <2>1, <2>3, GotoStep
    <3> HIDE DEF j
    <3>2. TaskWell(j)
      BY <1>1, <2>1, <2>3, <3>1 DEF TaskWell
    <3> QED
      BY <3>1, <3>2, OneTask
  <2> QED
    BY <2>2, <2>3
<1> QED
  BY <1>2, <1>3, <1>4 DEF TypeInv

LEMMA Received ==
  ASSUME TypeInv, NEW t \in Task, NEW p \in Peer, NEW pc, NEW i, NEW v, Receive(t, p, pc, i, v)
  PROVE  /\ task[t] = Idle /\ p \in live
         /\ task' = [task EXCEPT ![t] = task'[t]]
         /\ task'[t].peer = p /\ task'[t].pc = pc /\ task'[t].item = i /\ task'[t].val = v
         /\ task'[t].stage = 0 /\ task'[t].out = {}
         /\ task'[t] = Job(p, pc, i, v)
         /\ \A u \in Task \ {t} : task'[u] = task[u]
<1>1. task' = [task EXCEPT ![t] = Job(p, pc, i, v)]
  BY DEF Receive
<1>2. task'[t] = Job(p, pc, i, v) /\ \A u \in Task \ {t} : task'[u] = task[u]
  BY <1>1 DEF TypeInv, TasksWell
<1>3. task' = [task EXCEPT ![t] = task'[t]]
  BY <1>1, <1>2
<1> QED
  BY <1>2, <1>3 DEF Receive, Job

\* What a client can ask for
LEMMA Requests ==
  ASSUME NEW t \in Task, NEW p \in Peer, Request(t, p)
  PROVE  \E pc \in PC, i \in Item, v \in Content :
           /\ Receive(t, p, pc, i, v)
           /\ \/ pc = "net_id" /\ i \in Name
              \/ pc = "load" /\ i \in Resource /\ v \in LoadKind
              \/ pc = "unload" /\ i \in Resource
              \/ pc = "preload_ready" /\ i \in Resource
              \/ pc \in ObjectPC /\ i \in Object
              \/ pc \in SpherePC /\ i \in Sphere
              \/ pc = "camera" /\ i = p /\ v \in {"on", "off"}
<1> USE DEF Item, Content, ObjectPC, SpherePC
<1>1. {"net_id", "load", "unload", "preload_ready", "camera"} \cup ObjectPC \cup SpherePC \subseteq PC
  BY DEF PC
<1>2. CASE \E i \in Name : Receive(t, p, "net_id", i, None)
  BY <1>1, <1>2
<1>3. CASE \E i \in Resource, v \in LoadKind : Receive(t, p, "load", i, v)
  BY <1>1, <1>3, KindAssumption
<1>4. CASE \E i \in Resource : Receive(t, p, "unload", i, None)
  BY <1>1, <1>4
<1>5. CASE \E i \in Resource : Waiting(p, i) /\ Receive(t, p, "preload_ready", i, None)
  BY <1>1, <1>5
<1>6. CASE \E i \in Object, pc \in {"get_owner", "change_owner", "remove_owner"} :
             Receive(t, p, pc, i, None)
  BY <1>1, <1>6
<1>7. CASE \E i \in Sphere, pc \in {"share", "share_cleanup"} : Receive(t, p, pc, i, None)
  BY <1>1, <1>7
<1>8. CASE \E v \in {"on", "off"} : Receive(t, p, "camera", p, v)
  BY <1>1, <1>8
<1> QED
  BY <1>2, <1>3, <1>4, <1>5, <1>6, <1>7, <1>8 DEF Request

LEMMA TypesRequest ==
  ASSUME TypeInv, NEW t \in Task, NEW p \in Peer, Request(t, p)
  PROVE  TypeInv'
<1>1. PICK pc \in PC, i \in Item, v \in Content :
        /\ Receive(t, p, pc, i, v)
        /\ \/ pc = "net_id" /\ i \in Name
           \/ pc = "load" /\ i \in Resource /\ v \in LoadKind
           \/ pc = "unload" /\ i \in Resource
           \/ pc = "preload_ready" /\ i \in Resource
           \/ pc \in ObjectPC /\ i \in Object
           \/ pc \in SpherePC /\ i \in Sphere
           \/ pc = "camera" /\ i = p /\ v \in {"on", "off"}
  BY Requests
<1>2. TablesWell' /\ WorldWell'
  BY <1>1 DEF Receive, tables, sent, bounds, TypeInv, TablesWell, WorldWell
<1> DEFINE j == task'[t]
<1>3. /\ task' = [task EXCEPT ![t] = j]
      /\ j = Job(p, pc, i, v)
  BY <1>1, Received
<1> HIDE DEF j
<1>4. j \in Tasks
  BY <1>3 DEF Tasks, Values, Job
<1>5. TaskWell(j)
  BY <1>1, <1>3 DEF TaskWell, NamePC, ResourcePC, RemovalPC, ObjectPC, SpherePC, Job
<1> QED
  BY <1>2, <1>3, <1>4, <1>5, OneTask DEF TypeInv

-----------------------------------------------------------------------------
(* The steps of the handlers: what they do to their task, and that they keep *)
(* the types                                                                 *)

\* The task t goes on at pc with out to send, or is done.
Steps(t, pc, out) ==
  /\ \A u \in Task \ {t} : task'[u] = task[u]
  /\ IF pc = "done" /\ out = {} THEN task'[t] = Idle
     ELSE /\ task'[t].pc = pc /\ task'[t].out = out /\ task'[t].peer = task[t].peer
          /\ task'[t].item = task[t].item /\ task'[t].stage = task[t].stage
          /\ task[t].pc \notin RemovalPC => task'[t].val = task[t].val

\* The same for a step that looks up something for the next one
LooksUp(t, pc, v, k) ==
  /\ \A u \in Task \ {t} : task'[u] = task[u]
  /\ task'[t].pc = pc /\ task'[t].out = {} /\ task'[t].peer = task[t].peer
  /\ task'[t].item = task[t].item /\ task'[t].val = v /\ task'[t].stage = k

LEMMA Going ==
  ASSUME TypeInv, NEW t \in Task, task[t].pc # "idle",
         NEW pc \in GotoPC,
         NEW out \in SUBSET Messages, Goto(t, pc, out), \A m \in out : MessageWell(m),
         pc \in OfResource => task[t].item \in Resource,
         pc = "collect" => task[t].pc = "load" /\ task[t].val.preload,
         pc = "load_resource" => task[t].pc = "load" /\ ~task[t].val.preload,
         pc = "session" => task[t].pc = "load_resource" /\ task[t].val.preload
  PROVE  TasksWell' /\ Steps(t, pc, out)
<1>1. pc \in PC
  BY DEF PC, LeavePC, GotoPC, OfResource
<1> QED
  BY <1>1, GotoWell, GotoStep DEF Steps

LEMMA AtTask ==
  ASSUME TypeInv, NEW t \in Task, NEW pc \in PC \ {"idle"}, At(t, pc)
  PROVE  /\ task[t] \in Tasks /\ TaskWell(task[t]) /\ task[t].pc = pc /\ task[t].out = {}
         /\ task[t].peer \in Peer /\ Peer # {} /\ task[t].peer \in Item
         /\ pc \in NamePC => task[t].item \in Name
         /\ pc \in ResourcePC => task[t].item \in Resource
         /\ pc \in ObjectPC => task[t].item \in Object
         /\ pc \in SpherePC => task[t].item \in Sphere
  BY DEF At, TypeInv, TasksWell, TaskWell, Tasks, Item

\* A message that gives an item a value it can have
LEMMA GoodMessages ==
  ASSUME NEW i \in Item, NEW v \in Holds(i) \cup {None}, NEW p \in Peer
  PROVE  /\ v \in Content
         /\ Broadcast(i, v) \in SUBSET Messages /\ BroadcastExcept(p, i, v) \in SUBSET Messages
         /\ \A m \in Broadcast(i, v) \cup BroadcastExcept(p, i, v) : MessageWell(m)
         /\ Reply(p, i, v) \in SUBSET Messages
         /\ i \notin Resource => \A m \in Reply(p, i, v) : MessageWell(m)
         /\ {} \in SUBSET Messages
<1>1. v \in Content
  BY HoldsKinds
<1> QED
  BY <1>1, Sends DEF MessageWell

LEMMA NetIdExistedStep ==
  ASSUME TypeInv, NEW t \in Task, NetIdExisted(t)
  PROVE  /\ TypeInv' /\ At(t, "net_id") /\ task[t].item \in Name
         /\ LooksUp(t, "add_or_find", world[task[t].item] # None, task[t].stage)
<1> DEFINE v == world[task[t].item] # None
           j == [task[t] EXCEPT !.pc = "add_or_find", !.val = v]
<1>1. "net_id" \in PC \ {"idle"} /\ At(t, "net_id")
  BY DEF PC, NetIdExisted
<1>2. task[t] \in Tasks /\ TaskWell(task[t]) /\ task[t].item \in Name /\ task[t].out = {}
  BY <1>1, AtTask DEF NamePC
<1>3. task' = [task EXCEPT ![t] = j]
  BY DEF NetIdExisted, TypeInv, TasksWell
<1>4. v \in BOOLEAN
  OBVIOUS
<1> HIDE DEF v
<1>5. /\ j \in Tasks /\ j.pc = "add_or_find" /\ j.out = {} /\ j.peer = task[t].peer
      /\ j.item = task[t].item /\ j.val = v /\ j.stage = task[t].stage
  BY <1>2, <1>4 DEF Tasks, PC, Values
<1> HIDE DEF j
<1>6. TaskWell(j)
  BY <1>1, <1>2, <1>5 DEF TaskWell, NamePC, ResourcePC, RemovalPC, ObjectPC, SpherePC, At
<1>7. TasksWell' /\ LooksUp(t, "add_or_find", v, task[t].stage)
  BY <1>3, <1>5, <1>6, OneTask DEF LooksUp
<1>8. TablesWell' /\ WorldWell'
  BY DEF NetIdExisted, tables, sent, bounds, TypeInv, TablesWell, WorldWell
<1> QED
  BY <1>1, <1>2, <1>7, <1>8 DEF TypeInv, v

\* What add_or_find answers or broadcasts
Assigned(t, id) == IF task[t].val THEN Reply(task[t].peer, task[t].item, id)
                   ELSE Broadcast(task[t].item, id)

LEMMA AddOrFindStep ==
  ASSUME TypeInv, NEW t \in Task, AddOrFind(t)
  PROVE  /\ TypeInv' /\ At(t, "add_or_find") /\ task[t].item \in Name /\ task[t].peer \in Peer
         /\ \E id \in NetId :
              /\ Steps(t, "done", Assigned(t, id)) /\ Assigned(t, id) # {}
              /\ \/ /\ world[task[t].item] = id
                    /\ UNCHANGED <<world, next_id, raced, late, early>>
                 \/ /\ world[task[t].item] = None /\ id = next_id
                    /\ next_id' = (next_id + 1) % IdSpace
                    /\ Take(t, task[t].item, id)
                    /\ early' = IF Resetting THEN early \cup {task[t].item} ELSE early
<1> DEFINE n == task[t].item
           id == IF world[n] = None THEN next_id ELSE world[n]
           out == Assigned(t, id)
<1>1. At(t, "add_or_find") /\ "add_or_find" \in PC \ {"idle"}
  BY DEF AddOrFind, Assign, PC
<1>2. task[t].pc = "add_or_find" /\ n \in Name /\ task[t].peer \in Peer
  BY <1>1, AtTask DEF NamePC
<1>3. n \in Item /\ n \notin Resource /\ Holds(n) = NetId /\ id \in NetId
  BY <1>2, Kinds, HoldsKinds DEF TypeInv, TablesWell, WorldWell
<1>4. Goto(t, "done", out)
  BY DEF AddOrFind, Assign, Assigned
<1>5. /\ \/ world[n] = id /\ UNCHANGED <<world, next_id, raced, late, early>>
         \/ /\ world[n] = None /\ id = next_id /\ next_id' = (next_id + 1) % IdSpace
            /\ Take(t, n, id)
            /\ early' = IF Resetting THEN early \cup {n} ELSE early
      /\ UNCHANGED <<live, known, preload, sent, bounds, lost>>
  BY DEF AddOrFind, Assign, Resetting
<1> HIDE DEF id
<1>6. out \in SUBSET Messages /\ out # {} /\ \A m \in out : MessageWell(m)
  BY <1>2, <1>3, GoodMessages, Sends DEF Assigned
<1>7. TasksWell' /\ Steps(t, "done", out)
  BY <1>2, <1>4, <1>6, Going DEF GotoPC, OfResource
<1>8. WorldWell'
  <2>1. CASE UNCHANGED world
    BY <2>1 DEF TypeInv, WorldWell
  <2>2. CASE Take(t, n, id)
    <3>1. world' = [i \in Item |-> IF i \in {n} THEN id ELSE world[i]]
      BY <2>2 DEF Take, Change
    <3> HIDE DEF n
    <3> QED
      BY <1>3, <3>1, OneChange
  <2> QED
    BY <1>5, <2>1, <2>2
<1>9. TablesWell'
  <2>1. next_id' \in NetId
    <3>1. next_id + 1 \in Nat /\ IdSpace \in Nat \ {0}
      BY IdSpaceAssumption DEF TypeInv, TablesWell, NetId
    <3>2. (next_id + 1) % IdSpace \in 0 .. (IdSpace - 1)
      BY <3>1
    <3> QED
      BY <1>5, <3>2 DEF TypeInv, TablesWell, NetId
  <2> QED
    BY <1>5, <2>1 DEF sent, bounds, TypeInv, TablesWell
<1> QED
  BY <1>1, <1>2, <1>3, <1>5, <1>6, <1>7, <1>8, <1>9 DEF TypeInv

LEMMA LoadStep ==
  ASSUME TypeInv, NEW t \in Task, Load(t)
  PROVE  /\ TypeInv' /\ At(t, "load") /\ task[t].item \in Resource /\ task[t].peer \in Peer
         /\ \E pc \in {"done", "collect", "load_resource"} : Steps(t, pc, {})
<1> DEFINE pc == IF task[t].peer \notin known THEN "done"
                 ELSE IF task[t].val.preload THEN "collect" ELSE "load_resource"
<1>1. At(t, "load") /\ "load" \in PC \ {"idle"} /\ Goto(t, pc, {})
  BY DEF Load, PC
<1>2. /\ task[t].pc = "load" /\ task[t].item \in Resource /\ task[t].peer \in Peer
      /\ pc \in {"done", "collect", "load_resource"} /\ pc \in GotoPC
      /\ pc = "collect" => task[t].val.preload
      /\ pc = "load_resource" => ~task[t].val.preload
  BY <1>1, AtTask DEF ResourcePC, GotoPC, OfResource
<1>3. TablesWell' /\ WorldWell'
  BY DEF Load, tables, sent, bounds, TypeInv, TablesWell, WorldWell
<1> HIDE DEF pc
<1>4. TasksWell' /\ Steps(t, pc, {})
  BY <1>1, <1>2, Going
<1> QED
  BY <1>1, <1>2, <1>3, <1>4 DEF TypeInv

LEMMA CollectPeersStep ==
  ASSUME TypeInv, NEW t \in Task, CollectPeers(t)
  PROVE  /\ TypeInv' /\ At(t, "collect") /\ task[t].item \in Resource
         /\ LooksUp(t, "load_resource", task[t].val, Cardinality(known))
<1> DEFINE n == Cardinality(known)
           j == [task[t] EXCEPT !.pc = "load_resource", !.stage = n]
<1>1. At(t, "collect") /\ "collect" \in PC \ {"idle"}
  BY DEF CollectPeers, PC
<1>2. /\ task[t].pc = "collect" /\ task[t].item \in Resource
      /\ task[t] \in Tasks /\ TaskWell(task[t]) /\ task[t].out = {}
  BY <1>1, AtTask DEF ResourcePC
<1>3. task' = [task EXCEPT ![t] = j]
  BY DEF CollectPeers, TypeInv, TasksWell
<1>4. n \in Nat /\ n \in 0 .. Cardinality(Peer)
  <2>1. known \in SUBSET Peer
    BY DEF TypeInv, TablesWell
  <2>2. IsFiniteSet(known) /\ n <= Cardinality(Peer)
    BY <2>1, PeerAssumption, FS_Subset
  <2> QED
    BY <2>2, PeerAssumption, FS_CardinalityType
<1> HIDE DEF n
<1>5. /\ j \in Tasks /\ j.pc = "load_resource" /\ j.out = {} /\ j.peer = task[t].peer
      /\ j.item = task[t].item /\ j.val = task[t].val /\ j.stage = n
  BY <1>2, <1>4 DEF Tasks, PC
<1> HIDE DEF j
<1>6. TaskWell(j)
  BY <1>2, <1>4, <1>5 DEF TaskWell, NamePC, ResourcePC, RemovalPC, ObjectPC, SpherePC
<1>7. TasksWell' /\ LooksUp(t, "load_resource", task[t].val, n)
  BY <1>3, <1>5, <1>6, OneTask DEF LooksUp
<1>8. TablesWell' /\ WorldWell'
  BY DEF CollectPeers, tables, sent, bounds, TypeInv, TablesWell, WorldWell
<1> QED
  BY <1>1, <1>2, <1>7, <1>8 DEF TypeInv, n

LEMMA LoadResourceStep ==
  ASSUME TypeInv, NEW t \in Task, LoadResource(t)
  PROVE  /\ TypeInv' /\ At(t, "load_resource") /\ task[t].item \in Resource
         /\ task[t].peer \in Peer /\ task[t].val \in LoadKind
         /\ \/ Steps(t, "done", {}) /\ UNCHANGED <<world, raced, late>>
            \/ /\ world[task[t].item] = None /\ task[t].val.preload /\ Steps(t, "session", {})
               /\ Take(t, task[t].item, task[t].val)
            \/ /\ world[task[t].item] = None /\ ~task[t].val.preload
               /\ Steps(t, "done", Broadcast(task[t].item, task[t].val))
               /\ Take(t, task[t].item, task[t].val)
<1> DEFINE r == task[t].item
           k == task[t].val
<1>1. At(t, "load_resource") /\ "load_resource" \in PC \ {"idle"}
  BY DEF LoadResource, PC
<1>2. /\ task[t].pc = "load_resource" /\ r \in Resource /\ task[t].peer \in Peer
      /\ k \in LoadKind
  BY <1>1, AtTask DEF ResourcePC, TaskWell
<1>3. r \in Item /\ Holds(r) = ResourceKind /\ k \in ResourceKind
  BY <1>2, Kinds, HoldsKinds, KindAssumption
<1>4. TablesWell'
  BY DEF LoadResource, sent, bounds, TypeInv, TablesWell
<1>5. CASE Goto(t, "done", {}) /\ UNCHANGED <<world, raced, late>>
  <2>1. TasksWell' /\ Steps(t, "done", {})
    BY <1>2, <1>5, Going DEF GotoPC, OfResource
  <2> QED
    BY <1>1, <1>2, <1>4, <1>5, <2>1 DEF TypeInv, WorldWell
<1>6. ASSUME Take(t, r, k) PROVE WorldWell'
  <2>1. world' = [i \in Item |-> IF i \in {r} THEN k ELSE world[i]]
    BY <1>6 DEF Take, Change
  <2> HIDE DEF r, k
  <2> QED
    BY <1>2, <1>3, <2>1, OneChange
<1>7. CASE world[r] = None /\ k.preload /\ Goto(t, "session", {}) /\ Take(t, r, k)
  <2>1. TasksWell' /\ Steps(t, "session", {})
    BY <1>2, <1>7, Going DEF GotoPC, OfResource
  <2> QED
    BY <1>1, <1>2, <1>4, <1>6, <1>7, <2>1 DEF TypeInv
<1>8. CASE world[r] = None /\ ~k.preload /\ Goto(t, "done", Broadcast(r, k)) /\ Take(t, r, k)
  <2>1. TasksWell' /\ Steps(t, "done", Broadcast(r, k))
    BY <1>2, <1>3, <1>8, GoodMessages, Going DEF GotoPC, OfResource
  <2> QED
    BY <1>1, <1>2, <1>4, <1>6, <1>8, <2>1 DEF TypeInv
<1> QED
  BY <1>5, <1>7, <1>8 DEF LoadResource

LEMMA InsertSessionStep ==
  ASSUME TypeInv, NEW t \in Task, InsertSession(t)
  PROVE  /\ TypeInv' /\ At(t, "session") /\ task[t].item \in Resource
         /\ task[t].val \in LoadKind /\ task[t].stage \in Nat
         /\ Broadcast(task[t].item, task[t].val) # {}
         /\ Steps(t, "done", Broadcast(task[t].item, task[t].val))
         /\ [answered |-> {}, total |-> task[t].stage] \in Session
<1> DEFINE r == task[t].item
           k == task[t].val
<1>1. At(t, "session") /\ "session" \in PC \ {"idle"}
  BY DEF InsertSession, PC
<1>2. /\ task[t].pc = "session" /\ r \in Resource /\ task[t].peer \in Peer /\ k \in LoadKind
      /\ task[t].stage \in 0 .. Cardinality(Peer)
  BY <1>1, AtTask DEF ResourcePC, TaskWell
<1>3. r \in Item /\ Holds(r) = ResourceKind /\ k \in ResourceKind
  BY <1>2, Kinds, HoldsKinds, KindAssumption
<1>4. Cardinality(Peer) \in Nat
  BY PeerAssumption, FS_CardinalityType
<1>5. [answered |-> {}, total |-> task[t].stage] \in Session
  BY <1>2, <1>4 DEF Session
<1>6. TablesWell'
  BY <1>5 DEF InsertSession, sent, bounds, TypeInv, TablesWell
<1>7. TasksWell' /\ Steps(t, "done", Broadcast(r, k))
  <2>1. Goto(t, "done", Broadcast(r, k))
    BY DEF InsertSession
  <2> QED
    BY <1>2, <1>3, <2>1, GoodMessages, Going DEF GotoPC, OfResource
<1>8. WorldWell' /\ task[t].stage \in Nat /\ Broadcast(r, k) # {}
  BY <1>2, <1>4 DEF InsertSession, TypeInv, WorldWell, Broadcast
<1> QED
  BY <1>1, <1>2, <1>6, <1>7, <1>8, <1>5 DEF TypeInv

LEMMA UnloadStep ==
  ASSUME TypeInv, NEW t \in Task, Unload(t)
  PROVE  /\ TypeInv' /\ At(t, "unload") /\ task[t].item \in Resource
         /\ Steps(t, "remove", {})
<1>1. At(t, "unload") /\ "unload" \in PC \ {"idle"} /\ Goto(t, "remove", {})
  BY DEF Unload, PC
<1>2. task[t].pc = "unload" /\ task[t].item \in Resource
  BY <1>1, AtTask DEF ResourcePC, TaskWell
<1>3. TablesWell' /\ WorldWell'
  BY DEF Unload, sent, bounds, TypeInv, TablesWell, WorldWell
<1>4. TasksWell' /\ Steps(t, "remove", {})
  BY <1>1, <1>2, Going DEF GotoPC, OfResource
<1> QED
  BY <1>1, <1>2, <1>3, <1>4 DEF TypeInv

LEMMA RemoveResourceStep ==
  ASSUME TypeInv, NEW t \in Task, RemoveResource(t)
  PROVE  /\ TypeInv' /\ At(t, "remove") /\ task[t].item \in Resource /\ task[t].peer \in Peer
         /\ \/ /\ Steps(t, "done", {}) /\ UNCHANGED <<world, raced>>
            \/ /\ world[task[t].item] \in LoadKind
               /\ LooksUp(t, "put_back", world[task[t].item], task[t].stage)
               /\ world' = [world EXCEPT ![task[t].item] = None] /\ UNCHANGED raced
            \/ /\ Steps(t, "done", Broadcast(task[t].item, None))
               /\ Change(t, {task[t].item}, None)
<1> DEFINE r == task[t].item
<1>1. At(t, "remove") /\ "remove" \in PC \ {"idle"}
  BY DEF RemoveResource, PC
<1>2. /\ task[t].pc = "remove" /\ r \in Resource /\ task[t].peer \in Peer
      /\ task[t] \in Tasks /\ TaskWell(task[t]) /\ task[t].out = {}
  BY <1>1, AtTask DEF ResourcePC
<1>3. r \in Item
  BY <1>2, Kinds
<1>4. TablesWell'
  BY DEF RemoveResource, sent, bounds, TypeInv, TablesWell
<1>5. CASE Goto(t, "done", {}) /\ UNCHANGED <<world, raced>>
  <2>1. TasksWell' /\ Steps(t, "done", {})
    BY <1>2, <1>5, Going DEF GotoPC, OfResource
  <2> QED
    BY <1>1, <1>2, <1>4, <1>5, <2>1 DEF TypeInv, WorldWell
<1>6. CASE /\ world[r] # None
           /\ task' = [task EXCEPT ![t].pc = "put_back", ![t].val = world[r]]
           /\ world' = [world EXCEPT ![r] = None] /\ UNCHANGED raced
  <2> DEFINE v == world[r]
             j == [task[t] EXCEPT !.pc = "put_back", !.val = v]
  <2>1. task' = [task EXCEPT ![t] = j]
    BY <1>6 DEF TypeInv, TasksWell
  <2>2. v \in LoadKind /\ v \in Content
    BY <1>2, <1>3, <1>6 DEF TypeInv, WorldWell
  <2>3. /\ j \in Tasks /\ j.pc = "put_back" /\ j.out = {} /\ j.peer = task[t].peer
        /\ j.item = r /\ j.val = v /\ j.stage = task[t].stage
    <3> HIDE DEF v
    <3> QED
      BY <1>2, <2>2 DEF Tasks, PC, Values
  <2> HIDE DEF j
  <2>4. TaskWell(j)
    BY <1>2, <2>2, <2>3 DEF TaskWell, NamePC, ResourcePC, RemovalPC, ObjectPC, SpherePC
  <2>5. TasksWell' /\ LooksUp(t, "put_back", v, task[t].stage)
    BY <2>1, <2>3, <2>4, OneTask DEF LooksUp
  <2>6. WorldWell'
    BY <1>3, <1>6, OneChange
  <2> QED
    BY <1>1, <1>2, <1>4, <1>6, <2>2, <2>5, <2>6 DEF TypeInv
<1>7. CASE Goto(t, "done", Broadcast(r, None)) /\ Change(t, {r}, None)
  <2>1. TasksWell' /\ Steps(t, "done", Broadcast(r, None))
    BY <1>2, <1>3, <1>7, GoodMessages, Going DEF GotoPC, OfResource
  <2>2. world' = [i \in Item |-> IF i \in {r} THEN None ELSE world[i]]
    BY <1>7 DEF Change
  <2>3. WorldWell'
    <3> HIDE DEF r
    <3> QED
      BY <1>3, <2>2, OneChange
  <2> QED
    BY <1>1, <1>2, <1>4, <1>7, <2>1, <2>3 DEF TypeInv
<1> QED
  BY <1>5, <1>6, <1>7 DEF RemoveResource

LEMMA PutBackStep ==
  ASSUME TypeInv, NEW t \in Task, PutBack(t)
  PROVE  /\ TypeInv' /\ At(t, "put_back") /\ task[t].item \in Resource /\ task[t].peer \in Peer
         /\ task[t].val \in LoadKind
         /\ Steps(t, "done", {})
<1> DEFINE r == task[t].item
           k == task[t].val
<1>1. At(t, "put_back") /\ "put_back" \in PC \ {"idle"} /\ Goto(t, "done", {})
  BY DEF PutBack, PC
<1>2. /\ task[t].pc = "put_back" /\ r \in Resource /\ task[t].peer \in Peer /\ k \in LoadKind
  BY <1>1, AtTask DEF ResourcePC, TaskWell
<1>3. r \in Item /\ Holds(r) = ResourceKind /\ k \in ResourceKind
  BY <1>2, Kinds, HoldsKinds, KindAssumption
<1>4. TasksWell' /\ Steps(t, "done", {})
  BY <1>1, <1>2, Going DEF GotoPC, OfResource
<1>5. TablesWell'
  BY DEF PutBack, sent, bounds, TypeInv, TablesWell
<1>6. WorldWell'
  <2>1. CASE UNCHANGED world
    BY <2>1 DEF TypeInv, WorldWell
  <2>2. CASE world' = [world EXCEPT ![r] = k]
    <3> HIDE DEF r, k
    <3> QED
      BY <1>2, <1>3, <2>2, OneChange
  <2> QED
    BY <2>1, <2>2 DEF PutBack
<1> QED
  BY <1>1, <1>2, <1>4, <1>5, <1>6 DEF TypeInv

LEMMA MarkReadyStep ==
  ASSUME TypeInv, NEW t \in Task, MarkReady(t)
  PROVE  /\ TypeInv' /\ At(t, "preload_ready") /\ task[t].item \in Resource
         /\ task[t].peer \in Peer
         /\ \/ /\ Steps(t, "done", {}) /\ UNCHANGED raced
               /\ \/ UNCHANGED preload
                  \/ LET answered == preload[task[t].item].answered \cup {task[t].peer} IN
                       /\ preload[task[t].item] # None
                       /\ Cardinality(answered) < preload[task[t].item].total
                       /\ preload' = [preload EXCEPT ![task[t].item].answered = answered]
            \/ /\ Steps(t, "scenes", {}) /\ preload' = [preload EXCEPT ![task[t].item] = None]
               /\ SpawnRace(t, {task[t].item})
<1> DEFINE r == task[t].item
           answered == preload[r].answered \cup {task[t].peer}
<1>1. At(t, "preload_ready") /\ "preload_ready" \in PC \ {"idle"}
  BY DEF MarkReady, PC
<1>2. task[t].pc = "preload_ready" /\ r \in Resource /\ task[t].peer \in Peer
  BY <1>1, AtTask DEF ResourcePC
<1>3. WorldWell'
  BY DEF MarkReady, TypeInv, WorldWell
<1>4. CASE Goto(t, "done", {}) /\ UNCHANGED <<preload, raced>>
  <2>1. TasksWell' /\ Steps(t, "done", {})
    BY <1>2, <1>4, Going DEF GotoPC, OfResource
  <2>2. TablesWell'
    BY <1>4 DEF MarkReady, sent, bounds, TypeInv, TablesWell
  <2> QED
    BY <1>1, <1>2, <1>3, <1>4, <2>1, <2>2 DEF TypeInv
<1>5. CASE /\ preload[r] # None /\ Cardinality(answered) < preload[r].total
           /\ Goto(t, "done", {}) /\ preload' = [preload EXCEPT ![r].answered = answered]
           /\ UNCHANGED raced
  <2>1. TasksWell' /\ Steps(t, "done", {})
    BY <1>2, <1>5, Going DEF GotoPC, OfResource
  <2>2. preload[r] \in Session
    BY <1>2, <1>5 DEF TypeInv, TablesWell
  <2>3. [preload[r] EXCEPT !.answered = answered] \in Session
    BY <1>2, <2>2 DEF Session
  <2>4. preload' \in [Resource -> Session \cup {None}]
    BY <1>2, <1>5, <2>3 DEF TypeInv, TablesWell
  <2>5. TablesWell'
    BY <2>4 DEF MarkReady, sent, bounds, TypeInv, TablesWell
  <2> QED
    BY <1>1, <1>2, <1>3, <1>5, <2>1, <2>5 DEF TypeInv
<1>6. CASE /\ Goto(t, "scenes", {}) /\ preload' = [preload EXCEPT ![r] = None]
           /\ SpawnRace(t, {r})
  <2>1. TasksWell' /\ Steps(t, "scenes", {})
    BY <1>2, <1>6, Going DEF GotoPC, OfResource
  <2>2. TablesWell'
    BY <1>6 DEF MarkReady, sent, bounds, TypeInv, TablesWell
  <2> QED
    BY <1>1, <1>2, <1>3, <1>6, <2>1, <2>2 DEF TypeInv
<1> QED
  BY <1>4, <1>5, <1>6 DEF MarkReady

LEMMA FindSceneStep ==
  ASSUME TypeInv, NEW t \in Task, FindScene(t)
  PROVE  /\ TypeInv' /\ At(t, "scenes") /\ task[t].item \in Resource
         /\ \E pc \in {"list_scenes", "spawn"} : Steps(t, pc, {})
<1> DEFINE pc == IF world[task[t].item] # None /\ world[task[t].item].scene
                   THEN "list_scenes" ELSE "spawn"
<1>1. At(t, "scenes") /\ "scenes" \in PC \ {"idle"} /\ Goto(t, pc, {})
  BY DEF FindScene, PC
<1>2. task[t].pc = "scenes" /\ task[t].item \in Resource /\ pc \in {"list_scenes", "spawn"}
  BY <1>1, AtTask DEF ResourcePC
<1>3. TablesWell' /\ WorldWell'
  BY DEF FindScene, tables, sent, bounds, TypeInv, TablesWell, WorldWell
<1> HIDE DEF pc
<1>4. TasksWell' /\ Steps(t, pc, {})
  BY <1>1, <1>2, Going DEF GotoPC, OfResource
<1> QED
  BY <1>1, <1>2, <1>3, <1>4 DEF TypeInv

\* To list resources, and to remove those that are listed
LEMMA ListStep ==
  ASSUME TypeInv, NEW t \in Task, NEW pc \in PC \ {"idle"}, NEW then, NEW S \in SUBSET Resource,
         List(t, pc, then, S), task[t].pc # "idle",
         \/ pc = "list_scenes" /\ then = "unload_scenes"
         \/ pc = "list_ids" /\ then = "reset_resources"
  PROVE  TypeInv' /\ LooksUp(t, then, S, task[t].stage)
<1> DEFINE j == [task[t] EXCEPT !.pc = then, !.val = S]
<1>1. /\ task[t] \in Tasks /\ TaskWell(task[t]) /\ task[t].out = {} /\ task[t].pc = pc
  BY AtTask DEF List
<1>2. task' = [task EXCEPT ![t] = j]
  BY DEF List, TypeInv, TasksWell
<1>3. S \in Values
  BY DEF Values
<1>4. /\ j \in Tasks /\ j.pc = then /\ j.out = {} /\ j.peer = task[t].peer
      /\ j.item = task[t].item /\ j.val = S /\ j.stage = task[t].stage
  BY <1>1, <1>3 DEF Tasks, PC, LeavePC
<1> HIDE DEF j
<1>5. TaskWell(j)
  BY <1>1, <1>4 DEF TaskWell, NamePC, ResourcePC, RemovalPC, ObjectPC, SpherePC
<1>6. TasksWell' /\ LooksUp(t, then, S, task[t].stage)
  BY <1>2, <1>4, <1>5, OneTask DEF LooksUp
<1>7. TablesWell' /\ WorldWell'
  BY DEF List, tables, sent, bounds, TypeInv, TablesWell, WorldWell
<1> QED
  BY <1>6, <1>7 DEF TypeInv

\* What a task removes of the resources it has listed
Listed(t)   == task[t].val \cap Present(Resource)
Removals(t) == UNION {Broadcast(r, None) : r \in Listed(t)}

LEMMA RemoveListedStep ==
  ASSUME TypeInv, NEW t \in Task, NEW pc, NEW then, RemoveListed(t, pc, then),
         \/ pc = "unload_scenes" /\ then = "spawn"
         \/ pc = "reset_resources" /\ then = "reset_names"
  PROVE  /\ TypeInv' /\ At(t, pc) /\ task[t].peer \in Peer
         /\ pc = "unload_scenes" => task[t].item \in Resource
         /\ task[t].val \in SUBSET Resource /\ Listed(t) \subseteq Resource
         /\ Steps(t, then, Removals(t)) /\ Change(t, Listed(t), None)
<1> DEFINE S == Listed(t)
           out == Removals(t)
           j == [task[t] EXCEPT !.pc = then, !.val = None, !.out = out]
<1>1. At(t, pc) /\ pc \in PC \ {"idle"}
  BY DEF RemoveListed, PC, LeavePC
<1>2. /\ task[t] \in Tasks /\ TaskWell(task[t]) /\ task[t].out = {} /\ task[t].pc = pc
      /\ task[t].peer \in Peer /\ task[t].val \in SUBSET Resource /\ S \subseteq Resource
      /\ pc = "unload_scenes" => task[t].item \in Resource
  BY <1>1, AtTask DEF TaskWell, RemovalPC, ResourcePC, Listed
<1>3. task' = [task EXCEPT ![t] = j] /\ Change(t, S, None)
  BY DEF RemoveListed, TypeInv, TasksWell, Listed, Removals
<1>4. S \in SUBSET Item /\ None \in Content /\ None \in Values
  BY <1>2 DEF Item, Content, Values
<1>5. \A r \in S : \A m \in Broadcast(r, None) : m \in Messages /\ MessageWell(m)
  BY <1>2, <1>4, GoodMessages
<1>6. out \in SUBSET Messages /\ \A m \in out : MessageWell(m)
  BY <1>5 DEF Removals
<1> HIDE DEF out, S
<1>7. /\ j \in Tasks /\ j.pc = then /\ j.out = out /\ j.peer = task[t].peer
      /\ j.item = task[t].item /\ j.val = None /\ j.stage = task[t].stage
  BY <1>2, <1>4, <1>6 DEF Tasks, PC, LeavePC
<1> HIDE DEF j
<1>8. TaskWell(j)
  BY <1>2, <1>6, <1>7 DEF TaskWell, NamePC, ResourcePC, RemovalPC, ObjectPC, SpherePC
<1>9. TasksWell' /\ Steps(t, then, out)
  BY <1>2, <1>3, <1>7, <1>8, OneTask DEF Steps, RemovalPC
<1>10. world' = [i \in Item |-> IF i \in S THEN None ELSE world[i]]
  BY <1>3 DEF Change
<1>11. WorldWell'
  BY <1>4, <1>10, ChangeWell
<1>12. TablesWell'
  BY DEF RemoveListed, sent, bounds, TypeInv, TablesWell
<1> QED
  BY <1>1, <1>2, <1>3, <1>9, <1>11, <1>12 DEF TypeInv, out, S

LEMMA ListScenesStep ==
  ASSUME TypeInv, NEW t \in Task, ListScenes(t)
  PROVE  /\ TypeInv' /\ At(t, "list_scenes") /\ task[t].item \in Resource
         /\ \E S \in SUBSET Resource : LooksUp(t, "unload_scenes", S, task[t].stage)
<1> DEFINE S == {s \in Present(Resource) : world[s].scene}
<1>1. /\ List(t, "list_scenes", "unload_scenes", S) /\ At(t, "list_scenes")
      /\ "list_scenes" \in PC \ {"idle"}
  BY DEF ListScenes, List, PC
<1>2. task[t].pc = "list_scenes" /\ task[t].item \in Resource
  BY <1>1, AtTask DEF ResourcePC
<1>3. S \in SUBSET Resource
  BY DEF Present
<1> HIDE DEF S
<1>4. TypeInv' /\ LooksUp(t, "unload_scenes", S, task[t].stage)
  BY <1>1, <1>2, <1>3, ListStep
<1> QED
  BY <1>1, <1>2, <1>3, <1>4

LEMMA UnloadScenesStep ==
  ASSUME TypeInv, NEW t \in Task, UnloadScenes(t)
  PROVE  /\ TypeInv' /\ At(t, "unload_scenes") /\ task[t].item \in Resource
         /\ Listed(t) \subseteq Resource
         /\ Steps(t, "spawn", Removals(t)) /\ Change(t, Listed(t), None)
  BY RemoveListedStep DEF UnloadScenes

LEMMA SpawnPreloadedStep ==
  ASSUME TypeInv, NEW t \in Task, SpawnPreloaded(t)
  PROVE  /\ TypeInv' /\ At(t, "spawn") /\ task[t].item \in Resource
         /\ Steps(t, "done", Spawn(task[t].item)) /\ Peer # {}
<1>1. At(t, "spawn") /\ "spawn" \in PC \ {"idle"} /\ Goto(t, "done", Spawn(task[t].item))
  BY DEF SpawnPreloaded, PC
<1>2. task[t].pc = "spawn" /\ task[t].item \in Resource /\ Peer # {}
  BY <1>1, AtTask DEF ResourcePC
<1>3. Spawn(task[t].item) \in SUBSET Messages /\ \A m \in Spawn(task[t].item) : MessageWell(m)
  BY <1>2, Kinds, Spawns DEF MessageWell
<1>4. TasksWell' /\ Steps(t, "done", Spawn(task[t].item))
  BY <1>1, <1>2, <1>3, Going DEF GotoPC, OfResource
<1>5. TablesWell' /\ WorldWell'
  BY DEF SpawnPreloaded, tables, sent, bounds, TypeInv, TablesWell, WorldWell
<1> QED
  BY <1>1, <1>2, <1>4, <1>5 DEF TypeInv

\* A handler that says of an item what the table holds, or gives it that value first
LEMMA Tells ==
  ASSUME TypeInv, NEW t \in Task, task[t].pc # "idle", NEW i \in Item, i \notin Resource,
         NEW v \in Holds(i) \cup {None}, NEW p \in Peer, NEW out,
         out \in {Broadcast(i, v), BroadcastExcept(p, i, v), Reply(p, i, v)},
         Goto(t, "done", out),
         \/ UNCHANGED world
         \/ world' = [j \in Item |-> IF j \in {i} THEN v ELSE world[j]]
         \/ world' = [world EXCEPT ![i] = v]
  PROVE  WorldWell' /\ TasksWell' /\ Steps(t, "done", out) /\ out # {}
<1>1. out \in SUBSET Messages /\ \A m \in out : MessageWell(m)
  BY GoodMessages
<1>2. TasksWell' /\ Steps(t, "done", out)
  BY <1>1, Going DEF GotoPC, OfResource
<1>3. out # {}
  BY HoldsKinds, Sends
<1>4. CASE UNCHANGED world
  BY <1>2, <1>3, <1>4 DEF TypeInv, WorldWell
<1>5. CASE \/ world' = [j \in Item |-> IF j \in {i} THEN v ELSE world[j]]
           \/ world' = [world EXCEPT ![i] = v]
  BY <1>2, <1>3, <1>5, OneChange
<1> QED
  BY <1>4, <1>5

LEMMA GetOwnerStep ==
  ASSUME TypeInv, NEW t \in Task, GetOwner(t)
  PROVE  /\ TypeInv' /\ At(t, "get_owner") /\ task[t].item \in Object /\ task[t].peer \in Peer
         /\ \/ /\ Steps(t, "done", Reply(task[t].peer, task[t].item, task[t].peer))
               /\ world[task[t].item] = None
               /\ TakeQuietly(t, task[t].item, task[t].peer)
            \/ /\ Steps(t, "done", Reply(task[t].peer, task[t].item, world[task[t].item]))
               /\ UNCHANGED <<world, raced, late>>
<1> DEFINE o == task[t].item
           p == task[t].peer
<1>1. At(t, "get_owner") /\ "get_owner" \in PC \ {"idle"}
  BY DEF GetOwner, PC
<1>2. task[t].pc = "get_owner" /\ o \in Object /\ p \in Peer
  BY <1>1, AtTask DEF ObjectPC
<1>3. o \in Item /\ o \notin Resource /\ Holds(o) = Peer /\ world[o] \in Holds(o) \cup {None}
  BY <1>2, Kinds, HoldsKinds DEF TypeInv, WorldWell
<1>4. TablesWell'
  BY DEF GetOwner, sent, bounds, TypeInv, TablesWell
<1>5. CASE /\ world[o] = None /\ Goto(t, "done", Reply(p, o, p)) /\ TakeQuietly(t, o, p)
  <2>1. world' = [world EXCEPT ![o] = p]
    BY <1>5 DEF TakeQuietly
  <2>2. WorldWell' /\ TasksWell' /\ Steps(t, "done", Reply(p, o, p))
    <3> HIDE DEF o, p
    <3> QED
      BY <1>2, <1>3, <1>5, <2>1, Tells
  <2> QED
    BY <1>1, <1>2, <1>4, <1>5, <2>2 DEF TypeInv
<1>6. CASE Goto(t, "done", Reply(p, o, world[o])) /\ UNCHANGED <<world, raced, late>>
  <2>1. WorldWell' /\ TasksWell' /\ Steps(t, "done", Reply(p, o, world[o]))
    <3> HIDE DEF o, p
    <3> QED
      BY <1>2, <1>3, <1>6, Tells
  <2> QED
    BY <1>1, <1>2, <1>4, <1>6, <2>1 DEF TypeInv
<1> QED
  BY <1>5, <1>6 DEF GetOwner

LEMMA ChangeOwnerStep ==
  ASSUME TypeInv, NEW t \in Task, ChangeOwner(t)
  PROVE  /\ TypeInv' /\ At(t, "change_owner") /\ task[t].item \in Object /\ task[t].peer \in Peer
         /\ Steps(t, "done", Broadcast(task[t].item, task[t].peer))
<1> DEFINE o == task[t].item
           p == task[t].peer
<1>1. /\ At(t, "change_owner") /\ "change_owner" \in PC \ {"idle"}
      /\ Goto(t, "done", Broadcast(o, p)) /\ Take(t, o, p)
  BY DEF ChangeOwner, PC
<1>2. task[t].pc = "change_owner" /\ o \in Object /\ p \in Peer
  BY <1>1, AtTask DEF ObjectPC
<1>3. o \in Item /\ o \notin Resource /\ Holds(o) = Peer
  BY <1>2, Kinds, HoldsKinds
<1>4. TablesWell'
  BY DEF ChangeOwner, sent, bounds, TypeInv, TablesWell
<1>5. world' = [i \in Item |-> IF i \in {o} THEN p ELSE world[i]]
  BY <1>1 DEF Take, Change
<1>6. WorldWell' /\ TasksWell' /\ Steps(t, "done", Broadcast(o, p))
  <2> HIDE DEF o, p
  <2> QED
    BY <1>1, <1>2, <1>3, <1>5, Tells
<1> QED
  BY <1>1, <1>2, <1>4, <1>6 DEF TypeInv

LEMMA RemoveOwnerStep ==
  ASSUME TypeInv, NEW t \in Task, RemoveOwner(t)
  PROVE  /\ TypeInv' /\ At(t, "remove_owner") /\ task[t].item \in Object /\ task[t].peer \in Peer
         /\ \/ /\ Steps(t, "done", Broadcast(task[t].item, None))
               /\ Change(t, {task[t].item}, None)
            \/ Steps(t, "done", {}) /\ UNCHANGED <<world, raced>>
<1> DEFINE o == task[t].item
<1>1. At(t, "remove_owner") /\ "remove_owner" \in PC \ {"idle"}
  BY DEF RemoveOwner, PC
<1>2. task[t].pc = "remove_owner" /\ o \in Object /\ task[t].peer \in Peer
  BY <1>1, AtTask DEF ObjectPC
<1>3. o \in Item /\ o \notin Resource
  BY <1>2, Kinds
<1>4. TablesWell'
  BY DEF RemoveOwner, sent, bounds, TypeInv, TablesWell
<1>5. CASE Goto(t, "done", Broadcast(o, None)) /\ Change(t, {o}, None)
  <2>1. world' = [i \in Item |-> IF i \in {o} THEN None ELSE world[i]]
    BY <1>5 DEF Change
  <2>2. WorldWell' /\ TasksWell' /\ Steps(t, "done", Broadcast(o, None))
    <3> HIDE DEF o
    <3> QED
      BY <1>2, <1>3, <1>5, <2>1, Tells
  <2> QED
    BY <1>1, <1>2, <1>4, <1>5, <2>2 DEF TypeInv
<1>6. CASE Goto(t, "done", {}) /\ UNCHANGED <<world, raced>>
  <2>1. TasksWell' /\ Steps(t, "done", {})
    BY <1>2, <1>6, Going DEF GotoPC, OfResource
  <2> QED
    BY <1>1, <1>2, <1>4, <1>6, <2>1 DEF TypeInv, WorldWell
<1> QED
  BY <1>5, <1>6 DEF RemoveOwner

LEMMA ShareStep ==
  ASSUME TypeInv, NEW t \in Task, Share(t)
  PROVE  /\ TypeInv' /\ At(t, "share") /\ task[t].item \in Sphere /\ task[t].peer \in Peer
         /\ \/ /\ Steps(t, "done", Broadcast(task[t].item, task[t].peer))
               /\ Take(t, task[t].item, task[t].peer)
            \/ Steps(t, "done", {}) /\ UNCHANGED <<world, raced, late>>
<1> DEFINE s == task[t].item
           p == task[t].peer
<1>1. At(t, "share") /\ "share" \in PC \ {"idle"}
  BY DEF Share, PC
<1>2. task[t].pc = "share" /\ s \in Sphere /\ p \in Peer
  BY <1>1, AtTask DEF SpherePC
<1>3. s \in Item /\ s \notin Resource /\ Holds(s) = Peer
  BY <1>2, Kinds, HoldsKinds
<1>4. TablesWell'
  BY DEF Share, sent, bounds, TypeInv, TablesWell
<1>5. CASE Goto(t, "done", Broadcast(s, p)) /\ Take(t, s, p)
  <2>1. world' = [i \in Item |-> IF i \in {s} THEN p ELSE world[i]]
    BY <1>5 DEF Take, Change
  <2>2. WorldWell' /\ TasksWell' /\ Steps(t, "done", Broadcast(s, p))
    <3> HIDE DEF s, p
    <3> QED
      BY <1>2, <1>3, <1>5, <2>1, Tells
  <2> QED
    BY <1>1, <1>2, <1>4, <1>5, <2>2 DEF TypeInv
<1>6. CASE Goto(t, "done", {}) /\ UNCHANGED <<world, raced, late>>
  <2>1. TasksWell' /\ Steps(t, "done", {})
    BY <1>2, <1>6, Going DEF GotoPC, OfResource
  <2> QED
    BY <1>1, <1>2, <1>4, <1>6, <2>1 DEF TypeInv, WorldWell
<1> QED
  BY <1>5, <1>6 DEF Share

LEMMA ShareCleanupStep ==
  ASSUME TypeInv, NEW t \in Task, ShareCleanup(t)
  PROVE  /\ TypeInv' /\ At(t, "share_cleanup") /\ task[t].item \in Sphere
         /\ task[t].peer \in Peer
         /\ \/ /\ Steps(t, "done", Broadcast(task[t].item, None))
               /\ Change(t, {task[t].item}, None)
            \/ Steps(t, "done", {}) /\ UNCHANGED <<world, raced>>
<1> DEFINE s == task[t].item
<1>1. At(t, "share_cleanup") /\ "share_cleanup" \in PC \ {"idle"}
  BY DEF ShareCleanup, PC
<1>2. task[t].pc = "share_cleanup" /\ s \in Sphere /\ task[t].peer \in Peer
  BY <1>1, AtTask DEF SpherePC
<1>3. s \in Item /\ s \notin Resource
  BY <1>2, Kinds
<1>4. TablesWell'
  BY DEF ShareCleanup, sent, bounds, TypeInv, TablesWell
<1>5. CASE Goto(t, "done", Broadcast(s, None)) /\ Change(t, {s}, None)
  <2>1. world' = [i \in Item |-> IF i \in {s} THEN None ELSE world[i]]
    BY <1>5 DEF Change
  <2>2. WorldWell' /\ TasksWell' /\ Steps(t, "done", Broadcast(s, None))
    <3> HIDE DEF s
    <3> QED
      BY <1>2, <1>3, <1>5, <2>1, Tells
  <2> QED
    BY <1>1, <1>2, <1>4, <1>5, <2>2 DEF TypeInv
<1>6. CASE Goto(t, "done", {}) /\ UNCHANGED <<world, raced>>
  <2>1. TasksWell' /\ Steps(t, "done", {})
    BY <1>2, <1>6, Going DEF GotoPC, OfResource
  <2> QED
    BY <1>1, <1>2, <1>4, <1>6, <2>1 DEF TypeInv, WorldWell
<1> QED
  BY <1>5, <1>6 DEF ShareCleanup

LEMMA CameraStateStep ==
  ASSUME TypeInv, NEW t \in Task, CameraState(t)
  PROVE  /\ TypeInv' /\ At(t, "camera") /\ task[t].peer \in Peer /\ task[t].val \in {"on", "off"}
         /\ task[t].item = task[t].peer
         /\ Steps(t, "done", BroadcastExcept(task[t].peer, task[t].peer, task[t].val))
         /\ \/ Take(t, task[t].peer, task[t].val)
            \/ /\ task[t].val = "off" /\ world[task[t].peer] = None
               /\ UNCHANGED <<world, raced, late>>
<1> DEFINE p == task[t].peer
           v == task[t].val
<1>1. /\ At(t, "camera") /\ "camera" \in PC \ {"idle"} /\ Goto(t, "done", BroadcastExcept(p, p, v))
      /\ \/ Take(t, p, v)
         \/ v # "on" /\ world[p] = None /\ UNCHANGED <<world, raced, late>>
  BY DEF CameraState, PC
<1>2. task[t].pc = "camera" /\ p \in Peer /\ v \in {"on", "off"} /\ task[t].item = p
  BY <1>1, AtTask DEF TaskWell
<1>3. p \in Item /\ p \notin Resource /\ Holds(p) = {"on", "off"}
  BY <1>2, Kinds, HoldsKinds
<1>4. TablesWell'
  BY DEF CameraState, sent, bounds, TypeInv, TablesWell
<1>5. \/ UNCHANGED world
      \/ world' = [i \in Item |-> IF i \in {p} THEN v ELSE world[i]]
  BY <1>1 DEF Take, Change
<1>6. WorldWell' /\ TasksWell' /\ Steps(t, "done", BroadcastExcept(p, p, v))
  <2> HIDE DEF p, v
  <2> QED
    BY <1>1, <1>2, <1>3, <1>5, Tells
<1> QED
  BY <1>1, <1>2, <1>4, <1>6 DEF TypeInv

-----------------------------------------------------------------------------
(* The steps of joins and leaves *)

LEMMA Started ==
  ASSUME TypeInv, NEW t \in Task, NEW p \in Peer, NEW pc \in {"insert", "disown"},
         task' = [task EXCEPT ![t] = Job(p, pc, None, None)]
  PROVE  /\ TasksWell' /\ \A u \in Task \ {t} : task'[u] = task[u]
         /\ task'[t].peer = p /\ task'[t].pc = pc /\ task'[t].out = {}
         /\ task'[t].item = None /\ task'[t].val = None
<1> DEFINE j == Job(p, pc, None, None)
<1>1. /\ j \in Tasks /\ j.peer = p /\ j.pc = pc /\ j.item = None /\ j.val = None /\ j.out = {}
      /\ j.stage = 0
  BY DEF Job, Tasks, Values, Content, PC, LeavePC
<1> HIDE DEF j
<1>2. TaskWell(j)
  BY <1>1 DEF TaskWell, NamePC, ResourcePC, RemovalPC, ObjectPC, SpherePC, LeavePC
<1> QED
  BY <1>1, <1>2, OneTask DEF j

LEMMA ConnectStep ==
  ASSUME TypeInv, NEW t \in Task, NEW p \in Peer, Connect(t, p)
  PROVE  /\ TypeInv' /\ \A u \in Task \ {t} : task'[u] = task[u]
         /\ task'[t].peer = p /\ task'[t].pc = "insert" /\ task'[t].out = {}
         /\ task'[t].item = None /\ task'[t].val = None
<1>1. task' = [task EXCEPT ![t] = Job(p, "insert", None, None)]
  BY DEF Connect
<1>2. TablesWell' /\ WorldWell'
  BY DEF Connect, tables, sent, bounds, TypeInv, TablesWell, WorldWell
<1>3. /\ TasksWell' /\ \A u \in Task \ {t} : task'[u] = task[u]
      /\ task'[t].peer = p /\ task'[t].pc = "insert" /\ task'[t].out = {}
      /\ task'[t].item = None /\ task'[t].val = None
  BY <1>1, Started
<1> QED
  BY <1>2, <1>3 DEF TypeInv

\* A connection ends.
LEMMA EndStep ==
  ASSUME TypeInv, NEW p \in Peer, End(p)
  PROVE  /\ p \in live /\ live' = live \ {p}
         /\ told' \in [Peer -> [Item -> Content]]
         /\ \A q \in Peer, i \in Item : told'[q][i] = IF q = p THEN None ELSE told[q][i]
         /\ misled' = {x \in misled : x[1] # p}
  BY DEF End, TypeInv, TablesWell, Content

LEMMA CloseStep ==
  ASSUME TypeInv, NEW t \in Task, NEW p \in Peer, Close(t, p)
  PROVE  /\ TypeInv' /\ \A u \in Task \ {t} : task'[u] = task[u]
         /\ task'[t].peer = p /\ task'[t].pc = "disown" /\ task'[t].out = {}
         /\ task'[t].item = None /\ task'[t].val = None
<1>1. task' = [task EXCEPT ![t] = Job(p, "disown", None, None)] /\ "disown" \in LeavePC
  BY DEF Close, LeavePC
<1>2. /\ told' \in [Peer -> [Item -> Content]]
      /\ \A q \in Peer, i \in Item : told'[q][i] = IF q = p THEN None ELSE told[q][i]
      /\ live' = live \ {p}
  BY EndStep DEF Close
<1>3. TablesWell' /\ WorldWell'
  BY <1>2 DEF Close, tables, bounds, TypeInv, TablesWell, WorldWell
<1>4. /\ TasksWell' /\ \A u \in Task \ {t} : task'[u] = task[u]
      /\ task'[t].peer = p /\ task'[t].pc = "disown" /\ task'[t].out = {}
      /\ task'[t].item = None /\ task'[t].val = None
  BY <1>1, Started
<1> QED
  BY <1>3, <1>4 DEF TypeInv

LEMMA CutOffStep ==
  ASSUME TypeInv, NEW p \in Peer, CutOff(p)
  PROVE  /\ TypeInv' /\ live' = live \ {p} /\ p \in live /\ Gone' = Gone
         /\ \A q \in Peer, i \in Item : told'[q][i] = IF q = p THEN None ELSE told[q][i]
         /\ misled' = {x \in misled : x[1] # p}
         /\ UNCHANGED <<known, tables, task, history>>
<1>1. /\ p \in live /\ live' = live \ {p} /\ told' \in [Peer -> [Item -> Content]]
      /\ \A q \in Peer, i \in Item : told'[q][i] = IF q = p THEN None ELSE told[q][i]
      /\ misled' = {x \in misled : x[1] # p}
  BY EndStep DEF CutOff
<1>2. abandoned' = abandoned \cup {p} /\ UNCHANGED <<known, tables, task, history>>
  BY DEF CutOff
<1>3. TablesWell' /\ WorldWell' /\ TasksWell'
  BY <1>1, <1>2 DEF tables, TypeInv, TablesWell, WorldWell, TasksWell
<1>4. Gone' = Gone
  BY <1>1, <1>2 DEF Gone
<1> QED
  BY <1>1, <1>2, <1>3, <1>4 DEF TypeInv

LEMMA InsertStep ==
  ASSUME TypeInv, NEW t \in Task, Insert(t)
  PROVE  /\ TypeInv' /\ At(t, "insert") /\ task[t].peer \in Peer
         /\ LooksUp(t, "read", task[t].val, 1)
<1> DEFINE j == [task[t] EXCEPT !.pc = "read", !.stage = 1]
<1>1. "insert" \in PC \ {"idle"} /\ At(t, "insert")
  BY DEF PC, Insert
<1>2. task[t] \in Tasks /\ TaskWell(task[t]) /\ task[t].peer \in Peer /\ task[t].out = {}
  BY <1>1, AtTask
<1>3. task' = [task EXCEPT ![t] = j]
  BY DEF Insert, TypeInv, TasksWell
<1>4. /\ j \in Tasks /\ j.pc = "read" /\ j.out = {} /\ j.peer = task[t].peer
      /\ j.item = task[t].item /\ j.val = task[t].val /\ j.stage = 1
  BY <1>2 DEF Tasks, PC
<1> HIDE DEF j
<1>5. TaskWell(j)
  BY <1>1, <1>2, <1>4 DEF TaskWell, NamePC, ResourcePC, RemovalPC, ObjectPC, SpherePC
<1>6. TasksWell' /\ LooksUp(t, "read", task[t].val, 1)
  BY <1>3, <1>4, <1>5, OneTask DEF LooksUp
<1>7. TablesWell' /\ WorldWell'
  BY <1>2 DEF Insert, tables, sent, bounds, TypeInv, TablesWell, WorldWell
<1> QED
  BY <1>1, <1>2, <1>6, <1>7 DEF TypeInv

LEMMA NextTableStep ==
  ASSUME TypeInv, NEW t \in Task, task[t].pc \in {"read", "send"}, task[t].out = {}, NextTable(t)
  PROVE  /\ TasksWell' /\ task[t].peer \in Peer /\ task[t].stage \in 1 .. 5
         /\ \A u \in Task \ {t} : task'[u] = task[u]
         /\ \/ task[t].stage = 5 /\ task'[t] = Idle
            \/ task[t].stage \in 1 .. 4 /\ LooksUp(t, "read", None, task[t].stage + 1)
<1> DEFINE j == [task[t] EXCEPT !.pc = "read", !.val = None, !.stage = @ + 1]
<1>1. /\ task[t] \in Tasks /\ TaskWell(task[t]) /\ task[t].peer \in Peer
      /\ task[t].stage \in 1 .. 5
  BY DEF TypeInv, TasksWell, TaskWell
<1>2. CASE task[t].stage = 5
  <2>1. task' = [task EXCEPT ![t] = Idle]
    BY <1>2, Stages DEF NextTable
  <2> QED
    BY <1>1, <1>2, <2>1, IdleTask, OneTask
<1>3. CASE task[t].stage # 5
  <2>1. task[t].stage \in 1 .. 4
    BY <1>1, <1>3
  <2>2. task' = [task EXCEPT ![t] = j]
    BY <1>3, Stages DEF NextTable, TypeInv, TasksWell
  <2>3. /\ j \in Tasks /\ j.pc = "read" /\ j.out = {} /\ j.peer = task[t].peer
        /\ j.item = task[t].item /\ j.val = None /\ j.stage = task[t].stage + 1
    <3>1. None \in Values
      BY DEF Values, Content
    <3>2. task[t].stage + 1 \in Nat /\ "read" \in PC
      BY <2>1 DEF PC
    <3> QED
      BY <1>1, <3>1, <3>2 DEF Tasks
  <2> HIDE DEF j
  <2>4. TaskWell(j)
    BY <1>1, <2>1, <2>3 DEF TaskWell, NamePC, ResourcePC, RemovalPC, ObjectPC, SpherePC, LeavePC
  <2> QED
    BY <1>1, <2>1, <2>2, <2>3, <2>4, OneTask DEF LooksUp
<1> QED
  BY <1>2, <1>3

LEMMA ReplayedWell ==
  ASSUME TypeInv, NEW i \in Item
  PROVE  /\ Replayed(i) \in Content /\ Replayed(i) \in Holds(i) \cup {None}
         /\ i \in Resource /\ Replayed(i) # None => ~Replayed(i).preload
<1>1. world[i] \in Content /\ world[i] \in Holds(i) \cup {None} /\ None \in Content
  BY DEF TypeInv, WorldWell, Content
<1>2. CASE i \in Peer
  BY <1>1, <1>2, Kinds, HoldsKinds DEF Replayed
<1>3. CASE i \in Resource /\ world[i] # None
  <2>1. i \notin Peer /\ Holds(i) = ResourceKind /\ world[i] \in ResourceKind
    BY <1>1, <1>3, Kinds, HoldsKinds
  <2>2. Replayed(i) = [world[i] EXCEPT !.preload = FALSE]
    BY <1>3, <2>1 DEF Replayed
  <2>3. Replayed(i) \in ResourceKind /\ ~Replayed(i).preload
    BY <2>1, <2>2 DEF ResourceKind
  <2> QED
    BY <2>1, <2>3 DEF Content
<1>4. CASE i \notin Peer /\ ~(i \in Resource /\ world[i] # None)
  BY <1>1, <1>4 DEF Replayed
<1> QED
  BY <1>2, <1>3, <1>4

LEMMA ReadTableStep ==
  ASSUME TypeInv, NEW t \in Task, ReadTable(t)
  PROVE  /\ TypeInv' /\ At(t, "read") /\ task[t].peer \in Peer /\ task[t].stage \in 1 .. 5
         /\ \A u \in Task \ {t} : task'[u] = task[u]
         /\ \/ /\ \A i \in Stage[task[t].stage] : Replayed(i) = None
               /\ \/ task[t].stage = 5 /\ task'[t] = Idle
                  \/ task[t].stage \in 1 .. 4 /\ LooksUp(t, "read", None, task[t].stage + 1)
            \/ LooksUp(t, "send", [i \in Stage[task[t].stage] |-> Replayed(i)], task[t].stage)
<1> DEFINE k == task[t].stage
           v == [i \in Stage[k] |-> Replayed(i)]
<1>1. At(t, "read") /\ "read" \in PC \ {"idle"}
  BY DEF ReadTable, PC
<1>2. /\ task[t].pc = "read" /\ task[t].peer \in Peer /\ k \in 1 .. 5 /\ task[t].out = {}
      /\ task[t] \in Tasks /\ TaskWell(task[t])
  BY <1>1, AtTask DEF TaskWell
<1>3. TablesWell' /\ WorldWell'
  BY DEF ReadTable, tables, sent, bounds, TypeInv, TablesWell, WorldWell
<1>4. CASE /\ \A i \in Stage[k] : Replayed(i) = None
           /\ NextTable(t)
  <2> HIDE DEF k
  <2> QED
    BY <1>1, <1>2, <1>3, <1>4, NextTableStep DEF TypeInv, k
<1>5. CASE task' = [task EXCEPT ![t].pc = "send", ![t].val = v]
  <2> DEFINE j == [task[t] EXCEPT !.pc = "send", !.val = v]
  <2>1. task' = [task EXCEPT ![t] = j]
    BY <1>5 DEF TypeInv, TasksWell
  <2>2. v \in [Stage[k] -> Content] /\ Stage[k] \subseteq Item
    BY <1>2, Stages, ReplayedWell
  <2>3. \A i \in Stage[k] : /\ v[i] \in Holds(i) \cup {None}
                            /\ i \in Resource /\ v[i] # None => ~v[i].preload
    BY <2>2, ReplayedWell
  <2> HIDE DEF v
  <2>4. v \in Values
    <3>1. k \in 1 .. 5 /\ v \in [Stage[k] -> Content]
      BY <1>2, <2>2
    <3> HIDE DEF k
    <3>2. v \in UNION {[Stage[n] -> Content] : n \in 1 .. 5}
      BY <3>1, Zenon
    <3> QED
      BY <3>2 DEF Values
  <2>5. /\ j \in Tasks /\ j.pc = "send" /\ j.out = {} /\ j.peer = task[t].peer
        /\ j.item = task[t].item /\ j.val = v /\ j.stage = k
    BY <1>2, <2>4 DEF Tasks, PC
  <2> HIDE DEF j
  <2>6. TaskWell(j)
    BY <1>2, <2>2, <2>3, <2>5 DEF TaskWell, NamePC, ResourcePC, RemovalPC, ObjectPC, SpherePC, LeavePC
  <2> QED
    BY <1>1, <1>2, <1>3, <2>1, <2>5, <2>6, OneTask DEF TypeInv, LooksUp, v
<1> QED
  BY <1>4, <1>5 DEF ReadTable

LEMMA SendTableStep ==
  ASSUME TypeInv, NEW t \in Task, SendTable(t)
  PROVE  /\ TypeInv' /\ At(t, "send") /\ task[t].peer \in Peer /\ task[t].stage \in 1 .. 5
         /\ \A u \in Task \ {t} : task'[u] = task[u]
         /\ \/ task[t].stage = 5 /\ task'[t] = Idle
            \/ task[t].stage \in 1 .. 4 /\ LooksUp(t, "read", None, task[t].stage + 1)
         /\ \A q \in Peer, i \in Item :
              told'[q][i] = IF q = task[t].peer /\ q \in live /\ i \in Stage[task[t].stage]
                               /\ task[t].val[i] # None
                              THEN task[t].val[i] ELSE told[q][i]
<1> DEFINE k == task[t].stage
           p == task[t].peer
           v == task[t].val
<1>1. At(t, "send") /\ "send" \in PC \ {"idle"} /\ NextTable(t)
  BY DEF SendTable, PC
<1>2. /\ task[t].pc = "send" /\ p \in Peer /\ k \in 1 .. 5 /\ task[t].out = {}
      /\ v \in [Stage[k] -> Content]
      /\ \A i \in Stage[k] : v[i] \in Holds(i) \cup {None}
  BY <1>1, AtTask DEF TaskWell
<1>3. /\ told' \in [Peer -> [Item -> Content]]
      /\ \A q \in Peer, i \in Item :
           told'[q][i] = IF q = p /\ q \in live /\ i \in Stage[k] /\ v[i] # None
                           THEN v[i] ELSE told[q][i]
  <2>1. CASE p \notin live
    <3>1. told' = told
      BY <2>1 DEF SendTable, sent
    <3> QED
      BY <2>1, <3>1 DEF TypeInv, TablesWell
  <2>2. CASE p \in live
    <3> DEFINE S == {i \in Stage[k] : v[i] # None}
    <3>1. told' = [told EXCEPT ![p] = [i \in Item |-> IF i \in S THEN v[i] ELSE @[i]]]
      BY <2>2 DEF SendTable
    <3>2. \A i \in S : v[i] \in Content /\ v[i] # None /\ i \in Stage[k]
      BY <1>2
    <3>3. \A i \in Stage[k] : v[i] # None => i \in S
      OBVIOUS
    <3>4. told \in [Peer -> [Item -> Content]]
      BY DEF TypeInv, TablesWell
    <3> HIDE DEF S, k, v, p
    <3> QED
      BY <1>2, <2>2, <3>1, <3>2, <3>3, <3>4
  <2> QED
    BY <2>1, <2>2
<1>4. TablesWell' /\ WorldWell'
  <2>1. \A q \in Peer, i \in Item : told'[q][i] \in Holds(i) \cup {None}
    BY <1>2, <1>3 DEF TypeInv, TablesWell
  <2> QED
    BY <1>3, <2>1 DEF SendTable, tables, bounds, TypeInv, TablesWell, WorldWell
<1> QED
  BY <1>1, <1>2, <1>3, <1>4, NextTableStep DEF TypeInv

LEMMA TakeAwayStep ==
  ASSUME TypeInv, NEW t \in Task, NEW pc \in {"disown", "unshare"},
         NEW then \in LeavePC \ {"reset_resources"}, NEW S \in SUBSET Item, TakeAway(t, pc, then, S, None)
  PROVE  /\ TypeInv' /\ At(t, pc) /\ task[t].peer \in Peer
         /\ Steps(t, then, UNION {BroadcastExcept(task[t].peer, i, None) : i \in S})
<1> DEFINE p == task[t].peer
           out == UNION {BroadcastExcept(p, i, None) : i \in S}
<1>1. /\ At(t, pc) /\ pc \in PC \ {"idle"} /\ Goto(t, then, out)
      /\ world' = [i \in Item |-> IF i \in S THEN None ELSE world[i]]
  BY DEF TakeAway, Change, PC, LeavePC
<1>2. p \in Peer /\ task[t].pc # "idle"
  BY <1>1, AtTask
<1>3. \A i \in S : \A m \in BroadcastExcept(p, i, None) : m \in Messages /\ MessageWell(m)
  <2> HIDE DEF p
  <2> QED
    BY <1>2, GoodMessages
<1>4. out \in SUBSET Messages /\ \A m \in out : MessageWell(m)
  BY <1>3
<1> HIDE DEF out
<1>5. TasksWell' /\ Steps(t, then, out)
  BY <1>1, <1>2, <1>4, Going DEF LeavePC, GotoPC, OfResource
<1>6. WorldWell'
  BY <1>1, ChangeWell
<1>7. TablesWell'
  BY DEF TakeAway, sent, bounds, TypeInv, TablesWell
<1> QED
  BY <1>1, <1>2, <1>5, <1>6, <1>7 DEF TypeInv, out

\* What is the player's own
Owned(p, S) == {i \in S : world[i] = p}

LEMMA DisownStep ==
  ASSUME TypeInv, NEW t \in Task, Disown(t)
  PROVE  /\ TypeInv' /\ At(t, "disown") /\ task[t].peer \in Peer
         /\ Steps(t, "unshare", UNION {BroadcastExcept(task[t].peer, i, None) :
                                         i \in Owned(task[t].peer, Object)})
         /\ Change(t, Owned(task[t].peer, Object), None)
<1>1. TakeAway(t, "disown", "unshare", Owned(task[t].peer, Object), None)
  BY DEF Disown, Owned
<1>2. Owned(task[t].peer, Object) \in SUBSET Item /\ "unshare" \in LeavePC \ {"reset_resources"}
  BY DEF Owned, Item, LeavePC
<1> QED
  BY <1>1, <1>2, TakeAwayStep DEF TakeAway

LEMMA UnshareStep ==
  ASSUME TypeInv, NEW t \in Task, Unshare(t)
  PROVE  /\ TypeInv' /\ At(t, "unshare") /\ task[t].peer \in Peer
         /\ Steps(t, "unwatch", UNION {BroadcastExcept(task[t].peer, i, None) :
                                         i \in Owned(task[t].peer, Sphere)})
         /\ Change(t, Owned(task[t].peer, Sphere), None)
<1>1. TakeAway(t, "unshare", "unwatch", Owned(task[t].peer, Sphere), None)
  BY DEF Unshare, Owned
<1>2. Owned(task[t].peer, Sphere) \in SUBSET Item /\ "unwatch" \in LeavePC \ {"reset_resources"}
  BY DEF Owned, Item, LeavePC
<1> QED
  BY <1>1, <1>2, TakeAwayStep DEF TakeAway

LEMMA RemoveCameraStep ==
  ASSUME TypeInv, NEW t \in Task, RemoveCamera(t)
  PROVE  /\ TypeInv' /\ At(t, "unwatch") /\ task[t].peer \in Peer
         /\ Steps(t, "forget", IF world[task[t].peer] = "on"
                                 THEN BroadcastExcept(task[t].peer, task[t].peer, "off") ELSE {})
<1> DEFINE p == task[t].peer
           out == IF world[p] = "on" THEN BroadcastExcept(p, p, "off") ELSE {}
<1>1. /\ At(t, "unwatch") /\ "unwatch" \in PC \ {"idle"} /\ Goto(t, "forget", out)
      /\ world' = [world EXCEPT ![p] = None]
  BY DEF RemoveCamera, PC, LeavePC
<1>2. p \in Peer /\ p \in Item /\ task[t].pc # "idle" /\ p \notin Resource /\ "off" \in Holds(p)
  BY <1>1, AtTask, Kinds, HoldsKinds
<1>3. out \in SUBSET Messages /\ \A m \in out : MessageWell(m)
  <2> HIDE DEF p
  <2> QED
    BY <1>2, GoodMessages
<1> HIDE DEF out
<1>4. TasksWell' /\ Steps(t, "forget", out)
  BY <1>1, <1>2, <1>3, Going DEF LeavePC, GotoPC, OfResource
<1>5. WorldWell'
  <2> HIDE DEF p
  <2> QED
    BY <1>1, <1>2, OneChange
<1>6. TablesWell'
  BY DEF RemoveCamera, sent, bounds, TypeInv, TablesWell
<1> QED
  BY <1>1, <1>2, <1>4, <1>5, <1>6 DEF TypeInv, out

LEMMA RemovePeerStep ==
  ASSUME TypeInv, NEW t \in Task, RemovePeer(t)
  PROVE  /\ TypeInv' /\ At(t, "forget") /\ task[t].peer \in Peer
         /\ Steps(t, IF task[t].peer \in known THEN "unpreload" ELSE "recycle", {})
<1> DEFINE pc == IF task[t].peer \in known THEN "unpreload" ELSE "recycle"
<1>1. At(t, "forget") /\ "forget" \in PC \ {"idle"} /\ Goto(t, pc, {})
      /\ pc \in LeavePC \ {"reset_resources"}
  BY DEF RemovePeer, PC, LeavePC
<1>2. task[t].peer \in Peer /\ task[t].pc # "idle"
  BY <1>1, AtTask
<1> HIDE DEF pc
<1>3. TasksWell' /\ Steps(t, pc, {})
  BY <1>1, <1>2, Going DEF LeavePC, GotoPC, OfResource
<1>4. TablesWell' /\ WorldWell'
  BY DEF RemovePeer, tables, sent, bounds, TypeInv, TablesWell, WorldWell
<1> QED
  BY <1>1, <1>2, <1>3, <1>4 DEF TypeInv, pc

\* The answers that count, and how many are needed, once the player of t has left
Left(t, r)  == preload[r].answered \ {task[t].peer}
Total(r)    == IF preload[r].total <= 1 THEN 0 ELSE preload[r].total - 1
Complete(t) == {r \in Resource : preload[r] # None /\ Cardinality(Left(t, r)) >= Total(r)}

LEMMA RemovePreloadPeerStep ==
  ASSUME TypeInv, NEW t \in Task, RemovePreloadPeer(t)
  PROVE  /\ TypeInv' /\ At(t, "unpreload") /\ task[t].peer \in Peer /\ Peer # {}
         /\ Steps(t, "is_empty", UNION {Spawn(r) : r \in Complete(t)})
         /\ SpawnRace(t, Complete(t))
         /\ \A r \in Resource :
              preload'[r] = IF r \in Complete(t) \/ preload[r] = None THEN None
                            ELSE [answered |-> Left(t, r), total |-> Total(r)]
<1> DEFINE out == UNION {Spawn(r) : r \in Complete(t)}
<1>1. /\ At(t, "unpreload") /\ "unpreload" \in PC \ {"idle"} /\ Goto(t, "is_empty", out)
      /\ SpawnRace(t, Complete(t))
      /\ preload' = [r \in Resource |->
            IF r \in Complete(t) \/ preload[r] = None THEN None
            ELSE [answered |-> Left(t, r), total |-> Total(r)]]
  BY DEF RemovePreloadPeer, Leaving, Left, Total, Complete, PC, LeavePC
<1>2. task[t].peer \in Peer /\ task[t].pc # "idle" /\ Peer # {}
  BY <1>1, AtTask
<1>3. \A r \in Complete(t) : \A m \in Spawn(r) : m \in Messages /\ MessageWell(m)
  BY <1>2, Spawns, Kinds DEF MessageWell, Complete
<1>4. out \in SUBSET Messages /\ \A m \in out : MessageWell(m)
  BY <1>3
<1> HIDE DEF out
<1>5. TasksWell' /\ Steps(t, "is_empty", out)
  BY <1>1, <1>2, <1>4, Going DEF LeavePC, GotoPC, OfResource
<1>6. preload' \in [Resource -> Session \cup {None}]
  <2>1. ASSUME NEW r \in Resource, preload[r] # None
        PROVE  [answered |-> Left(t, r), total |-> Total(r)] \in Session
    <3>1. preload[r] \in Session /\ Cardinality(Peer) \in Nat
      BY <2>1, PeerAssumption, FS_CardinalityType DEF TypeInv, TablesWell
    <3>2. Left(t, r) \in SUBSET Peer /\ Total(r) \in 0 .. Cardinality(Peer)
      BY <3>1 DEF Session, Left, Total
    <3> QED
      BY <3>2 DEF Session
  <2> QED
    BY <1>1, <2>1
<1>7. TablesWell' /\ WorldWell'
  BY <1>6 DEF RemovePreloadPeer, Leaving, sent, bounds, TypeInv, TablesWell, WorldWell
<1> QED
  BY <1>1, <1>2, <1>5, <1>7 DEF TypeInv, out

LEMMA IsEmptyStep ==
  ASSUME TypeInv, NEW t \in Task, IsEmpty(t)
  PROVE  /\ TypeInv' /\ At(t, "is_empty") /\ task[t].peer \in Peer
         /\ Steps(t, IF known = {} THEN "list_ids" ELSE "recycle", {})
<1> DEFINE pc == IF known = {} THEN "list_ids" ELSE "recycle"
<1>1. /\ At(t, "is_empty") /\ "is_empty" \in PC \ {"idle"} /\ Goto(t, pc, {})
      /\ pc \in LeavePC \ {"reset_resources"}
  BY DEF IsEmpty, PC, LeavePC
<1>2. task[t].peer \in Peer /\ task[t].pc # "idle"
  BY <1>1, AtTask
<1> HIDE DEF pc
<1>3. TasksWell' /\ Steps(t, pc, {})
  BY <1>1, <1>2, Going DEF LeavePC, GotoPC, OfResource, ResourcePC
<1>4. TablesWell' /\ WorldWell'
  BY DEF IsEmpty, tables, sent, bounds, TypeInv, TablesWell, WorldWell
<1> QED
  BY <1>1, <1>2, <1>3, <1>4 DEF TypeInv, pc

\* What the last player takes with it
NotPersistent == {r \in Present(Resource) : ~world[r].persist}

LEMMA ListTransientStep ==
  ASSUME TypeInv, NEW t \in Task, ListTransient(t)
  PROVE  /\ TypeInv' /\ At(t, "list_ids") /\ task[t].peer \in Peer
         /\ LooksUp(t, "reset_resources", NotPersistent, task[t].stage)
<1>1. /\ List(t, "list_ids", "reset_resources", NotPersistent) /\ At(t, "list_ids")
      /\ "list_ids" \in PC \ {"idle"}
  BY DEF ListTransient, NotPersistent, List, PC, LeavePC
<1>2. task[t].peer \in Peer /\ task[t].pc # "idle"
  BY <1>1, AtTask
<1>3. NotPersistent \in SUBSET Resource
  BY DEF NotPersistent, Present
<1> QED
  BY <1>1, <1>2, <1>3, ListStep

LEMMA ResetResourcesStep ==
  ASSUME TypeInv, NEW t \in Task, ResetResources(t)
  PROVE  /\ TypeInv' /\ At(t, "reset_resources") /\ task[t].peer \in Peer
         /\ task[t].val \in SUBSET Resource /\ Listed(t) \subseteq Resource
         /\ Steps(t, "reset_names", Removals(t)) /\ Change(t, Listed(t), None)
  BY RemoveListedStep DEF ResetResources

LEMMA ResetNamesStep ==
  ASSUME TypeInv, NEW t \in Task, ResetNames(t)
  PROVE  /\ TypeInv' /\ At(t, "reset_names") /\ task[t].peer \in Peer
         /\ Steps(t, "reset_counter", {}) /\ Clear(t, Name)
<1>1. /\ At(t, "reset_names") /\ "reset_names" \in PC \ {"idle"} /\ Goto(t, "reset_counter", {})
      /\ Clear(t, Name)
  BY DEF ResetNames, ResetBy, PC, LeavePC
<1>2. task[t].peer \in Peer /\ task[t].pc # "idle"
  BY <1>1, AtTask
<1>3. TasksWell' /\ Steps(t, "reset_counter", {})
  BY <1>1, <1>2, Going DEF LeavePC, GotoPC, OfResource
<1>4. WorldWell'
  BY <1>1, ChangeWell DEF Clear, Item
<1>5. TablesWell'
  BY DEF ResetNames, ResetBy, sent, bounds, TypeInv, TablesWell
<1> QED
  BY <1>1, <1>2, <1>3, <1>4, <1>5 DEF TypeInv

LEMMA ResetTablesStep ==
  ASSUME TypeInv, NEW t \in Task, ResetTables(t)
  PROVE  /\ TypeInv' /\ At(t, "reset_tables") /\ task[t].peer \in Peer
         /\ Steps(t, "recycle", {}) /\ Clear(t, Object \cup Sphere \cup Peer)
<1>1. /\ At(t, "reset_tables") /\ "reset_tables" \in PC \ {"idle"} /\ Goto(t, "recycle", {})
      /\ Clear(t, Object \cup Sphere \cup Peer)
  BY DEF ResetTables, PC, LeavePC
<1>2. task[t].peer \in Peer /\ task[t].pc # "idle"
  BY <1>1, AtTask
<1>3. TasksWell' /\ Steps(t, "recycle", {})
  BY <1>1, <1>2, Going DEF LeavePC, GotoPC, OfResource
<1>4. WorldWell'
  BY <1>1, ChangeWell DEF Clear, Item
<1>5. TablesWell'
  BY DEF ResetTables, sent, bounds, TypeInv, TablesWell
<1> QED
  BY <1>1, <1>2, <1>3, <1>4, <1>5 DEF TypeInv

LEMMA ResetCounterStep ==
  ASSUME TypeInv, NEW t \in Task, ResetCounter(t)
  PROVE  /\ TypeInv' /\ At(t, "reset_counter") /\ task[t].peer \in Peer
         /\ Steps(t, "reset_tables", {})
<1>1. /\ At(t, "reset_counter") /\ "reset_counter" \in PC \ {"idle"}
      /\ Goto(t, "reset_tables", {})
  BY DEF ResetCounter, PC, LeavePC
<1>2. task[t].peer \in Peer /\ task[t].pc # "idle"
  BY <1>1, AtTask
<1>3. TasksWell' /\ Steps(t, "reset_tables", {})
  BY <1>1, <1>2, Going DEF LeavePC, GotoPC, OfResource
<1>4. 0 \in NetId
  BY IdSpaceAssumption DEF NetId
<1>5. TablesWell' /\ WorldWell'
  BY <1>4 DEF ResetCounter, sent, bounds, TypeInv, TablesWell, WorldWell
<1> QED
  BY <1>1, <1>2, <1>3, <1>5 DEF TypeInv

LEMMA RecycleStep ==
  ASSUME TypeInv, NEW t \in Task, Recycle(t)
  PROVE  /\ TypeInv' /\ At(t, "recycle") /\ task[t].peer \in Peer /\ Steps(t, "done", {})
<1>1. At(t, "recycle") /\ "recycle" \in PC \ {"idle"} /\ task' = [task EXCEPT ![t] = Idle]
  BY DEF Recycle, PC, LeavePC
<1>2. TablesWell' /\ WorldWell'
  BY DEF Recycle, tables, sent, bounds, TypeInv, TablesWell, WorldWell
<1>3. task[t].peer \in Peer
  BY <1>1, AtTask
<1>4. TasksWell' /\ task'[t] = Idle /\ \A u \in Task \ {t} : task'[u] = task[u]
  BY <1>1, IdleTask, OneTask
<1> QED
  BY <1>1, <1>2, <1>3, <1>4 DEF TypeInv, Steps

-----------------------------------------------------------------------------
(* What the steps have in common *)

HandlerPC == NamePC \cup ResourcePC \cup ObjectPC \cup SpherePC \cup {"camera"}

\* Every item stays as it is, goes, or is taken by the player of t; if that player has no
\* connection, it is late.
Keeps(t) ==
  \A i \in Item :
    \/ world'[i] = None
    \/ world'[i] = world[i] /\ (i \in late => i \in late') /\ (i \in raced => i \in raced')
    \/ /\ i \in Object \cup Sphere => world'[i] = task[t].peer
       /\ i \in Peer => i = task[t].peer
       /\ task[t].peer \in live \/ i \in late'

LEMMA SameKeeps ==
  ASSUME NEW t \in Task, UNCHANGED <<world, late>>, raced \subseteq raced'
  PROVE  Keeps(t)
  BY DEF Keeps

LEMMA ChangeKeeps ==
  ASSUME NEW t \in Task, NEW S \in SUBSET Item, Change(t, S, None), UNCHANGED late
  PROVE  Keeps(t)
  BY DEF Keeps, Change

LEMMA ClearKeeps ==
  ASSUME NEW t \in Task, NEW S \in SUBSET Item, Clear(t, S), UNCHANGED late
  PROVE  Keeps(t)
  BY DEF Keeps, Clear

LEMMA TakeKeeps ==
  ASSUME TypeInv, NEW t \in Task, NEW i \in Item, NEW v,
         i \in Object \cup Sphere => v = task[t].peer,
         i \in Peer => i = task[t].peer,
         Take(t, i, v) \/ TakeQuietly(t, i, v)
  PROVE  Keeps(t)
<1>1. \A j \in Item : world'[j] = IF j = i THEN v ELSE world[j]
  BY DEF Take, TakeQuietly, Change, TypeInv, WorldWell
<1>2. \A j \in Item \ {i} : (j \in raced => j \in raced') /\ (j \in late => j \in late')
  BY DEF Take, TakeQuietly, TakenBy, Change
<1>3. task[t].peer \in live \/ i \in late'
  BY DEF Take, TakeQuietly, TakenBy
<1> QED
  BY <1>1, <1>2, <1>3 DEF Keeps

Handling(t) ==
  /\ TypeInv' /\ \A u \in Task \ {t} : task'[u] = task[u]
  /\ task[t].pc \in HandlerPC /\ task[t].out = {}
  /\ task'[t].pc \in HandlerPC \cup {"idle", "done"}
  /\ UNCHANGED <<live, known, sent, bounds>>
  /\ Keeps(t)

LEMMA HandlerSteps ==
  ASSUME TypeInv, NEW t \in Task, Handle(t)
  PROVE  Handling(t)
<1> USE DEF HandlerPC, NamePC, ResourcePC, RemovalPC, ObjectPC, SpherePC
<1>1. CASE NetIdExisted(t)
  <2> USE <1>1, NetIdExistedStep
  <2>1. /\ TypeInv' /\ \A u \in Task \ {t} : task'[u] = task[u]
        /\ task[t].pc \in HandlerPC /\ task[t].out = {}
        /\ task'[t].pc \in HandlerPC \cup {"idle", "done"}
    BY IdleTask DEF At, Steps, LooksUp
  <2>2. Keeps(t)
    BY SameKeeps DEF NetIdExisted, history, tables
  <2> QED
    BY <2>1, <2>2 DEF Handling, NetIdExisted
<1>2. CASE AddOrFind(t)
  <2> USE <1>2, AddOrFindStep
  <2>1. /\ TypeInv' /\ \A u \in Task \ {t} : task'[u] = task[u]
        /\ task[t].pc \in HandlerPC /\ task[t].out = {}
        /\ task'[t].pc \in HandlerPC \cup {"idle", "done"}
    BY IdleTask DEF At, Steps, LooksUp
  <2>2. Keeps(t)
    <3>1. CASE UNCHANGED <<world, raced, late>>
      BY <3>1, SameKeeps
    <3>2. CASE \E id \in NetId : Take(t, task[t].item, id)
      BY <3>2, Kinds, TakeKeeps
    <3> QED
      BY <3>1, <3>2
  <2> QED
    BY <2>1, <2>2 DEF Handling, AddOrFind, Assign
<1>3. CASE Load(t)
  <2> USE <1>3, LoadStep
  <2>1. /\ TypeInv' /\ \A u \in Task \ {t} : task'[u] = task[u]
        /\ task[t].pc \in HandlerPC /\ task[t].out = {}
        /\ task'[t].pc \in HandlerPC \cup {"idle", "done"}
    BY IdleTask DEF At, Steps, LooksUp
  <2>2. Keeps(t)
    BY SameKeeps DEF Load, history, tables
  <2> QED
    BY <2>1, <2>2 DEF Handling, Load
<1>4. CASE LoadResource(t)
  <2> USE <1>4, LoadResourceStep
  <2>1. /\ TypeInv' /\ \A u \in Task \ {t} : task'[u] = task[u]
        /\ task[t].pc \in HandlerPC /\ task[t].out = {}
        /\ task'[t].pc \in HandlerPC \cup {"idle", "done"}
    BY IdleTask DEF At, Steps, LooksUp
  <2>2. Keeps(t)
    <3>1. CASE UNCHANGED <<world, raced, late>>
      BY <3>1, SameKeeps
    <3>2. CASE Take(t, task[t].item, task[t].val)
      BY <3>2, Kinds, TakeKeeps
    <3> QED
      BY <3>1, <3>2
  <2> QED
    BY <2>1, <2>2 DEF Handling, LoadResource
<1>5. CASE InsertSession(t)
  <2> USE <1>5, InsertSessionStep
  <2>1. /\ TypeInv' /\ \A u \in Task \ {t} : task'[u] = task[u]
        /\ task[t].pc \in HandlerPC /\ task[t].out = {}
        /\ task'[t].pc \in HandlerPC \cup {"idle", "done"}
    BY IdleTask DEF At, Steps, LooksUp
  <2>2. Keeps(t)
    BY SameKeeps DEF InsertSession, history, tables
  <2> QED
    BY <2>1, <2>2 DEF Handling, InsertSession
<1>6. CASE Unload(t)
  <2> USE <1>6, UnloadStep
  <2>1. /\ TypeInv' /\ \A u \in Task \ {t} : task'[u] = task[u]
        /\ task[t].pc \in HandlerPC /\ task[t].out = {}
        /\ task'[t].pc \in HandlerPC \cup {"idle", "done"}
    BY IdleTask DEF At, Steps, LooksUp
  <2>2. Keeps(t)
    BY SameKeeps DEF Unload, history, tables
  <2> QED
    BY <2>1, <2>2 DEF Handling, Unload
<1>7. CASE RemoveResource(t)
  <2> USE <1>7, RemoveResourceStep
  <2>1. /\ TypeInv' /\ \A u \in Task \ {t} : task'[u] = task[u]
        /\ task[t].pc \in HandlerPC /\ task[t].out = {}
        /\ task'[t].pc \in HandlerPC \cup {"idle", "done"}
    BY IdleTask DEF At, Steps, LooksUp
  <2>2. Keeps(t)
    <3>1. CASE UNCHANGED <<world, raced>>
      BY <3>1, SameKeeps DEF RemoveResource
    <3>2. CASE world' = [world EXCEPT ![task[t].item] = None] /\ UNCHANGED raced
      BY <3>2 DEF Keeps, RemoveResource, TypeInv, WorldWell
    <3>3. CASE Change(t, {task[t].item}, None)
      BY <3>3, Kinds, ChangeKeeps DEF RemoveResource
    <3> QED
      BY <3>1, <3>2, <3>3
  <2> QED
    BY <2>1, <2>2 DEF Handling, RemoveResource
<1>8. CASE PutBack(t)
  <2> USE <1>8, PutBackStep
  <2>1. /\ TypeInv' /\ \A u \in Task \ {t} : task'[u] = task[u]
        /\ task[t].pc \in HandlerPC /\ task[t].out = {}
        /\ task'[t].pc \in HandlerPC \cup {"idle", "done"}
    BY IdleTask DEF At, Steps, LooksUp
  <2>2. Keeps(t)
    <3>1. \A i \in Item \ {task[t].item} : world'[i] = world[i]
      BY DEF PutBack, TypeInv, WorldWell
    <3>2. UNCHANGED raced /\ late \subseteq late'
      BY DEF PutBack
    <3>3. world'[task[t].item] = world[task[t].item] \/ task[t].peer \in live
          \/ task[t].item \in late'
      BY DEF PutBack
    <3> QED
      BY <3>1, <3>2, <3>3, Kinds DEF Keeps
  <2> QED
    BY <2>1, <2>2 DEF Handling, PutBack
<1>9. CASE MarkReady(t)
  <2> USE <1>9, MarkReadyStep
  <2>1. /\ TypeInv' /\ \A u \in Task \ {t} : task'[u] = task[u]
        /\ task[t].pc \in HandlerPC /\ task[t].out = {}
        /\ task'[t].pc \in HandlerPC \cup {"idle", "done"}
    BY IdleTask DEF At, Steps, LooksUp
  <2>2. Keeps(t)
    BY SameKeeps DEF MarkReady, SpawnRace, history, tables
  <2> QED
    BY <2>1, <2>2 DEF Handling, MarkReady
<1>10. CASE UnloadScenes(t)
  <2> USE <1>10, UnloadScenesStep
  <2>1. /\ TypeInv' /\ \A u \in Task \ {t} : task'[u] = task[u]
        /\ task[t].pc \in HandlerPC /\ task[t].out = {}
        /\ task'[t].pc \in HandlerPC \cup {"idle", "done"}
    BY IdleTask DEF At, Steps, LooksUp
  <2>2. Keeps(t)
    <3>1. UNCHANGED late /\ Listed(t) \in SUBSET Item
      BY DEF UnloadScenes, RemoveListed, Item
    <3> QED
      BY <3>1, ChangeKeeps
  <2> QED
    BY <2>1, <2>2 DEF Handling, UnloadScenes, RemoveListed
<1>11. CASE SpawnPreloaded(t)
  <2> USE <1>11, SpawnPreloadedStep
  <2>1. /\ TypeInv' /\ \A u \in Task \ {t} : task'[u] = task[u]
        /\ task[t].pc \in HandlerPC /\ task[t].out = {}
        /\ task'[t].pc \in HandlerPC \cup {"idle", "done"}
    BY IdleTask DEF At, Steps, LooksUp
  <2>2. Keeps(t)
    BY SameKeeps DEF SpawnPreloaded, history, tables
  <2> QED
    BY <2>1, <2>2 DEF Handling, SpawnPreloaded
<1>12. CASE GetOwner(t)
  <2> USE <1>12, GetOwnerStep
  <2>1. /\ TypeInv' /\ \A u \in Task \ {t} : task'[u] = task[u]
        /\ task[t].pc \in HandlerPC /\ task[t].out = {}
        /\ task'[t].pc \in HandlerPC \cup {"idle", "done"}
    BY IdleTask DEF At, Steps, LooksUp
  <2>2. Keeps(t)
    <3>1. CASE UNCHANGED <<world, raced, late>>
      BY <3>1, SameKeeps
    <3>2. CASE TakeQuietly(t, task[t].item, task[t].peer)
      BY <3>2, Kinds, TakeKeeps
    <3> QED
      BY <3>1, <3>2
  <2> QED
    BY <2>1, <2>2 DEF Handling, GetOwner
<1>13. CASE ChangeOwner(t)
  <2> USE <1>13, ChangeOwnerStep
  <2>1. /\ TypeInv' /\ \A u \in Task \ {t} : task'[u] = task[u]
        /\ task[t].pc \in HandlerPC /\ task[t].out = {}
        /\ task'[t].pc \in HandlerPC \cup {"idle", "done"}
    BY IdleTask DEF At, Steps, LooksUp
  <2>2. Keeps(t)
    BY Kinds, TakeKeeps DEF ChangeOwner
  <2> QED
    BY <2>1, <2>2 DEF Handling, ChangeOwner
<1>14. CASE RemoveOwner(t)
  <2> USE <1>14, RemoveOwnerStep
  <2>1. /\ TypeInv' /\ \A u \in Task \ {t} : task'[u] = task[u]
        /\ task[t].pc \in HandlerPC /\ task[t].out = {}
        /\ task'[t].pc \in HandlerPC \cup {"idle", "done"}
    BY IdleTask DEF At, Steps, LooksUp
  <2>2. Keeps(t)
    <3>1. CASE UNCHANGED <<world, raced>>
      BY <3>1, SameKeeps DEF RemoveOwner
    <3>2. CASE Change(t, {task[t].item}, None)
      BY <3>2, Kinds, ChangeKeeps DEF RemoveOwner
    <3> QED
      BY <3>1, <3>2
  <2> QED
    BY <2>1, <2>2 DEF Handling, RemoveOwner
<1>15. CASE Share(t)
  <2> USE <1>15, ShareStep
  <2>1. /\ TypeInv' /\ \A u \in Task \ {t} : task'[u] = task[u]
        /\ task[t].pc \in HandlerPC /\ task[t].out = {}
        /\ task'[t].pc \in HandlerPC \cup {"idle", "done"}
    BY IdleTask DEF At, Steps, LooksUp
  <2>2. Keeps(t)
    <3>1. CASE UNCHANGED <<world, raced, late>>
      BY <3>1, SameKeeps
    <3>2. CASE Take(t, task[t].item, task[t].peer)
      BY <3>2, Kinds, TakeKeeps
    <3> QED
      BY <3>1, <3>2
  <2> QED
    BY <2>1, <2>2 DEF Handling, Share
<1>16. CASE ShareCleanup(t)
  <2> USE <1>16, ShareCleanupStep
  <2>1. /\ TypeInv' /\ \A u \in Task \ {t} : task'[u] = task[u]
        /\ task[t].pc \in HandlerPC /\ task[t].out = {}
        /\ task'[t].pc \in HandlerPC \cup {"idle", "done"}
    BY IdleTask DEF At, Steps, LooksUp
  <2>2. Keeps(t)
    <3>1. CASE UNCHANGED <<world, raced>>
      BY <3>1, SameKeeps DEF ShareCleanup
    <3>2. CASE Change(t, {task[t].item}, None)
      BY <3>2, Kinds, ChangeKeeps DEF ShareCleanup
    <3> QED
      BY <3>1, <3>2
  <2> QED
    BY <2>1, <2>2 DEF Handling, ShareCleanup
<1>17. CASE CameraState(t)
  <2> USE <1>17, CameraStateStep
  <2>1. /\ TypeInv' /\ \A u \in Task \ {t} : task'[u] = task[u]
        /\ task[t].pc \in HandlerPC /\ task[t].out = {}
        /\ task'[t].pc \in HandlerPC \cup {"idle", "done"}
    BY IdleTask DEF At, Steps, LooksUp
  <2>2. Keeps(t)
    <3>1. CASE UNCHANGED <<world, raced, late>>
      BY <3>1, SameKeeps
    <3>2. CASE Take(t, task[t].peer, task[t].val)
      BY <3>2, Kinds, TakeKeeps
    <3> QED
      BY <3>1, <3>2
  <2> QED
    BY <2>1, <2>2 DEF Handling, CameraState
<1>18. CASE CollectPeers(t)
  <2> USE <1>18, CollectPeersStep
  <2>1. /\ TypeInv' /\ \A u \in Task \ {t} : task'[u] = task[u]
        /\ task[t].pc \in HandlerPC /\ task[t].out = {}
        /\ task'[t].pc \in HandlerPC \cup {"idle", "done"}
    BY IdleTask DEF At, Steps, LooksUp
  <2>2. Keeps(t)
    BY SameKeeps DEF CollectPeers, history, tables
  <2> QED
    BY <2>1, <2>2 DEF Handling, CollectPeers
<1>19. CASE FindScene(t)
  <2> USE <1>19, FindSceneStep
  <2>1. /\ TypeInv' /\ \A u \in Task \ {t} : task'[u] = task[u]
        /\ task[t].pc \in HandlerPC /\ task[t].out = {}
        /\ task'[t].pc \in HandlerPC \cup {"idle", "done"}
    BY IdleTask DEF At, Steps, LooksUp
  <2>2. Keeps(t)
    BY SameKeeps DEF FindScene, history, tables
  <2> QED
    BY <2>1, <2>2 DEF Handling, FindScene
<1>20. CASE ListScenes(t)
  <2> USE <1>20, ListScenesStep
  <2>1. /\ TypeInv' /\ \A u \in Task \ {t} : task'[u] = task[u]
        /\ task[t].pc \in HandlerPC /\ task[t].out = {}
        /\ task'[t].pc \in HandlerPC \cup {"idle", "done"}
    BY IdleTask DEF At, Steps, LooksUp
  <2>2. Keeps(t)
    BY SameKeeps DEF ListScenes, List, history, tables
  <2> QED
    BY <2>1, <2>2 DEF Handling, ListScenes, List
<1> QED
  BY <1>1, <1>2, <1>3, <1>4, <1>5, <1>6, <1>7, <1>8, <1>9, <1>10, <1>11, <1>12, <1>13, <1>14,
     <1>15, <1>16, <1>17, <1>18, <1>19, <1>20 DEF Handle

LEMMA LeaveSteps ==
  ASSUME TypeInv, NEW t \in Task, LeaveStep(t)
  PROVE  /\ TypeInv' /\ \A u \in Task \ {t} : task'[u] = task[u]
         /\ task[t].pc \in LeavePC /\ task[t].out = {} /\ task[t].peer \in Peer
         /\ \/ task'[t] = Idle
            \/ task'[t].pc \in LeavePC /\ task'[t].peer = task[t].peer
         /\ UNCHANGED <<live, sent, late, bounds>>
<1> USE DEF LeavePC, At, Steps
<1>1. CASE Disown(t)
  BY <1>1, DisownStep DEF Disown, TakeAway
<1>2. CASE Unshare(t)
  BY <1>2, UnshareStep DEF Unshare, TakeAway
<1>3. CASE RemoveCamera(t)
  BY <1>3, RemoveCameraStep DEF RemoveCamera
<1>4. CASE RemovePeer(t)
  BY <1>4, RemovePeerStep DEF RemovePeer, tables, history
<1>5. CASE RemovePreloadPeer(t)
  BY <1>5, RemovePreloadPeerStep DEF RemovePreloadPeer, Leaving
<1>6. CASE ResetResources(t)
  BY <1>6, ResetResourcesStep DEF ResetResources, RemoveListed
<1>11. CASE IsEmpty(t)
  BY <1>11, IsEmptyStep DEF IsEmpty, tables, history
<1>12. CASE ListTransient(t)
  BY <1>12, ListTransientStep DEF ListTransient, List, LooksUp, tables, history
<1>7. CASE ResetNames(t)
  BY <1>7, ResetNamesStep DEF ResetNames, ResetBy
<1>8. CASE ResetCounter(t)
  BY <1>8, ResetCounterStep DEF ResetCounter, history
<1>9. CASE ResetTables(t)
  BY <1>9, ResetTablesStep DEF ResetTables
<1>10. CASE Recycle(t)
  BY <1>10, RecycleStep DEF Recycle, tables, history
<1> QED
  BY <1>1, <1>2, <1>3, <1>4, <1>5, <1>6, <1>7, <1>8, <1>9, <1>10, <1>11, <1>12 DEF LeaveStep

LEMMA JoinSteps ==
  ASSUME TypeInv, NEW t \in Task, JoinStep(t)
  PROVE  /\ TypeInv' /\ \A u \in Task \ {t} : task'[u] = task[u]
         /\ task[t].pc \in {"insert", "read", "send"} /\ task[t].out = {} /\ task[t].peer \in Peer
         /\ \/ task'[t] = Idle
            \/ /\ task'[t].pc \in {"read", "send"} /\ task'[t].peer = task[t].peer
               /\ task'[t].out = {}
         /\ UNCHANGED <<live, tables, late, bounds>>
<1> USE DEF At, LooksUp
<1>1. CASE Insert(t)
  BY <1>1, InsertStep DEF Insert, history
<1>2. CASE ReadTable(t)
  BY <1>2, ReadTableStep DEF ReadTable
<1>3. CASE SendTable(t)
  BY <1>3, SendTableStep DEF SendTable, history
<1> QED
  BY <1>1, <1>2, <1>3 DEF JoinStep

LEMMA VisitSteps ==
  ASSUME TypeInv, NEW t \in Task, NEW q \in Peer, NEW m \in task[t].out, Visit(t, q, m)
  PROVE  /\ TypeInv' /\ \A u \in Task \ {t} : task'[u] = task[u]
         /\ task[t].pc # "idle" /\ task'[t].out = Rest(t, q, m)
         /\ \/ task'[t] = Idle /\ task[t].pc = "done"
            \/ /\ task'[t].pc = task[t].pc /\ task'[t].peer = task[t].peer
               /\ task'[t].item = task[t].item /\ task'[t].val = task[t].val
               /\ task'[t].stage = task[t].stage
         /\ UNCHANGED <<live, known, tables, bounds, history>>
<1> DEFINE out == Rest(t, q, m)
<1>1. /\ task[t].pc \in PC /\ task[t].pc # "idle" /\ out \in SUBSET Messages
      /\ Goto(t, task[t].pc, out)
  BY Visited
<1> HIDE DEF out
<1>2. /\ \A u \in Task \ {t} : task'[u] = task[u]
      /\ task'[t].out = out
      /\ \/ task'[t] = Idle /\ task[t].pc = "done"
         \/ /\ task'[t].pc = task[t].pc /\ task'[t].peer = task[t].peer
            /\ task'[t].item = task[t].item /\ task'[t].val = task[t].val
            /\ task'[t].stage = task[t].stage
  <2>1. CASE task[t].pc = "done" /\ out = {}
    BY <1>1, <2>1, GotoStep, IdleTask
  <2>2. CASE ~(task[t].pc = "done" /\ out = {})
    BY <1>1, <2>2, GotoStep
  <2> QED
    BY <2>1, <2>2
<1>3. UNCHANGED <<live, known, tables, bounds, history>>
  BY DEF Visit
<1> QED
  BY <1>1, <1>2, <1>3, TypesVisit DEF out

\* A client sends something.
RequestPC == {"net_id", "load", "unload", "preload_ready", "camera"} \cup ObjectPC \cup SpherePC

LEMMA RequestSteps ==
  ASSUME TypeInv, NEW t \in Task, NEW p \in Peer, Request(t, p)
  PROVE  /\ TypeInv' /\ \A u \in Task \ {t} : task'[u] = task[u]
         /\ task[t] = Idle /\ task'[t].pc \in RequestPC
         /\ task'[t].out = {} /\ task'[t].peer = p /\ p \in live
         /\ UNCHANGED <<live, known, tables, sent, abandoned, history>>
<1>1. TypeInv'
  BY TypesRequest
<1>2. PICK pc \in PC, i \in Item, v \in Content :
        /\ Receive(t, p, pc, i, v)
        /\ \/ pc = "net_id" /\ i \in Name
           \/ pc = "load" /\ i \in Resource /\ v \in LoadKind
           \/ pc = "unload" /\ i \in Resource
           \/ pc = "preload_ready" /\ i \in Resource
           \/ pc \in ObjectPC /\ i \in Object
           \/ pc \in SpherePC /\ i \in Sphere
           \/ pc = "camera" /\ i = p /\ v \in {"on", "off"}
  BY Requests
<1>3. pc \in RequestPC
  BY <1>2 DEF RequestPC
<1>4. /\ task[t] = Idle /\ p \in live
      /\ task'[t].peer = p /\ task'[t].pc = pc /\ task'[t].out = {}
      /\ \A u \in Task \ {t} : task'[u] = task[u]
  BY <1>2, Received
<1>5. UNCHANGED <<live, known, tables, sent, abandoned, history>>
  BY <1>2 DEF Receive
<1> QED
  BY <1>1, <1>3, <1>4, <1>5

LEMMA RequestHandled == RequestPC \subseteq HandlerPC /\ HandlerPC \cap LeavePC = {}
  BY DEF RequestPC, HandlerPC, NamePC, ResourcePC, ObjectPC, SpherePC, LeavePC

LEMMA StutterSteps ==
  ASSUME TypeInv, UNCHANGED vars
  PROVE  TypeInv' /\ UNCHANGED <<live, known, world, next_id, preload, told, misled, task,
                                 abandoned, raced, late, early, lost>>
<1>1. UNCHANGED <<live, known, world, next_id, preload, told, misled, task, abandoned, raced, late,
                  early, lost>>
  BY DEF vars, tables, sent, bounds, history
<1> QED
  BY <1>1 DEF TypeInv, TablesWell, WorldWell, TasksWell

LEMMA TypesNext ==
  ASSUME TypeInv, [Next]_vars
  PROVE  TypeInv'
<1>1. ASSUME NEW t \in Task, NEW p \in Peer, Request(t, p) \/ Connect(t, p) \/ Close(t, p)
      PROVE  TypeInv'
  BY <1>1, RequestSteps, ConnectStep, CloseStep
<1>2. ASSUME NEW t \in Task, NEW q \in Peer, NEW m \in task[t].out, Visit(t, q, m)
      PROVE  TypeInv'
  BY <1>2, VisitSteps
<1>3. ASSUME NEW t \in Task, Handle(t) \/ JoinStep(t) \/ LeaveStep(t)
      PROVE  TypeInv'
  BY <1>3, HandlerSteps, JoinSteps, LeaveSteps DEF Handling
<1>4. CASE UNCHANGED vars
  BY <1>4, StutterSteps
<1>5. ASSUME NEW p \in Peer, CutOff(p) PROVE TypeInv'
  BY <1>5, CutOffStep
<1> QED
  BY <1>1, <1>2, <1>3, <1>4, <1>5 DEF Next

(* The types hold: a task carries what its handler has read, and each table
   holds what can be in it (SceneTypeOK names the part that a run checks). *)
THEOREM SceneTypes == Spec => []TypeInv
<1>1. Init => TypeInv
  BY TypesInit
<1>2. TypeInv /\ [Next]_vars => TypeInv'
  BY TypesNext
<1> QED
  BY <1>1, <1>2, PTL DEF Spec

\* Every table, message and task has its type (SceneTypeOK).
THEOREM SceneTyped == Spec => []SceneTypeOK
<1>1. TypeInv => SceneTypeOK
  <2> SUFFICES ASSUME TypeInv PROVE SceneTypeOK
    OBVIOUS
  <2>1. \A i \in Item : world[i] # None =>
          /\ i \in Name => world[i] \in NetId
          /\ i \in Resource => world[i] \in LoadKind
          /\ i \in Object \cup Sphere => world[i] \in Peer
          /\ i \in Peer => world[i] \in {"on", "off"}
    BY HoldsKinds DEF TypeInv, WorldWell
  <2>2. ASSUME NEW t \in Task
        PROVE  /\ task[t].pc \in PC /\ task[t].peer \in Peer \cup {None}
               /\ task[t].pc = "idle" <=> task[t] = Idle
               /\ \A m \in task[t].out : m.item \in Item /\ m.left \in (SUBSET Peer) \ {{}}
    <3>1. task[t] \in Tasks /\ TaskWell(task[t])
      BY DEF TypeInv, TasksWell
    <3>2. task[t].pc \in PC /\ task[t].peer \in Peer \cup {None} /\ task[t].out \subseteq Messages
      BY <3>1 DEF Tasks
    <3>3. task[t].pc = "idle" <=> task[t] = Idle
      BY <3>1, IdleTask DEF TaskWell
    <3>4. \A m \in task[t].out : m.item \in Item /\ m.left \in (SUBSET Peer) \ {{}}
      BY <3>2 DEF Messages
    <3> QED
      BY <3>2, <3>3, <3>4
  <2> QED
    BY <2>1, <2>2 DEF SceneTypeOK, TypeInv, TablesWell
<1> QED
  BY <1>1, SceneTypes, PTL

-----------------------------------------------------------------------------
(* Joins and leaves: a leave is of a player without a connection, and a      *)
(* connection is entered or about to be                                      *)

LEMMA LeavesGoneNext ==
  ASSUME TypeInv, LeavesGone, [Next]_vars
  PROVE  LeavesGone'
<1> USE DEF LeavesGone
<1>1. ASSUME NEW t \in Task, NEW p \in Peer, Request(t, p)
      PROVE  LeavesGone'
  <2>1. /\ \A u \in Task \ {t} : task'[u] = task[u]
        /\ task'[t].pc \in HandlerPC /\ UNCHANGED live
    BY <1>1, RequestSteps, RequestHandled
  <2>2. task'[t].pc \notin LeavePC
    BY <2>1, RequestHandled
  <2> QED
    BY <2>1, <2>2
<1>2. ASSUME NEW t \in Task, NEW p \in Peer, Connect(t, p)
      PROVE  LeavesGone'
  <2>1. /\ \A u \in Task \ {t} : task'[u] = task[u]
        /\ task'[t].pc \notin LeavePC
    BY <1>2, ConnectStep DEF LeavePC
  <2>2. /\ live' = live \cup {p}
        /\ \A u \in Task : ~(task[u].peer = p /\ task[u].pc \in LeavePC)
    BY <1>2 DEF Connect
  <2> QED
    BY <2>1, <2>2
<1>3. ASSUME NEW t \in Task, NEW p \in Peer, Close(t, p)
      PROVE  LeavesGone'
  <2>1. /\ \A u \in Task \ {t} : task'[u] = task[u]
        /\ task'[t].peer = p
    BY <1>3, CloseStep
  <2>2. live' = live \ {p}
    BY <1>3, EndStep DEF Close
  <2> QED
    BY <2>1, <2>2
<1>4. ASSUME NEW t \in Task, NEW q \in Peer, NEW m \in task[t].out, Visit(t, q, m)
      PROVE  LeavesGone'
  BY <1>4, VisitSteps, IdleTask DEF LeavePC
<1>5. ASSUME NEW t \in Task, Handle(t)
      PROVE  LeavesGone'
  BY <1>5, HandlerSteps DEF Handling, HandlerPC, NamePC, ResourcePC, RemovalPC, ObjectPC, SpherePC, LeavePC
<1>6. ASSUME NEW t \in Task, JoinStep(t)
      PROVE  LeavesGone'
  BY <1>6, JoinSteps, IdleTask DEF LeavePC
<1>7. ASSUME NEW t \in Task, LeaveStep(t)
      PROVE  LeavesGone'
  BY <1>7, LeaveSteps, IdleTask DEF LeavePC
<1>8. CASE UNCHANGED vars
  BY <1>8, StutterSteps
<1>9. ASSUME NEW p \in Peer, CutOff(p)
      PROVE  LeavesGone'
  BY <1>9, CutOffStep
<1> QED
  BY <1>1, <1>2, <1>3, <1>4, <1>5, <1>6, <1>7, <1>8, <1>9 DEF Next

LEMMA JoinsGoOnNext ==
  ASSUME TypeInv, LeavesGone, JoinsGoOn, [Next]_vars
  PROVE  JoinsGoOn'
<1> USE DEF JoinsGoOn, Entering
<1>1. ASSUME NEW t \in Task, NEW p \in Peer, Request(t, p)
      PROVE  JoinsGoOn'
  <2>1. /\ \A u \in Task \ {t} : task'[u] = task[u]
        /\ task[t] = Idle /\ UNCHANGED <<live, known>>
    BY <1>1, RequestSteps
  <2> QED
    BY <2>1, IdleTask
<1>2. ASSUME NEW t \in Task, NEW p \in Peer, Connect(t, p)
      PROVE  JoinsGoOn'
  <2>1. /\ \A u \in Task \ {t} : task'[u] = task[u]
        /\ task'[t].peer = p /\ task'[t].pc = "insert"
    BY <1>2, ConnectStep
  <2>2. live' = live \cup {p} /\ known' = known /\ task[t] = Idle
    BY <1>2 DEF Connect
  <2> QED
    BY <2>1, <2>2, IdleTask
<1>3. ASSUME NEW t \in Task, NEW p \in Peer, Close(t, p)
      PROVE  JoinsGoOn'
  BY <1>3, CloseStep, EndStep, IdleTask DEF Close
<1>4. ASSUME NEW t \in Task, NEW q \in Peer, NEW m \in task[t].out, Visit(t, q, m)
      PROVE  JoinsGoOn'
  BY <1>4, VisitSteps, IdleTask
<1>5. ASSUME NEW t \in Task, Handle(t)
      PROVE  JoinsGoOn'
  <2>1. /\ \A u \in Task \ {t} : task'[u] = task[u]
        /\ task[t].pc \in HandlerPC /\ UNCHANGED <<live, known>>
    BY <1>5, HandlerSteps DEF Handling
  <2>2. task[t].pc # "insert"
    BY <2>1 DEF HandlerPC, NamePC, ResourcePC, RemovalPC, ObjectPC, SpherePC
  <2> QED
    BY <2>1, <2>2
<1>6. ASSUME NEW t \in Task, JoinStep(t)
      PROVE  JoinsGoOn'
  <2>1. CASE Insert(t)
    <3>1. /\ \A u \in Task \ {t} : task'[u] = task[u]
          /\ known' = known \cup {task[t].peer} /\ UNCHANGED live
      BY <2>1, InsertStep DEF Insert, LooksUp
    <3> QED
      BY <3>1
  <2>2. CASE ReadTable(t) \/ SendTable(t)
    <3>1. UNCHANGED <<live, known>> /\ task[t].pc # "insert"
      BY <2>2 DEF ReadTable, SendTable, At
    <3> QED
      BY <1>6, <3>1, JoinSteps
  <2> QED
    BY <1>6, <2>1, <2>2 DEF JoinStep
<1>7. ASSUME NEW t \in Task, LeaveStep(t)
      PROVE  JoinsGoOn'
  <2>1. task[t].pc # "insert" /\ \A u \in Task \ {t} : task'[u] = task[u]
    BY <1>7, LeaveSteps DEF LeavePC
  <2>2. \A p \in live' : p \in known => p \in known'
    <3>1. CASE RemovePeer(t)
      BY <1>7, <3>1, LeaveSteps DEF RemovePeer, LeavesGone
    <3>2. CASE ~RemovePeer(t)
      BY <1>7, <3>2 DEF LeaveStep, Disown, Unshare, TakeAway, RemoveCamera, RemovePreloadPeer,
           Leaving, IsEmpty, ListTransient, List, ResetResources, RemoveListed, ResetNames,
           ResetBy, ResetCounter, ResetTables, Recycle
    <3> QED
      BY <3>1, <3>2
  <2>3. UNCHANGED live
    BY <1>7, LeaveSteps
  <2> QED
    BY <2>1, <2>2, <2>3
<1>8. CASE UNCHANGED vars
  BY <1>8, StutterSteps
<1>9. ASSUME NEW p \in Peer, CutOff(p)
      PROVE  JoinsGoOn'
  BY <1>9, CutOffStep
<1> QED
  BY <1>1, <1>2, <1>3, <1>4, <1>5, <1>6, <1>7, <1>8, <1>9 DEF Next

-----------------------------------------------------------------------------
(* What a player leaves behind is taken by its leave, or late *)

CleanPC == {"disown", "unshare", "unwatch"}

LEMMA GonePeers == Gone \subseteq Peer
  BY DEF Gone

LEMMA OrphansKept ==
  ASSUME TypeInv, OrphansInv, NEW t \in Task, Keeps(t), Gone' = Gone,
         \A u \in Task : task[u].pc \in CleanPC =>
           task'[u].pc = task[u].pc /\ task'[u].peer = task[u].peer
  PROVE  OrphansInv'
<1>1. ASSUME NEW p \in Peer, NEW pcs \in SUBSET CleanPC, ToClean(p, pcs)
      PROVE  ToClean(p, pcs)'
  BY <1>1 DEF ToClean
<1>5. {"disown"} \in SUBSET CleanPC /\ {"disown", "unshare"} \in SUBSET CleanPC
      /\ {"disown", "unshare", "unwatch"} \in SUBSET CleanPC
  BY DEF CleanPC
<1>2. ASSUME NEW i \in Object, NEW p \in Gone, world'[i] = p
      PROVE  i \in late' \/ ToClean(p, {"disown"})'
  <2>1. i \in late' \/ (world[i] = p /\ (i \in late => i \in late'))
    BY <1>2, Kinds, NoneIsNothing DEF Keeps, Gone
  <2>2. i \in late' \/ ToClean(p, {"disown"})
    BY <2>1 DEF OrphansInv
  <2>3. ToClean(p, {"disown"}) => ToClean(p, {"disown"})'
    BY <1>1, <1>5, GonePeers
  <2> QED
    BY <2>2, <2>3
<1>3. ASSUME NEW i \in Sphere, NEW p \in Gone, world'[i] = p
      PROVE  i \in late' \/ ToClean(p, {"disown", "unshare"})'
  <2>1. i \in late' \/ (world[i] = p /\ (i \in late => i \in late'))
    BY <1>3, Kinds, NoneIsNothing DEF Keeps, Gone
  <2>2. i \in late' \/ ToClean(p, {"disown", "unshare"})
    BY <2>1 DEF OrphansInv
  <2>3. ToClean(p, {"disown", "unshare"}) => ToClean(p, {"disown", "unshare"})'
    BY <1>1, <1>5, GonePeers
  <2> QED
    BY <2>2, <2>3
<1>4. ASSUME NEW p \in Gone, world'[p] # None
      PROVE  p \in late' \/ ToClean(p, {"disown", "unshare", "unwatch"})'
  <2>1. p \in late' \/ (world[p] # None /\ (p \in late => p \in late'))
    BY <1>4, Kinds DEF Keeps, Gone
  <2>2. p \in late' \/ ToClean(p, {"disown", "unshare", "unwatch"})
    BY <2>1 DEF OrphansInv
  <2>3. ToClean(p, {"disown", "unshare", "unwatch"}) => ToClean(p, {"disown", "unshare", "unwatch"})'
    BY <1>1, <1>5, GonePeers
  <2> QED
    BY <2>2, <2>3
<1> QED
  BY <1>2, <1>3, <1>4 DEF OrphansInv

LEMMA OrphansClose ==
  ASSUME TypeInv, OrphansInv, NEW t \in Task, NEW p \in Peer, Close(t, p)
  PROVE  OrphansInv'
<1>1. /\ task'[t].peer = p /\ task'[t].pc = "disown" /\ \A u \in Task \ {t} : task'[u] = task[u]
  BY CloseStep
<1>2. task[t] = Idle /\ Gone' \subseteq Gone \cup {p} /\ UNCHANGED <<world, late>>
  BY EndStep DEF Close, tables, bounds, history, Gone
<1>3. \A q \in Peer, pcs \in SUBSET CleanPC : ToClean(q, pcs) => ToClean(q, pcs)'
  BY <1>1, <1>2, IdleTask DEF ToClean, CleanPC
<1>4. \A pcs : "disown" \in pcs => ToClean(p, pcs)'
  BY <1>1 DEF ToClean
<1>5. {"disown"} \in SUBSET CleanPC /\ {"disown", "unshare"} \in SUBSET CleanPC
      /\ {"disown", "unshare", "unwatch"} \in SUBSET CleanPC
  BY DEF CleanPC
<1>6. \A i \in Object : \A q \in Gone' : world'[i] = q => i \in late' \/ ToClean(q, {"disown"})'
  BY <1>2, <1>3, <1>4, <1>5, GonePeers DEF OrphansInv
<1>7. \A i \in Sphere : \A q \in Gone' :
        world'[i] = q => i \in late' \/ ToClean(q, {"disown", "unshare"})'
  BY <1>2, <1>3, <1>4, <1>5, GonePeers DEF OrphansInv
<1>8. \A q \in Gone' :
        world'[q] # None => q \in late' \/ ToClean(q, {"disown", "unshare", "unwatch"})'
  BY <1>2, <1>3, <1>4, <1>5, GonePeers DEF OrphansInv
<1> QED
  BY <1>6, <1>7, <1>8 DEF OrphansInv

\* The first three steps of a leave: each takes one kind of item from the player.
LEMMA OrphansTaken ==
  ASSUME TypeInv, OrphansInv, NEW t \in Task, Disown(t) \/ Unshare(t) \/ RemoveCamera(t)
  PROVE  OrphansInv'
<1> DEFINE p == task[t].peer
<1>1. /\ UNCHANGED late /\ Gone' = Gone /\ p \in Peer /\ \A u \in Task \ {t} : task'[u] = task[u]
      /\ task'[t].peer = p
  BY DisownStep, UnshareStep, RemoveCameraStep, LeaveSteps
     DEF LeaveStep, Steps, Gone, bounds
<1>2. \A i \in Item : world'[i] \in {None, world[i]}
  BY DEF Disown, Unshare, TakeAway, Change, RemoveCamera, TypeInv, WorldWell
<1>3. /\ Disown(t) => /\ task[t].pc = "disown" /\ task'[t].pc = "unshare"
                      /\ \A i \in Object : world'[i] # p
      /\ Unshare(t) => /\ task[t].pc = "unshare" /\ task'[t].pc = "unwatch"
                       /\ \A i \in Sphere : world'[i] # p
      /\ RemoveCamera(t) => task[t].pc = "unwatch" /\ world'[p] = None
  <2>1. CASE Disown(t)
    BY <1>1, <2>1, DisownStep, Kinds, NoneIsNothing
       DEF At, Steps, Change, Owned, Unshare, RemoveCamera, TakeAway
  <2>2. CASE Unshare(t)
    BY <1>1, <2>2, UnshareStep, Kinds, NoneIsNothing
       DEF At, Steps, Change, Owned, Disown, RemoveCamera, TakeAway
  <2>3. CASE RemoveCamera(t)
    BY <1>1, <2>3, RemoveCameraStep, Kinds
       DEF At, Steps, RemoveCamera, Disown, Unshare, TakeAway, TypeInv, WorldWell
  <2> QED
    BY <2>1, <2>2, <2>3
<1> HIDE DEF p
<1>4. ASSUME NEW q \in Peer, NEW pcs \in SUBSET CleanPC, ToClean(q, pcs),
             q = p => task'[t].pc \in pcs \/ task[t].pc \notin pcs
      PROVE  ToClean(q, pcs)'
  BY <1>1, <1>4 DEF ToClean, p
<1>5. ASSUME NEW i \in Object, NEW q \in Gone, world'[i] = q
      PROVE  i \in late' \/ ToClean(q, {"disown"})'
  <2>1. world[i] = q
    BY <1>2, <1>5, GonePeers, Kinds, NoneIsNothing
  <2>2. i \in late \/ ToClean(q, {"disown"})
    BY <2>1 DEF OrphansInv
  <2>3. q = p => task'[t].pc \in {"disown"} \/ task[t].pc \notin {"disown"}
    BY <1>3, <1>5
  <2> QED
    BY <1>1, <1>4, <2>2, <2>3, GonePeers DEF CleanPC
<1>6. ASSUME NEW i \in Sphere, NEW q \in Gone, world'[i] = q
      PROVE  i \in late' \/ ToClean(q, {"disown", "unshare"})'
  <2>1. world[i] = q
    BY <1>2, <1>6, GonePeers, Kinds, NoneIsNothing
  <2>2. i \in late \/ ToClean(q, {"disown", "unshare"})
    BY <2>1 DEF OrphansInv
  <2>3. q = p => task'[t].pc \in {"disown", "unshare"} \/ task[t].pc \notin {"disown", "unshare"}
    BY <1>3, <1>6
  <2> QED
    BY <1>1, <1>4, <2>2, <2>3, GonePeers DEF CleanPC
<1>7. ASSUME NEW q \in Gone, world'[q] # None
      PROVE  q \in late' \/ ToClean(q, {"disown", "unshare", "unwatch"})'
  <2>1. world[q] # None
    BY <1>2, <1>7, GonePeers, Kinds
  <2>2. q \in late \/ ToClean(q, {"disown", "unshare", "unwatch"})
    BY <2>1 DEF OrphansInv
  <2>3. q = p => task'[t].pc \in {"disown", "unshare", "unwatch"}
    BY <1>3, <1>7
  <2> QED
    BY <1>1, <1>4, <2>2, <2>3, GonePeers DEF CleanPC
<1> QED
  BY <1>1, <1>5, <1>6, <1>7 DEF OrphansInv

\* The steps of a leave that come after.
LEMMA LeaveKeeps ==
  ASSUME TypeInv, NEW t \in Task, LeaveStep(t), ~(Disown(t) \/ Unshare(t) \/ RemoveCamera(t))
  PROVE  Keeps(t) /\ task[t].pc \notin CleanPC
<1> USE DEF CleanPC, At
<1>1. CASE RemovePeer(t)
  BY <1>1, SameKeeps DEF RemovePeer, tables, history
<1>2. CASE RemovePreloadPeer(t)
  BY <1>2, SameKeeps DEF RemovePreloadPeer, Leaving, SpawnRace
<1>3. CASE ResetResources(t)
  <2>1. /\ Change(t, Listed(t), None) /\ Listed(t) \in SUBSET Item /\ UNCHANGED late
        /\ task[t].pc = "reset_resources"
    BY <1>3, ResetResourcesStep DEF ResetResources, RemoveListed, Item
  <2> QED
    BY <2>1, ChangeKeeps
<1>8. CASE IsEmpty(t)
  BY <1>8, SameKeeps DEF IsEmpty, tables, history
<1>9. CASE ListTransient(t)
  BY <1>9, SameKeeps DEF ListTransient, List, tables, history
<1>4. CASE ResetNames(t)
  BY <1>4, ClearKeeps DEF ResetNames, ResetBy, Item
<1>5. CASE ResetCounter(t)
  BY <1>5, SameKeeps DEF ResetCounter, history
<1>6. CASE ResetTables(t)
  BY <1>6, ClearKeeps DEF ResetTables, Item
<1>7. CASE Recycle(t)
  BY <1>7, SameKeeps DEF Recycle, tables, history
<1> QED
  BY <1>1, <1>2, <1>3, <1>4, <1>5, <1>6, <1>7, <1>8, <1>9 DEF LeaveStep

LEMMA OrphansNext ==
  ASSUME TypeInv, OrphansInv, [Next]_vars
  PROVE  OrphansInv'
<1>1. ASSUME NEW t \in Task, NEW p \in Peer, Request(t, p)
      PROVE  OrphansInv'
  <2>1. /\ \A u \in Task \ {t} : task'[u] = task[u]
        /\ task[t] = Idle /\ UNCHANGED <<world, late, raced>> /\ Gone' = Gone
    BY <1>1, RequestSteps DEF tables, history, Gone
  <2> QED
    BY <2>1, SameKeeps, OrphansKept, IdleTask DEF CleanPC
<1>2. ASSUME NEW t \in Task, NEW p \in Peer, Connect(t, p)
      PROVE  OrphansInv'
  <2>1. /\ \A u \in Task \ {t} : task'[u] = task[u]
        /\ Gone' \subseteq Gone /\ task[t] = Idle /\ UNCHANGED <<world, late>>
    BY <1>2, ConnectStep DEF Connect, tables, history, Gone
  <2>2. \A q \in Peer, pcs \in SUBSET CleanPC : ToClean(q, pcs) => ToClean(q, pcs)'
    BY <2>1, IdleTask DEF ToClean, CleanPC
  <2>3. {"disown"} \in SUBSET CleanPC /\ {"disown", "unshare"} \in SUBSET CleanPC
        /\ {"disown", "unshare", "unwatch"} \in SUBSET CleanPC
    BY DEF CleanPC
  <2>4. \A i \in Object : \A q \in Gone' : world'[i] = q => i \in late' \/ ToClean(q, {"disown"})'
    BY <2>1, <2>2, <2>3, GonePeers DEF OrphansInv
  <2>5. \A i \in Sphere : \A q \in Gone' :
          world'[i] = q => i \in late' \/ ToClean(q, {"disown", "unshare"})'
    BY <2>1, <2>2, <2>3, GonePeers DEF OrphansInv
  <2>6. \A q \in Gone' :
          world'[q] # None => q \in late' \/ ToClean(q, {"disown", "unshare", "unwatch"})'
    BY <2>1, <2>2, <2>3, GonePeers DEF OrphansInv
  <2> QED
    BY <2>4, <2>5, <2>6 DEF OrphansInv
<1>3. ASSUME NEW t \in Task, NEW p \in Peer, Close(t, p)
      PROVE  OrphansInv'
  BY <1>3, OrphansClose
<1>4. ASSUME NEW t \in Task, NEW q \in Peer, NEW m \in task[t].out, Visit(t, q, m)
      PROVE  OrphansInv'
  <2>1. UNCHANGED <<world, late, raced>> /\ Gone' = Gone
    BY <1>4, VisitSteps DEF tables, history, bounds, Gone
  <2>2. \A u \in Task : task[u].pc \in CleanPC =>
           task'[u].pc = task[u].pc /\ task'[u].peer = task[u].peer
    BY <1>4, VisitSteps DEF CleanPC
  <2> QED
    BY <2>1, <2>2, SameKeeps, OrphansKept
<1>5. ASSUME NEW t \in Task, Handle(t)
      PROVE  OrphansInv'
  <2>1. /\ \A u \in Task \ {t} : task'[u] = task[u]
        /\ task[t].pc \in HandlerPC /\ Gone' = Gone /\ Keeps(t)
    BY <1>5, HandlerSteps DEF Handling, bounds, Gone
  <2>2. task[t].pc \notin CleanPC
    BY <2>1 DEF HandlerPC, NamePC, ResourcePC, RemovalPC, ObjectPC, SpherePC, CleanPC
  <2> QED
    BY <2>1, <2>2, OrphansKept
<1>6. ASSUME NEW t \in Task, JoinStep(t)
      PROVE  OrphansInv'
  <2>1. /\ \A u \in Task \ {t} : task'[u] = task[u]
        /\ task[t].pc \notin CleanPC /\ UNCHANGED <<world, late>> /\ Gone' = Gone
    BY <1>6, JoinSteps DEF CleanPC, tables, bounds, Gone
  <2>2. raced \subseteq raced'
    BY <1>6 DEF JoinStep, Insert, ReadTable, SendTable, history
  <2> QED
    BY <2>1, <2>2, SameKeeps, OrphansKept
<1>7. ASSUME NEW t \in Task, LeaveStep(t)
      PROVE  OrphansInv'
  <2>1. CASE Disown(t) \/ Unshare(t) \/ RemoveCamera(t)
    BY <2>1, OrphansTaken
  <2>2. CASE ~(Disown(t) \/ Unshare(t) \/ RemoveCamera(t))
    <3>1. Gone' = Gone /\ \A u \in Task \ {t} : task'[u] = task[u]
      BY <1>7, LeaveSteps DEF bounds, Gone
    <3> QED
      BY <1>7, <2>2, <3>1, LeaveKeeps, OrphansKept
  <2> QED
    BY <2>1, <2>2
<1>8. CASE UNCHANGED vars
  BY <1>8, StutterSteps DEF OrphansInv, ToClean, Gone
<1>9. ASSUME NEW p \in Peer, CutOff(p)
      PROVE  OrphansInv'
  <2>1. Gone' = Gone /\ UNCHANGED <<world, task, late>>
    BY <1>9, CutOffStep DEF tables, history
  <2> QED
    BY <2>1 DEF OrphansInv, ToClean
<1> QED
  BY <1>1, <1>2, <1>3, <1>4, <1>5, <1>6, <1>7, <1>8, <1>9 DEF Next

-----------------------------------------------------------------------------
(* What the last player leaves behind is reset, late or raced *)

LEMMA ResetKept ==
  ASSUME TypeInv, JoinsGoOn, ResetInv, NEW t \in Task, Keeps(t), UNCHANGED known,
         \A u \in Task \ {t} : task'[u] = task[u],
         task[t].pc = "insert" => task'[t].pc = "insert" /\ task'[t].peer = task[t].peer,
         \A i \in Item :
           /\ known = {} /\ world'[i] # None /\ ~(i \in Resource /\ world'[i].persist)
           /\ Resets(task[t], i)
           => Resets(task'[t], i)
  PROVE  ResetInv'
<1> SUFFICES ASSUME known = {}, NEW i \in Item, i \notin late', i \notin raced',
                    world'[i] # None, ~(i \in Resource /\ world'[i].persist)
             PROVE  ToReset(i)' \/ (\E p \in Peer : Entering(p)')
  BY DEF ResetInv
<1>1. \A p : Entering(p) => Entering(p)'
  BY DEF Entering
<1>2. ToReset(i) => ToReset(i)'
  BY DEF ToReset
<1>3. CASE world'[i] = world[i] /\ (i \in late => i \in late') /\ (i \in raced => i \in raced')
  BY <1>1, <1>2, <1>3 DEF ResetInv
<1>4. CASE task[t].peer \in live
  BY <1>1, <1>4 DEF JoinsGoOn, TypeInv, TablesWell
<1> QED
  BY <1>3, <1>4 DEF Keeps

LEMMA ResetNext ==
  ASSUME TypeInv, JoinsGoOn, ResetInv, [Next]_vars
  PROVE  ResetInv'
<1>1. ASSUME NEW t \in Task, NEW p \in Peer, Request(t, p) \/ Connect(t, p) \/ Close(t, p)
      PROVE  ResetInv'
  <2>1. /\ task[t] = Idle /\ \A u \in Task \ {t} : task'[u] = task[u]
        /\ UNCHANGED <<known, world, late, raced>>
    BY <1>1, RequestSteps, ConnectStep, CloseStep DEF Connect, Close, tables, history
  <2>2. Keeps(t)
    BY <2>1, SameKeeps
  <2> QED
    BY <2>1, <2>2, ResetKept, IdleTask DEF Resets
<1>2. ASSUME NEW t \in Task, NEW q \in Peer, NEW m \in task[t].out, Visit(t, q, m)
      PROVE  ResetInv'
  <2>1. /\ UNCHANGED <<known, world, late, raced>> /\ \A u \in Task \ {t} : task'[u] = task[u]
        /\ \/ task[t].pc = "done"
           \/ /\ task'[t].pc = task[t].pc /\ task'[t].peer = task[t].peer
              /\ task'[t].val = task[t].val
    BY <1>2, VisitSteps DEF tables, history
  <2> QED
    BY <2>1, SameKeeps, ResetKept DEF Resets
<1>3. ASSUME NEW t \in Task, Handle(t)
      PROVE  ResetInv'
  <2>1. /\ \A u \in Task \ {t} : task'[u] = task[u]
        /\ task[t].pc \in HandlerPC /\ UNCHANGED known /\ Keeps(t)
    BY <1>3, HandlerSteps DEF Handling
  <2>2. task[t].pc # "insert" /\ \A i : ~Resets(task[t], i)
    BY <2>1 DEF HandlerPC, NamePC, ResourcePC, RemovalPC, ObjectPC, SpherePC, Resets
  <2> QED
    BY <2>1, <2>2, ResetKept
<1>4. ASSUME NEW t \in Task, Insert(t)
      PROVE  ResetInv'
  BY <1>4, InsertStep DEF Insert, ResetInv
<1>5. ASSUME NEW t \in Task, ReadTable(t) \/ SendTable(t)
      PROVE  ResetInv'
  <2>1. /\ \A u \in Task \ {t} : task'[u] = task[u]
        /\ task[t].pc \in {"read", "send"} /\ UNCHANGED <<known, world, late>>
        /\ raced \subseteq raced'
    BY <1>5, ReadTableStep, SendTableStep DEF ReadTable, SendTable, At, tables, history
  <2> QED
    BY <2>1, SameKeeps, ResetKept DEF Resets
<1>6. ASSUME NEW t \in Task, Disown(t) \/ Unshare(t) \/ RemoveCamera(t)
      PROVE  ResetInv'
  <2>1. /\ \A u \in Task \ {t} : task'[u] = task[u]
        /\ task[t].pc \in CleanPC /\ UNCHANGED known
    BY <1>6, DisownStep, UnshareStep, RemoveCameraStep
       DEF Disown, Unshare, RemoveCamera, TakeAway, At, Steps, CleanPC
  <2>2. Keeps(t)
    <3>1. CASE Disown(t)
      BY <3>1, DisownStep, ChangeKeeps DEF Disown, TakeAway, Owned, Item
    <3>2. CASE Unshare(t)
      BY <3>2, UnshareStep, ChangeKeeps DEF Unshare, TakeAway, Owned, Item
    <3>3. CASE RemoveCamera(t)
      BY <3>3 DEF RemoveCamera, Keeps, TypeInv, WorldWell
    <3> QED
      BY <1>6, <3>1, <3>2, <3>3
  <2> QED
    BY <2>1, <2>2, ResetKept DEF Resets, CleanPC
<1>7. ASSUME NEW t \in Task, RemovePeer(t)
      PROVE  ResetInv'
  <2>1. CASE task[t].peer \in known
    <3>1. task'[t].pc = "unpreload"
      BY <1>7, <2>1, RemovePeerStep DEF Steps
    <3> QED
      BY <3>1 DEF ResetInv, ToReset, Resets
  <2>2. CASE task[t].peer \notin known
    <3>1. /\ UNCHANGED <<known, world, late, raced>> /\ task[t].pc = "forget"
          /\ \A u \in Task \ {t} : task'[u] = task[u]
      BY <1>7, <2>2, RemovePeerStep DEF RemovePeer, tables, history, Steps, At, TypeInv, TablesWell
    <3> QED
      BY <3>1, SameKeeps, ResetKept DEF Resets
  <2> QED
    BY <2>1, <2>2
<1>8. ASSUME NEW t \in Task, RemovePreloadPeer(t) \/ IsEmpty(t) \/ ListTransient(t)
               \/ ResetResources(t) \/ ResetNames(t) \/ ResetCounter(t) \/ ResetTables(t)
               \/ Recycle(t)
      PROVE  ResetInv'
  <2>1. /\ LeaveStep(t) /\ ~(Disown(t) \/ Unshare(t) \/ RemoveCamera(t))
    BY <1>8 DEF LeaveStep, RemovePreloadPeer, Leaving, IsEmpty, ListTransient, List,
         ResetResources, RemoveListed, ResetNames, ResetBy, ResetCounter, ResetTables, Recycle,
         Disown, Unshare, TakeAway, RemoveCamera, At
  <2>2. /\ Keeps(t) /\ task[t].pc # "insert" /\ UNCHANGED known
        /\ \A u \in Task \ {t} : task'[u] = task[u]
    BY <1>8, <2>1, LeaveKeeps, LeaveSteps
       DEF RemovePreloadPeer, Leaving, IsEmpty, ListTransient, List, ResetResources, RemoveListed,
           ResetNames, ResetBy, ResetCounter, ResetTables, Recycle, LeavePC
  <2> SUFFICES ASSUME NEW i \in Item, known = {}, world'[i] # None,
                      ~(i \in Resource /\ world'[i].persist), Resets(task[t], i)
               PROVE  Resets(task'[t], i)
    BY <2>2, ResetKept
  <2>3. CASE RemovePreloadPeer(t)
    BY <2>3, RemovePreloadPeerStep DEF Resets, Steps
  <2>9. CASE IsEmpty(t)
    BY <2>9, IsEmptyStep DEF Resets, Steps
  <2>10. CASE ListTransient(t)
    <3>1. /\ task'[t].pc = "reset_resources" /\ task'[t].val = NotPersistent
          /\ UNCHANGED world
      BY <2>10, ListTransientStep DEF LooksUp, ListTransient, List, tables
    <3>2. i \in Resource => i \in NotPersistent
      BY <3>1 DEF NotPersistent, Present
    <3> QED
      BY <3>1, <3>2 DEF Resets
  <2>4. CASE ResetResources(t)
    <3>1. /\ task'[t].pc = "reset_names" /\ task[t].pc = "reset_resources"
          /\ Change(t, Listed(t), None)
      BY <2>4, ResetResourcesStep DEF Steps, At
    <3>2. i \notin Resource
      <4>1. i \in Resource => i \in task[t].val
        BY <3>1 DEF Resets
      <4>2. i \notin Listed(t) /\ world'[i] = world[i]
        BY <3>1 DEF Change
      <4> QED
        BY <4>1, <4>2 DEF Listed, Present
    <3> QED
      BY <3>1, <3>2 DEF Resets
  <2>5. CASE ResetNames(t)
    <3>1. task'[t].pc = "reset_counter" /\ task[t].pc = "reset_names" /\ i \notin Name
      BY <2>5, ResetNamesStep DEF Steps, Clear, At
    <3> QED
      BY <3>1 DEF Resets
  <2>6. CASE ResetCounter(t)
    BY <2>6, ResetCounterStep DEF Resets, Steps, At
  <2>7. CASE ResetTables(t)
    <3>1. task[t].pc = "reset_tables" /\ i \notin Object \cup Sphere \cup Peer
      BY <2>7, ResetTablesStep DEF Clear, At
    <3> QED
      BY <3>1 DEF Resets, Item
  <2>8. CASE Recycle(t)
    BY <2>8, RecycleStep DEF Resets, At
  <2> QED
    BY <1>8, <2>3, <2>4, <2>5, <2>6, <2>7, <2>8, <2>9, <2>10
<1>9. CASE UNCHANGED vars
  BY <1>9, StutterSteps DEF ResetInv, ToReset, Entering
<1>10. ASSUME NEW p \in Peer, CutOff(p)
       PROVE  ResetInv'
  <2>1. UNCHANGED <<known, world, task, late, raced>>
    BY <1>10, CutOffStep DEF tables, history
  <2> QED
    BY <2>1 DEF ResetInv, ToReset, Entering
<1> QED
  BY <1>1, <1>2, <1>3, <1>4, <1>5, <1>6, <1>7, <1>8, <1>9, <1>10 DEF Next, JoinStep, LeaveStep

-----------------------------------------------------------------------------
(* Two names have two ids *)

LEMMA NamesKept ==
  ASSUME NamesInv, \A n \in Name : world'[n] = world[n], UNCHANGED <<next_id, early>>,
         Resetting' <=> Resetting
  PROVE  NamesInv'
<1>1. Fresh' = Fresh
  BY DEF Fresh
<1> QED
  BY <1>1 DEF NamesInv, Fresh

\* Only AddOrFind touches the names among the handlers.
LEMMA NamesAlone ==
  ASSUME TypeInv, NEW t \in Task, Handle(t), ~AddOrFind(t)
  PROVE  (\A n \in Name : world'[n] = world[n]) /\ UNCHANGED <<next_id, early>>
<1> USE Kinds DEF Take, TakeQuietly, Change
<1>1. CASE NetIdExisted(t) \/ InsertSession(t) \/ Unload(t) \/ MarkReady(t) \/ SpawnPreloaded(t)
  BY <1>1 DEF NetIdExisted, InsertSession, Unload, MarkReady, SpawnPreloaded, tables, history
<1>2. CASE Load(t) \/ CollectPeers(t) \/ FindScene(t) \/ ListScenes(t)
  BY <1>2 DEF Load, CollectPeers, FindScene, ListScenes, List, tables, history
<1>3. CASE LoadResource(t)
  BY <1>3, LoadResourceStep DEF LoadResource
<1>4. CASE RemoveResource(t)
  BY <1>4, RemoveResourceStep DEF RemoveResource, TypeInv, WorldWell
<1>5. CASE PutBack(t)
  BY <1>5, PutBackStep DEF PutBack, TypeInv, WorldWell
<1>6. CASE UnloadScenes(t)
  BY <1>6, UnloadScenesStep DEF UnloadScenes, RemoveListed
<1>7. CASE GetOwner(t)
  BY <1>7, GetOwnerStep DEF GetOwner, TypeInv, WorldWell
<1>8. CASE ChangeOwner(t)
  BY <1>8, ChangeOwnerStep DEF ChangeOwner
<1>9. CASE RemoveOwner(t)
  BY <1>9, RemoveOwnerStep DEF RemoveOwner
<1>10. CASE Share(t)
  BY <1>10, ShareStep DEF Share
<1>11. CASE ShareCleanup(t)
  BY <1>11, ShareCleanupStep DEF ShareCleanup
<1>12. CASE CameraState(t)
  BY <1>12, CameraStateStep DEF CameraState
<1> QED
  BY <1>1, <1>2, <1>3, <1>4, <1>5, <1>6, <1>7, <1>8, <1>9, <1>10, <1>11, <1>12 DEF Handle

LEMMA FreshFinite ==
  ASSUME IsFiniteSet(Name)
  PROVE  IsFiniteSet(Fresh) /\ Cardinality(Fresh) \in Nat
         /\ Cardinality(Fresh) <= Cardinality(Name) /\ Cardinality(Name) \in Nat
         /\ (Cardinality(Fresh) = Cardinality(Name) => Fresh = Name)
<1>1. Fresh \in SUBSET Name
  BY DEF Fresh
<1> QED
  BY <1>1, FS_Subset, FS_CardinalityType

LEMMA NamesAdded ==
  ASSUME TypeInv, NamesInv, IsFiniteSet(Name), Cardinality(Name) <= IdSpace,
         NEW t \in Task, AddOrFind(t)
  PROVE  NamesInv'
<1> DEFINE n == task[t].item
<1>1. /\ n \in Name /\ task[t].pc = "add_or_find" /\ \A u \in Task \ {t} : task'[u] = task[u]
      /\ task'[t].pc # "reset_counter"
  BY AddOrFindStep, IdleTask DEF At, Steps
<1>2. Resetting' <=> Resetting
  BY <1>1 DEF Resetting
<1>3. CASE UNCHANGED <<world, next_id, early>>
  BY <1>2, <1>3, NamesKept
<1>4. CASE /\ world[n] = None /\ next_id' = (next_id + 1) % IdSpace
           /\ Take(t, n, next_id)
           /\ early' = IF Resetting THEN early \cup {n} ELSE early
  <2>1. /\ world'[n] = next_id /\ \A m \in Name \ {n} : world'[m] = world[m]
        /\ next_id \in NetId /\ next_id # None /\ next_id \in Nat /\ next_id < IdSpace
        /\ IdSpace \in Nat \ {0}
    <3>1. next_id \in NetId
      BY DEF TypeInv, TablesWell
    <3>2. next_id # None /\ next_id \in Nat /\ next_id < IdSpace /\ IdSpace \in Nat \ {0}
      BY <3>1, NoneIsNothing, IdSpaceAssumption DEF NetId
    <3> QED
      BY <1>1, <1>4, <3>1, <3>2, Kinds DEF Take, Change
  <2>2. n \notin Fresh /\ n \notin early
    BY <1>4 DEF Fresh, NamesInv
  <2>3. early' \subseteq {m \in Name : world'[m] # None}
    BY <1>1, <1>4, <2>1 DEF NamesInv
  <2>4. CASE Resetting
    <3>1. Fresh' = {} /\ Fresh = {}
      BY <1>1, <1>4, <2>1, <2>4 DEF Fresh, NamesInv
    <3> QED
      BY <1>2, <2>3, <2>4, <3>1 DEF NamesInv
  <2>5. CASE ~Resetting
    <3>1. Fresh' = Fresh \cup {n}
      BY <1>1, <1>4, <2>1, <2>2, <2>5 DEF Fresh
    <3>2. IsFiniteSet(Fresh) /\ Cardinality(Fresh) \in Nat
          /\ Cardinality(Fresh \cup {n}) = Cardinality(Fresh) + 1
      BY <2>2, FreshFinite, FS_AddElement
    <3>3. Cardinality(Fresh) # IdSpace
      BY <1>1, <2>1, <2>2, FreshFinite
    <3>4. Cardinality(Fresh) = next_id /\ \A m \in Fresh : world[m] < next_id
      BY <2>5, <3>3 DEF NamesInv
    <3>5. \A m \in Fresh : m \in Name /\ m # n /\ world[m] \in Nat /\ world'[m] = world[m]
      <4>1. \A m \in Fresh : m \in Name /\ m # n /\ world[m] # None
        BY <2>2 DEF Fresh
      <4> QED
        BY <2>1, <4>1, Kinds, HoldsKinds DEF TypeInv, WorldWell, NetId
    <3>6. \A l, m \in Fresh' : world'[l] = world'[m] => l = m
      BY <2>1, <3>1, <3>4, <3>5 DEF NamesInv
    <3>7. \/ Cardinality(Fresh') = next_id' /\ \A m \in Fresh' : world'[m] < next_id'
          \/ Cardinality(Fresh') = IdSpace
      <4>1. CASE next_id + 1 = IdSpace
        BY <2>1, <3>1, <3>2, <3>4, <4>1
      <4>2. CASE next_id + 1 # IdSpace
        <5>1. next_id' = next_id + 1
          BY <1>4, <2>1, <4>2
        <5> QED
          BY <2>1, <3>1, <3>2, <3>4, <3>5, <5>1
      <4> QED
        BY <4>1, <4>2
    <3> QED
      BY <1>2, <2>3, <2>5, <3>6, <3>7 DEF NamesInv
  <2> QED
    BY <2>4, <2>5
<1> QED
  BY <1>3, <1>4, AddOrFindStep

LEMMA NamesNext ==
  ASSUME TypeInv, NamesInv, IsFiniteSet(Name), Cardinality(Name) <= IdSpace, [Next]_vars
  PROVE  NamesInv'
<1>1. ASSUME NEW t \in Task, NEW p \in Peer, Request(t, p) \/ Connect(t, p) \/ Close(t, p)
      PROVE  NamesInv'
  <2>1. /\ task[t] = Idle /\ \A u \in Task \ {t} : task'[u] = task[u]
        /\ task'[t].pc # "reset_counter" /\ UNCHANGED <<world, next_id, early>>
    BY <1>1, RequestSteps, ConnectStep, CloseStep
       DEF Connect, Close, tables, history, RequestPC, ObjectPC, SpherePC
  <2> QED
    BY <2>1, NamesKept, IdleTask DEF Resetting
<1>2. ASSUME NEW t \in Task, NEW q \in Peer, NEW m \in task[t].out, Visit(t, q, m)
      PROVE  NamesInv'
  <2>1. /\ UNCHANGED <<world, next_id, early>> /\ \A u \in Task \ {t} : task'[u] = task[u]
        /\ \/ task[t].pc = "done" /\ task'[t].pc = "idle"
           \/ task'[t].pc = task[t].pc
    BY <1>2, VisitSteps, IdleTask DEF tables, history
  <2> QED
    BY <2>1, NamesKept DEF Resetting
<1>3. ASSUME NEW t \in Task, Handle(t)
      PROVE  NamesInv'
  <2>1. /\ \A u \in Task \ {t} : task'[u] = task[u]
        /\ task[t].pc \in HandlerPC /\ task'[t].pc \in HandlerPC \cup {"idle", "done"}
    BY <1>3, HandlerSteps DEF Handling
  <2>2. task[t].pc # "reset_counter" /\ task'[t].pc # "reset_counter"
    BY <2>1 DEF HandlerPC, NamePC, ResourcePC, RemovalPC, ObjectPC, SpherePC
  <2>3. Resetting' <=> Resetting
    BY <2>1, <2>2 DEF Resetting
  <2> QED
    BY <1>3, <2>3, NamesAlone, NamesAdded, NamesKept
<1>4. ASSUME NEW t \in Task, JoinStep(t)
      PROVE  NamesInv'
  <2>1. /\ \A u \in Task \ {t} : task'[u] = task[u]
        /\ task[t].pc # "reset_counter" /\ task'[t].pc # "reset_counter"
        /\ UNCHANGED <<world, next_id>>
    BY <1>4, JoinSteps, IdleTask DEF tables
  <2>2. UNCHANGED early
    BY <1>4 DEF JoinStep, Insert, ReadTable, SendTable, history
  <2> QED
    BY <2>1, <2>2, NamesKept DEF Resetting
<1>5. ASSUME NEW t \in Task, LeaveStep(t), ~(ResetNames(t) \/ ResetCounter(t))
      PROVE  NamesInv'
  <2> USE DEF At, Steps
  <2>1. \A u \in Task \ {t} : task'[u] = task[u]
    BY <1>5, LeaveSteps
  <2>2. CASE Disown(t) \/ Unshare(t) \/ RemoveCamera(t)
    <3>1. /\ task[t].pc # "reset_counter" /\ task'[t].pc # "reset_counter"
          /\ UNCHANGED <<next_id, early>>
      BY <2>2, DisownStep, UnshareStep, RemoveCameraStep
         DEF Disown, Unshare, TakeAway, RemoveCamera
    <3>2. \A n \in Name : world'[n] = world[n]
      BY <2>2, DisownStep, UnshareStep, RemoveCameraStep, Kinds
         DEF Owned, Change, RemoveCamera, TypeInv, WorldWell
    <3> QED
      BY <2>1, <3>1, <3>2, NamesKept DEF Resetting
  <2>3. CASE \/ RemovePeer(t) \/ RemovePreloadPeer(t) \/ IsEmpty(t) \/ ListTransient(t)
             \/ Recycle(t)
    <3>1. /\ task[t].pc # "reset_counter" /\ task'[t].pc # "reset_counter"
          /\ UNCHANGED <<world, next_id, early>>
      BY <2>3, RemovePeerStep, RemovePreloadPeerStep, IsEmptyStep, ListTransientStep, RecycleStep,
         IdleTask
         DEF RemovePeer, RemovePreloadPeer, Leaving, IsEmpty, ListTransient, List, LooksUp, Recycle,
             tables, history
    <3> QED
      BY <2>1, <3>1, NamesKept DEF Resetting
  <2>4. CASE ResetResources(t) \/ ResetTables(t)
    <3>1. /\ task[t].pc # "reset_counter" /\ task'[t].pc # "reset_counter"
          /\ UNCHANGED <<next_id, early>>
      BY <2>4, ResetResourcesStep, ResetTablesStep DEF ResetResources, RemoveListed, ResetTables
    <3>2. \A n \in Name : world'[n] = world[n]
      BY <2>4, ResetResourcesStep, ResetTablesStep, Kinds
         DEF Change, Clear
    <3> QED
      BY <2>1, <3>1, <3>2, NamesKept DEF Resetting
  <2> QED
    BY <1>5, <2>2, <2>3, <2>4 DEF LeaveStep
<1>6. ASSUME NEW t \in Task, ResetNames(t)
      PROVE  NamesInv'
  <2>1. task'[t].pc = "reset_counter" /\ early' = {} /\ \A n \in Name : world'[n] = None
    BY <1>6, ResetNamesStep, Kinds DEF ResetNames, ResetBy, Steps, Clear
  <2>2. Fresh' = {} /\ Resetting'
    BY <2>1 DEF Fresh, Resetting
  <2> QED
    BY <2>1, <2>2 DEF NamesInv
<1>7. ASSUME NEW t \in Task, ResetCounter(t)
      PROVE  NamesInv'
  <2>1. next_id' = 0 /\ UNCHANGED <<world, early>> /\ Resetting
    BY <1>7 DEF ResetCounter, history, At, Resetting
  <2>2. Fresh' = {}
    BY <2>1 DEF Fresh, NamesInv
  <2>3. Cardinality({}) = 0
    BY FS_EmptySet
  <2> QED
    BY <2>1, <2>2, <2>3 DEF NamesInv
<1>8. CASE UNCHANGED vars
  BY <1>8, StutterSteps, NamesKept DEF Resetting
<1>9. ASSUME NEW p \in Peer, CutOff(p)
      PROVE  NamesInv'
  <2>1. UNCHANGED <<world, next_id, early, task>>
    BY <1>9, CutOffStep DEF tables, history
  <2> QED
    BY <2>1, NamesKept DEF Resetting
<1> QED
  BY <1>1, <1>2, <1>3, <1>4, <1>5, <1>6, <1>7, <1>8, <1>9 DEF Next

\* Two names never share a net id, unless one of them came between the two halves of
\* NetIdState::reset: when there are no more names than ids.
THEOREM NamesAreDistinct ==
  ASSUME IsFiniteSet(Name), Cardinality(Name) <= IdSpace
  PROVE  Spec => []NamesDistinct
<1>1. Init => NamesInv
  <2>1. Init => Fresh = {}
    BY DEF Init, Fresh, Item
  <2>2. Cardinality({}) = 0
    BY FS_EmptySet
  <2> QED
    BY <2>1, <2>2 DEF Init, NamesInv
<1>2. TypeInv /\ NamesInv /\ [Next]_vars => NamesInv'
  BY NamesNext
<1>3. NamesInv => NamesDistinct
  BY DEF NamesInv, NamesDistinct, Fresh
<1> QED
  BY <1>1, <1>2, <1>3, SceneTypes, PTL DEF Spec

-----------------------------------------------------------------------------
(* Preload sessions: the answers that are awaited are fewer than the players *)

LEMMA Counting ==
  ASSUME TypeInv
  PROVE  /\ IsFiniteSet(known) /\ Cardinality(known) \in Nat
         /\ IsFiniteSet(Unpreloading) /\ Cardinality(Unpreloading) \in Nat
         /\ \A r \in Resource : preload[r] # None =>
              /\ IsFiniteSet(preload[r].answered) /\ Cardinality(preload[r].answered) \in Nat
              /\ preload[r].total \in Nat
<1>1. known \in SUBSET Peer /\ Unpreloading \in SUBSET Task /\ Cardinality(Peer) \in Nat
  BY PeerAssumption, FS_CardinalityType DEF Unpreloading, TypeInv, TablesWell
<1>2. \A r \in Resource : preload[r] # None =>
        preload[r].answered \in SUBSET Peer /\ preload[r].total \in Nat
  BY <1>1 DEF TypeInv, TablesWell, Session
<1> QED
  BY <1>1, <1>2, PeerAssumption, FS_Subset, FS_CardinalityType

LEMMA SessionsKept ==
  ASSUME SessionsInv, UNCHANGED <<preload, known>>, lost \subseteq lost',
         \A u \in Task : task'[u].pc = "unpreload" <=> task[u].pc = "unpreload"
  PROVE  SessionsInv'
<1>1. Unpreloading' = Unpreloading
  BY DEF Unpreloading
<1> QED
  BY <1>1 DEF SessionsInv

LEMMA SessionsHandled ==
  ASSUME TypeInv, SessionsInv, NEW t \in Task, Handle(t)
  PROVE  SessionsInv'
<1>1. /\ \A u \in Task \ {t} : task'[u] = task[u]
      /\ task[t].pc \in HandlerPC /\ task'[t].pc \in HandlerPC \cup {"idle", "done"}
      /\ UNCHANGED known
  BY HandlerSteps DEF Handling
<1>2. task[t].pc # "unpreload" /\ task'[t].pc # "unpreload"
  BY <1>1 DEF HandlerPC, NamePC, ResourcePC, RemovalPC, ObjectPC, SpherePC
<1>3. \A u \in Task : task'[u].pc = "unpreload" <=> task[u].pc = "unpreload"
  BY <1>1, <1>2
<1>4. Unpreloading' = Unpreloading
  BY <1>3 DEF Unpreloading
<1> DEFINE r == task[t].item
<1>5. CASE InsertSession(t)
  <2>1. /\ r \in Resource /\ task[t].stage \in Nat
        /\ preload' = [preload EXCEPT ![r] = [answered |-> {}, total |-> task[t].stage]]
        /\ lost' = IF task[t].stage = Cardinality(known) THEN lost \ {r} ELSE lost \cup {r}
    BY <1>5, InsertSessionStep DEF InsertSession
  <2> HIDE DEF r
  <2>2. \A s \in Resource : /\ s # r => preload'[s] = preload[s] /\ (s \in lost <=> s \in lost')
                            /\ s = r => /\ preload'[s] = [answered |-> {}, total |-> task[t].stage]
                                        /\ s \notin lost' => task[t].stage = Cardinality(known)
    BY <2>1 DEF TypeInv, TablesWell
  <2>4. \A s \in Resource : preload'[s] # None =>
          \/ preload'[s].answered = {}
          \/ Cardinality(preload'[s].answered) < preload'[s].total
    BY <2>1, <2>2 DEF SessionsInv
  <2>5. \A s \in Resource : preload'[s] # None /\ s \notin lost' =>
          preload'[s].total <= Cardinality(known) + Cardinality(Unpreloading)
    BY <2>1, <2>2, Counting DEF SessionsInv
  <2> QED
    BY <1>1, <1>4, <2>4, <2>5 DEF SessionsInv
<1>6. CASE Unload(t)
  <2>1. /\ \A s \in Resource : preload'[s] \in {None, preload[s]}
        /\ lost \subseteq lost'
    BY <1>6 DEF Unload, TypeInv, TablesWell
  <2> QED
    BY <1>1, <1>4, <2>1 DEF SessionsInv
<1>7. CASE MarkReady(t)
  <2> DEFINE answered == preload[r].answered \cup {task[t].peer}
  <2>1. CASE UNCHANGED preload
    BY <1>1, <1>3, <1>7, <2>1, SessionsKept DEF MarkReady
  <2>2. CASE /\ preload[r] # None /\ Cardinality(answered) < preload[r].total
             /\ preload' = [preload EXCEPT ![r].answered = answered]
    <3>1. r \in Resource /\ preload[r] \in Session /\ UNCHANGED lost
      BY <1>7, <2>2, MarkReadyStep DEF MarkReady, TypeInv, TablesWell
    <3> HIDE DEF answered
    <3>2. \A s \in Resource : /\ s # r => preload'[s] = preload[s]
                              /\ s = r => /\ preload'[s].answered = answered
                                          /\ preload'[s].total = preload[s].total
      <4> HIDE DEF r
      <4> QED
        BY <2>2, <3>1 DEF TypeInv, TablesWell, Session
    <3> QED
      BY <1>1, <1>4, <2>2, <3>1, <3>2 DEF SessionsInv
  <2>3. CASE preload' = [preload EXCEPT ![r] = None]
    <3>1. /\ \A s \in Resource : preload'[s] \in {None, preload[s]}
          /\ lost \subseteq lost'
      BY <1>7, <2>3 DEF MarkReady, TypeInv, TablesWell
    <3> QED
      BY <1>1, <1>4, <3>1 DEF SessionsInv
  <2> QED
    BY <1>7, <2>1, <2>2, <2>3, MarkReadyStep
<1>8. CASE ~(InsertSession(t) \/ Unload(t) \/ MarkReady(t))
  <2>1. UNCHANGED <<preload, lost>>
    BY <1>8 DEF Handle, NetIdExisted, AddOrFind, Assign, Load, CollectPeers, LoadResource,
         RemoveResource, PutBack, FindScene, ListScenes, List, UnloadScenes, RemoveListed,
         SpawnPreloaded, GetOwner, ChangeOwner, RemoveOwner, Share, ShareCleanup, CameraState,
         tables, history
  <2> QED
    BY <1>1, <1>3, <2>1, SessionsKept
<1> QED
  BY <1>5, <1>6, <1>7, <1>8

LEMMA SessionsLeft ==
  ASSUME TypeInv, SessionsInv, NEW t \in Task, RemovePreloadPeer(t)
  PROVE  SessionsInv'
<1>1. /\ \A u \in Task \ {t} : task'[u] = task[u]
      /\ task[t].pc = "unpreload" /\ task'[t].pc = "is_empty" /\ task[t].peer \in Peer
      /\ UNCHANGED <<known, lost>>
  BY RemovePreloadPeerStep DEF RemovePreloadPeer, Leaving, At, Steps
<1>2. Unpreloading' = Unpreloading \ {t} /\ t \in Unpreloading
  BY <1>1 DEF Unpreloading
<1>3. /\ Cardinality(Unpreloading') = Cardinality(Unpreloading) - 1
      /\ Cardinality(Unpreloading) \in Nat /\ Cardinality(known) \in Nat
  BY <1>2, Counting, FS_RemoveElement
<1> SUFFICES ASSUME NEW r \in Resource, preload'[r] # None
             PROVE  /\ \/ preload'[r].answered = {}
                       \/ Cardinality(preload'[r].answered) < preload'[r].total
                    /\ r \notin lost => preload'[r].total <= Cardinality(known) + Cardinality(Unpreloading')
  BY <1>1 DEF SessionsInv
<1>4. /\ preload[r] # None /\ r \notin Complete(t)
      /\ preload'[r] = [answered |-> Left(t, r), total |-> Total(r)]
  BY RemovePreloadPeerStep
<1>5. preload[r].total \in Nat /\ Cardinality(Left(t, r)) \in Nat
  BY <1>1, <1>4, Counting, FS_RemoveElement, FS_CardinalityType DEF Left
<1>6. ~(Cardinality(Left(t, r)) >= Total(r))
  BY <1>4 DEF Complete
<1>7. Total(r) = preload[r].total - 1 /\ Total(r) \in Nat /\ Cardinality(Left(t, r)) < Total(r)
  BY <1>5, <1>6 DEF Total
<1>8. r \notin lost => preload[r].total <= Cardinality(known) + Cardinality(Unpreloading)
  BY <1>4 DEF SessionsInv
<1> QED
  BY <1>3, <1>4, <1>5, <1>7, <1>8

LEMMA SessionsNext ==
  ASSUME TypeInv, SessionsInv, [Next]_vars
  PROVE  SessionsInv'
<1>1. ASSUME NEW t \in Task, NEW p \in Peer, Request(t, p) \/ Connect(t, p) \/ Close(t, p)
      PROVE  SessionsInv'
  <2>1. /\ task[t] = Idle /\ \A u \in Task \ {t} : task'[u] = task[u]
        /\ task'[t].pc # "unpreload" /\ UNCHANGED <<preload, known, lost>>
    BY <1>1, RequestSteps, ConnectStep, CloseStep
       DEF Connect, Close, tables, history, RequestPC, ObjectPC, SpherePC
  <2>2. \A u \in Task : task'[u].pc = "unpreload" <=> task[u].pc = "unpreload"
    BY <2>1, IdleTask
  <2> QED
    BY <2>1, <2>2, SessionsKept
<1>2. ASSUME NEW t \in Task, NEW q \in Peer, NEW m \in task[t].out, Visit(t, q, m)
      PROVE  SessionsInv'
  <2>1. /\ UNCHANGED <<preload, known, lost>> /\ \A u \in Task \ {t} : task'[u] = task[u]
        /\ \/ task[t].pc = "done" /\ task'[t].pc = "idle"
           \/ task'[t].pc = task[t].pc
    BY <1>2, VisitSteps, IdleTask DEF tables, history
  <2>2. \A u \in Task : task'[u].pc = "unpreload" <=> task[u].pc = "unpreload"
    BY <2>1
  <2> QED
    BY <2>1, <2>2, SessionsKept
<1>3. ASSUME NEW t \in Task, Handle(t)
      PROVE  SessionsInv'
  BY <1>3, SessionsHandled
<1>4. ASSUME NEW t \in Task, JoinStep(t)
      PROVE  SessionsInv'
  <2>1. /\ \A u \in Task \ {t} : task'[u] = task[u]
        /\ task[t].pc # "unpreload" /\ task'[t].pc # "unpreload"
        /\ UNCHANGED preload
    BY <1>4, JoinSteps, IdleTask DEF tables
  <2>2. \A u \in Task : task'[u].pc = "unpreload" <=> task[u].pc = "unpreload"
    BY <2>1
  <2>3. CASE Insert(t)
    <3>1. known' = known \cup {task[t].peer} /\ UNCHANGED lost
      BY <2>3 DEF Insert, history
    <3>2. Cardinality(known) <= Cardinality(known')
      <4>1. known' = known \/ Cardinality(known') = Cardinality(known) + 1
        <5>1. IsFiniteSet(known)
          BY Counting
        <5>2. PICK p : p = task[t].peer
          OBVIOUS
        <5>3. CASE p \in known
          BY <3>1, <5>2, <5>3
        <5>4. CASE p \notin known
          <6>1. Cardinality(known \cup {p}) = Cardinality(known) + 1
            BY <5>1, <5>4, FS_AddElement
          <6> QED
            BY <3>1, <5>2, <6>1
        <5> QED
          BY <5>3, <5>4
      <4>2. Cardinality(known) \in Nat
        BY Counting
      <4> QED
        BY <4>1, <4>2
    <3>3. Unpreloading' = Unpreloading
      BY <2>2 DEF Unpreloading
    <3>4. Cardinality(known') \in Nat
      BY <3>1, Counting, FS_AddElement, FS_CardinalityType
    <3> QED
      BY <2>1, <3>1, <3>2, <3>3, <3>4, Counting DEF SessionsInv
  <2>4. CASE ReadTable(t) \/ SendTable(t)
    BY <2>1, <2>2, <2>4, SessionsKept DEF ReadTable, SendTable, history
  <2> QED
    BY <1>4, <2>3, <2>4 DEF JoinStep
<1>5. ASSUME NEW t \in Task, RemovePeer(t)
      PROVE  SessionsInv'
  <2>1. /\ \A u \in Task \ {t} : task'[u] = task[u]
        /\ task[t].pc = "forget" /\ UNCHANGED <<preload, lost>>
        /\ known' = known \ {task[t].peer}
        /\ task'[t].pc = IF task[t].peer \in known THEN "unpreload" ELSE "recycle"
    BY <1>5, RemovePeerStep DEF RemovePeer, tables, history, At, Steps
  <2>2. CASE task[t].peer \in known
    <3>1. Unpreloading' = Unpreloading \cup {t} /\ t \notin Unpreloading
      BY <2>1, <2>2 DEF Unpreloading
    <3>2. /\ Cardinality(Unpreloading') = Cardinality(Unpreloading) + 1
          /\ Cardinality(known') = Cardinality(known) - 1
      BY <2>1, <2>2, <3>1, Counting, FS_AddElement, FS_RemoveElement
    <3> QED
      BY <2>1, <3>2, Counting DEF SessionsInv
  <2>3. CASE task[t].peer \notin known
    <3>1. \A u \in Task : task'[u].pc = "unpreload" <=> task[u].pc = "unpreload"
      BY <2>1, <2>3
    <3>2. known' = known
      BY <2>1, <2>3
    <3> QED
      BY <2>1, <3>1, <3>2, SessionsKept
  <2> QED
    BY <2>2, <2>3
<1>6. ASSUME NEW t \in Task, RemovePreloadPeer(t)
      PROVE  SessionsInv'
  BY <1>6, SessionsLeft
<1>7. ASSUME NEW t \in Task, LeaveStep(t), ~(RemovePeer(t) \/ RemovePreloadPeer(t))
      PROVE  SessionsInv'
  <2>1. /\ \A u \in Task \ {t} : task'[u] = task[u]
        /\ task[t].pc # "unpreload" /\ task'[t].pc # "unpreload"
    <3> USE DEF At, Steps
    <3>1. CASE Disown(t) \/ Unshare(t) \/ RemoveCamera(t)
      BY <3>1, DisownStep, UnshareStep, RemoveCameraStep
    <3>2. CASE ResetResources(t) \/ ResetNames(t) \/ ResetCounter(t)
      BY <3>2, ResetResourcesStep, ResetNamesStep, ResetCounterStep
    <3>4. CASE IsEmpty(t) \/ ListTransient(t)
      BY <3>4, IsEmptyStep, ListTransientStep DEF LooksUp
    <3>3. CASE ResetTables(t) \/ Recycle(t)
      BY <3>3, ResetTablesStep, RecycleStep, IdleTask
    <3> QED
      BY <1>7, <3>1, <3>2, <3>3, <3>4 DEF LeaveStep
  <2>2. UNCHANGED <<preload, known, lost>>
    BY <1>7 DEF LeaveStep, Disown, Unshare, TakeAway, RemoveCamera, IsEmpty, ListTransient, List,
         ResetResources, RemoveListed, ResetNames, ResetBy, ResetCounter, ResetTables, Recycle,
         tables, history
  <2>3. \A u \in Task : task'[u].pc = "unpreload" <=> task[u].pc = "unpreload"
    BY <2>1
  <2> QED
    BY <2>2, <2>3, SessionsKept
<1>8. CASE UNCHANGED vars
  BY <1>8, StutterSteps, SessionsKept
<1>9. ASSUME NEW p \in Peer, CutOff(p)
      PROVE  SessionsInv'
  BY <1>9, CutOffStep, SessionsKept DEF tables, history
<1> QED
  BY <1>1, <1>2, <1>3, <1>4, <1>5, <1>6, <1>7, <1>8, <1>9 DEF Next

-----------------------------------------------------------------------------
(* A client that waits is told to go on *)

LEMMA AwaitsKept ==
  ASSUME NEW t \in Task, NEW r \in Resource, Awaits(r),
         \A p \in Peer : Waiting(p, r)' => Waiting(p, r),
         \A u \in Task \ {t} : task'[u] = task[u], task[t].out = {},
         preload'[r] # None \/ preload'[r] = preload[r],
         task[t].pc = "session" /\ task[t].item = r => preload'[r] # None,
         task[t].pc \in SpawnPC /\ task[t].item = r =>
           \/ task'[t].pc \in SpawnPC /\ task'[t].item = r
           \/ \A p \in Peer : Release(p, r)',
         \A m \in task'[t].out : Orders(m, r) => preload'[r] # None
  PROVE  Awaits(r)'
<1>1. ASSUME NEW p \in Peer, Waiting(p, r)'
      PROVE  Ends(p, r)'
  <2>1. CASE preload'[r] # None
    BY <2>1 DEF Ends
  <2>2. CASE preload'[r] = None
    <3>1. preload[r] = None /\ Ends(p, r)
      BY <1>1, <2>2 DEF Awaits
    <3>2. CASE Inserting(r)
      BY <2>2, <3>2 DEF Inserting, Ends
    <3>3. CASE Spawning(r)
      BY <3>3 DEF Spawning, Ends
    <3>4. CASE Release(p, r)
      BY <3>4 DEF Release, Ends
    <3> QED
      BY <3>1, <3>2, <3>3, <3>4 DEF Ends
  <2> QED
    BY <2>1, <2>2
<1>2. ASSUME NEW u \in Task, NEW m \in task'[u].out, Orders(m, r)
      PROVE  preload'[r] # None
  BY <1>2 DEF Awaits
<1> QED
  BY <1>1, <1>2 DEF Awaits, Orders

\* The item was changed or is to be spawned, and nothing older is said of it.
LEMMA AwaitsAnew ==
  ASSUME NEW t \in Task, NEW r \in Resource, ~Overtaken(t, r),
         \A u \in Task \ {t} : task'[u] = task[u],
         \A p \in Peer : Ends(p, r)',
         \A m \in task'[t].out : ~Orders(m, r)
  PROVE  Awaits(r)'
<1>1. ASSUME NEW u \in Task, NEW m \in task'[u].out
      PROVE  ~Orders(m, r)
  BY DEF Overtaken, Orders
<1> QED
  BY <1>1 DEF Awaits, Orders

LEMMA AwaitsSession ==
  ASSUME NEW r \in Resource, preload'[r] # None
  PROVE  Awaits(r)'
  BY DEF Awaits, Ends

\* What a step releases
LEMMA Releases ==
  ASSUME NEW t \in Task, NEW r \in Resource, NEW v \in Content, v = None \/ ~v.preload,
         NEW out, task'[t].out = out, Broadcast(r, v) \subseteq out \/ Spawn(r) \subseteq out
  PROVE  \A p \in Peer : Release(p, r)' /\ Ends(p, r)'
<1>1. ASSUME NEW p \in Peer
      PROVE  \E m \in task'[t].out : /\ m.item = r /\ p \in m.left
                                     /\ m.kind = "spawn" \/ m.val = None \/ ~m.val.preload
  <2>1. CASE Broadcast(r, v) \subseteq out
    BY <2>1, Kinds, Sends, <1>1
  <2>2. CASE Spawn(r) \subseteq out
    BY <2>2, Kinds, Spawns, <1>1
  <2> QED
    BY <2>1, <2>2
<1> QED
  BY <1>1 DEF Release, Ends

LEMMA Apart ==
  ASSUME NEW i \in Item, NEW v \in Content, NEW p \in Peer, NEW r, i # r
  PROVE  /\ \A m \in Broadcast(i, v) : m.item # r
         /\ \A m \in BroadcastExcept(p, i, v) : m.item # r
         /\ \A m \in Reply(p, i, v) : m.item # r
  BY Sends

\* The handlers of names, objects, spheres and cameras
LEMMA AwaitsOthers ==
  ASSUME TypeInv, NEW t \in Task, NEW r \in Resource,
         \/ NetIdExisted(t) \/ AddOrFind(t) \/ GetOwner(t) \/ ChangeOwner(t) \/ RemoveOwner(t)
         \/ Share(t) \/ ShareCleanup(t) \/ CameraState(t)
  PROVE  /\ r \notin raced' => r \notin raced
         /\ UNCHANGED <<preload, lost>>
         /\ task[t].pc \notin ResourcePC
         /\ \A m \in task'[t].out : m.item # r
<1> USE DEF At, Steps, ResourcePC
<1>1. CASE NetIdExisted(t)
  BY <1>1, NetIdExistedStep DEF NetIdExisted, tables, history, LooksUp
<1>2. CASE AddOrFind(t)
  <2>1. task[t].item # r /\ task[t].item \in Item
    BY <1>2, AddOrFindStep, Kinds
  <2>2. \A id \in NetId : \A m \in Assigned(t, id) : m.item # r
    BY <1>2, <2>1, AddOrFindStep, Sends DEF Assigned, Content
  <2> QED
    BY <1>2, <2>1, <2>2, AddOrFindStep, IdleTask DEF AddOrFind, Assign, Take, Change
<1>3. CASE GetOwner(t)
  <2>1. /\ task[t].item # r /\ task[t].item \in Item /\ task[t].peer \in Peer
        /\ world[task[t].item] \in Content /\ task[t].peer \in Content
    BY <1>3, GetOwnerStep, Kinds DEF TypeInv, WorldWell, Content
  <2>2. \A m \in Reply(task[t].peer, task[t].item, task[t].peer) \cup Reply(task[t].peer, task[t].item, world[task[t].item]) : m.item # r
    BY <2>1, Apart
  <2>3. task[t].pc \notin ResourcePC /\ \A m \in task'[t].out : m.item # r
    BY <1>3, <2>2, GetOwnerStep, IdleTask
  <2>4. (r \notin raced' => r \notin raced) /\ UNCHANGED <<preload, lost>>
    BY <1>3, <2>1, GetOwnerStep DEF GetOwner, TakeQuietly
  <2> QED
    BY <2>3, <2>4
<1>4. CASE ChangeOwner(t)
  <2>1. /\ task[t].item # r /\ task[t].item \in Item /\ task[t].peer \in Peer
        /\ task[t].peer \in Content /\ None \in Content
    BY <1>4, ChangeOwnerStep, Kinds DEF TypeInv, WorldWell, Content
  <2>2. \A m \in Broadcast(task[t].item, task[t].peer) : m.item # r
    BY <2>1, Apart
  <2>3. task[t].pc \notin ResourcePC /\ \A m \in task'[t].out : m.item # r
    BY <1>4, <2>2, ChangeOwnerStep, IdleTask
  <2>4. (r \notin raced' => r \notin raced) /\ UNCHANGED <<preload, lost>>
    BY <1>4, <2>1, ChangeOwnerStep DEF ChangeOwner, Take, Change
  <2> QED
    BY <2>3, <2>4
<1>5. CASE RemoveOwner(t)
  <2>1. /\ task[t].item # r /\ task[t].item \in Item /\ task[t].peer \in Peer
        /\ task[t].peer \in Content /\ None \in Content
    BY <1>5, RemoveOwnerStep, Kinds DEF TypeInv, WorldWell, Content
  <2>2. \A m \in Broadcast(task[t].item, None) : m.item # r
    BY <2>1, Apart
  <2>3. task[t].pc \notin ResourcePC /\ \A m \in task'[t].out : m.item # r
    BY <1>5, <2>2, RemoveOwnerStep, IdleTask
  <2>4. (r \notin raced' => r \notin raced) /\ UNCHANGED <<preload, lost>>
    BY <1>5, <2>1, RemoveOwnerStep DEF RemoveOwner, Change
  <2> QED
    BY <2>3, <2>4
<1>6. CASE Share(t)
  <2>1. /\ task[t].item # r /\ task[t].item \in Item /\ task[t].peer \in Peer
        /\ task[t].peer \in Content /\ None \in Content
    BY <1>6, ShareStep, Kinds DEF TypeInv, WorldWell, Content
  <2>2. \A m \in Broadcast(task[t].item, task[t].peer) : m.item # r
    BY <2>1, Apart
  <2>3. task[t].pc \notin ResourcePC /\ \A m \in task'[t].out : m.item # r
    BY <1>6, <2>2, ShareStep, IdleTask
  <2>4. (r \notin raced' => r \notin raced) /\ UNCHANGED <<preload, lost>>
    BY <1>6, <2>1, ShareStep DEF Share, Take, Change
  <2> QED
    BY <2>3, <2>4
<1>7. CASE ShareCleanup(t)
  <2>1. /\ task[t].item # r /\ task[t].item \in Item /\ task[t].peer \in Peer
        /\ task[t].peer \in Content /\ None \in Content
    BY <1>7, ShareCleanupStep, Kinds DEF TypeInv, WorldWell, Content
  <2>2. \A m \in Broadcast(task[t].item, None) : m.item # r
    BY <2>1, Apart
  <2>3. task[t].pc \notin ResourcePC /\ \A m \in task'[t].out : m.item # r
    BY <1>7, <2>2, ShareCleanupStep, IdleTask
  <2>4. (r \notin raced' => r \notin raced) /\ UNCHANGED <<preload, lost>>
    BY <1>7, <2>1, ShareCleanupStep DEF ShareCleanup, Change
  <2> QED
    BY <2>3, <2>4
<1>8. CASE CameraState(t)
  <2>1. /\ task[t].peer # r /\ task[t].peer \in Item /\ task[t].peer \in Peer
        /\ task[t].val \in Content
    BY <1>8, CameraStateStep, Kinds DEF TypeInv, WorldWell, Content
  <2>2. \A m \in BroadcastExcept(task[t].peer, task[t].peer, task[t].val) : m.item # r
    BY <2>1, Apart
  <2>3. task[t].pc \notin ResourcePC /\ \A m \in task'[t].out : m.item # r
    BY <1>8, <2>2, CameraStateStep, IdleTask
  <2>4. (r \notin raced' => r \notin raced) /\ UNCHANGED <<preload, lost>>
    BY <1>8, <2>1, CameraStateStep DEF CameraState, Take, Change
  <2> QED
    BY <2>3, <2>4
<1> QED
  BY <1>1, <1>2, <1>3, <1>4, <1>5, <1>6, <1>7, <1>8

LEMMA AwaitsLoads ==
  ASSUME TypeInv, WaitInv, NEW t \in Task, NEW r \in Resource \ (raced' \cup lost'),
         LoadResource(t)
  PROVE  Awaits(r)'
<1> DEFINE i == task[t].item
           v == task[t].val
<1>1. /\ \A u \in Task \ {t} : task'[u] = task[u]
      /\ task[t].out = {} /\ task[t].pc = "load_resource"
      /\ UNCHANGED <<told, preload, lost>> /\ i \in Resource /\ v \in LoadKind
  BY LoadResourceStep DEF LoadResource, At, Steps, sent
<1>2. CASE task'[t].out = {} /\ UNCHANGED raced
  BY <1>1, <1>2, AwaitsKept DEF WaitInv, Waiting, SpawnPC
<1>3. CASE /\ Take(t, i, v)
           /\ \/ Steps(t, "done", Broadcast(i, v)) /\ ~v.preload
              \/ Steps(t, "session", {})
  <2>1. raced' = (raced \ {i}) \cup {j \in {i} : Overtaken(t, j)}
    BY <1>3 DEF Take, Change
  <2>2. v \in Content /\ i \in Item
    BY <1>1, KindAssumption, Kinds DEF Content
  <2>3. \A m \in Broadcast(i, v) : m.item = i /\ m.val = v
    BY <2>2, Sends, AtTask, PeerAssumption DEF Broadcast, Message
  <2>4. task'[t].out = {} \/ (task'[t].out = Broadcast(i, v) /\ ~v.preload)
    BY <1>3, IdleTask DEF Steps
  <2>5. CASE r # i
    <3>1. Awaits(r)
      BY <2>1, <2>5, <1>1 DEF WaitInv
    <3>2. \A m \in task'[t].out : ~Orders(m, r)
      BY <2>3, <2>4, <2>5 DEF Orders
    <3> QED
      BY <1>1, <3>1, <3>2, AwaitsKept DEF Waiting, SpawnPC
  <2>6. CASE r = i
    <3>1. ~Overtaken(t, r)
      BY <2>1, <2>6
    <3>2. \A m \in task'[t].out : ~Orders(m, r)
      BY <2>3, <2>4 DEF Orders
    <3>3. CASE task'[t].out = Broadcast(i, v) /\ ~v.preload
      BY <1>1, <2>2, <2>6, <3>1, <3>2, <3>3, Releases, AwaitsAnew
    <3>4. CASE Steps(t, "session", {})
      <4>1. Inserting(r)'
        BY <2>6, <3>4 DEF Steps, Inserting
      <4> QED
        BY <1>1, <3>1, <3>2, <4>1, AwaitsAnew DEF Ends
    <3>5. Broadcast(i, v) # {}
      BY DEF Broadcast
    <3> QED
      BY <1>3, <3>3, <3>4, <3>5 DEF Steps
  <2> QED
    BY <2>5, <2>6
<1> QED
  BY <1>1, <1>2, <1>3, LoadResourceStep, IdleTask DEF Steps

LEMMA AwaitsSessions ==
  ASSUME TypeInv, WaitInv, NEW t \in Task, NEW r \in Resource \ (raced' \cup lost'),
         InsertSession(t) \/ Unload(t) \/ MarkReady(t)
  PROVE  Awaits(r)'
<1> DEFINE i == task[t].item
           v == task[t].val
<1> USE DEF At, Steps, SpawnPC
<1>1. CASE InsertSession(t)
  <2>1. /\ \A u \in Task \ {t} : task'[u] = task[u]
        /\ task[t].out = {} /\ task[t].pc = "session" /\ i \in Resource
        /\ UNCHANGED <<told, raced>> /\ task'[t].out = Broadcast(i, v) /\ v \in LoadKind
        /\ lost' \in {lost \ {i}, lost \cup {i}}
        /\ preload' = [preload EXCEPT ![i] = [answered |-> {}, total |-> task[t].stage]]
    BY <1>1, InsertSessionStep DEF InsertSession, sent
  <2>2. CASE r = i
    <3>1. [answered |-> {}, total |-> task[t].stage] # None
      BY <1>1, NoneIsNothing, InsertSessionStep
    <3>2. preload'[r] # None
      BY <2>1, <2>2, <3>1 DEF TypeInv, TablesWell
    <3> QED
      BY <3>2, AwaitsSession
  <2>3. CASE r # i
    <3>1. Awaits(r) /\ preload'[r] = preload[r]
      BY <2>1, <2>3 DEF WaitInv, TypeInv, TablesWell
    <3>2. \A m \in task'[t].out : ~Orders(m, r)
      BY <2>1, <2>3 DEF Orders, Broadcast, Message
    <3> QED
      BY <2>1, <2>3, <3>1, <3>2, AwaitsKept DEF Waiting
  <2> QED
    BY <2>2, <2>3
<1>2. CASE Unload(t)
  <2>1. /\ \A u \in Task \ {t} : task'[u] = task[u]
        /\ task[t].out = {} /\ task[t].pc = "unload" /\ i \in Resource
        /\ UNCHANGED <<told, raced>> /\ task'[t].out = {}
        /\ lost' = (IF preload[i] # None THEN lost \cup {i} ELSE lost)
        /\ preload' = [preload EXCEPT ![i] = None]
    BY <1>2, UnloadStep DEF Unload, sent
  <2>2. preload'[r] = preload[r] /\ r \notin lost
    BY <2>1 DEF TypeInv, TablesWell
  <2> QED
    BY <2>1, <2>2, AwaitsKept DEF WaitInv, Waiting
<1>3. CASE MarkReady(t)
  <2>1. /\ \A u \in Task \ {t} : task'[u] = task[u]
        /\ task[t].out = {} /\ task[t].pc = "preload_ready" /\ i \in Resource
        /\ UNCHANGED <<told, lost>> /\ task'[t].out = {}
    BY <1>3, MarkReadyStep, IdleTask DEF MarkReady, sent
  <2>2. CASE UNCHANGED <<raced, preload>>
    BY <2>1, <2>2, AwaitsKept DEF WaitInv, Waiting
  <2>3. CASE /\ preload[i] # None /\ UNCHANGED raced
             /\ preload' = [preload EXCEPT ![i].answered = preload[i].answered \cup {task[t].peer}]
    <3>1. r # i => preload'[r] = preload[r]
      BY <2>3 DEF TypeInv, TablesWell
    <3>2. preload'[i] # None
      <4>1. preload' \in [Resource -> Session \cup {None}]
        BY <1>3, MarkReadyStep DEF TypeInv, TablesWell
      <4>2. preload[i] \in Session
        BY <2>1, <2>3 DEF TypeInv, TablesWell
      <4>3. preload'[i] = [preload[i] EXCEPT !.answered = preload[i].answered \cup {task[t].peer}]
        BY <2>1, <2>3 DEF TypeInv, TablesWell
      <4>4. preload'[i] \in Session
        <5>1. task[t].peer \in Peer
          BY <1>3, MarkReadyStep
        <5> QED
          BY <4>2, <4>3, <5>1 DEF Session
      <4> QED
        BY <4>4, NoneIsNothing
    <3> QED
      BY <2>1, <2>3, <3>1, <3>2, AwaitsKept, AwaitsSession DEF WaitInv, Waiting
  <2>4. CASE /\ task'[t].pc = "scenes" /\ task'[t].item = i
             /\ preload' = [preload EXCEPT ![i] = None] /\ SpawnRace(t, {i})
    <3>1. raced \subseteq raced' /\ (r = i => ~Overtaken(t, r))
      BY <2>4 DEF SpawnRace
    <3>2. CASE r = i
      <4>1. Spawning(r)'
        BY <2>4, <3>2 DEF Spawning
      <4> QED
        BY <2>1, <3>1, <3>2, <4>1, AwaitsAnew DEF Ends
    <3>3. CASE r # i
      <4>1. preload'[r] = preload[r] /\ Awaits(r)
        BY <2>1, <2>4, <3>1, <3>3 DEF TypeInv, TablesWell, WaitInv
      <4> QED
        BY <2>1, <4>1, AwaitsKept DEF Waiting
    <3> QED
      BY <3>2, <3>3
  <2> QED
    BY <1>3, <2>2, <2>3, <2>4, MarkReadyStep
<1> QED
  BY <1>1, <1>2, <1>3

\* The resources in S are removed, and everyone is told.
LEMMA AwaitsRemoval ==
  ASSUME TypeInv, WaitInv, NEW t \in Task, NEW r \in Resource \ (raced' \cup lost'),
         NEW S \in SUBSET Resource, Change(t, S, None), UNCHANGED <<told, preload, lost>>,
         \A u \in Task \ {t} : task'[u] = task[u], task[t].out = {}, task[t].pc # "session",
         task'[t].out = UNION {Broadcast(s, None) : s \in S},
         task[t].pc \in SpawnPC => task'[t].pc \in SpawnPC /\ task'[t].item = task[t].item
  PROVE  Awaits(r)'
<1>1. raced' = (raced \ S) \cup {j \in S : Overtaken(t, j)} /\ None \in Content
  BY DEF Change, Content
<1>2. \A s \in S : \A m \in Broadcast(s, None) : m.item = s /\ m.val = None
  BY DEF Broadcast, Message
<1>3. \A m \in task'[t].out : m.item \in S /\ ~Orders(m, r)
  BY <1>2 DEF Orders
<1>4. CASE r \in S
  <2>1. Broadcast(r, None) \subseteq task'[t].out
    BY <1>4
  <2> QED
    BY <1>1, <1>3, <1>4, <2>1, Releases, AwaitsAnew
<1>5. CASE r \notin S
  BY <1>1, <1>3, <1>5, AwaitsKept DEF WaitInv, Waiting
<1> QED
  BY <1>4, <1>5

LEMMA AwaitsHandled ==
  ASSUME TypeInv, WaitInv, NEW t \in Task, NEW r \in Resource \ (raced' \cup lost'), Handle(t)
  PROVE  Awaits(r)'
<1> USE DEF At, Steps, SpawnPC
<1> DEFINE i == task[t].item
<1>1. CASE \/ NetIdExisted(t) \/ AddOrFind(t) \/ GetOwner(t) \/ ChangeOwner(t) \/ RemoveOwner(t)
           \/ Share(t) \/ ShareCleanup(t) \/ CameraState(t)
  <2>1. /\ r \notin raced \cup lost /\ UNCHANGED preload
        /\ task[t].pc \notin ResourcePC /\ \A m \in task'[t].out : ~Orders(m, r)
    BY <1>1, AwaitsOthers DEF Orders
  <2>2. \A u \in Task \ {t} : task'[u] = task[u] /\ task[t].out = {} /\ UNCHANGED told
    BY HandlerSteps DEF Handling, sent
  <2>3. task[t].out = {} /\ UNCHANGED told
    BY HandlerSteps DEF Handling, sent
  <2> QED
    BY <2>1, <2>2, <2>3, AwaitsKept DEF WaitInv, Waiting, ResourcePC
<1>2. CASE LoadResource(t)
  BY <1>2, AwaitsLoads
<1>3. CASE InsertSession(t) \/ Unload(t) \/ MarkReady(t)
  BY <1>3, AwaitsSessions
<1>4. CASE RemoveResource(t)
  <2>1. /\ \A u \in Task \ {t} : task'[u] = task[u]
        /\ task[t].out = {} /\ task[t].pc = "remove" /\ i \in Resource
        /\ UNCHANGED <<told, preload, lost>>
    BY <1>4, RemoveResourceStep DEF RemoveResource, LooksUp, sent
  <2>2. CASE task'[t].out = {} /\ UNCHANGED raced
    BY <2>1, <2>2, AwaitsKept DEF WaitInv, Waiting
  <2>3. CASE Steps(t, "done", Broadcast(i, None)) /\ Change(t, {i}, None)
    <3>1. {i} \in SUBSET Resource
      BY <2>1
    <3>2. task'[t].out = UNION {Broadcast(s, None) : s \in {i}}
      BY <2>3, IdleTask
    <3> QED
      BY <2>1, <2>3, <3>1, <3>2, AwaitsRemoval
  <2> QED
    BY <1>4, <2>2, <2>3, RemoveResourceStep, IdleTask DEF LooksUp
<1>5. CASE PutBack(t)
  <2>1. /\ \A u \in Task \ {t} : task'[u] = task[u]
        /\ task[t].out = {} /\ task[t].pc = "put_back" /\ task'[t].out = {}
        /\ UNCHANGED <<told, preload, lost, raced>>
    BY <1>5, PutBackStep, IdleTask DEF PutBack, sent
  <2> QED
    BY <2>1, AwaitsKept DEF WaitInv, Waiting
<1>6. CASE UnloadScenes(t)
  <2>1. /\ \A u \in Task \ {t} : task'[u] = task[u]
        /\ task[t].out = {} /\ task[t].pc = "unload_scenes"
        /\ task'[t].pc = "spawn" /\ task'[t].item = i
        /\ UNCHANGED <<told, preload, lost>> /\ Change(t, Listed(t), None)
        /\ task'[t].out = UNION {Broadcast(s, None) : s \in Listed(t)}
        /\ Listed(t) \in SUBSET Resource
    BY <1>6, UnloadScenesStep DEF UnloadScenes, RemoveListed, sent, Removals
  <2> QED
    BY <2>1, AwaitsRemoval
<1>8. CASE Load(t) \/ CollectPeers(t) \/ FindScene(t) \/ ListScenes(t)
  <2>1. /\ \A u \in Task \ {t} : task'[u] = task[u]
        /\ task[t].out = {} /\ task'[t].out = {}
        /\ task[t].pc \in {"load", "collect", "scenes", "list_scenes"}
        /\ task[t].pc \in SpawnPC => task'[t].pc \in SpawnPC /\ task'[t].item = i
    BY <1>8, LoadStep, CollectPeersStep, FindSceneStep, ListScenesStep, IdleTask DEF LooksUp
  <2>2. UNCHANGED <<told, preload, lost, raced>>
    BY <1>8 DEF Load, CollectPeers, FindScene, ListScenes, List, tables, sent, history
  <2> QED
    BY <2>1, <2>2, AwaitsKept DEF WaitInv, Waiting
<1>7. CASE SpawnPreloaded(t)
  <2>1. /\ \A u \in Task \ {t} : task'[u] = task[u]
        /\ task[t].out = {} /\ task[t].pc = "spawn" /\ i \in Resource
        /\ task'[t].out = Spawn(i)
        /\ UNCHANGED <<told, preload, lost, raced>>
    BY <1>7, SpawnPreloadedStep, Spawns, Kinds DEF SpawnPreloaded, tables, sent, history
  <2>2. i = r => \A p \in Peer : Release(p, r)'
    BY <2>1, Releases DEF Content
  <2>3. \A m \in task'[t].out : ~Orders(m, r)
    BY <2>1 DEF Spawn, Message, Orders
  <2> QED
    BY <2>1, <2>2, <2>3, AwaitsKept DEF WaitInv, Waiting
<1> QED
  BY <1>1, <1>2, <1>3, <1>4, <1>5, <1>6, <1>7, <1>8 DEF Handle

LEMMA VisitTold ==
  ASSUME TypeInv, NEW t \in Task, NEW q \in Peer, NEW m \in task[t].out, Visit(t, q, m)
  PROVE  /\ m \in Messages /\ MessageWell(m) /\ m.item \in Item /\ q \in m.left
         /\ \A p \in Peer, i \in Item :
              told'[p][i] = IF p = q /\ i = m.item /\ q \in live /\ (q \in known \/ m.kind = "reply")
                              THEN Heard(q, m) ELSE told[p][i]
<1>1. m \in Messages /\ MessageWell(m) /\ q \in m.left
  BY DEF TypeInv, TasksWell, Tasks, TaskWell, Visit
<1>2. m.item \in Item
  BY <1>1 DEF Messages
<1>3. CASE told' = told /\ ~(q \in live /\ (q \in known \/ m.kind = "reply"))
  BY <1>1, <1>2, <1>3
<1>4. CASE /\ told' = [told EXCEPT ![q][m.item] = Heard(q, m)]
           /\ q \in live /\ (q \in known \/ m.kind = "reply")
  BY <1>1, <1>2, <1>4 DEF TypeInv, TablesWell
<1> QED
  BY <1>3, <1>4 DEF Visit, sent

LEMMA AwaitsVisited ==
  ASSUME TypeInv, WaitInv, NEW t \in Task, NEW q \in Peer, NEW m \in task[t].out, Visit(t, q, m),
         NEW r \in Resource \ (raced' \cup lost')
  PROVE  Awaits(r)'
<1> DEFINE out == Rest(t, q, m)
<1>1. /\ \A u \in Task \ {t} : task'[u] = task[u]
      /\ task'[t].out = out /\ UNCHANGED <<live, known, preload, raced, lost>>
      /\ \/ task'[t] = Idle /\ task[t].pc = "done"
         \/ /\ task'[t].pc = task[t].pc /\ task'[t].item = task[t].item
  BY VisitSteps DEF tables, history
<1>2. /\ \A w \in out : \/ w \in task[t].out
                        \/ w.kind = m.kind /\ w.item = m.item /\ w.val = m.val
      /\ \A w \in task[t].out : \/ w \in out
                                \/ w = m /\ \A p \in w.left \ {q} : \E n \in out :
                                     /\ n.kind = w.kind /\ n.item = w.item /\ n.val = w.val
                                     /\ p \in n.left
  BY Visited
<1> HIDE DEF out
<1>3. Awaits(r)
  BY <1>1 DEF WaitInv
<1>4. ASSUME NEW u \in Task, NEW w \in task'[u].out, Orders(w, r)
      PROVE  preload'[r] # None
  <2>1. CASE u # t
    BY <1>1, <1>3, <1>4, <2>1 DEF Awaits
  <2>2. CASE u = t
    <3>1. \E v \in task[t].out : Orders(v, r)
      BY <1>1, <1>2, <1>4, <2>2 DEF Orders
    <3> QED
      BY <1>1, <1>3, <3>1 DEF Awaits
  <2> QED
    BY <2>1, <2>2
<1>5. ASSUME NEW p \in Peer, Waiting(p, r)'
      PROVE  Ends(p, r)'
  <2>1. CASE p = q /\ r = m.item /\ q \in live /\ (q \in known \/ m.kind = "reply")
    <3>1. told'[p][r] = Heard(q, m) /\ MessageWell(m) /\ m \in Messages /\ r \in Item
      BY <2>1, VisitTold, Kinds
    <3>2. m.kind # "spawn"
      <4>1. ASSUME m.kind = "spawn" PROVE ~Waiting(p, r)'
        <5>1. told[q][r] # None => told[q][r] \in ResourceKind
          BY Kinds, HoldsKinds DEF TypeInv, TablesWell
        <5> QED
          BY <2>1, <3>1, <4>1, <5>1 DEF Heard, Waiting, ResourceKind
      <4> QED
        BY <1>5, <4>1
    <3>3. told'[p][r] = m.val /\ m.kind = "set"
      BY <2>1, <3>1, <3>2 DEF Heard, MessageWell, Messages
    <3>4. Orders(m, r)
      BY <1>5, <2>1, <3>3 DEF Orders, Waiting
    <3> QED
      BY <1>1, <1>3, <3>4 DEF Awaits, Ends
  <2>2. CASE ~(p = q /\ r = m.item /\ q \in live /\ (q \in known \/ m.kind = "reply"))
    <3>1. Waiting(p, r)
      BY <1>5, <2>2, VisitTold, Kinds DEF Waiting
    <3>2. Ends(p, r) /\ p \in live \cap known
      BY <1>3, <3>1 DEF Awaits, WaitInv
    <3>3. ~(p = q /\ r = m.item)
      BY <2>2, <3>2
    <3>4. CASE preload[r] # None
      BY <1>1, <3>4 DEF Ends
    <3>5. CASE Inserting(r)
      BY <1>1, <3>5 DEF Inserting, Ends
    <3>6. CASE Spawning(r)
      BY <1>1, <3>6, IdleTask DEF Spawning, Ends, SpawnPC
    <3>7. CASE Release(p, r)
      <4>1. PICK u \in Task : \E w \in task[u].out :
              /\ w.item = r /\ p \in w.left
              /\ w.kind = "spawn" \/ w.val = None \/ ~w.val.preload
        BY <3>7 DEF Release
      <4>2. CASE u # t
        BY <1>1, <4>1, <4>2 DEF Release, Ends
      <4>3. CASE u = t
        <5>1. \E n \in out : /\ n.item = r /\ p \in n.left
                             /\ n.kind = "spawn" \/ n.val = None \/ ~n.val.preload
          BY <1>2, <3>3, <4>1, <4>3
        <5> QED
          BY <1>1, <5>1 DEF Release, Ends
      <4> QED
        BY <4>2, <4>3
    <3> QED
      BY <3>2, <3>4, <3>5, <3>6, <3>7 DEF Ends
  <2> QED
    BY <2>1, <2>2
<1> QED
  BY <1>4, <1>5 DEF Awaits, Orders

LEMMA AwaitsLeft ==
  ASSUME TypeInv, WaitInv, NEW t \in Task, NEW r \in Resource \ (raced' \cup lost'), LeaveStep(t)
  PROVE  Awaits(r)'
<1>1. /\ \A u \in Task \ {t} : task'[u] = task[u]
      /\ task[t].pc \in LeavePC /\ task[t].out = {} /\ task[t].peer \in Peer /\ UNCHANGED told
  BY LeaveSteps DEF sent
<1>2. task[t].pc # "session" /\ task[t].pc \notin SpawnPC
  BY <1>1 DEF LeavePC, SpawnPC
<1>3. ASSUME UNCHANGED <<preload, lost>>, r \notin raced, \A m \in task'[t].out : m.item # r
      PROVE  Awaits(r)'
  BY <1>1, <1>2, <1>3, AwaitsKept DEF WaitInv, Waiting, Orders
<1>4. CASE Disown(t) \/ Unshare(t)
  <2>1. PICK S \in SUBSET (Object \cup Sphere) :
          /\ task'[t].out = UNION {BroadcastExcept(task[t].peer, i, None) : i \in S}
          /\ Change(t, S, None)
    BY <1>4, DisownStep, UnshareStep DEF Owned, Steps
  <2>2. \A i \in S : \A m \in BroadcastExcept(task[t].peer, i, None) : m.item = i
    BY DEF BroadcastExcept, Message
  <2>3. \A m \in task'[t].out : m.item # r
    BY <2>1, <2>2, Kinds
  <2>4. r \notin raced
    BY <2>1, Kinds DEF Change
  <2> QED
    BY <1>3, <1>4, <2>3, <2>4 DEF Disown, Unshare, TakeAway
<1>5. CASE RemoveCamera(t)
  <2>1. \A m \in task'[t].out : m.item # r
    <3>1. \A m \in BroadcastExcept(task[t].peer, task[t].peer, "off") : m.item = task[t].peer
      BY DEF BroadcastExcept, Message
    <3>2. task[t].peer # r
      BY <1>1, Kinds
    <3>3. task'[t].out \in {{}, BroadcastExcept(task[t].peer, task[t].peer, "off")}
      BY <1>5, RemoveCameraStep DEF Steps
    <3> QED
      BY <3>1, <3>2, <3>3
  <2>2. r \notin raced
    BY <1>1, <1>5, Kinds DEF RemoveCamera
  <2> QED
    BY <1>3, <1>5, <2>1, <2>2 DEF RemoveCamera
<1>6. CASE \/ RemovePeer(t) \/ IsEmpty(t) \/ ListTransient(t) \/ ResetCounter(t)
           \/ Recycle(t)
  <2>1. task'[t].out = {} /\ UNCHANGED <<preload, lost, raced>>
    BY <1>6, RemovePeerStep, IsEmptyStep, ListTransientStep, ResetCounterStep, RecycleStep, IdleTask
       DEF RemovePeer, IsEmpty, ListTransient, List, ResetCounter, Recycle, tables, history, Steps,
           LooksUp
  <2> QED
    BY <1>3, <2>1
<1>7. CASE ResetNames(t) \/ ResetTables(t)
  <2>1. task'[t].out = {} /\ UNCHANGED <<preload, lost>> /\ raced \subseteq raced'
    BY <1>7, ResetNamesStep, ResetTablesStep
       DEF ResetNames, ResetBy, ResetTables, Clear, Steps
  <2> QED
    BY <1>3, <2>1
<1>8. CASE ResetResources(t)
  <2>1. /\ UNCHANGED <<preload, lost>> /\ Change(t, Listed(t), None)
        /\ task'[t].out = UNION {Broadcast(i, None) : i \in Listed(t)}
        /\ Listed(t) \in SUBSET Resource
    BY <1>8, ResetResourcesStep DEF ResetResources, RemoveListed, Steps, Removals
  <2> QED
    BY <1>1, <1>2, <2>1, AwaitsRemoval
<1>9. CASE RemovePreloadPeer(t)
  <2>1. /\ task'[t].out = UNION {Spawn(i) : i \in Complete(t)} /\ SpawnRace(t, Complete(t))
        /\ preload'[r] = IF r \in Complete(t) \/ preload[r] = None THEN None
                         ELSE [answered |-> Left(t, r), total |-> Total(r)]
        /\ UNCHANGED lost /\ Peer # {}
    BY <1>9, RemovePreloadPeerStep DEF Steps, RemovePreloadPeer, Leaving
  <2>2. \A i \in Complete(t) : \A m \in Spawn(i) : m.kind = "spawn"
    BY DEF Spawn, Message
  <2>3. \A m \in task'[t].out : ~Orders(m, r)
    BY <2>1, <2>2 DEF Orders
  <2>4. raced \subseteq raced' /\ (r \in Complete(t) => ~Overtaken(t, r))
    BY <2>1 DEF SpawnRace
  <2>5. CASE r \in Complete(t)
    <3>1. Spawn(r) \subseteq task'[t].out /\ None \in Content
      BY <2>1, <2>5 DEF Content
    <3>2. \A p \in Peer : Ends(p, r)'
      BY <3>1, Releases
    <3> QED
      BY <1>1, <2>3, <2>4, <2>5, <3>2, AwaitsAnew
  <2>6. CASE r \notin Complete(t) /\ preload[r] # None
    <3>1. TypeInv' /\ preload'[r] = [answered |-> Left(t, r), total |-> Total(r)]
      BY <1>9, <2>1, <2>6, RemovePreloadPeerStep
    <3>2. Total(r) \in Nat /\ preload[r].total \in 0 .. Cardinality(Peer) /\ Cardinality(Peer) \in Nat
          /\ preload[r].answered \in SUBSET Peer
      BY <2>6, PeerAssumption, FS_CardinalityType DEF Total, TypeInv, TablesWell, Session
    <3>3. preload'[r] \in Session
      BY <3>1, <3>2 DEF Session, Total, Left
    <3> QED
      BY <3>3, NoneIsNothing, AwaitsSession
  <2>7. CASE preload[r] = None
    <3>1. preload'[r] = preload[r]
      BY <2>1, <2>7
    <3> QED
      BY <1>1, <1>2, <2>1, <2>3, <2>4, <3>1, AwaitsKept DEF WaitInv, Waiting
  <2> QED
    BY <2>5, <2>6, <2>7
<1> QED
  BY <1>4, <1>5, <1>6, <1>7, <1>8, <1>9 DEF LeaveStep

LEMMA WaitNext ==
  ASSUME TypeInv, LeavesGone, WaitInv, [Next]_vars
  PROVE  WaitInv'
<1>1. ASSUME NEW t \in Task, NEW p \in Peer, Request(t, p) \/ Connect(t, p)
      PROVE  WaitInv'
  <2>1. /\ task[t] = Idle /\ \A u \in Task \ {t} : task'[u] = task[u]
        /\ task'[t].out = {} /\ live \subseteq live' /\ UNCHANGED <<known, preload, lost, raced, told>>
    BY <1>1, RequestSteps, ConnectStep DEF Connect, tables, history, sent
  <2>2. \A r \in Resource \ (raced' \cup lost') : Awaits(r)'
    BY <2>1, AwaitsKept, IdleTask DEF WaitInv, Waiting, SpawnPC
  <2> QED
    BY <2>1, <2>2 DEF WaitInv, Waiting
<1>2. ASSUME NEW t \in Task, NEW p \in Peer, Close(t, p)
      PROVE  WaitInv'
  <2>1. /\ task[t] = Idle /\ \A u \in Task \ {t} : task'[u] = task[u]
        /\ task'[t].out = {} /\ live' = live \ {p} /\ UNCHANGED <<known, preload, lost, raced>>
    BY <1>2, CloseStep, EndStep DEF Close, tables, history
  <2>2. \A q \in Peer, i \in Item : told'[q][i] = IF q = p THEN None ELSE told[q][i]
    BY <1>2, EndStep DEF Close
  <2>3. \A q \in Peer, r \in Resource : Waiting(q, r)' => Waiting(q, r) /\ q # p
    BY <2>2, Kinds DEF Waiting
  <2>4. \A r \in Resource \ (raced' \cup lost') : Awaits(r)'
    BY <2>1, <2>3, AwaitsKept, IdleTask DEF WaitInv, SpawnPC
  <2> QED
    BY <2>1, <2>3, <2>4 DEF WaitInv
<1>3. ASSUME NEW t \in Task, NEW q \in Peer, NEW m \in task[t].out, Visit(t, q, m)
      PROVE  WaitInv'
  <2>1. UNCHANGED <<live, known>>
    BY <1>3, VisitSteps
  <2>2. ASSUME NEW p \in Peer, NEW r \in Resource, Waiting(p, r)'
        PROVE  p \in live \cap known
    <3>1. CASE p = q /\ r = m.item /\ q \in live /\ (q \in known \/ m.kind = "reply")
      BY <1>3, <3>1, VisitTold DEF MessageWell
    <3>2. CASE ~(p = q /\ r = m.item /\ q \in live /\ (q \in known \/ m.kind = "reply"))
      <4>1. Waiting(p, r)
        BY <1>3, <2>2, <3>2, VisitTold, Kinds DEF Waiting
      <4> QED
        BY <4>1 DEF WaitInv
    <3> QED
      BY <3>1, <3>2
  <2> QED
    BY <1>3, <2>1, <2>2, AwaitsVisited DEF WaitInv
<1>4. ASSUME NEW t \in Task, Handle(t)
      PROVE  WaitInv'
  <2>1. UNCHANGED <<live, known, told>>
    BY <1>4, HandlerSteps DEF Handling, sent
  <2>2. \A r \in Resource \ (raced' \cup lost') : Awaits(r)'
    BY <1>4, AwaitsHandled
  <2> QED
    BY <2>1, <2>2 DEF WaitInv, Waiting
<1>5. ASSUME NEW t \in Task, JoinStep(t)
      PROVE  WaitInv'
  <2>1. /\ \A u \in Task \ {t} : task'[u] = task[u]
        /\ task[t].pc \in {"insert", "read", "send"} /\ task[t].out = {} /\ task'[t].out = {}
        /\ UNCHANGED <<live, preload>>
    BY <1>5, JoinSteps, IdleTask DEF tables
  <2>2. known \subseteq known' /\ raced \subseteq raced' /\ UNCHANGED lost
    BY <1>5 DEF JoinStep, Insert, ReadTable, SendTable, history
  <2>3. ASSUME NEW p \in Peer, NEW r \in Resource, Waiting(p, r)'
        PROVE  Waiting(p, r)
    <3>1. CASE Insert(t) \/ ReadTable(t)
      BY <2>3, <3>1 DEF Insert, ReadTable, sent, Waiting
    <3>2. CASE SendTable(t)
      <4>1. told'[p][r] = IF p = task[t].peer /\ p \in live /\ r \in Stage[task[t].stage]
                             /\ task[t].val[r] # None
                            THEN task[t].val[r] ELSE told[p][r]
        BY <3>2, SendTableStep, Kinds
      <4>2. r \in Stage[task[t].stage] /\ task[t].val[r] # None => ~task[t].val[r].preload
        BY <3>2, SendTableStep DEF At, TypeInv, TasksWell, TaskWell
      <4> QED
        BY <2>3, <4>1, <4>2 DEF Waiting
    <3> QED
      BY <1>5, <3>1, <3>2 DEF JoinStep
  <2>4. \A r \in Resource \ (raced' \cup lost') : Awaits(r)'
    BY <2>1, <2>2, <2>3, AwaitsKept DEF WaitInv, SpawnPC
  <2> QED
    BY <2>1, <2>2, <2>3, <2>4 DEF WaitInv
<1>6. ASSUME NEW t \in Task, LeaveStep(t)
      PROVE  WaitInv'
  <2>1. UNCHANGED <<live, told>>
    BY <1>6, LeaveSteps DEF sent
  <2>2. \A p \in live : p \in known => p \in known'
    <3>1. CASE RemovePeer(t)
      BY <1>6, <3>1, LeaveSteps DEF RemovePeer, LeavesGone
    <3>2. CASE ~RemovePeer(t)
      BY <1>6, <3>2 DEF LeaveStep, Disown, Unshare, TakeAway, RemoveCamera, RemovePreloadPeer,
           Leaving, IsEmpty, ListTransient, List, ResetResources, RemoveListed, ResetNames,
           ResetBy, ResetCounter, ResetTables, Recycle
    <3> QED
      BY <3>1, <3>2
  <2>3. \A r \in Resource \ (raced' \cup lost') : Awaits(r)'
    BY <1>6, AwaitsLeft
  <2> QED
    BY <2>1, <2>2, <2>3 DEF WaitInv, Waiting
<1>7. CASE UNCHANGED vars
  <2>1. /\ UNCHANGED <<live, known, told, raced, lost, preload, task>>
    BY <1>7, StutterSteps
  <2>2. \A r \in Resource : Awaits(r) => Awaits(r)'
    BY <2>1 DEF Awaits, Waiting, Ends, Orders, Inserting, Spawning, Release
  <2> QED
    BY <2>1, <2>2 DEF WaitInv, Waiting
<1>8. ASSUME NEW p \in Peer, CutOff(p)
      PROVE  WaitInv'
  <2>1. live' = live \ {p} /\ UNCHANGED <<known, raced, lost, preload, task>>
    BY <1>8, CutOffStep DEF tables, history
  <2>2. \A q \in Peer, r \in Resource : Waiting(q, r)' => Waiting(q, r) /\ q # p
    BY <1>8, CutOffStep, Kinds DEF Waiting
  <2>3. \A r \in Resource : Awaits(r) => Awaits(r)'
    BY <2>1, <2>2 DEF Awaits, Ends, Orders, Inserting, Spawning, Release
  <2> QED
    BY <2>1, <2>2, <2>3 DEF WaitInv
<1> QED
  BY <1>1, <1>2, <1>3, <1>4, <1>5, <1>6, <1>7, <1>8 DEF Next

-----------------------------------------------------------------------------
(* The theorems so far *)

LeftBehindInv == LeavesGone /\ JoinsGoOn /\ OrphansInv /\ ResetInv
PreloadInv    == SessionsInv /\ WaitInv

LEMMA BehindAndPreloads == Spec => [](LeftBehindInv /\ PreloadInv)
<1> USE DEF LeftBehindInv, PreloadInv
<1>1. Init => LeftBehindInv /\ PreloadInv
  <2> SUFFICES ASSUME Init PROVE LeftBehindInv /\ PreloadInv
    OBVIOUS
  <2> USE DEF Init
  <2>1. LeavesGone /\ JoinsGoOn
    BY IdleTask DEF LeavesGone, JoinsGoOn, LeavePC
  <2>2. OrphansInv /\ ResetInv
    <3>1. \A i \in Item : world[i] = None
      OBVIOUS
    <3> QED
      BY <3>1, GonePeers, Kinds, NoneIsNothing DEF OrphansInv, ResetInv
  <2>3. SessionsInv
    BY DEF SessionsInv
  <2>4. WaitInv
    BY Kinds, IdleTask DEF WaitInv, Waiting, Awaits
  <2> QED
    BY <2>1, <2>2, <2>3, <2>4
<1>2. TypeInv /\ (LeftBehindInv /\ PreloadInv) /\ [Next]_vars => (LeftBehindInv /\ PreloadInv)'
  BY LeavesGoneNext, JoinsGoOnNext, OrphansNext, ResetNext, SessionsNext, WaitNext
<1> QED
  BY <1>1, <1>2, SceneTypes, PTL DEF Spec

LEMMA QuietTasks ==
  ASSUME Quiet, NEW t \in Task
  PROVE  task[t].pc = "idle" /\ task[t].out = {}
  BY IdleTask DEF Quiet

\* Objects, spheres and cameras of a player that is gone are taken back, but for those that
\* the player took after its connection: the three steps of handle_disconnect that take them.
\* A player that is cut off (disconnect, or a ShutdownOk that fails) is excepted: what it had
\* stays, as handle_disconnect does not run for it.
THEOREM NobodyOrphans == Spec => []NoOrphans
<1>1. TypeInv /\ OrphansInv => NoOrphans
  BY QuietTasks DEF OrphansInv, NoOrphans, ToClean, Gone
<1> QED
  BY <1>1, SceneTypes, BehindAndPreloads, PTL DEF LeftBehindInv

\* A client that was told to preload is told to spawn when the others have answered or left:
\* mark_preload_ready and remove_preload_peer.
THEOREM NobodyWaitsForNobody == Spec => []NoneWaitsForNobody
<1>1. TypeInv /\ PreloadInv => NoneWaitsForNobody
  <2> SUFFICES ASSUME TypeInv, SessionsInv, WaitInv, Quiet, NEW p \in known,
                      NEW r \in Resource \ (raced \cup lost), Waiting(p, r)
               PROVE  preload[r] # None /\ ~(known \subseteq preload[r].answered)
    BY DEF NoneWaitsForNobody, PreloadInv
  <2>1. preload[r] # None
    BY QuietTasks
       DEF WaitInv, Awaits, Ends, Inserting, Spawning, SpawnPC, Release, TypeInv, TablesWell
  <2>2. Unpreloading = {} /\ Cardinality({}) = 0
    BY QuietTasks, FS_EmptySet DEF Unpreloading
  <2>3. \/ preload[r].answered = {}
        \/ Cardinality(preload[r].answered) < Cardinality(known)
    BY <2>1, <2>2, Counting DEF SessionsInv
  <2>4. ASSUME known \subseteq preload[r].answered PROVE FALSE
    BY <2>1, <2>3, <2>4, Counting, FS_Subset
  <2> QED
    BY <2>1, <2>4
<1> QED
  BY <1>1, SceneTypes, BehindAndPreloads, PTL

\* When the last player has left, only resources that persist are left, and what late messages
\* and racing joins left behind: reset_non_persistent and the resets of the other tables.
THEOREM NothingIsLeft == Spec => []EmptyWhenAlone
<1>1. TypeInv /\ LeftBehindInv => EmptyWhenAlone
  BY QuietTasks DEF LeftBehindInv, ResetInv, EmptyWhenAlone, Present, ToReset, Resets, Entering
<1> QED
  BY <1>1, SceneTypes, BehindAndPreloads, PTL

-----------------------------------------------------------------------------
(* What the clients were told is what the tables hold *)

LEMMA SameIsSame == \A i, v : Same(i, v, v)
  BY DEF Same

\* Only resources are put back.
LEMMA TrueOther ==
  ASSUME TypeInv, NEW i \in Item, i \notin Resource
  PROVE  PutBackOnce(i) /\ ~Inserting(i) /\ \A v : True(i, v) <=> Same(i, v, world[i])
<1>1. PuttingBack(i) = {} /\ ~Inserting(i)
  BY DEF PuttingBack, Inserting, TypeInv, TasksWell, TaskWell, ResourcePC
<1> QED
  BY <1>1 DEF PutBackOnce, True

LEMMA TrueKept ==
  ASSUME NEW t \in Task, NEW i \in Item, \A u \in Task \ {t} : task'[u] = task[u],
         world'[i] = world[i],
         ~(task[t].pc = "put_back" /\ task[t].item = i),
         ~(task'[t].pc = "put_back" /\ task'[t].item = i)
  PROVE  /\ PutBackOnce(i) => PutBackOnce(i)'
         /\ \A v : True(i, v) => True(i, v)'
<1>1. /\ PuttingBack(i)' = PuttingBack(i)
      /\ \A u \in PuttingBack(i) : task'[u] = task[u]
  BY DEF PuttingBack
<1> QED
  BY <1>1 DEF PutBackOnce, True, Same
\* What is on its way stays true, when what the task of the step has to send is.
LEMMA SaidTrueKept ==
  ASSUME NEW t \in Task, NEW i \in Item, SaidTrue(i), \A u \in Task \ {t} : task'[u] = task[u],
         \A v : True(i, v) => True(i, v)',
         \A m \in task'[t].out : m.item = i /\ m.kind # "spawn" => True(i, m.val),
         task'[t].pc = "session" /\ task'[t].item = i => True(i, task'[t].val),
         task'[t].pc = "send" /\ i \in Stage[task'[t].stage] /\ task'[t].val[i] # None =>
           True(i, task'[t].val[i])
  PROVE  SaidTrue(i)'
<1>1. ASSUME NEW u \in Task, NEW m \in task'[u].out, m.item = i, m.kind # "spawn"
      PROVE  True(i, m.val)
  BY <1>1 DEF SaidTrue
<1>2. ASSUME NEW u \in Task, task'[u].pc = "session", task'[u].item = i
      PROVE  True(i, task'[u].val)
  BY <1>2 DEF SaidTrue
<1>3. ASSUME NEW u \in Task, task'[u].pc = "send", i \in Stage[task'[u].stage],
             task'[u].val[i] # None
      PROVE  True(i, task'[u].val[i])
  BY <1>3 DEF SaidTrue
<1>4. \A u \in Task : \A m \in task'[u].out : m.item = i /\ m.kind # "spawn" => True(i, m.val)'
  BY <1>1
<1>5. \A u \in Task : task'[u].pc = "session" /\ task'[u].item = i => True(i, task[u].val)'
  BY <1>2
<1>6. \A u \in Task : task'[u].pc = "send" /\ i \in Stage[task'[u].stage]
                      /\ task'[u].val[i] # None => True(i, task[u].val[i])'
  BY <1>3
<1> QED
  BY <1>4, <1>5, <1>6 DEF SaidTrue

\* A player that was told the same as before still hears what is true.
LEMMA HearsKept ==
  ASSUME NEW t \in Task, NEW i \in Item, NEW p \in Peer, Hears(p, i),
         \A u \in Task \ {t} : task'[u] = task[u],
         \A v : True(i, v) => True(i, v)',
         told'[p][i] = told[p][i], <<p, i>> \in misled => <<p, i>> \in misled',
         Coming(p, i) => Coming(p, i)',
         task[t].pc = "session" /\ task[t].item = i =>
           Coming(p, i)' \/ (task'[t].pc = "session" /\ task'[t].item = i),
         ToReplay(p, i) => ToReplay(p, i)' \/ True(i, None)
  PROVE  Hears(p, i)'
<1>1. True(i, told[p][i]) => True(i, told[p][i])'
  <2>1. \A v : v = told[p][i] => (True(i, v) => True(i, v)')
    OBVIOUS
  <2>2. \A v : v = told'[p][i] => (True(i, v)' => True(i, told[p][i])')
    OBVIOUS
  <2> QED
    BY <2>1, <2>2
<1>2. told[p][i] = None /\ True(i, None) => True(i, told[p][i])'
  BY <1>1
<1>3. CASE Knows(p, i)
  BY <1>1, <1>3 DEF Knows, Hears
<1>4. CASE Coming(p, i)
  BY <1>4 DEF Hears
<1>5. CASE Inserting(i)
  <2>1. PICK u \in Task : task[u].pc = "session" /\ task[u].item = i
    BY <1>5 DEF Inserting
  <2>2. CASE u = t
    BY <2>1, <2>2 DEF Hears, Inserting
  <2>3. CASE u # t
    BY <2>1, <2>3 DEF Hears, Inserting
  <2> QED
    BY <2>2, <2>3
<1>6. CASE told[p][i] = None /\ ToReplay(p, i)
  BY <1>2, <1>6 DEF Hears, Knows
<1> QED
  BY <1>3, <1>4, <1>5, <1>6 DEF Hears

\* A change that nothing else about i overlaps makes the tables what is true.
LEMMA AgreedAnew ==
  ASSUME NEW t \in Task, NEW i \in Item, ~Overtaken(t, i),
         \A u \in Task \ {t} : task'[u] = task[u],
         task'[t].pc \notin {"put_back", "send"},
         \A m \in task'[t].out : m.item = i /\ m.kind # "spawn" => Same(i, m.val, world'[i]),
         task'[t].pc = "session" /\ task'[t].item = i => Same(i, task'[t].val, world'[i]),
         \A p \in known' \cap live' : Hears(p, i)'
  PROVE  Agreed(i)'
<1>1. PuttingBack(i)' = {}
  BY DEF PuttingBack, Overtaken
<1>2. PutBackOnce(i)' /\ \A v : Same(i, v, world'[i]) => True(i, v)'
  BY <1>1 DEF PutBackOnce, True
<1>3. ASSUME NEW u \in Task, u # t
      PROVE  /\ \A m \in task'[u].out : m.item # i
             /\ ~(task'[u].pc = "session" /\ task'[u].item = i)
             /\ ~(task'[u].pc = "send" /\ i \in Stage[task'[u].stage]
                  /\ task'[u].val[i] # None)
  BY <1>3 DEF Overtaken
<1>4. \A u \in Task : \A m \in task'[u].out : m.item = i /\ m.kind # "spawn" => True(i, m.val)'
  BY <1>2, <1>3
<1>5. \A u \in Task : task'[u].pc = "session" /\ task'[u].item = i => True(i, task[u].val)'
  BY <1>2, <1>3
<1>6. \A u \in Task : task'[u].pc = "send" /\ i \in Stage[task'[u].stage]
                      /\ task'[u].val[i] # None => True(i, task[u].val[i])'
  BY <1>3
<1> QED
  BY <1>2, <1>4, <1>5, <1>6 DEF Agreed, SaidTrue
\* A step of a handler or a leave: it had nothing to send, no client is told anything, and
\* nobody is connected or entered.
Works(t) ==
  /\ \A u \in Task \ {t} : task'[u] = task[u]
  /\ task[t].out = {} /\ task[t].pc \notin {"insert", "read", "send"} /\ task'[t].pc # "send"
  /\ UNCHANGED <<live, told, misled>> /\ known' \subseteq known

LEMMA WorksKept ==
  ASSUME TypeInv, NEW t \in Task, NEW i \in Item, Agreed(i), Works(t),
         PutBackOnce(i)', \A v : True(i, v) => True(i, v)',
         task[t].pc = "session" /\ task[t].item = i => \A p \in Peer : Coming(p, i)',
         ~(task'[t].pc = "session" /\ task'[t].item = i),
         \A m \in task'[t].out : m.item = i /\ m.kind # "spawn" => True(i, m.val)
  PROVE  Agreed(i)'
<1>1. SaidTrue(i)'
  BY SaidTrueKept DEF Works, Agreed
<1>2. ASSUME NEW p \in known' \cap live'
      PROVE  Hears(p, i)'
  <2>1. p \in Peer /\ Hears(p, i) /\ told'[p][i] = told[p][i]
    BY DEF Works, Agreed, TypeInv, TablesWell
  <2>2. (Coming(p, i) => Coming(p, i)') /\ (ToReplay(p, i) => ToReplay(p, i)')
    BY DEF Works, Coming, ToReplay
  <2>3. /\ \A u \in Task \ {t} : task'[u] = task[u]
        /\ <<p, i>> \in misled => <<p, i>> \in misled'
    BY DEF Works
  <2> QED
    BY <2>1, <2>2, <2>3, HearsKept
<1> QED
  BY <1>1, <1>2 DEF Agreed

\* A step that leaves i alone
LEMMA AgreedAlone ==
  ASSUME TypeInv, NEW t \in Task, NEW i \in Item, Agreed(i), Works(t), world'[i] = world[i],
         ~(task[t].pc \in {"put_back", "session"} /\ task[t].item = i),
         ~(task'[t].pc \in {"put_back", "session"} /\ task'[t].item = i),
         \A m \in task'[t].out : m.item = i /\ m.kind # "spawn" => True(i, m.val)
  PROVE  Agreed(i)'
<1>1. PutBackOnce(i)' /\ \A v : True(i, v) => True(i, v)'
  BY TrueKept DEF Works, Agreed
<1> QED
  BY <1>1, WorksKept

\* The items of S are changed, and everyone is told.
LEMMA AgreedBroadcast ==
  ASSUME TypeInv, AgreeInv, NEW t \in Task, NEW i \in Item \ raced', Works(t),
         NEW S \in SUBSET Item, NEW v, Change(t, S, v),
         task[t].pc \notin {"put_back", "session"}, task'[t].pc \notin {"put_back", "session"},
         \A m \in task'[t].out : m.item \in S /\ Same(m.item, m.val, v),
         i \in S => \A p \in known' \cap live' : p = i \/ Coming(p, i)'
  PROVE  Agreed(i)'
<1>1. raced' = (raced \ S) \cup {j \in S : Overtaken(t, j)}
  BY DEF Change
<1>2. CASE i \in S
  <2>1. ~Overtaken(t, i) /\ world'[i] = v
    BY <1>1, <1>2 DEF Change
  <2>2. \A m \in task'[t].out : m.item = i => Same(i, m.val, world'[i])
    BY <2>1
  <2>3. \A p \in known' \cap live' : Hears(p, i)'
    BY <1>2 DEF Hears, Knows
  <2> QED
    BY <2>1, <2>2, <2>3, AgreedAnew DEF Works
<1>3. CASE i \notin S
  <2>1. Agreed(i) /\ world'[i] = world[i]
    BY <1>1, <1>3 DEF AgreeInv, Change
  <2>2. \A m \in task'[t].out : m.item # i
    BY <1>3
  <2> QED
    BY <2>1, <2>2, AgreedAlone
<1> QED
  BY <1>2, <1>3

\* Nothing is changed, and what is answered is what the tables hold.
LEMMA AgreedAnswer ==
  ASSUME TypeInv, AgreeInv, NEW t \in Task, NEW i \in Item \ raced', Works(t),
         UNCHANGED world, raced \subseteq raced',
         task[t].pc \notin {"put_back", "session"}, task'[t].pc \notin {"put_back", "session"},
         \A m \in task'[t].out :
           m.kind = "spawn" \/ (m.item \notin Resource /\ Same(m.item, m.val, world[m.item]))
  PROVE  Agreed(i)'
<1>1. Agreed(i)
  BY DEF AgreeInv
<1>2. ASSUME NEW m \in task'[t].out, m.item = i, m.kind # "spawn"
      PROVE  True(i, m.val)
  BY <1>2, TrueOther
<1> QED
  BY <1>1, <1>2, AgreedAlone
LEMMA AgreedSet ==
  ASSUME TypeInv, AgreeInv, NEW t \in Task, NEW i \in Item \ raced', Works(t),
         NEW r \in Item, NEW v \in Content, Change(t, {r}, v),
         task[t].pc \notin {"put_back", "session"}, task'[t].pc \notin {"put_back", "session"},
         \/ task'[t].out = Broadcast(r, v)
         \/ r \in Peer /\ task'[t].out = BroadcastExcept(r, r, v)
  PROVE  Agreed(i)'
<1>1. /\ \A m \in task'[t].out : m.item = r /\ m.val = v /\ m.kind = "set"
      /\ \A p \in Peer \ {r} : \E m \in task'[t].out : m.item = r /\ m.kind = "set" /\ p \in m.left
      /\ r \notin Peer => \A p \in Peer : \E m \in task'[t].out :
                            m.item = r /\ m.kind = "set" /\ p \in m.left
  <2>1. CASE task'[t].out = Broadcast(r, v)
    <3>1. task'[t].out = {Message("set", r, v, Peer)}
      BY <2>1 DEF Broadcast
    <3> QED
      BY <3>1 DEF Message
  <2>2. CASE r \in Peer /\ task'[t].out = BroadcastExcept(r, r, v)
    <3>1. task'[t].out = {Message("set", r, v, Peer \ {r})}
      BY <2>2 DEF BroadcastExcept
    <3> QED
      BY <2>2, <3>1 DEF Message
  <2> QED
    BY <2>1, <2>2
<1>2. \A p \in Peer : p = r \/ Coming(p, r)'
  BY <1>1 DEF Coming
<1>3. \A p \in known' \cap live' : p \in Peer
  BY DEF Works, TypeInv, TablesWell
<1>4. \A m \in task'[t].out : m.item \in {r} /\ Same(m.item, m.val, v)
  BY <1>1, SameIsSame
<1> QED
  BY <1>2, <1>3, <1>4, AgreedBroadcast

LEMMA HandlerWorks ==
  ASSUME TypeInv, NEW t \in Task, Handle(t)
  PROVE  Works(t)
  BY HandlerSteps DEF Handling, Works, HandlerPC, NamePC, ResourcePC, RemovalPC, ObjectPC, SpherePC, sent

LEMMA LeaveWorks ==
  ASSUME TypeInv, NEW t \in Task, LeaveStep(t)
  PROVE  Works(t)
<1>1. known' \subseteq known
  BY DEF LeaveStep, Disown, Unshare, TakeAway, RemoveCamera, RemovePeer, RemovePreloadPeer,
     Leaving, IsEmpty, ListTransient, List, ResetResources, RemoveListed, ResetNames, ResetBy,
     ResetCounter, ResetTables, Recycle
<1> QED
  BY <1>1, LeaveSteps, IdleTask DEF Works, LeavePC, sent

\* Names, spheres and cameras, and the requests for an owner that all players hear of
LEMMA AgreedItems ==
  ASSUME TypeInv, AgreeInv, NEW t \in Task, NEW i \in Item \ raced',
         \/ NetIdExisted(t) \/ AddOrFind(t) \/ ChangeOwner(t) \/ RemoveOwner(t)
         \/ Share(t) \/ ShareCleanup(t) \/ CameraState(t)
  PROVE  Agreed(i)'
<1> DEFINE r == task[t].item
<1>0. Works(t)
  BY HandlerWorks DEF Handle
<1>1. CASE NetIdExisted(t)
  BY <1>0, <1>1, NetIdExistedStep, AgreedAnswer
     DEF NetIdExisted, tables, history, At, LooksUp
<1>2. CASE AddOrFind(t)
  <2>1. /\ task[t].pc = "add_or_find" /\ r \in Name /\ r \in Item /\ r \notin Resource
        /\ task[t].peer \in Peer
    BY <1>2, AddOrFindStep, Kinds DEF At
  <2>2. PICK id \in NetId :
          /\ Steps(t, "done", Assigned(t, id)) /\ Assigned(t, id) # {}
          /\ \/ world[r] = id /\ UNCHANGED <<world, raced>>
             \/ Take(t, r, id)
    BY <1>2, AddOrFindStep
  <2>3. id \in Content /\ task'[t].pc = "done" /\ task'[t].out = Assigned(t, id)
    BY <2>2 DEF Steps, Content
  <2>4. CASE world[r] = id /\ UNCHANGED <<world, raced>>
    <3>1. \A m \in task'[t].out : m.item = r /\ m.val = id
      BY <2>3 DEF Assigned, Reply, Broadcast, Message
    <3>2. \A m \in task'[t].out : m.item \notin Resource /\ Same(m.item, m.val, world[m.item])
      BY <2>1, <2>4, <3>1, SameIsSame
    <3> QED
      BY <1>0, <2>1, <2>3, <2>4, <3>2, AgreedAnswer
  <2>5. CASE Take(t, r, id) /\ ~task[t].val
    <3>1. Change(t, {r}, id) /\ task'[t].out = Broadcast(r, id)
      BY <2>3, <2>5 DEF Take, Assigned
    <3> HIDE DEF r
    <3> QED
      BY <1>0, <2>1, <2>3, <3>1, AgreedSet
  <2>6. CASE Take(t, r, id) /\ task[t].val
    <3>1. Change(t, {r}, id) /\ Overtaken(t, r)
      BY <2>1, <2>6 DEF Take, Overtaken
    <3>2. i # r /\ raced' = (raced \ {r}) \cup {j \in {r} : Overtaken(t, j)}
      BY <3>1 DEF Change
    <3>3. Agreed(i) /\ world'[i] = world[i]
      BY <3>1, <3>2 DEF AgreeInv, Change
    <3>4. \A m \in task'[t].out : m.item = r
      BY <2>3 DEF Assigned, Reply, Broadcast, Message
    <3> QED
      BY <1>0, <2>1, <2>3, <3>2, <3>3, <3>4, AgreedAlone
  <2> QED
    BY <2>2, <2>4, <2>5, <2>6
<1>3. CASE ChangeOwner(t)
  <2>1. /\ task[t].pc = "change_owner" /\ r \in Item /\ task[t].peer \in Content
        /\ Steps(t, "done", Broadcast(r, task[t].peer)) /\ Broadcast(r, task[t].peer) # {}
    BY <1>3, ChangeOwnerStep, Kinds, Sends DEF At, Content
  <2>2. Change(t, {r}, task[t].peer)
    BY <1>3 DEF ChangeOwner, Take
  <2> QED
    BY <1>0, <2>1, <2>2, AgreedSet DEF Steps
<1>4. CASE RemoveOwner(t)
  <2>1. /\ task[t].pc = "remove_owner" /\ r \in Item /\ None \in Content
        /\ task[t].peer \in Peer
    BY <1>4, RemoveOwnerStep, Kinds DEF At, Content
  <2>2. CASE Steps(t, "done", Broadcast(r, None)) /\ Change(t, {r}, None)
    BY <1>0, <2>1, <2>2, AgreedSet, Sends DEF Steps
  <2>3. CASE Steps(t, "done", {}) /\ UNCHANGED <<world, raced>>
    BY <1>0, <2>1, <2>3, AgreedAnswer, IdleTask DEF Steps
  <2> QED
    BY <1>4, <2>2, <2>3, RemoveOwnerStep
<1>5. CASE Share(t)
  <2>1. /\ task[t].pc = "share" /\ r \in Item /\ task[t].peer \in Content
        /\ Broadcast(r, task[t].peer) # {}
    BY <1>5, ShareStep, Kinds, Sends DEF At, Content
  <2>2. CASE Steps(t, "done", Broadcast(r, task[t].peer)) /\ Take(t, r, task[t].peer)
    BY <1>0, <2>1, <2>2, AgreedSet DEF Steps, Take
  <2>3. CASE Steps(t, "done", {}) /\ UNCHANGED <<world, raced, late>>
    BY <1>0, <2>1, <2>3, AgreedAnswer, IdleTask DEF Steps
  <2> QED
    BY <1>5, <2>2, <2>3, ShareStep
<1>6. CASE ShareCleanup(t)
  <2>1. /\ task[t].pc = "share_cleanup" /\ r \in Item /\ None \in Content
        /\ task[t].peer \in Peer
    BY <1>6, ShareCleanupStep, Kinds DEF At, Content
  <2>2. CASE Steps(t, "done", Broadcast(r, None)) /\ Change(t, {r}, None)
    BY <1>0, <2>1, <2>2, AgreedSet, Sends DEF Steps
  <2>3. CASE Steps(t, "done", {}) /\ UNCHANGED <<world, raced>>
    BY <1>0, <2>1, <2>3, AgreedAnswer, IdleTask DEF Steps
  <2> QED
    BY <1>6, <2>2, <2>3, ShareCleanupStep
<1>7. CASE CameraState(t)
  <2> DEFINE p == task[t].peer
             v == task[t].val
  <2>1. /\ task[t].pc = "camera" /\ p \in Item /\ p \in Peer /\ p \notin Resource
        /\ v \in Content
        /\ Steps(t, "done", BroadcastExcept(p, p, v)) /\ BroadcastExcept(p, p, v) # {}
    BY <1>7, CameraStateStep, Kinds, Sends DEF At, Content
  <2>2. task'[t].pc = "done" /\ task'[t].out = BroadcastExcept(p, p, v)
    BY <2>1 DEF Steps
  <2>3. CASE Take(t, p, v)
    <3>1. Change(t, {p}, v)
      BY <2>3 DEF Take
    <3> HIDE DEF p, v
    <3> QED
      BY <1>0, <2>1, <2>2, <3>1, AgreedSet
  <2>4. CASE v = "off" /\ world[p] = None /\ UNCHANGED <<world, raced, late>>
    <3>1. \A m \in task'[t].out : m.item = p /\ m.val = "off"
      BY <2>2, <2>4 DEF BroadcastExcept, Message
    <3>2. \A m \in task'[t].out : m.item \notin Resource /\ Same(m.item, m.val, world[m.item])
      BY <2>1, <2>4, <3>1, NoneIsNothing DEF Same
    <3> QED
      BY <1>0, <2>1, <2>2, <2>4, <3>2, AgreedAnswer
  <2> QED
    BY <1>7, <2>3, <2>4, CameraStateStep
<1> QED
  BY <1>1, <1>2, <1>3, <1>4, <1>5, <1>6, <1>7
\* A new owner is told to the player that asked: the others were told of none.
LEMMA AgreedOwner ==
  ASSUME TypeInv, AgreeInv, NEW t \in Task, NEW i \in Item \ raced', GetOwner(t)
  PROVE  Agreed(i)'
<1> DEFINE o == task[t].item
           p == task[t].peer
<1>1. Works(t)
  BY HandlerWorks DEF Handle
<1>2. /\ task[t].pc = "get_owner" /\ o \in Item /\ o \in Object /\ o \notin Resource /\ o \notin Peer
      /\ p \in Peer /\ p \in Content
  BY GetOwnerStep, Kinds DEF At, Content
<1>3. CASE Steps(t, "done", Reply(p, o, world[o])) /\ UNCHANGED <<world, raced, late>>
  <2>1. Reply(p, o, world[o]) # {}
    BY DEF Reply
  <2>2. task'[t].pc = "done" /\ task'[t].out = Reply(p, o, world[o])
    BY <1>3, <2>1 DEF Steps
  <2>3. \A m \in task'[t].out : m.item = o /\ m.val = world[o]
    BY <2>2 DEF Reply, Message
  <2>4. \A m \in task'[t].out : m.item \notin Resource /\ Same(m.item, m.val, world[m.item])
    BY <1>2, <2>3, SameIsSame
  <2> QED
    BY <1>1, <1>2, <1>3, <2>2, <2>4, AgreedAnswer
<1>4. CASE /\ Steps(t, "done", Reply(p, o, p)) /\ world[o] = None
           /\ TakeQuietly(t, o, p)
  <2>1. Reply(p, o, p) # {}
    BY DEF Reply
  <2>2. task'[t].pc = "done" /\ task'[t].out = Reply(p, o, p)
    BY <1>4, <2>1 DEF Steps
  <2>3. \A m \in task'[t].out : m.item = o /\ m.val = p
    BY <2>2 DEF Reply, Message
  <2>4. /\ world' = [world EXCEPT ![o] = p]
        /\ raced' = raced \cup {j \in {o} : Overtaken(t, o)}
    BY <1>4 DEF TakeQuietly
  <2>5. world'[o] = p /\ \A j \in Item \ {o} : world'[j] = world[j]
    BY <1>2, <2>4 DEF TypeInv, WorldWell
  <2>6. Agreed(i)
    BY <2>4 DEF AgreeInv
  <2>7. CASE i = o
    <3>1. ~Overtaken(t, i) /\ world'[i] = p /\ world[i] = None /\ i \in Object /\ i \notin Peer
      BY <1>2, <1>4, <2>4, <2>5, <2>7
    <3>2. ASSUME NEW q \in known' \cap live'
          PROVE  Hears(q, i)'
      <4>1. /\ q \in Peer /\ Hears(q, i) /\ told'[q][i] = told[q][i]
            /\ misled' = misled
        BY <1>1, <2>6 DEF Works, Agreed, TypeInv, TablesWell
      <4>2. ~Coming(q, i)
        BY <1>1, <3>1 DEF Coming, Works, Overtaken
      <4>3. ~Inserting(i) /\ \A v : True(i, v) <=> Same(i, v, world[i])
        BY <1>2, <2>7, TrueOther
      <4>4. \A v : True(i, v) => v = None
        BY <1>2, <2>7, <3>1, <4>3, Kinds DEF Same
      <4>5. <<q, i>> \in misled \/ told[q][i] = None
        <5>1. True(i, told[q][i]) => told[q][i] = None
          BY <4>4
        <5> QED
          BY <3>1, <4>1, <4>2, <4>3, <5>1 DEF Hears, Knows
      <4> QED
        BY <3>1, <4>1, <4>5 DEF Hears, Knows
    <3>3. \A m \in task'[t].out : Same(i, m.val, world'[i])
      BY <2>3, <3>1, SameIsSame
    <3> HIDE DEF o
    <3> QED
      BY <1>1, <2>2, <3>1, <3>2, <3>3, AgreedAnew DEF Works
  <2>8. CASE i # o
    BY <1>1, <1>2, <2>2, <2>3, <2>5, <2>6, <2>8, AgreedAlone
  <2> QED
    BY <2>7, <2>8
<1> QED
  BY <1>3, <1>4, GetOwnerStep

\* Loads, and the sessions of the preloads
LEMMA AgreedLoads ==
  ASSUME TypeInv, AgreeInv, NEW t \in Task, NEW i \in Item \ raced',
         Load(t) \/ CollectPeers(t) \/ LoadResource(t) \/ InsertSession(t)
  PROVE  Agreed(i)'
<1> DEFINE r == task[t].item
           k == task[t].val
<1>0. Works(t)
  BY HandlerWorks DEF Handle
<1>1. CASE Load(t) \/ CollectPeers(t)
  <2>1. /\ task[t].pc \in {"load", "collect"} /\ UNCHANGED <<world, raced>>
        /\ task'[t].out = {} /\ task'[t].pc \in {"idle", "collect", "load_resource"}
    BY <1>1, LoadStep, CollectPeersStep, IdleTask
       DEF At, Steps, LooksUp, Load, CollectPeers, tables, history
  <2> QED
    BY <1>0, <2>1, AgreedAnswer
<1>2. CASE LoadResource(t)
  <2>1. /\ task[t].pc = "load_resource" /\ r \in Item /\ k \in Content /\ task[t].peer \in Peer
    BY <1>2, LoadResourceStep, Kinds, KindAssumption DEF At, Content
  <2>2. CASE Steps(t, "done", {}) /\ UNCHANGED <<world, raced, late>>
    BY <1>0, <2>1, <2>2, AgreedAnswer, IdleTask DEF Steps
  <2>3. CASE Steps(t, "session", {}) /\ Take(t, r, k)
    <3>1. /\ task'[t].pc = "session" /\ task'[t].item = r /\ task'[t].val = k
          /\ task'[t].out = {}
      BY <2>1, <2>3 DEF Steps, RemovalPC
    <3>2. /\ world' = [j \in Item |-> IF j \in {r} THEN k ELSE world[j]]
          /\ raced' = (raced \ {r}) \cup {j \in {r} : Overtaken(t, j)}
      BY <2>3 DEF Take, Change
    <3>3. CASE i = r
      <4>1. ~Overtaken(t, i) /\ world'[i] = k
        BY <3>2, <3>3
      <4>2. Inserting(i)'
        BY <3>1, <3>3 DEF Inserting
      <4>3. Same(i, task'[t].val, world'[i])
        BY <3>1, <4>1, SameIsSame
      <4>4. \A p \in known' \cap live' : Hears(p, i)'
        BY <4>2 DEF Hears
      <4> QED
        BY <1>0, <3>1, <4>1, <4>3, <4>4, AgreedAnew DEF Works
    <3>4. CASE i # r
      <4>1. Agreed(i) /\ world'[i] = world[i]
        BY <3>2, <3>4 DEF AgreeInv
      <4> QED
        BY <1>0, <2>1, <3>1, <3>4, <4>1, AgreedAlone
    <3> QED
      BY <3>3, <3>4
  <2>4. CASE Steps(t, "done", Broadcast(r, k)) /\ Take(t, r, k)
    <3>1. Change(t, {r}, k) /\ Broadcast(r, k) # {}
      BY <2>1, <2>4, Sends DEF Take
    <3>2. task'[t].pc = "done" /\ task'[t].out = Broadcast(r, k)
      BY <2>4, <3>1 DEF Steps
    <3> HIDE DEF r, k
    <3> QED
      BY <1>0, <2>1, <3>1, <3>2, AgreedSet
  <2> QED
    BY <1>2, <2>2, <2>3, <2>4, LoadResourceStep
<1>3. CASE InsertSession(t)
  <2>1. /\ task[t].pc = "session" /\ r \in Item /\ r \notin Peer /\ k \in Content
        /\ UNCHANGED <<world, raced>>
        /\ Steps(t, "done", Broadcast(r, k)) /\ Broadcast(r, k) # {}
    BY <1>3, InsertSessionStep, Kinds, KindAssumption DEF At, Content, InsertSession
  <2>2. task'[t].pc = "done" /\ task'[t].out = {Message("set", r, k, Peer)}
    BY <2>1 DEF Steps, Broadcast
  <2>3. \A m \in task'[t].out : m.item = r /\ m.val = k
    BY <2>2 DEF Message
  <2>4. Agreed(i)
    BY <2>1 DEF AgreeInv
  <2>5. PutBackOnce(i)' /\ \A v : True(i, v) => True(i, v)'
    BY <1>0, <2>1, <2>2, <2>4, TrueKept DEF Works, Agreed
  <2>6. i = r => \A p \in Peer : Coming(p, i)'
    <3>1. Message("set", r, k, Peer) \in task'[t].out
      BY <2>2
    <3> QED
      BY <3>1 DEF Coming, Message
  <2>7. i = r => True(i, k)
    BY <2>1, <2>4 DEF Agreed, SaidTrue
  <2>8. \A m \in task'[t].out : m.item = i => True(i, m.val)
    BY <2>3, <2>7
  <2> QED
    BY <1>0, <2>2, <2>4, <2>5, <2>6, <2>8, WorksKept
<1> QED
  BY <1>1, <1>2, <1>3
\* The items of S go, and the players of L are told of each.
LEMMA AgreedRemoval ==
  ASSUME TypeInv, AgreeInv, NEW t \in Task, NEW i \in Item \ raced', Works(t),
         NEW S \in SUBSET Item, NEW L \in SUBSET Peer, Change(t, S, None),
         task[t].pc \notin {"put_back", "session"}, task'[t].pc \notin {"put_back", "session"},
         task'[t].out = UNION {{Message("set", s, None, L)} : s \in S},
         known' \cap live' \subseteq L
  PROVE  Agreed(i)'
<1>1. \A m \in task'[t].out : \E s \in S : m = Message("set", s, None, L)
  OBVIOUS
<1>2. \A m \in task'[t].out : m.item \in S /\ Same(m.item, m.val, None)
  BY <1>1, SameIsSame DEF Message
<1>3. ASSUME i \in S, NEW p \in known' \cap live'
      PROVE  Coming(p, i)'
  <2> DEFINE m == Message("set", i, None, L)
  <2>1. m \in task'[t].out
    BY <1>3
  <2>2. m.item = i /\ m.kind = "set" /\ p \in m.left
    BY <1>3 DEF Message
  <2> HIDE DEF m
  <2> QED
    BY <2>1, <2>2 DEF Coming
<1> QED
  BY <1>2, <1>3, AgreedBroadcast

\* Unloads, and the answers to preloads
LEMMA AgreedUnloads ==
  ASSUME TypeInv, AgreeInv, NEW t \in Task, NEW i \in Item \ raced',
         Unload(t) \/ RemoveResource(t) \/ PutBack(t)
  PROVE  Agreed(i)'
<1> DEFINE r == task[t].item
<1>0. Works(t)
  BY HandlerWorks DEF Handle
<1>1. CASE Unload(t)
  BY <1>0, <1>1, UnloadStep, AgreedAnswer DEF Unload, Steps, At
<1>2. CASE RemoveResource(t)
  <2>1. /\ task[t].pc = "remove" /\ r \in Item /\ r \in Resource /\ None \in Content
        /\ task[t].peer \in Peer
    BY <1>2, RemoveResourceStep, Kinds DEF At, Content
  <2>2. CASE Steps(t, "done", {}) /\ UNCHANGED <<world, raced>>
    BY <1>0, <2>1, <2>2, AgreedAnswer, IdleTask DEF Steps
  <2>3. CASE Steps(t, "done", Broadcast(r, None)) /\ Change(t, {r}, None)
    BY <1>0, <2>1, <2>3, AgreedSet, Sends DEF Steps
  <2>4. CASE /\ world[r] \in LoadKind /\ LooksUp(t, "put_back", world[r], task[t].stage)
             /\ world' = [world EXCEPT ![r] = None] /\ UNCHANGED raced
    <3>1. /\ task'[t].pc = "put_back" /\ task'[t].item = r /\ task'[t].val = world[r]
          /\ task'[t].out = {} /\ \A u \in Task \ {t} : task'[u] = task[u]
      BY <2>4 DEF LooksUp
    <3>2. world'[r] = None /\ \A j \in Item \ {r} : world'[j] = world[j]
      BY <2>1, <2>4 DEF TypeInv, WorldWell
    <3>3. Agreed(i)
      BY <2>4 DEF AgreeInv
    <3>4. CASE i = r
      <4>1. PuttingBack(i) = {}
        BY <2>4, <3>3, <3>4, NoneIsNothing DEF Agreed, PutBackOnce
      <4>2. PuttingBack(i)' = {t}
        BY <3>1, <3>4, <4>1 DEF PuttingBack
      <4>3. PutBackOnce(i)'
        BY <3>2, <3>4, <4>2 DEF PutBackOnce
      <4>4. \A v : True(i, v) => True(i, v)'
        BY <3>1, <3>4, <4>1, <4>2 DEF True, Same
      <4> QED
        BY <1>0, <2>1, <3>1, <3>3, <4>3, <4>4, WorksKept
    <3>5. CASE i # r
      BY <1>0, <2>1, <3>1, <3>2, <3>3, <3>5, AgreedAlone
    <3> QED
      BY <3>4, <3>5
  <2> QED
    BY <1>2, <2>2, <2>3, <2>4, RemoveResourceStep
<1>3. CASE PutBack(t)
  <2>1. /\ task[t].pc = "put_back" /\ r \in Item /\ task'[t] = Idle /\ raced' = raced
        /\ world' = IF world[r] = None THEN [world EXCEPT ![r] = task[t].val] ELSE world
        /\ \A u \in Task \ {t} : task'[u] = task[u]
    BY <1>3, PutBackStep, Kinds DEF At, Steps, PutBack
  <2>2. /\ world[r] = None => world'[r] = task[t].val
        /\ \A j \in Item \ {r} : world'[j] = world[j]
    BY <2>1 DEF TypeInv, WorldWell
  <2>3. Agreed(i) /\ task'[t].out = {} /\ task'[t].pc = "idle"
    BY <2>1, IdleTask DEF AgreeInv
  <2>4. CASE i = r
    <3>1. PuttingBack(i) = {t} /\ world[i] = None
      BY <2>1, <2>3, <2>4 DEF Agreed, PutBackOnce, PuttingBack
    <3>2. PuttingBack(i)' = {}
      BY <2>1, <2>3, <3>1 DEF PuttingBack
    <3>3. PutBackOnce(i)'
      BY <3>2 DEF PutBackOnce
    <3>4. \A v : True(i, v) => True(i, v)'
      BY <2>2, <2>4, <3>1, <3>2 DEF True, Same
    <3> QED
      BY <1>0, <2>1, <2>3, <3>3, <3>4, WorksKept
  <2>5. CASE i # r
    BY <1>0, <2>1, <2>2, <2>3, <2>5, AgreedAlone
  <2> QED
    BY <2>4, <2>5
<1> QED
  BY <1>1, <1>2, <1>3

LEMMA AgreedSpawns ==
  ASSUME TypeInv, AgreeInv, NEW t \in Task, NEW i \in Item \ raced',
         \/ MarkReady(t) \/ FindScene(t) \/ ListScenes(t) \/ UnloadScenes(t)
         \/ SpawnPreloaded(t)
  PROVE  Agreed(i)'
<1>0. Works(t)
  BY HandlerWorks DEF Handle
<1>1. CASE MarkReady(t)
  <2>1. /\ task[t].pc = "preload_ready" /\ UNCHANGED world /\ raced \subseteq raced'
        /\ task'[t].out = {} /\ task'[t].pc \in {"idle", "scenes"}
    BY <1>1, MarkReadyStep, IdleTask DEF At, Steps, MarkReady, SpawnRace
  <2> QED
    BY <1>0, <2>1, AgreedAnswer
<1>2. CASE UnloadScenes(t)
  <2>1. /\ task[t].pc = "unload_scenes" /\ task'[t].pc = "spawn"
        /\ task'[t].out = Removals(t) /\ Change(t, Listed(t), None)
        /\ Listed(t) \subseteq Resource
    BY <1>2, UnloadScenesStep DEF At, Steps
  <2>2. Listed(t) \in SUBSET Item
    BY <2>1 DEF Item
  <2>3. task'[t].out = UNION {{Message("set", s, None, Peer)} : s \in Listed(t)}
    BY <2>1 DEF Removals, Broadcast
  <2>4. Peer \in SUBSET Peer /\ known' \cap live' \subseteq Peer
    BY <1>0 DEF Works, TypeInv, TablesWell
  <2> QED
    BY <1>0, <2>1, <2>2, <2>3, <2>4, AgreedRemoval
<1>3. CASE SpawnPreloaded(t)
  <2>1. /\ task[t].pc = "spawn" /\ UNCHANGED <<world, raced>>
        /\ task'[t].pc = "done" /\ task'[t].out = Spawn(task[t].item)
    BY <1>3, SpawnPreloadedStep, Spawns, Kinds DEF At, Steps, SpawnPreloaded, tables, history
  <2>2. \A m \in task'[t].out : m.kind = "spawn"
    BY <2>1 DEF Spawn, Message
  <2> QED
    BY <1>0, <2>1, <2>2, AgreedAnswer
<1>4. CASE FindScene(t) \/ ListScenes(t)
  <2>1. /\ task[t].pc \in {"scenes", "list_scenes"} /\ UNCHANGED <<world, raced>>
        /\ task'[t].out = {} /\ task'[t].pc \in {"list_scenes", "unload_scenes", "spawn"}
    BY <1>4, FindSceneStep, ListScenesStep
       DEF At, Steps, LooksUp, FindScene, ListScenes, List, tables, history
  <2> QED
    BY <1>0, <2>1, AgreedAnswer
<1> QED
  BY <1>1, <1>2, <1>3, <1>4

LEMMA AgreedHandled ==
  ASSUME TypeInv, AgreeInv, NEW t \in Task, NEW i \in Item \ raced', Handle(t)
  PROVE  Agreed(i)'
  BY AgreedItems, AgreedOwner, AgreedLoads, AgreedUnloads, AgreedSpawns DEF Handle
\* The tables are reset only when nobody is there to be told.
LEMMA AgreedCleared ==
  ASSUME TypeInv, AgreeInv, NEW t \in Task, NEW i \in Item \ raced', Works(t),
         NEW S \in SUBSET Item, Clear(t, S), task'[t].out = {},
         task[t].pc \notin {"put_back", "session"}, task'[t].pc \notin {"put_back", "session"}
  PROVE  Agreed(i)'
<1>1. /\ world'[i] = IF i \in S THEN None ELSE world[i]
      /\ raced' = raced \cup {j \in Present(S) : known # {} \/ Overtaken(t, j)}
  BY DEF Clear
<1>2. CASE world'[i] = world[i]
  <2>1. Agreed(i)
    BY <1>1 DEF AgreeInv
  <2> QED
    BY <1>2, <2>1, AgreedAlone
<1>3. CASE world'[i] # world[i]
  <2>1. i \in Present(S)
    BY <1>1, <1>3 DEF Present
  <2>2. ~Overtaken(t, i) /\ known' = {}
    BY <1>1, <2>1 DEF Works
  <2> QED
    BY <2>2, AgreedAnew DEF Works
<1> QED
  BY <1>2, <1>3

\* What the player of a leave had is taken away; the player itself is not told, and gone.
LEMMA AgreedTaken ==
  ASSUME TypeInv, LeavesGone, AgreeInv, NEW t \in Task, NEW i \in Item \ raced',
         Disown(t) \/ Unshare(t) \/ RemoveCamera(t)
  PROVE  Agreed(i)'
<1> DEFINE p == task[t].peer
<1>0. Works(t) /\ UNCHANGED live
  BY LeaveWorks DEF LeaveStep, Works
<1>1. p \in Peer /\ p \notin live
  BY LeaveSteps DEF LeaveStep, LeavesGone
<1>2. Peer \ {p} \in SUBSET Peer /\ known' \cap live' \subseteq Peer \ {p}
  BY <1>0, <1>1 DEF Works, TypeInv, TablesWell
<1>3. CASE Disown(t)
  <2> DEFINE S == Owned(p, Object)
  <2>1. /\ task[t].pc = "disown" /\ task'[t].pc = "unshare" /\ Change(t, S, None)
        /\ task'[t].out = UNION {BroadcastExcept(p, s, None) : s \in S}
    BY <1>3, DisownStep DEF At, Steps
  <2>2. S \in SUBSET Item
    BY Kinds DEF Owned
  <2>3. task'[t].out = UNION {{Message("set", s, None, Peer \ {p})} : s \in S}
    BY <2>1 DEF BroadcastExcept
  <2> HIDE DEF S, p
  <2> QED
    BY <1>0, <1>2, <2>1, <2>2, <2>3, AgreedRemoval
<1>4. CASE Unshare(t)
  <2> DEFINE S == Owned(p, Sphere)
  <2>1. /\ task[t].pc = "unshare" /\ task'[t].pc = "unwatch" /\ Change(t, S, None)
        /\ task'[t].out = UNION {BroadcastExcept(p, s, None) : s \in S}
    BY <1>4, UnshareStep DEF At, Steps
  <2>2. S \in SUBSET Item
    BY Kinds DEF Owned
  <2>3. task'[t].out = UNION {{Message("set", s, None, Peer \ {p})} : s \in S}
    BY <2>1 DEF BroadcastExcept
  <2> HIDE DEF S, p
  <2> QED
    BY <1>0, <1>2, <2>1, <2>2, <2>3, AgreedRemoval
<1>5. CASE RemoveCamera(t)
  <2>1. /\ task[t].pc = "unwatch" /\ task'[t].pc = "forget" /\ p \in Item
        /\ task'[t].out = IF world[p] = "on" THEN BroadcastExcept(p, p, "off") ELSE {}
        /\ world' = [world EXCEPT ![p] = None]
        /\ raced' = IF world[p] # "on" THEN raced
                    ELSE IF Overtaken(t, p) THEN raced \cup {p} ELSE raced \ {p}
    BY <1>1, <1>5, RemoveCameraStep, Kinds DEF At, Steps, RemoveCamera
  <2>2. CASE world[p] = "on"
    <3>1. Change(t, {p}, None)
      BY <2>1, <2>2 DEF Change, TypeInv, WorldWell
    <3>2. task'[t].out = {Message("set", p, "off", Peer \ {p})}
      BY <2>1, <2>2 DEF BroadcastExcept
    <3>3. \A m \in task'[t].out : m.item = p /\ m.val = "off"
      BY <3>2 DEF Message
    <3>4. \A m \in task'[t].out : m.item \in {p} /\ Same(m.item, m.val, None)
      BY <1>1, <3>3, NoneIsNothing DEF Same
    <3>5. ASSUME i \in {p}, NEW q \in known' \cap live'
          PROVE  Coming(q, i)'
      <4>1. Message("set", p, "off", Peer \ {p}) \in task'[t].out
        BY <3>2
      <4>2. q \in Peer \ {p}
        BY <1>2
      <4> DEFINE m == Message("set", p, "off", Peer \ {p})
      <4>3. m.item = i /\ m.kind = "set" /\ q \in m.left
        BY <3>5, <4>2 DEF Message
      <4> HIDE DEF m
      <4> QED
        BY <4>1, <4>3 DEF Coming, m
    <3>6. {p} \in SUBSET Item
      BY <2>1
    <3> HIDE DEF p
    <3> QED
      BY <1>0, <2>1, <3>1, <3>4, <3>5, <3>6, AgreedBroadcast
  <2>3. CASE world[p] # "on"
    <3>1. /\ world'[p] = None /\ \A j \in Item \ {p} : world'[j] = world[j]
          /\ Agreed(i) /\ task'[t].out = {}
      BY <2>1, <2>3 DEF AgreeInv, TypeInv, WorldWell
    <3>2. CASE i = p
      <4>1. PuttingBack(i) = {}
        BY <1>1, <3>2, Kinds DEF PuttingBack, TypeInv, TasksWell, TaskWell, ResourcePC
      <4>2. PuttingBack(i)' = {}
        BY <1>0, <2>1, <4>1 DEF PuttingBack, Works
      <4>3. \A v : Same(i, v, world[i]) => Same(i, v, world'[i])
        BY <1>1, <2>3, <3>1, <3>2, NoneIsNothing DEF Same
      <4>4. PutBackOnce(i)' /\ \A v : True(i, v) => True(i, v)'
        BY <4>1, <4>2, <4>3 DEF PutBackOnce, True, Same
      <4> QED
        BY <1>0, <2>1, <3>1, <4>4, WorksKept
    <3>3. CASE i # p
      BY <1>0, <2>1, <3>1, <3>3, AgreedAlone
    <3> QED
      BY <3>2, <3>3
  <2> QED
    BY <2>2, <2>3
<1> QED
  BY <1>3, <1>4, <1>5

LEMMA AgreedLeft ==
  ASSUME TypeInv, LeavesGone, AgreeInv, NEW t \in Task, NEW i \in Item \ raced', LeaveStep(t)
  PROVE  Agreed(i)'
<1>0. Works(t)
  BY LeaveWorks
<1>1. CASE Disown(t) \/ Unshare(t) \/ RemoveCamera(t)
  BY <1>1, AgreedTaken
<1>2. CASE RemovePeer(t) \/ ResetCounter(t) \/ Recycle(t)
  <2>1. /\ task[t].pc \in {"forget", "reset_counter", "recycle"}
        /\ task'[t].pc \in {"unpreload", "recycle", "reset_tables", "idle"}
        /\ task'[t].out = {} /\ UNCHANGED <<world, raced>>
    BY <1>2, RemovePeerStep, ResetCounterStep, RecycleStep, IdleTask
       DEF At, Steps, RemovePeer, ResetCounter, Recycle, tables, history
  <2> QED
    BY <1>0, <2>1, AgreedAnswer
<1>3. CASE RemovePreloadPeer(t)
  <2>1. /\ task[t].pc = "unpreload" /\ task'[t].pc = "is_empty"
        /\ task'[t].out = UNION {Spawn(r) : r \in Complete(t)}
        /\ UNCHANGED world /\ raced \subseteq raced'
    BY <1>3, RemovePreloadPeerStep DEF At, Steps, RemovePreloadPeer, Leaving, SpawnRace
  <2>2. \A r : \A m \in Spawn(r) : m.kind = "spawn"
    BY DEF Spawn, Message
  <2>3. \A m \in task'[t].out : m.kind = "spawn"
    BY <2>1, <2>2
  <2> QED
    BY <1>0, <2>1, <2>3, AgreedAnswer
<1>4. CASE ResetResources(t)
  <2>1. /\ task[t].pc = "reset_resources" /\ task'[t].pc = "reset_names"
        /\ task'[t].out = Removals(t) /\ Change(t, Listed(t), None)
        /\ Listed(t) \subseteq Resource
    BY <1>4, ResetResourcesStep DEF At, Steps
  <2>2. Listed(t) \in SUBSET Item
    BY <2>1 DEF Item
  <2>3. task'[t].out = UNION {{Message("set", s, None, Peer)} : s \in Listed(t)}
    BY <2>1 DEF Removals, Broadcast
  <2>4. Peer \in SUBSET Peer /\ known' \cap live' \subseteq Peer
    BY <1>0 DEF Works, TypeInv, TablesWell
  <2> QED
    BY <1>0, <2>1, <2>2, <2>3, <2>4, AgreedRemoval
<1>5. CASE ResetNames(t)
  <2>1. /\ task[t].pc = "reset_names" /\ task'[t].pc = "reset_counter" /\ task'[t].out = {}
        /\ Clear(t, Name) /\ Name \in SUBSET Item
    BY <1>5, ResetNamesStep, Kinds DEF At, Steps
  <2> QED
    BY <1>0, <2>1, AgreedCleared
<1>6. CASE ResetTables(t)
  <2> DEFINE S == Object \cup Sphere \cup Peer
  <2>1. /\ task[t].pc = "reset_tables" /\ task'[t].pc = "recycle" /\ task'[t].out = {}
        /\ Clear(t, S) /\ S \in SUBSET Item
    BY <1>6, ResetTablesStep, Kinds DEF At, Steps
  <2> HIDE DEF S
  <2> QED
    BY <1>0, <2>1, AgreedCleared
<1>7. CASE IsEmpty(t) \/ ListTransient(t)
  <2>1. /\ task[t].pc \in {"is_empty", "list_ids"} /\ UNCHANGED <<world, raced>>
        /\ task'[t].out = {} /\ task'[t].pc \in {"list_ids", "recycle", "reset_resources"}
    BY <1>7, IsEmptyStep, ListTransientStep
       DEF At, Steps, LooksUp, IsEmpty, ListTransient, List, tables, history
  <2> QED
    BY <1>0, <2>1, AgreedAnswer
<1> QED
  BY <1>1, <1>2, <1>3, <1>4, <1>5, <1>6, <1>7 DEF LeaveStep
\* A connection that begins has its tables replayed, and was told nothing before.
LEMMA AgreedConnected ==
  ASSUME TypeInv, AgreeInv, NEW t \in Task, NEW i \in Item \ raced', NEW p \in Peer,
         Request(t, p) \/ Connect(t, p) \/ Close(t, p)
  PROVE  Agreed(i)'
<1>1. CASE Request(t, p)
  <2>1. Works(t) /\ UNCHANGED world /\ raced \subseteq raced'
    BY <1>1, RequestSteps, IdleTask DEF Works, RequestPC, ObjectPC, SpherePC, tables, sent, history
  <2>2. /\ task[t].pc = "idle" /\ task'[t].pc \notin {"put_back", "session"}
        /\ task'[t].out = {}
    BY <1>1, RequestSteps, IdleTask DEF RequestPC, ObjectPC, SpherePC
  <2> QED
    BY <2>1, <2>2, AgreedAnswer
<1>2. CASE Connect(t, p) \/ Close(t, p)
  <2>1. /\ \A u \in Task \ {t} : task'[u] = task[u]
        /\ task[t].pc = "idle" /\ task[t].out = {} /\ task'[t].out = {}
        /\ task'[t].pc \in {"insert", "disown"} /\ task'[t].peer = p
        /\ UNCHANGED <<known, world, raced>>
    BY <1>2, ConnectStep, CloseStep, IdleTask DEF Connect, Close, tables, sent, history
  <2>2. Agreed(i) /\ PutBackOnce(i)' /\ \A v : True(i, v) => True(i, v)'
    BY <2>1, TrueKept DEF AgreeInv, Agreed
  <2>3. SaidTrue(i)'
    BY <2>1, <2>2, SaidTrueKept DEF Agreed
  <2>4. ASSUME NEW q \in known' \cap live'
        PROVE  Hears(q, i)'
    <3>1. q \in Peer /\ q \in known
      BY <2>1 DEF TypeInv, TablesWell
    <3>2. CASE q \in live
      <4>1. /\ told'[q][i] = told[q][i]
            /\ <<q, i>> \in misled => <<q, i>> \in misled'
        <5>1. CASE Connect(t, p)
          BY <5>1 DEF Connect, sent
        <5>2. CASE Close(t, p)
          <6>1. q # p
            BY <2>4, <5>2, EndStep DEF Close
          <6> QED
            BY <3>1, <5>2, <6>1, EndStep DEF Close
        <5> QED
          BY <1>2, <5>1, <5>2
      <4>2. Hears(q, i)
        BY <2>2, <3>1, <3>2 DEF Agreed
      <4>3. (Coming(q, i) => Coming(q, i)') /\ (ToReplay(q, i) => ToReplay(q, i)')
        BY <2>1 DEF Coming, ToReplay
      <4> QED
        BY <2>1, <2>2, <3>1, <4>1, <4>2, <4>3, HearsKept
    <3>3. CASE q \notin live
      <4>1. /\ q = p /\ Connect(t, p)
        BY <1>2, <2>4, <3>3, EndStep DEF Connect, Close
      <4>2. told'[q][i] = None /\ task'[t].pc = "insert"
        BY <3>1, <3>3, <4>1, ConnectStep DEF Connect, sent, AgreeInv, NewToldNothing
      <4> QED
        BY <2>1, <4>1, <4>2 DEF Hears, ToReplay
    <3> QED
      BY <3>2, <3>3
  <2> QED
    BY <2>2, <2>3, <2>4 DEF Agreed
<1> QED
  BY <1>1, <1>2

\* Who is cut off hears nothing more, and the others are told what they were.
LEMMA AgreedCutOff ==
  ASSUME TypeInv, AgreeInv, NEW i \in Item \ raced', NEW p \in Peer, CutOff(p)
  PROVE  Agreed(i)'
<1>1. /\ live' = live \ {p} /\ UNCHANGED <<known, task, world, raced>>
      /\ \A q \in Peer \ {p} : told'[q][i] = told[q][i]
      /\ misled' = {x \in misled : x[1] # p}
  BY CutOffStep DEF tables, history
<1>2. Agreed(i)
  BY <1>1 DEF AgreeInv
<1>3. PutBackOnce(i)' /\ \A v : True(i, v)' <=> True(i, v)
  <2>1. PuttingBack(i)' = PuttingBack(i)
    BY <1>1 DEF PuttingBack
  <2> QED
    BY <1>1, <1>2, <2>1 DEF Agreed, PutBackOnce, True, Same
<1>4. SaidTrue(i)'
  <2>1. \A t \in Task : \A m \in task[t].out : True(i, m.val)' <=> True(i, m.val)
    BY <1>1, <1>3 DEF True, Same, PuttingBack
  <2>2. \A t \in Task : /\ True(i, task[t].val)' <=> True(i, task[t].val)
                        /\ True(i, task[t].val[i])' <=> True(i, task[t].val[i])
    BY <1>1 DEF True, Same, PuttingBack
  <2>3. SaidTrue(i)
    BY <1>2 DEF Agreed
  <2>4. SaidTrue(i)' <=> \A t \in Task :
          /\ \A m \in task[t].out : m.item = i /\ m.kind # "spawn" => True(i, m.val)'
          /\ task[t].pc = "session" /\ task[t].item = i => True(i, task[t].val)'
          /\ task[t].pc = "send" /\ i \in Stage[task[t].stage] /\ task[t].val[i] # None =>
               True(i, task[t].val[i])'
    BY <1>1 DEF SaidTrue
  <2> QED
    BY <1>3, <2>2, <2>3, <2>4 DEF SaidTrue
<1>5. ASSUME NEW q \in known' \cap live'
      PROVE  Hears(q, i)'
  <2>1. q \in known \cap live /\ q # p /\ q \in Peer
    BY <1>1 DEF TypeInv, TablesWell
  <2>2. Hears(q, i) /\ told'[q][i] = told[q][i]
    BY <1>1, <1>2, <2>1 DEF Agreed
  <2>3. <<q, i>> \in misled => <<q, i>> \in misled'
    BY <1>1, <2>1
  <2>4. Knows(q, i) => Knows(q, i)'
    BY <1>1, <2>2 DEF Knows, True, Same, PuttingBack
  <2>5. (Coming(q, i) => Coming(q, i)') /\ (Inserting(i) => Inserting(i)')
        /\ (ToReplay(q, i) => ToReplay(q, i)')
    BY <1>1 DEF Coming, Inserting, ToReplay
  <2> QED
    BY <2>2, <2>3, <2>4, <2>5 DEF Hears
<1> QED
  BY <1>3, <1>4, <1>5 DEF Agreed

\* What a join reads is true, and what it does not replay is not there.
LEMMA ReplayedSame ==
  ASSUME TypeInv, NEW i \in Item
  PROVE  Same(i, Replayed(i), world[i])
<1>1. CASE i \in Peer
  BY <1>1, NoneIsNothing DEF Replayed, Same
<1>2. CASE i \in Resource
  <2>1. i \notin Peer
    BY <1>2, Kinds
  <2>2. CASE world[i] = None
    BY <1>2, <2>1, <2>2 DEF Replayed, Same
  <2>3. CASE world[i] # None
    <3>1. world[i] \in ResourceKind
      BY <1>2, <2>3, HoldsKinds DEF TypeInv, WorldWell
    <3>2. Replayed(i) = [world[i] EXCEPT !.preload = FALSE]
      BY <1>2, <2>1, <2>3 DEF Replayed
    <3>3. Replayed(i) # None
      BY <3>1, <3>2, NoneIsNothing DEF ResourceKind
    <3>4. [Replayed(i) EXCEPT !.preload = FALSE] = [world[i] EXCEPT !.preload = FALSE]
      BY <3>1, <3>2 DEF ResourceKind
    <3> QED
      BY <1>2, <2>1, <3>3, <3>4, <2>3 DEF Same
  <2> QED
    BY <2>2, <2>3
<1>3. CASE i \notin Peer \cup Resource
  BY <1>3 DEF Replayed, Same
<1> QED
  BY <1>1, <1>2, <1>3
LEMMA AgreedInserted ==
  ASSUME TypeInv, AgreeInv, NEW t \in Task, NEW i \in Item \ raced', Insert(t)
  PROVE  Agreed(i)'
<1>0. PICK p \in Peer : p = task[t].peer
  BY InsertStep
<1>1. /\ \A u \in Task \ {t} : task'[u] = task[u]
      /\ task[t].pc = "insert" /\ task[t].out = {} /\ task'[t].out = {} /\ p = task[t].peer
      /\ task'[t].pc = "read" /\ task'[t].peer = p /\ task'[t].stage = 1
      /\ known' = known \cup {p} /\ UNCHANGED <<live, world, told, misled, raced>>
  BY <1>0, InsertStep DEF At, LooksUp, Insert, tables, sent, history
<1>2. Agreed(i) /\ PutBackOnce(i)' /\ \A v : True(i, v) => True(i, v)'
  BY <1>1, TrueKept DEF AgreeInv, Agreed
<1>3. SaidTrue(i)'
  BY <1>1, <1>2, SaidTrueKept DEF Agreed
<1>4. ToReplay(p, i)'
  BY <1>1, Stages DEF ToReplay
<1>5. ASSUME NEW q \in known' \cap live'
      PROVE  Hears(q, i)'
  <2>1. q \in Peer
    BY <1>1 DEF TypeInv, TablesWell
  <2>2. CASE q \in known
    <3>1. Hears(q, i) /\ told'[q][i] = told[q][i]
      BY <1>1, <1>2, <2>2 DEF Agreed
    <3>2. Coming(q, i) => Coming(q, i)'
      BY <1>1 DEF Coming
    <3>3. ToReplay(q, i) => ToReplay(q, i)'
      <4>1. CASE q = p
        BY <1>4, <4>1
      <4>2. CASE q # p
        BY <1>1, <4>2 DEF ToReplay
      <4> QED
        BY <4>1, <4>2
    <3> QED
      BY <1>1, <1>2, <2>1, <3>1, <3>2, <3>3, HearsKept
  <2>3. CASE q \notin known
    <3>1. q = p /\ q \in live \ known
      BY <1>1, <1>5, <2>3
    <3>2. told'[q][i] = None \/ <<q, i>> \in misled'
      BY <1>1, <3>1 DEF AgreeInv, NewToldNothing
    <3> QED
      BY <1>4, <3>1, <3>2 DEF Hears
  <2> QED
    BY <2>2, <2>3
<1> QED
  BY <1>2, <1>3, <1>5 DEF Agreed

LEMMA AgreedRead ==
  ASSUME TypeInv, AgreeInv, NEW t \in Task, NEW i \in Item \ raced', ReadTable(t)
  PROVE  Agreed(i)'
<1> DEFINE k == task[t].stage
           S == Stage[k]
<1>1. /\ \A u \in Task \ {t} : task'[u] = task[u]
      /\ task[t].pc = "read" /\ task[t].out = {} /\ k \in 1 .. 5
      /\ UNCHANGED <<live, known, world, told, misled>>
      /\ raced' = raced \cup {j \in S : \E u \in Task : task[u].pc = "put_back" /\ task[u].item = j}
  BY ReadTableStep DEF At, ReadTable, tables, sent
<1> DEFINE Skips == /\ \A j \in S : Replayed(j) = None
                    /\ \/ k = 5 /\ task'[t] = Idle
                       \/ k \in 1 .. 4 /\ LooksUp(t, "read", None, k + 1)
           Sends2 == LooksUp(t, "send", [j \in S |-> Replayed(j)], k)
<1>2. Skips \/ Sends2
  BY ReadTableStep
<1>3. /\ task'[t].out = {} /\ task'[t].pc \in {"idle", "read", "send"}
      /\ task'[t].pc # "idle" => task'[t].peer = task[t].peer
      /\ task'[t].pc = "read" => Skips /\ task'[t].stage = k + 1 /\ k \in 1 .. 4
      /\ task'[t].pc = "idle" => Skips /\ k = 5
      /\ task'[t].pc = "send" => task'[t].stage = k /\ task'[t].val = [j \in S |-> Replayed(j)]
  BY <1>2, IdleTask DEF LooksUp
<1>4. Agreed(i) /\ PutBackOnce(i)' /\ \A v : True(i, v) => True(i, v)'
  BY <1>1, <1>3, TrueKept DEF AgreeInv, Agreed
<1>5. i \in S => True(i, Replayed(i))
  <2>1. i \in S => PuttingBack(i) = {}
    BY <1>1 DEF PuttingBack
  <2> QED
    BY <2>1, ReplayedSame DEF True
<1>6. SaidTrue(i)'
  <2>1. task'[t].pc = "send" /\ i \in Stage[task'[t].stage] => True(i, task'[t].val[i])
    <3>1. task'[t].pc = "send" /\ i \in Stage[task'[t].stage] => i \in S /\ task'[t].val[i] = Replayed(i)
      BY <1>3
    <3>2. \A v : v = Replayed(i) /\ i \in S => True(i, v)
      BY <1>5
    <3> QED
      BY <3>1, <3>2
  <2> QED
    BY <1>1, <1>3, <1>4, <2>1, SaidTrueKept DEF Agreed
<1>7. ASSUME NEW q \in known' \cap live'
      PROVE  Hears(q, i)'
  <2>1. q \in Peer /\ Hears(q, i) /\ told'[q][i] = told[q][i]
    BY <1>1, <1>4 DEF Agreed, TypeInv, TablesWell
  <2>2. Coming(q, i) => Coming(q, i)'
    BY <1>1 DEF Coming
  <2>3. ToReplay(q, i) => ToReplay(q, i)' \/ True(i, None)
    <3> SUFFICES ASSUME ToReplay(q, i), ~ToReplay(q, i)'
                 PROVE  True(i, None)
      OBVIOUS
    <3>1. task[t].peer = q /\ \E n \in k .. 5 : i \in Stage[n]
      BY <1>1 DEF ToReplay
    <3>2. PICK n \in k .. 5 : i \in Stage[n]
      BY <3>1
    <3>3. i \in S
      <4>1. CASE n = k
        BY <3>2, <4>1
      <4>2. CASE n # k
        <5>1. n \in (k + 1) .. 5 /\ k # 5
          BY <1>1, <3>2, <4>2
        <5>2. task'[t].peer = q /\ task'[t].pc \in {"read", "send"}
          BY <1>3, <3>1, <5>1
        <5>3. CASE task'[t].pc = "read"
          BY <1>3, <3>2, <5>1, <5>2, <5>3 DEF ToReplay
        <5>4. CASE task'[t].pc = "send"
          BY <1>3, <3>2, <5>1, <5>2, <5>4 DEF ToReplay
        <5> QED
          BY <5>2, <5>3, <5>4
      <4> QED
        BY <4>1, <4>2
    <3>4. Replayed(i) = None
      <4>1. CASE Skips
        BY <3>3, <4>1
      <4>2. CASE task'[t].pc = "send"
        <5>1. task'[t].peer = q /\ i \in Stage[task'[t].stage] /\ task'[t].val[i] = Replayed(i)
          BY <1>3, <3>1, <3>3, <4>2
        <5> QED
          BY <4>2, <5>1 DEF ToReplay
      <4> QED
        BY <1>3, <4>1, <4>2
    <3> QED
      BY <1>5, <3>3, <3>4
  <2> QED
    BY <1>1, <1>4, <2>1, <2>2, <2>3, HearsKept
<1> QED
  BY <1>4, <1>6, <1>7 DEF Agreed
LEMMA AgreedSent ==
  ASSUME TypeInv, AgreeInv, NEW t \in Task, NEW i \in Item \ raced', SendTable(t)
  PROVE  Agreed(i)'
<1> DEFINE k == task[t].stage
           S == {j \in Stage[k] : task[t].val[j] # None}
<1>0. PICK p \in Peer : p = task[t].peer
  BY SendTableStep
<1>1. /\ \A u \in Task \ {t} : task'[u] = task[u]
      /\ task[t].pc = "send" /\ task[t].out = {} /\ k \in 1 .. 5
      /\ UNCHANGED <<live, known, world, raced>>
  BY SendTableStep DEF At, SendTable, tables, history
<1>2. /\ task'[t].out = {}
      /\ \/ k = 5 /\ task'[t].pc = "idle"
         \/ /\ k \in 1 .. 4 /\ task'[t].pc = "read" /\ task'[t].stage = k + 1
            /\ task'[t].peer = p
  BY <1>0, SendTableStep, IdleTask DEF LooksUp
<1>3. Agreed(i) /\ PutBackOnce(i)' /\ \A v : True(i, v) => True(i, v)'
  BY <1>1, <1>2, TrueKept DEF AgreeInv, Agreed
<1>4. SaidTrue(i)'
  BY <1>1, <1>2, <1>3, SaidTrueKept DEF Agreed
<1>5. ASSUME NEW q \in known' \cap live'
      PROVE  Hears(q, i)'
  <2>1. q \in Peer /\ q \in known /\ q \in live /\ Hears(q, i)
    BY <1>1, <1>3 DEF Agreed, TypeInv, TablesWell
  <2>2. CASE q = p /\ i \in S
    <3>1. told'[q][i] = task[t].val[i] /\ True(i, task[t].val[i])
      BY <1>0, <1>1, <1>3, <2>1, <2>2, SendTableStep DEF Agreed, SaidTrue
    <3>2. True(i, told[q][i])'
      <4>1. \A v : v = task[t].val[i] => True(i, v)'
        BY <1>3, <3>1
      <4>2. \A v : v = told'[q][i] => (True(i, v)' => True(i, told[q][i])')
        OBVIOUS
      <4> QED
        BY <3>1, <4>1, <4>2
    <3> QED
      BY <3>2 DEF Hears, Knows
  <2>3. CASE ~(q = p /\ i \in S)
    <3>1. told'[q][i] = told[q][i]
      BY <1>0, <2>1, <2>3, SendTableStep
    <3>2. <<q, i>> \in misled => <<q, i>> \in misled'
      BY <1>0, <2>3 DEF SendTable, Telling, sent
    <3>3. Coming(q, i) => Coming(q, i)'
      BY <1>1 DEF Coming
    <3>4. ToReplay(q, i) => ToReplay(q, i)'
      <4> SUFFICES ASSUME ToReplay(q, i), ~ToReplay(q, i)'
                   PROVE  FALSE
        OBVIOUS
      <4>1. task[t].peer = q /\ (i \in S \/ \E n \in (k + 1) .. 5 : i \in Stage[n])
        BY <1>1 DEF ToReplay
      <4>2. q = p /\ \E n \in (k + 1) .. 5 : i \in Stage[n]
        BY <1>0, <2>3, <4>1
      <4>3. task'[t].pc = "read" /\ task'[t].stage = k + 1 /\ task'[t].peer = q
        BY <1>1, <1>2, <4>2
      <4> QED
        BY <4>2, <4>3 DEF ToReplay
    <3> QED
      BY <1>1, <1>3, <2>1, <3>1, <3>2, <3>3, <3>4, HearsKept
  <2> QED
    BY <2>2, <2>3
<1> QED
  BY <1>3, <1>4, <1>5 DEF Agreed

\* A player is told what is on its way to it. The order to spawn says nothing of the resource
\* but that it is not waited for any more.
LEMMA AgreedVisited ==
  ASSUME TypeInv, AgreeInv, NEW t \in Task, NEW i \in Item \ raced', NEW q \in Peer,
         NEW m \in task[t].out, Visit(t, q, m)
  PROVE  Agreed(i)'
<1> DEFINE out == Rest(t, q, m)
<1>1. /\ \A u \in Task \ {t} : task'[u] = task[u]
      /\ task'[t].out = out
      /\ \/ task'[t] = Idle /\ task[t].pc = "done"
         \/ /\ task'[t].pc = task[t].pc /\ task'[t].peer = task[t].peer
            /\ task'[t].item = task[t].item /\ task'[t].val = task[t].val
            /\ task'[t].stage = task[t].stage
      /\ UNCHANGED <<live, known, world, raced>>
  BY VisitSteps DEF tables, history
<1>2. /\ \A w \in out : \E n \in task[t].out : /\ w.kind = n.kind /\ w.item = n.item /\ w.val = n.val
      /\ \A w \in task[t].out : \/ w \in out
                                \/ w = m /\ \A p \in w.left \ {q} : \E n \in out :
                                     /\ n.kind = w.kind /\ n.item = w.item /\ n.val = w.val
                                     /\ p \in n.left
  BY Visited
<1> HIDE DEF out
<1>3. Idle.pc = "idle"
  BY IdleTask
<1>4. Agreed(i)
  BY <1>1 DEF AgreeInv
<1>5. PutBackOnce(i)' /\ \A v : True(i, v) => True(i, v)'
  <2>1. PuttingBack(i)' = PuttingBack(i)
    BY <1>1, <1>3 DEF PuttingBack
  <2>2. \A u \in PuttingBack(i) : task'[u].val = task[u].val
    BY <1>1, <1>3 DEF PuttingBack
  <2> QED
    BY <1>1, <1>4, <2>1, <2>2 DEF Agreed, PutBackOnce, True, Same
<1>6. SaidTrue(i)'
  <2>1. \A w \in task'[t].out : w.item = i /\ w.kind # "spawn" => True(i, w.val)
    <3>1. SUFFICES ASSUME NEW w \in out, w.item = i, w.kind # "spawn"
                   PROVE  True(i, w.val)
      BY <1>1
    <3>2. PICK n \in task[t].out : w.kind = n.kind /\ w.item = n.item /\ w.val = n.val
      BY <1>2
    <3>3. True(i, n.val)
      BY <1>4, <3>1, <3>2 DEF Agreed, SaidTrue
    <3> QED
      BY <3>2, <3>3
  <2>2. task'[t].pc = "session" /\ task'[t].item = i => True(i, task'[t].val)
    BY <1>1, <1>3, <1>4 DEF Agreed, SaidTrue
  <2>3. task'[t].pc = "send" /\ i \in Stage[task'[t].stage] /\ task'[t].val[i] # None =>
          True(i, task'[t].val[i])
    BY <1>1, <1>3, <1>4 DEF Agreed, SaidTrue
  <2> QED
    BY <1>1, <1>4, <1>5, <2>1, <2>2, <2>3, SaidTrueKept DEF Agreed
<1>7. ASSUME NEW p \in known' \cap live'
      PROVE  Hears(p, i)'
  <2>1. p \in Peer /\ p \in known /\ p \in live /\ Hears(p, i)
    BY <1>1, <1>4 DEF Agreed, TypeInv, TablesWell
  <2>2. CASE p = q /\ i = m.item /\ m.kind # "spawn"
    <3>1. told'[p][i] = m.val /\ True(i, m.val)
      BY <1>4, <2>1, <2>2, VisitTold DEF Heard, Agreed, SaidTrue
    <3>2. True(i, told[p][i])'
      <4>1. \A v : v = m.val => True(i, v)'
        BY <1>5, <3>1
      <4>2. \A v : v = told'[p][i] => (True(i, v)' => True(i, told[p][i])')
        OBVIOUS
      <4> QED
        BY <3>1, <4>1, <4>2
    <3> QED
      BY <3>2 DEF Hears, Knows
  <2>3. CASE ~(p = q /\ i = m.item /\ m.kind # "spawn")
    <3>1. <<p, i>> \in misled => <<p, i>> \in misled'
      BY <2>1, <2>3 DEF Visit, Telling, sent
    <3>2. Coming(p, i) => Coming(p, i)'
      <4> SUFFICES ASSUME NEW u \in Task, NEW w \in task[u].out,
                          w.item = i, w.kind # "spawn", p \in w.left
                   PROVE  \E n \in task'[u].out : n.item = i /\ n.kind # "spawn" /\ p \in n.left
        BY DEF Coming
      <4>1. CASE u # t
        BY <1>1, <4>1
      <4>2. CASE u = t /\ w \in out
        BY <1>1, <4>2
      <4>3. CASE u = t /\ w \notin out
        <5>1. w = m /\ p # q
          BY <1>2, <2>3, <4>3
        <5> QED
          BY <1>1, <1>2, <4>3, <5>1
      <4> QED
        BY <4>1, <4>2, <4>3
    <3>3. Inserting(i) => Inserting(i)'
      BY <1>1, <1>3 DEF Inserting
    <3>4. ToReplay(p, i) => ToReplay(p, i)'
      BY <1>1 DEF ToReplay
    <3>5. (told[p][i] = None => told'[p][i] = None) /\ (Knows(p, i) => Knows(p, i)')
      <4>1. CASE p = q /\ i = m.item /\ m.kind = "spawn"
        <5>1. /\ told'[p][i] = IF told[p][i] = None THEN None
                               ELSE [told[p][i] EXCEPT !.preload = FALSE]
              /\ i \in Resource
          BY <2>1, <4>1, VisitTold DEF Heard, MessageWell
        <5>2. told[p][i] # None => told[p][i] \in ResourceKind
          BY <2>1, <5>1, HoldsKinds DEF TypeInv, TablesWell
        <5>3. i \notin Peer /\ i \notin Object
          BY <5>1, Kinds
        <5>4. told[p][i] # None =>
                /\ told'[p][i] # None
                /\ [told'[p][i] EXCEPT !.preload = FALSE] = [told[p][i] EXCEPT !.preload = FALSE]
          BY <5>1, <5>2, NoneIsNothing DEF ResourceKind
        <5>5. \A v : Same(i, told[p][i], v) => Same(i, told'[p][i], v)
          BY <5>1, <5>3, <5>4 DEF Same
        <5>6. True(i, told[p][i]) => True(i, told'[p][i])
          BY <5>5 DEF True
        <5>7. True(i, told[p][i]) => True(i, told[p][i])'
          <6>1. \A v : v = told'[p][i] => (True(i, v) => True(i, v)')
            BY <1>5
          <6>2. \A v : v = told'[p][i] => (True(i, v)' => True(i, told[p][i])')
            OBVIOUS
          <6> QED
            BY <5>6, <6>1, <6>2
        <5> QED
          BY <5>1, <5>3, <5>7, Kinds DEF Knows
      <4>2. CASE ~(p = q /\ i = m.item)
        <5>1. told'[p][i] = told[p][i]
          BY <2>1, <4>2, VisitTold
        <5>2. True(i, told[p][i]) => True(i, told[p][i])'
          <6>1. \A v : v = told'[p][i] => (True(i, v) => True(i, v)')
            BY <1>5
          <6>2. \A v : v = told'[p][i] => (True(i, v)' => True(i, told[p][i])')
            OBVIOUS
          <6> QED
            BY <5>1, <6>1, <6>2
        <5> QED
          BY <5>1, <5>2 DEF Knows
      <4> QED
        BY <2>3, <4>1, <4>2
    <3> QED
      BY <2>1, <3>1, <3>2, <3>3, <3>4, <3>5 DEF Hears
  <2> QED
    BY <2>2, <2>3
<1> QED
  BY <1>5, <1>6, <1>7 DEF Agreed
LEMMA NewToldNext ==
  ASSUME TypeInv, LeavesGone, NewToldNothing, [Next]_vars
  PROVE  NewToldNothing'
<1>1. /\ live \subseteq Peer /\ live' \subseteq Peer
      /\ \A p \in Peer \ live, i \in Item : told[p][i] = None
      /\ \A p \in live \ known, i \in Item : told[p][i] # None => <<p, i>> \in misled
  <2>1. TypeInv'
    BY TypesNext
  <2> QED
    BY <2>1 DEF TypeInv, TablesWell, NewToldNothing
<1>2. CASE UNCHANGED <<live, told, misled>> /\ live \ known' \subseteq live \ known
  BY <1>1, <1>2 DEF NewToldNothing
<1>3. ASSUME NEW t \in Task, NEW p \in Peer, Request(t, p)
      PROVE  NewToldNothing'
  BY <1>2, <1>3, RequestSteps DEF sent
<1>4. ASSUME NEW t \in Task, NEW p \in Peer, Connect(t, p)
      PROVE  NewToldNothing'
  <2>1. live' = live \cup {p} /\ p \notin live /\ UNCHANGED <<known, told, misled>>
    BY <1>4 DEF Connect, sent
  <2> QED
    BY <1>1, <2>1 DEF NewToldNothing
<1>5. ASSUME NEW p \in Peer, CutOff(p) \/ \E t \in Task : Close(t, p)
      PROVE  NewToldNothing'
  <2>1. /\ live' = live \ {p} /\ UNCHANGED known
        /\ misled' = {x \in misled : x[1] # p}
        /\ \A q \in Peer, i \in Item : told'[q][i] = IF q = p THEN None ELSE told[q][i]
    BY <1>5, EndStep DEF Close, CutOff
  <2>2. \A q \in Peer \ {p}, i \in Item : <<q, i>> \in misled => <<q, i>> \in misled'
    BY <2>1
  <2> QED
    BY <1>1, <2>1, <2>2 DEF NewToldNothing
<1>6. ASSUME NEW t \in Task, NEW q \in Peer, NEW m \in task[t].out, Visit(t, q, m)
      PROVE  NewToldNothing'
  <2>1. UNCHANGED <<live, known>> /\ m.item \in Item /\ MessageWell(m)
    BY <1>6, VisitSteps, VisitTold
  <2>2. ASSUME NEW p \in Peer \ live, NEW i \in Item
        PROVE  told'[p][i] = None
    BY <1>1, <1>6, VisitTold
  <2>3. ASSUME NEW p \in live \ known, NEW i \in Item, told'[p][i] # None
        PROVE  <<p, i>> \in misled'
    <3>1. p \in Peer
      BY <1>1
    <3>2. CASE p = q /\ i = m.item /\ m.kind = "reply"
      BY <1>6, <2>3, <3>2 DEF Visit, Telling
    <3>3. CASE ~(p = q /\ i = m.item /\ m.kind = "reply")
      <4>1. told'[p][i] = told[p][i]
        BY <1>6, <2>3, <3>1, <3>3, VisitTold
      <4>2. <<p, i>> \in misled
        BY <1>1, <2>3, <4>1
      <4> QED
        BY <1>6, <2>3, <4>2 DEF Visit, Telling, sent
    <3> QED
      BY <3>2, <3>3
  <2> QED
    BY <2>1, <2>2, <2>3 DEF NewToldNothing
<1>7. ASSUME NEW t \in Task, Handle(t) \/ LeaveStep(t)
      PROVE  NewToldNothing'
  <2>1. UNCHANGED <<live, told, misled>>
    BY <1>7, HandlerWorks, LeaveWorks DEF Works
  <2>2. CASE RemovePeer(t)
    <3>1. known' = known \ {task[t].peer} /\ task[t].peer \notin live
      BY <2>2, RemovePeerStep DEF RemovePeer, At, LeavesGone, LeavePC
    <3> QED
      BY <1>2, <2>1, <3>1
  <2>3. CASE Handle(t) \/ ~RemovePeer(t)
    <3>1. UNCHANGED known
      BY <1>7, <2>3, HandlerSteps DEF Handling, LeaveStep, Disown, Unshare, TakeAway, RemoveCamera,
         RemovePreloadPeer, Leaving, IsEmpty, ListTransient, List, ResetResources, RemoveListed,
         ResetNames, ResetBy, ResetCounter, ResetTables, Recycle
    <3> QED
      BY <1>2, <2>1, <3>1
  <2> QED
    BY <2>2, <2>3
<1>8. ASSUME NEW t \in Task, Insert(t) \/ ReadTable(t)
      PROVE  NewToldNothing'
  <2>1. UNCHANGED <<live, told, misled>> /\ known \subseteq known'
    BY <1>8 DEF Insert, ReadTable, sent
  <2> QED
    BY <1>2, <2>1
<1>9. ASSUME NEW t \in Task, SendTable(t)
      PROVE  NewToldNothing'
  <2> DEFINE k == task[t].stage
  <2>1. UNCHANGED <<live, known>>
    BY <1>9 DEF SendTable
  <2>2. ASSUME NEW p \in Peer \ live, NEW i \in Item
        PROVE  told'[p][i] = None
    BY <1>1, <1>9, SendTableStep
  <2>3. ASSUME NEW p \in live \ known, NEW i \in Item, told'[p][i] # None
        PROVE  <<p, i>> \in misled'
    <3>1. p \in Peer
      BY <1>1
    <3>2. CASE p = task[t].peer /\ i \in Stage[k] /\ task[t].val[i] # None
      BY <1>9, <2>3, <3>2 DEF SendTable, Telling
    <3>3. CASE ~(p = task[t].peer /\ i \in Stage[k] /\ task[t].val[i] # None)
      <4>1. told'[p][i] = told[p][i]
        BY <1>9, <2>3, <3>1, <3>3, SendTableStep
      <4>2. <<p, i>> \in misled
        BY <1>1, <2>3, <4>1
      <4> QED
        BY <1>9, <2>3, <4>2 DEF SendTable, Telling, sent
    <3> QED
      BY <3>2, <3>3
  <2> QED
    BY <2>1, <2>2, <2>3 DEF NewToldNothing
<1>10. CASE UNCHANGED vars
  BY <1>2, <1>10, StutterSteps
<1> QED
  BY <1>3, <1>4, <1>5, <1>6, <1>7, <1>8, <1>9, <1>10 DEF Next, JoinStep

LEMMA AgreeNext ==
  ASSUME TypeInv, LeavesGone, AgreeInv, [Next]_vars
  PROVE  AgreeInv'
<1>1. NewToldNothing'
  BY NewToldNext DEF AgreeInv
<1>2. ASSUME NEW i \in Item \ raced', UNCHANGED vars
      PROVE  Agreed(i)'
  <2>1. /\ UNCHANGED <<live, known, world, told, misled, task>>
        /\ i \notin raced
    BY <1>2, StutterSteps
  <2>2. PuttingBack(i)' = PuttingBack(i)
    BY <2>1 DEF PuttingBack
  <2>3. PutBackOnce(i)' = PutBackOnce(i)
    BY <2>1, <2>2 DEF PutBackOnce
  <2>4. \A v : True(i, v)' <=> True(i, v)
    BY <2>1, <2>2 DEF True, Same
  <2>5. SaidTrue(i) => SaidTrue(i)'
    <3>1. SaidTrue(i)' <=> \A t \in Task :
            /\ \A m \in task[t].out : m.item = i /\ m.kind # "spawn" => True(i, m.val)'
            /\ task[t].pc = "session" /\ task[t].item = i => True(i, task[t].val)'
            /\ task[t].pc = "send" /\ i \in Stage[task[t].stage] /\ task[t].val[i] # None =>
                 True(i, task[t].val[i])'
      BY <2>1 DEF SaidTrue
    <3>2. \A t \in Task : (True(i, task[t].val)' <=> True(i, task[t].val))
                         /\ (True(i, task[t].val[i])' <=> True(i, task[t].val[i]))
      BY <2>1, <2>2 DEF True, Same
    <3> QED
      BY <2>4, <3>1, <3>2 DEF SaidTrue
  <2>6. \A p : Hears(p, i) => Hears(p, i)'
    <3> SUFFICES ASSUME NEW p PROVE Hears(p, i) => Hears(p, i)'
      OBVIOUS
    <3>1. Knows(p, i) => Knows(p, i)'
      BY <2>1, <2>2 DEF Knows, True, Same
    <3>2. (Coming(p, i) => Coming(p, i)') /\ (Inserting(i) => Inserting(i)')
          /\ (ToReplay(p, i) => ToReplay(p, i)')
      BY <2>1 DEF Coming, Inserting, ToReplay
    <3> QED
      BY <2>1, <3>1, <3>2 DEF Hears
  <2> QED
    BY <2>1, <2>3, <2>5, <2>6 DEF AgreeInv, Agreed
<1>3. ASSUME NEW i \in Item \ raced', Next
      PROVE  Agreed(i)'
  BY <1>3, AgreedConnected, AgreedCutOff, AgreedVisited, AgreedHandled, AgreedInserted,
     AgreedRead, AgreedSent, AgreedLeft DEF Next, JoinStep
<1> QED
  BY <1>1, <1>2, <1>3 DEF AgreeInv

\* When the tasks are done, every client was told what the tables hold, but for the items of
\* races and what a client was told before it was entered: the changes and broadcasts of the
\* handlers, the replay of a join, and what a leave takes away and resets.
THEOREM ClientsAreTold == Spec => []ClientsAgree
<1>1. Init => AgreeInv
  <2> SUFFICES ASSUME Init PROVE AgreeInv
    OBVIOUS
  <2>1. \A t \in Task : task[t].pc = "idle" /\ task[t].out = {}
    BY IdleTask DEF Init
  <2>2. NewToldNothing /\ known = {}
    BY DEF Init, NewToldNothing
  <2>3. \A i \in Item : PutBackOnce(i) /\ SaidTrue(i)
    BY <2>1 DEF PutBackOnce, PuttingBack, SaidTrue
  <2> QED
    BY <2>2, <2>3 DEF AgreeInv, Agreed
<1>2. TypeInv /\ LeavesGone /\ AgreeInv /\ [Next]_vars => AgreeInv'
  BY AgreeNext
<1>3. TypeInv /\ AgreeInv => ClientsAgree
  <2> SUFFICES ASSUME TypeInv, AgreeInv, Quiet, NEW p \in known \cap live, NEW i \in Item \ raced,
                      <<p, i>> \notin misled
               PROVE  Agrees(p, i)
    BY DEF ClientsAgree
  <2>1. Hears(p, i) /\ p \in Peer
    BY DEF AgreeInv, Agreed, TypeInv, TablesWell
  <2>2. \A t \in Task : task[t].pc = "idle" /\ task[t].out = {}
    BY QuietTasks
  <2>3. ~Coming(p, i) /\ ~Inserting(i) /\ ~ToReplay(p, i) /\ PuttingBack(i) = {}
    BY <2>2 DEF Coming, Inserting, ToReplay, PuttingBack
  <2>4. Knows(p, i)
    BY <2>1, <2>3 DEF Hears
  <2>5. i = p \/ Same(i, told[p][i], world[i]) \/ (i \in Object /\ told[p][i] = None)
    BY <2>3, <2>4 DEF Knows, True
  <2> QED
    BY <2>1, <2>5, Kinds DEF Agrees, Same
<1> QED
  BY <1>1, <1>2, <1>3, SceneTypes, BehindAndPreloads, PTL DEF LeftBehindInv, Spec
=============================================================================
