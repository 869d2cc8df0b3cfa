--------------------------- MODULE PresenceProofs ---------------------------
(* What each client is shown, for any number of players and tasks. *)
EXTENDS Presence, TLAPS

-----------------------------------------------------------------------------
(* The inductive invariant. Each part says who will still tell q of p. *)

\* A task is idle exactly when it works for nobody; a connection has no leave.
TasksOK ==
  /\ \A t \in Task : join[t].pc = "idle" <=> join[t].player = None
  /\ \A t \in Task : join[t].pc = "idle" => join[t].found = {} /\ join[t].todo = {}
  /\ \A p \in live : leave[p] = NoLeave

Starting(p) == \E t \in Task : join[t].player = p /\ join[t].pc = "insert"

\* p's task has still to announce p to q
Announces(p, q) == \E t \in Task : join[t].player = p /\ join[t].pc = "create" /\ q \in join[t].todo

\* q's task has still to find p, or to send what it found
LooksUp(q, p) ==
  \E t \in Task :
    /\ join[t].player = q
    /\ \/ join[t].pc = "create"
       \/ join[t].pc = "existing" /\ p \in join[t].todo \union join[t].found

SeenOrPending ==
  \A p, q \in live \intersect known :
    p # q => p \in screen[q] \/ Starting(p) \/ Starting(q) \/ Announces(p, q) \/ LooksUp(q, p)

Revokes(p, q) == leave[p].pc = "tell" /\ q \in leave[p].todo /\ q \in known
Excused(p, q) == p \in known \/ <<p, q>> \in raced

GhostsPending ==
  /\ \A q \in live : q \in known \/ Starting(q)
  /\ \A q \in live : \A p \in screen[q] : Excused(p, q) \/ Revokes(p, q)
  /\ \A t \in Task : \A p \in join[t].found : Excused(p, join[t].player)
  /\ \A t \in Task : join[t].pc = "create" => \A q \in Player : Excused(join[t].player, q)

IInv == PresenceTypeOK /\ TasksOK /\ SeenOrPending /\ GhostsPending

-----------------------------------------------------------------------------
(* Types. *)

LEMMA IdleTyped == NoJoin \in Join /\ NoLeave \in Leave
BY DEF NoJoin, At, Join, NoLeave, Leave

LEMMA AtTyped ==
  ASSUME NEW p \in Player, NEW pc \in {"insert", "create", "existing"}, NEW todo \in SUBSET Player
  PROVE  At(p, pc, todo) \in Join
BY DEF At, Join

\* Every variable has its type initially.
LEMMA TypesInit == Init => PresenceTypeOK /\ TasksOK
BY IdleTyped, NoneAssumption DEF Init, PresenceTypeOK, TasksOK, NoJoin, At, NoLeave

\* A task that goes to another place keeps the types, when it is still for a
\* player that it does not visit itself.
LEMMA GoTyped ==
  ASSUME PresenceTypeOK, TasksOK, NEW t \in Task, NEW r \in Join,
         join' = [join EXCEPT ![t] = r],
         r = NoJoin \/ (r.pc # "idle" /\ r.player \in Player \ (r.todo \union r.found))
  PROVE  /\ join' \in [Task -> Join]
         /\ \A u \in Task : join'[u].pc # "idle" =>
              join'[u].player \in Player \ (join'[u].todo \union join'[u].found)
         /\ \A u \in Task : join'[u].pc = "idle" <=> join'[u].player = None
         /\ \A u \in Task : join'[u].pc = "idle" => join'[u].found = {} /\ join'[u].todo = {}
<1>1. join' \in [Task -> Join]
  BY DEF PresenceTypeOK
<1>2. \A u \in Task : join'[u] = IF u = t THEN r ELSE join[u]
  BY DEF PresenceTypeOK
<1>3. NoJoin.pc = "idle" /\ NoJoin.player = None /\ NoJoin.found = {} /\ NoJoin.todo = {}
  BY DEF NoJoin, At
<1> QED
  BY <1>1, <1>2, <1>3, NoneAssumption DEF PresenceTypeOK, TasksOK

\* What the two loops of a join leave behind.
LEMMA LoopTyped ==
  ASSUME PresenceTypeOK, TasksOK, NEW p \in Player, NEW t \in Task, NEW q \in Player,
         Create(p, t, q) \/ Find(p, t, q)
  PROVE  \E r \in Join :
           /\ join' = [join EXCEPT ![t] = r]
           /\ r.pc = join[t].pc /\ r.player = p /\ r.todo = join[t].todo \ {q}
           /\ r.found = join[t].found \union IF Find(p, t, q) /\ q \in known THEN {q} ELSE {}
<1> DEFINE c == [join[t] EXCEPT !.todo = @ \ {q}]
<1>0. join[t] \in Join
  BY DEF PresenceTypeOK
<1>1. CASE Create(p, t, q)
  <2>1. c \in Join
    BY <1>0 DEF Join
  <2>2. join' = [join EXCEPT ![t] = c]
    BY <1>1 DEF Create, PresenceTypeOK
  <2>3. c.pc = "create" /\ ~ Find(p, t, q)
    BY <1>0, <1>1 DEF Create, Find, Join
  <2> QED
    BY <1>0, <1>1, <2>1, <2>2, <2>3 DEF Create, Join
<1>2. CASE Find(p, t, q)
  <2>1. c \in Join /\ c.pc = join[t].pc /\ c.player = join[t].player
        /\ c.todo = join[t].todo \ {q} /\ c.found = join[t].found
    BY <1>0 DEF Join
  <2> HIDE DEF c
  <2> DEFINE g == [c EXCEPT !.found = IF q \in known THEN join[t].found \union {q} ELSE join[t].found]
  <2>2. g \in Join /\ g.pc = c.pc /\ g.player = c.player /\ g.todo = c.todo
        /\ g.found = join[t].found \union IF q \in known THEN {q} ELSE {}
    BY <1>0, <2>1 DEF Join
  <2>3. join' = [join EXCEPT ![t] = g]
    BY <1>2 DEF Find, PresenceTypeOK, c
  <2> HIDE DEF g
  <2>4. join[t].player = p
    BY <1>2 DEF Find
  <2> QED
    BY <1>2, <2>1, <2>2, <2>3, <2>4
<1> QED
  BY <1>1, <1>2

\* Every step keeps the types.
LEMMA TypesStep ==
  ASSUME PresenceTypeOK, TasksOK, [Next]_vars
  PROVE  PresenceTypeOK' /\ TasksOK'
<1> USE NoneAssumption
<1>1. ASSUME NEW p \in Player, NEW t \in Task, Connect(p, t)
      PROVE  PresenceTypeOK' /\ TasksOK'
  <2>1. At(p, "insert", {}) \in Join /\ At(p, "insert", {}).player = p
        /\ At(p, "insert", {}).pc = "insert" /\ At(p, "insert", {}).found = {} /\ At(p, "insert", {}).todo = {}
    BY AtTyped DEF At
  <2> QED
    BY <1>1, <2>1, GoTyped DEF Connect, PresenceTypeOK, TasksOK
<1>2. ASSUME NEW p \in Player, Close(p)
      PROVE  PresenceTypeOK' /\ TasksOK'
  BY <1>2 DEF Close, PresenceTypeOK, TasksOK, Leave
<1>3. ASSUME NEW p \in Player, NEW t \in Task, Insert(p, t)
      PROVE  PresenceTypeOK' /\ TasksOK'
  <2>1. At(p, "create", Others(p)) \in Join /\ At(p, "create", Others(p)).player = p
        /\ At(p, "create", Others(p)).pc = "create" /\ At(p, "create", Others(p)).found = {}
        /\ p \notin At(p, "create", Others(p)).todo
    BY AtTyped DEF At, Others
  <2> QED
    BY <1>3, <2>1, GoTyped DEF Insert, PresenceTypeOK, TasksOK
<1>4. ASSUME NEW p \in Player, NEW t \in Task, Created(p, t)
      PROVE  PresenceTypeOK' /\ TasksOK'
  <2>1. At(p, "existing", Others(p)) \in Join /\ At(p, "existing", Others(p)).player = p
        /\ At(p, "existing", Others(p)).pc = "existing" /\ At(p, "existing", Others(p)).found = {}
        /\ p \notin At(p, "existing", Others(p)).todo
    BY AtTyped DEF At, Others
  <2> QED
    BY <1>4, <2>1, GoTyped DEF Created, PresenceTypeOK, TasksOK
<1>5. ASSUME NEW p \in Player, NEW t \in Task, Introduce(p, t)
      PROVE  PresenceTypeOK' /\ TasksOK'
  <2>1. p \notin join[t].found /\ join[t].found \subseteq Player
    BY <1>5 DEF Introduce, PresenceTypeOK, Join
  <2> QED
    BY <1>5, <2>1, IdleTyped, GoTyped DEF Introduce, PresenceTypeOK, TasksOK
<1>6. ASSUME NEW p \in Player, NEW t \in Task, NEW q \in Player, Create(p, t, q) \/ Find(p, t, q)
      PROVE  PresenceTypeOK' /\ TasksOK'
  <2>1. PICK r \in Join :
           /\ join' = [join EXCEPT ![t] = r]
           /\ r.pc = join[t].pc /\ r.player = p /\ r.todo = join[t].todo \ {q}
           /\ r.found = join[t].found \union IF Find(p, t, q) /\ q \in known THEN {q} ELSE {}
    BY <1>6, LoopTyped
  <2>2. join[t].pc # "idle" /\ q \in join[t].todo /\ join[t].player = p
    BY <1>6 DEF Create, Find
  <2>3. q # p /\ r.pc # "idle" /\ r.player \in Player \ (r.todo \union r.found)
    BY <2>1, <2>2 DEF PresenceTypeOK
  <2>4. /\ screen' \in [Player -> SUBSET Player]
        /\ \A v \in Player : v \notin screen'[v]
    BY <1>6, <2>3 DEF Create, Find, PresenceTypeOK
  <2>5. UNCHANGED <<live, known, leave, raced>>
    BY <1>6 DEF Create, Find
  <2> QED
    BY <2>1, <2>3, <2>4, <2>5, GoTyped DEF PresenceTypeOK, TasksOK
<1>7. ASSUME NEW p \in Player, Remove(p)
      PROVE  PresenceTypeOK' /\ TasksOK'
  <2>1. [pc |-> "tell", todo |-> Others(p)] \in Leave /\ p \notin Others(p)
    BY DEF Leave, Others
  <2>2. leave' \in [Player -> Leave] /\ \A v \in Player : v \notin leave'[v].todo
    BY <1>7, <2>1, IdleTyped DEF Remove, PresenceTypeOK, NoLeave
  <2>3. raced' \subseteq Player \X Player
    BY <1>7 DEF Remove, PresenceTypeOK
  <2>4. p \notin live
    BY <1>7 DEF Remove, TasksOK, NoLeave
  <2> QED
    BY <1>7, <2>2, <2>3, <2>4 DEF Remove, PresenceTypeOK, TasksOK
<1>8. ASSUME NEW p \in Player, NEW q \in Player, Tell(p, q)
      PROVE  PresenceTypeOK' /\ TasksOK'
  <2>1. p \notin live
    BY <1>8 DEF Tell, TasksOK, NoLeave
  <2>2. [leave[p] EXCEPT !.todo = @ \ {q}] \in Leave
    BY <1>8 DEF PresenceTypeOK, Leave
  <2>3. leave' \in [Player -> Leave] /\ \A v \in Player : v \notin leave'[v].todo
    BY <1>8, <2>2 DEF Tell, PresenceTypeOK, Leave
  <2>4. screen' \in [Player -> SUBSET Player] /\ \A v \in Player : v \notin screen'[v]
    BY <1>8 DEF Tell, PresenceTypeOK
  <2> QED
    BY <1>8, <2>1, <2>3, <2>4 DEF Tell, PresenceTypeOK, TasksOK
<1>9. ASSUME NEW p \in Player, Recycle(p)
      PROVE  PresenceTypeOK' /\ TasksOK'
  BY <1>9, IdleTyped DEF Recycle, PresenceTypeOK, TasksOK, NoLeave
<1>10. CASE UNCHANGED vars
  BY <1>10 DEF vars, PresenceTypeOK, TasksOK
<1> QED
  BY <1>1, <1>2, <1>3, <1>4, <1>5, <1>6, <1>7, <1>8, <1>9, <1>10 DEF Next, JoinStep, LeaveStep

-----------------------------------------------------------------------------
(* Each of two entered players is shown to the other, or will be. *)

Pending(p, q) ==
  p \in screen[q] \/ Starting(p) \/ Starting(q) \/ Announces(p, q) \/ LooksUp(q, p)

\* Who is still to be told does not change with the steps of other tasks.
LEMMA PendingKept ==
  ASSUME PresenceTypeOK, NEW p \in Player, NEW q \in Player, Pending(p, q),
         NEW t \in Task, join[t].player \notin {p, q},
         \A u \in Task \ {t} : join'[u] = join[u],
         p \in screen[q] => p \in screen'[q]
  PROVE  Pending(p, q)'
<1>1. \A u \in Task : join[u].player \in {p, q} => u # t
  OBVIOUS
<1> QED
  BY <1>1 DEF Pending, Starting, Announces, LooksUp

\* Nor does it with a step that is none of a join, or takes nothing back.
LEMMA PendingWithoutJoin ==
  ASSUME NEW p \in Player, NEW q \in Player, Pending(p, q), join' = join,
         p \in screen[q] => p \in screen'[q]
  PROVE  Pending(p, q)'
BY DEF Pending, Starting, Announces, LooksUp

LEMMA SeenStep ==
  ASSUME PresenceTypeOK, TasksOK, SeenOrPending, [Next]_vars
  PROVE  SeenOrPending'
<1> SUFFICES ASSUME NEW p \in live' \intersect known', NEW q \in live' \intersect known', p # q
             PROVE  Pending(p, q)'
  BY DEF SeenOrPending, Pending
<1>0. p \in Player /\ q \in Player
  BY TypesStep DEF PresenceTypeOK
<1>a. p \in live \intersect known /\ q \in live \intersect known => Pending(p, q)
  BY DEF SeenOrPending, Pending
<1>1. ASSUME NEW v \in Player, NEW t \in Task, Connect(v, t)
      PROVE  Pending(p, q)'
  <2>1. join'[t].player = v /\ join'[t].pc = "insert"
    BY <1>1 DEF Connect, At, PresenceTypeOK
  <2>2. CASE v \in {p, q}
    BY <2>1, <2>2 DEF Pending, Starting
  <2>3. CASE v \notin {p, q}
    <3>1. p \in live \intersect known /\ q \in live \intersect known
      BY <1>1, <2>3 DEF Connect
    <3>2. join[t].player = None /\ None \notin {p, q}
      BY <1>0, <1>1, NoneAssumption DEF Connect, NoJoin, At
    <3>3. p \in screen[q] => p \in screen'[q]
      BY <1>0, <1>1, <2>3 DEF Connect, PresenceTypeOK
    <3>4. \A u \in Task \ {t} : join'[u] = join[u]
      BY <1>1 DEF Connect, PresenceTypeOK
    <3> QED
      BY <1>0, <1>a, <3>1, <3>2, <3>3, <3>4, PendingKept
  <2> QED
    BY <2>2, <2>3
<1>2. ASSUME NEW v \in Player, Close(v)
      PROVE  Pending(p, q)'
  BY <1>0, <1>a, <1>2, PendingWithoutJoin DEF Close
<1>3. ASSUME NEW v \in Player, NEW t \in Task, Insert(v, t)
      PROVE  Pending(p, q)'
  <2>1. /\ join'[t].player = v /\ join'[t].pc = "create" /\ join'[t].todo = Others(v)
        /\ \A u \in Task \ {t} : join'[u] = join[u]
    BY <1>3 DEF Insert, At, PresenceTypeOK
  <2>2. CASE v = p
    <3>1. q \in Others(v)
      BY <1>0, <2>2 DEF Others
    <3> QED
      BY <2>1, <2>2, <3>1 DEF Pending, Announces
  <2>3. CASE v = q
    BY <2>1, <2>3 DEF Pending, LooksUp
  <2>4. CASE v \notin {p, q}
    BY <1>0, <1>a, <1>3, <2>1, <2>4, PendingKept DEF Insert
  <2> QED
    BY <2>2, <2>3, <2>4
<1>4. ASSUME NEW v \in Player, NEW t \in Task, Created(v, t)
      PROVE  Pending(p, q)'
  <2>1. /\ join'[t].player = v /\ join'[t].pc = "existing" /\ join'[t].todo = Others(v)
        /\ \A u \in Task \ {t} : join'[u] = join[u]
        /\ join[t].player = v /\ join[t].pc = "create" /\ join[t].todo = {}
        /\ screen' = screen
    BY <1>4 DEF Created, At, PresenceTypeOK
  <2>2. Pending(p, q)
    BY <1>a, <1>4 DEF Created
  <2>3. CASE v = q
    <3>1. p \in Others(v)
      BY <1>0, <2>3 DEF Others
    <3> QED
      BY <2>1, <2>3, <3>1 DEF Pending, LooksUp
  <2>4. CASE v = p
    BY <2>1, <2>2, <2>4 DEF Pending, Starting, Announces, LooksUp
  <2>5. CASE v \notin {p, q}
    BY <1>0, <2>1, <2>2, <2>5, PendingKept
  <2> QED
    BY <2>3, <2>4, <2>5
<1>5. ASSUME NEW v \in Player, NEW t \in Task, Introduce(v, t)
      PROVE  Pending(p, q)'
  <2>1. /\ \A u \in Task \ {t} : join'[u] = join[u]
        /\ join[t].player = v /\ join[t].pc = "existing" /\ join[t].todo = {}
        /\ p \in screen[q] => p \in screen'[q]
    BY <1>0, <1>5 DEF Introduce, PresenceTypeOK
  <2>2. Pending(p, q)
    BY <1>a, <1>5 DEF Introduce
  <2>3. CASE v = q
    <3>1. p \in join[t].found => p \in screen'[q]
      BY <1>0, <1>5, <2>3 DEF Introduce, PresenceTypeOK
    <3> QED
      BY <2>1, <2>2, <2>3, <3>1 DEF Pending, Starting, Announces, LooksUp
  <2>4. CASE v = p
    BY <2>1, <2>2, <2>4 DEF Pending, Starting, Announces, LooksUp
  <2>5. CASE v \notin {p, q}
    BY <1>0, <2>1, <2>2, <2>5, PendingKept
  <2> QED
    BY <2>3, <2>4, <2>5
<1>6. ASSUME NEW v \in Player, NEW t \in Task, NEW w \in Player, Create(v, t, w) \/ Find(v, t, w)
      PROVE  Pending(p, q)'
  <2>1. PICK r \in Join :
           /\ join' = [join EXCEPT ![t] = r]
           /\ r.pc = join[t].pc /\ r.player = v /\ r.todo = join[t].todo \ {w}
           /\ r.found = join[t].found \union IF Find(v, t, w) /\ w \in known THEN {w} ELSE {}
    BY <1>6, LoopTyped
  <2>2. /\ \A u \in Task \ {t} : join'[u] = join[u]
        /\ join'[t] = r /\ join[t].player = v
        /\ p \in screen[q] => p \in screen'[q]
    BY <1>0, <1>6, <2>1 DEF Create, Find, PresenceTypeOK
  <2>3. p \in live \intersect known /\ q \in live \intersect known /\ Pending(p, q)
    BY <1>a, <1>6 DEF Create, Find
  <2>4. CASE v \notin {p, q}
    BY <1>0, <2>2, <2>3, <2>4, PendingKept
  <2>5. ASSUME v = p, Create(v, t, w), w = q
        PROVE  p \in screen'[q]
    BY <1>0, <2>3, <2>5 DEF Create, Visited, PresenceTypeOK
  <2>6. CASE v = p
    <3>1. Starting(p) => Starting(p)'
      BY <2>1, <2>2 DEF Starting
    <3>2. Starting(q) => Starting(q)'
      BY <2>2, <2>6 DEF Starting
    <3>3. LooksUp(q, p) => LooksUp(q, p)'
      BY <2>2, <2>6 DEF LooksUp
    <3>4. Announces(p, q) => Announces(p, q)' \/ p \in screen'[q]
      BY <1>6, <2>1, <2>2, <2>5, <2>6 DEF Announces, Find
    <3> QED
      BY <2>2, <2>3, <3>1, <3>2, <3>3, <3>4 DEF Pending
  <2>7. CASE v = q
    <3>1. Starting(p) => Starting(p)'
      BY <2>2, <2>7 DEF Starting
    <3>2. Starting(q) => Starting(q)'
      BY <2>1, <2>2 DEF Starting
    <3>3. Announces(p, q) => Announces(p, q)'
      BY <2>2, <2>7 DEF Announces
    <3>4. Find(v, t, w) \/ join[t].pc = "create"
      BY <1>6 DEF Create
    <3>5. LooksUp(q, p) => LooksUp(q, p)'
      BY <2>1, <2>2, <2>3, <2>7, <3>4 DEF LooksUp
    <3> QED
      BY <2>2, <2>3, <3>1, <3>2, <3>3, <3>5 DEF Pending
  <2> QED
    BY <2>4, <2>6, <2>7
<1>7. ASSUME NEW v \in Player, Remove(v)
      PROVE  Pending(p, q)'
  BY <1>0, <1>a, <1>7, PendingWithoutJoin DEF Remove
<1>8. ASSUME NEW v \in Player, NEW w \in Player, Tell(v, w)
      PROVE  Pending(p, q)'
  <2>1. v \notin live
    BY <1>8 DEF Tell, TasksOK, NoLeave
  <2>2. v # p
    BY <1>8, <2>1 DEF Tell
  <2>3. p \in screen[q] => p \in screen'[q]
    BY <1>0, <1>8, <2>2 DEF Tell, PresenceTypeOK
  <2> QED
    BY <1>0, <1>a, <1>8, <2>3, PendingWithoutJoin DEF Tell
<1>9. ASSUME NEW v \in Player, Recycle(v)
      PROVE  Pending(p, q)'
  BY <1>0, <1>a, <1>9, PendingWithoutJoin DEF Recycle
<1>10. CASE UNCHANGED vars
  BY <1>0, <1>a, <1>10, PendingWithoutJoin DEF vars
<1> QED
  BY <1>1, <1>2, <1>3, <1>4, <1>5, <1>6, <1>7, <1>8, <1>9, <1>10 DEF Next, JoinStep, LeaveStep

-----------------------------------------------------------------------------
(* A ghost has an excuse, or is still being revoked. *)

\* A step of a join that enters nobody and finds only who is entered.
LEMMA GhostsKept ==
  ASSUME PresenceTypeOK, TasksOK, GhostsPending,
         UNCHANGED <<known, live, leave, raced>>,
         NEW t \in Task, NEW r \in Join, join' = [join EXCEPT ![t] = r],
         join[t].pc # "insert", r.pc # "insert",
         r.pc = "create" => join[t].pc = "create" /\ r.player = join[t].player,
         \A p \in r.found : p \in known \/ (p \in join[t].found /\ r.player = join[t].player),
         \A q \in live : \A p \in screen'[q] : p \in screen[q] \/ Excused(p, q)
  PROVE  GhostsPending'
<1>1. \A u \in Task : join'[u] = IF u = t THEN r ELSE join[u]
  BY DEF PresenceTypeOK
<1>2. \A q \in live' : q \in known' \/ Starting(q)'
  BY <1>1 DEF GhostsPending, Starting
<1>3. \A q \in live' : \A p \in screen'[q] : Excused(p, q)' \/ Revokes(p, q)'
  BY DEF GhostsPending, Excused, Revokes
<1>4. \A u \in Task : \A p \in join'[u].found : p \in known' \/ <<p, join'[u].player>> \in raced'
  BY <1>1 DEF GhostsPending, Excused
<1>5. \A u \in Task : join'[u].pc = "create" =>
        \A q \in Player : join'[u].player \in known' \/ <<join'[u].player, q>> \in raced'
  BY <1>1 DEF GhostsPending, Excused
<1> QED
  BY <1>2, <1>3, <1>4, <1>5 DEF GhostsPending, Excused

LEMMA GhostStep ==
  ASSUME PresenceTypeOK, TasksOK, GhostsPending, [Next]_vars
  PROVE  GhostsPending'
<1>1. ASSUME NEW v \in Player, NEW t \in Task, Connect(v, t)
      PROVE  GhostsPending'
  <2>1. /\ \A u \in Task \ {t} : join'[u] = join[u]
        /\ join'[t].player = v /\ join'[t].pc = "insert" /\ join'[t].found = {}
        /\ join[t].pc = "idle"
    BY <1>1 DEF Connect, At, NoJoin, PresenceTypeOK
  <2>2. UNCHANGED <<known, leave, raced>> /\ live' = live \union {v}
    BY <1>1 DEF Connect
  <2>3. \A q \in Player : screen'[q] = IF q = v THEN {} ELSE screen[q]
    BY <1>1 DEF Connect, PresenceTypeOK
  <2>4. \A q \in live' : q \in known' \/ Starting(q)'
    BY <2>1, <2>2 DEF GhostsPending, Starting
  <2>5. \A q \in live' : \A p \in screen'[q] : Excused(p, q)' \/ Revokes(p, q)'
    BY <2>2, <2>3 DEF GhostsPending, Excused, Revokes, PresenceTypeOK
  <2> QED
    BY <2>1, <2>2, <2>4, <2>5 DEF GhostsPending, Excused
<1>2. ASSUME NEW v \in Player, Close(v)
      PROVE  GhostsPending'
  <2>1. UNCHANGED <<known, join, screen, raced>> /\ live' = live \ {v}
    BY <1>2 DEF Close
  <2>2. \A p \in Player : p # v => leave'[p] = leave[p]
    BY <1>2 DEF Close, PresenceTypeOK
  <2>3. leave[v].pc # "tell"
    BY <1>2 DEF Close, TasksOK, NoLeave
  <2>4. \A q \in live : screen[q] \subseteq Player
    BY DEF PresenceTypeOK
  <2>5. \A q \in live : \A p \in screen[q] : Revokes(p, q) => Revokes(p, q)'
    BY <2>1, <2>2, <2>3, <2>4 DEF Revokes
  <2> QED
    BY <2>1, <2>5 DEF GhostsPending, Excused, Starting
<1>3. ASSUME NEW v \in Player, NEW t \in Task, Insert(v, t)
      PROVE  GhostsPending'
  <2>1. /\ \A u \in Task \ {t} : join'[u] = join[u]
        /\ join'[t].player = v /\ join'[t].pc = "create" /\ join'[t].found = {}
    BY <1>3 DEF Insert, At, PresenceTypeOK
  <2>2. UNCHANGED <<live, leave, screen>> /\ known' = known \union {v}
        /\ raced' = {r \in raced : r[1] # v} /\ join[t].player = v
    BY <1>3 DEF Insert
  <2>3. \A p, q : Excused(p, q) => p \in known' \/ <<p, q>> \in raced'
    BY <2>2 DEF Excused
  <2>4. \A q \in live' : q \in known' \/ Starting(q)'
    BY <2>1, <2>2 DEF GhostsPending, Starting
  <2>5. \A q \in live' : \A p \in screen'[q] : Excused(p, q)' \/ Revokes(p, q)'
    BY <2>2, <2>3 DEF GhostsPending, Excused, Revokes
  <2> QED
    BY <2>1, <2>2, <2>3, <2>4, <2>5 DEF GhostsPending, Excused
<1>4. ASSUME NEW v \in Player, NEW t \in Task, Created(v, t)
      PROVE  GhostsPending'
  <2>1. /\ At(v, "existing", Others(v)) \in Join /\ At(v, "existing", Others(v)).pc = "existing"
        /\ At(v, "existing", Others(v)).found = {}
    BY AtTyped DEF At, Others
  <2> QED
    BY <1>4, <2>1, GhostsKept DEF Created
<1>5. ASSUME NEW v \in Player, NEW t \in Task, Introduce(v, t)
      PROVE  GhostsPending'
  <2>1. NoJoin.pc = "idle" /\ NoJoin.found = {}
    BY DEF NoJoin, At
  <2>2. \A q \in live : \A p \in screen'[q] : p \in screen[q] \/ Excused(p, q)
    BY <1>5 DEF Introduce, PresenceTypeOK, GhostsPending
  <2> QED
    BY <1>5, <2>1, <2>2, IdleTyped, GhostsKept DEF Introduce
<1>6. ASSUME NEW v \in Player, NEW t \in Task, NEW w \in Player, Create(v, t, w) \/ Find(v, t, w)
      PROVE  GhostsPending'
  <2>1. PICK r \in Join :
           /\ join' = [join EXCEPT ![t] = r]
           /\ r.pc = join[t].pc /\ r.player = v /\ r.todo = join[t].todo \ {w}
           /\ r.found = join[t].found \union IF Find(v, t, w) /\ w \in known THEN {w} ELSE {}
    BY <1>6, LoopTyped
  <2>2. /\ join[t].player = v /\ join[t].pc \in {"create", "existing"}
        /\ UNCHANGED <<known, live, leave, raced>>
    BY <1>6 DEF Create, Find
  <2>3. \A q \in live : \A p \in screen'[q] : p \in screen[q] \/ Excused(p, q)
    BY <1>6, <2>2 DEF Create, Find, PresenceTypeOK, GhostsPending
  <2>4. \A p \in r.found : p \in known \/ (p \in join[t].found /\ r.player = join[t].player)
    BY <2>1, <2>2
  <2> QED
    BY <2>1, <2>2, <2>3, <2>4, GhostsKept
<1>7. ASSUME NEW v \in Player, Remove(v)
      PROVE  GhostsPending'
  <2>1. UNCHANGED <<live, join, screen>> /\ known' = known \ {v} /\ v \notin live
        /\ leave[v].pc = "remove"
    BY <1>7 DEF Remove, TasksOK, NoLeave
  <2>2. \A p \in Player : p # v => leave'[p] = leave[p]
    BY <1>7 DEF Remove, PresenceTypeOK
  <2>3. \A p, q : Excused(p, q) => p = v \/ p \in known' \/ <<p, q>> \in raced'
    BY <1>7, <2>1 DEF Remove, Excused
  <2>4. ASSUME NEW q \in Player, Excused(v, q), Joining(v) \/ Joining(q)
        PROVE  <<v, q>> \in raced'
    BY <1>7, <2>4 DEF Remove, Excused
  <2>5. \A q \in live' : q \in known' \/ Starting(q)'
    BY <2>1 DEF GhostsPending, Starting
  <2>6. ASSUME NEW q \in live', NEW p \in screen'[q]
        PROVE  Excused(p, q)' \/ Revokes(p, q)'
    <3>1. q \in live /\ q \in Player /\ p \in screen[q] /\ p \in Player /\ q # v
      BY <2>1, <2>6 DEF PresenceTypeOK
    <3>2. q \in known => q \in known'
      BY <2>1, <3>1
    <3>3. CASE p # v
      BY <2>2, <2>3, <3>1, <3>2, <3>3 DEF GhostsPending, Excused, Revokes
    <3>4. CASE p = v /\ q \notin known
      <4>1. Joining(q)
        BY <3>1, <3>4 DEF GhostsPending, Starting, Joining
      <4>2. Excused(v, q)
        BY <2>1, <3>1, <3>4 DEF GhostsPending, Revokes
      <4> QED
        BY <2>4, <3>1, <3>4, <4>1, <4>2 DEF Excused
    <3>5. CASE p = v /\ q \in known /\ v \in known
      <4>1. leave'[v] = [pc |-> "tell", todo |-> Others(v)]
        BY <1>7, <3>5 DEF Remove, PresenceTypeOK
      <4> QED
        BY <3>1, <3>2, <3>5, <4>1 DEF Revokes, Others
    <3>6. CASE p = v /\ v \notin known
      BY <1>7, <2>1, <3>1, <3>6 DEF Remove, GhostsPending, Excused, Revokes
    <3> QED
      BY <3>3, <3>4, <3>5, <3>6
  <2>7. ASSUME NEW u \in Task, NEW p \in join'[u].found
        PROVE  p \in known' \/ <<p, join'[u].player>> \in raced'
    <3>1. join[u].player \in Player /\ Excused(p, join[u].player)
      BY <2>1, <2>7 DEF PresenceTypeOK, TasksOK, GhostsPending
    <3>2. Joining(join[u].player)
      BY DEF Joining
    <3> QED
      BY <2>1, <2>3, <2>4, <3>1, <3>2
  <2>8. ASSUME NEW u \in Task, join'[u].pc = "create", NEW q \in Player
        PROVE  join'[u].player \in known' \/ <<join'[u].player, q>> \in raced'
    <3>1. Excused(join[u].player, q)
      BY <2>1, <2>8 DEF GhostsPending
    <3>2. Joining(join[u].player)
      BY DEF Joining
    <3> QED
      BY <2>1, <2>3, <2>4, <3>1, <3>2
  <2> QED
    BY <2>5, <2>6, <2>7, <2>8 DEF GhostsPending, Excused
<1>8. ASSUME NEW v \in Player, NEW w \in Player, Tell(v, w)
      PROVE  GhostsPending'
  <2>1. UNCHANGED <<live, known, join, raced>>
    BY <1>8 DEF Tell
  <2>2. /\ \A p \in Player : p # v => leave'[p] = leave[p]
        /\ leave'[v].pc = "tell" /\ leave'[v].todo = leave[v].todo \ {w}
    BY <1>8 DEF Tell, PresenceTypeOK, Leave
  <2>3. ASSUME NEW q \in live', NEW p \in screen'[q]
        PROVE  Excused(p, q)' \/ Revokes(p, q)'
    <3>1. q \in live /\ p \in screen[q] /\ p \in Player /\ (Excused(p, q) \/ Revokes(p, q))
      BY <1>8, <2>1, <2>3 DEF Tell, PresenceTypeOK, GhostsPending
    <3>2. CASE Excused(p, q)
      BY <2>1, <3>2 DEF Excused
    <3>3. CASE Revokes(p, q) /\ p = v /\ q = w
      <4>1. p \notin screen'[q]
        BY <1>8, <3>1, <3>3 DEF Tell, Visited, Revokes, PresenceTypeOK
      <4> QED
        BY <2>3, <4>1
    <3>4. CASE Revokes(p, q) /\ ~ (p = v /\ q = w)
      BY <2>1, <2>2, <3>1, <3>4 DEF Revokes
    <3> QED
      BY <3>1, <3>2, <3>3, <3>4
  <2> QED
    BY <2>1, <2>3 DEF GhostsPending, Excused, Starting
<1>9. ASSUME NEW v \in Player, Recycle(v)
      PROVE  GhostsPending'
  <2>1. UNCHANGED <<live, known, join, screen, raced>> /\ leave[v].todo = {}
    BY <1>9 DEF Recycle
  <2>2. \A p \in Player : p # v => leave'[p] = leave[p]
    BY <1>9 DEF Recycle, PresenceTypeOK
  <2>3. \A q \in live : screen[q] \subseteq Player
    BY DEF PresenceTypeOK
  <2>4. \A q \in live : \A p \in screen[q] : Revokes(p, q) => Revokes(p, q)'
    BY <2>1, <2>2, <2>3 DEF Revokes
  <2> QED
    BY <2>1, <2>4 DEF GhostsPending, Excused, Starting
<1>10. CASE UNCHANGED vars
  BY <1>10 DEF vars, GhostsPending, Excused, Revokes, Starting
<1> QED
  BY <1>1, <1>2, <1>3, <1>4, <1>5, <1>6, <1>7, <1>8, <1>9, <1>10 DEF Next, JoinStep, LeaveStep

-----------------------------------------------------------------------------
(* The theorems. *)

\* The invariant holds of every behaviour.
THEOREM Invariance == Spec => []IInv
<1>1. Init => IInv
  BY TypesInit DEF Init, IInv, SeenOrPending, GhostsPending, NoJoin, At
<1>2. IInv /\ [Next]_vars => IInv'
  BY TypesStep, SeenStep, GhostStep DEF IInv
<1> QED
  BY <1>1, <1>2, PTL DEF Spec

\* The tables and the tasks keep their types, and nobody is told of itself.
THEOREM PresenceTypes == Spec => []PresenceTypeOK
<1>1. IInv => PresenceTypeOK
  BY DEF IInv
<1> QED
  BY <1>1, Invariance, PTL

\* Whoever is connected and entered is seen by all who are, once the joins are over.
THEOREM EveryoneSeen == Spec => []NoneUnseen
<1>1. IInv => NoneUnseen
  <2> SUFFICES ASSUME IInv, NEW p \in live \intersect known, NEW q \in live \intersect known,
                      p # q, Settled(p), Settled(q)
               PROVE  p \in screen[q]
    BY DEF NoneUnseen
  <2>1. ~ Starting(p) /\ ~ Starting(q) /\ ~ Announces(p, q) /\ ~ LooksUp(q, p)
    BY DEF Settled, Joining, Starting, Announces, LooksUp
  <2> QED
    BY <2>1 DEF IInv, SeenOrPending
<1> QED
  BY <1>1, Invariance, PTL

\* Whoever is seen without being entered left while one of the two was joining.
THEOREM GhostsExcused == Spec => []GhostsRaced
<1>1. IInv => GhostsRaced
  <2> SUFFICES ASSUME IInv, NEW q \in live, NEW p \in screen[q], Settled(p)
               PROVE  Excused(p, q)
    BY DEF GhostsRaced, Excused
  <2>1. ~ Revokes(p, q)
    BY DEF Settled, NoLeave, Revokes
  <2> QED
    BY <2>1 DEF IInv, GhostsPending
<1> QED
  BY <1>1, Invariance, PTL
=============================================================================
