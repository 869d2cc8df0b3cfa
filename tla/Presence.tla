------------------------------ MODULE Presence ------------------------------
(****************************************************************************)
(* Who is shown to whom. A player that is accepted is entered in            *)
(* authenticated_peers, announced to all others (CREATE_REMOTE_PLAYER), and *)
(* sent the ones it found there; one that leaves is taken out and then      *)
(* revoked (DISCONNECTION). Both run as tasks, and broadcast visits the     *)
(* players one after the other, so that joins and leaves overlap, also with *)
(* those of an earlier connection under the same id.                        *)
(*                                                                          *)
(* The messages of a player are taken as handled in the order in which the  *)
(* server queues them. That an id is given out again only after it was      *)
(* recycled is what PeerTable shows.                                        *)
(****************************************************************************)

CONSTANTS
  Player,    \* peer ids
  Task,      \* tasks that run finalize_accept; bounds how many run at once
  None       \* no player

ASSUME NoneAssumption == None \notin Player

VARIABLES
  live,      \* transport.peers: the connections
  known,     \* authenticated_peers
  join,      \* what each task is at in finalize_accept
  leave,     \* what the task is at that handles the PeerDisconnected of a player
  screen,    \* the players that each client was told to show
  raced      \* history: <<p, q>> when p was taken out while p or q was still joining

vars == <<live, known, join, leave, screen, raced>>

\* todo: whom the loop that is running has still to visit; found: whom the new
\* player is to be told of.
Join == [player : Player \union {None}, pc : {"idle", "insert", "create", "existing"},
         todo : SUBSET Player, found : SUBSET Player]
Leave == [pc : {"idle", "remove", "tell"}, todo : SUBSET Player]

At(p, pc, todo) == [player |-> p, pc |-> pc, todo |-> todo, found |-> {}]
NoJoin  == At(None, "idle", {})
NoLeave == [pc |-> "idle", todo |-> {}]

Others(p)  == Player \ {p}
Joining(p) == \E t \in Task : join[t].player = p

Init ==
  /\ live = {} /\ known = {}
  /\ join = [t \in Task |-> NoJoin]
  /\ leave = [p \in Player |-> NoLeave]
  /\ screen = [p \in Player |-> {}]
  /\ raced = {}

\* broadcast visits q: only a player in the table is sent to, and a message for
\* one without a connection goes nowhere.
Visited(q) == q \in known /\ q \in live

-----------------------------------------------------------------------------
(* The transport: connections begin with an id that was recycled, and end. *)

Connect(p, t) ==
  /\ p \notin live /\ leave[p] = NoLeave /\ join[t] = NoJoin
  /\ live' = live \union {p}
  /\ join' = [join EXCEPT ![t] = At(p, "insert", {})]
  /\ screen' = [screen EXCEPT ![p] = {}]
  /\ UNCHANGED <<known, leave, raced>>

Close(p) ==
  /\ p \in live
  /\ live' = live \ {p}
  /\ leave' = [leave EXCEPT ![p] = [pc |-> "remove", todo |-> {}]]
  /\ UNCHANGED <<known, join, screen, raced>>

-----------------------------------------------------------------------------
(* finalize_accept for p *)

Insert(p, t) ==
  /\ join[t].player = p /\ join[t].pc = "insert"
  /\ known' = known \union {p}
  /\ join' = [join EXCEPT ![t] = At(p, "create", Others(p))]
  /\ raced' = {r \in raced : r[1] # p}
  /\ UNCHANGED <<live, leave, screen>>

\* broadcast of CREATE_REMOTE_PLAYER
Create(p, t, q) ==
  /\ join[t].player = p /\ join[t].pc = "create" /\ q \in join[t].todo
  /\ join' = [join EXCEPT ![t].todo = @ \ {q}]
  /\ screen' = IF Visited(q) THEN [screen EXCEPT ![q] = @ \union {p}] ELSE screen
  /\ UNCHANGED <<live, known, leave, raced>>

Created(p, t) ==
  /\ join[t].player = p /\ join[t].pc = "create" /\ join[t].todo = {}
  /\ join' = [join EXCEPT ![t] = At(p, "existing", Others(p))]
  /\ UNCHANGED <<live, known, leave, screen, raced>>

\* Mutant: players that are still joining themselves are passed over.
FindSettled(p, t, q) ==
  /\ join[t].player = p /\ join[t].pc = "existing" /\ q \in join[t].todo
  /\ join' = [join EXCEPT ![t].todo = @ \ {q},
       ![t].found = IF q \in known /\ ~ Joining(q) THEN @ \union {q} ELSE @]
  /\ UNCHANGED <<live, known, leave, screen, raced>>

Find(p, t, q) ==
  /\ join[t].player = p /\ join[t].pc = "existing" /\ q \in join[t].todo
  /\ join' = [join EXCEPT ![t].todo = @ \ {q},
       ![t].found = IF q \in known THEN @ \union {q} ELSE @]
  /\ UNCHANGED <<live, known, leave, screen, raced>>

\* send_many of CREATE_REMOTE_PLAYERS_FOR_NEW_PEER: one after the other into the
\* queue of p, which for what p sees of each is the same as at once.
Introduce(p, t) ==
  /\ join[t].player = p /\ join[t].pc = "existing" /\ join[t].todo = {}
  /\ join' = [join EXCEPT ![t] = NoJoin]
  /\ screen' = IF p \in live THEN [screen EXCEPT ![p] = @ \union join[t].found] ELSE screen
  /\ UNCHANGED <<live, known, leave, raced>>

-----------------------------------------------------------------------------
(* handle_disconnect *)

\* Mutant: the others are told only of a player that still has its connection.
RemoveUntold(p) ==
  /\ leave[p].pc = "remove"
  /\ known' = known \ {p}
  /\ leave' = [leave EXCEPT ![p] = IF p \in live THEN [pc |-> "tell", todo |-> Others(p)] ELSE NoLeave]
  /\ raced' = IF p \in known
                THEN raced \union {<<p, q>> : q \in {r \in Player : Joining(p) \/ Joining(r)}}
                ELSE raced
  /\ UNCHANGED <<live, join, screen>>

\* Nobody is told of a player that is not in the table; its id is recycled at once.
Remove(p) ==
  /\ leave[p].pc = "remove"
  /\ known' = known \ {p}
  /\ leave' = [leave EXCEPT ![p] = IF p \in known THEN [pc |-> "tell", todo |-> Others(p)] ELSE NoLeave]
  /\ raced' = IF p \in known
                THEN raced \union {<<p, q>> : q \in {r \in Player : Joining(p) \/ Joining(r)}}
                ELSE raced
  /\ UNCHANGED <<live, join, screen>>

\* broadcast of DISCONNECTION
Tell(p, q) ==
  /\ leave[p].pc = "tell" /\ q \in leave[p].todo
  /\ leave' = [leave EXCEPT ![p].todo = @ \ {q}]
  /\ screen' = IF Visited(q) THEN [screen EXCEPT ![q] = @ \ {p}] ELSE screen
  /\ UNCHANGED <<live, known, join, raced>>

\* recycle_peer_id
Recycle(p) ==
  /\ leave[p].pc = "tell" /\ leave[p].todo = {}
  /\ leave' = [leave EXCEPT ![p] = NoLeave]
  /\ UNCHANGED <<live, known, join, screen, raced>>

-----------------------------------------------------------------------------
JoinStep(p, t) ==
  Insert(p, t) \/ Created(p, t) \/ Introduce(p, t) \/ \E q \in Player : Create(p, t, q) \/ Find(p, t, q)
LeaveStep(p) == Remove(p) \/ Recycle(p) \/ \E q \in Player : Tell(p, q)

Next ==
  \E p \in Player :
    Close(p) \/ LeaveStep(p) \/ \E t \in Task : Connect(p, t) \/ JoinStep(p, t)

Spec == Init /\ [][Next]_vars

-----------------------------------------------------------------------------
PresenceTypeOK ==
  /\ live \subseteq Player /\ known \subseteq Player
  /\ join \in [Task -> Join] /\ leave \in [Player -> Leave]
  /\ screen \in [Player -> SUBSET Player]
  /\ raced \subseteq Player \X Player
  /\ \A t \in Task : join[t].pc # "idle" => join[t].player \in Player \ (join[t].todo \union join[t].found)
  /\ \A p \in Player : p \notin leave[p].todo \union screen[p]

Settled(p) == ~ Joining(p) /\ leave[p] = NoLeave

\* Of two players that are connected and entered, each is shown to the other,
\* in whichever order their joins and the leaves of others ran.
NoneUnseen ==
  \A p, q \in live \intersect known :
    p # q /\ Settled(p) /\ Settled(q) => p \in screen[q]

\* A player that has left stays on a screen only if it left while its own join
\* or that of the one who sees it was still running.
GhostsRaced ==
  \A q \in live : \A p \in screen[q] :
    Settled(p) => p \in known \/ <<p, q>> \in raced
=============================================================================
