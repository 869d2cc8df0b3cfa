----------------------------- MODULE AvatarSync -----------------------------
(****************************************************************************)
(* How the avatars of the players are kept in step: AvatarSyncSystem, its  *)
(* tick thread, and the tasks of the server core that feed it.             *)
(*                                                                          *)
(* An update of a player waits in pending, where the one handled last      *)
(* replaces an earlier one. A tick takes the updates out, enters those     *)
(* that are newer than the player's state by their eight-bit sequence,     *)
(* takes a snapshot of the players, builds for a slice of them what each   *)
(* has not been sent yet, hands it to the transport, and adapts the number *)
(* of slices. remove_player clears the tables of a player that left while  *)
(* a tick may be anywhere.                                                  *)
(*                                                                          *)
(* An update is known by its connection and its number there: 0 is the one *)
(* the server makes itself of the ReadyMessage, 1, 2, ... are the client's. *)
(* Time, distances and what a tick costs are choices of the environment.   *)
(****************************************************************************)
EXTENDS Naturals, FiniteSets

CONSTANTS
  Peer, None,
  SeqSpace,     \* how many sequence numbers there are: 256 in the program
  MaxSlices,    \* the values of max_receiver_slices looked at
  Mover,        \* bound: the clients that move
  MaxEvents     \* bound: connections, updates and closes, fewer with more slices

ASSUME PeerAssumption  ==
  Peer \subseteq Nat /\ IsFiniteSet(Peer) /\ Mover \subseteq Peer
ASSUME BoundAssumption ==
  /\ SeqSpace \in Nat /\ SeqSpace > 1 /\ MaxEvents \in Nat
  /\ MaxSlices \subseteq Nat \ {0}

Updates == [peer : Peer, conn : 1 .. MaxEvents, n : 0 .. MaxEvents]

ASSUME NoneAssumption == None \notin Nat \cup [update : Updates, generation : Nat]

VARIABLES
  live,            \* players with a connection
  conn,            \* the number of a player's connection
  known,           \* authenticated_peers
  joining, leave,  \* where the tasks of a player's join and leave are
  made, events,    \* the updates of a connection; connections, updates and closes of all
  flying,          \* updates that were sent and not handled
  pending,         \* the update that waits, per player
  states,          \* per player: its update and the generation of it
  generation,
  tracking,        \* last_seen_generation, per receiver and sender; 0 without an entry
  max_slices, slice_count, slice_index,
  pc, updates, clones, todo, out,    \* the tick
  heard,           \* history: what a receiver was last sent of a player
  late,            \* history: players whose state is of a connection that has ended
  odd,             \* history: updates that went astray, see Astray
  stale            \* history: receivers whose tracking was put back while they left

clients == <<live, conn, joining, leave, made, events, flying>>
slices  == <<max_slices, slice_count, slice_index>>
tick    == <<pc, updates, clones, todo, out>>
history == <<heard, late, odd, stale>>
vars    == <<clients, known, pending, states, generation, tracking, slices, tick, history>>

Half         == SeqSpace \div 2
Pairs        == {x \in Peer \X Peer : x[1] # x[2]}
Update(p, n) == [peer |-> p, conn |-> conn[p], n |-> n]
Sequence(u)  == IF u.n = 0 THEN 0 ELSE (u.n - 1) % SeqSpace

Init ==
  /\ live = {} /\ known = {} /\ conn = [p \in Peer |-> 0] /\ events = 0
  /\ joining = [p \in Peer |-> FALSE] /\ leave = [p \in Peer |-> "no"]
  /\ made = [p \in Peer |-> 0] /\ flying = {}
  /\ pending = [p \in Peer |-> None] /\ states = [p \in Peer |-> None]
  /\ generation = 1
  /\ tracking = [x \in Pairs |-> 0]
  /\ max_slices \in MaxSlices /\ slice_count = 1 /\ slice_index = 0
  /\ pc = "idle" /\ updates = {} /\ clones = {} /\ todo = {} /\ out = {}
  /\ heard = [x \in Pairs |-> None]
  /\ late = {} /\ odd = {} /\ stale = {}

-----------------------------------------------------------------------------
(* Clients, and the tasks of their connections *)

Happens == events + max_slices <= MaxEvents /\ events' = events + 1

\* finalize_accept enters the player and sends META_DATA, on which the client begins to
\* move. The connection before it has been cleaned up: that a join may outlast its
\* connection is in PeerSession and Presence.
Connect(p) ==
  /\ p \notin live /\ leave[p] = "no" /\ ~joining[p] /\ Happens
  /\ live' = live \cup {p} /\ known' = known \cup {p}
  /\ conn' = [conn EXCEPT ![p] = @ + 1] /\ made' = [made EXCEPT ![p] = 0]
  /\ joining' = [joining EXCEPT ![p] = TRUE]
  /\ heard' = [x \in Pairs |-> IF x[1] = p THEN None ELSE heard[x]]
  /\ stale' = IF p \in todo THEN stale \cup {p} ELSE stale
  /\ UNCHANGED <<leave, flying, pending, states, generation, tracking, slices, tick, late, odd>>

\* cache_initial_avatar_sync: an update of sequence 0, like the first one of the client
CacheInitial(p) ==
  /\ joining[p]
  /\ joining' = [joining EXCEPT ![p] = FALSE]
  /\ pending' = [pending EXCEPT ![p] = Update(p, 0)]
  /\ UNCHANGED <<live, known, conn, leave, made, events, flying, states, generation, tracking,
                 slices, tick, history>>

Move(p) ==
  /\ p \in live \cap Mover /\ Happens
  /\ made' = [made EXCEPT ![p] = @ + 1]
  /\ flying' = flying \cup {Update(p, made[p] + 1)}
  /\ UNCHANGED <<live, known, conn, joining, leave, pending, states, generation, tracking,
                 slices, tick, history>>

\* upsert_from_channel_payload, by the task of a message: in any order, at any time
Upsert(u) ==
  /\ u \in flying
  /\ flying' = flying \ {u}
  /\ pending' = [pending EXCEPT ![u.peer] = u]
  /\ UNCHANGED <<live, known, conn, joining, leave, made, events, states, generation,
                 tracking, slices, tick, history>>

Close(p) ==
  /\ p \in live /\ Happens
  /\ live' = live \ {p}
  /\ leave' = [leave EXCEPT ![p] = "avatar"]
  /\ UNCHANGED <<known, conn, joining, made, flying, pending, states, generation,
                 tracking, slices, tick, history>>

Remove(p, tracked) ==
  /\ leave[p] = "avatar" /\ leave' = [leave EXCEPT ![p] = "peer"]
  /\ states' = [states EXCEPT ![p] = None]
  /\ pending' = [pending EXCEPT ![p] = None]
  /\ tracking' = [x \in Pairs |-> IF x \in tracked THEN 0 ELSE tracking[x]]
  /\ late' = late \ {p} /\ stale' = stale \ {p}
  /\ UNCHANGED <<live, known, conn, joining, made, events, flying, generation, slices, tick,
                 heard, odd>>

\* Mutant: only the others forget the player.
RemoveFromOthers(p) == Remove(p, {x \in Pairs : x[2] = p})

\* remove_player. (It locks one entry after the other, and no step looks at two of them.)
RemovePlayer(p) == Remove(p, {x \in Pairs : p \in {x[1], x[2]}})

\* The end of handle_disconnect
RemovePeer(p) ==
  /\ leave[p] = "peer" /\ leave' = [leave EXCEPT ![p] = "no"]
  /\ known' = known \ {p}
  /\ UNCHANGED <<live, conn, joining, made, events, flying, pending, states, generation,
                 tracking, slices, tick, history>>

-----------------------------------------------------------------------------
(* The tick thread: flush_tick *)

\* process_pending_updates takes the updates out, entry by entry. (An entry that is
\* replaced or removed while others are taken out might as well have been before.)
Drain ==
  /\ pc = "idle"
  /\ updates' = {pending[p] : p \in {q \in Peer : pending[q] # None}}
  /\ pending' = [p \in Peer |-> None]
  /\ pc' = "process"
  /\ UNCHANGED <<clients, known, states, generation, tracking, slices, clones, todo, out,
                 history>>

\* Of a connection that is gone, or that remove_player is past.
TooLate(u) == u.conn # conn[u.peer] \/ (u.peer \notin live /\ leave[u.peer] # "avatar")

\* Older by more than half a round than the one it replaces, which it then passes for
\* newer than. What follows such a one is compared with that, and no more with what was
\* sent of the connection before.
Astray(u, v) ==
  \/ u.conn = v.conn /\ u.n + Half < v.n
  \/ v \in odd /\ \E x \in Pairs : x[2] = u.peer /\ heard[x] # None /\ heard[x].conn = u.conn

\* The updates of different players meet in nothing but the counter, which is compared
\* only between those of one player.
Enter(Newer(_, _)) ==
  LET entered == {u \in updates : states[u.peer] = None \/ Newer(u, states[u.peer].update)}
      Of(p)   == CHOOSE u \in entered : u.peer = p
      moved   == {u.peer : u \in entered}
      behind  == {p \in moved : TooLate(Of(p))} IN
    /\ pc = "process" /\ updates' = {} /\ pc' = "clone"
    /\ generation' = generation + Cardinality(updates)
    /\ states' = [p \in Peer |->
         IF p \in moved THEN [update |-> Of(p), generation |-> generation] ELSE states[p]]
    /\ late' = (late \ moved) \cup behind
    /\ odd'  = odd \cup {u \in entered : u.peer \in behind
                 \/ (states[u.peer] # None /\ Astray(u, states[u.peer].update))}
    /\ UNCHANGED <<clients, known, pending, tracking, slices, clones, todo, out, heard, stale>>

\* wrapping_sub of the sequences: not the same one, and not in the half before it
Newer(u, v) == (Sequence(u) + SeqSpace - Sequence(v)) % SeqSpace \in 1 .. (Half - 1)

\* Mutant: only a repeated sequence is dropped.
ProcessUnlessEqual == Enter(LAMBDA u, v : Sequence(u) # Sequence(v))

Process == Enter(Newer)

\* advance_slice_state: the receivers in the order of the map, cut into slices
Slice(S, index, size) ==
  {p \in S : LET before == Cardinality({q \in S : q < p}) IN
               before >= index * size /\ before < (index + 1) * size}

\* The states of the players are cloned, and the next slice of them are the receivers;
\* the tick ends here when there is nobody to tell.
CloneNext(next) ==
  /\ pc = "clone"
  /\ IF Cardinality(known) <= 1
       THEN pc' = "idle" /\ UNCHANGED <<clones, todo, slice_index>>
       ELSE LET S == {p \in known : states[p] # None} IN
              /\ clones' = {states[p] : p \in S}
              /\ todo' = Slice(S, slice_index % slice_count,
                               (Cardinality(S) + slice_count - 1) \div slice_count)
              /\ slice_index' = next % slice_count
              /\ pc' = "build"
  /\ UNCHANGED <<clients, known, pending, states, generation, tracking, max_slices, slice_count,
                 updates, out, history>>

\* Mutant: always the same slice.
CloneSame == CloneNext(slice_index)

Clone == CloneNext(slice_index + 1)

\* build_sends_for_receiver, under the lock of the receiver's tracking. skip: the senders
\* whose interval for this receiver is running, that are offloaded to a link of their own,
\* or that send a quality of which none for their distance can be made.
Build(r, skip) ==
  /\ pc = "build" /\ r \in todo
  /\ todo' = todo \ {r}
  /\ LET due == {v \in clones : v.update.peer \notin skip \cup {r}
                   /\ v.generation > tracking[<<r, v.update.peer>>]} IN
       /\ tracking' = [x \in Pairs |->
            IF x[1] = r /\ \E v \in due : v.update.peer = x[2]
              THEN (CHOOSE v \in due : v.update.peer = x[2]).generation
            ELSE tracking[x]]
       /\ out' = out \cup {<<r, v.update>> : v \in due}
  /\ stale' = IF r \in live \/ leave[r] = "avatar" THEN stale ELSE stale \cup {r}
  /\ UNCHANGED <<clients, known, pending, states, generation, slices, pc, updates, clones,
                 heard, late, odd>>

\* flush_receiver_groups_parallel sends to whoever has the receiver's id by now; when a
\* send fails the others are dropped, like any unreliable packet. adapt_slice_count: one
\* more or one less, as the tick took long or not, and as many when a send failed. (The
\* bounds come from the environment variables: update_config leaves the slices alone.)
FlushThen(n, index) ==
  /\ pc = "build" /\ todo = {}
  /\ out' = {} /\ clones' = {} /\ pc' = "idle"
  /\ heard' = [x \in Pairs |->
       LET S == {o \in out : o[1] = x[1] /\ o[2].peer = x[2] /\ o[1] \in live} IN
         IF S = {} THEN heard[x] ELSE (CHOOSE o \in S : TRUE)[2]]
  /\ n \in {slice_count - 1, slice_count, slice_count + 1} \cap (1 .. max_slices)
  /\ slice_count' = n
  /\ slice_index' = index
  /\ UNCHANGED <<max_slices, clients, known, pending, states, generation, tracking, updates,
                 todo, late, odd, stale>>

\* Mutant: the index stays where it was.
FlushKeepsIndex(n) == FlushThen(n, slice_index)

Flush(n) == FlushThen(n, slice_index % n)

Tick ==
  \/ Drain \/ Process \/ Clone
  \/ (\E r \in todo, skip \in SUBSET Peer : r \notin skip /\ Build(r, skip))
  \/ (\E n \in 1 .. max_slices : Flush(n))

Next ==
  \/ \E p \in Peer :
       \/ Connect(p) \/ CacheInitial(p) \/ Move(p) \/ Close(p)
       \/ RemovePlayer(p) \/ RemovePeer(p)
  \/ \E u \in flying : Upsert(u)
  \/ Tick

Spec == Init /\ [][Next]_vars

\* The tick thread loops until the shutdown, and the tasks of joins and leaves run on.
\* Clients need not move, and messages may be lost before they are handled. A receiver
\* whose turn comes again and again finds that all intervals have passed, which are 255 ms
\* and the default at most where a tick is 4 ms; pairs with a link of their own,
\* and qualities that cannot be made, are left out here.
FairSpec ==
  /\ Spec
  /\ WF_vars(Tick)
  /\ \A p \in Peer : WF_vars(CacheInitial(p)) /\ WF_vars(RemovePlayer(p) \/ RemovePeer(p))
  /\ \A r \in Peer : SF_vars(Build(r, {}))

-----------------------------------------------------------------------------
AvatarTypeOK ==
  /\ live \subseteq Peer /\ known \subseteq Peer /\ todo \subseteq Peer
  /\ flying \cup updates \subseteq Updates
  /\ \A p \in Peer :
       /\ pending[p] # None => pending[p] \in Updates /\ pending[p].peer = p
       /\ states[p] # None =>
            states[p].update \in Updates /\ states[p].update.peer = p
            /\ states[p].generation \in 1 .. (generation - 1)
  /\ \A x \in Pairs : tracking[x] \in 0 .. (generation - 1)
  /\ slice_count \in 1 .. max_slices /\ slice_index \in 0 .. (slice_count - 1)

Older(u, v) == u.conn < v.conn \/ (u.conn = v.conn /\ u.n < v.n)

(* A receiver is never shown an older pose of a player after a newer one,    *)
(* whatever the order in which the tasks enter the updates, unless it went   *)
(* astray: it was late by more than half a round of the sequences, it came   *)
(* from a connection that had ended, or it followed such a one.              *)
NoStepBack ==
  [][\A x \in Pairs : heard[x] # None /\ heard'[x] # None =>
       ~Older(heard'[x], heard[x]) \/ heard'[x] \in odd]_vars

(* Nothing that a connection leaves behind mutes the next one with its id:   *)
(* its updates replace what was there, and what was sent to the connection   *)
(* before does not count as sent to it, unless a tick or a late message put   *)
(* it back while the tables were cleared.                                     *)
NoneMuted ==
  /\ \A p \in live : states[p] # None /\ states[p].update.conn # conn[p] => p \in late
  /\ pc = "idle" => \A x \in Pairs :
       /\ x[1] \in live \ stale /\ states[x[2]] # None
       /\ tracking[x] >= states[x[2]].generation
       => heard[x] = states[x[2]].update

(* Once the number of slices settles no receiver is owed the pose of a       *)
(* player for ever: every slice comes up, and what was sent before, or to    *)
(* somebody else, does not count.                                            *)
Owed(x) ==
  /\ x[1] \in live \ stale /\ {x[1], x[2]} \subseteq known
  /\ states[x[1]] # None /\ states[x[2]] # None
  /\ heard[x] # states[x[2]].update

LatestReaches ==
  <>[][slice_count' = slice_count]_slice_count => \A x \in Pairs : []<>~Owed(x)
=============================================================================
