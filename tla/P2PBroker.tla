------------------------------ MODULE P2PBroker ------------------------------
(****************************************************************************)
(* The broker of direct links between players. Two clients that have opened *)
(* a direct link both report it up; their pair is then offloaded and the    *)
(* server relays no voice between them. Signals and the clean-up of a peer  *)
(* that left are tasks that run side by side: a step is one access to one   *)
(* of the three DashMaps, or all that is done under one guard of them.      *)
(*                                                                          *)
(* A signal may be handled at any time, also when its sender has left or    *)
(* has no identity yet, and any number of times: reliable packets that are  *)
(* sent again are not told apart from new ones. Each token is of one pair.  *)
(****************************************************************************)
EXTENDS Naturals, FiniteSets

CONSTANTS
  Peer,        \* peer ids
  Token,       \* session tokens, chosen by the clients
  Task,        \* the tasks that handle events
  None,
  Initiator, Target   \* of each token: the client that asks, the one it asks for

ASSUME PartiesAssumption ==
  \A t \in Token : Initiator[t] \in Peer /\ Target[t] \in Peer /\ Initiator[t] # Target[t]

Parties(t) == {Initiator[t], Target[t]}

\* A session: its state, how many NAT endpoints are known, who reported it up.
Session == [state : {"awaiting", "ready", "punched"}, known : {0, 1, 2}, up : SUBSET Peer]

ASSUME NoneAssumption == None \notin Peer \union Token \union Session

NewSession == [state |-> "awaiting", known |-> 0, up |-> {}]
LostSession == [NewSession EXCEPT !.state = "ready"]

VARIABLES
  sessions,          \* token -> its session, None when absent
  peer_sessions,     \* peer -> the tokens of its sessions
  offloaded_pairs,   \* pairs whose voice is not relayed
  task,              \* what each task is doing
  stray              \* history: tokens untracked while they had a session again

tables == <<sessions, peer_sessions, offloaded_pairs>>
vars   == <<tables, task, stray>>

\* token: being armed or removed. leaver: the peer that left, and the tokens
\* of it that are still to be removed.
Removing == {"untrack_initiator", "untrack_target", "unlink"}
PC == {"idle", "arm", "track_initiator", "track_target", "next"} \union Removing
TaskState == [pc : PC, token : Token \union {None},
              leaver : Peer \union {None}, tokens : SUBSET Token]
Idle == [pc |-> "idle", token |-> None, leaver |-> None, tokens |-> {}]

Init ==
  /\ sessions = [t \in Token |-> None]
  /\ peer_sessions = [p \in Peer |-> {}]
  /\ offloaded_pairs = {}
  /\ task = [k \in Task |-> Idle]
  /\ stray = {}

Become(k, t) == task' = [task EXCEPT ![k] = t]
Go(k, pc) == Become(k, [task[k] EXCEPT !.pc = pc])
Leaves(k, p) == task[k].pc # "idle" /\ task[k].leaver = p

-----------------------------------------------------------------------------
(* REQUEST: the session replaces any other of that token. Whether the target *)
(* has an identity is for the caller to say; if not, nothing changes.        *)

Request(k, t) ==
  /\ task[k].pc = "idle"
  /\ Become(k, [Idle EXCEPT !.pc = "arm", !.token = t])
  /\ UNCHANGED <<tables, stray>>

Arm(k) ==
  /\ task[k].pc = "arm"
  /\ sessions' = [sessions EXCEPT ![task[k].token] = NewSession]
  /\ Go(k, "track_initiator")
  /\ UNCHANGED <<peer_sessions, offloaded_pairs, stray>>

Track(p, t) == peer_sessions' = [peer_sessions EXCEPT ![p] = @ \union {t}]

TrackInitiator(k) ==
  /\ task[k].pc = "track_initiator"
  /\ Track(Initiator[task[k].token], task[k].token)
  /\ Go(k, "track_target")
  /\ UNCHANGED <<sessions, offloaded_pairs, stray>>

\* Mutant: only the initiator's set is kept up.
TrackInitiatorOnly(k) ==
  /\ task[k].pc = "track_target"
  /\ Become(k, Idle)
  /\ UNCHANGED <<tables, stray>>

TrackTarget(k) ==
  /\ task[k].pc = "track_target"
  /\ Track(Target[task[k].token], task[k].token)
  /\ Become(k, Idle)
  /\ UNCHANGED <<sessions, offloaded_pairs, stray>>

-----------------------------------------------------------------------------
(* The signals that are handled under one guard of sessions. *)

\* ACCEPT counts from the target only; it keeps what is known of the endpoints.
Accept(p, t) ==
  /\ sessions[t] # None
  /\ p = Target[t]
  /\ sessions' = [sessions EXCEPT ![t].state = "ready"]
  /\ UNCHANGED <<peer_sessions, offloaded_pairs, task, stray>>

LinkUp(p, t) ==
  /\ sessions[t] # None
  /\ p \in Parties(t)
  /\ sessions' = [sessions EXCEPT ![t].up = @ \union {p}]
  /\ offloaded_pairs' = IF sessions[t].up \union {p} = Parties(t)
                        THEN offloaded_pairs \union {Parties(t)} ELSE offloaded_pairs
  /\ UNCHANGED <<peer_sessions, task, stray>>

\* LINK_LOST is taken from anybody.
LinkLost(t) ==
  /\ sessions[t] # None
  /\ sessions' = [sessions EXCEPT ![t] = LostSession]
  /\ offloaded_pairs' = offloaded_pairs \ {Parties(t)}
  /\ UNCHANGED <<peer_sessions, task, stray>>

\* A NAT introduction request brings one endpoint; the second one, and every
\* one after it, has both clients introduced to each other.
NatRequest(t) ==
  /\ sessions[t] # None
  /\ sessions[t].state # "awaiting"
  /\ sessions' = IF sessions[t].known = 0
                 THEN [sessions EXCEPT ![t].known = 1]
                 ELSE [sessions EXCEPT ![t].known = 2, ![t].state = "punched"]
  /\ UNCHANGED <<peer_sessions, offloaded_pairs, task, stray>>

-----------------------------------------------------------------------------
(* remove_session: by DECLINE or CANCEL of anybody, or because a peer left. *)

Remove(k, t, r) ==
  /\ sessions[t] # None
  /\ sessions' = [sessions EXCEPT ![t] = None]
  /\ Become(k, r)

Drop(k, t) ==
  /\ task[k].pc = "idle"
  /\ Remove(k, t, [Idle EXCEPT !.pc = "untrack_initiator", !.token = t])
  /\ UNCHANGED <<peer_sessions, offloaded_pairs, stray>>

Untrack(p, t) ==
  /\ peer_sessions' = [peer_sessions EXCEPT ![p] = @ \ {t}]
  /\ stray' = IF sessions[t] = None THEN stray ELSE stray \union {t}

UntrackInitiator(k) ==
  /\ task[k].pc = "untrack_initiator"
  /\ Untrack(Initiator[task[k].token], task[k].token)
  /\ Go(k, "untrack_target")
  /\ UNCHANGED <<sessions, offloaded_pairs>>

UntrackTarget(k) ==
  /\ task[k].pc = "untrack_target"
  /\ Untrack(Target[task[k].token], task[k].token)
  /\ Go(k, "unlink")
  /\ UNCHANGED <<sessions, offloaded_pairs>>

\* Mutant: the session goes and its pair stays offloaded.
UnlinkNothing(k) ==
  /\ task[k].pc = "unlink"
  /\ IF task[k].leaver = None THEN Become(k, Idle) ELSE Go(k, "next")
  /\ UNCHANGED <<tables, stray>>

Unlink(k) ==
  /\ task[k].pc = "unlink"
  /\ offloaded_pairs' = offloaded_pairs \ {Parties(task[k].token)}
  /\ IF task[k].leaver = None THEN Become(k, Idle) ELSE Go(k, "next")
  /\ UNCHANGED <<sessions, peer_sessions, stray>>

-----------------------------------------------------------------------------
(* remove_peer. The id is not given to another player before it ends. *)

Leave(k, p) ==
  /\ task[k].pc = "idle"
  /\ \A j \in Task : ~Leaves(j, p)
  /\ Become(k, [Idle EXCEPT !.pc = "next", !.leaver = p, !.tokens = peer_sessions[p]])
  /\ peer_sessions' = [peer_sessions EXCEPT ![p] = {}]
  /\ UNCHANGED <<sessions, offloaded_pairs, stray>>

\* The tokens come out of a hash set: in any order.
RemoveNext(k) ==
  /\ task[k].pc = "next"
  /\ \E t \in task[k].tokens :
       LET left == [task[k] EXCEPT !.tokens = @ \ {t}] IN
       \/ sessions[t] = None /\ Become(k, left) /\ UNCHANGED sessions
       \/ Remove(k, t, [left EXCEPT !.pc = "untrack_initiator", !.token = t])
  /\ UNCHANGED <<peer_sessions, offloaded_pairs, stray>>

Left(k) ==
  /\ task[k].pc = "next" /\ task[k].tokens = {}
  /\ Become(k, Idle)
  /\ UNCHANGED <<tables, stray>>

Signal ==
  \E t \in Token : \/ \E p \in Peer : Accept(p, t) \/ LinkUp(p, t)
                   \/ LinkLost(t)
                   \/ NatRequest(t)
TaskStep(k) ==
  \/ Arm(k) \/ TrackInitiator(k) \/ TrackTarget(k)
  \/ UntrackInitiator(k) \/ UntrackTarget(k) \/ Unlink(k)
  \/ RemoveNext(k) \/ Left(k)

Next ==
  \/ Signal
  \/ \E k \in Task :
       \/ \E t \in Token : Request(k, t) \/ Drop(k, t)
       \/ \E p \in Peer : Leave(k, p)
       \/ TaskStep(k)

Spec == Init /\ [][Next]_vars

-----------------------------------------------------------------------------
P2PTypeOK ==
  /\ sessions \in [Token -> Session \union {None}]
  /\ peer_sessions \in [Peer -> SUBSET Token]
  /\ offloaded_pairs \in SUBSET SUBSET Peer
  /\ task \in [Task -> TaskState]
  /\ stray \in SUBSET Token
  /\ \A k \in Task : task[k].token = None => task[k].pc \in {"idle", "next"}

\* Voice is withheld from a pair only while a session of the pair exists, or
\* its removal (remove_session) is about to take the pair off: offloading never
\* outlives the sessions, so players whose link has ended hear each other again.
OffloadBacked ==
  \A pair \in offloaded_pairs : \E t \in Token :
    /\ Parties(t) = pair
    /\ \/ sessions[t] # None
       \/ \E k \in Task : task[k].pc \in Removing /\ task[k].token = t

\* A session can be found from both its players, so that remove_peer ends it
\* when either leaves: it is in the player's set, about to be put there, or
\* among what a clean-up of that player will remove. Only a session armed again
\* while remove_session worked on its token can be lost to that search.
BeingTracked(t, p) ==
  \E k \in Task :
    /\ task[k].token = t
    /\ \/ task[k].pc = "track_initiator"
       \/ task[k].pc = "track_target" /\ p = Target[t]
BeingLeft(t, p) == \E k \in Task : task[k].leaver = p /\ t \in task[k].tokens
SessionsTracked ==
  \A t \in Token \ stray : sessions[t] # None =>
    \A p \in Parties(t) : t \in peer_sessions[p] \/ BeingTracked(t, p) \/ BeingLeft(t, p)
=============================================================================
