--------------------------- MODULE P2PBrokerProofs ---------------------------
(* What holds of the broker for every set of players, tokens and tasks. *)
EXTENDS P2PBroker, TLAPS

-----------------------------------------------------------------------------
(* The records of the broker. *)

LEMMA SessionTypes == NewSession \in Session /\ LostSession \in Session
BY DEF NewSession, LostSession, Session

LEMMA IdleTyped == Idle \in TaskState
BY DEF Idle, TaskState, PC, Removing

\* A task has a token whenever it works on one.
LEMMA WorkingOnToken ==
  ASSUME P2PTypeOK, NEW k \in Task, task[k].pc \notin {"idle", "next"}
  PROVE  task[k].token \in Token
BY DEF P2PTypeOK, TaskState

LEMMA PartiesArePeers ==
  ASSUME NEW t \in Token
  PROVE  /\ Initiator[t] \in Peer /\ Target[t] \in Peer
         /\ Parties(t) \in SUBSET Peer
BY PartiesAssumption DEF Parties

-----------------------------------------------------------------------------
(* Types. *)

\* Every variable of the broker has its type initially.
LEMMA P2PTypeInit == Init => P2PTypeOK
BY IdleTyped DEF Init, P2PTypeOK, Idle

LEMMA BecomeTyped ==
  ASSUME P2PTypeOK, NEW k \in Task, NEW r \in TaskState, Become(k, r),
         r.token = None => r.pc \in {"idle", "next"}
  PROVE  /\ task' \in [Task -> TaskState]
         /\ \A j \in Task : task'[j].token = None => task'[j].pc \in {"idle", "next"}
BY DEF P2PTypeOK, Become

LEMMA GoTyped ==
  ASSUME P2PTypeOK, NEW k \in Task, NEW pc \in PC, Go(k, pc),
         task[k].token # None \/ pc \in {"idle", "next"}
  PROVE  /\ task' \in [Task -> TaskState]
         /\ \A j \in Task : task'[j].token = None => task'[j].pc \in {"idle", "next"}
BY DEF P2PTypeOK, Become, Go, TaskState

\* A signal that is handled under the guard changes a session that is there
\* and neither makes nor removes one.
SignalOf(t) == \/ \E p \in Peer : Accept(p, t) \/ LinkUp(p, t)
               \/ LinkLost(t)
               \/ NatRequest(t)

LEMMA SignalKeepsSessions ==
  ASSUME P2PTypeOK, NEW t \in Token, SignalOf(t)
  PROVE  /\ sessions' \in [Token -> Session \union {None}]
         /\ \A u \in Token : sessions'[u] = None <=> sessions[u] = None
         /\ UNCHANGED <<peer_sessions, task, stray>>
<1>1. sessions[t] \in Session
  BY DEF SignalOf, Accept, LinkUp, LinkLost, NatRequest, P2PTypeOK
<1>2. ASSUME NEW s \in Session, sessions' = [sessions EXCEPT ![t] = s]
      PROVE  /\ sessions' \in [Token -> Session \union {None}]
             /\ \A u \in Token : sessions'[u] = None <=> sessions[u] = None
  BY <1>1, <1>2, NoneAssumption DEF P2PTypeOK
<1>3. ASSUME NEW p \in Peer, Accept(p, t)
      PROVE  \E s \in Session : sessions' = [sessions EXCEPT ![t] = s]
  <2> DEFINE s == [sessions[t] EXCEPT !.state = "ready"]
  <2>1. s \in Session
    BY <1>1 DEF Session
  <2>2. sessions' = [sessions EXCEPT ![t] = s]
    BY <1>3 DEF Accept, P2PTypeOK
  <2> QED
    BY <2>1, <2>2
<1>4. ASSUME NEW p \in Peer, LinkUp(p, t)
      PROVE  \E s \in Session : sessions' = [sessions EXCEPT ![t] = s]
  <2> DEFINE s == [sessions[t] EXCEPT !.up = @ \union {p}]
  <2>1. s \in Session
    BY <1>1 DEF Session
  <2>2. sessions' = [sessions EXCEPT ![t] = s]
    BY <1>4 DEF LinkUp, P2PTypeOK
  <2> QED
    BY <2>1, <2>2
<1>5. ASSUME LinkLost(t)
      PROVE  \E s \in Session : sessions' = [sessions EXCEPT ![t] = s]
  BY <1>5, SessionTypes DEF LinkLost
<1>6. ASSUME NatRequest(t)
      PROVE  \E s \in Session : sessions' = [sessions EXCEPT ![t] = s]
  <2> DEFINE first == [sessions[t] EXCEPT !.known = 1]
             both == [sessions[t] EXCEPT !.known = 2, !.state = "punched"]
  <2>1. first \in Session /\ both \in Session
    BY <1>1 DEF Session
  <2>2. sessions[t].known = 0 => sessions' = [sessions EXCEPT ![t] = first]
    BY <1>6 DEF NatRequest, P2PTypeOK
  <2>3. sessions[t].known # 0 => sessions' = [sessions EXCEPT ![t] = both]
    BY <1>6 DEF NatRequest, P2PTypeOK
  <2> HIDE DEF first, both
  <2> QED
    BY <2>1, <2>2, <2>3
<1>7. UNCHANGED <<peer_sessions, task, stray>>
  BY DEF SignalOf, Accept, LinkUp, LinkLost, NatRequest
<1> QED
  BY <1>2, <1>3, <1>4, <1>5, <1>6, <1>7 DEF SignalOf

LEMMA P2PTypeNext == P2PTypeOK /\ [Next]_vars => P2PTypeOK'
<1> SUFFICES ASSUME P2PTypeOK, [Next]_vars PROVE P2PTypeOK'
  OBVIOUS
<1> USE DEF vars, tables
<1>1. ASSUME NEW t \in Token, SignalOf(t) PROVE P2PTypeOK'
  <2>1. offloaded_pairs' \in SUBSET SUBSET Peer
    BY <1>1, PartiesArePeers DEF SignalOf, Accept, LinkUp, LinkLost, NatRequest, P2PTypeOK
  <2> QED
    BY <1>1, <2>1, SignalKeepsSessions DEF P2PTypeOK
<1>5. ASSUME NEW k \in Task, NEW t \in Token, Request(k, t) PROVE P2PTypeOK'
  <2> DEFINE r == [Idle EXCEPT !.pc = "arm", !.token = t]
  <2>1. r \in TaskState /\ r.token # None
    BY NoneAssumption DEF Idle, TaskState, PC
  <2>2. Become(k, r)
    BY <1>5 DEF Request
  <2> HIDE DEF r
  <2> QED
    BY <1>5, <2>1, <2>2, BecomeTyped DEF Request, P2PTypeOK
<1>6. ASSUME NEW k \in Task, NEW t \in Token, Drop(k, t) PROVE P2PTypeOK'
  <2> DEFINE r == [Idle EXCEPT !.pc = "untrack_initiator", !.token = t]
  <2>1. r \in TaskState /\ r.token # None
    BY NoneAssumption DEF Idle, TaskState, PC, Removing
  <2>2. Become(k, r)
    BY <1>6 DEF Drop, Remove
  <2> HIDE DEF r
  <2>3. sessions' \in [Token -> Session \union {None}]
    BY <1>6 DEF Drop, Remove, P2PTypeOK
  <2> QED
    BY <1>6, <2>1, <2>2, <2>3, BecomeTyped DEF Drop, P2PTypeOK
<1>7. ASSUME NEW k \in Task, NEW p \in Peer, Leave(k, p) PROVE P2PTypeOK'
  <2> DEFINE r == [Idle EXCEPT !.pc = "next", !.leaver = p, !.tokens = peer_sessions[p]]
  <2>1. r \in TaskState /\ r.pc = "next"
    BY DEF Idle, TaskState, PC, P2PTypeOK
  <2>2. Become(k, r)
    BY <1>7 DEF Leave
  <2> HIDE DEF r
  <2>3. peer_sessions' \in [Peer -> SUBSET Token]
    BY <1>7 DEF Leave, P2PTypeOK
  <2> QED
    BY <1>7, <2>1, <2>2, <2>3, BecomeTyped DEF Leave, P2PTypeOK
<1>8. ASSUME NEW k \in Task, TaskStep(k) PROVE P2PTypeOK'
  <2>1. CASE Arm(k)
    <3>1. task[k].token \in Token
      BY <2>1, WorkingOnToken DEF Arm
    <3>2. "track_initiator" \in PC
      BY DEF PC
    <3>3. sessions' \in [Token -> Session \union {None}]
      BY <2>1, <3>1, SessionTypes DEF Arm, P2PTypeOK
    <3> QED
      BY <2>1, <3>1, <3>2, <3>3, GoTyped, NoneAssumption DEF Arm, P2PTypeOK
  <2>2. CASE TrackInitiator(k)
    <3>1. task[k].token \in Token
      BY <2>2, WorkingOnToken DEF TrackInitiator
    <3>2. "track_target" \in PC
      BY DEF PC
    <3>3. peer_sessions' \in [Peer -> SUBSET Token]
      BY <2>2, <3>1 DEF TrackInitiator, Track, P2PTypeOK
    <3> QED
      BY <2>2, <3>1, <3>2, <3>3, GoTyped, NoneAssumption DEF TrackInitiator, P2PTypeOK
  <2>3. CASE TrackTarget(k)
    <3>1. task[k].token \in Token
      BY <2>3, WorkingOnToken DEF TrackTarget
    <3>2. peer_sessions' \in [Peer -> SUBSET Token]
      BY <2>3, <3>1 DEF TrackTarget, Track, P2PTypeOK
    <3>3. Idle.pc = "idle"
      BY DEF Idle
    <3> QED
      BY <2>3, <3>2, <3>3, BecomeTyped, IdleTyped DEF TrackTarget, P2PTypeOK
  <2>4. CASE UntrackInitiator(k)
    <3>1. task[k].token \in Token
      BY <2>4, WorkingOnToken DEF UntrackInitiator
    <3>2. "untrack_target" \in PC
      BY DEF PC, Removing
    <3>3. peer_sessions' \in [Peer -> SUBSET Token] /\ stray' \in SUBSET Token
      BY <2>4, <3>1 DEF UntrackInitiator, Untrack, P2PTypeOK
    <3> QED
      BY <2>4, <3>1, <3>2, <3>3, GoTyped, NoneAssumption DEF UntrackInitiator, P2PTypeOK
  <2>5. CASE UntrackTarget(k)
    <3>1. task[k].token \in Token
      BY <2>5, WorkingOnToken DEF UntrackTarget
    <3>2. "unlink" \in PC
      BY DEF PC, Removing
    <3>3. peer_sessions' \in [Peer -> SUBSET Token] /\ stray' \in SUBSET Token
      BY <2>5, <3>1 DEF UntrackTarget, Untrack, P2PTypeOK
    <3> QED
      BY <2>5, <3>1, <3>2, <3>3, GoTyped, NoneAssumption DEF UntrackTarget, P2PTypeOK
  <2>6. CASE Unlink(k)
    <3>1. "next" \in PC /\ Idle.pc = "idle"
      BY DEF PC, Idle
    <3>2. CASE task[k].leaver = None
      BY <2>6, <3>1, <3>2, BecomeTyped, IdleTyped DEF Unlink, P2PTypeOK
    <3>3. CASE task[k].leaver # None
      BY <2>6, <3>1, <3>3, GoTyped DEF Unlink, P2PTypeOK
    <3> QED
      BY <3>2, <3>3
  <2>7. CASE RemoveNext(k)
    <3>1. PICK t \in task[k].tokens :
            LET left == [task[k] EXCEPT !.tokens = @ \ {t}] IN
              \/ sessions[t] = None /\ Become(k, left) /\ UNCHANGED sessions
              \/ Remove(k, t, [left EXCEPT !.pc = "untrack_initiator", !.token = t])
      BY <2>7 DEF RemoveNext
    <3>2. t \in Token /\ task[k] \in TaskState /\ task[k].pc = "next"
      BY <2>7 DEF RemoveNext, P2PTypeOK, TaskState
    <3> DEFINE left == [task[k] EXCEPT !.tokens = @ \ {t}]
               removal == [left EXCEPT !.pc = "untrack_initiator", !.token = t]
    <3>3. left \in TaskState /\ left.pc = "next"
      BY <3>2 DEF TaskState
    <3>4. removal \in TaskState /\ removal.token # None
      BY <3>2, <3>3, NoneAssumption DEF TaskState, PC, Removing
    <3>5. \/ Become(k, left) /\ UNCHANGED sessions
          \/ Become(k, removal) /\ sessions' = [sessions EXCEPT ![t] = None]
      BY <3>1 DEF Remove
    <3> HIDE DEF left, removal
    <3>6. sessions' \in [Token -> Session \union {None}]
      BY <3>5 DEF P2PTypeOK
    <3> QED
      BY <2>7, <3>3, <3>4, <3>5, <3>6, BecomeTyped DEF RemoveNext, P2PTypeOK
  <2>8. CASE Left(k)
    <3>1. Idle.pc = "idle"
      BY DEF Idle
    <3> QED
      BY <2>8, <3>1, BecomeTyped, IdleTyped DEF Left, P2PTypeOK
  <2> QED
    BY <1>8, <2>1, <2>2, <2>3, <2>4, <2>5, <2>6, <2>7, <2>8 DEF TaskStep
<1>9. CASE UNCHANGED vars
  BY <1>9 DEF P2PTypeOK
<1> QED
  BY <1>1, <1>5, <1>6, <1>7, <1>8, <1>9 DEF Next, Signal, SignalOf

\* Every variable of the broker has its type: the tables hold sessions and
\* tokens, and a task that works on a token knows which one.
THEOREM P2PTypes == Spec => []P2PTypeOK
BY P2PTypeInit, P2PTypeNext, PTL DEF Spec

-----------------------------------------------------------------------------
(* Offloading. *)

\* What a token has that keeps its pair offloaded.
Backs(t) ==
  \/ sessions[t] # None
  \/ \E k \in Task : task[k].pc \in Removing /\ task[k].token = t

\* A step that offloads no pair: what it leaves offloaded stays backed.
LEMMA BackedStep ==
  ASSUME OffloadBacked, NEW gone \in SUBSET SUBSET Peer,
         \A t \in Token : Backs(t) => Backs(t)' \/ Parties(t) \in gone,
         offloaded_pairs' = offloaded_pairs \ gone
  PROVE  OffloadBacked'
BY DEF OffloadBacked, Backs

LEMMA OffloadNext == P2PTypeOK /\ OffloadBacked /\ [Next]_vars => OffloadBacked'
<1> SUFFICES ASSUME P2PTypeOK, OffloadBacked, [Next]_vars PROVE OffloadBacked'
  OBVIOUS
<1> USE DEF vars, tables
<1>1. ASSUME NEW t \in Token, SignalOf(t) PROVE OffloadBacked'
  <2>1. \A u \in Token : Backs(u) => Backs(u)'
    BY <1>1, SignalKeepsSessions DEF Backs
  <2>2. CASE offloaded_pairs' = offloaded_pairs \union {Parties(t)}
    <3>1. Backs(t)
      BY <1>1 DEF SignalOf, Accept, LinkUp, LinkLost, NatRequest, Backs
    <3> QED
      BY <2>1, <2>2, <3>1 DEF OffloadBacked, Backs
  <2>3. CASE offloaded_pairs' \in SUBSET offloaded_pairs
    BY <2>1, <2>3 DEF OffloadBacked, Backs
  <2> QED
    BY <1>1, <2>2, <2>3 DEF SignalOf, Accept, LinkUp, LinkLost, NatRequest
<1>2. ASSUME NEW k \in Task, task[k].pc \notin Removing, NEW r \in TaskState, Become(k, r),
             \A u \in Token : sessions[u] # None => sessions'[u] # None,
             UNCHANGED offloaded_pairs
      PROVE  OffloadBacked'
  <2>1. \A u \in Token : Backs(u) => Backs(u)'
    BY <1>2 DEF Become, Backs, P2PTypeOK
  <2>2. offloaded_pairs' = offloaded_pairs \ {}
    BY <1>2
  <2> QED
    BY <2>1, <2>2, BackedStep
<1>3. ASSUME NEW k \in Task, NEW t \in Token, NEW r \in TaskState, Become(k, r),
             task[k].pc \notin Removing, r.pc = "untrack_initiator", r.token = t,
             sessions' = [sessions EXCEPT ![t] = None],
             UNCHANGED offloaded_pairs
      PROVE  OffloadBacked'
  <2>1. Backs(t)'
    BY <1>3 DEF Become, Backs, P2PTypeOK, Removing
  <2>2. \A u \in Token : Backs(u) => Backs(u)'
    BY <1>3, <2>1 DEF Become, Backs, P2PTypeOK
  <2>3. offloaded_pairs' = offloaded_pairs \ {}
    BY <1>3
  <2> QED
    BY <2>2, <2>3, BackedStep
<1>4. ASSUME NEW k \in Task, NEW t \in Token, Request(k, t) PROVE OffloadBacked'
  <2> DEFINE r == [Idle EXCEPT !.pc = "arm", !.token = t]
  <2>1. r \in TaskState
    BY DEF Idle, TaskState, PC
  <2>2. Become(k, r) /\ task[k].pc \notin Removing
    BY <1>4 DEF Request, Removing
  <2> HIDE DEF r
  <2> QED
    BY <1>4, <2>1, <2>2, <1>2 DEF Request
<1>5. ASSUME NEW k \in Task, NEW t \in Token, Drop(k, t) PROVE OffloadBacked'
  <2> DEFINE r == [Idle EXCEPT !.pc = "untrack_initiator", !.token = t]
  <2>1. r \in TaskState /\ r.pc = "untrack_initiator" /\ r.token = t
    BY DEF Idle, TaskState, PC, Removing
  <2>2. Become(k, r) /\ task[k].pc \notin Removing
    BY <1>5 DEF Drop, Remove, Removing
  <2> HIDE DEF r
  <2> QED
    BY <1>5, <2>1, <2>2, <1>3 DEF Drop, Remove
<1>6. ASSUME NEW k \in Task, NEW p \in Peer, Leave(k, p) PROVE OffloadBacked'
  <2> DEFINE r == [Idle EXCEPT !.pc = "next", !.leaver = p, !.tokens = peer_sessions[p]]
  <2>1. r \in TaskState
    BY DEF Idle, TaskState, PC, P2PTypeOK
  <2>2. Become(k, r) /\ task[k].pc \notin Removing
    BY <1>6 DEF Leave, Removing
  <2> HIDE DEF r
  <2> QED
    BY <1>6, <2>1, <2>2, <1>2 DEF Leave
<1>7. ASSUME NEW k \in Task, TaskStep(k) PROVE OffloadBacked'
  <2>0. task[k] \in TaskState
    BY DEF P2PTypeOK
  <2>1. CASE Arm(k)
    <3> DEFINE r == [task[k] EXCEPT !.pc = "track_initiator"]
    <3>1. r \in TaskState
      BY <2>0 DEF TaskState, PC
    <3>2. Become(k, r) /\ task[k].pc \notin Removing
      BY <2>1 DEF Arm, Go, Removing
    <3> HIDE DEF r
    <3>3. \A u \in Token : sessions[u] # None => sessions'[u] # None
      BY <2>1, SessionTypes, NoneAssumption DEF Arm, P2PTypeOK
    <3> QED
      BY <2>1, <3>1, <3>2, <3>3, <1>2 DEF Arm
  <2>2. CASE TrackInitiator(k)
    <3> DEFINE r == [task[k] EXCEPT !.pc = "track_target"]
    <3>1. r \in TaskState
      BY <2>0 DEF TaskState, PC
    <3>2. Become(k, r) /\ task[k].pc \notin Removing
      BY <2>2 DEF TrackInitiator, Go, Removing
    <3> HIDE DEF r
    <3> QED
      BY <2>2, <3>1, <3>2, <1>2 DEF TrackInitiator
  <2>3. CASE TrackTarget(k)
    <3>1. task[k].pc \notin Removing
      BY <2>3 DEF TrackTarget, Removing
    <3> QED
      BY <2>3, <3>1, <1>2, IdleTyped DEF TrackTarget
  <2>4. CASE UntrackInitiator(k) \/ UntrackTarget(k)
    <3>1. /\ \A j \in Task : task'[j].token = task[j].token
          /\ \A j \in Task : task[j].pc \in Removing => task'[j].pc \in Removing
      BY <2>0, <2>4 DEF UntrackInitiator, UntrackTarget, Go, Become, Removing, P2PTypeOK, TaskState
    <3>2. \A u \in Token : Backs(u) => Backs(u)'
      BY <2>4, <3>1 DEF UntrackInitiator, UntrackTarget, Backs
    <3>3. offloaded_pairs' = offloaded_pairs \ {}
      BY <2>4 DEF UntrackInitiator, UntrackTarget
    <3> QED
      BY <3>2, <3>3, BackedStep
  <2>5. CASE Unlink(k)
    <3>1. task[k].token \in Token
      BY <2>5, WorkingOnToken DEF Unlink
    <3>2. \A j \in Task \ {k} : task'[j] = task[j]
      BY <2>5 DEF Unlink, Go, Become, P2PTypeOK
    <3>3. \A u \in Token : Backs(u) => Backs(u)' \/ Parties(u) \in {Parties(task[k].token)}
      BY <2>5, <3>1, <3>2 DEF Unlink, Backs
    <3>4. {Parties(task[k].token)} \in SUBSET SUBSET Peer
      BY <3>1, PartiesArePeers
    <3> QED
      BY <2>5, <3>3, <3>4, BackedStep DEF Unlink
  <2>6. CASE RemoveNext(k)
    <3>1. PICK t \in task[k].tokens :
            LET left == [task[k] EXCEPT !.tokens = @ \ {t}] IN
              \/ sessions[t] = None /\ Become(k, left) /\ UNCHANGED sessions
              \/ Remove(k, t, [left EXCEPT !.pc = "untrack_initiator", !.token = t])
      BY <2>6 DEF RemoveNext
    <3>2. t \in Token /\ task[k].pc \notin Removing
      BY <2>0, <2>6 DEF RemoveNext, TaskState, Removing
    <3> DEFINE left == [task[k] EXCEPT !.tokens = @ \ {t}]
               removal == [left EXCEPT !.pc = "untrack_initiator", !.token = t]
    <3>3. left \in TaskState
      BY <2>0, <3>2 DEF TaskState
    <3>4. removal \in TaskState /\ removal.pc = "untrack_initiator" /\ removal.token = t
      BY <3>2, <3>3 DEF TaskState, PC, Removing
    <3>5. \/ Become(k, left) /\ UNCHANGED sessions
          \/ Become(k, removal) /\ sessions' = [sessions EXCEPT ![t] = None]
      BY <3>1 DEF Remove
    <3> HIDE DEF left, removal
    <3>6. UNCHANGED offloaded_pairs
      BY <2>6 DEF RemoveNext
    <3>7. CASE Become(k, left) /\ UNCHANGED sessions
      BY <3>2, <3>3, <3>6, <3>7, <1>2
    <3>8. CASE Become(k, removal) /\ sessions' = [sessions EXCEPT ![t] = None]
      BY <3>2, <3>4, <3>6, <3>8, <1>3
    <3> QED
      BY <3>5, <3>7, <3>8
  <2>7. CASE Left(k)
    <3>1. task[k].pc \notin Removing
      BY <2>7 DEF Left, Removing
    <3> QED
      BY <2>7, <3>1, <1>2, IdleTyped DEF Left
  <2> QED
    BY <1>7, <2>1, <2>2, <2>3, <2>4, <2>5, <2>6, <2>7 DEF TaskStep
<1>8. CASE UNCHANGED vars
  BY <1>8 DEF OffloadBacked
<1> QED
  BY <1>1, <1>4, <1>5, <1>6, <1>7, <1>8 DEF Next, Signal, SignalOf

\* Voice is withheld from a pair only while a session of the pair exists or the
\* removal of one is about to take the pair off: players whose link has ended
\* hear each other again (remove_session, p2p.rs).
THEOREM Offloading == Spec => []OffloadBacked
<1>1. Init => OffloadBacked
  BY DEF Init, OffloadBacked
<1> QED
  BY <1>1, P2PTypes, OffloadNext, PTL DEF Spec

-----------------------------------------------------------------------------
(* Tracking. *)

\* Only the clean-up of a peer has tokens left to remove.
Cleaning ==
  \A k \in Task : task[k].tokens # {} =>
    task[k].leaver \in Peer /\ task[k].pc \in {"next"} \union Removing

LEMMA CleaningNext == P2PTypeOK /\ Cleaning /\ [Next]_vars => Cleaning'
<1> SUFFICES ASSUME P2PTypeOK, Cleaning, [Next]_vars PROVE Cleaning'
  OBVIOUS
<1> USE DEF vars, tables
<1>1. ASSUME NEW k \in Task, NEW r \in TaskState, Become(k, r),
             r.tokens # {} => r.leaver \in Peer /\ r.pc \in {"next"} \union Removing
      PROVE  Cleaning'
  BY <1>1 DEF Become, Cleaning, P2PTypeOK
<1>2. ASSUME NEW t \in Token, SignalOf(t) PROVE Cleaning'
  BY <1>2, SignalKeepsSessions DEF Cleaning
<1>3. ASSUME NEW k \in Task, NEW t \in Token, Request(k, t) \/ Drop(k, t) PROVE Cleaning'
  <2> DEFINE r(pc) == [Idle EXCEPT !.pc = pc, !.token = t]
  <2>1. /\ r("arm") \in TaskState /\ r("untrack_initiator") \in TaskState
        /\ r("arm").tokens = {} /\ r("untrack_initiator").tokens = {}
    BY DEF Idle, TaskState, PC, Removing
  <2>2. Become(k, r("arm")) \/ Become(k, r("untrack_initiator"))
    BY <1>3 DEF Request, Drop, Remove
  <2> HIDE DEF r
  <2> QED
    BY <2>1, <2>2, <1>1
<1>4. ASSUME NEW k \in Task, NEW p \in Peer, Leave(k, p) PROVE Cleaning'
  <2> DEFINE r == [Idle EXCEPT !.pc = "next", !.leaver = p, !.tokens = peer_sessions[p]]
  <2>1. r \in TaskState /\ r.leaver \in Peer /\ r.pc = "next"
    BY DEF Idle, TaskState, PC, P2PTypeOK
  <2>2. Become(k, r)
    BY <1>4 DEF Leave
  <2> HIDE DEF r
  <2> QED
    BY <2>1, <2>2, <1>1
<1>5. ASSUME NEW k \in Task, TaskStep(k) PROVE Cleaning'
  <2>0. task[k] \in TaskState
    BY DEF P2PTypeOK
  <2>i. Idle.tokens = {}
    BY DEF Idle
  <2>1. ASSUME NEW pc \in PC, Go(k, pc),
               task[k].tokens # {} => pc \in {"next"} \union Removing
        PROVE  Cleaning'
    <3> DEFINE r == [task[k] EXCEPT !.pc = pc]
    <3>1. r \in TaskState /\ r.tokens = task[k].tokens /\ r.leaver = task[k].leaver /\ r.pc = pc
      BY <2>0 DEF TaskState
    <3>2. Become(k, r)
      BY <2>1 DEF Go
    <3> HIDE DEF r
    <3> QED
      BY <3>1, <3>2, <2>1, <1>1 DEF Cleaning
  <2>2. CASE Arm(k) \/ TrackInitiator(k)
    <3>1. task[k].tokens = {}
      BY <2>2 DEF Arm, TrackInitiator, Cleaning, Removing
    <3>2. "track_initiator" \in PC /\ "track_target" \in PC
      BY DEF PC
    <3> QED
      BY <2>2, <3>1, <3>2, <2>1 DEF Arm, TrackInitiator
  <2>3. CASE UntrackInitiator(k) \/ UntrackTarget(k)
    <3>1. {"untrack_target", "unlink"} \subseteq PC \intersect Removing
      BY DEF PC, Removing
    <3> QED
      BY <2>3, <3>1, <2>1 DEF UntrackInitiator, UntrackTarget
  <2>4. CASE TrackTarget(k) \/ Left(k)
    BY <2>4, <2>i, <1>1, IdleTyped DEF TrackTarget, Left
  <2>5. CASE Unlink(k)
    <3>1. "next" \in PC
      BY DEF PC
    <3> QED
      BY <2>5, <3>1, <2>i, <2>1, <1>1, IdleTyped DEF Unlink
  <2>6. CASE RemoveNext(k)
    <3>1. PICK t \in task[k].tokens :
            LET left == [task[k] EXCEPT !.tokens = @ \ {t}] IN
              \/ sessions[t] = None /\ Become(k, left) /\ UNCHANGED sessions
              \/ Remove(k, t, [left EXCEPT !.pc = "untrack_initiator", !.token = t])
      BY <2>6 DEF RemoveNext
    <3>2. t \in Token /\ task[k].leaver \in Peer /\ task[k].pc = "next"
      BY <2>0, <2>6, <3>1 DEF RemoveNext, TaskState, Cleaning
    <3> DEFINE left == [task[k] EXCEPT !.tokens = @ \ {t}]
               removal == [left EXCEPT !.pc = "untrack_initiator", !.token = t]
    <3>3. left \in TaskState /\ left.leaver \in Peer /\ left.pc = "next"
      BY <2>0, <3>2 DEF TaskState
    <3>4. removal \in TaskState /\ removal.leaver \in Peer /\ removal.pc \in Removing
      BY <3>2, <3>3 DEF TaskState, PC, Removing
    <3>5. Become(k, left) \/ Become(k, removal)
      BY <3>1 DEF Remove
    <3> HIDE DEF left, removal
    <3> QED
      BY <3>3, <3>4, <3>5, <1>1
  <2> QED
    BY <1>5, <2>2, <2>3, <2>4, <2>5, <2>6 DEF TaskStep
<1>6. CASE UNCHANGED vars
  BY <1>6 DEF Cleaning
<1> QED
  BY <1>2, <1>3, <1>4, <1>5, <1>6 DEF Next, Signal, SignalOf

Found(t, p) == t \in peer_sessions[p] \/ BeingTracked(t, p) \/ BeingLeft(t, p)

\* A step that arms no session: what is found before it is found after it,
\* unless the session is gone or its token is stray.
LEMMA TrackedStep ==
  ASSUME SessionsTracked, stray \subseteq stray',
         \A t \in Token \ stray' : sessions'[t] # None =>
           /\ sessions[t] # None
           /\ \A p \in Parties(t) : Found(t, p) => Found(t, p)'
  PROVE  SessionsTracked'
BY DEF SessionsTracked, Found

\* A task that moves on within its work keeps its token and what it has to do.
LEMMA GoKeeps ==
  ASSUME P2PTypeOK, NEW k \in Task, NEW pc, Go(k, pc)
  PROVE  /\ \A j \in Task : task'[j].token = task[j].token
         /\ \A j \in Task : task'[j].leaver = task[j].leaver
         /\ \A j \in Task : task'[j].tokens = task[j].tokens
         /\ \A j \in Task : task'[j].pc = IF j = k THEN pc ELSE task[j].pc
BY DEF P2PTypeOK, TaskState, Go, Become

LEMMA TrackedNext ==
  P2PTypeOK /\ Cleaning /\ SessionsTracked /\ [Next]_vars => SessionsTracked'
<1> SUFFICES ASSUME P2PTypeOK, Cleaning, SessionsTracked, [Next]_vars
             PROVE  SessionsTracked'
  OBVIOUS
<1> USE DEF vars, tables
<1>0. \A t \in Token : Parties(t) \subseteq Peer /\ Initiator[t] \in Parties(t)
                        /\ Target[t] \in Parties(t)
  BY PartiesAssumption DEF Parties
<1>1. ASSUME NEW t \in Token, SignalOf(t) PROVE SessionsTracked'
  BY <1>1, SignalKeepsSessions DEF SessionsTracked, BeingTracked, BeingLeft
\* A task that neither tracks nor has tokens left takes up or ends its work.
<1>2. ASSUME NEW k \in Task, NEW r, Become(k, r),
             task[k].pc \notin {"track_initiator", "track_target"},
             task[k].tokens = {}, UNCHANGED <<peer_sessions, stray>>,
             \A t \in Token : sessions'[t] # None => sessions[t] # None
      PROVE  SessionsTracked'
  <2>1. \A j \in Task : task'[j] = IF j = k THEN r ELSE task[j]
    BY <1>2 DEF Become, P2PTypeOK
  <2>2. \A t \in Token, p \in Peer : Found(t, p) => Found(t, p)'
    BY <1>2, <2>1 DEF Found, BeingTracked, BeingLeft
  <2> QED
    BY <1>0, <1>2, <2>2, TrackedStep
<1>3. ASSUME NEW k \in Task, task[k].pc = "idle" PROVE task[k].tokens = {}
  BY <1>3 DEF Cleaning, Removing
<1>4. ASSUME NEW k \in Task, NEW t \in Token, Request(k, t) PROVE SessionsTracked'
  BY <1>4, <1>3, <1>2 DEF Request
<1>5. ASSUME NEW k \in Task, NEW t \in Token, Drop(k, t) PROVE SessionsTracked'
  <2>1. \A u \in Token : sessions'[u] # None => sessions[u] # None
    BY <1>5 DEF Drop, Remove, P2PTypeOK
  <2> QED
    BY <1>5, <2>1, <1>3, <1>2 DEF Drop, Remove
<1>6. ASSUME NEW k \in Task, NEW p \in Peer, Leave(k, p) PROVE SessionsTracked'
  <2> DEFINE r == [Idle EXCEPT !.pc = "next", !.leaver = p, !.tokens = peer_sessions[p]]
  <2>1. r.leaver = p /\ r.tokens = peer_sessions[p]
    BY DEF Idle
  <2>2. Become(k, r)
    BY <1>6 DEF Leave
  <2> HIDE DEF r
  <2>3. \A j \in Task : task'[j] = IF j = k THEN r ELSE task[j]
    BY <2>2 DEF Become, P2PTypeOK
  <2>4. ASSUME NEW t \in Token, NEW q \in Peer, Found(t, q) PROVE Found(t, q)'
    <3>1. CASE t \in peer_sessions[q] /\ q = p
      BY <2>1, <2>3, <3>1 DEF Found, BeingLeft
    <3>2. CASE t \in peer_sessions[q] /\ q # p
      BY <1>6, <3>2 DEF Leave, Found, P2PTypeOK
    <3>3. CASE BeingTracked(t, q)
      BY <1>6, <2>3, <3>3 DEF Leave, Found, BeingTracked
    <3>4. CASE BeingLeft(t, q)
      BY <1>6, <1>3, <2>3, <3>4 DEF Leave, Found, BeingLeft
    <3> QED
      BY <2>4, <3>1, <3>2, <3>3, <3>4 DEF Found
  <2> QED
    BY <1>0, <1>6, <2>4, TrackedStep DEF Leave
<1>7. ASSUME NEW k \in Task, TaskStep(k) PROVE SessionsTracked'
  <2>0. task[k] \in TaskState
    BY DEF P2PTypeOK
  <2>1. CASE Arm(k)
    <3>1. task[k].token \in Token
      BY <2>1, WorkingOnToken DEF Arm
    <3>2. /\ \A j \in Task : task'[j].token = task[j].token
          /\ \A j \in Task : task'[j].leaver = task[j].leaver
          /\ \A j \in Task : task'[j].tokens = task[j].tokens
          /\ \A j \in Task : task'[j].pc = IF j = k THEN "track_initiator" ELSE task[j].pc
      BY <2>1, GoKeeps DEF Arm
    <3>3. \A t \in Token : t # task[k].token => sessions'[t] = sessions[t]
      BY <2>1 DEF Arm, P2PTypeOK
    <3>4. \A t \in Token, p \in Peer : t = task[k].token => BeingTracked(t, p)'
      BY <3>2 DEF BeingTracked
    <3>5. \A t \in Token, p \in Peer : Found(t, p) => Found(t, p)'
      BY <2>1, <3>2 DEF Arm, Found, BeingTracked, BeingLeft
    <3>6. ASSUME NEW t \in Token \ stray', sessions'[t] # None, NEW p \in Parties(t)
          PROVE  Found(t, p)'
      <4>1. t \in Token \ stray /\ p \in Peer
        BY <1>0, <2>1, <3>6 DEF Arm
      <4>2. CASE t = task[k].token
        BY <3>4, <4>1, <4>2 DEF Found
      <4>3. CASE t # task[k].token
        BY <3>3, <3>5, <3>6, <4>1, <4>3 DEF SessionsTracked, Found
      <4> QED
        BY <4>2, <4>3
    <3> QED
      BY <3>6 DEF SessionsTracked, Found, Parties
  <2>2. CASE TrackInitiator(k)
    <3>1. task[k].token \in Token
      BY <2>2, WorkingOnToken DEF TrackInitiator
    <3>2. /\ \A j \in Task : task'[j].token = task[j].token
          /\ \A j \in Task : task'[j].leaver = task[j].leaver
          /\ \A j \in Task : task'[j].tokens = task[j].tokens
          /\ \A j \in Task : task'[j].pc = IF j = k THEN "track_target" ELSE task[j].pc
      BY <2>2, GoKeeps DEF TrackInitiator
    <3>3. /\ \A p \in Peer : peer_sessions[p] \subseteq peer_sessions'[p]
          /\ task[k].token \in peer_sessions'[Initiator[task[k].token]]
      BY <2>2, <3>1, PartiesArePeers DEF TrackInitiator, Track, P2PTypeOK
    <3>4. ASSUME NEW t \in Token, NEW p \in Parties(t), Found(t, p) PROVE Found(t, p)'
      BY <1>0, <2>2, <3>2, <3>3, <3>4
         DEF TrackInitiator, Found, BeingTracked, BeingLeft, Parties
    <3> QED
      BY <2>2, <3>4, TrackedStep DEF TrackInitiator
  <2>3. CASE TrackTarget(k)
    <3>1. task[k].token \in Token
      BY <2>3, WorkingOnToken DEF TrackTarget
    <3>2. task[k].tokens = {}
      BY <2>3 DEF TrackTarget, Cleaning, Removing
    <3>3. /\ \A p \in Peer : peer_sessions[p] \subseteq peer_sessions'[p]
          /\ task[k].token \in peer_sessions'[Target[task[k].token]]
      BY <2>3, <3>1, PartiesArePeers DEF TrackTarget, Track, P2PTypeOK
    <3>4. \A j \in Task \ {k} : task'[j] = task[j]
      BY <2>3 DEF TrackTarget, Become, P2PTypeOK
    <3>5. ASSUME NEW t \in Token, NEW p \in Parties(t), Found(t, p) PROVE Found(t, p)'
      BY <1>0, <2>3, <3>2, <3>3, <3>4, <3>5
         DEF TrackTarget, Found, BeingTracked, BeingLeft
    <3> QED
      BY <2>3, <3>5, TrackedStep DEF TrackTarget
  <2>4. CASE UntrackInitiator(k) \/ UntrackTarget(k)
    <3>1. task[k].token \in Token
      BY <2>4, WorkingOnToken DEF UntrackInitiator, UntrackTarget
    <3>2. /\ \A j \in Task : task'[j].token = task[j].token
          /\ \A j \in Task : task'[j].leaver = task[j].leaver
          /\ \A j \in Task : task'[j].tokens = task[j].tokens
          /\ \A j \in Task : task[j].pc \notin Removing => task'[j].pc = task[j].pc
      BY <2>4, GoKeeps DEF UntrackInitiator, UntrackTarget, Removing
    <3>3. /\ stray \subseteq stray'
          /\ sessions[task[k].token] # None => task[k].token \in stray'
      BY <2>4 DEF UntrackInitiator, UntrackTarget, Untrack
    <3>4. \A p \in Peer : peer_sessions[p] \subseteq peer_sessions'[p] \union {task[k].token}
      BY <2>4 DEF UntrackInitiator, UntrackTarget, Untrack, P2PTypeOK
    <3>5. \A t \in Token \ {task[k].token}, p \in Peer : Found(t, p) => Found(t, p)'
      BY <3>2, <3>4 DEF Found, BeingTracked, BeingLeft, Removing
    <3>6. UNCHANGED sessions
      BY <2>4 DEF UntrackInitiator, UntrackTarget
    <3> QED
      BY <1>0, <3>3, <3>5, <3>6, TrackedStep
  <2>5. CASE Unlink(k)
    <3>1. CASE task[k].leaver = None
      <4>1. task[k].tokens = {}
        BY <3>1, NoneAssumption DEF Cleaning
      <4> QED
        BY <2>5, <3>1, <4>1, <1>2 DEF Unlink
    <3>2. CASE task[k].leaver # None
      <4>1. /\ \A j \in Task : task'[j].token = task[j].token
            /\ \A j \in Task : task'[j].leaver = task[j].leaver
            /\ \A j \in Task : task'[j].tokens = task[j].tokens
            /\ \A j \in Task : task[j].pc # "unlink" => task'[j].pc = task[j].pc
        BY <2>5, <3>2, GoKeeps DEF Unlink
      <4>2. \A t \in Token, p \in Peer : Found(t, p) => Found(t, p)'
        BY <2>5, <4>1 DEF Unlink, Found, BeingTracked, BeingLeft
      <4> QED
        BY <1>0, <2>5, <4>2, TrackedStep DEF Unlink
    <3> QED
      BY <3>1, <3>2
  <2>6. CASE RemoveNext(k)
    <3>1. PICK t \in task[k].tokens :
            LET left == [task[k] EXCEPT !.tokens = @ \ {t}] IN
              \/ sessions[t] = None /\ Become(k, left) /\ UNCHANGED sessions
              \/ Remove(k, t, [left EXCEPT !.pc = "untrack_initiator", !.token = t])
      BY <2>6 DEF RemoveNext
    <3>2. t \in Token /\ task[k].pc = "next"
      BY <2>0, <2>6 DEF RemoveNext, TaskState
    <3> DEFINE left == [task[k] EXCEPT !.tokens = @ \ {t}]
               removal == [left EXCEPT !.pc = "untrack_initiator", !.token = t]
    <3>3. /\ left.leaver = task[k].leaver /\ left.tokens = task[k].tokens \ {t}
          /\ removal.leaver = task[k].leaver /\ removal.tokens = task[k].tokens \ {t}
      BY <2>0 DEF TaskState
    <3>4. Become(k, left) \/ Become(k, removal)
      BY <3>1 DEF Remove
    <3> HIDE DEF left, removal
    <3>5. /\ sessions'[t] = None
          /\ \A u \in Token : sessions'[u] # None => sessions[u] # None
      BY <3>1, <3>2 DEF Remove, P2PTypeOK
    <3>6. /\ \A j \in Task \ {k} : task'[j] = task[j]
          /\ task'[k].leaver = task[k].leaver /\ task'[k].tokens = task[k].tokens \ {t}
      BY <3>3, <3>4 DEF Become, P2PTypeOK
    <3>7. \A u \in Token \ {t}, p \in Peer : Found(u, p) => Found(u, p)'
      BY <2>6, <3>2, <3>6 DEF RemoveNext, Found, BeingTracked, BeingLeft
    <3>8. UNCHANGED stray
      BY <2>6 DEF RemoveNext
    <3>9. ASSUME NEW u \in Token \ stray', sessions'[u] # None
          PROVE  sessions[u] # None /\ \A p \in Parties(u) : Found(u, p) => Found(u, p)'
      BY <1>0, <3>5, <3>7, <3>9
    <3> QED
      BY <3>8, <3>9, TrackedStep
  <2>7. CASE Left(k)
    BY <2>7, <1>2 DEF Left
  <2> QED
    BY <1>7, <2>1, <2>2, <2>3, <2>4, <2>5, <2>6, <2>7 DEF TaskStep
<1>8. CASE UNCHANGED vars
  BY <1>8 DEF SessionsTracked, BeingTracked, BeingLeft
<1> QED
  BY <1>1, <1>4, <1>5, <1>6, <1>7, <1>8 DEF Next, Signal, SignalOf

\* A session can be found from both its players, so that remove_peer ends it
\* when either leaves; only a session armed again while remove_session worked on
\* its token escapes (track_peer_session and untrack_peer_session, p2p.rs).
THEOREM SessionsFound == Spec => []SessionsTracked
<1>1. Init => Cleaning /\ SessionsTracked
  BY DEF Init, Idle, Cleaning, SessionsTracked
<1>2. P2PTypeOK /\ (Cleaning /\ SessionsTracked) /\ [Next]_vars
        => (Cleaning /\ SessionsTracked)'
  BY CleaningNext, TrackedNext
<1> QED
  BY <1>1, <1>2, P2PTypes, PTL DEF Spec
=============================================================================
