------------------------------ MODULE Globals ------------------------------
(****************************************************************************)
(* The settings that hold for all players: locks that admins toggle, and    *)
(* whether headless clients may join. A change is told to every player, a   *)
(* new player is told of all settings at the end of its join, and one may   *)
(* ask. All run as tasks: each step below is one access to global_state or  *)
(* the configuration, or one message. The six locks are toggled and sent by *)
(* the same code, the settings of audio and Opus are set and sent as        *)
(* disallow_headless is.                                                    *)
(*                                                                          *)
(* The server starts with the settings of its configuration, but only       *)
(* disallow_headless is ever copied back to it. The locks in force and      *)
(* those of the configuration go separate ways: a toggle leaves the         *)
(* configuration alone, and /config sets a lock there that is not in force  *)
(* before the next start. So nothing is said of the locks there.            *)
(****************************************************************************)
EXTENDS Naturals, FiniteSets

CONSTANTS
  Player,     \* connections; each is used once
  Headless,   \* those that say they have no screen
  Lock,       \* the locks
  Doer,       \* tasks that run commands
  MaxOrders   \* bounds the commands

ASSUME HeadlessAssumption == Headless \subseteq Player

VARIABLES
  locks,      \* global_state: the locks that are set
  disallow,   \* global_state.disallow_headless
  configured, \* config.disallow_headless
  alive,      \* transport.peers
  entered,    \* authenticated_peers
  entry,      \* what each connection is at
  doer,       \* what each task is at
  told,       \* what each client last heard of the locks and of disallow_headless
  orders,     \* commands begun, bounds the run
  muddled,    \* history: <<player, setting>> whose last two messages were under way at once
  clashed,    \* history: the configuration was last set by two commands at once
  late        \* history: headless players that were being entered while the others were sent away

globalVars == <<locks, disallow, configured, alive, entered, entry, doer, told, orders,
                muddled, clashed, late>>

Setting == {"locks", "disallow"}
Waiting == [at |-> "idle", of |-> "locks", value |-> {}, todo |-> {}]
Outside == [at |-> "new", locks |-> {}, disallow |-> FALSE]
Unheard == [locks |-> {}, disallow |-> FALSE]

\* GlobalState::from: what the configuration says, which may be anything
GlobalInit ==
  /\ locks \in SUBSET Lock /\ disallow \in BOOLEAN /\ configured = disallow
  /\ alive = {} /\ entered = {}
  /\ entry = [p \in Player |-> Outside]
  /\ doer = [d \in Doer |-> Waiting]
  /\ told = [p \in Player |-> Unheard]
  /\ orders = 0 /\ muddled = {} /\ clashed = FALSE /\ late = {}

Settings == <<locks, disallow, configured>>
Peers == <<alive, entered, entry>>

\* Whom a task that has begun may still tell of what.
ToldBy(d) ==
  CASE doer[d].at \in {"read", "configure", "send"} -> Player \X {doer[d].of}
    [] doer[d].at = "answer" -> doer[d].todo \X {"locks"}
    [] OTHER -> {}
ToldByEntry(p) == IF entry[p].at = "greet" THEN {p} \X Setting ELSE {}
BeingTold ==
  (UNION {ToldBy(d) : d \in Doer}) \union (UNION {ToldByEntry(p) : p \in Player})

\* A message about scope begins: what is under way for the same may overtake it.
Begins(scope) == muddled' = (muddled \ scope) \union (scope \intersect BeingTold)

Set(d, record) == doer' = [doer EXCEPT ![d] = record]
At(d, step) == doer' = [doer EXCEPT ![d].at = step]

-----------------------------------------------------------------------------
(* A player joins: handle_connection_request, finalize_accept, and at its   *)
(* end send_initial_admin_state_to_peer.                                    *)

EntryAt(p, step) == entry' = [entry EXCEPT ![p].at = step]

\* Only a headless client is checked, and refused.
Admit(p) ==
  /\ entry[p].at = "new" /\ (p \in Headless => ~ disallow)
  /\ alive' = alive \union {p}
  /\ EntryAt(p, "insert")
  /\ UNCHANGED <<Settings, entered, doer, told, orders, muddled, clashed, late>>

Enter(p) ==
  /\ entry[p].at = "insert"
  /\ entered' = entered \union {p}
  /\ EntryAt(p, "globals")
  /\ UNCHANGED <<Settings, alive, doer, told, orders, muddled, clashed, late>>

ReadGlobals(p) ==
  /\ entry[p].at = "globals"
  /\ entry' = [entry EXCEPT ![p] = [at |-> "greet", locks |-> locks, disallow |-> disallow]]
  /\ Begins({p} \X Setting)
  /\ UNCHANGED <<Settings, alive, entered, doer, told, orders, clashed, late>>

Greet(p) ==
  /\ entry[p].at = "greet"
  /\ told' = [told EXCEPT ![p] = [locks |-> entry[p].locks, disallow |-> entry[p].disallow]]
  /\ entry' = [entry EXCEPT ![p] = [Outside EXCEPT !.at = "in"]]
  /\ UNCHANGED <<Settings, alive, entered, doer, orders, muddled, clashed, late>>

\* The player leaves by itself, and handle_disconnect takes it out.
Depart(p) ==
  /\ entry[p].at = "in" /\ p \in alive
  /\ alive' = alive \ {p}
  /\ EntryAt(p, "out")
  /\ UNCHANGED <<Settings, entered, doer, told, orders, muddled, clashed, late>>

TakeOut(p) ==
  /\ entry[p].at = "out" /\ p \in entered
  /\ entered' = entered \ {p}
  /\ UNCHANGED <<Settings, alive, entry, doer, told, orders, muddled, clashed, late>>

-----------------------------------------------------------------------------
(* Commands *)

Ordered(d) == doer[d] = Waiting /\ orders < MaxOrders /\ orders' = orders + 1

\* Mutant: what is sent was read before the lock was turned over.
ToggleSentOld(d, l) ==
  /\ Ordered(d)
  /\ locks' = IF l \in locks THEN locks \ {l} ELSE locks \union {l}
  /\ Set(d, [Waiting EXCEPT !.at = "send", !.value = locks, !.todo = Player])
  /\ Begins(Player \X {"locks"})
  /\ UNCHANGED <<disallow, configured, Peers, told, clashed, late>>

\* GlobalToggle...: the value is turned over under the lock, then read anew.
Toggle(d, l) ==
  /\ Ordered(d)
  /\ locks' = IF l \in locks THEN locks \ {l} ELSE locks \union {l}
  /\ Set(d, [Waiting EXCEPT !.at = "read"])
  /\ Begins(Player \X {"locks"})
  /\ UNCHANGED <<disallow, configured, Peers, told, clashed, late>>

\* broadcast_lock_state
ReadLocks(d) ==
  /\ doer[d].at = "read"
  /\ Set(d, [doer[d] EXCEPT !.at = "send", !.value = locks, !.todo = Player])
  /\ UNCHANGED <<Settings, Peers, told, orders, muddled, clashed, late>>

\* SetGlobalHeadlessDisallow: in global_state, then in the configuration.
Disallow(d, v) ==
  /\ Ordered(d)
  /\ disallow' = v
  /\ Set(d, [Waiting EXCEPT !.at = "configure", !.of = "disallow", !.value = {v}])
  /\ Begins(Player \X {"disallow"})
  /\ clashed' = \E e \in Doer : doer[e].at = "configure"
  /\ UNCHANGED <<locks, configured, Peers, told, late>>

Configure(d) ==
  /\ doer[d].at = "configure"
  /\ configured' = (TRUE \in doer[d].value)
  /\ Set(d, [doer[d] EXCEPT !.at = "send", !.todo = Player])
  /\ UNCHANGED <<locks, disallow, Peers, told, orders, muddled, clashed, late>>

\* broadcast visits q
Tell(d, q) ==
  /\ doer[d].at = "send" /\ q \in doer[d].todo
  /\ doer' = [doer EXCEPT ![d].todo = @ \ {q}]
  /\ told' = IF q \notin entered \intersect alive THEN told
             ELSE IF doer[d].of = "locks" THEN [told EXCEPT ![q].locks = doer[d].value]
             ELSE [told EXCEPT ![q].disallow = TRUE \in doer[d].value]
  /\ UNCHANGED <<Settings, Peers, orders, muddled, clashed, late>>

\* The broadcast is over; a command that forbids headless clients goes on to
\* disconnect those that it finds.
Told(d) ==
  /\ doer[d].at = "send" /\ doer[d].todo = {}
  /\ IF doer[d].of = "disallow" /\ TRUE \in doer[d].value
       THEN At(d, "collect") ELSE Set(d, Waiting)
  /\ UNCHANGED <<Settings, Peers, told, orders, muddled, clashed, late>>

\* disconnect_headless_peers
Collect(d) ==
  /\ doer[d].at = "collect"
  /\ Set(d, [doer[d] EXCEPT !.at = "away", !.todo = entered \intersect Headless])
  /\ late' = late \union {p \in Headless : entry[p].at = "insert"}
  /\ UNCHANGED <<Settings, Peers, told, orders, muddled, clashed>>

SendAway(d, q) ==
  /\ doer[d].at = "away" /\ q \in doer[d].todo
  /\ alive' = alive \ {q}
  /\ doer' = [doer EXCEPT ![d].todo = @ \ {q}]
  /\ UNCHANGED <<Settings, entered, entry, told, orders, muddled, clashed, late>>

Away(d) ==
  /\ doer[d].at = "away" /\ doer[d].todo = {}
  /\ Set(d, Waiting)
  /\ UNCHANGED <<Settings, Peers, told, orders, muddled, clashed, late>>

\* GlobalGetLockState: a player asks, and is answered with what was read.
Ask(d, p) ==
  /\ Ordered(d) /\ entry[p].at = "in" /\ p \in alive
  /\ Set(d, [Waiting EXCEPT !.at = "answer", !.value = locks, !.todo = {p}])
  /\ Begins({p} \X {"locks"})
  /\ UNCHANGED <<Settings, Peers, told, clashed, late>>

Answer(d, p) ==
  /\ doer[d].at = "answer" /\ p \in doer[d].todo
  /\ told' = IF p \in alive THEN [told EXCEPT ![p].locks = doer[d].value] ELSE told
  /\ Set(d, Waiting)
  /\ UNCHANGED <<Settings, Peers, orders, muddled, clashed, late>>

GlobalNext ==
  \/ \E p \in Player :
       Admit(p) \/ Enter(p) \/ ReadGlobals(p) \/ Greet(p) \/ Depart(p) \/ TakeOut(p)
  \/ \E d \in Doer :
       \/ \E l \in Lock : Toggle(d, l)
       \/ \E v \in BOOLEAN : Disallow(d, v)
       \/ \E p \in Player : Ask(d, p) \/ Answer(d, p) \/ Tell(d, p) \/ SendAway(d, p)
       \/ ReadLocks(d) \/ Configure(d) \/ Told(d) \/ Collect(d) \/ Away(d)

-----------------------------------------------------------------------------
\* A player that has joined knows each setting as it is, once no message about it
\* is under way, but for one of which the last two messages were under way at once.
SettingsTold ==
  \A p \in alive : entry[p].at = "in" => \A s \in Setting :
    \/ <<p, s>> \in muddled \union BeingTold
    \/ told[p][s] = IF s = "locks" THEN locks ELSE disallow

\* While headless clients are forbidden, none has a connection once the command
\* has run, but one that was being entered while it looked for them.
HeadlessAreGone ==
  \/ ~ disallow
  \/ \E d \in Doer : doer[d].of = "disallow"
  \/ \A p \in alive \intersect Headless : p \in late

GlobalsTyped ==
  /\ locks \subseteq Lock /\ disallow \in BOOLEAN /\ configured \in BOOLEAN
  /\ alive \subseteq Player /\ entered \subseteq Player /\ late \subseteq Headless
  /\ \A p \in Player : entry[p].at \in {"new", "insert", "globals", "greet", "in", "out"}
  /\ \A d \in Doer : doer[d].at \in {"idle", "read", "configure", "send", "collect", "away", "answer"}
  /\ told \in [Player -> [locks : SUBSET Lock, disallow : BOOLEAN]]
  /\ muddled \subseteq Player \X Setting

\* The configuration forbids headless clients when they are forbidden, unless two
\* commands set that at once.
ConfigurationAgrees ==
  \/ clashed
  \/ \E d \in Doer : doer[d].at = "configure"
  \/ configured = disallow
=============================================================================
