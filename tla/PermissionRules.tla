-------------------------- MODULE PermissionRules --------------------------
(****************************************************************************)
(* Who may do what. A user has entries of its own and those of its groups   *)
(* and of their parents, and an entry that starts with '-' denies. A check  *)
(* of one node walks through all of them under the lock of the store, so    *)
(* that commands wait for its end. Checks only read: one stands for many.   *)
(*                                                                          *)
(* Path are the nodes that bear on the checked one: itself, the wildcards   *)
(* above it from the longest on, and "*". Entries for other nodes, decided  *)
(* apart from these, are left out.                                          *)
(****************************************************************************)
EXTENDS Permissions, Sequences

CONSTANT Path   \* the nodes that bear on the checked one, most specific first

Node  == {Path[i] : i \in DOMAIN Path}
Frame == Person \union Group

ASSUME PathAssumption == DOMAIN Path \subseteq Nat /\ Raw \subseteq [node : Node, allow : BOOLEAN]

VARIABLES
  asked,      \* whom the check is about, Absent if there is none
  stack,      \* the calls under way: for the user, for a group, for a parent of it, ...
  above,      \* the groups that each call has yet to go to
  own,        \* the entries that each call has yet to apply
  visited, decisions

ruleVars == <<asked, stack, above, own, visited, decisions>>

Undecided == [n \in Node |-> "none"]

RulesInit ==
  /\ asked = Absent /\ stack = <<>>
  /\ above = [f \in Frame |-> {}] /\ own = [f \in Frame |-> {}]
  /\ visited = {} /\ decisions = Undecided

-----------------------------------------------------------------------------
Top == stack[Len(stack)]

\* effective_decisions, which locks the store. Who is not in it has no rules.
Check(u) ==
  /\ asked = Absent
  /\ asked' = u
  /\ IF store.users[u] = Absent THEN UNCHANGED <<stack, above, own>>
     ELSE /\ stack' = <<u>>
          /\ above' = [above EXCEPT ![u] = store.users[u].groups]
          /\ own' = [own EXCEPT ![u] = store.users[u].nodes]
  /\ UNCHANGED <<visited, decisions>>

\* apply_group: each group once, if it exists. A hash set gives its groups in any order.
EnterGroup(g) ==
  /\ stack # <<>> /\ g \in above[Top]
  /\ visited' = visited \union {g}
  /\ IF g \in visited \/ store.groups[g] = Absent
       THEN /\ above' = [above EXCEPT ![Top] = @ \ {g}]
            /\ UNCHANGED <<stack, own>>
       ELSE /\ above' = [above EXCEPT ![Top] = @ \ {g}, ![g] = store.groups[g].parents]
            /\ own' = [own EXCEPT ![g] = store.groups[g].nodes]
            /\ stack' = Append(stack, g)
  /\ UNCHANGED <<asked, decisions>>

Decide(raw) == [decisions EXCEPT ![raw.node] = IF raw.allow THEN "allow" ELSE "deny"]

\* apply_raw_nodes, after the groups above, in any order. Mutant: the last entry wins.
ApplyRawLast(raw) ==
  /\ stack # <<>> /\ above[Top] = {} /\ raw \in own[Top]
  /\ own' = [own EXCEPT ![Top] = @ \ {raw}]
  /\ decisions' = Decide(raw)
  /\ UNCHANGED <<asked, stack, above, visited>>

ApplyRaw(raw) ==
  /\ stack # <<>> /\ above[Top] = {} /\ raw \in own[Top]
  /\ own' = [own EXCEPT ![Top] = @ \ {raw}]
  /\ decisions' = IF decisions[raw.node] = "deny" THEN decisions ELSE Decide(raw)
  /\ UNCHANGED <<asked, stack, above, visited>>

Return ==
  /\ stack # <<>> /\ above[Top] = {} /\ own[Top] = {}
  /\ stack' = SubSeq(stack, 1, Len(stack) - 1)
  /\ UNCHANGED <<asked, above, own, visited, decisions>>

\* The answer is given, and the lock given back.
EndCheck ==
  /\ asked # Absent /\ stack = <<>>
  /\ asked' = Absent /\ visited' = {} /\ decisions' = Undecided
  /\ UNCHANGED <<stack, above, own>>

\* check_node: what the answer is once the check is through.
check_node ==
  \E i \in DOMAIN Path :
    /\ decisions[Path[i]] = "allow"
    /\ \A j \in DOMAIN Path : j < i => decisions[Path[j]] = "none"

RulesNext ==
  \/ \E u \in Person : Check(u)
  \/ \E g \in Group : EnterGroup(g)
  \/ \E raw \in Raw : ApplyRaw(raw)
  \/ Return \/ EndCheck

\* Whoever would change the store waits for the check.
RightsNext ==
  \/ PermNext /\ (asked # Absent => store' = store) /\ UNCHANGED ruleVars
  \/ RulesNext /\ UNCHANGED permVars

-----------------------------------------------------------------------------
RulesTyped ==
  /\ asked \in Person \union {Absent}
  /\ stack \in Seq(Frame)
  /\ above \in [Frame -> SUBSET Group] /\ own \in [Frame -> SUBSET Raw]
  /\ visited \subseteq Group
  /\ decisions \in [Node -> {"none", "allow", "deny"}]

\* The groups that a user is in, itself or through parents: those that no set of
\* groups leaves out which has the user's groups and the parents of each member.
Closed(u, groups) ==
  /\ store.users[u].groups \subseteq groups
  /\ \A g \in groups : store.groups[g] # Absent => store.groups[g].parents \subseteq groups

GroupsOf(u) == {g \in Group : \A groups \in SUBSET Group : Closed(u, groups) => g \in groups}

Entries(u) ==
  store.users[u].nodes
  \union UNION {store.groups[g].nodes : g \in {k \in GroupsOf(u) : store.groups[k] # Absent}}

Allowed(entries) ==
  \E i \in DOMAIN Path :
    /\ \E raw \in entries : raw.node = Path[i]
    /\ \A raw \in entries : raw.node = Path[i] => raw.allow
    /\ \A raw \in entries, j \in DOMAIN Path : j < i => raw.node # Path[j]

\* Whatever the order of the hash sets, and whichever groups are each other's
\* parents: the most specific node that any of a user's entries names decides, and
\* there one entry that denies outweighs all that allow.
DenyWins ==
  asked # Absent /\ stack = <<>> =>
    check_node = (store.users[asked] # Absent /\ Allowed(Entries(asked)))
=============================================================================
