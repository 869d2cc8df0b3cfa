-------------------------- MODULE MCAdministration --------------------------
(* The instance of Administration for model checking. *)
EXTENDS Administration, TLC

CONSTANTS default, staff, bot   \* the groups "default" and another; a headless player

OneAddress == [u \in User |-> CHOOSE ip \in Ip : TRUE]

AtMostOne == {list \in [User -> Ban] : Cardinality(Banned(list)) <= 1}

Rule(node, allow) == [node |-> node, allow |-> allow]
Nodes == <<"node", "wildcard", "*">>
Rules == {Rule("*", TRUE)} \union {Rule(n, a) : n \in {"node", "wildcard"}, a \in BOOLEAN}

\* The other group inherits from "default" and denies more than it allows.
Groups ==
  [k \in Group |->
    IF k = default THEN [nodes |-> {Rule("*", TRUE)}, parents |-> {}]
    ELSE [nodes |-> {Rule("wildcard", FALSE), Rule("node", TRUE)}, parents |-> {default}]]

\* The other topics start without bans and without a setting that is on.
MCInit ==
  /\ Init
  /\ topic # "bans" => bans = Clear
  /\ topic # "globals" => locks = {} /\ ~ disallow
MCSpec == MCInit /\ [][Next]_vars

Symmetry == Permutations(User) \union Permutations(Conn) \union Permutations(Worker)
=============================================================================
