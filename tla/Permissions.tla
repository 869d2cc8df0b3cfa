---------------------------- MODULE Permissions ----------------------------
(****************************************************************************)
(* The store of permissions: users and groups, each with nodes of its own,  *)
(* users with their groups and groups with their parents. Admins change it  *)
(* by messages, each saved to permissions.xml by the task that handles it;  *)
(* the console changes it too, without saving, and may save it or load it   *)
(* anew. Each step below is one access to the lock of the store or to the   *)
(* file. PermissionRules is about what the store allows.                    *)
(*                                                                          *)
(* Other paths of the file and the console's check and lists are left out.  *)
(****************************************************************************)
EXTENDS Naturals, FiniteSets

CONSTANTS
  Person,     \* uuids
  Group,      \* names of groups
  Default,    \* the group "default"
  Raw,        \* entries that admins add: a node, and whether it allows
  StartGroups,\* the groups that ensure_defaults enters
  Hand,       \* tasks that run commands, the console's among them
  Absent,     \* a user or group that is not in the store
  MaxChanges  \* bounds the commands

UserRecord  == [nodes : SUBSET Raw, groups : SUBSET Group]
GroupRecord == [nodes : SUBSET Raw, parents : SUBSET Group]

ASSUME DefaultAssumption == Default \in Group
ASSUME StartAssumption   == StartGroups \in [Group -> GroupRecord \union {Absent}]
ASSUME KindAssumption    ==     \* users, groups and entries are not of one kind
  /\ Person \intersect Group = {} /\ Group \intersect Raw = {}
  /\ Absent \notin Person \union Group \union Raw \union UserRecord \union GroupRecord

VARIABLES
  store,      \* PermissionStore
  permFile,   \* permissions.xml, as a load reads it: cut off at its start, an empty store
  hand,       \* what each task is at
  changes,    \* commands begun, bounds the run
  behind      \* history: the file need not say what the store says

permVars == <<store, permFile, hand, changes, behind>>

NewUser  == [nodes |-> {}, groups |-> {Default}]
NewGroup == [nodes |-> {}, parents |-> {}]
Empty == [users |-> [u \in Person |-> Absent], groups |-> [g \in Group |-> Absent]]

\* op: what to do; at: the next step; save: whether the command ends with a save;
\* to, what: the user or group to change and the entry or group to add.
Rest == [op |-> "none", at |-> "idle", save |-> FALSE, to |-> Absent, what |-> Absent, copy |-> Empty]

PermInit ==
  /\ store = [users |-> [u \in Person |-> Absent], groups |-> StartGroups]
  /\ permFile = store
  /\ hand = [h \in Hand |-> Rest]
  /\ changes = 0 /\ behind = FALSE

-----------------------------------------------------------------------------
(* Commands. An operation on a user or group first makes sure that it       *)
(* exists, under a lock of its own.                                         *)

Do(op, to, what, save) ==
  [Rest EXCEPT !.op = op, !.at = IF op \in {"delete", "remove", "defaults"} THEN "apply" ELSE "create",
               !.to = to, !.what = what, !.save = save]

\* SetUserGroup, SetUserNode, SetGroupNode, CreateGroup, DeleteGroup and
\* SetGroupParent of an admin; the console has the same but DeleteGroup, without
\* saving, and those that remove.
Adds(save) ==
  {Do("add", u, x, save) : u \in Person, x \in Group \union Raw}
  \union {Do("add", g, x, save) : g \in Group, x \in Group \union Raw \union {Absent}}

Removes(save) == {Do("remove", to, x, save) : to \in Person \union Group, x \in Group \union Raw}
Deletes == {Do("delete", g, Absent, TRUE) : g \in Group}
ByConsole ==
  {Do("add", u, Absent, FALSE) : u \in Person} \union
  {Do("defaults", Absent, Absent, FALSE),
   [Rest EXCEPT !.op = "save", !.at = "clone"],
   [Rest EXCEPT !.op = "load", !.at = "read"],
   [Rest EXCEPT !.op = "reload", !.at = "clone"]}

Commands == Adds(TRUE) \union Deletes \union Adds(FALSE) \union Removes(FALSE) \union ByConsole

\* The console runs one command at a time.
AtConsole(c) == c # Rest /\ ~ c.save

Order(h) ==
  /\ hand[h] = Rest /\ changes < MaxChanges
  /\ \E c \in Commands :
       /\ AtConsole(c) => \A v \in Hand : ~ AtConsole(hand[v])
       /\ hand' = [hand EXCEPT ![h] = c]
  /\ changes' = changes + 1
  /\ UNCHANGED <<store, permFile, behind>>

Ensured(groups, g) == IF groups[g] = Absent THEN [groups EXCEPT ![g] = NewGroup] ELSE groups

\* What follows a change: an admin's is saved, the console's is not.
CommandDone(h) ==
  /\ hand' = [hand EXCEPT ![h] = IF hand[h].save THEN [@ EXCEPT !.at = "clone"] ELSE Rest]
  /\ behind' = (behind \/ ~ hand[h].save)
  /\ UNCHANGED <<permFile, changes>>

\* Where a command's entry or group goes.
Table(c) == IF c.to \in Person THEN "users" ELSE "groups"
\* Mutant: a user's group goes among its nodes.
FieldMixed(c) == IF c.to \in Person \/ c.what \in Raw THEN "nodes" ELSE "parents"
Field(c) == IF c.what \in Raw THEN "nodes" ELSE IF c.to \in Person THEN "groups" ELSE "parents"

\* get_or_create_user, get_or_create_group
Create(h) ==
  /\ hand[h].at = "create"
  /\ store' = IF hand[h].to \in Person
                THEN [store EXCEPT !.users[hand[h].to] = IF @ = Absent THEN NewUser ELSE @]
                ELSE [store EXCEPT !.groups = Ensured(@, hand[h].to)]
  /\ IF hand[h].what = Absent THEN CommandDone(h)
     ELSE /\ hand' = [hand EXCEPT ![h].at = IF Field(hand[h]) = "parents" THEN "parent" ELSE "apply"]
          /\ UNCHANGED <<permFile, changes, behind>>

\* add_group_parent makes sure that the parent exists, too.
CreateParent(h) ==
  /\ hand[h].at = "parent"
  /\ store' = [store EXCEPT !.groups = Ensured(@, hand[h].what)]
  /\ hand' = [hand EXCEPT ![h].at = "apply"]
  /\ UNCHANGED <<permFile, changes, behind>>

\* add_user_node, add_user_to_group, add_group_node, add_group_parent: what was
\* deleted or replaced since Create is left alone.
Add(h) ==
  /\ hand[h].at = "apply" /\ hand[h].op = "add"
  /\ LET c == hand[h]
     IN store' = IF store[Table(c)][c.to] = Absent THEN store
                 ELSE [store EXCEPT ![Table(c)][c.to][Field(c)] = @ \union {c.what}]
  /\ CommandDone(h)

\* remove_user_node, remove_user_from_group, remove_group_node, remove_group_parent
Drop(h) ==
  /\ hand[h].at = "apply" /\ hand[h].op = "remove"
  /\ LET c == hand[h]
     IN store' = IF store[Table(c)][c.to] = Absent THEN store
                 ELSE [store EXCEPT ![Table(c)][c.to][Field(c)] = @ \ {c.what}]
  /\ CommandDone(h)

\* delete_group
Delete(h) ==
  /\ hand[h].at = "apply" /\ hand[h].op = "delete"
  /\ LET g == hand[h].to
     IN store' = IF g = Default THEN store ELSE
          [users |-> [u \in Person |-> IF store.users[u] = Absent THEN Absent
                                       ELSE [store.users[u] EXCEPT !.groups = @ \ {g}]],
           groups |-> [k \in Group |-> IF k = g \/ store.groups[k] = Absent THEN Absent
                                       ELSE [store.groups[k] EXCEPT !.parents = @ \ {g}]]]
  /\ CommandDone(h)

\* ensure_defaults
Defaults(h) ==
  /\ hand[h].at = "apply" /\ hand[h].op = "defaults"
  /\ store' = [store EXCEPT !.groups =
       [k \in Group |-> IF @[k] = Absent THEN StartGroups[k] ELSE @[k]]]
  /\ CommandDone(h)

\* finalize_accept enters a new player, which is not saved.
Join(u) ==
  /\ store.users[u] = Absent
  /\ store' = [store EXCEPT !.users[u] = NewUser]
  /\ behind' = TRUE
  /\ UNCHANGED <<permFile, hand, changes>>

-----------------------------------------------------------------------------
(* save_to_xml copies the store under its lock and writes the file without  *)
(* it; load_from_xml reads the file, then replaces the store.               *)

PermSaving(h)  == hand[h].at \in {"open", "write"}
SavesElse(h) == \E v \in Hand \ {h} : PermSaving(v)

PermClone(h) ==
  /\ hand[h].at = "clone"
  /\ hand' = [hand EXCEPT ![h].at = "open", ![h].copy = store]
  /\ behind' = SavesElse(h)
  /\ UNCHANGED <<store, permFile, changes>>

\* Until it is written, the file is cut off, and a load finds no error in it.
PermOpen(h) ==
  /\ hand[h].at = "open"
  /\ permFile' = Empty
  /\ hand' = [hand EXCEPT ![h].at = "write"]
  /\ UNCHANGED <<store, changes, behind>>

\* Two writes at once may leave a mixture, for which behind stands.
PermWrite(h) ==
  /\ hand[h].at = "write"
  /\ permFile' = hand[h].copy
  /\ hand' = [hand EXCEPT ![h] = IF hand[h].op = "reload" THEN [Rest EXCEPT !.op = "load", !.at = "read"] ELSE Rest]
  /\ UNCHANGED <<store, changes, behind>>

\* The disk refuses, before or after the file was emptied. The error is dropped and
\* the admin told that all is well; a reload ends here.
PermWriteFails(h) ==
  /\ PermSaving(h)
  /\ hand' = [hand EXCEPT ![h] = Rest]
  /\ behind' = TRUE
  /\ UNCHANGED <<store, permFile, changes>>

Read(h) ==
  /\ hand[h].at = "read"
  /\ hand' = [hand EXCEPT ![h].at = "install", ![h].copy = permFile]
  /\ UNCHANGED <<store, permFile, changes, behind>>

\* Changes since Read are lost, and the file may have more of them than the store,
\* or none at all if Read came while it was being written.
Install(h) ==
  /\ hand[h].at = "install"
  /\ store' = hand[h].copy
  /\ behind' = (SavesElse(h) \/ permFile # hand[h].copy)
  /\ hand' = [hand EXCEPT ![h] = Rest]
  /\ UNCHANGED <<permFile, changes>>

PermNext ==
  \/ \E u \in Person : Join(u)
  \/ \E h \in Hand :
       \/ Order(h) \/ Create(h) \/ CreateParent(h) \/ Add(h) \/ Drop(h) \/ Delete(h) \/ Defaults(h)
       \/ PermClone(h) \/ PermOpen(h) \/ PermWrite(h) \/ PermWriteFails(h) \/ Read(h) \/ Install(h)

-----------------------------------------------------------------------------
PermsTyped ==
  /\ \A t \in {store, permFile} :
       /\ t.users \in [Person -> UserRecord \union {Absent}]
       /\ t.groups \in [Group -> GroupRecord \union {Absent}]
  /\ \A h \in Hand : hand[h].at \in {"idle", "create", "parent", "apply", "clone", "open", "write", "read", "install"}
  /\ behind \in BOOLEAN

\* While no admin's command is between its change and the end of its save, the file
\* says what the store says, unless since the last save the console or a join
\* changed the store, two saves or a save and a load overlapped, or a save failed.
StoreKept ==
  \/ behind
  \/ \E h \in Hand : hand[h].at \in {"parent", "apply", "clone", "open", "write"}
  \/ permFile = store
=============================================================================
