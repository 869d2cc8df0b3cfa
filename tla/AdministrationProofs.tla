------------------------ MODULE AdministrationProofs ------------------------
(****************************************************************************)
(* What commands on bans, permissions and settings keep, for any number of  *)
(* players, tasks, lists and commands.                                      *)
(****************************************************************************)
EXTENDS Administration, SequenceTheorems, TLAPS

-----------------------------------------------------------------------------
(* Bans: types. *)

\* A job that is under way knows what it is about.
JobTyped(j) ==
  /\ j \in Job
  /\ j.op \in {"ban", "unban", "kick"} => j.about \in User
  /\ j.op = "roll" => j.about \in User
  /\ j.at = "aim" => j.op = "ban"

BansWell ==
  /\ BansTyped
  /\ \A w \in Worker : JobTyped(job[w])
  /\ \A c \in Conn : conn[c].at # "new" => conn[c].user \in User

LEMMA IdleJobTyped == Clear \in [User -> Ban] /\ JobTyped(NoJob) /\ NoJob.at = "idle"
BY DEF Clear, Ban, JobTyped, NoJob, Job

LEMMA NoConnTyped ==
  NoConn \in [user : User \union {Nothing},
              at : {"new", "ip", "uuid", "insert", "in", "left", "over"}]
  /\ NoConn.at = "new"
BY DEF NoConn

\* What a file is read as is a list, and the indexes of a list are users and addresses.
LEMMA LoadedTyped ==
  ASSUME NEW f \in [User -> Ban] \union {Torn} PROVE Loaded(f) \in [User -> Ban]
BY IdleJobTyped DEF Loaded

LEMMA IndexesTyped == \A list : Banned(list) \subseteq User /\ BannedIps(list) \subseteq Ip
BY DEF Banned, BannedIps

LEMMA BanInitTyped == BanInit => BansWell
<1> SUFFICES ASSUME BanInit PROVE BansWell
  OBVIOUS
<1>1. bans \in [User -> Ban]
  BY FileAssumption DEF BanInit
<1>2. job \in [Worker -> Job] /\ \A w \in Worker : JobTyped(job[w])
  BY IdleJobTyped DEF BanInit, JobTyped
<1>3. jobs \in 0 .. MaxJobs
  BY NothingAssumption DEF BanInit
<1> QED
  BY <1>1, <1>2, <1>3, NoConnTyped, IndexesTyped DEF BanInit, BansWell, BansTyped

\* A job that goes to another step, or ends.
LEMMA JobsTyped ==
  ASSUME BansWell, NEW w \in Worker, NEW j, JobTyped(j), job' = [job EXCEPT ![w] = j]
  PROVE  job' \in [Worker -> Job] /\ \A v \in Worker : JobTyped(job'[v])
BY DEF BansWell, BansTyped, JobTyped

LEMMA ConnStepTyped == BansWell /\ ConnStep => BansWell'
<1> SUFFICES ASSUME BansWell, ConnStep PROVE BansWell'
  OBVIOUS
<1> USE DEF BansWell, BansTyped, JobTyped, ConnAt, Lists, Files, Troubles
<1>1. PICK c \in Conn :
        \/ \E u \in User : Request(c, u)
        \/ CheckIp(c) \/ Accept(c) \/ Refuse(c) \/ Insert(c) \/ Leave(c) \/ Forget(c)
  BY DEF ConnStep
<1>2. UNCHANGED <<Lists, Files, job, jobs, Troubles, crossed, undone, excused>>
  BY DEF ConnStep
<1>3. ASSUME NEW u \in User, Request(c, u) PROVE BansWell'
  BY <1>2, <1>3 DEF Request
<1>4. CASE CheckIp(c)
  BY <1>2, <1>4 DEF CheckIp
<1>5. CASE Accept(c)
  BY <1>2, <1>5 DEF Accept
<1>6. CASE Refuse(c)
  BY <1>2, <1>6 DEF Refuse
<1>7. CASE Insert(c)
  BY <1>2, <1>7 DEF Insert
<1>8. CASE Leave(c)
  BY <1>2, <1>8 DEF Leave
<1>9. CASE Forget(c)
  BY <1>2, <1>9 DEF Forget
<1> QED
  BY <1>1, <1>3, <1>4, <1>5, <1>6, <1>7, <1>8, <1>9

LEMMA JobStepTyped == \A w \in Worker : BansWell /\ JobStep(w) => BansWell'
<1> SUFFICES ASSUME NEW w \in Worker, BansWell, JobStep(w) PROVE BansWell'
  OBVIOUS
<1> USE DEF Goto, Finish, Connections, Lists, Files, Troubles
<1>a. UNCHANGED conn => \A c \in Conn : conn'[c].at # "new" => conn'[c].user \in User
  BY DEF BansWell
<1>b. \A step \in {"list", "fallback", "index", "clone", "open", "write", "find", "kick",
                   "rollsave", "rollwrite"} :
        JobTyped([job[w] EXCEPT !.at = step])
  BY DEF BansWell, JobTyped, Job
<1>c. job[w] \in Job /\ JobTyped(job[w])
  BY DEF BansWell, JobTyped
<1>1. ASSUME NEW op \in {"ban", "kick", "unban", "roll"}, NEW u \in User,
             NEW step \in {"aim", "list", "find"}, step = "aim" => op = "ban",
             Begin(w, op, u, step)
      PROVE  BansWell'
  <2> DEFINE j == [NoJob EXCEPT !.op = op, !.about = u, !.at = step]
  <2>1. JobTyped(j)
    BY <1>1, IdleJobTyped DEF NoJob, Job, JobTyped
  <2>2. jobs' \in 0 .. MaxJobs
    BY <1>1, NothingAssumption DEF Begin, BansWell, BansTyped
  <2>3. job' = [job EXCEPT ![w] = j]
    BY <1>1 DEF Begin
  <2> HIDE DEF j
  <2> QED
    BY <1>1, <1>a, <2>1, <2>2, <2>3, JobsTyped DEF Begin, BansWell, BansTyped
<1>2. ASSUME NEW ip \in Ip, Begin(w, "unbanip", ip, "list") PROVE BansWell'
  <2>1. JobTyped([NoJob EXCEPT !.op = "unbanip", !.about = ip, !.at = "list"])
    BY IdleJobTyped DEF NoJob, Job, JobTyped
  <2>2. jobs' \in 0 .. MaxJobs
    BY <1>2, NothingAssumption DEF Begin, BansWell, BansTyped
  <2> QED
    BY <1>2, <1>a, <2>1, <2>2, JobsTyped DEF Begin, BansWell, BansTyped
<1>3. CASE Command(w)
  BY <1>1, <1>2, <1>3 DEF Command
<1>4. CASE Aim(w)
  <2>1. PICK c \in Of(job[w].about) \union {Nothing} :
          job' = [job EXCEPT ![w].at = "list",
            ![w].with = IF c \in live THEN IpOf[job[w].about] ELSE Nothing]
    BY <1>4 DEF Aim
  <2> DEFINE j == [job[w] EXCEPT !.at = "list",
                     !.with = IF c \in live THEN IpOf[job[w].about] ELSE Nothing]
  <2>2. c \in live => job[w].about \in User
    BY <1>c, <1>4 DEF Aim, JobTyped
  <2>3. JobTyped(j)
    BY <1>c, <2>2, IpAssumption DEF JobTyped, Job
  <2>4. job' = [job EXCEPT ![w] = j]
    BY <2>1 DEF BansWell, BansTyped, Job
  <2> HIDE DEF j
  <2> QED
    BY <1>4, <1>a, <2>3, <2>4, JobsTyped DEF Aim, BansWell, BansTyped
<1>d. \A step \in {"list", "fallback", "index", "clone", "open", "write", "find", "kick",
                   "rollsave", "rollwrite"} :
        Goto(w, step) => job' \in [Worker -> Job] /\ \A v \in Worker : JobTyped(job'[v])
  <2> SUFFICES ASSUME NEW step \in {"list", "fallback", "index", "clone", "open", "write", "find",
                                    "kick", "rollsave", "rollwrite"}, Goto(w, step)
               PROVE  job' \in [Worker -> Job] /\ \A v \in Worker : JobTyped(job'[v])
    OBVIOUS
  <2> DEFINE j == [job[w] EXCEPT !.at = step]
  <2>1. JobTyped(j)
    BY <1>b
  <2>2. job' = [job EXCEPT ![w] = j]
    BY DEF BansWell, BansTyped, Job
  <2> HIDE DEF j
  <2> QED
    BY <2>1, <2>2, JobsTyped
<1>e. Finish(w) => job' \in [Worker -> Job] /\ \A v \in Worker : JobTyped(job'[v])
  BY IdleJobTyped, JobsTyped
<1> USE DEF BansWell, BansTyped
<1>5. CASE AddBan(w)
  <2>1. bans' \in [User -> Ban]
    BY <1>5, <1>c DEF AddBan, JobTyped, Job, Ban
  <2> QED
    BY <1>5, <1>a, <1>d, <2>1 DEF AddBan
<1>6. CASE RemoveBan(w)
  <2>1. bans' \in [User -> Ban]
    BY <1>6, <1>c DEF RemoveBan, JobTyped, Job, Ban
  <2> QED
    BY <1>6, <1>a, <1>d, <1>e, <2>1 DEF RemoveBan
<1>7. CASE RemoveIpBan(w)
  <2>1. bans' \in [User -> Ban]
    BY <1>7 DEF RemoveIpBan, Ban
  <2> QED
    BY <1>7, <1>a, <1>d, <2>1 DEF RemoveIpBan
<1>8. CASE Fallback(w)
  BY <1>8, <1>a, <1>d, <1>e DEF Fallback
<1>9. CASE Index(w)
  BY <1>9, <1>a, <1>d, IndexesTyped DEF Index
<1>10. CASE Clone(w)
  <2> DEFINE j == [job[w] EXCEPT !.at = "open", !.copy = bans]
  <2>1. JobTyped(j)
    BY <1>c DEF JobTyped, Job
  <2>2. job' = [job EXCEPT ![w] = j]
    BY <1>10 DEF Clone, Job
  <2> HIDE DEF j
  <2> QED
    BY <1>10, <1>a, <2>1, <2>2, JobsTyped DEF Clone
<1>11. CASE Open(w)
  BY <1>11, <1>a, <1>d DEF Open
<1>12. CASE Write(w)
  <2>1. banFile' \in [User -> Ban] \union {Torn}
    BY <1>12, <1>c DEF Write, Job
  <2> QED
    BY <1>12, <1>a, <1>d, <1>e, <2>1 DEF Write
<1>13. CASE FailSave(w)
  BY <1>13, <1>a, <1>e DEF FailSave
<1>14. CASE Find(w)
  <2> DEFINE unseen == {c \in Conn : conn[c].user = job[w].about /\ conn[c].at = "insert"}
  <2>1. CASE Of(job[w].about) = {}
    BY <1>14, <2>1, <1>a, <1>e DEF Find
  <2>2. CASE Of(job[w].about) # {}
    <3>1. PICK c \in Of(job[w].about) : 
             /\ job' = [job EXCEPT ![w].at = "kick", ![w].target = c]
             /\ excused' = IF job[w].op = "ban"
                             THEN excused \union unseen \union (Of(job[w].about) \ {c}) ELSE excused
      BY <1>14, <2>2 DEF Find
    <3> DEFINE j == [job[w] EXCEPT !.at = "kick", !.target = c]
    <3>2. JobTyped(j)
      BY <1>c DEF JobTyped, Job, Of
    <3>3. job' = [job EXCEPT ![w] = j]
      BY <3>1 DEF Job
    <3>4. excused' \subseteq Conn
      BY <3>1 DEF Of
    <3> HIDE DEF j
    <3> QED
      BY <1>14, <1>a, <3>2, <3>3, <3>4, JobsTyped DEF Find
  <2> QED
    BY <2>1, <2>2
<1>15. CASE Kick(w)
  BY <1>15, <1>a, <1>e DEF Kick
<1>16. CASE ChangeRoll(w)
  <2>1. job[w].about \in User
    BY <1>16, <1>c DEF ChangeRoll, JobTyped
  <2> QED
    BY <1>16, <1>a, <1>d, <1>e, <2>1 DEF ChangeRoll
<1>17. CASE OpenRoll(w)
  BY <1>17, <1>a, <1>d DEF OpenRoll
<1>18. CASE WriteRoll(w)
  BY <1>18, <1>a, <1>e DEF WriteRoll
<1>19. CASE FailRoll(w)
  BY <1>19, <1>a, <1>e DEF FailRoll
<1> QED
  BY <1>3, <1>4, <1>5, <1>6, <1>7, <1>8, <1>9, <1>10, <1>11, <1>12, <1>13, <1>14, <1>15, <1>16, <1>17, <1>18, <1>19
  DEF JobStep

\* The process comes up again with what the files say.
LEMMA RestartTyped == BansWell /\ Restart => BansWell'
<1> SUFFICES ASSUME BansWell, Restart PROVE BansWell'
  OBVIOUS
<1>1. bans' \in [User -> Ban]
  BY LoadedTyped DEF BansWell, BansTyped, Restart
<1> QED
  BY <1>1, IdleJobTyped, NoConnTyped, IndexesTyped
  DEF BansWell, BansTyped, Restart, Files, JobTyped

LEMMA BansWellKept == BansWell /\ BanNext => BansWell'
BY ConnStepTyped, JobStepTyped, RestartTyped DEF BanNext

-----------------------------------------------------------------------------
(* Bans: the indexes and the players. *)

\* A connection that lives is being entered or is entered.
ConnWell ==
  \A c \in Conn :
    /\ c \in live => conn[c].at \in {"insert", "in"}
    /\ conn[c].at = "in" => c \in listed

\* A banned player is in the index, or the ban will still enter it.
UuidsFollow ==
  \A u \in User : bans[u] # "no" =>
    u \in uuids \/ \E w \in Worker : job[w].op = "ban" /\ job[w].about = u /\ job[w].at = "index"

\* A ban that has entered the list and has still to look for its player, or is to
\* disconnect this connection of it
Ending(c) ==
  \E w \in Worker :
    /\ job[w].op = "ban" /\ job[w].about = conn[c].user
    /\ \/ job[w].at \in {"index", "clone", "open", "write", "find"}
       \/ job[w].at = "kick" /\ job[w].target = c

BannedEnd == \A c \in live \ excused : bans[conn[c].user] = "no" \/ Ending(c)

\* What is being saved is the list, or a later save will write that; the file is cut
\* off only until then.
Unsaved == \E w \in Worker : job[w].at \in {"index", "clone"}
FileFollows ==
  crossed \/
    /\ \A w, v \in Worker : Saving(w) /\ Saving(v) => w = v
    /\ \A w \in Worker : Saving(w) => job[w].copy = bans \/ Unsaved
    /\ \A w \in Worker : job[w].at = "write" => banFile = Torn
    /\ Loaded(banFile) = bans \/ Unsaved \/ \E w \in Worker : Saving(w)

RollFollows ==
  unkept \/ rollFile = roll \/ \E w \in Worker : job[w].at \in {"rollsave", "rollwrite"}

BanInv ==
  BansWell /\ ConnWell /\ IndexesCurrent /\ UuidsFollow /\ BannedEnd /\ FileFollows /\ RollFollows

-----------------------------------------------------------------------------
(* Permissions. *)

Stores == [users : [Person -> UserRecord \union {Absent}],
           groups : [Group -> GroupRecord \union {Absent}]]

Entry == Group \union Raw \union {Absent}

Hands ==
  [op : {"none", "add", "remove", "delete", "defaults", "save", "load", "reload"},
   at : {"idle", "create", "parent", "apply", "clone", "open", "write", "read", "install"},
   save : BOOLEAN, to : Person \union Group \union {Absent}, what : Entry, copy : Stores]

\* A command that adds or removes names something that can be added there.
HandTyped(c) ==
  /\ c \in Hands
  /\ c.at \in {"create", "parent"} => c.op = "add"
  /\ c.at = "apply" => c.op \in {"add", "remove", "delete", "defaults"}
  /\ c.at = "parent" => c.to \in Group /\ c.what \in Group
  /\ c.op \in {"add", "remove"} => c.to \in Person \union Group
  /\ c.op \in {"add", "remove"} /\ c.at = "apply" => c.what \in Group \union Raw
  /\ c.op = "delete" => c.to \in Group

PermsWell ==
  /\ store \in Stores /\ permFile \in Stores /\ behind \in BOOLEAN
  /\ hand \in [Hand -> Hands]
  /\ \A h \in Hand : HandTyped(hand[h])

StoreUnsaved == \E h \in Hand : hand[h].at \in {"parent", "apply", "clone"}
StoreFollows ==
  behind \/
    /\ \A h, g \in Hand : PermSaving(h) /\ PermSaving(g) => h = g
    /\ \A h \in Hand : PermSaving(h) => hand[h].copy = store \/ StoreUnsaved
    /\ permFile = store \/ StoreUnsaved \/ \E h \in Hand : PermSaving(h)

PermInv == PermsWell /\ StoreFollows

-----------------------------------------------------------------------------
(* Checks of permissions. *)

\* What a call goes to, and what it applies
Up(f)    == IF f \in Person THEN store.users[f].groups ELSE store.groups[f].parents
Nodes(f) == IF f \in Person THEN store.users[f].nodes ELSE store.groups[f].nodes

\* The calls of a check, under way or over
Calls == {asked} \union {g \in visited : store.groups[g] # Absent}

\* Groups are visited for a reason; a call that is over has left nothing out.
CallsFollow ==
  /\ \A i \in 1 .. Len(stack) : stack[i] \in Calls
  /\ \A groups \in SUBSET Group : Closed(asked, groups) => visited \subseteq groups
  /\ \A f \in Calls :
       /\ above[f] \subseteq Up(f) /\ Up(f) \subseteq visited \union above[f]
       /\ own[f] \subseteq Nodes(f)
       /\ above[f] # {} \/ own[f] # {} => \E i \in 1 .. Len(stack) : stack[i] = f

\* The decisions are those of the entries applied so far.
DecisionsFollow ==
  \A n \in Node :
    /\ decisions[n] = "deny" <=> \E f \in Calls : \E raw \in Nodes(f) \ own[f] : raw.node = n /\ ~ raw.allow
    /\ decisions[n] # "none" <=> \E f \in Calls : \E raw \in Nodes(f) \ own[f] : raw.node = n

\* What holds of a check at any time
RulesInv ==
  /\ RulesTyped
  /\ asked = Absent => stack = <<>> /\ visited = {} /\ decisions = Undecided
  /\ asked # Absent =>
       IF store.users[asked] = Absent THEN stack = <<>> /\ decisions = Undecided
       ELSE CallsFollow /\ DecisionsFollow

-----------------------------------------------------------------------------
(* Settings. *)

Entrance == [at : {"new", "insert", "globals", "greet", "in", "out"},
             locks : SUBSET Lock, disallow : BOOLEAN]
Value == (SUBSET Lock) \union (SUBSET BOOLEAN)
Doers ==
  [at : {"idle", "read", "configure", "send", "collect", "away", "answer"},
   of : Setting, value : Value, todo : SUBSET Player]

\* A task that toggles or reads locks is not about headless clients, and a player
\* that asks is answered alone.
DoerTyped(r) ==
  /\ r \in Doers
  /\ r.at \in {"read", "answer"} => r.of = "locks"
  /\ r.of = "locks" => r.value \in SUBSET Lock
  /\ r.at \in {"configure", "collect", "away"} => r.of = "disallow"
  /\ r.at = "answer" => \E p \in Player : r.todo = {p}

GlobalsWell ==
  /\ GlobalsTyped
  /\ entry \in [Player -> Entrance] /\ doer \in [Doer -> Doers]
  /\ \A p \in Player :
       /\ p \in alive => entry[p].at \in {"insert", "globals", "greet", "in"}
       /\ entry[p].at \in {"globals", "greet", "in"} => p \in entered
  /\ \A d \in Doer : DoerTyped(doer[d])

\* r, what a task is at, has it tell p of s.
Tells(r, p, s) ==
  \/ r.at \in {"read", "configure", "send"} /\ r.of = s
  \/ r.at = "answer" /\ p \in r.todo /\ s = "locks"

\* What is in force, and what a task tells of s
InForce(s) == IF s = "locks" THEN locks ELSE disallow
Current(s, v) == IF s = "locks" THEN v = locks ELSE (TRUE \in v) = disallow

\* A setting that is not muddled is told to p by one task at most, and it tells the
\* value in force.
OneTell(p, s) ==
  /\ \A d, e \in Doer : Tells(doer[d], p, s) /\ Tells(doer[e], p, s) => d = e
  /\ entry[p].at = "greet" =>
       /\ \A d \in Doer : ~ Tells(doer[d], p, s)
       /\ entry[p][s] = InForce(s)
  /\ \A d \in Doer : Tells(doer[d], p, s) /\ doer[d].at # "read" => Current(s, doer[d].value)
OneTells == \A p \in Player, s \in Setting : <<p, s>> \notin muddled => OneTell(p, s)

\* p has been told, or is still to be visited.
ToldOrTelling ==
  \A p \in alive, s \in Setting : entry[p].at = "in" /\ <<p, s>> \notin muddled =>
    \/ told[p][s] = InForce(s)
    \/ \E d \in Doer : Tells(doer[d], p, s) /\ (doer[d].at = "send" => p \in doer[d].todo)

\* A command that will send p away
Sends(p) ==
  \E d \in Doer :
    /\ doer[d].of = "disallow" /\ TRUE \in doer[d].value
    /\ doer[d].at \in {"configure", "send", "collect"} \/ (doer[d].at = "away" /\ p \in doer[d].todo)
HeadlessEnd == disallow => \A p \in alive \intersect Headless : p \in late \/ Sends(p)

ConfigurationFollows ==
  clashed \/
    /\ \A d, e \in Doer : doer[d].at = "configure" /\ doer[e].at = "configure" => d = e
    /\ \A d \in Doer : doer[d].at = "configure" => (TRUE \in doer[d].value) = disallow
    /\ configured = disallow \/ \E d \in Doer : doer[d].at = "configure"

GlobalInv == GlobalsWell /\ OneTells /\ ToldOrTelling /\ HeadlessEnd /\ ConfigurationFollows

IInv == BanInv /\ PermInv /\ RulesInv /\ GlobalInv

-----------------------------------------------------------------------------
(* Bans: what the invariant is kept by. *)

\* A task changes what it is doing, and ends connections only.
LEMMA JobFrame ==
  ASSUME NEW w \in Worker, BansWell, JobStep(w)
  PROVE  /\ UNCHANGED <<listed, conn>> /\ live' \subseteq live
         /\ \A v \in Worker \ {w} : job'[v] = job[v]
<1> USE DEF Goto, Finish, Connections, Lists, Files, Troubles, BansWell, BansTyped
<1>1. CASE Command(w)
  BY <1>1 DEF Command, Begin
<1>2. CASE Aim(w)
  BY <1>2 DEF Aim
<1>3. CASE AddBan(w)
  BY <1>3 DEF AddBan
<1>4. CASE RemoveBan(w)
  BY <1>4 DEF RemoveBan
<1>5. CASE RemoveIpBan(w)
  BY <1>5 DEF RemoveIpBan
<1>6. CASE Fallback(w)
  BY <1>6 DEF Fallback
<1>7. CASE Index(w)
  BY <1>7 DEF Index
<1>8. CASE Clone(w)
  BY <1>8 DEF Clone
<1>9. CASE Open(w)
  BY <1>9 DEF Open
<1>10. CASE Write(w)
  BY <1>10 DEF Write
<1>11. CASE FailSave(w)
  BY <1>11 DEF FailSave
<1>12. CASE Find(w)
  BY <1>12 DEF Find
<1>13. CASE Kick(w)
  BY <1>13 DEF Kick
<1>14. CASE ChangeRoll(w)
  BY <1>14 DEF ChangeRoll
<1>15. CASE OpenRoll(w)
  BY <1>15 DEF OpenRoll
<1>16. CASE WriteRoll(w)
  BY <1>16 DEF WriteRoll
<1>17. CASE FailRoll(w)
  BY <1>17 DEF FailRoll
<1> QED
  BY <1>1, <1>2, <1>3, <1>4, <1>5, <1>6, <1>7, <1>8, <1>9, <1>10, <1>11, <1>12, <1>13, <1>14, <1>15, <1>16, <1>17
  DEF JobStep

LEMMA ConnWellKept == BansWell /\ ConnWell /\ BanNext => ConnWell'
<1> SUFFICES ASSUME BansWell, ConnWell, BanNext PROVE ConnWell'
  OBVIOUS
<1> USE DEF BansWell, BansTyped, ConnWell
<1>1. ASSUME ConnStep PROVE ConnWell'
  <2> USE DEF ConnAt
  <2>1. PICK c \in Conn :
          \/ \E u \in User : Request(c, u)
          \/ CheckIp(c) \/ Accept(c) \/ Refuse(c) \/ Insert(c) \/ Leave(c) \/ Forget(c)
    BY <1>1 DEF ConnStep
  <2>2. ASSUME NEW u \in User, Request(c, u) PROVE ConnWell'
    BY <2>2 DEF Request, NoConn
  <2>3. CASE CheckIp(c)
    BY <2>3 DEF CheckIp
  <2>4. CASE Accept(c)
    BY <2>4 DEF Accept
  <2>5. CASE Refuse(c)
    BY <2>5 DEF Refuse
  <2>6. CASE Insert(c)
    BY <2>6 DEF Insert
  <2>7. CASE Leave(c)
    BY <2>7 DEF Leave
  <2>8. CASE Forget(c)
    BY <2>8 DEF Forget
  <2> QED
    BY <2>1, <2>2, <2>3, <2>4, <2>5, <2>6, <2>7, <2>8
<1>2. CASE Restart
  BY <1>2, NoConnTyped DEF Restart
<1>3. ASSUME NEW w \in Worker, JobStep(w) PROVE ConnWell'
  BY <1>3, JobFrame
<1> QED
  BY <1>1, <1>2, <1>3 DEF BanNext


\* A task goes on with its command, or is done with it.
LEMMA GotoMoves ==
  ASSUME NEW w \in Worker, NEW step, BansWell, Goto(w, step)
  PROVE  /\ job'[w].at = step /\ job'[w].op = job[w].op /\ job'[w].about = job[w].about
         /\ job'[w].copy = job[w].copy /\ job'[w].target = job[w].target
BY DEF Goto, BansWell, BansTyped, Job

LEMMA FinishMoves ==
  ASSUME NEW w \in Worker, BansWell, Finish(w)
  PROVE  job'[w].at = "idle" /\ job'[w].op = "none"
BY DEF Finish, BansWell, BansTyped, NoJob

LEMMA BeginMoves ==
  ASSUME NEW w \in Worker, BansWell, Command(w)
  PROVE  /\ job[w].at = "idle" /\ job'[w].at \in {"list", "aim", "find"}
         /\ UNCHANGED <<Lists, Files, Connections, Troubles, crossed, undone, excused>>
<1>1. ASSUME NEW op, NEW about, NEW step, Begin(w, op, about, step)
      PROVE  /\ job[w].at = "idle" /\ job'[w].at = step
             /\ UNCHANGED <<Lists, Files, Connections, Troubles, crossed, undone, excused>>
  BY <1>1 DEF Begin, NoJob, BansWell, BansTyped
<1> QED
  BY <1>1 DEF Command

LEMMA IndexesKept == BansWell /\ IndexesCurrent /\ BanNext => IndexesCurrent'
<1> SUFFICES ASSUME BansWell, IndexesCurrent, BanNext PROVE IndexesCurrent'
  OBVIOUS
<1>1. CASE ConnStep
  BY <1>1 DEF ConnStep, Lists, IndexesCurrent
<1>2. CASE Restart
  BY <1>2 DEF Restart, IndexesCurrent
<1>3. ASSUME NEW w \in Worker, JobStep(w) PROVE IndexesCurrent'
  <2>0. \A v \in Worker \ {w} : job'[v] = job[v]
    BY <1>3, JobFrame
  <2>a. ASSUME UNCHANGED <<bans, uuids, ips, undone>>, job[w].at # "index" PROVE IndexesCurrent'
    BY <2>a, <2>0 DEF IndexesCurrent
  <2>b. Goto(w, "index") => IndexesCurrent'
    BY GotoMoves DEF IndexesCurrent
  <2> USE DEF Lists
  <2>1. CASE Command(w)
    BY <2>1, <2>a, BeginMoves
  <2>2. CASE Aim(w)
    BY <2>2, <2>a DEF Aim
  <2>3. CASE AddBan(w)
    BY <2>3, <2>b DEF AddBan
  <2>4. CASE RemoveBan(w)
    BY <2>4, <2>a, <2>b DEF RemoveBan
  <2>5. CASE RemoveIpBan(w)
    BY <2>5, <2>a, <2>b DEF RemoveIpBan
  <2>6. CASE Fallback(w)
    <3>1. /\ UNCHANGED bans /\ ips' = ips \ {job[w].about}
          /\ undone \/ job[w].about \in ips \intersect BannedIps(bans) => undone'
      BY <2>6 DEF Fallback, BansWell, BansTyped
    <3>2. UNCHANGED uuids /\ job[w].at = "fallback"
      BY <2>6 DEF Fallback
    <3>3. CASE \E v \in Worker : job[v].at = "index"
      BY <3>2, <3>3, <2>0 DEF IndexesCurrent
    <3>4. CASE uuids = Banned(bans) /\ ips = BannedIps(bans)
      BY <3>1, <3>2, <3>4 DEF IndexesCurrent
    <3> QED
      BY <3>1, <3>3, <3>4 DEF IndexesCurrent
  <2>7. CASE Index(w)
    BY <2>7 DEF Index, IndexesCurrent
  <2>8. CASE Clone(w)
    BY <2>8, <2>a DEF Clone
  <2>9. CASE Open(w)
    BY <2>9, <2>a DEF Open
  <2>10. CASE Write(w)
    BY <2>10, <2>a DEF Write
  <2>11. CASE FailSave(w)
    BY <2>11, <2>a DEF FailSave, Saving
  <2>12. CASE Find(w)
    BY <2>12, <2>a DEF Find
  <2>13. CASE Kick(w)
    BY <2>13, <2>a DEF Kick
  <2>14. CASE ChangeRoll(w)
    BY <2>14, <2>a DEF ChangeRoll
  <2>15. CASE OpenRoll(w)
    BY <2>15, <2>a DEF OpenRoll
  <2>16. CASE WriteRoll(w)
    BY <2>16, <2>a DEF WriteRoll
  <2>17. CASE FailRoll(w)
    BY <2>17, <2>a DEF FailRoll
  <2> QED
    BY <1>3, <2>1, <2>2, <2>3, <2>4, <2>5, <2>6, <2>7, <2>8, <2>9, <2>10, <2>11, <2>12, <2>13, <2>14, <2>15, <2>16,
       <2>17
    DEF JobStep
<1> QED
  BY <1>1, <1>2, <1>3 DEF BanNext

LEMMA UuidsKept == BansWell /\ UuidsFollow /\ BanNext => UuidsFollow'
<1> SUFFICES ASSUME BansWell, UuidsFollow, BanNext PROVE UuidsFollow'
  OBVIOUS
<1>1. CASE ConnStep
  BY <1>1 DEF ConnStep, Lists, UuidsFollow
<1>2. CASE Restart
  BY <1>2 DEF Restart, UuidsFollow, Banned
<1>3. ASSUME NEW w \in Worker, JobStep(w) PROVE UuidsFollow'
  <2>0. \A v \in Worker \ {w} : job'[v] = job[v]
    BY <1>3, JobFrame
  <2>a. ASSUME \A u \in User : bans'[u] = bans[u] \/ bans'[u] = "no",
               UNCHANGED uuids, job[w].at # "index"
        PROVE  UuidsFollow'
    BY <2>a, <2>0 DEF UuidsFollow
  <2> USE DEF Lists
  <2>1. CASE Command(w)
    BY <2>1, <2>a, BeginMoves
  <2>2. CASE Aim(w)
    BY <2>2, <2>a DEF Aim
  <2>3. CASE AddBan(w)
    <3>1. job'[w].at = "index" /\ job'[w].op = "ban" /\ job'[w].about = job[w].about
      BY <2>3, GotoMoves DEF AddBan
    <3>2. \A u \in User \ {job[w].about} : bans'[u] = bans[u]
      BY <2>3 DEF AddBan, BansWell, BansTyped
    <3> QED
      BY <2>3, <3>1, <3>2, <2>0 DEF AddBan, UuidsFollow
  <2>4. CASE RemoveBan(w)
    <3>1. \A u \in User : bans'[u] = bans[u] \/ bans'[u] = "no"
      BY <2>4 DEF RemoveBan, BansWell, BansTyped
    <3> QED
      BY <2>4, <3>1, <2>a DEF RemoveBan
  <2>5. CASE RemoveIpBan(w)
    BY <2>5, <2>a DEF RemoveIpBan
  <2>6. CASE Fallback(w)
    BY <2>6, <2>a DEF Fallback
  <2>7. CASE Index(w)
    BY <2>7 DEF Index, UuidsFollow, Banned
  <2>8. CASE Clone(w)
    BY <2>8, <2>a DEF Clone
  <2>9. CASE Open(w)
    BY <2>9, <2>a DEF Open
  <2>10. CASE Write(w)
    BY <2>10, <2>a DEF Write
  <2>11. CASE FailSave(w)
    BY <2>11, <2>a DEF FailSave, Saving
  <2>12. CASE Find(w)
    BY <2>12, <2>a DEF Find
  <2>13. CASE Kick(w)
    BY <2>13, <2>a DEF Kick
  <2>14. CASE ChangeRoll(w)
    BY <2>14, <2>a DEF ChangeRoll
  <2>15. CASE OpenRoll(w)
    BY <2>15, <2>a DEF OpenRoll
  <2>16. CASE WriteRoll(w)
    BY <2>16, <2>a DEF WriteRoll
  <2>17. CASE FailRoll(w)
    BY <2>17, <2>a DEF FailRoll
  <2> QED
    BY <1>3, <2>1, <2>2, <2>3, <2>4, <2>5, <2>6, <2>7, <2>8, <2>9, <2>10, <2>11, <2>12, <2>13, <2>14, <2>15, <2>16,
       <2>17
    DEF JobStep
<1> QED
  BY <1>1, <1>2, <1>3 DEF BanNext


\* A command that does not change the list of bans, and does not make its task one
\* that is about to end connections any less, leaves each banned player's end in sight.
LEMMA BannedEndKept ==
  BansWell /\ ConnWell /\ UuidsFollow /\ BannedEnd /\ BanNext => BannedEnd'
<1> SUFFICES ASSUME BansWell, ConnWell, UuidsFollow, BannedEnd, BanNext PROVE BannedEnd'
  OBVIOUS
<1>1. CASE ConnStep
  <2> USE DEF ConnAt, BansWell, BansTyped
  <2>0. UNCHANGED <<Lists, Files, job, jobs, Troubles, crossed, undone, excused>>
    BY <1>1 DEF ConnStep
  <2>1. PICK c \in Conn :
          \/ \E u \in User : Request(c, u)
          \/ CheckIp(c) \/ Accept(c) \/ Refuse(c) \/ Insert(c) \/ Leave(c) \/ Forget(c)
    BY <1>1 DEF ConnStep
  <2>2. ASSUME NEW d \in live, d \in live', conn'[d].user = conn[d].user, d \notin excused
        PROVE  bans'[conn'[d].user] = "no" \/ Ending(d)'
    BY <2>0, <2>2 DEF BannedEnd, Ending, Lists
  <2>3. CASE Accept(c)
    <3>1. \A d \in Conn : conn'[d].user = conn[d].user
      BY <2>3 DEF Accept
    <3>2. conn[c].user \in User /\ conn[c].user \notin uuids
      BY <2>3 DEF Accept
    <3>3. bans[conn[c].user] = "no" \/ Ending(c)
      BY <3>2 DEF UuidsFollow, Ending
    <3>4. bans'[conn'[c].user] = "no" \/ Ending(c)'
      BY <2>0, <3>1, <3>3 DEF Ending, Lists
    <3> QED
      BY <2>0, <2>2, <2>3, <3>1, <3>4 DEF Accept, BannedEnd
  <2>4. ASSUME NEW u \in User, Request(c, u) PROVE BannedEnd'
    <3>1. conn[c].at = "new" /\ live' = live
      BY <2>4 DEF Request, NoConn
    <3>2. c \notin live
      BY <3>1 DEF ConnWell
    <3>3. \A d \in Conn \ {c} : conn'[d].user = conn[d].user
      BY <2>4 DEF Request
    <3> QED
      BY <2>0, <2>2, <3>1, <3>2, <3>3 DEF BannedEnd
  <2>5. ASSUME CheckIp(c) \/ Refuse(c) \/ Insert(c) \/ Leave(c) \/ Forget(c) PROVE BannedEnd'
    <3>1. live' \subseteq live /\ \A d \in Conn : conn'[d].user = conn[d].user
      BY <2>5 DEF CheckIp, Refuse, Insert, Leave, Forget
    <3> QED
      BY <2>0, <2>2, <3>1 DEF BannedEnd
  <2> QED
    BY <2>1, <2>3, <2>4, <2>5
<1>2. CASE Restart
  BY <1>2 DEF Restart, BannedEnd
<1>3. ASSUME NEW w \in Worker, JobStep(w) PROVE BannedEnd'
  <2>0. /\ UNCHANGED conn /\ live' \subseteq live
        /\ \A v \in Worker \ {w} : job'[v] = job[v]
    BY <1>3, JobFrame
  <2>t. \A c \in live : conn[c].user \in User
    BY DEF BansWell, BansTyped, ConnWell
  <2> DEFINE Ends == {"index", "clone", "open", "write", "find"}
  <2>a. ASSUME \A u \in User : bans'[u] = bans[u] \/ bans'[u] = "no",
               excused \subseteq excused',
               \/ job[w].op # "ban" \/ job[w].at \notin Ends \union {"kick"}
               \/ /\ job[w].at \in Ends /\ job'[w].at \in Ends
                  /\ job'[w].op = job[w].op /\ job'[w].about = job[w].about
        PROVE  BannedEnd'
    <3> SUFFICES ASSUME NEW c \in live' \ excused', bans'[conn'[c].user] # "no" PROVE Ending(c)'
      BY DEF BannedEnd
    <3>1. conn'[c] = conn[c] /\ c \in live \ excused /\ conn[c].user \in User
      BY <2>0, <2>a, <2>t
    <3>2. Ending(c)
      BY <2>a, <3>1 DEF BannedEnd
    <3>3. PICK v \in Worker :
            /\ job[v].op = "ban" /\ job[v].about = conn[c].user
            /\ job[v].at \in Ends \/ (job[v].at = "kick" /\ job[v].target = c)
      BY <3>2 DEF Ending
    <3> QED
      BY <2>0, <2>a, <3>1, <3>3 DEF Ending
  <2> USE DEF Lists
  <2>1. CASE Command(w)
    BY <2>1, <2>a, BeginMoves
  <2>2. CASE Aim(w)
    BY <2>2, <2>a DEF Aim
  <2>3. CASE AddBan(w)
    <3>1. job'[w].at = "index" /\ job'[w].op = "ban" /\ job'[w].about = job[w].about
      BY <2>3, GotoMoves DEF AddBan
    <3>2. \A u \in User \ {job[w].about} : bans'[u] = bans[u]
      BY <2>3 DEF AddBan, BansWell, BansTyped
    <3> SUFFICES ASSUME NEW c \in live' \ excused', bans'[conn'[c].user] # "no" PROVE Ending(c)'
      BY DEF BannedEnd
    <3>3. conn'[c] = conn[c] /\ c \in live \ excused /\ conn[c].user \in User
      BY <2>0, <2>3, <2>t DEF AddBan
    <3>4. CASE conn[c].user = job[w].about
      BY <3>1, <3>3, <3>4 DEF Ending
    <3>5. CASE conn[c].user # job[w].about
      <4>1. Ending(c)
        BY <3>2, <3>3, <3>5 DEF BannedEnd
      <4> QED
        BY <2>0, <2>3, <3>3, <3>5, <4>1 DEF Ending, AddBan
    <3> QED
      BY <3>4, <3>5
  <2>4. CASE RemoveBan(w)
    <3>1. \A u \in User : bans'[u] = bans[u] \/ bans'[u] = "no"
      BY <2>4 DEF RemoveBan, BansWell, BansTyped
    <3> QED
      BY <2>4, <3>1, <2>a DEF RemoveBan
  <2>5. CASE RemoveIpBan(w)
    BY <2>5, <2>a DEF RemoveIpBan
  <2>6. CASE Fallback(w)
    BY <2>6, <2>a DEF Fallback
  <2>7. CASE Index(w)
    BY <2>7, <2>a, GotoMoves DEF Index
  <2>8. CASE Clone(w)
    <3>1. job'[w].at = "open" /\ job'[w].op = job[w].op /\ job'[w].about = job[w].about
      BY <2>8 DEF Clone, BansWell, BansTyped, Job
    <3> QED
      BY <2>8, <2>a, <3>1 DEF Clone
  <2>9. CASE Open(w)
    BY <2>9, <2>a, GotoMoves DEF Open
  <2>10. CASE Write(w)
    BY <2>10, <2>a, GotoMoves DEF Write
  <2>11. CASE FailSave(w)
    <3> SUFFICES ASSUME NEW c \in live' \ excused', bans'[conn'[c].user] # "no" PROVE Ending(c)'
      BY DEF BannedEnd
    <3>1. /\ conn'[c] = conn[c] /\ c \in live \ excused /\ bans' = bans
          /\ job[w].op = "ban" => conn[c].user # job[w].about
      BY <2>11, <2>0 DEF FailSave
    <3>2. Ending(c)
      BY <3>1 DEF BannedEnd
    <3> QED
      BY <2>0, <3>1, <3>2 DEF Ending
  <2>12. CASE Find(w)
    <3>0. job[w].at = "find" /\ UNCHANGED <<bans, live>>
      BY <2>12 DEF Find, Connections
    <3>1. CASE job[w].op # "ban"
      BY <2>12, <3>0, <3>1, <2>a DEF Find
    <3>2. CASE job[w].op = "ban"
      <4> SUFFICES ASSUME NEW c \in live' \ excused', bans'[conn'[c].user] # "no" PROVE Ending(c)'
        BY DEF BannedEnd
      <4>1. conn'[c] = conn[c] /\ c \in live /\ bans' = bans /\ c \in Conn
        BY <2>0, <3>0 DEF BansWell, BansTyped
      <4>2. c \notin excused
        BY <2>12, <3>2 DEF Find
      <4>3. Ending(c)
        BY <4>1, <4>2 DEF BannedEnd
      <4>4. CASE conn[c].user # job[w].about
        BY <2>0, <4>1, <4>3, <4>4 DEF Ending
      <4>5. CASE conn[c].user = job[w].about
        <5>1. conn[c].at # "insert"
          BY <2>12, <3>2, <4>1, <4>5 DEF Find
        <5>2. c \in Of(job[w].about)
          BY <4>1, <4>5, <5>1 DEF ConnWell, Of
        <5>3. PICK d \in Of(job[w].about) :
                /\ job' = [job EXCEPT ![w].at = "kick", ![w].target = d]
                /\ Of(job[w].about) \ {d} \subseteq excused'
          BY <2>12, <3>2, <5>2 DEF Find
        <5>4. d = c
          BY <5>2, <5>3
        <5>5. /\ job'[w].at = "kick" /\ job'[w].target = c
              /\ job'[w].op = "ban" /\ job'[w].about = job[w].about
          BY <3>2, <5>3, <5>4 DEF BansWell, BansTyped, Job
        <5> QED
          BY <4>1, <4>5, <5>5 DEF Ending
      <4> QED
        BY <4>4, <4>5
    <3> QED
      BY <3>1, <3>2
  <2>13. CASE Kick(w)
    <3> SUFFICES ASSUME NEW c \in live' \ excused', bans'[conn'[c].user] # "no" PROVE Ending(c)'
      BY DEF BannedEnd
    <3>1. /\ conn'[c] = conn[c] /\ c \in live \ excused /\ bans' = bans
          /\ c # job[w].target /\ job[w].at = "kick"
      BY <2>13, <2>0 DEF Kick
    <3>2. Ending(c)
      BY <3>1 DEF BannedEnd
    <3> QED
      BY <2>0, <3>1, <3>2 DEF Ending
  <2>14. CASE ChangeRoll(w)
    BY <2>14, <2>a DEF ChangeRoll
  <2>15. CASE OpenRoll(w)
    BY <2>15, <2>a DEF OpenRoll
  <2>16. CASE WriteRoll(w)
    BY <2>16, <2>a DEF WriteRoll
  <2>17. CASE FailRoll(w)
    BY <2>17, <2>a DEF FailRoll
  <2> QED
    BY <1>3, <2>1, <2>2, <2>3, <2>4, <2>5, <2>6, <2>7, <2>8, <2>9, <2>10, <2>11, <2>12, <2>13, <2>14, <2>15, <2>16,
       <2>17
    DEF JobStep
<1> QED
  BY <1>1, <1>2, <1>3 DEF BanNext


\* A list is what its file is read as, so that no list is taken for a torn file.
LEMMA ListLoaded == ASSUME NEW f \in [User -> Ban] PROVE Loaded(f) = f
BY FileAssumption DEF Loaded

LEMMA FileKept == BansWell /\ FileFollows /\ BanNext => FileFollows'
<1> SUFFICES ASSUME BansWell, FileFollows, BanNext PROVE FileFollows'
  OBVIOUS
<1>1. CASE ConnStep
  BY <1>1 DEF ConnStep, Lists, Files, FileFollows, Saving, Unsaved
<1>2. CASE Restart
  <2>1. \A w \in Worker : job'[w].at = "idle"
    BY <1>2, IdleJobTyped DEF Restart
  <2> QED
    BY <1>2, <2>1 DEF Restart, Files, FileFollows, Saving, Unsaved
<1>3. ASSUME NEW w \in Worker, JobStep(w) PROVE FileFollows'
  <2>0. \A v \in Worker \ {w} : job'[v] = job[v]
    BY <1>3, JobFrame
  <2>a. ASSUME UNCHANGED <<bans, banFile, crossed>>,
               job[w].at \notin {"index", "clone", "open", "write"},
               job'[w].at \notin {"index", "clone", "open", "write"}
        PROVE  FileFollows'
    <3>1. Unsaved' <=> Unsaved
      BY <2>0, <2>a DEF Unsaved
    <3>2. \A v \in Worker :
            /\ Saving(v)' <=> Saving(v)
            /\ job'[v].at = "write" <=> job[v].at = "write"
            /\ Saving(v) => job'[v].copy = job[v].copy
      BY <2>0, <2>a DEF Saving
    <3> QED
      BY <2>a, <3>1, <3>2 DEF FileFollows
  \* while a save is to come, only what is being written matters
  <2>b. ASSUME UNCHANGED <<banFile, crossed>>, ~ Saving(w), job'[w].at \in {"index", "clone"}
        PROVE  FileFollows'
    <3>1. Unsaved'
      BY <2>b DEF Unsaved
    <3>2. \A v \in Worker :
            /\ Saving(v)' <=> Saving(v)
            /\ job'[v].at = "write" <=> job[v].at = "write"
      BY <2>0, <2>b DEF Saving
    <3> QED
      BY <2>b, <3>1, <3>2 DEF FileFollows
  <2> USE DEF Lists, Files
  <2>1. CASE Command(w)
    <3>1. /\ job[w].at = "idle" /\ job'[w].at \in {"list", "aim", "find"}
          /\ UNCHANGED <<bans, banFile, crossed>>
      BY <2>1, BeginMoves
    <3> QED
      BY <3>1, <2>a
  <2>2. CASE Aim(w)
    <3>1. job'[w].at = "list"
      BY <2>2 DEF Aim, BansWell, BansTyped, Job
    <3> QED
      BY <2>2, <3>1, <2>a DEF Aim
  <2>3. CASE AddBan(w)
    BY <2>3, <2>b, GotoMoves DEF AddBan, Saving
  <2>4. CASE RemoveBan(w)
    BY <2>4, <2>a, <2>b, GotoMoves, FinishMoves DEF RemoveBan, Saving
  <2>5. CASE RemoveIpBan(w)
    BY <2>5, <2>a, <2>b, GotoMoves DEF RemoveIpBan, Saving
  <2>6. CASE Fallback(w)
    BY <2>6, <2>a, <2>b, GotoMoves, FinishMoves DEF Fallback, Saving
  <2>7. CASE Index(w)
    BY <2>7, <2>b, GotoMoves DEF Index, Saving
  <2>8. CASE Clone(w)
    <3>1. job'[w].at = "open" /\ job'[w].copy = bans
      BY <2>8 DEF Clone, BansWell, BansTyped, Job
    <3>2. UNCHANGED <<bans, banFile>> /\ (crossed' <=> \E v \in Worker : Saving(v))
      BY <2>8 DEF Clone
    <3>3. CASE \E v \in Worker : Saving(v)
      BY <3>2, <3>3 DEF FileFollows
    <3>4. CASE ~ \E v \in Worker : Saving(v)
      <4>1. \A v \in Worker : Saving(v)' <=> v = w
        BY <2>0, <3>1, <3>4 DEF Saving
      <4>2. \A v \in Worker : job'[v].at # "write"
        BY <3>1, <4>1 DEF Saving
      <4> QED
        BY <3>1, <3>2, <4>1, <4>2 DEF FileFollows
    <3> QED
      BY <3>3, <3>4
  <2>9. CASE Open(w)
    <3>1. /\ job'[w].at = "write" /\ job'[w].copy = job[w].copy /\ job[w].at = "open"
          /\ UNCHANGED <<bans, crossed>> /\ banFile' = Torn
      BY <2>9, GotoMoves DEF Open
    <3>2. \A v \in Worker : Saving(v)' <=> Saving(v)
      BY <2>0, <3>1 DEF Saving
    <3>3. Unsaved' <=> Unsaved
      BY <2>0, <3>1 DEF Unsaved
    <3>4. Saving(w)
      BY <3>1 DEF Saving
    <3>5. \A v \in Worker : job'[v].copy = job[v].copy
      BY <2>0, <3>1
    <3> QED
      BY <3>1, <3>2, <3>3, <3>4, <3>5 DEF FileFollows
  <2>10. CASE Write(w)
    <3>1. /\ job'[w].at \in {"find", "idle"} /\ job[w].at = "write"
          /\ UNCHANGED <<bans, crossed>>
      BY <2>10, GotoMoves, FinishMoves DEF Write
    <3>2. CASE crossed
      BY <3>1, <3>2 DEF FileFollows
    <3>3. CASE ~ crossed
      <4>1. Saving(w)
        BY <3>1 DEF Saving
      <4>2. banFile = Torn /\ \A v \in Worker : Saving(v) => v = w
        BY <3>1, <3>3, <4>1 DEF FileFollows
      <4>3. banFile' = job[w].copy
        BY <2>10, <4>2 DEF Write
      <4>4. \A v \in Worker : ~ Saving(v)' /\ job'[v].at # "write"
        BY <2>0, <3>1, <4>2 DEF Saving
      <4>5. Unsaved' <=> Unsaved
        BY <2>0, <3>1 DEF Unsaved
      <4>6. Loaded(job[w].copy) = job[w].copy
        BY ListLoaded DEF BansWell, JobTyped, Job
      <4>7. job[w].copy = bans \/ Unsaved
        BY <3>3, <4>1 DEF FileFollows
      <4> QED
        BY <3>1, <4>3, <4>4, <4>5, <4>6, <4>7 DEF FileFollows
    <3> QED
      BY <3>2, <3>3
  <2>11. CASE FailSave(w)
    BY <2>11 DEF FailSave, FileFollows
  <2>12. CASE Find(w)
    <3>1. job'[w].at \in {"kick", "idle"}
      <4>1. CASE Finish(w)
        BY <4>1, FinishMoves
      <4>2. ASSUME NEW c, job' = [job EXCEPT ![w].at = "kick", ![w].target = c]
            PROVE  job'[w].at = "kick"
        BY <4>2 DEF BansWell, BansTyped, Job
      <4> QED
        BY <2>12, <4>1, <4>2 DEF Find
    <3> QED
      BY <2>12, <3>1, <2>a DEF Find
  <2>13. CASE Kick(w)
    BY <2>13, <2>a, FinishMoves DEF Kick
  <2>14. CASE ChangeRoll(w)
    BY <2>14, <2>a, GotoMoves, FinishMoves DEF ChangeRoll
  <2>15. CASE OpenRoll(w)
    BY <2>15, <2>a, GotoMoves DEF OpenRoll
  <2>16. CASE WriteRoll(w)
    BY <2>16, <2>a, FinishMoves DEF WriteRoll
  <2>17. CASE FailRoll(w)
    BY <2>17, <2>a, FinishMoves DEF FailRoll
  <2> QED
    BY <1>3, <2>1, <2>2, <2>3, <2>4, <2>5, <2>6, <2>7, <2>8, <2>9, <2>10, <2>11, <2>12, <2>13, <2>14, <2>15, <2>16,
       <2>17
    DEF JobStep
<1> QED
  BY <1>1, <1>2, <1>3 DEF BanNext

LEMMA RollKept == BansWell /\ RollFollows /\ BanNext => RollFollows'
<1> SUFFICES ASSUME BansWell, RollFollows, BanNext PROVE RollFollows'
  OBVIOUS
<1>1. CASE ConnStep
  BY <1>1 DEF ConnStep, Lists, Files, Troubles, RollFollows
<1>2. CASE Restart
  BY <1>2 DEF Restart, Files, RollFollows
<1>3. ASSUME NEW w \in Worker, JobStep(w) PROVE RollFollows'
  <2>0. \A v \in Worker \ {w} : job'[v] = job[v]
    BY <1>3, JobFrame
  <2>a. ASSUME UNCHANGED <<roll, rollFile, unkept>>, job[w].at \notin {"rollsave", "rollwrite"}
        PROVE  RollFollows'
    BY <2>0, <2>a DEF RollFollows
  <2> USE DEF Lists, Files, Troubles
  <2>1. CASE Command(w)
    <3>1. job[w].at = "idle" /\ UNCHANGED <<roll, rollFile, unkept>>
      BY <2>1, BeginMoves
    <3> QED
      BY <3>1, <2>a
  <2>2. CASE Aim(w)
    BY <2>2, <2>a DEF Aim
  <2>3. CASE AddBan(w)
    BY <2>3, <2>a DEF AddBan
  <2>4. CASE RemoveBan(w)
    BY <2>4, <2>a DEF RemoveBan
  <2>5. CASE RemoveIpBan(w)
    BY <2>5, <2>a DEF RemoveIpBan
  <2>6. CASE Fallback(w)
    BY <2>6, <2>a DEF Fallback
  <2>7. CASE Index(w)
    BY <2>7, <2>a DEF Index
  <2>8. CASE Clone(w)
    BY <2>8, <2>a DEF Clone
  <2>9. CASE Open(w)
    BY <2>9, <2>a DEF Open
  <2>10. CASE Write(w)
    BY <2>10, <2>a DEF Write
  <2>11. CASE FailSave(w)
    BY <2>11, <2>a DEF FailSave, Saving
  <2>12. CASE Find(w)
    BY <2>12, <2>a DEF Find
  <2>13. CASE Kick(w)
    BY <2>13, <2>a DEF Kick
  <2>14. CASE ChangeRoll(w)
    <3>1. CASE roll' = roll /\ job[w].about \notin roll
      BY <2>14, <3>1, <2>a DEF ChangeRoll
    <3>2. CASE Goto(w, "rollsave")
      BY <3>2, GotoMoves DEF RollFollows
    <3> QED
      BY <2>14, <3>1, <3>2 DEF ChangeRoll
  <2>15. CASE OpenRoll(w)
    BY <2>15, GotoMoves DEF OpenRoll, RollFollows
  <2>16. CASE WriteRoll(w)
    BY <2>16 DEF WriteRoll, RollFollows
  <2>17. CASE FailRoll(w)
    BY <2>17 DEF FailRoll, RollFollows
  <2> QED
    BY <1>3, <2>1, <2>2, <2>3, <2>4, <2>5, <2>6, <2>7, <2>8, <2>9, <2>10, <2>11, <2>12, <2>13, <2>14, <2>15, <2>16,
       <2>17
    DEF JobStep
<1> QED
  BY <1>1, <1>2, <1>3 DEF BanNext

LEMMA BanInvStarts == BanInit => BanInv
<1> SUFFICES ASSUME BanInit PROVE BanInv
  OBVIOUS
<1>1. \A w \in Worker : job[w].at = "idle"
  BY IdleJobTyped DEF BanInit
<1>2. Loaded(banFile) = bans
  BY FileAssumption, ListLoaded DEF BanInit
<1>3. ConnWell
  BY NoConnTyped DEF BanInit, ConnWell
<1>4. IndexesCurrent /\ UuidsFollow
  BY DEF BanInit, IndexesCurrent, UuidsFollow, Banned
<1>5. BannedEnd
  BY DEF BanInit, BannedEnd
<1>6. FileFollows /\ RollFollows
  BY <1>1, <1>2 DEF FileFollows, Saving, RollFollows, BanInit
<1> QED
  BY <1>3, <1>4, <1>5, <1>6, BanInitTyped DEF BanInv

LEMMA BanInvKept == BanInv /\ BanNext => BanInv'
BY BansWellKept, ConnWellKept, IndexesKept, UuidsKept, BannedEndKept, FileKept, RollKept DEF BanInv

\* What the invariant is for
LEMMA BanInvMeans == BanInv => BansTyped /\ BansInForce /\ ListsKept
<1> SUFFICES ASSUME BanInv PROVE BansTyped /\ BansInForce /\ ListsKept
  OBVIOUS
<1>1. BannedAreGone
  BY DEF BanInv, BannedEnd, Ending, BannedAreGone
<1>2. ListsKept
  BY DEF BanInv, FileFollows, RollFollows, Saving, Unsaved, ListsKept
<1> QED
  BY <1>1, <1>2 DEF BanInv, BansWell, BansInForce


-----------------------------------------------------------------------------
(* Permissions: what the invariant is kept by. *)

LEMMA RestTyped == Empty \in Stores /\ HandTyped(Rest)
BY DEF Empty, Stores, HandTyped, Hands, Rest, Entry

LEMMA NewTyped == NewUser \in UserRecord /\ NewGroup \in GroupRecord
BY DefaultAssumption DEF NewUser, NewGroup, UserRecord, GroupRecord

\* Every command that admins and the console may give.
LEMMA CommandTyped == \A c \in Commands : HandTyped(c) /\ ~ (c.at \in {"open", "write"})
<1>1. ASSUME NEW op \in {"add", "remove", "delete", "defaults"}, NEW save \in BOOLEAN,
             NEW to \in Person \union Group \union {Absent}, NEW what \in Entry,
             op \in {"add", "remove"} => to \in Person \union Group,
             op = "remove" => what \in Group \union Raw,
             op = "delete" => to \in Group
      PROVE  HandTyped(Do(op, to, what, save)) /\ Do(op, to, what, save).at \in {"apply", "create"}
  BY <1>1, RestTyped DEF Do, HandTyped, Hands, Rest
<1>2. \A save \in BOOLEAN : \A c \in Adds(save) : HandTyped(c) /\ c.at \in {"apply", "create"}
  BY <1>1 DEF Adds, Entry
<1>3. \A c \in Removes(FALSE) \union Deletes : HandTyped(c) /\ c.at \in {"apply", "create"}
  <2>1. \A save \in BOOLEAN : \A c \in Removes(save) : HandTyped(c) /\ c.at \in {"apply", "create"}
    BY <1>1 DEF Removes, Entry
  <2>2. \A c \in Deletes : HandTyped(c) /\ c.at \in {"apply", "create"}
    BY <1>1 DEF Deletes, Entry
  <2> QED
    BY <2>1, <2>2
<1>4. \A c \in ByConsole : HandTyped(c) /\ c.at \in {"apply", "create", "clone", "read"}
  <2>1. HandTyped(Do("defaults", Absent, Absent, FALSE))
        /\ Do("defaults", Absent, Absent, FALSE).at \in {"apply", "create"}
    BY <1>1 DEF Entry
  <2>2. \A u \in Person : HandTyped(Do("add", u, Absent, FALSE))
                          /\ Do("add", u, Absent, FALSE).at \in {"apply", "create"}
    BY <1>1 DEF Entry
  <2>3. /\ HandTyped([Rest EXCEPT !.op = "save", !.at = "clone"])
        /\ HandTyped([Rest EXCEPT !.op = "load", !.at = "read"])
        /\ HandTyped([Rest EXCEPT !.op = "reload", !.at = "clone"])
    BY RestTyped DEF HandTyped, Hands, Rest
  <2>4. /\ [Rest EXCEPT !.op = "save", !.at = "clone"].at = "clone"
        /\ [Rest EXCEPT !.op = "load", !.at = "read"].at = "read"
        /\ [Rest EXCEPT !.op = "reload", !.at = "clone"].at = "clone"
    BY DEF Rest
  <2> QED
    BY <2>1, <2>2, <2>3, <2>4 DEF ByConsole
<1> QED
  BY <1>2, <1>3, <1>4 DEF Commands

\* One task takes up or puts down what it does.
LEMMA HandsTyped ==
  ASSUME PermsWell, NEW h \in Hand, NEW c, HandTyped(c), hand' = [hand EXCEPT ![h] = c]
  PROVE  hand' \in [Hand -> Hands] /\ \A g \in Hand : HandTyped(hand'[g])
BY DEF PermsWell, HandTyped

LEMMA CommandDoneTyped ==
  ASSUME PermsWell, NEW h \in Hand, hand[h].at \in {"create", "apply"}, CommandDone(h)
  PROVE  /\ hand' \in [Hand -> Hands] /\ \A g \in Hand : HandTyped(hand'[g])
         /\ behind' \in BOOLEAN
<1>1. HandTyped([hand[h] EXCEPT !.at = "clone"])
  BY DEF PermsWell, HandTyped, Hands
<1>2. HandTyped(IF hand[h].save THEN [hand[h] EXCEPT !.at = "clone"] ELSE Rest)
  BY <1>1, RestTyped
<1>3. behind' \in BOOLEAN
  BY DEF CommandDone, PermsWell, HandTyped, Hands
<1> QED
  BY <1>2, <1>3, HandsTyped DEF CommandDone

\* A user or group that is there after a change, and the store around it.
LEMMA UsersTyped ==
  ASSUME NEW s \in Stores, NEW t \in [Person -> UserRecord \union {Absent}]
  PROVE  [s EXCEPT !.users = t] \in Stores
BY DEF Stores

LEMMA GroupsTyped ==
  ASSUME NEW s \in Stores, NEW t \in [Group -> GroupRecord \union {Absent}]
  PROVE  [s EXCEPT !.groups = t] \in Stores
BY DEF Stores

LEMMA EnsuredTyped ==
  ASSUME NEW s \in Stores, NEW g \in Group
  PROVE  [s EXCEPT !.groups = Ensured(@, g)] \in Stores
<1>1. Ensured(s.groups, g) \in [Group -> GroupRecord \union {Absent}]
  BY NewTyped DEF Ensured, Stores
<1> QED
  BY <1>1, GroupsTyped


LEMMA OrderTyped == \A h \in Hand : PermsWell /\ Order(h) => PermsWell'
<1> SUFFICES ASSUME NEW h \in Hand, PermsWell, Order(h) PROVE PermsWell'
  OBVIOUS
<1>1. PICK c \in Commands : hand' = [hand EXCEPT ![h] = c]
  BY DEF Order
<1>2. HandTyped(c)
  BY CommandTyped
<1> QED
  BY <1>1, <1>2, HandsTyped DEF Order, PermsWell

LEMMA CreateTyped == \A h \in Hand : PermsWell /\ Create(h) => PermsWell'
<1> SUFFICES ASSUME NEW h \in Hand, PermsWell, Create(h) PROVE PermsWell'
  OBVIOUS
<1>0. HandTyped(hand[h]) /\ hand[h].op = "add" /\ hand[h].to \in Person \union Group
  BY DEF Create, PermsWell, HandTyped
<1>1. store' \in Stores
  <2>1. CASE hand[h].to \in Person
    <3> DEFINE u == hand[h].to
    <3>1. [store.users EXCEPT ![u] = IF @ = Absent THEN NewUser ELSE @]
            \in [Person -> UserRecord \union {Absent}]
      BY NewTyped DEF PermsWell, Stores
    <3>2. store' = [store EXCEPT !.users = [store.users EXCEPT ![u] = IF @ = Absent THEN NewUser ELSE @]]
      BY <2>1 DEF Create
    <3> QED
      BY <3>1, <3>2, UsersTyped DEF PermsWell
  <2>2. CASE hand[h].to \notin Person
    BY <2>2, <1>0, EnsuredTyped DEF Create, PermsWell
  <2> QED
    BY <2>1, <2>2
<1>2. CASE hand[h].what = Absent
  BY <1>1, <1>2, CommandDoneTyped DEF Create, CommandDone, PermsWell
<1>3. CASE hand[h].what # Absent
  <2>1. hand[h].what \in Group \union Raw
    BY <1>0, <1>3 DEF HandTyped, Hands, Entry
  <2>2. Field(hand[h]) = "parents" => hand[h].to \in Group /\ hand[h].what \in Group
    BY <1>0, <2>1 DEF Field
  <2> DEFINE c == [hand[h] EXCEPT !.at = IF Field(hand[h]) = "parents" THEN "parent" ELSE "apply"]
  <2>3. HandTyped(c)
    BY <1>0, <2>1, <2>2 DEF HandTyped, Hands
  <2>4. hand' = [hand EXCEPT ![h] = c]
    BY <1>3 DEF Create
  <2> HIDE DEF c
  <2> QED
    BY <1>1, <1>3, <2>3, <2>4, HandsTyped DEF Create, PermsWell
<1> QED
  BY <1>2, <1>3

\* An entry or group is put in where there is one to put it, or taken out.
LEMMA FieldTyped ==
  ASSUME PermsWell, NEW c, HandTyped(c), c.op \in {"add", "remove"}, c.at = "apply",
         NEW some \in {{}, {c.what}}, NEW none \in {{}, {c.what}}
  PROVE  (IF store[Table(c)][c.to] = Absent THEN store
          ELSE [store EXCEPT ![Table(c)][c.to][Field(c)] = (@ \union some) \ none]) \in Stores
<1>1. c.what \in Group \union Raw /\ c.to \in Person \union Group
  BY DEF HandTyped
<1>2. CASE c.to \in Person
  <2>1. Table(c) = "users"
    BY <1>2 DEF Table
  <2>2. SUFFICES ASSUME store.users[c.to] # Absent
                 PROVE  [store EXCEPT !.users[c.to][Field(c)] = (@ \union some) \ none] \in Stores
    BY <2>1 DEF PermsWell
  <2>3. store.users[c.to] \in UserRecord
    BY <1>2, <2>2 DEF PermsWell, Stores
  <2>4. [store.users[c.to] EXCEPT ![Field(c)] = (@ \union some) \ none] \in UserRecord
    <3>1. CASE c.what \in Raw
      <4>1. Field(c) = "nodes"
        BY <3>1 DEF Field
      <4> QED
        BY <3>1, <4>1, <2>3 DEF UserRecord
    <3>2. CASE c.what \notin Raw
      <4>1. Field(c) = "groups" /\ c.what \in Group
        BY <1>1, <1>2, <3>2 DEF Field
      <4> QED
        BY <4>1, <2>3 DEF UserRecord
    <3> QED
      BY <3>1, <3>2
  <2> QED
    BY <1>2, <2>4 DEF PermsWell, Stores
<1>3. CASE c.to \notin Person
  <2>1. Table(c) = "groups" /\ c.to \in Group
    BY <1>1, <1>3 DEF Table
  <2>2. SUFFICES ASSUME store.groups[c.to] # Absent
                 PROVE  [store EXCEPT !.groups[c.to][Field(c)] = (@ \union some) \ none] \in Stores
    BY <2>1 DEF PermsWell
  <2>3. store.groups[c.to] \in GroupRecord
    BY <2>1, <2>2 DEF PermsWell, Stores
  <2>4. [store.groups[c.to] EXCEPT ![Field(c)] = (@ \union some) \ none] \in GroupRecord
    <3>1. CASE c.what \in Raw
      <4>1. Field(c) = "nodes"
        BY <3>1 DEF Field
      <4> QED
        BY <3>1, <4>1, <2>3 DEF GroupRecord
    <3>2. CASE c.what \notin Raw
      <4>1. Field(c) = "parents" /\ c.what \in Group
        BY <1>1, <1>3, <3>2 DEF Field
      <4> QED
        BY <4>1, <2>3 DEF GroupRecord
    <3> QED
      BY <3>1, <3>2
  <2> QED
    BY <2>1, <2>4 DEF PermsWell, Stores
<1> QED
  BY <1>2, <1>3


LEMMA ChangeTyped ==
  \A h \in Hand : PermsWell /\ (CreateParent(h) \/ Add(h) \/ Drop(h) \/ Delete(h) \/ Defaults(h))
                  => PermsWell'
<1> SUFFICES ASSUME NEW h \in Hand, PermsWell PROVE
      CreateParent(h) \/ Add(h) \/ Drop(h) \/ Delete(h) \/ Defaults(h) => PermsWell'
  OBVIOUS
<1>0. HandTyped(hand[h])
  BY DEF PermsWell
<1>1. CASE CreateParent(h)
  <2>1. hand[h].what \in Group
    BY <1>0, <1>1 DEF CreateParent, HandTyped
  <2>2. store' \in Stores
    BY <1>1, <2>1, EnsuredTyped DEF CreateParent, PermsWell
  <2> DEFINE c == [hand[h] EXCEPT !.at = "apply"]
  <2>3. HandTyped(c)
    BY <1>0, <1>1 DEF CreateParent, HandTyped, Hands
  <2>4. hand' = [hand EXCEPT ![h] = c]
    BY <1>1 DEF CreateParent
  <2> HIDE DEF c
  <2> QED
    BY <1>1, <2>2, <2>3, <2>4, HandsTyped DEF CreateParent, PermsWell
\* the other four end the command
<1>a. ASSUME hand[h].at = "apply", CommandDone(h), store' \in Stores PROVE PermsWell'
  BY <1>a, CommandDoneTyped DEF CommandDone, PermsWell
<1>2. CASE Add(h)
  <2> DEFINE c == hand[h]
  <2>1. c.op = "add" /\ c.at = "apply" /\ CommandDone(h)
    BY <1>2 DEF Add
  <2>2. store' = IF store[Table(c)][c.to] = Absent THEN store
                 ELSE [store EXCEPT ![Table(c)][c.to][Field(c)] = @ \union {c.what}]
    BY <1>2 DEF Add
  <2>3. store' = IF store[Table(c)][c.to] = Absent THEN store
                 ELSE [store EXCEPT ![Table(c)][c.to][Field(c)] = (@ \union {c.what}) \ {}]
    BY <2>2
  <2> HIDE DEF c
  <2>4. c = hand[h]
    BY DEF c
  <2> QED
    BY <1>0, <1>a, <2>1, <2>3, <2>4, FieldTyped
<1>3. CASE Drop(h)
  <2> DEFINE c == hand[h]
  <2>1. c.op = "remove" /\ c.at = "apply" /\ CommandDone(h)
    BY <1>3 DEF Drop
  <2>2. store' = IF store[Table(c)][c.to] = Absent THEN store
                 ELSE [store EXCEPT ![Table(c)][c.to][Field(c)] = @ \ {c.what}]
    BY <1>3 DEF Drop
  <2>3. store' = IF store[Table(c)][c.to] = Absent THEN store
                 ELSE [store EXCEPT ![Table(c)][c.to][Field(c)] = (@ \union {}) \ {c.what}]
    BY <2>2
  <2> HIDE DEF c
  <2>4. c = hand[h]
    BY DEF c
  <2> QED
    BY <1>0, <1>a, <2>1, <2>3, <2>4, FieldTyped
<1>4. CASE Delete(h)
  <2> DEFINE g == hand[h].to
             us == [u \in Person |-> IF store.users[u] = Absent THEN Absent
                                     ELSE [store.users[u] EXCEPT !.groups = @ \ {g}]]
             gs == [k \in Group |-> IF k = g \/ store.groups[k] = Absent THEN Absent
                                    ELSE [store.groups[k] EXCEPT !.parents = @ \ {g}]]
  <2>1. us \in [Person -> UserRecord \union {Absent}]
    <3>1. ASSUME NEW u \in Person, store.users[u] # Absent
          PROVE  [store.users[u] EXCEPT !.groups = @ \ {g}] \in UserRecord
      <4>1. store.users[u] \in UserRecord
        BY <3>1 DEF PermsWell, Stores
      <4> QED
        BY <4>1 DEF UserRecord
    <3> QED
      BY <3>1
  <2>2. gs \in [Group -> GroupRecord \union {Absent}]
    <3>1. ASSUME NEW k \in Group, store.groups[k] # Absent
          PROVE  [store.groups[k] EXCEPT !.parents = @ \ {g}] \in GroupRecord
      <4>1. store.groups[k] \in GroupRecord
        BY <3>1 DEF PermsWell, Stores
      <4> QED
        BY <4>1 DEF GroupRecord
    <3> QED
      BY <3>1
  <2>3. store' = IF g = Default THEN store ELSE [users |-> us, groups |-> gs]
    BY <1>4 DEF Delete
  <2> HIDE DEF us, gs
  <2>4. store' \in Stores
    BY <2>1, <2>2, <2>3 DEF PermsWell, Stores
  <2> QED
    BY <1>4, <1>a, <2>4 DEF Delete
<1>5. CASE Defaults(h)
  <2>1. [k \in Group |-> IF store.groups[k] = Absent THEN StartGroups[k] ELSE store.groups[k]]
          \in [Group -> GroupRecord \union {Absent}]
    BY StartAssumption DEF PermsWell, Stores
  <2>2. store' \in Stores
    BY <1>5, <2>1, GroupsTyped DEF Defaults, PermsWell
  <2> QED
    BY <1>5, <1>a, <2>2 DEF Defaults
<1> QED
  BY <1>1, <1>2, <1>3, <1>4, <1>5

LEMMA JoinTyped == \A u \in Person : PermsWell /\ Join(u) => PermsWell'
<1> SUFFICES ASSUME NEW u \in Person, PermsWell, Join(u) PROVE PermsWell'
  OBVIOUS
<1>1. [store.users EXCEPT ![u] = NewUser] \in [Person -> UserRecord \union {Absent}]
  BY NewTyped DEF PermsWell, Stores
<1>2. store' = [store EXCEPT !.users = [store.users EXCEPT ![u] = NewUser]]
  BY DEF Join
<1>3. store' \in Stores
  BY <1>1, <1>2, UsersTyped DEF PermsWell
<1> QED
  BY <1>3 DEF Join, PermsWell

LEMMA FileStepTyped ==
  \A h \in Hand : PermsWell /\ (PermClone(h) \/ PermOpen(h) \/ PermWrite(h) \/ PermWriteFails(h)
                                \/ Read(h) \/ Install(h)) => PermsWell'
<1> SUFFICES ASSUME NEW h \in Hand, PermsWell PROVE
      PermClone(h) \/ PermOpen(h) \/ PermWrite(h) \/ PermWriteFails(h) \/ Read(h) \/ Install(h)
      => PermsWell'
  OBVIOUS
<1>0. HandTyped(hand[h]) /\ hand[h].copy \in Stores
  BY DEF PermsWell, HandTyped, Hands
<1>a. ASSUME NEW step \in {"open", "write", "install"}, NEW s \in Stores
      PROVE  HandTyped([hand[h] EXCEPT !.at = step]) /\ HandTyped([hand[h] EXCEPT !.at = step, !.copy = s])
  BY <1>0 DEF HandTyped, Hands
<1>b. \A k : SavesElse(k) \in BOOLEAN
  BY DEF SavesElse
<1>1. CASE PermClone(h)
  <2>1. HandTyped([hand[h] EXCEPT !.at = "open", !.copy = store])
    BY <1>a DEF PermsWell
  <2>2. hand' = [hand EXCEPT ![h] = [hand[h] EXCEPT !.at = "open", !.copy = store]]
    BY <1>1 DEF PermClone, PermsWell, Hands
  <2> QED
    BY <1>1, <1>b, <2>1, <2>2, HandsTyped DEF PermClone, PermsWell
<1>2. CASE PermOpen(h)
  <2>1. HandTyped([hand[h] EXCEPT !.at = "write"])
    BY <1>a, RestTyped
  <2>2. hand' = [hand EXCEPT ![h] = [hand[h] EXCEPT !.at = "write"]]
    BY <1>2 DEF PermOpen
  <2> QED
    BY <1>2, <2>1, <2>2, HandsTyped, RestTyped DEF PermOpen, PermsWell
<1>3. CASE PermWrite(h)
  <2>1. HandTyped(IF hand[h].op = "reload" THEN [Rest EXCEPT !.op = "load", !.at = "read"] ELSE Rest)
    BY RestTyped DEF HandTyped, Hands, Rest
  <2> QED
    BY <1>0, <1>3, <2>1, HandsTyped DEF PermWrite, PermsWell
<1>4. CASE PermWriteFails(h)
  BY <1>4, RestTyped, HandsTyped DEF PermWriteFails, PermsWell
<1>5. CASE Read(h)
  <2>1. HandTyped([hand[h] EXCEPT !.at = "install", !.copy = permFile])
    BY <1>a DEF PermsWell
  <2>2. hand' = [hand EXCEPT ![h] = [hand[h] EXCEPT !.at = "install", !.copy = permFile]]
    BY <1>5 DEF Read, PermsWell, Hands
  <2> QED
    BY <1>5, <2>1, <2>2, HandsTyped DEF Read, PermsWell
<1>6. CASE Install(h)
  BY <1>0, <1>6, <1>b, RestTyped, HandsTyped DEF Install, PermsWell
<1> QED
  BY <1>1, <1>2, <1>3, <1>4, <1>5, <1>6

LEMMA PermsWellKept == PermsWell /\ PermNext => PermsWell'
BY OrderTyped, CreateTyped, ChangeTyped, JoinTyped, FileStepTyped DEF PermNext

LEMMA PermsWellStarts == PermInit => PermsWell
<1> SUFFICES ASSUME PermInit PROVE PermsWell
  OBVIOUS
<1>1. store \in Stores
  BY StartAssumption DEF PermInit, Stores
<1> QED
  BY <1>1, RestTyped DEF PermInit, PermsWell, HandTyped


\* A change that is still to be saved, or that nobody will save
LEMMA DoneFollows ==
  ASSUME PermsWell, StoreFollows, NEW h \in Hand, hand[h].at \in {"create", "apply"},
         CommandDone(h)
  PROVE  StoreFollows'
<1>0. \A g \in Hand \ {h} : hand'[g] = hand[g]
  BY DEF CommandDone, PermsWell
<1>1. CASE ~ hand[h].save
  BY <1>1 DEF CommandDone, StoreFollows
<1>2. CASE hand[h].save
  <2>1. hand'[h].at = "clone" /\ (behind' <=> behind)
    BY <1>2 DEF CommandDone, PermsWell, Hands
  <2>2. StoreUnsaved'
    BY <2>1 DEF StoreUnsaved
  <2>3. \A g \in Hand : PermSaving(g)' <=> PermSaving(g)
    BY <1>0, <2>1 DEF PermSaving
  <2> QED
    BY <2>1, <2>2, <2>3 DEF StoreFollows
<1> QED
  BY <1>1, <1>2

LEMMA StoreFollowsKept == PermsWell /\ StoreFollows /\ PermNext => StoreFollows'
<1> SUFFICES ASSUME PermsWell, StoreFollows, PermNext PROVE StoreFollows'
  OBVIOUS
<1>j. ASSUME NEW u \in Person, Join(u) PROVE StoreFollows'
  BY <1>j DEF Join, StoreFollows
<1>h. ASSUME NEW h \in Hand,
        \/ Order(h) \/ Create(h) \/ CreateParent(h) \/ Add(h) \/ Drop(h) \/ Delete(h) \/ Defaults(h)
        \/ PermClone(h) \/ PermOpen(h) \/ PermWrite(h) \/ PermWriteFails(h) \/ Read(h) \/ Install(h)
      PROVE  StoreFollows'
  <2>t. hand \in [Hand -> Hands]
    BY DEF PermsWell
  <2>a. ASSUME UNCHANGED <<store, permFile, behind>>, \A g \in Hand \ {h} : hand'[g] = hand[g],
               hand[h].at \notin {"parent", "apply", "clone", "open", "write"},
               hand'[h].at \notin {"open", "write"}
        PROVE  StoreFollows'
    <3>1. StoreUnsaved => StoreUnsaved'
      BY <2>a DEF StoreUnsaved
    <3>2. \A g \in Hand : PermSaving(g)' <=> PermSaving(g)
      BY <2>a DEF PermSaving
    <3>3. \A g \in Hand : PermSaving(g) => hand'[g].copy = hand[g].copy
      BY <2>a DEF PermSaving
    <3> QED
      BY <2>a, <3>1, <3>2, <3>3 DEF StoreFollows
  <2>b. ASSUME UNCHANGED <<permFile, behind>>, \A g \in Hand \ {h} : hand'[g] = hand[g],
               ~ PermSaving(h), hand'[h].at \in {"parent", "apply", "clone"}
        PROVE  StoreFollows'
    <3>1. StoreUnsaved'
      BY <2>b DEF StoreUnsaved
    <3>2. \A g \in Hand : PermSaving(g)' <=> PermSaving(g)
      BY <2>b DEF PermSaving
    <3> QED
      BY <2>b, <3>1, <3>2 DEF StoreFollows
  <2>1. CASE Order(h)
    <3>1. PICK c \in Commands : hand' = [hand EXCEPT ![h] = c]
      BY <2>1 DEF Order
    <3>2. hand[h].at = "idle" /\ c.at \notin {"open", "write"}
      BY <2>1, CommandTyped DEF Order, Rest
    <3> QED
      BY <2>1, <2>a, <2>t, <3>1, <3>2 DEF Order
  <2>2. CASE Create(h)
    <3>1. CASE hand[h].what = Absent
      BY <2>2, <3>1, DoneFollows DEF Create
    <3>2. CASE hand[h].what # Absent
      <4>1. hand'[h].at \in {"parent", "apply"}
        BY <2>2, <2>t, <3>2 DEF Create, Hands
      <4> QED
        BY <2>2, <2>b, <2>t, <3>2, <4>1 DEF Create, PermSaving
    <3> QED
      BY <3>1, <3>2
  <2>3. CASE CreateParent(h)
    <3>1. hand'[h].at = "apply"
      BY <2>3, <2>t DEF CreateParent, Hands
    <3> QED
      BY <2>3, <2>b, <2>t, <3>1 DEF CreateParent, PermSaving
  <2>4. CASE Add(h) \/ Drop(h) \/ Delete(h) \/ Defaults(h)
    BY <2>4, DoneFollows DEF Add, Drop, Delete, Defaults
  <2>5. CASE PermClone(h)
    <3>1. hand'[h].at = "open" /\ hand'[h].copy = store /\ UNCHANGED <<store, permFile>>
      BY <2>5, <2>t DEF PermClone, Hands
    <3>2. behind' \/ \A g \in Hand \ {h} : ~ PermSaving(g)
      BY <2>5 DEF PermClone, SavesElse
    <3>3. \A g \in Hand \ {h} : PermSaving(g)' <=> PermSaving(g)
      BY <2>5, <2>t DEF PermClone, PermSaving
    <3>4. PermSaving(h)'
      BY <3>1 DEF PermSaving
    <3> QED
      BY <3>1, <3>2, <3>3, <3>4 DEF StoreFollows
  <2>6. CASE PermOpen(h)
    <3>1. /\ hand'[h].at = "write" /\ hand'[h].copy = hand[h].copy
          /\ \A g \in Hand \ {h} : hand'[g] = hand[g]
          /\ hand[h].at = "open" /\ UNCHANGED <<store, behind>>
      BY <2>6, <2>t DEF PermOpen, Hands
    <3>2. PermSaving(h) /\ \A g \in Hand : PermSaving(g)' <=> PermSaving(g)
      BY <3>1 DEF PermSaving
    <3>3. \A g \in Hand : hand'[g].copy = hand[g].copy
      BY <3>1
    <3>4. StoreUnsaved => StoreUnsaved'
      BY <3>1 DEF StoreUnsaved
    <3> QED
      BY <3>1, <3>2, <3>3, <3>4 DEF StoreFollows
  <2>7. CASE PermWrite(h)
    <3>1. /\ hand[h].at = "write" /\ hand'[h].at \in {"read", "idle"}
          /\ \A g \in Hand \ {h} : hand'[g] = hand[g]
          /\ UNCHANGED <<store, behind>> /\ permFile' = hand[h].copy
      BY <2>7, <2>t DEF PermWrite, Rest
    <3>2. CASE behind
      BY <3>1, <3>2 DEF StoreFollows
    <3>3. CASE ~ behind
      <4>1. PermSaving(h) /\ \A g \in Hand : PermSaving(g) => g = h
        BY <3>1, <3>3 DEF StoreFollows, PermSaving
      <4>2. \A g \in Hand : ~ PermSaving(g)'
        BY <3>1, <4>1 DEF PermSaving
      <4>3. StoreUnsaved => StoreUnsaved'
        BY <3>1 DEF StoreUnsaved
      <4> QED
        BY <3>1, <3>3, <4>1, <4>2, <4>3 DEF StoreFollows
    <3> QED
      BY <3>2, <3>3
  <2>8. CASE PermWriteFails(h)
    BY <2>8 DEF PermWriteFails, StoreFollows
  <2>9. CASE Read(h)
    <3>1. hand'[h].at = "install" /\ \A g \in Hand \ {h} : hand'[g] = hand[g]
      BY <2>9, <2>t DEF Read, Hands
    <3> QED
      BY <2>9, <2>a, <3>1 DEF Read
  <2>10. CASE Install(h)
    <3>1. /\ hand[h].at = "install" /\ hand'[h].at = "idle"
          /\ \A g \in Hand \ {h} : hand'[g] = hand[g]
          /\ store' = hand[h].copy /\ UNCHANGED permFile
      BY <2>10, <2>t DEF Install, Rest
    <3>2. behind' \/ (permFile = store' /\ \A g \in Hand \ {h} : ~ PermSaving(g))
      BY <2>10 DEF Install, SavesElse
    <3>3. CASE behind'
      BY <3>3 DEF StoreFollows
    <3>4. CASE ~ behind'
      <4>1. permFile' = store' /\ \A g \in Hand : ~ PermSaving(g)'
        BY <3>1, <3>2, <3>4 DEF PermSaving
      <4> QED
        BY <4>1 DEF StoreFollows
    <3> QED
      BY <3>3, <3>4
  <2> QED
    BY <1>h, <2>1, <2>2, <2>3, <2>4, <2>5, <2>6, <2>7, <2>8, <2>9, <2>10
<1> QED
  BY <1>j, <1>h DEF PermNext

LEMMA PermInvStarts == PermInit => PermInv
BY PermsWellStarts DEF PermInit, PermInv, StoreFollows, PermSaving, Rest

LEMMA PermInvKept == PermInv /\ PermNext => PermInv'
BY PermsWellKept, StoreFollowsKept DEF PermInv

\* What the invariant is for
LEMMA PermInvMeans == PermInv => PermsTyped /\ StoreKept
<1> SUFFICES ASSUME PermInv PROVE PermsTyped /\ StoreKept
  OBVIOUS
<1>1. PermsTyped
  BY DEF PermInv, PermsWell, Stores, Hands, PermsTyped
<1>2. StoreKept
  BY DEF PermInv, StoreFollows, PermSaving, StoreUnsaved, StoreKept
<1> QED
  BY <1>1, <1>2


-----------------------------------------------------------------------------
(* Checks: what the invariant is kept by. *)

\* What a call goes to is groups, and what it applies entries.
LEMMA CallsTyped ==
  ASSUME store \in Stores, RulesTyped, asked # Absent, store.users[asked] # Absent
  PROVE  /\ Calls \subseteq Frame /\ Calls \intersect Person = {asked} /\ Absent \notin Calls
         /\ \A f \in Calls : Up(f) \subseteq Group /\ Nodes(f) \subseteq Raw
<1>1. asked \in Person /\ visited \subseteq Group /\ Person \intersect Group = {}
  BY KindAssumption DEF RulesTyped
<1>2. Calls \subseteq Frame /\ Calls \intersect Person = {asked} /\ Absent \notin Calls
  BY <1>1, KindAssumption DEF Calls, Frame
<1>3. ASSUME NEW f \in Calls PROVE Up(f) \subseteq Group /\ Nodes(f) \subseteq Raw
  <2>1. CASE f \in Person
    <3>1. f = asked /\ store.users[f] \in UserRecord
      BY <1>1, <1>2, <2>1 DEF Stores
    <3> QED
      BY <2>1, <3>1 DEF Up, Nodes, UserRecord
  <2>2. CASE f \notin Person
    <3>1. f \in Group /\ store.groups[f] # Absent
      BY <1>1, <2>2 DEF Calls
    <3>2. store.groups[f] \in GroupRecord
      BY <3>1 DEF Stores
    <3> QED
      BY <2>2, <3>2 DEF Up, Nodes, GroupRecord
  <2> QED
    BY <2>1, <2>2
<1> QED
  BY <1>2, <1>3

\* A call under way
LEMMA TopIsCall ==
  ASSUME RulesTyped, CallsFollow, stack # <<>>
  PROVE  /\ Len(stack) \in 1 .. Len(stack) /\ Top \in Calls
BY DEF RulesTyped, CallsFollow, Top

LEMMA ApplyKept ==
  ASSUME store \in Stores, NEW raw \in Raw, RulesInv, ApplyRaw(raw), UNCHANGED store
  PROVE  RulesInv'
<1>1. RulesTyped /\ asked # Absent /\ store.users[asked] # Absent /\ CallsFollow /\ DecisionsFollow
  BY DEF RulesInv, ApplyRaw
<1>2. Top \in Calls /\ Top \in Frame
  BY <1>1, TopIsCall, CallsTyped DEF ApplyRaw
<1>3. raw.node \in Node /\ raw.allow \in BOOLEAN
  BY PathAssumption
<1>4. RulesTyped'
  BY <1>1, <1>2, <1>3 DEF RulesTyped, ApplyRaw, Decide
<1>5. Calls' = Calls /\ \A f \in Calls : Up(f)' = Up(f) /\ Nodes(f)' = Nodes(f)
  BY DEF ApplyRaw, Calls, Up, Nodes
<1>6. own'[Top] = own[Top] \ {raw} /\ \A f \in Calls : f # Top => own'[f] = own[f]
  BY <1>1, <1>2, CallsTyped DEF ApplyRaw, RulesTyped
<1>7. raw \in Nodes(Top)
  BY <1>1, <1>2 DEF ApplyRaw, CallsFollow
<1>8. CallsFollow'
  BY <1>1, <1>2, <1>5, <1>6 DEF CallsFollow, ApplyRaw, Closed
<1>9. DecisionsFollow'
  <2> SUFFICES ASSUME NEW n \in Node
               PROVE  /\ decisions'[n] = "deny" <=> \E f \in Calls : \E r \in Nodes(f) \ own'[f] : r.node = n /\ ~ r.allow
                      /\ decisions'[n] # "none" <=> \E f \in Calls : \E r \in Nodes(f) \ own'[f] : r.node = n
    BY <1>5 DEF DecisionsFollow
  <2>1. \A f \in Calls : \A r : r \in Nodes(f) \ own'[f] <=> r \in Nodes(f) \ own[f] \/ (f = Top /\ r = raw)
    BY <1>6, <1>7
  <2>2. /\ decisions[n] = "deny" <=> \E f \in Calls : \E r \in Nodes(f) \ own[f] : r.node = n /\ ~ r.allow
        /\ decisions[n] # "none" <=> \E f \in Calls : \E r \in Nodes(f) \ own[f] : r.node = n
    BY <1>1 DEF DecisionsFollow
  <2>3. decisions'[n] = IF raw.node # n \/ decisions[n] = "deny" THEN decisions[n]
                        ELSE IF raw.allow THEN "allow" ELSE "deny"
    BY <1>1, <1>3 DEF ApplyRaw, Decide, RulesTyped
  <2>4. decisions[n] \in {"none", "allow", "deny"}
    BY <1>1 DEF RulesTyped
  <2> QED
    BY <1>2, <1>3, <2>1, <2>2, <2>3, <2>4
<1> QED
  BY <1>1, <1>4, <1>8, <1>9 DEF RulesInv, ApplyRaw

LEMMA ReturnKept ==
  ASSUME store \in Stores, RulesInv, Return, UNCHANGED store
  PROVE  RulesInv'
<1>1. RulesTyped /\ asked # Absent /\ store.users[asked] # Absent /\ CallsFollow /\ DecisionsFollow
  BY DEF RulesInv, Return
<1>2. Top \in Calls /\ Len(stack) \in Nat \ {0}
  BY <1>1, TopIsCall DEF RulesTyped, Return
<1>3. /\ stack' \in Seq(Frame) /\ Len(stack') = Len(stack) - 1
      /\ \A i \in 1 .. Len(stack) - 1 : stack'[i] = stack[i]
  <2> DEFINE last == Len(stack) - 1
  <2>1. last \in Int /\ \A i \in 1 .. last : stack[i] \in Frame
    BY <1>1, <1>2 DEF RulesTyped
  <2>2. stack' = SubSeq(stack, 1, last)
    BY DEF Return
  <2> HIDE DEF last
  <2>3. /\ SubSeq(stack, 1, last) \in Seq(Frame)
        /\ Len(SubSeq(stack, 1, last)) = IF 1 <= last THEN last - 1 + 1 ELSE 0
        /\ \A i \in 1 .. last - 1 + 1 : SubSeq(stack, 1, last)[i] = stack[1 + i - 1]
    BY <2>1, SubSeqProperties
  <2>4. last \in Nat /\ last = Len(stack) - 1
    BY <1>2 DEF last
  <2>5. ASSUME NEW i \in 1 .. last PROVE stack'[i] = stack[i]
    <3>1. i \in 1 .. last - 1 + 1 /\ 1 + i - 1 = i
      BY <2>4
    <3> QED
      BY <2>2, <2>3, <3>1
  <2>6. Len(stack') = last
    BY <2>2, <2>3, <2>4
  <2> QED
    BY <2>2, <2>3, <2>4, <2>5, <2>6
<1>4. RulesTyped'
  BY <1>1, <1>3 DEF RulesTyped, Return
<1>5. Calls' = Calls /\ \A f \in Calls : Up(f)' = Up(f) /\ Nodes(f)' = Nodes(f)
  BY DEF Return, Calls, Up, Nodes
<1>6. ASSUME NEW f \in Calls, above[f] # {} \/ own[f] # {}
      PROVE  \E i \in 1 .. Len(stack') : stack'[i] = f
  <2>1. PICK i \in 1 .. Len(stack) : stack[i] = f
    BY <1>1, <1>6 DEF CallsFollow
  <2>2. i # Len(stack)
    BY <1>6, <2>1 DEF Return, Top
  <2> QED
    BY <1>2, <1>3, <2>1, <2>2
<1>7. CallsFollow'
  BY <1>1, <1>2, <1>3, <1>5, <1>6 DEF CallsFollow, Return, Closed
<1>8. DecisionsFollow'
  BY <1>1, <1>5 DEF DecisionsFollow, Return
<1> QED
  BY <1>1, <1>4, <1>7, <1>8 DEF RulesInv, Return

\* Whatever has the user's groups and the parents of its own has those of every call.
LEMMA UpIsClosed ==
  ASSUME store \in Stores, RulesTyped, asked # Absent, store.users[asked] # Absent, CallsFollow,
         NEW f \in Calls, NEW groups \in SUBSET Group, Closed(asked, groups)
  PROVE  Up(f) \subseteq groups
<1>1. CASE f \in Person
  BY <1>1, CallsTyped DEF Up, Closed
<1>2. CASE f \notin Person
  <2>1. f \in visited /\ store.groups[f] # Absent
    BY <1>2 DEF Calls, RulesTyped
  <2>2. f \in groups
    BY <2>1 DEF CallsFollow
  <2> QED
    BY <1>2, <2>1, <2>2 DEF Up, Closed
<1> QED
  BY <1>1, <1>2

LEMMA EnterKept ==
  ASSUME store \in Stores, NEW g \in Group, RulesInv, EnterGroup(g), UNCHANGED store
  PROVE  RulesInv'
<1>1. RulesTyped /\ asked # Absent /\ store.users[asked] # Absent /\ CallsFollow /\ DecisionsFollow
  BY DEF RulesInv, EnterGroup
<1>2. Top \in Calls /\ Top \in Frame /\ Len(stack) \in Nat \ {0}
  BY <1>1, TopIsCall, CallsTyped DEF EnterGroup, RulesTyped
<1>3. g \in above[Top] /\ g \in Up(Top) /\ g \in Frame /\ g \notin Person
  BY <1>1, <1>2, KindAssumption DEF EnterGroup, CallsFollow, Frame
<1>4. \A groups \in SUBSET Group : Closed(asked, groups) => visited' \subseteq groups
  BY <1>1, <1>2, <1>3, UpIsClosed DEF EnterGroup, CallsFollow
<1>5. \A f : Up(f)' = Up(f) /\ Nodes(f)' = Nodes(f)
  BY DEF Up, Nodes
<1>6. \A groups : Closed(asked, groups)' = Closed(asked, groups)
  BY DEF EnterGroup, Closed
<1>7. CASE g \in visited \/ store.groups[g] = Absent
  <2>1. Calls' = Calls
    BY <1>1, <1>7 DEF Calls, EnterGroup
  <2>2. RulesTyped'
    BY <1>1, <1>2, <1>7 DEF RulesTyped, EnterGroup
  <2>3. above'[Top] = above[Top] \ {g} /\ \A f \in Calls : f # Top => above'[f] = above[f]
    BY <1>1, <1>2, <1>7, CallsTyped DEF EnterGroup, RulesTyped
  <2>4. UNCHANGED <<own, stack, asked, decisions>> /\ visited' = visited \union {g}
    BY <1>7 DEF EnterGroup
  <2>5. CallsFollow'
    BY <1>1, <1>2, <1>3, <1>4, <1>5, <1>6, <2>1, <2>3, <2>4 DEF CallsFollow
  <2>6. DecisionsFollow'
    BY <1>1, <1>5, <2>1, <2>4 DEF DecisionsFollow
  <2> QED
    BY <1>1, <2>2, <2>4, <2>5, <2>6 DEF RulesInv
<1>8. CASE g \notin visited /\ store.groups[g] # Absent
  <2>1. Calls' = Calls \union {g} /\ g \notin Calls /\ Top # g
    BY <1>1, <1>2, <1>3, <1>8 DEF Calls, EnterGroup, RulesTyped
  <2>2. Up(g) = store.groups[g].parents /\ Nodes(g) = store.groups[g].nodes
    BY <1>3 DEF Up, Nodes
  <2>3. Up(g) \subseteq Group /\ Nodes(g) \subseteq Raw
    BY <1>8, <2>2 DEF Stores, GroupRecord
  <2>4. /\ above' = [above EXCEPT ![Top] = @ \ {g}, ![g] = Up(g)]
        /\ own' = [own EXCEPT ![g] = Nodes(g)] /\ stack' = Append(stack, g)
        /\ UNCHANGED <<asked, decisions>> /\ visited' = visited \union {g}
    BY <1>8, <2>2 DEF EnterGroup
  <2>5. RulesTyped'
    BY <1>1, <1>2, <1>3, <2>3, <2>4 DEF RulesTyped
  <2>6. /\ Len(stack') = Len(stack) + 1 /\ stack'[Len(stack) + 1] = g
        /\ \A i \in 1 .. Len(stack) : stack'[i] = stack[i]
    BY <1>1, <1>3, <2>4 DEF RulesTyped
  <2>7. /\ above'[Top] = above[Top] \ {g} /\ above'[g] = Up(g) /\ own'[g] = Nodes(g)
        /\ \A f \in Calls : own'[f] = own[f] /\ (f # Top => above'[f] = above[f])
    BY <1>1, <1>2, <1>3, <2>1, <2>4, CallsTyped DEF RulesTyped
  <2>8. ASSUME NEW f \in Calls \union {g}
        PROVE  /\ above'[f] \subseteq Up(f) /\ Up(f) \subseteq visited' \union above'[f]
               /\ own'[f] \subseteq Nodes(f)
               /\ above'[f] # {} \/ own'[f] # {} => \E i \in 1 .. Len(stack') : stack'[i] = f
    <3>1. CASE f = g
      BY <1>2, <2>6, <2>7, <3>1
    <3>2. CASE f \in Calls
      <4>1. /\ above[f] \subseteq Up(f) /\ Up(f) \subseteq visited \union above[f]
            /\ own[f] \subseteq Nodes(f)
            /\ above[f] # {} \/ own[f] # {} => \E i \in 1 .. Len(stack) : stack[i] = f
        BY <1>1, <3>2 DEF CallsFollow
      <4>2. above'[f] \subseteq above[f] /\ above[f] \subseteq above'[f] \union {g} /\ own'[f] = own[f]
        BY <2>7, <3>2
      <4>3. above'[f] # {} \/ own'[f] # {} => \E i \in 1 .. Len(stack') : stack'[i] = f
        BY <1>2, <2>6, <4>1, <4>2
      <4> QED
        BY <2>4, <4>1, <4>2, <4>3
    <3> QED
      BY <3>1, <3>2
  <2>9. \A i \in 1 .. Len(stack') : stack'[i] \in Calls \union {g}
    BY <1>1, <1>2, <2>6 DEF CallsFollow
  <2>10. CallsFollow'
    BY <1>4, <1>5, <1>6, <2>1, <2>4, <2>8, <2>9 DEF CallsFollow
  <2>11. DecisionsFollow'
    <3>1. \A f \in Calls' : \A r : r \in Nodes(f) \ own'[f] <=> f \in Calls /\ r \in Nodes(f) \ own[f]
      BY <2>1, <2>7
    <3> QED
      BY <1>1, <1>5, <2>1, <2>4, <3>1 DEF DecisionsFollow
  <2> QED
    BY <1>1, <2>4, <2>5, <2>10, <2>11 DEF RulesInv
<1> QED
  BY <1>7, <1>8

LEMMA CheckKept ==
  ASSUME store \in Stores, NEW u \in Person, RulesInv, Check(u), UNCHANGED store
  PROVE  RulesInv'
<1>1. RulesTyped /\ asked' = u /\ u # Absent /\ stack = <<>> /\ visited' = {} /\ decisions' = Undecided
  BY KindAssumption DEF RulesInv, Check
<1>2. CASE store.users[u] = Absent
  BY <1>1, <1>2 DEF RulesInv, Check, RulesTyped
<1>3. CASE store.users[u] # Absent
  <2>1. store.users[u] \in UserRecord
    BY <1>3 DEF Stores
  <2>2. store.users[u].groups \subseteq Group /\ store.users[u].nodes \subseteq Raw /\ u \in Frame
    BY <2>1 DEF UserRecord, Frame
  <2>3. /\ stack' = <<u>> /\ above' = [above EXCEPT ![u] = store.users[u].groups]
        /\ own' = [own EXCEPT ![u] = store.users[u].nodes]
    BY <1>3 DEF Check
  <2>4. RulesTyped'
    BY <1>1, <2>2, <2>3 DEF RulesTyped, Undecided
  <2>5. Calls' = {u} /\ Up(u)' = above'[u] /\ Nodes(u)' = own'[u] /\ Len(stack') = 1 /\ stack'[1] = u
    BY <1>1, <2>2, <2>3 DEF Calls, Up, Nodes, RulesTyped
  <2>6. CallsFollow'
    BY <1>1, <2>5 DEF CallsFollow
  <2>7. DecisionsFollow'
    BY <1>1, <2>5 DEF DecisionsFollow, Undecided
  <2> QED
    BY <1>1, <1>3, <2>4, <2>6, <2>7 DEF RulesInv
<1> QED
  BY <1>2, <1>3

LEMMA EndKept ==
  ASSUME store \in Stores, RulesInv, EndCheck, UNCHANGED store
  PROVE  RulesInv'
BY DEF RulesInv, EndCheck, RulesTyped, Undecided

\* Once a check is through, its calls are the user's and those of the groups it is in.
LEMMA CallsMean ==
  ASSUME store \in Stores, RulesInv, asked # Absent, store.users[asked] # Absent, stack = <<>>
  PROVE  Calls \ {asked} = {g \in GroupsOf(asked) : store.groups[g] # Absent}
<1>1. RulesTyped /\ CallsFollow /\ asked \in Person /\ visited \subseteq Group
  BY DEF RulesInv, RulesTyped
<1>2. \A f \in Calls : Up(f) \subseteq visited
  BY <1>1 DEF CallsFollow
<1>3. Closed(asked, visited)
  <2>1. store.users[asked].groups \subseteq visited
    BY <1>1, <1>2 DEF Calls, Up
  <2>2. \A g \in visited : store.groups[g] # Absent => Up(g) = store.groups[g].parents /\ g \in Calls
    BY <1>1, KindAssumption DEF Up, Calls
  <2> QED
    BY <1>2, <2>1, <2>2 DEF Closed
<1>4. GroupsOf(asked) = visited
  BY <1>1, <1>3 DEF GroupsOf, CallsFollow
<1> QED
  BY <1>1, <1>4, KindAssumption DEF Calls

LEMMA RulesInvMeans ==
  ASSUME store \in Stores, RulesInv PROVE RulesTyped /\ DenyWins
<1>1. ASSUME asked # Absent, stack = <<>>, store.users[asked] = Absent PROVE ~ check_node
  BY <1>1 DEF RulesInv, check_node, Undecided, Node
<1>2. ASSUME asked # Absent, stack = <<>>, store.users[asked] # Absent
      PROVE  check_node = Allowed(Entries(asked))
  <2>1. CallsFollow /\ DecisionsFollow /\ RulesTyped /\ asked \in Person
    BY <1>2 DEF RulesInv, RulesTyped
  <2>2. \A f \in Calls : Nodes(f) \ own[f] = Nodes(f)
    BY <1>2, <2>1 DEF CallsFollow
  <2>3. \A raw : raw \in Entries(asked) <=> \E f \in Calls : raw \in Nodes(f)
    <3>1. Nodes(asked) = store.users[asked].nodes /\ asked \in Calls
      BY <2>1 DEF Nodes, Calls
    <3>2. \A g \in Calls \ {asked} : Nodes(g) = store.groups[g].nodes
      BY <1>2, CallsTyped DEF Nodes, RulesInv
    <3> QED
      BY <1>2, <3>1, <3>2, CallsMean DEF Entries
  <2>4. \A n \in Node :
          /\ decisions[n] \in {"none", "allow", "deny"}
          /\ decisions[n] = "deny" <=> \E raw \in Entries(asked) : raw.node = n /\ ~ raw.allow
          /\ decisions[n] # "none" <=> \E raw \in Entries(asked) : raw.node = n
    BY <2>1, <2>2, <2>3 DEF DecisionsFollow, RulesTyped
  <2>5. \A i \in DOMAIN Path : Path[i] \in Node
    BY DEF Node
  <2>6. \A i \in DOMAIN Path : decisions[Path[i]] = "allow" <=>
          /\ \E raw \in Entries(asked) : raw.node = Path[i]
          /\ \A raw \in Entries(asked) : raw.node = Path[i] => raw.allow
    BY <2>4, <2>5
  <2>7. \A j \in DOMAIN Path : decisions[Path[j]] = "none" <=> \A raw \in Entries(asked) : raw.node # Path[j]
    BY <2>4, <2>5
  <2> QED
    BY <2>6, <2>7 DEF check_node, Allowed
<1>3. check_node \in BOOLEAN /\ Allowed(Entries(asked)) \in BOOLEAN
  BY DEF check_node, Allowed
<1>4. DenyWins
  BY <1>1, <1>2, <1>3, Zenon DEF DenyWins
<1> QED
  BY <1>4 DEF RulesInv

\* Without a check, the store may be what it likes.
LEMMA UncheckedKept ==
  ASSUME RulesInv, UNCHANGED ruleVars, asked # Absent => UNCHANGED store PROVE RulesInv'
BY DEF RulesInv, ruleVars, RulesTyped, CallsFollow, DecisionsFollow, Calls, Up, Nodes, Closed

LEMMA RulesInvStarts == RulesInit => RulesInv
BY DEF RulesInit, RulesInv, RulesTyped, Undecided

LEMMA RulesInvKept ==
  ASSUME store \in Stores, RulesInv, RightsNext PROVE RulesInv'
<1>1. CASE PermNext /\ (asked # Absent => store' = store) /\ UNCHANGED ruleVars
  BY <1>1, UncheckedKept
<1>2. CASE RulesNext /\ UNCHANGED permVars
  BY <1>2, CheckKept, EnterKept, ApplyKept, ReturnKept, EndKept DEF RulesNext, permVars
<1> QED
  BY <1>1, <1>2 DEF RightsNext

-----------------------------------------------------------------------------
(* Settings: what the invariant is kept by. *)

LEMMA WaitingTyped == DoerTyped(Waiting) /\ Waiting.at = "idle" /\ Waiting.of = "locks"
BY DEF DoerTyped, Doers, Value, Waiting, Setting

LEMMA OutsideTyped == Outside \in Entrance /\ Outside.at = "new"
BY DEF Outside, Entrance

\* What a task may still tell is read off its record.
LEMMA ToldByIs ==
  \A d \in Doer, p \in Player, s \in Setting : <<p, s>> \in ToldBy(d) <=> Tells(doer[d], p, s)
<1> SUFFICES ASSUME NEW d \in Doer, NEW p \in Player, NEW s \in Setting
             PROVE  <<p, s>> \in ToldBy(d) <=> Tells(doer[d], p, s)
  OBVIOUS
<1>1. CASE doer[d].at \in {"read", "configure", "send"}
  BY <1>1 DEF ToldBy, Tells
<1>2. CASE doer[d].at = "answer"
  BY <1>2 DEF ToldBy, Tells
<1>3. CASE doer[d].at \notin {"read", "configure", "send", "answer"}
  BY <1>3 DEF ToldBy, Tells
<1> QED
  BY <1>1, <1>2, <1>3

\* After a message about scope has begun, a setting is not muddled if it is in scope
\* and nothing was under way for it, or was not muddled before.
LEMMA BeginsMeans ==
  ASSUME NEW scope \in SUBSET (Player \X Setting), Begins(scope)
  PROVE  \A p \in Player, s \in Setting : <<p, s>> \notin muddled' =>
           \/ /\ <<p, s>> \in scope /\ entry[p].at # "greet"
              /\ \A d \in Doer : ~ Tells(doer[d], p, s)
           \/ <<p, s>> \notin scope \union muddled
<1> SUFFICES ASSUME NEW p \in Player, NEW s \in Setting, <<p, s>> \notin muddled', <<p, s>> \in scope
             PROVE  /\ entry[p].at # "greet"
                    /\ \A d \in Doer : ~ Tells(doer[d], p, s)
  BY DEF Begins
<1>1. <<p, s>> \notin BeingTold
  BY DEF Begins
<1>2. \A d \in Doer : <<p, s>> \notin ToldBy(d)
  BY <1>1 DEF BeingTold
<1>3. <<p, s>> \notin ToldByEntry(p)
  BY <1>1 DEF BeingTold
<1> QED
  BY <1>2, <1>3, ToldByIs DEF ToldByEntry

LEMMA BeginsTyped ==
  ASSUME NEW scope \in SUBSET (Player \X Setting), muddled \subseteq Player \X Setting, Begins(scope)
  PROVE  muddled' \subseteq Player \X Setting
BY DEF Begins

LEMMA DoersTyped ==
  ASSUME GlobalsWell, NEW d \in Doer, NEW r, DoerTyped(r), doer' = [doer EXCEPT ![d] = r]
  PROVE  doer' \in [Doer -> Doers] /\ \A e \in Doer : DoerTyped(doer'[e])
BY DEF GlobalsWell, DoerTyped

\* A step of a task, typed as the next record of the task is.
LEMMA TaskTyped ==
  ASSUME GlobalsWell, NEW d \in Doer, NEW r, DoerTyped(r), doer' = [doer EXCEPT ![d] = r],
         locks' \subseteq Lock, disallow' \in BOOLEAN, configured' \in BOOLEAN,
         alive' \subseteq alive, UNCHANGED <<entered, entry>>, late' \subseteq Headless,
         told' \in [Player -> [locks : SUBSET Lock, disallow : BOOLEAN]],
         muddled' \subseteq Player \X Setting
  PROVE  GlobalsWell'
<1>1. doer' \in [Doer -> Doers] /\ \A e \in Doer : DoerTyped(doer'[e])
  BY DoersTyped
<1>2. \A e \in Doer :
        doer'[e].at \in {"idle", "read", "configure", "send", "collect", "away", "answer"}
  BY <1>1 DEF Doers
<1> QED
  BY <1>1, <1>2 DEF GlobalsWell, GlobalsTyped

LEMMA EntriesTyped ==
  \A p \in Player : GlobalsWell /\ (Admit(p) \/ Enter(p) \/ ReadGlobals(p) \/ Greet(p) \/ Depart(p)
                                    \/ TakeOut(p)) => GlobalsWell'
<1> SUFFICES ASSUME NEW p \in Player, GlobalsWell
             PROVE  Admit(p) \/ Enter(p) \/ ReadGlobals(p) \/ Greet(p) \/ Depart(p) \/ TakeOut(p)
                    => GlobalsWell'
  OBVIOUS
<1> USE DEF GlobalsWell, GlobalsTyped, Entrance, EntryAt, Settings
<1>1. CASE Admit(p)
  BY <1>1 DEF Admit
<1>2. CASE Enter(p)
  BY <1>2 DEF Enter
<1>3. CASE ReadGlobals(p)
  <2>1. muddled' \subseteq Player \X Setting
    BY <1>3, BeginsTyped DEF ReadGlobals
  <2> QED
    BY <1>3, <2>1 DEF ReadGlobals
<1>4. CASE Greet(p)
  <2>1. told' \in [Player -> [locks : SUBSET Lock, disallow : BOOLEAN]]
    BY <1>4 DEF Greet
  <2>2. [Outside EXCEPT !.at = "in"] \in Entrance /\ [Outside EXCEPT !.at = "in"].at = "in"
    BY OutsideTyped
  <2> QED
    BY <1>4, <2>1, <2>2 DEF Greet
<1>5. CASE Depart(p)
  BY <1>5 DEF Depart
<1>6. CASE TakeOut(p)
  BY <1>6 DEF TakeOut
<1> QED
  BY <1>1, <1>2, <1>3, <1>4, <1>5, <1>6

LEMMA OrdersTyped ==
  \A d \in Doer : GlobalsWell => /\ \A l \in Lock : Toggle(d, l) => GlobalsWell'
                                 /\ \A v \in BOOLEAN : Disallow(d, v) => GlobalsWell'
                                 /\ \A p \in Player : Ask(d, p) => GlobalsWell'
<1> SUFFICES ASSUME NEW d \in Doer, GlobalsWell
             PROVE  /\ \A l \in Lock : Toggle(d, l) => GlobalsWell'
                    /\ \A v \in BOOLEAN : Disallow(d, v) => GlobalsWell'
                    /\ \A p \in Player : Ask(d, p) => GlobalsWell'
  OBVIOUS
<1> USE DEF Set, Settings, Peers
<1>1. ASSUME NEW l \in Lock, Toggle(d, l) PROVE GlobalsWell'
  <2>1. DoerTyped([Waiting EXCEPT !.at = "read"])
    BY WaitingTyped DEF DoerTyped, Doers, Value, Waiting
  <2>2. muddled' \subseteq Player \X Setting
    BY <1>1, BeginsTyped DEF Toggle, GlobalsWell, GlobalsTyped, Setting
  <2> QED
    BY <1>1, <2>1, <2>2, TaskTyped DEF Toggle, GlobalsWell, GlobalsTyped
<1>2. ASSUME NEW v \in BOOLEAN, Disallow(d, v) PROVE GlobalsWell'
  <2> DEFINE only == {v}
  <2>0. only \in Value
    BY DEF Value
  <2> HIDE DEF only
  <2>1. DoerTyped([Waiting EXCEPT !.at = "configure", !.of = "disallow", !.value = only])
    BY <2>0, WaitingTyped DEF DoerTyped, Doers, Waiting, Setting
  <2>2. muddled' \subseteq Player \X Setting
    BY <1>2, BeginsTyped DEF Disallow, GlobalsWell, GlobalsTyped, Setting
  <2> QED
    BY <1>2, <2>1, <2>2, TaskTyped DEF Disallow, GlobalsWell, GlobalsTyped, only
<1>3. ASSUME NEW p \in Player, Ask(d, p) PROVE GlobalsWell'
  <2>1. DoerTyped([Waiting EXCEPT !.at = "answer", !.value = locks, !.todo = {p}])
    BY WaitingTyped DEF DoerTyped, Doers, Value, Waiting, Setting, GlobalsWell, GlobalsTyped
  <2>2. muddled' \subseteq Player \X Setting
    BY <1>3, BeginsTyped DEF Ask, GlobalsWell, GlobalsTyped, Setting
  <2> QED
    BY <1>3, <2>1, <2>2, TaskTyped DEF Ask, GlobalsWell, GlobalsTyped
<1> QED
  BY <1>1, <1>2, <1>3

LEMMA TasksTyped ==
  \A d \in Doer : GlobalsWell /\ (\/ ReadLocks(d) \/ Configure(d) \/ Told(d) \/ Collect(d) \/ Away(d)
                                  \/ \E p \in Player : Answer(d, p) \/ Tell(d, p) \/ SendAway(d, p))
                  => GlobalsWell'
<1> SUFFICES ASSUME NEW d \in Doer, GlobalsWell
             PROVE  (\/ ReadLocks(d) \/ Configure(d) \/ Told(d) \/ Collect(d) \/ Away(d)
                     \/ \E p \in Player : Answer(d, p) \/ Tell(d, p) \/ SendAway(d, p))
                    => GlobalsWell'
  OBVIOUS
<1>0. DoerTyped(doer[d])
  BY DEF GlobalsWell
<1>t. /\ locks \subseteq Lock /\ disallow \in BOOLEAN /\ configured \in BOOLEAN
      /\ late \subseteq Headless /\ muddled \subseteq Player \X Setting
      /\ told \in [Player -> [locks : SUBSET Lock, disallow : BOOLEAN]]
      /\ alive \subseteq Player /\ entered \subseteq Player
  BY DEF GlobalsWell, GlobalsTyped
<1> USE DEF Set, Settings, Peers
<1>1. CASE ReadLocks(d)
  <2>1. DoerTyped([doer[d] EXCEPT !.at = "send", !.value = locks, !.todo = Player])
    BY <1>0, <1>1, <1>t DEF ReadLocks, DoerTyped, Doers, Value
  <2> QED
    BY <1>1, <1>t, <2>1, TaskTyped DEF ReadLocks
<1>2. CASE Configure(d)
  <2>1. DoerTyped([doer[d] EXCEPT !.at = "send", !.todo = Player])
    BY <1>0, <1>2 DEF Configure, DoerTyped, Doers
  <2>2. configured' \in BOOLEAN
    <3>1. (TRUE \in doer[d].value) \in BOOLEAN
      OBVIOUS
    <3> QED
      BY <1>2, <3>1 DEF Configure
  <2> QED
    BY <1>2, <1>t, <2>1, <2>2, TaskTyped DEF Configure
<1>3. CASE Told(d)
  <2>1. CASE doer[d].of = "disallow" /\ TRUE \in doer[d].value
    <3>1. DoerTyped([doer[d] EXCEPT !.at = "collect"])
      BY <1>0, <2>1 DEF DoerTyped, Doers
    <3>2. doer' = [doer EXCEPT ![d] = [doer[d] EXCEPT !.at = "collect"]]
      BY <1>3, <2>1 DEF Told, At
    <3> QED
      BY <1>3, <1>t, <3>1, <3>2, TaskTyped DEF Told
  <2>2. CASE ~ (doer[d].of = "disallow" /\ TRUE \in doer[d].value)
    BY <1>3, <1>t, <2>2, WaitingTyped, TaskTyped DEF Told
  <2> QED
    BY <2>1, <2>2
<1>4. CASE Collect(d)
  <2>1. DoerTyped([doer[d] EXCEPT !.at = "away", !.todo = entered \intersect Headless])
    BY <1>0, <1>4, <1>t DEF Collect, DoerTyped, Doers
  <2> QED
    BY <1>4, <1>t, <2>1, TaskTyped DEF Collect
<1>5. CASE Away(d)
  BY <1>5, <1>t, WaitingTyped, TaskTyped DEF Away
<1>6. ASSUME NEW p \in Player, Answer(d, p) PROVE GlobalsWell'
  <2>1. doer[d].value \in SUBSET Lock
    BY <1>0, <1>6 DEF Answer, DoerTyped
  <2>2. told' \in [Player -> [locks : SUBSET Lock, disallow : BOOLEAN]]
    BY <1>6, <1>t, <2>1 DEF Answer
  <2> QED
    BY <1>6, <1>t, <2>2, WaitingTyped, TaskTyped DEF Answer
<1>7. ASSUME NEW p \in Player, Tell(d, p) PROVE GlobalsWell'
  <2>1. DoerTyped([doer[d] EXCEPT !.todo = @ \ {p}])
    BY <1>0, <1>7 DEF Tell, DoerTyped, Doers
  <2>2. doer' = [doer EXCEPT ![d] = [doer[d] EXCEPT !.todo = @ \ {p}]]
    BY <1>7 DEF Tell
  <2>3. doer[d].of = "locks" => doer[d].value \in SUBSET Lock
    BY <1>0 DEF DoerTyped
  <2>4. told' \in [Player -> [locks : SUBSET Lock, disallow : BOOLEAN]]
    <3> DEFINE b == TRUE \in doer[d].value
    <3>1. b \in BOOLEAN
      OBVIOUS
    <3>2. told' = IF p \notin entered \intersect alive THEN told
                  ELSE IF doer[d].of = "locks" THEN [told EXCEPT ![p].locks = doer[d].value]
                  ELSE [told EXCEPT ![p].disallow = b]
      BY <1>7 DEF Tell
    <3> HIDE DEF b
    <3> QED
      BY <1>t, <2>3, <3>1, <3>2
  <2> QED
    BY <1>7, <1>t, <2>1, <2>2, <2>4, TaskTyped DEF Tell
<1>8. ASSUME NEW p \in Player, SendAway(d, p) PROVE GlobalsWell'
  <2>1. DoerTyped([doer[d] EXCEPT !.todo = @ \ {p}])
    BY <1>0, <1>8 DEF SendAway, DoerTyped, Doers
  <2>2. doer' = [doer EXCEPT ![d] = [doer[d] EXCEPT !.todo = @ \ {p}]]
    BY <1>8 DEF SendAway
  <2> QED
    BY <1>8, <1>t, <2>1, <2>2, TaskTyped DEF SendAway
<1> QED
  BY <1>1, <1>2, <1>3, <1>4, <1>5, <1>6, <1>7, <1>8

LEMMA GlobalsWellKept == GlobalsWell /\ GlobalNext => GlobalsWell'
BY EntriesTyped, OrdersTyped, TasksTyped DEF GlobalNext


\* A task that begins a command was doing nothing, and no other is changed.
LEMMA OrderedMeans ==
  ASSUME GlobalsWell, NEW d \in Doer, NEW r, Ordered(d), Set(d, r)
  PROVE  /\ \A p, s : ~ Tells(doer[d], p, s)
         /\ doer[d].at = "idle" /\ doer[d].of = "locks"
         /\ doer'[d] = r /\ \A e \in Doer \ {d} : doer'[e] = doer[e]
BY DEF Ordered, Set, Waiting, Tells, GlobalsWell

\* A step of a task that tells nobody anything new
LEMMA OneTellsLess ==
  ASSUME GlobalsWell, OneTells, NEW d \in Doer, \A e \in Doer \ {d} : doer'[e] = doer[e],
         UNCHANGED <<entry, muddled, locks, disallow>>,
         \A p \in Player, s \in Setting : Tells(doer'[d], p, s) =>
           /\ Tells(doer[d], p, s)
           /\ \/ doer'[d].at = "read"
              \/ doer[d].at # "read" /\ doer'[d].value = doer[d].value
              \/ Current(s, doer'[d].value)
  PROVE  OneTells'
<1> SUFFICES ASSUME NEW p \in Player, NEW s \in Setting, <<p, s>> \notin muddled'
             PROVE  OneTell(p, s)'
  BY DEF OneTells
<1>1. /\ OneTell(p, s)
      /\ \A e \in Doer : Tells(doer'[e], p, s) => Tells(doer[e], p, s)
  BY DEF OneTells
<1>2. \A v : Current(s, v)' <=> Current(s, v)
  BY DEF Current
<1>3. ASSUME NEW e \in Doer, Tells(doer'[e], p, s), doer'[e].at # "read"
      PROVE  Current(s, doer'[e].value)
  BY <1>1, <1>3 DEF OneTell
<1>4. ASSUME NEW e \in Doer, Tells(doer'[e], p, s), doer'[e].at # "read"
      PROVE  Current(s, doer[e].value)'
  BY <1>3, <1>4 DEF Current
<1> QED
  BY <1>1, <1>4 DEF OneTell, InForce

\* The value of one choice
LEMMA OneChoice == \A v \in BOOLEAN : (TRUE \in {v}) = v
<1> TAKE v \in BOOLEAN
<1> DEFINE X == {v}
<1>1. (TRUE \in X) <=> v
  OBVIOUS
<1> HIDE DEF X
<1>2. (TRUE \in X) = v
  BY <1>1
<1> QED
  BY <1>2 DEF X

LEMMA OneTellsKept == GlobalsWell /\ OneTells /\ GlobalNext => OneTells'
<1> SUFFICES ASSUME GlobalsWell, OneTells, GlobalNext PROVE OneTells'
  OBVIOUS
<1> USE DEF Settings, Peers
<1>t. /\ doer \in [Doer -> Doers] /\ entry \in [Player -> Entrance] /\ disallow \in BOOLEAN
  BY DEF GlobalsWell, GlobalsTyped
<1>1. ASSUME NEW p \in Player, Admit(p) \/ Enter(p) \/ Greet(p) \/ Depart(p) \/ TakeOut(p)
      PROVE  OneTells'
  <2>1. /\ UNCHANGED <<doer, muddled, locks, disallow>>
        /\ \A q \in Player : entry'[q].at = "greet" => entry'[q] = entry[q]
    BY <1>1, <1>t DEF Admit, Enter, Greet, Depart, TakeOut, EntryAt, Outside, Entrance
  <2> SUFFICES ASSUME NEW q \in Player, NEW s \in Setting, <<q, s>> \notin muddled'
               PROVE  OneTell(q, s)'
    BY DEF OneTells
  <2>2. OneTell(q, s)
    BY <2>1 DEF OneTells
  <2> QED
    BY <2>1, <2>2 DEF OneTell, InForce, Current
<1>2. ASSUME NEW p \in Player, ReadGlobals(p) PROVE OneTells'
  <2>1. /\ \A q \in Player \ {p} : entry'[q] = entry[q]
        /\ \A s \in Setting : entry'[p][s] = InForce(s)
        /\ UNCHANGED <<doer, locks, disallow>>
    BY <1>2, <1>t DEF ReadGlobals, InForce, Setting
  <2>2. \A q \in Player, s \in Setting : <<q, s>> \notin muddled' =>
          \/ q = p /\ \A d \in Doer : ~ Tells(doer[d], q, s)
          \/ q # p /\ <<q, s>> \notin muddled
    BY <1>2, BeginsMeans DEF ReadGlobals
  <2>3. ASSUME NEW q \in Player, NEW s \in Setting, <<q, s>> \notin muddled' PROVE OneTell(q, s)'
    <3>1. InForce(s)' = InForce(s) /\ \A v : Current(s, v)' <=> Current(s, v)
      BY <2>1 DEF InForce, Current
    <3>2. CASE q = p /\ \A d \in Doer : ~ Tells(doer[d], q, s)
      BY <2>1, <3>1, <3>2 DEF OneTell
    <3>3. CASE q # p /\ <<q, s>> \notin muddled
      <4>1. OneTell(q, s) /\ entry'[q] = entry[q]
        BY <2>1, <3>3 DEF OneTells
      <4> QED
        BY <2>1, <3>1, <4>1 DEF OneTell
    <3> QED
      BY <2>2, <2>3, <3>2, <3>3
  <2> QED
    BY <2>3 DEF OneTells
<1>3. ASSUME NEW d \in Doer, NEW r, NEW scope \in SUBSET (Player \X Setting),
             Ordered(d), Set(d, r), Begins(scope), UNCHANGED entry,
             \A p \in Player, s \in Setting : <<p, s>> \notin scope =>
               /\ ~ Tells(r, p, s) /\ InForce(s)' = InForce(s)
               /\ \A v : Current(s, v)' <=> Current(s, v),
             \A p \in Player, s \in Setting :
               Tells(r, p, s) /\ r.at # "read" => (Current(s, doer[d].value))'
      PROVE  OneTells'
  <2>1. /\ \A p, s : ~ Tells(doer[d], p, s)
        /\ doer'[d] = r /\ \A e \in Doer \ {d} : doer'[e] = doer[e]
    BY <1>3, OrderedMeans
  <2> SUFFICES ASSUME NEW p \in Player, NEW s \in Setting, <<p, s>> \notin muddled'
               PROVE  OneTell(p, s)'
    BY DEF OneTells
  <2>2. \/ /\ <<p, s>> \in scope /\ entry[p].at # "greet"
           /\ \A e \in Doer : ~ Tells(doer[e], p, s)
        \/ <<p, s>> \notin scope \union muddled
    BY <1>3, BeginsMeans
  <2>3. CASE <<p, s>> \in scope
    <3>1. \A e \in Doer : Tells(doer'[e], p, s) => e = d
      BY <2>1, <2>2, <2>3
    <3> QED
      BY <1>3, <2>1, <2>2, <2>3, <3>1 DEF OneTell
  <2>4. CASE <<p, s>> \notin scope
    <3>1. \A e \in Doer : Tells(doer'[e], p, s) => doer'[e] = doer[e]
      BY <1>3, <2>1, <2>4
    <3>2. OneTell(p, s)
      BY <2>2, <2>4 DEF OneTells
    <3>3. InForce(s)' = InForce(s) /\ \A v : Current(s, v)' <=> Current(s, v)
      BY <1>3, <2>4
    <3>4. \A e \in Doer : Tells(doer'[e], p, s) => Tells(doer[e], p, s) /\ doer'[e] = doer[e]
      BY <3>1
    <3>5. entry' = entry
      BY <1>3
    <3>6. ASSUME NEW e \in Doer, Tells(doer'[e], p, s), doer'[e].at # "read"
          PROVE  Current(s, doer[e].value)'
      <4>1. PICK v : v = doer[e].value
        OBVIOUS
      <4>2. Current(s, v)'
        BY <3>2, <3>3, <3>4, <3>6, <4>1 DEF OneTell
      <4>3. doer'[e].value = v
        BY <3>4, <3>6, <4>1
      <4> QED
        BY <4>2, <4>3 DEF Current
    <3> QED
      BY <3>2, <3>3, <3>4, <3>5, <3>6 DEF OneTell
  <2> QED
    BY <2>3, <2>4
<1>4. ASSUME NEW d \in Doer, NEW l \in Lock, Toggle(d, l) PROVE OneTells'
  <2>1. /\ UNCHANGED disallow /\ ~ Tells([Waiting EXCEPT !.at = "read"], 0, "disallow")
        /\ \A p : ~ Tells([Waiting EXCEPT !.at = "read"], p, "disallow")
        /\ [Waiting EXCEPT !.at = "read"].at = "read"
    BY <1>4 DEF Toggle, Tells, Waiting
  <2>2. \A p \in Player, s \in Setting : <<p, s>> \notin Player \X {"locks"} => s = "disallow"
    BY DEF Setting
  <2> QED
    BY <1>3, <1>4, <2>1, <2>2 DEF Toggle, InForce, Current, Setting
<1>5. ASSUME NEW d \in Doer, NEW v \in BOOLEAN, Disallow(d, v) PROVE OneTells'
  <2> DEFINE r == [Waiting EXCEPT !.at = "configure", !.of = "disallow", !.value = {v}]
  <2>1. /\ UNCHANGED locks /\ \A p : ~ Tells(r, p, "locks")
        /\ r.value = {v} /\ disallow' = v
    BY <1>5 DEF Disallow, Tells, Waiting
  <2>2. \A p \in Player, s \in Setting : <<p, s>> \notin Player \X {"disallow"} => s = "locks"
    BY DEF Setting
  <2>3. (Current("disallow", doer[d].value))'
    <3>1. doer'[d] = r
      BY <1>5, OrderedMeans DEF Disallow
    <3> HIDE DEF r
    <3>2. doer'[d].value = {v} /\ disallow' = v
      BY <2>1, <3>1
    <3> QED
      BY <3>2, OneChoice DEF Current
  <2>4. \A p \in Player, s \in Setting : Tells(r, p, s) => s = "disallow"
    BY <2>1 DEF Setting
  <2>5. /\ Ordered(d) /\ Set(d, r) /\ Begins(Player \X {"disallow"}) /\ UNCHANGED entry
    BY <1>5 DEF Disallow
  <2>6. Player \X {"disallow"} \in SUBSET (Player \X Setting)
    BY DEF Setting
  <2> HIDE DEF r
  <2>7. \A p \in Player, s \in Setting : <<p, s>> \notin Player \X {"disallow"} =>
          /\ ~ Tells(r, p, s) /\ InForce(s)' = InForce(s)
          /\ \A u : Current(s, u)' <=> Current(s, u)
    BY <2>1, <2>2 DEF InForce, Current
  <2> QED
    BY <1>3, <2>3, <2>4, <2>5, <2>6, <2>7
<1>6. ASSUME NEW d \in Doer, NEW p \in Player, Ask(d, p) PROVE OneTells'
  <2> DEFINE r == [Waiting EXCEPT !.at = "answer", !.value = locks, !.todo = {p}]
  <2>1. /\ UNCHANGED <<locks, disallow>>
        /\ \A q, s : Tells(r, q, s) => q = p /\ s = "locks"
        /\ r.value = locks
    BY <1>6 DEF Ask, Tells, Waiting
  <2>2. /\ Ordered(d) /\ Set(d, r) /\ Begins({p} \X {"locks"}) /\ UNCHANGED entry
    BY <1>6 DEF Ask
  <2>3. {p} \X {"locks"} \in SUBSET (Player \X Setting)
    BY DEF Setting
  <2>4. doer'[d] = r
    BY <2>2, OrderedMeans
  <2> HIDE DEF r
  <2>5. \A q \in Player, s \in Setting : <<q, s>> \notin {p} \X {"locks"} =>
          /\ ~ Tells(r, q, s) /\ InForce(s)' = InForce(s)
          /\ \A u : Current(s, u)' <=> Current(s, u)
    BY <2>1 DEF InForce, Current
  <2>6. \A q \in Player, s \in Setting : Tells(r, q, s) => (Current(s, doer[d].value))'
    BY <2>1, <2>4 DEF Current
  <2> QED
    BY <1>3, <2>2, <2>3, <2>5, <2>6
<1>7. ASSUME NEW d \in Doer, ReadLocks(d) PROVE OneTells'
  <2>1. /\ doer'[d].at = "send" /\ doer'[d].of = doer[d].of /\ doer'[d].value = locks
        /\ doer[d].at = "read" /\ doer[d].of = "locks"
        /\ \A e \in Doer \ {d} : doer'[e] = doer[e]
    BY <1>7, <1>t DEF ReadLocks, Set, Doers, GlobalsWell, DoerTyped
  <2> QED
    BY <1>7, <2>1, OneTellsLess DEF ReadLocks, Tells, Current
<1>8. ASSUME NEW d \in Doer, Configure(d) PROVE OneTells'
  <2>1. /\ doer'[d].at = "send" /\ doer'[d].of = doer[d].of /\ doer'[d].value = doer[d].value
        /\ doer[d].at = "configure" /\ \A e \in Doer \ {d} : doer'[e] = doer[e]
    BY <1>8, <1>t DEF Configure, Set, Doers
  <2> QED
    BY <1>8, <2>1, OneTellsLess DEF Configure, Tells
<1>9. ASSUME NEW d \in Doer, NEW p \in Player, Tell(d, p) \/ SendAway(d, p) PROVE OneTells'
  <2>1. doer[d].at \in {"send", "away"} /\ doer' = [doer EXCEPT ![d].todo = @ \ {p}]
    BY <1>9 DEF Tell, SendAway
  <2>2. /\ doer'[d].at = doer[d].at /\ doer'[d].of = doer[d].of /\ doer'[d].value = doer[d].value
        /\ \A e \in Doer \ {d} : doer'[e] = doer[e]
    BY <2>1, <1>t DEF Doers
  <2>3. UNCHANGED <<entry, muddled, locks, disallow>>
    BY <1>9 DEF Tell, SendAway
  <2>4. \A q, s : Tells(doer'[d], q, s) => Tells(doer[d], q, s) /\ doer[d].at # "read"
    BY <2>1, <2>2 DEF Tells
  <2> QED
    BY <2>2, <2>3, <2>4, OneTellsLess
<1>10. ASSUME NEW d \in Doer, \/ Told(d) \/ Collect(d) \/ Away(d) \/ \E p \in Player : Answer(d, p)
       PROVE  OneTells'
  <2>1. PICK r \in {Waiting, [doer[d] EXCEPT !.at = "collect"],
                    [doer[d] EXCEPT !.at = "away", !.todo = entered \intersect Headless]} :
          doer' = [doer EXCEPT ![d] = r]
    BY <1>10 DEF Told, Collect, Away, Answer, At, Set
  <2>2. r.at \in {"idle", "collect", "away"}
    <3>1. doer[d] \in Doers /\ Waiting.at = "idle"
      BY <1>t, WaitingTyped
    <3>2. /\ [doer[d] EXCEPT !.at = "collect"].at = "collect"
          /\ [doer[d] EXCEPT !.at = "away", !.todo = entered \intersect Headless].at = "away"
      BY <3>1 DEF Doers
    <3> QED
      BY <3>1, <3>2
  <2>3. doer'[d] = r /\ \A e \in Doer \ {d} : doer'[e] = doer[e]
    BY <2>1, <1>t
  <2>4. \A p, s : ~ Tells(doer'[d], p, s)
    BY <2>2, <2>3 DEF Tells
  <2>5. UNCHANGED <<entry, muddled, locks, disallow>>
    BY <1>10 DEF Told, Collect, Away, Answer
  <2> QED
    BY <2>3, <2>4, <2>5, OneTellsLess
<1> QED
  BY <1>1, <1>2, <1>4, <1>5, <1>6, <1>7, <1>8, <1>9, <1>10 DEF GlobalNext


\* A step of one task that sends nothing keeps what is still to be told, if it tells the
\* same players of the same setting as before.
LEMMA TellingKept ==
  ASSUME NEW d \in Doer, NEW p \in Player, NEW s \in Setting,
         \A e \in Doer \ {d} : doer'[e] = doer[e],
         Tells(doer[d], p, s) /\ (doer[d].at = "send" => p \in doer[d].todo) =>
           Tells(doer'[d], p, s) /\ (doer'[d].at = "send" => p \in doer'[d].todo),
         \E e \in Doer : Tells(doer[e], p, s) /\ (doer[e].at = "send" => p \in doer[e].todo)
  PROVE  \E e \in Doer : Tells(doer'[e], p, s) /\ (doer'[e].at = "send" => p \in doer'[e].todo)
OBVIOUS

LEMMA ToldKept == GlobalsWell /\ OneTells /\ ToldOrTelling /\ GlobalNext => ToldOrTelling'
<1> SUFFICES ASSUME GlobalsWell, OneTells, ToldOrTelling, GlobalNext PROVE ToldOrTelling'
  OBVIOUS
<1> USE DEF Settings, Peers
<1>t. /\ doer \in [Doer -> Doers] /\ entry \in [Player -> Entrance] /\ disallow \in BOOLEAN
      /\ told \in [Player -> [locks : SUBSET Lock, disallow : BOOLEAN]] /\ alive \subseteq Player
  BY DEF GlobalsWell, GlobalsTyped
<1>1. ASSUME NEW p \in Player, Admit(p) \/ Enter(p) \/ Depart(p) \/ TakeOut(p)
      PROVE  ToldOrTelling'
  <2>1. /\ UNCHANGED <<doer, muddled, locks, disallow, told>>
        /\ \A q \in alive' : entry'[q].at = "in" => q \in alive /\ entry'[q] = entry[q]
    BY <1>1, <1>t DEF Admit, Enter, Depart, TakeOut, EntryAt, Entrance
  <2> QED
    BY <2>1 DEF ToldOrTelling, InForce
<1>2. ASSUME NEW p \in Player, ReadGlobals(p) PROVE ToldOrTelling'
  <2>1. /\ UNCHANGED <<doer, locks, disallow, told, alive>>
        /\ \A q \in alive : entry'[q].at = "in" => entry'[q] = entry[q] /\ q # p
    BY <1>2, <1>t DEF ReadGlobals
  <2>2. \A q \in Player, s \in Setting : <<q, s>> \notin muddled' /\ q # p => <<q, s>> \notin muddled
    BY <1>2, BeginsMeans DEF ReadGlobals
  <2> QED
    BY <1>t, <2>1, <2>2 DEF ToldOrTelling, InForce
<1>3. ASSUME NEW p \in Player, Greet(p) PROVE ToldOrTelling'
  <2>1. /\ UNCHANGED <<doer, muddled, locks, disallow, alive>>
        /\ \A q \in Player \ {p} : entry'[q] = entry[q] /\ told'[q] = told[q]
        /\ entry[p].at = "greet"
        /\ told'[p] = [locks |-> entry[p].locks, disallow |-> entry[p].disallow]
    BY <1>3, <1>t DEF Greet
  <2>2. ASSUME NEW s \in Setting, <<p, s>> \notin muddled PROVE told'[p][s] = InForce(s)
    <3>1. entry[p][s] = InForce(s)
      BY <2>1, <2>2 DEF OneTells, OneTell
    <3>2. told'[p][s] = entry[p][s]
      BY <2>1 DEF Setting
    <3> QED
      BY <3>1, <3>2
  <2>3. \A s : InForce(s)' = InForce(s)
    BY <2>1 DEF InForce
  <2> QED
    BY <1>t, <2>1, <2>2, <2>3 DEF ToldOrTelling
\* a command: who it is about has a message under way, the others what they had
<1>4. ASSUME NEW d \in Doer, NEW r, NEW scope \in SUBSET (Player \X Setting),
             Ordered(d), Set(d, r), Begins(scope), UNCHANGED <<entry, alive, told>>,
             \A p \in Player, s \in Setting : <<p, s>> \notin scope => InForce(s)' = InForce(s),
             \A p \in Player, s \in Setting : <<p, s>> \in scope => Tells(r, p, s),
             r.at # "send"
      PROVE  ToldOrTelling'
  <2>1. /\ \A p, s : ~ Tells(doer[d], p, s)
        /\ doer'[d] = r /\ \A e \in Doer \ {d} : doer'[e] = doer[e]
    BY <1>4, OrderedMeans
  <2> SUFFICES ASSUME NEW p \in alive, NEW s \in Setting, entry[p].at = "in", <<p, s>> \notin muddled'
               PROVE  \/ told[p][s] = InForce(s)'
                      \/ \E e \in Doer : Tells(doer'[e], p, s) /\ (doer'[e].at = "send" => p \in doer'[e].todo)
    BY <1>4 DEF ToldOrTelling
  <2>2. CASE <<p, s>> \in scope
    BY <1>4, <1>t, <2>1, <2>2
  <2>3. CASE <<p, s>> \notin scope
    <3>1. <<p, s>> \notin muddled
      BY <1>4, <1>t, <2>3, BeginsMeans
    <3>2. CASE told[p][s] = InForce(s)
      BY <1>4, <1>t, <2>3, <3>2
    <3>3. CASE \E e \in Doer : Tells(doer[e], p, s) /\ (doer[e].at = "send" => p \in doer[e].todo)
      BY <1>t, <2>1, <3>3, TellingKept
    <3> QED
      BY <3>1, <3>2, <3>3 DEF ToldOrTelling
  <2> QED
    BY <2>2, <2>3
<1>5. ASSUME NEW d \in Doer, NEW l \in Lock, Toggle(d, l) PROVE ToldOrTelling'
  <2> DEFINE r == [Waiting EXCEPT !.at = "read"]
  <2>1. /\ r.at = "read" /\ \A p : Tells(r, p, "locks")
        /\ UNCHANGED disallow
    BY <1>5 DEF Toggle, Waiting, Tells
  <2>2. /\ Ordered(d) /\ Set(d, r) /\ Begins(Player \X {"locks"}) /\ UNCHANGED <<entry, alive, told>>
    BY <1>5 DEF Toggle
  <2>3. /\ Player \X {"locks"} \in SUBSET (Player \X Setting)
        /\ \A p \in Player, s \in Setting : <<p, s>> \notin Player \X {"locks"} => s = "disallow"
        /\ \A p, s : <<p, s>> \in Player \X {"locks"} => s = "locks"
    BY DEF Setting
  <2>4. InForce("disallow")' = InForce("disallow")
    BY <2>1 DEF InForce
  <2> HIDE DEF r
  <2> QED
    BY <1>4, <2>1, <2>2, <2>3, <2>4
<1>6. ASSUME NEW d \in Doer, NEW v \in BOOLEAN, Disallow(d, v) PROVE ToldOrTelling'
  <2> DEFINE r == [Waiting EXCEPT !.at = "configure", !.of = "disallow", !.value = {v}]
  <2>1. /\ r.at = "configure" /\ \A p : Tells(r, p, "disallow")
        /\ UNCHANGED locks
    BY <1>6 DEF Disallow, Waiting, Tells
  <2>2. /\ Ordered(d) /\ Set(d, r) /\ Begins(Player \X {"disallow"}) /\ UNCHANGED <<entry, alive, told>>
    BY <1>6 DEF Disallow
  <2>3. /\ Player \X {"disallow"} \in SUBSET (Player \X Setting)
        /\ \A p \in Player, s \in Setting : <<p, s>> \notin Player \X {"disallow"} => s = "locks"
        /\ \A p, s : <<p, s>> \in Player \X {"disallow"} => s = "disallow"
    BY DEF Setting
  <2>4. InForce("locks")' = InForce("locks")
    BY <2>1 DEF InForce
  <2> HIDE DEF r
  <2> QED
    BY <1>4, <2>1, <2>2, <2>3, <2>4
<1>7. ASSUME NEW d \in Doer, NEW p \in Player, Ask(d, p) PROVE ToldOrTelling'
  <2> DEFINE r == [Waiting EXCEPT !.at = "answer", !.value = locks, !.todo = {p}]
  <2>1. /\ r.at = "answer" /\ Tells(r, p, "locks")
        /\ UNCHANGED <<locks, disallow>>
    BY <1>7 DEF Ask, Waiting, Tells
  <2>2. /\ Ordered(d) /\ Set(d, r) /\ Begins({p} \X {"locks"}) /\ UNCHANGED <<entry, alive, told>>
    BY <1>7 DEF Ask
  <2>3. /\ {p} \X {"locks"} \in SUBSET (Player \X Setting)
        /\ \A q, s : <<q, s>> \in {p} \X {"locks"} => q = p /\ s = "locks"
    BY DEF Setting
  <2>4. \A s : InForce(s)' = InForce(s)
    BY <2>1 DEF InForce
  <2> HIDE DEF r
  <2> QED
    BY <1>4, <2>1, <2>2, <2>3, <2>4
\* a step of a task that sends nothing
<1>8. ASSUME NEW d \in Doer, \A e \in Doer \ {d} : doer'[e] = doer[e],
             UNCHANGED <<entry, told, muddled, locks, disallow>>, alive' \subseteq alive,
             \A p \in Player, s \in Setting :
               Tells(doer[d], p, s) /\ (doer[d].at = "send" => p \in doer[d].todo) =>
                 Tells(doer'[d], p, s) /\ (doer'[d].at = "send" => p \in doer'[d].todo)
      PROVE  ToldOrTelling'
  <2> SUFFICES ASSUME NEW p \in alive, NEW s \in Setting, entry[p].at = "in", <<p, s>> \notin muddled
               PROVE  \/ told[p][s] = InForce(s)
                      \/ \E e \in Doer : Tells(doer'[e], p, s) /\ (doer'[e].at = "send" => p \in doer'[e].todo)
    BY <1>8 DEF ToldOrTelling, InForce
  <2>1. CASE \E e \in Doer : Tells(doer[e], p, s) /\ (doer[e].at = "send" => p \in doer[e].todo)
    BY <1>8, <1>t, <2>1, TellingKept
  <2> QED
    BY <2>1 DEF ToldOrTelling
<1>9. ASSUME NEW d \in Doer, ReadLocks(d) PROVE ToldOrTelling'
  <2>1. /\ doer'[d].at = "send" /\ doer'[d].of = doer[d].of /\ doer'[d].todo = Player
        /\ doer[d].at = "read" /\ \A e \in Doer \ {d} : doer'[e] = doer[e]
    BY <1>9, <1>t DEF ReadLocks, Set, Doers
  <2> QED
    BY <1>8, <1>9, <2>1 DEF ReadLocks, Tells
<1>10. ASSUME NEW d \in Doer, Configure(d) PROVE ToldOrTelling'
  <2>1. /\ doer'[d].at = "send" /\ doer'[d].of = doer[d].of /\ doer'[d].todo = Player
        /\ doer[d].at = "configure" /\ \A e \in Doer \ {d} : doer'[e] = doer[e]
    BY <1>10, <1>t DEF Configure, Set, Doers
  <2> QED
    BY <1>8, <1>10, <2>1 DEF Configure, Tells
<1>11. ASSUME NEW d \in Doer, Told(d) \/ Collect(d) \/ Away(d) PROVE ToldOrTelling'
  <2>1. /\ doer[d].at = "send" => doer[d].todo = {}
        /\ doer[d].at \in {"send", "collect", "away"}
        /\ UNCHANGED <<entry, told, muddled, locks, disallow, alive>>
    BY <1>11 DEF Told, Collect, Away
  <2>2. \A e \in Doer \ {d} : doer'[e] = doer[e]
    BY <1>11, <1>t DEF Told, Collect, Away, At, Set
  <2> QED
    BY <1>8, <2>1, <2>2 DEF Tells
<1>12. ASSUME NEW d \in Doer, NEW q \in Player, SendAway(d, q) PROVE ToldOrTelling'
  <2>1. doer[d].at = "away" /\ \A e \in Doer \ {d} : doer'[e] = doer[e]
    BY <1>12, <1>t DEF SendAway
  <2> QED
    BY <1>8, <1>12, <2>1 DEF SendAway, Tells

\* a message reaches q: what it says is in force, unless the setting is muddled
<1>13. ASSUME NEW d \in Doer, NEW q \in Player, NEW s \in Setting, <<q, s>> \notin muddled,
              Tells(doer[d], q, s), doer[d].at # "read",
              told'[q][s] = IF s = "locks" THEN doer[d].value ELSE TRUE \in doer[d].value
       PROVE  told'[q][s] = InForce(s)
  <2>1. Current(s, doer[d].value)
    BY <1>13 DEF OneTells, OneTell
  <2> QED
    BY <1>13, <2>1 DEF Current, InForce, Setting
<1>14. ASSUME NEW d \in Doer, NEW q \in Player, Tell(d, q) PROVE ToldOrTelling'
  <2>1. doer[d].at = "send" /\ q \in doer[d].todo /\ doer' = [doer EXCEPT ![d].todo = @ \ {q}]
    BY <1>14 DEF Tell
  <2>2. /\ doer'[d].at = "send" /\ doer'[d].of = doer[d].of /\ doer'[d].todo = doer[d].todo \ {q}
        /\ \A e \in Doer \ {d} : doer'[e] = doer[e]
    BY <2>1, <1>t DEF Doers
  <2>3. UNCHANGED <<entry, muddled, locks, disallow, alive>>
    BY <1>14 DEF Tell
  <2>4. \A p \in Player \ {q} : told'[p] = told[p]
    BY <1>14, <1>t DEF Tell
  <2>5. q \in alive /\ entry[q].at = "in" => q \in entered
    BY DEF GlobalsWell
  <2> SUFFICES ASSUME NEW p \in alive, NEW s \in Setting, entry[p].at = "in", <<p, s>> \notin muddled
               PROVE  \/ told'[p][s] = InForce(s)
                      \/ \E e \in Doer : Tells(doer'[e], p, s) /\ (doer'[e].at = "send" => p \in doer'[e].todo)
    BY <2>3 DEF ToldOrTelling, InForce
  <2>6. \/ told[p][s] = InForce(s)
        \/ \E e \in Doer : Tells(doer[e], p, s) /\ (doer[e].at = "send" => p \in doer[e].todo)
    BY DEF ToldOrTelling
  <2>7. Tells(doer'[d], p, s) <=> Tells(doer[d], p, s)
    BY <2>1, <2>2 DEF Tells
  <2>8. CASE p # q
    <3>1. CASE \E e \in Doer : Tells(doer[e], p, s) /\ (doer[e].at = "send" => p \in doer[e].todo)
      <4>1. /\ p \in Player
            /\ Tells(doer[d], p, s) /\ (doer[d].at = "send" => p \in doer[d].todo) =>
                 Tells(doer'[d], p, s) /\ (doer'[d].at = "send" => p \in doer'[d].todo)
        BY <1>t, <2>1, <2>2, <2>7, <2>8
      <4> QED
        BY <2>2, <3>1, <4>1, TellingKept
    <3> QED
      BY <1>t, <2>4, <2>6, <2>8, <3>1
  <2>9. CASE p = q /\ s = doer[d].of
    <3>1. told'[q][s] = IF s = "locks" THEN doer[d].value ELSE TRUE \in doer[d].value
      BY <1>14, <1>t, <2>5, <2>9 DEF Tell, Setting
    <3>2. Tells(doer[d], q, s)
      BY <2>1, <2>9 DEF Tells
    <3> QED
      BY <1>13, <2>1, <2>9, <3>1, <3>2
  <2>10. CASE p = q /\ s # doer[d].of
    <3>1. ~ Tells(doer[d], p, s)
      BY <2>1, <2>10 DEF Tells
    <3>2. told'[q][s] = told[q][s]
      <4>1. doer[d].of \in Setting
        BY <1>t DEF Doers
      <4> QED
        BY <1>14, <1>t, <2>10, <4>1 DEF Tell, Setting
    <3>3. CASE \E e \in Doer : Tells(doer[e], p, s) /\ (doer[e].at = "send" => p \in doer[e].todo)
      BY <1>t, <2>2, <3>1, <3>3, TellingKept
    <3> QED
      BY <2>6, <2>10, <3>2, <3>3
  <2> QED
    BY <2>8, <2>9, <2>10
<1>15. ASSUME NEW d \in Doer, NEW q \in Player, Answer(d, q) PROVE ToldOrTelling'
  <2>1. /\ doer[d].at = "answer" /\ q \in doer[d].todo
        /\ \A e \in Doer \ {d} : doer'[e] = doer[e]
        /\ UNCHANGED <<entry, muddled, locks, disallow, alive>>
    BY <1>15, <1>t DEF Answer, Set
  <2>2. \A p, s : Tells(doer[d], p, s) => p = q /\ s = "locks"
    <3>1. doer[d].todo = {q}
      BY <2>1 DEF GlobalsWell, DoerTyped
    <3> QED
      BY <2>1, <3>1 DEF Tells
  <2>3. /\ \A p \in Player \ {q} : told'[p] = told[p]
        /\ told'[q].disallow = told[q].disallow
        /\ q \in alive => told'[q].locks = doer[d].value
    BY <1>15, <1>t DEF Answer
  <2> SUFFICES ASSUME NEW p \in alive, NEW s \in Setting, entry[p].at = "in", <<p, s>> \notin muddled
               PROVE  \/ told'[p][s] = InForce(s)
                      \/ \E e \in Doer : Tells(doer'[e], p, s) /\ (doer'[e].at = "send" => p \in doer'[e].todo)
    BY <2>1 DEF ToldOrTelling, InForce
  <2>4. CASE p = q /\ s = "locks"
    <3>1. Tells(doer[d], q, s)
      BY <2>1, <2>4 DEF Tells
    <3> QED
      BY <1>13, <2>1, <2>3, <2>4, <3>1
  <2>5. CASE ~ (p = q /\ s = "locks")
    <3>1. told'[p][s] = told[p][s]
      BY <1>t, <2>3, <2>5 DEF Setting
    <3>2. CASE \E e \in Doer : Tells(doer[e], p, s) /\ (doer[e].at = "send" => p \in doer[e].todo)
      BY <1>t, <2>1, <2>2, <2>5, <3>2, TellingKept
    <3> QED
      BY <3>1, <3>2 DEF ToldOrTelling
  <2> QED
    BY <2>4, <2>5
<1> QED
  BY <1>1, <1>2, <1>3, <1>5, <1>6, <1>7, <1>9, <1>10, <1>11, <1>12, <1>14, <1>15 DEF GlobalNext


\* Only the task itself can be the one that was to send p away.
LEMMA HeadlessKept == GlobalsWell /\ HeadlessEnd /\ GlobalNext => HeadlessEnd'
<1> SUFFICES ASSUME GlobalsWell, HeadlessEnd, GlobalNext PROVE HeadlessEnd'
  OBVIOUS
<1> USE DEF Settings, Peers
<1>t. /\ doer \in [Doer -> Doers] /\ disallow \in BOOLEAN /\ alive \subseteq Player
      /\ entry \in [Player -> Entrance]
  BY DEF GlobalsWell, GlobalsTyped
<1>1. ASSUME NEW p \in Player, Admit(p) PROVE HeadlessEnd'
  <2>1. UNCHANGED <<doer, disallow, late>> /\ alive' = alive \union {p} /\ (p \in Headless => ~ disallow)
    BY <1>1 DEF Admit
  <2> QED
    BY <2>1 DEF HeadlessEnd, Sends
<1>2. ASSUME UNCHANGED <<doer, disallow, late>>, alive' \subseteq alive PROVE HeadlessEnd'
  BY <1>2 DEF HeadlessEnd, Sends
<1>3. ASSUME NEW p \in Player, Enter(p) \/ ReadGlobals(p) \/ Greet(p) \/ Depart(p) \/ TakeOut(p)
      PROVE  HeadlessEnd'
  BY <1>2, <1>3 DEF Enter, ReadGlobals, Greet, Depart, TakeOut
\* a step of a task that keeps those that it is to send away
<1>4. ASSUME NEW d \in Doer, \A e \in Doer \ {d} : doer'[e] = doer[e],
             UNCHANGED disallow, alive' \subseteq alive, late \subseteq late',
             doer[d].of = "disallow" /\ TRUE \in doer[d].value =>
               \A p \in alive' \intersect Headless :
                 doer[d].at \in {"configure", "send", "collect"} \/ (doer[d].at = "away" /\ p \in doer[d].todo)
                 => \/ p \in late'
                    \/ /\ doer'[d].of = "disallow" /\ TRUE \in doer'[d].value
                       /\ \/ doer'[d].at \in {"configure", "send", "collect"}
                          \/ doer'[d].at = "away" /\ p \in doer'[d].todo
      PROVE  HeadlessEnd'
  <2> SUFFICES ASSUME disallow, NEW p \in alive', p \in Headless, p \notin late' PROVE Sends(p)'
    BY <1>4 DEF HeadlessEnd
  <2>1. PICK e \in Doer :
          /\ doer[e].of = "disallow" /\ TRUE \in doer[e].value
          /\ doer[e].at \in {"configure", "send", "collect"} \/ (doer[e].at = "away" /\ p \in doer[e].todo)
    BY <1>4 DEF HeadlessEnd, Sends
  <2>2. CASE e = d
    BY <1>4, <2>1, <2>2 DEF Sends
  <2>3. CASE e # d
    BY <1>4, <2>1, <2>3 DEF Sends
  <2> QED
    BY <2>2, <2>3
<1>5. ASSUME NEW d \in Doer, NEW l \in Lock, Toggle(d, l) PROVE HeadlessEnd'
  <2>1. doer[d].at = "idle" /\ \A e \in Doer \ {d} : doer'[e] = doer[e]
    BY <1>5, OrderedMeans DEF Toggle
  <2> QED
    BY <1>4, <1>5, <2>1 DEF Toggle
<1>6. ASSUME NEW d \in Doer, NEW v \in BOOLEAN, Disallow(d, v) PROVE HeadlessEnd'
  <2>1. doer'[d] = [Waiting EXCEPT !.at = "configure", !.of = "disallow", !.value = {v}]
    BY <1>6, OrderedMeans DEF Disallow
  <2>2. doer'[d].at = "configure" /\ doer'[d].of = "disallow" /\ doer'[d].value = {v}
    BY <2>1 DEF Waiting
  <2>3. disallow' = v
    BY <1>6 DEF Disallow
  <2> QED
    BY <2>2, <2>3 DEF HeadlessEnd, Sends
<1>7. ASSUME NEW d \in Doer, NEW p \in Player, Ask(d, p) PROVE HeadlessEnd'
  <2>1. doer[d].at = "idle" /\ \A e \in Doer \ {d} : doer'[e] = doer[e]
    BY <1>7, OrderedMeans DEF Ask
  <2> QED
    BY <1>4, <1>7, <2>1 DEF Ask
<1>8. ASSUME NEW d \in Doer, ReadLocks(d) \/ \E p \in Player : Answer(d, p) PROVE HeadlessEnd'
  <2>1. doer[d].of = "locks" /\ \A e \in Doer \ {d} : doer'[e] = doer[e]
    BY <1>8, <1>t DEF ReadLocks, Answer, Set, GlobalsWell, DoerTyped
  <2> QED
    BY <1>4, <1>8, <2>1 DEF ReadLocks, Answer
<1>9. ASSUME NEW d \in Doer, Configure(d) PROVE HeadlessEnd'
  <2>1. /\ doer'[d].at = "send" /\ doer'[d].of = doer[d].of /\ doer'[d].value = doer[d].value
        /\ \A e \in Doer \ {d} : doer'[e] = doer[e]
    BY <1>9, <1>t DEF Configure, Set, Doers
  <2> QED
    BY <1>4, <1>9, <2>1 DEF Configure
<1>10. ASSUME NEW d \in Doer, NEW q \in Player, Tell(d, q) \/ SendAway(d, q) PROVE HeadlessEnd'
  <2>1. doer' = [doer EXCEPT ![d].todo = @ \ {q}] /\ UNCHANGED <<disallow, late>>
    BY <1>10 DEF Tell, SendAway
  <2>2. /\ doer'[d].at = doer[d].at /\ doer'[d].of = doer[d].of /\ doer'[d].value = doer[d].value
        /\ doer'[d].todo = doer[d].todo \ {q} /\ \A e \in Doer \ {d} : doer'[e] = doer[e]
    BY <2>1, <1>t DEF Doers
  <2>3. alive' \subseteq alive /\ (doer[d].at = "away" => q \notin alive')
    BY <1>10 DEF Tell, SendAway
  <2> QED
    BY <1>4, <2>1, <2>2, <2>3
<1>11. ASSUME NEW d \in Doer, Told(d) PROVE HeadlessEnd'
  <2>1. /\ \A e \in Doer \ {d} : doer'[e] = doer[e]
        /\ UNCHANGED <<disallow, alive, late>>
    BY <1>11, <1>t DEF Told, At, Set
  <2>2. doer[d].of = "disallow" /\ TRUE \in doer[d].value =>
          doer'[d].at = "collect" /\ doer'[d].of = doer[d].of /\ doer'[d].value = doer[d].value
    BY <1>11, <1>t DEF Told, At, Doers
  <2> QED
    BY <1>4, <2>1, <2>2
<1>12. ASSUME NEW d \in Doer, Collect(d) PROVE HeadlessEnd'
  <2>1. /\ doer'[d].at = "away" /\ doer'[d].of = doer[d].of /\ doer'[d].value = doer[d].value
        /\ doer'[d].todo = entered \intersect Headless
        /\ \A e \in Doer \ {d} : doer'[e] = doer[e]
        /\ UNCHANGED <<disallow, alive>> /\ late' = late \union {p \in Headless : entry[p].at = "insert"}
    BY <1>12, <1>t DEF Collect, Set, Doers
  <2>2. \A p \in alive \intersect Headless : p \in entered \/ entry[p].at = "insert"
    BY <1>t DEF GlobalsWell
  <2>3. \A p \in alive \intersect Headless : p \in late' \/ p \in doer'[d].todo
    BY <2>1, <2>2
  <2> QED
    BY <1>4, <2>1, <2>3
<1>13. ASSUME NEW d \in Doer, Away(d) PROVE HeadlessEnd'
  <2>1. /\ doer[d].at = "away" /\ doer[d].todo = {} /\ \A e \in Doer \ {d} : doer'[e] = doer[e]
    BY <1>13, <1>t DEF Away, Set
  <2> QED
    BY <1>4, <1>13, <2>1 DEF Away
<1> QED
  BY <1>1, <1>3, <1>5, <1>6, <1>7, <1>8, <1>9, <1>10, <1>11, <1>12, <1>13 DEF GlobalNext

LEMMA ConfigurationKept == GlobalsWell /\ ConfigurationFollows /\ GlobalNext => ConfigurationFollows'
<1> SUFFICES ASSUME GlobalsWell, ConfigurationFollows, GlobalNext PROVE ConfigurationFollows'
  OBVIOUS
<1> USE DEF Settings, Peers
<1>t. doer \in [Doer -> Doers] /\ disallow \in BOOLEAN
  BY DEF GlobalsWell, GlobalsTyped
<1>1. ASSUME NEW p \in Player,
             Admit(p) \/ Enter(p) \/ ReadGlobals(p) \/ Greet(p) \/ Depart(p) \/ TakeOut(p)
      PROVE  ConfigurationFollows'
  BY <1>1 DEF Admit, Enter, ReadGlobals, Greet, Depart, TakeOut, ConfigurationFollows
<1>2. ASSUME NEW d \in Doer, \A e \in Doer \ {d} : doer'[e] = doer[e],
             UNCHANGED <<disallow, configured, clashed>>,
             doer[d].at # "configure", doer'[d].at # "configure"
      PROVE  ConfigurationFollows'
  BY <1>2 DEF ConfigurationFollows
<1>3. ASSUME NEW d \in Doer, NEW l \in Lock, Toggle(d, l) PROVE ConfigurationFollows'
  <2>1. /\ doer[d].at = "idle" /\ doer'[d] = [Waiting EXCEPT !.at = "read"]
        /\ \A e \in Doer \ {d} : doer'[e] = doer[e]
    BY <1>3, OrderedMeans DEF Toggle
  <2>2. doer'[d].at = "read"
    BY <2>1 DEF Waiting
  <2> QED
    BY <1>2, <1>3, <2>1, <2>2 DEF Toggle
<1>4. ASSUME NEW d \in Doer, NEW v \in BOOLEAN, Disallow(d, v) PROVE ConfigurationFollows'
  <2>1. /\ doer'[d] = [Waiting EXCEPT !.at = "configure", !.of = "disallow", !.value = {v}]
        /\ \A e \in Doer \ {d} : doer'[e] = doer[e]
    BY <1>4, OrderedMeans DEF Disallow
  <2>2. doer'[d].at = "configure" /\ doer'[d].value = {v}
    BY <2>1 DEF Waiting
  <2>3. disallow' = v /\ (clashed' <=> \E e \in Doer : doer[e].at = "configure")
    BY <1>4 DEF Disallow
  <2>4. (TRUE \in doer'[d].value) = disallow'
    BY <2>2, <2>3, OneChoice
  <2> QED
    BY <2>1, <2>2, <2>3, <2>4 DEF ConfigurationFollows
<1>5. ASSUME NEW d \in Doer, NEW p \in Player, Ask(d, p) PROVE ConfigurationFollows'
  <2>1. /\ doer[d].at = "idle"
        /\ doer'[d] = [Waiting EXCEPT !.at = "answer", !.value = locks, !.todo = {p}]
        /\ \A e \in Doer \ {d} : doer'[e] = doer[e]
    BY <1>5, OrderedMeans DEF Ask
  <2>2. doer'[d].at = "answer"
    BY <2>1 DEF Waiting
  <2> QED
    BY <1>2, <1>5, <2>1, <2>2 DEF Ask
<1>6. ASSUME NEW d \in Doer, Configure(d) PROVE ConfigurationFollows'
  <2>1. /\ doer[d].at = "configure" /\ doer'[d].at = "send"
        /\ configured' = (TRUE \in doer[d].value)
        /\ \A e \in Doer \ {d} : doer'[e] = doer[e]
        /\ UNCHANGED <<disallow, clashed>>
    BY <1>6, <1>t DEF Configure, Set, Doers
  <2>2. CASE clashed
    BY <2>1, <2>2 DEF ConfigurationFollows
  <2>3. CASE ~ clashed
    <3>1. \A e \in Doer : doer'[e].at # "configure"
      BY <2>1, <2>3 DEF ConfigurationFollows
    <3>2. configured' = disallow'
      BY <2>1, <2>3 DEF ConfigurationFollows
    <3> QED
      BY <3>1, <3>2 DEF ConfigurationFollows
  <2> QED
    BY <2>2, <2>3
<1>7. ASSUME NEW d \in Doer, NEW q \in Player, Tell(d, q) \/ SendAway(d, q) PROVE ConfigurationFollows'
  <2>1. /\ doer' = [doer EXCEPT ![d].todo = @ \ {q}] /\ UNCHANGED <<disallow, configured, clashed>>
        /\ doer[d].at \in {"send", "away"}
    BY <1>7 DEF Tell, SendAway
  <2>2. doer'[d].at = doer[d].at /\ \A e \in Doer \ {d} : doer'[e] = doer[e]
    BY <2>1, <1>t DEF Doers
  <2> QED
    BY <1>2, <2>1, <2>2
<1>8. ASSUME NEW d \in Doer,
             \/ ReadLocks(d) \/ Told(d) \/ Collect(d) \/ Away(d) \/ \E p \in Player : Answer(d, p)
      PROVE  ConfigurationFollows'
  <2>1. /\ doer[d].at # "configure" /\ UNCHANGED <<disallow, configured, clashed>>
        /\ \A e \in Doer \ {d} : doer'[e] = doer[e]
    BY <1>8, <1>t DEF ReadLocks, Answer, Told, Collect, Away, Set, At
  <2>2. doer'[d].at # "configure"
    <3>1. CASE ReadLocks(d)
      BY <3>1, <1>t DEF ReadLocks, Set, Doers
    <3>2. CASE Away(d) \/ \E p \in Player : Answer(d, p)
      BY <3>2, <1>t, WaitingTyped DEF Answer, Away, Set
    <3>3. CASE Told(d)
      BY <3>3, <1>t, WaitingTyped DEF Told, Set, At, Doers
    <3>4. CASE Collect(d)
      BY <3>4, <1>t DEF Collect, Set, Doers
    <3> QED
      BY <1>8, <3>1, <3>2, <3>3, <3>4
  <2> QED
    BY <1>2, <2>1, <2>2
<1> QED
  BY <1>1, <1>3, <1>4, <1>5, <1>6, <1>7, <1>8 DEF GlobalNext


LEMMA GlobalInvStarts == GlobalInit => GlobalInv
<1> SUFFICES ASSUME GlobalInit PROVE GlobalInv
  OBVIOUS
<1>1. \A d \in Doer : doer[d].at = "idle" /\ DoerTyped(doer[d]) /\ doer[d] \in Doers
  BY WaitingTyped DEF GlobalInit, DoerTyped
<1>2. \A p \in Player : entry[p].at = "new" /\ entry[p] \in Entrance
  BY OutsideTyped DEF GlobalInit
<1>3. GlobalsWell
  BY <1>1, <1>2 DEF GlobalInit, GlobalsWell, GlobalsTyped, Unheard
<1>4. OneTells
  BY <1>1, <1>2 DEF OneTells, OneTell, Tells
<1>5. ToldOrTelling /\ HeadlessEnd /\ ConfigurationFollows
  BY <1>1 DEF GlobalInit, ToldOrTelling, HeadlessEnd, ConfigurationFollows
<1> QED
  BY <1>3, <1>4, <1>5 DEF GlobalInv

LEMMA GlobalInvKept == GlobalInv /\ GlobalNext => GlobalInv'
BY GlobalsWellKept, OneTellsKept, ToldKept, HeadlessKept, ConfigurationKept DEF GlobalInv

\* What the invariant is for
LEMMA GlobalInvMeans == GlobalInv => GlobalsTyped /\ SettingsInForce
<1> SUFFICES ASSUME GlobalInv PROVE GlobalsTyped /\ SettingsInForce
  OBVIOUS
<1>1. GlobalsTyped /\ alive \subseteq Player
  BY DEF GlobalInv, GlobalsWell, GlobalsTyped
<1>2. SettingsTold
  <2> SUFFICES ASSUME NEW p \in alive, entry[p].at = "in", NEW s \in Setting,
                      <<p, s>> \notin muddled, <<p, s>> \notin BeingTold
               PROVE  told[p][s] = InForce(s)
    BY DEF SettingsTold, InForce
  <2>1. \A d \in Doer : <<p, s>> \notin ToldBy(d)
    BY DEF BeingTold
  <2>2. \A d \in Doer : ~ Tells(doer[d], p, s)
    BY <1>1, <2>1, ToldByIs
  <2> QED
    BY <2>2 DEF GlobalInv, ToldOrTelling
<1>3. ConfigurationAgrees
  BY DEF GlobalInv, ConfigurationFollows, ConfigurationAgrees
<1>4. HeadlessAreGone
  BY DEF GlobalInv, HeadlessEnd, Sends, HeadlessAreGone
<1> QED
  BY <1>1, <1>2, <1>3, <1>4 DEF SettingsInForce

-----------------------------------------------------------------------------
(* Administration is any of its parts, so that its invariant is theirs. *)

LEMMA AdminStarts == Init => IInv
BY BanInvStarts, PermInvStarts, RulesInvStarts, GlobalInvStarts DEF Init, IInv

LEMMA AdminKept == IInv /\ [Next]_vars => IInv'
<1> SUFFICES ASSUME IInv, [Next]_vars PROVE IInv'
  OBVIOUS
<1>1. ASSUME UNCHANGED banVars PROVE BanInv'
  BY <1>1 DEF IInv, banVars, BanInv, BansWell, BansTyped, ConnWell, IndexesCurrent, UuidsFollow,
              BannedEnd, Ending, FileFollows, Saving, Unsaved, RollFollows
<1>2. ASSUME UNCHANGED permVars PROVE PermInv'
  <2>1. PermsWell /\ StoreFollows
    BY DEF IInv, PermInv
  <2>2. PermsWell'
    BY <1>2, <2>1 DEF permVars, PermsWell
  <2>3. StoreFollows'
    BY <1>2, <2>1 DEF permVars, StoreFollows, PermSaving, StoreUnsaved
  <2> QED
    BY <2>2, <2>3 DEF PermInv
<1>3. ASSUME UNCHANGED globalVars PROVE GlobalInv'
  <2>1. GlobalsWell /\ OneTells /\ ToldOrTelling /\ HeadlessEnd /\ ConfigurationFollows
    BY DEF IInv, GlobalInv
  <2>2. GlobalsWell'
    BY <1>3, <2>1 DEF globalVars, GlobalsWell, GlobalsTyped
  <2>3. \A s, v : InForce(s)' = InForce(s) /\ (Current(s, v)' <=> Current(s, v))
    BY <1>3 DEF globalVars, InForce, Current
  <2>4. OneTells'
    BY <1>3, <2>1, <2>3 DEF globalVars, OneTells, OneTell
  <2>5. ToldOrTelling'
    BY <1>3, <2>1, <2>3 DEF globalVars, ToldOrTelling
  <2>6. HeadlessEnd' /\ ConfigurationFollows'
    BY <1>3, <2>1 DEF globalVars, HeadlessEnd, Sends, ConfigurationFollows
  <2> QED
    BY <2>2, <2>4, <2>5, <2>6 DEF GlobalInv
<1>4. BanInv' \/ UNCHANGED banVars
  BY BanInvKept DEF Next, vars, IInv
<1>5. PermInv' \/ UNCHANGED permVars
  BY PermInvKept DEF Next, RightsNext, vars, IInv
<1>6. GlobalInv' \/ UNCHANGED globalVars
  BY GlobalInvKept DEF Next, vars, IInv
<1>7. RulesInv'
  <2>1. store \in Stores /\ RulesInv
    BY DEF IInv, PermInv, PermsWell
  <2>2. CASE UNCHANGED <<permVars, ruleVars>>
    BY <2>1, <2>2, UncheckedKept DEF permVars
  <2>3. CASE RightsNext
    BY <2>1, <2>3, RulesInvKept
  <2> QED
    BY <2>2, <2>3 DEF Next, vars
<1> QED
  BY <1>1, <1>2, <1>3, <1>4, <1>5, <1>6, <1>7 DEF IInv

(* Administration's parts keep their invariants: what a ban, a save of the
   permissions or a change of the settings has done is what its lists, files and
   players show, or what a command that is running will still do; and a check has
   decided by the entries that it has been to. *)
THEOREM AdminInvariant == Spec => []IInv
BY AdminStarts, AdminKept, PTL DEF Spec

\* Whatever admins, the console and new connections do at once, each list, index, file
\* and record keeps its type.
THEOREM AdminTyped == Spec => []AdminTypeOK
<1>1. IInv => AdminTypeOK
  BY BanInvMeans, PermInvMeans, GlobalInvMeans, RulesInvMeans DEF IInv, PermInv, PermsWell, AdminTypeOK
<1> QED
  BY <1>1, AdminInvariant, PTL

\* With any number of bans, connections and tasks: the indexes that a new connection is
\* checked against are those of the list, and a banned player has no connection once
\* its ban has run.
THEOREM BansAreInForce == Spec => []BansInForce
<1>1. IInv => BansInForce
  BY BanInvMeans DEF IInv
<1> QED
  BY <1>1, AdminInvariant, PTL

\* Once the commands that run are done, the files hold the bans, the lists and the
\* permissions, so that a restart loses none, but for saves that failed or, of bans and
\* permissions, overlapped. The file of the whitelist or blacklist is behind its list
\* only after a save of it that failed, and until the next one.
THEOREM FilesAreCurrent == Spec => []FilesCurrent
<1>1. IInv => FilesCurrent
  BY BanInvMeans, PermInvMeans DEF IInv, FilesCurrent
<1> QED
  BY <1>1, AdminInvariant, PTL

\* With any users and groups, groups that are each other's parents or their own among
\* them, and hash sets in any order: a check is decided by the most specific node that
\* any entry of the user, its groups or their parents names, and there one entry that
\* denies outweighs all that allow.
THEOREM DenialsWin == Spec => []DenyWins
<1>1. IInv => DenyWins
  BY RulesInvMeans DEF IInv, PermInv, PermsWell
<1> QED
  BY <1>1, AdminInvariant, PTL

\* Each player that has joined knows the settings in force, the configuration forbids
\* headless clients when they are forbidden, and those are gone then, but for commands
\* and joins that overlapped: whatever settings the server started with.
THEOREM SettingsAreInForce == Spec => []SettingsInForce
<1>1. IInv => SettingsInForce
  BY GlobalInvMeans DEF IInv
<1> QED
  BY <1>1, AdminInvariant, PTL
=============================================================================
