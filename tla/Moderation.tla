----------------------------- MODULE Moderation -----------------------------
(****************************************************************************)
(* Bans, the whitelist and the blacklist. banned_players is the list of     *)
(* bans; banned_uuids and banned_ips are indexes of it that are rebuilt     *)
(* after each change and that the handler of a new connection looks at;     *)
(* then the list is written to its file. Commands of admins and new         *)
(* connections run as tasks, so that each step below is one access to a     *)
(* lock, a file or the table of players. The process may die at any step    *)
(* and comes up again with what the files say.                              *)
(*                                                                          *)
(* A rebuild is one step: it holds the lock of banned_players from its read *)
(* to its last write, and a new connection looks at the two indexes one     *)
(* after the other. add_ip_ban has no caller and is left out. A disconnect  *)
(* leaves the player in authenticated_peers, and a player may be gone       *)
(* before it is entered: PeerSession is about both, and here a player       *)
(* leaves by itself only once it is entered.                                *)
(****************************************************************************)
EXTENDS Naturals, FiniteSets

CONSTANTS
  User,      \* player uuids
  Ip,        \* addresses
  Conn,      \* connections; each is used once between two starts
  Worker,    \* tasks that run commands
  IpOf,      \* where each user connects from
  Nothing,   \* no user, connection or address
  Torn,      \* a file that is empty, cut off or overwritten in part
  StartBans, \* the lists of bans that the file may hold at the start
  MaxJobs    \* bounds the commands; a command that finds nothing to do is not counted

VARIABLES
  bans,      \* banned_players: for a user "no", "yes" or the address banned with it
  uuids,     \* banned_uuids
  ips,       \* banned_ips
  banFile,   \* banned_players.xml
  roll,      \* whitelist, or blacklist: the code is the same
  rollFile,  \* its file
  live,      \* transport.peers
  listed,    \* authenticated_peers
  conn,      \* what each connection is at
  job,       \* what each task is at
  jobs,      \* commands begun, bounds the run
  crashes, failures,  \* what has gone wrong; each happens at most once
  unkept,    \* history: the file of the whitelist or blacklist was not written since a save failed
  crossed,   \* history: the file of bans was last written by saves that overlapped, or not at all
  undone,    \* history: an index entry was taken away though the list has it again
  excused    \* history: connections that a ban did not end, for a reason named below

banVars == <<bans, uuids, ips, banFile, roll, rollFile, live, listed, conn, job, jobs,
             crashes, failures, unkept, crossed, undone, excused>>

Ban == Ip \union {"no", "yes"}

ASSUME IpAssumption    == IpOf \in [User -> Ip] /\ {"no", "yes"} \intersect Ip = {}
ASSUME FileAssumption  == StartBans \subseteq [User -> Ban] /\ Torn \notin [User -> Ban]
ASSUME NothingAssumption == Nothing \notin User \union Ip \union Conn /\ MaxJobs \in Nat

Clear == [u \in User |-> "no"]      \* a list without bans, also what a file that does not parse is read as

\* op: the command; at: its next step; about: the user or address it names;
\* with: the address it bans, or Nothing; copy: the list it is about to write.
Job == [op : {"none", "ban", "kick", "unban", "unbanip", "roll"},
        at : {"idle", "aim", "list", "fallback", "index", "clone", "open", "write", "find", "kick",
              "rollsave", "rollwrite"},
        about : User \union Ip \union {Nothing}, with : Ip \union {Nothing},
        copy : [User -> Ban], target : Conn \union {Nothing}]
NoJob == [op |-> "none", at |-> "idle", about |-> Nothing, with |-> Nothing,
          copy |-> Clear, target |-> Nothing]
NoConn == [user |-> Nothing, at |-> "new"]

Loaded(file) == IF file = Torn THEN Clear ELSE file
Banned(list) == {u \in User : list[u] # "no"}
BannedIps(list) == {list[u] : u \in User} \intersect Ip

\* file_backed: the bans are those of the file.
BanInit ==
  /\ bans \in StartBans /\ uuids = Banned(bans) /\ ips = BannedIps(bans) /\ banFile = bans
  /\ roll = {} /\ rollFile = {}
  /\ live = {} /\ listed = {}
  /\ conn = [c \in Conn |-> NoConn]
  /\ job = [w \in Worker |-> NoJob]
  /\ jobs = 0 /\ crashes = 0 /\ failures = 0
  /\ unkept = FALSE /\ crossed = FALSE /\ undone = FALSE /\ excused = {}

Connections == <<live, listed, conn>>
Files == <<banFile, rollFile>>
Lists == <<bans, uuids, ips, roll>>
Troubles == <<crashes, failures, unkept>>

Goto(w, step) == job' = [job EXCEPT ![w].at = step]
Finish(w) == job' = [job EXCEPT ![w] = NoJob]

-----------------------------------------------------------------------------
(* handle_connection_request and finalize_accept. The restriction mode, the *)
(* version and the password only refuse, and are part of Refuse.            *)

ConnAt(c, step) == conn' = [conn EXCEPT ![c].at = step]

Request(c, u) ==
  /\ conn[c] = NoConn
  /\ conn' = [conn EXCEPT ![c] = [user |-> u, at |-> "ip"]]
  /\ UNCHANGED <<live, listed>>

CheckIp(c) ==
  /\ conn[c].at = "ip" /\ IpOf[conn[c].user] \notin ips
  /\ ConnAt(c, "uuid")
  /\ UNCHANGED <<live, listed>>

Accept(c) ==
  /\ conn[c].at = "uuid" /\ conn[c].user \notin uuids
  /\ live' = live \union {c}
  /\ ConnAt(c, "insert")
  /\ UNCHANGED listed

Refuse(c) ==
  /\ conn[c].at \in {"ip", "uuid"}
  /\ ConnAt(c, "over")
  /\ UNCHANGED <<live, listed>>

Insert(c) ==
  /\ conn[c].at = "insert"
  /\ listed' = listed \union {c}
  /\ ConnAt(c, "in")
  /\ UNCHANGED live

\* The player leaves by itself; handle_disconnect takes it out.
Leave(c) ==
  /\ conn[c].at = "in" /\ c \in live
  /\ live' = live \ {c}
  /\ ConnAt(c, "left")
  /\ UNCHANGED listed

Forget(c) ==
  /\ conn[c].at = "left"
  /\ listed' = listed \ {c}
  /\ ConnAt(c, "over")
  /\ UNCHANGED live

ConnStep ==
  /\ \E c \in Conn :
       \/ \E u \in User : Request(c, u)
       \/ CheckIp(c) \/ Accept(c) \/ Refuse(c) \/ Insert(c) \/ Leave(c) \/ Forget(c)
  /\ UNCHANGED <<Lists, Files, job, jobs, Troubles, crossed, undone, excused>>

-----------------------------------------------------------------------------
(* handle_admin_message: one command at a time in each task *)

Begin(w, op, about, step) ==
  /\ job[w] = NoJob /\ jobs < MaxJobs
  /\ job' = [job EXCEPT ![w] = [NoJob EXCEPT !.op = op, !.about = about, !.at = step]]
  /\ jobs' = jobs + 1
  /\ UNCHANGED <<Lists, Files, Connections, Troubles, crossed, undone, excused>>

Command(w) ==
  \/ \E u \in User :
       \/ Begin(w, "ban", u, "list")
       \/ Begin(w, "ban", u, "aim")                         \* IpAndBan
       \/ \E c \in listed : conn[c].user = u /\ Begin(w, "kick", u, "find")
       \/ bans[u] # "no" /\ Begin(w, "unban", u, "list")
       \/ Begin(w, "roll", u, "list")
  \/ \E ip \in Ip : Begin(w, "unbanip", ip, "list")

\* peer_by_uuid: the players entered under the uuid, of which it finds any one.
Of(u) == {c \in listed : conn[c].user = u}

\* IpAndBan looks for the address of the player, which only a live connection has.
Aim(w) ==
  /\ job[w].at = "aim"
  /\ \E c \in Of(job[w].about) \union {Nothing} :
       /\ c = Nothing <=> Of(job[w].about) = {}
       /\ job' = [job EXCEPT ![w].at = "list",
            ![w].with = IF c \in live THEN IpOf[job[w].about] ELSE Nothing]
  /\ UNCHANGED <<Lists, Files, Connections, jobs, Troubles, crossed, undone, excused>>

\* add_ban_with_details: a second ban of a player replaces the first, address and all.
AddBan(w) ==
  /\ job[w].op = "ban" /\ job[w].at = "list"
  /\ bans' = [bans EXCEPT ![job[w].about] = IF job[w].with = Nothing THEN "yes" ELSE job[w].with]
  /\ Goto(w, "index")
  /\ UNCHANGED <<uuids, ips, roll, Files, Connections, jobs, Troubles, crossed, undone, excused>>

\* remove_ban
RemoveBan(w) ==
  /\ job[w].op = "unban" /\ job[w].at = "list"
  /\ bans' = [bans EXCEPT ![job[w].about] = "no"]
  /\ IF bans' = bans THEN Finish(w) ELSE Goto(w, "index")
  /\ UNCHANGED <<uuids, ips, roll, Files, Connections, jobs, Troubles, crossed, undone, excused>>

\* remove_ip_ban takes out the whole ban of whoever was banned with the address.
\* Mutant: the indexes are left as they are.
RemoveIpBanOnly(w) ==
  /\ job[w].op = "unbanip" /\ job[w].at = "list"
  /\ bans' = [u \in User |-> IF bans[u] = job[w].about THEN "no" ELSE bans[u]]
  /\ Goto(w, IF bans' = bans THEN "fallback" ELSE "clone")
  /\ UNCHANGED <<uuids, ips, roll, Files, Connections, jobs, Troubles, crossed, undone, excused>>

RemoveIpBan(w) ==
  /\ job[w].op = "unbanip" /\ job[w].at = "list"
  /\ bans' = [u \in User |-> IF bans[u] = job[w].about THEN "no" ELSE bans[u]]
  /\ Goto(w, IF bans' = bans THEN "fallback" ELSE "index")
  /\ UNCHANGED <<uuids, ips, roll, Files, Connections, jobs, Troubles, crossed, undone, excused>>

\* No ban has the address: it is taken out of the index itself, where a ban made
\* since then may just have entered it.
Fallback(w) ==
  /\ job[w].at = "fallback"
  /\ ips' = ips \ {job[w].about}
  /\ undone' = (undone \/ job[w].about \in ips \intersect BannedIps(bans))
  /\ IF ips' = ips THEN Finish(w) ELSE Goto(w, "clone")
  /\ UNCHANGED <<bans, uuids, roll, Files, Connections, jobs, Troubles, crossed, excused>>

\* rebuild_ban_indexes. Mutant: only a ban is saved.
IndexUnsaved(w) ==
  /\ job[w].at = "index"
  /\ uuids' = Banned(bans) /\ ips' = BannedIps(bans)
  /\ undone' = FALSE
  /\ IF job[w].op = "ban" THEN Goto(w, "clone") ELSE Finish(w)
  /\ UNCHANGED <<bans, roll, Files, Connections, jobs, Troubles, crossed, excused>>

Index(w) ==
  /\ job[w].at = "index"
  /\ uuids' = Banned(bans) /\ ips' = BannedIps(bans)
  /\ undone' = FALSE
  /\ Goto(w, "clone")
  /\ UNCHANGED <<bans, roll, Files, Connections, jobs, Troubles, crossed, excused>>

-----------------------------------------------------------------------------
(* save_banned_players: the list is copied under its lock, the file is      *)
(* emptied and written without it.                                          *)

Saving(w) == job[w].at \in {"open", "write"}

Clone(w) ==
  /\ job[w].at = "clone"
  /\ job' = [job EXCEPT ![w].at = "open", ![w].copy = bans]
  /\ crossed' = \E v \in Worker : Saving(v)
  /\ UNCHANGED <<Lists, Files, Connections, jobs, Troubles, undone, excused>>

Open(w) ==
  /\ job[w].at = "open"
  /\ banFile' = Torn
  /\ Goto(w, "write")
  /\ UNCHANGED <<Lists, rollFile, Connections, jobs, Troubles, crossed, undone, excused>>

\* Only a ban goes on from here, to the player it is about. What another task
\* wrote since Open, if it is longer, shows behind the end of this copy.
Write(w) ==
  /\ job[w].at = "write"
  /\ banFile' \in {job[w].copy} \union (IF banFile = Torn THEN {} ELSE {Torn})
  /\ IF job[w].op = "ban" THEN Goto(w, "find") ELSE Finish(w)
  /\ UNCHANGED <<Lists, rollFile, Connections, jobs, Troubles, crossed, undone, excused>>

\* The disk refuses, before or after the file was emptied: the error ends the
\* command, and a ban never comes to its player.
FailSave(w) ==
  /\ Saving(w) /\ failures = 0 /\ failures' = 1
  /\ crossed' = TRUE
  /\ excused' = IF job[w].op = "ban" THEN excused \union {c \in live : conn[c].user = job[w].about}
                                     ELSE excused
  /\ Finish(w)
  /\ UNCHANGED <<Lists, Files, Connections, jobs, crashes, unkept, undone>>

\* peer_by_uuid and disconnect. A connection that is accepted but not yet entered
\* is not seen, and of two under one uuid only one is.
Find(w) ==
  /\ job[w].at = "find"
  /\ LET found == Of(job[w].about)
         late  == {c \in Conn : conn[c].user = job[w].about /\ conn[c].at = "insert"}
     IN IF found = {}
          THEN Finish(w) /\ excused' = IF job[w].op = "ban" THEN excused \union late ELSE excused
          ELSE \E c \in found :
                 /\ job' = [job EXCEPT ![w].at = "kick", ![w].target = c]
                 /\ excused' = IF job[w].op = "ban" THEN excused \union late \union (found \ {c})
                                                    ELSE excused
  /\ UNCHANGED <<Lists, Files, Connections, jobs, Troubles, crossed, undone>>

Kick(w) ==
  /\ job[w].at = "kick"
  /\ live' = live \ {job[w].target}
  /\ Finish(w)
  /\ UNCHANGED <<Lists, Files, listed, conn, jobs, Troubles, crossed, undone, excused>>

-----------------------------------------------------------------------------
(* The whitelist or blacklist: push_unique or remove_value, then            *)
(* write_line_list empties and writes the file while the list is locked     *)
(* against changes. The list has its change whether or not that succeeds.   *)

RollLocked == \E v \in Worker : job[v].at = "rollwrite"

ChangeRoll(w) ==
  /\ job[w].op = "roll" /\ job[w].at = "list" /\ ~ RollLocked
  /\ roll' \in {roll \union {job[w].about}, roll \ {job[w].about}}
  /\ IF roll' = roll /\ job[w].about \notin roll THEN Finish(w) ELSE Goto(w, "rollsave")
  /\ UNCHANGED <<bans, uuids, ips, Files, Connections, jobs, Troubles, crossed, undone, excused>>

OpenRoll(w) ==
  /\ job[w].at = "rollsave"
  /\ rollFile' = {}
  /\ Goto(w, "rollwrite")
  /\ UNCHANGED <<Lists, banFile, Connections, jobs, Troubles, crossed, undone, excused>>

WriteRoll(w) ==
  /\ job[w].at = "rollwrite"
  /\ rollFile' = roll
  /\ unkept' = FALSE
  /\ Finish(w)
  /\ UNCHANGED <<Lists, banFile, Connections, jobs, crashes, failures, crossed, undone, excused>>

\* The disk refuses to open the file, or to take more than a part of what is written: the
\* error ends the command.
FailRoll(w) ==
  /\ job[w].at \in {"rollsave", "rollwrite"} /\ failures = 0 /\ failures' = 1
  /\ IF job[w].at = "rollwrite" THEN rollFile' \in SUBSET roll ELSE UNCHANGED rollFile
  /\ unkept' = TRUE
  /\ Finish(w)
  /\ UNCHANGED <<Lists, banFile, Connections, jobs, crashes, crossed, undone, excused>>

JobStep(w) ==
  \/ Command(w) \/ Aim(w) \/ AddBan(w) \/ RemoveBan(w) \/ RemoveIpBan(w) \/ Fallback(w) \/ Index(w)
  \/ Clone(w) \/ Open(w) \/ Write(w) \/ FailSave(w) \/ Find(w) \/ Kick(w)
  \/ ChangeRoll(w) \/ OpenRoll(w) \/ WriteRoll(w) \/ FailRoll(w)

\* The process dies and is started again: reload reads the files, of which one
\* that does not parse counts as empty and is left as it is.
Restart ==
  /\ crashes = 0 /\ crashes' = 1
  /\ bans' = Loaded(banFile) /\ uuids' = Banned(bans') /\ ips' = BannedIps(bans')
  /\ roll' = rollFile
  /\ live' = {} /\ listed' = {} /\ conn' = [c \in Conn |-> NoConn]
  /\ job' = [w \in Worker |-> NoJob]
  /\ unkept' = FALSE /\ crossed' = FALSE /\ undone' = FALSE /\ excused' = {}
  /\ UNCHANGED <<Files, jobs, failures>>

BanNext == ConnStep \/ Restart \/ \E w \in Worker : JobStep(w)

-----------------------------------------------------------------------------
BansTyped ==
  /\ bans \in [User -> Ban] /\ uuids \subseteq User /\ ips \subseteq Ip
  /\ banFile \in [User -> Ban] \union {Torn}
  /\ roll \subseteq User /\ rollFile \subseteq User
  /\ live \subseteq Conn /\ listed \subseteq Conn
  /\ conn \in [Conn -> [user : User \union {Nothing},
                        at : {"new", "ip", "uuid", "insert", "in", "left", "over"}]]
  /\ job \in [Worker -> Job] /\ jobs \in 0..MaxJobs
  /\ unkept \in BOOLEAN /\ crossed \in BOOLEAN /\ undone \in BOOLEAN /\ excused \subseteq Conn

\* What a new connection is checked against is the list of bans, whichever
\* commands ran at once, but for the removal of an address that overtook a ban.
IndexesCurrent ==
  \/ undone
  \/ \E w \in Worker : job[w].at = "index"
  \/ uuids = Banned(bans) /\ ips = BannedIps(bans)

\* Once a ban has run, its player has no connection, but for one that was being
\* entered while the ban looked, one that shares its uuid with the one the ban
\* found, and those of a ban that could not be saved.
BannedAreGone ==
  \A c \in live \ excused :
    bans[conn[c].user] = "no" \/ \E w \in Worker : job[w].op = "ban" /\ job[w].about = conn[c].user

\* While no command is between its change and the end of its save, each file says
\* what the list says: a restart loses none. For bans that holds unless two saves
\* overlapped or one failed. The whitelist and blacklist are locked while written, so
\* that only a save that failed leaves their file behind, and only until the next one.
ListsKept ==
  /\ \/ crossed
     \/ \E w \in Worker : job[w].at \in {"index", "clone", "open", "write"}
     \/ Loaded(banFile) = bans
  /\ \/ unkept
     \/ \E w \in Worker : job[w].at \in {"rollsave", "rollwrite"}
     \/ rollFile = roll
=============================================================================
