------------------------------ MODULE PeerIds ------------------------------
(****************************************************************************)
(* What basis-transport promises of its peer ids. An id stands for one      *)
(* connection at a time; when the connection is over the server core is     *)
(* told once, and only after the core has cleaned up is the id free for     *)
(* another connection. An id whose end the core is not told of is lost.     *)
(****************************************************************************)
CONSTANTS Id, Conn, None

VARIABLES phase, conn    \* of each id: the phase, and its connection if there is one

(* A Disconnect packet holds the connection to look at it, and may put it back *)
After ==
  [free     |-> {"claimed"},
   claimed  |-> {"live"},
   live     |-> {"held", "closing"},
   held     |-> {"live"},
   closing  |-> {"retired", "lost"},
   retired  |-> {"told", "lost"},
   told     |-> {"cleaning"},
   cleaning |-> {"free"},
   lost     |-> {}]

Init ==
  /\ phase = [i \in Id |-> "free"]
  /\ conn  = [i \in Id |-> None]

(* Only a claimed id gets a connection, and only closing takes it away *)
ConnAfter(i, p) ==
  IF phase[i] = "claimed" THEN Conn ELSE IF p = "closing" THEN {None} ELSE {conn[i]}

Step(i) ==
  \E p \in After[phase[i]] :
    /\ phase' = [phase EXCEPT ![i] = p]
    /\ \E c \in ConnAfter(i, p) : conn' = [conn EXCEPT ![i] = c]

Next == \E i \in Id : Step(i)

Spec == Init /\ [][Next]_<<phase, conn>>
=============================================================================
