---------------------------- MODULE MCServerMemory ----------------------------
(* A ping and two updates of one runtime: the second update can be asked   *)
(* for while the daemon still works on the first, once that has timed out. *)
(* A user with a connection in each of two workspaces; an event of every   *)
(* kind.                                                                   *)
EXTENDS ServerMemory
CONSTANTS r1, p1, up1, up2, c1, c2, u1, w1, w2

MCRuntimeOf == [q \in Request |-> r1]

MCUserOf == [c \in Client |-> u1]
MCHomeOf == [c \in Client |-> IF c = c2 THEN w2 ELSE w1]
MCEvent == {[id |-> 1, kind |-> "added", user |-> u1, room |-> w1],
            [id |-> 2, kind |-> "workspace", user |-> None, room |-> w1],
            [id |-> 3, kind |-> "daemon", user |-> None, room |-> None]}
=============================================================================
