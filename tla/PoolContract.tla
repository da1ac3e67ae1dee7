---------------------------- MODULE PoolContract ----------------------------
(***************************************************************************)
(* What the backend pool of tds-proxy promises, whichever mode uses it: a  *)
(* fixed number of slots, each free, reserved by a session that is opening *)
(* a backend, lent to a session with its backend, or kept with a backend   *)
(* on the shelf; and a backend that changes hands only over the shelf.     *)
(***************************************************************************)
EXTENDS Integers

CONSTANTS Session, Conn, PoolMax

VARIABLES
    free,       \* free slots
    shelf,      \* backends for the next session
    reserved,   \* sessions that have a slot and no backend yet
    lent        \* pairs of a session and the backend it has

vars == <<free, shelf, reserved, lent>>

Init == free = PoolMax /\ shelf = {} /\ reserved = {} /\ lent = {}

Busy(s) == s \in reserved \/ \E c \in Conn : <<s, c>> \in lent
Out(c) == c \in shelf \/ \E s \in Session : <<s, c>> \in lent

Reserve(s) ==
    /\ free > 0 /\ ~ Busy(s)
    /\ free' = free - 1
    /\ reserved' = reserved \union {s}
    /\ UNCHANGED <<shelf, lent>>

GiveUp(s) ==
    /\ s \in reserved
    /\ free' = free + 1
    /\ reserved' = reserved \ {s}
    /\ UNCHANGED <<shelf, lent>>

Open(s, c) ==
    /\ s \in reserved /\ ~ Out(c)
    /\ reserved' = reserved \ {s}
    /\ lent' = lent \union {<<s, c>>}
    /\ UNCHANGED <<free, shelf>>

Lend(s, c) ==
    /\ c \in shelf /\ ~ Busy(s)
    /\ shelf' = shelf \ {c}
    /\ lent' = lent \union {<<s, c>>}
    /\ UNCHANGED <<free, reserved>>

TakeBack(s, c) ==
    /\ <<s, c>> \in lent
    /\ lent' = lent \ {<<s, c>>}
    /\ shelf' = shelf \union {c}
    /\ UNCHANGED <<free, reserved>>

Drop(s, c) ==
    /\ <<s, c>> \in lent
    /\ lent' = lent \ {<<s, c>>}
    /\ free' = free + 1
    /\ UNCHANGED <<shelf, reserved>>

Next ==
    \E s \in Session :
        \/ Reserve(s) \/ GiveUp(s)
        \/ \E c \in Conn : Open(s, c) \/ Lend(s, c) \/ TakeBack(s, c) \/ Drop(s, c)

Spec == Init /\ [][Next]_vars
=============================================================================
