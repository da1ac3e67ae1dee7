-------------------------------- MODULE Hlc --------------------------------
(***************************************************************************)
(* The Hybrid Logical Clock that mm-prep installs in every member database *)
(* (apply-sink/main.go): one mm_hlc_state row holding the physical part pt *)
(* and the logical counter lc, and the bigint version pt*65536+lc stamped  *)
(* on the rows.  The engines stamp alike and observe differently.          *)
(***************************************************************************)
EXTENDS Integers

CONSTANT W      \* room for lc below pt in a version: 65536 in the code

ASSUME WAssumption == W \in Nat \ {0}

Clock == [pt : Nat, lc : Nat]

\* The mm_hlc_state row of a freshly prepared database.
ZeroClock == [pt |-> 0, lc |-> 0]

\* The bigint a clock is written to a row as.
Version(h) == h.pt * W + h.lc

Greatest(a, b) == IF a >= b THEN a ELSE b

\* Mutants of Tick: the raw wall clock, as before the stamp was made monotonic,
\* and a counter that goes the wrong way.
TickWallClock(h, n) == [pt |-> n, lc |-> 0]
TickCountsDown(h, n) ==
    IF n > h.pt THEN [pt |-> n, lc |-> 0]
                ELSE [pt |-> h.pt, lc |-> h.lc - 1]

\* mm_hlc_tick: a native write, with the wall clock reading n.
Tick(h, n) ==
    IF n > h.pt THEN [pt |-> n, lc |-> 0]
                ELSE [pt |-> h.pt, lc |-> h.lc + 1]

\* Mutant of ObservePg: the remote counter is not taken over.
ObservePgPhysicalOnly(h, rv, n) == [h EXCEPT !.pt = Greatest(h.pt, rv \div W)]

\* mm_hlc_observe (Postgres): a replicated row of version rv, wall clock n.
ObservePg(h, rv, n) ==
    LET rp == rv \div W
        rl == rv % W
        np == Greatest(Greatest(h.pt, rp), n)
        nl == IF np = h.pt /\ np = rp THEN Greatest(h.lc, rl) + 1
              ELSE IF np = h.pt THEN h.lc + 1
              ELSE IF np = rp THEN rl + 1
              ELSE 0
    IN  [pt |-> np, lc |-> nl]

\* The ELSE branch of the MySQL stamping trigger: only pt follows rv.
ObserveMysql(h, rv) == [h EXCEPT !.pt = Greatest(h.pt, rv \div W)]

=============================================================================
