------------------------- MODULE StateMachineProofs -------------------------
(***************************************************************************)
(* The statemachine controller, for a workflow of any length, any number   *)
(* of restarts, failures and lists that outlive what they show:            *)
(* checkpoints are true, a success is complete, a state is repeated only   *)
(* for a cause, a terminal phase is replaced only from such a list and     *)
(* Aborted never, and a shutdown is not recorded as a failure.             *)
(***************************************************************************)
EXTENDS StateMachine, TLAPS

\* A status that says Running names a state, and all before it were worked
\* through and left their results; a new one names none.
Sound(p, c, d) ==
    /\ p = "" => c = 0
    /\ p = "Running" => c \in Step /\ d = 1 .. c - 1 /\ \A k \in d : ran[k] > 0

\* The object: its types, its checkpoint, and what Succeeded means.
ObjectInv ==
    /\ phase \in Phase /\ cur \in 0 .. Steps /\ data \in SUBSET Step
    /\ output \in SUBSET Step
    /\ Sound(phase, cur, data)
    /\ SuccessIsComplete

\* What reconcile listed was a true status when it was listed.
ListInv ==
    /\ proc \in {"up", "stopping", "down"}
    /\ snap \in Status \union {NoSnap}
    /\ snap # NoSnap => Sound(snap.phase, snap.cur, snap.data)

\* So was what the goroutine was started with; what it carries follows from
\* where it is.
DriverInv ==
    /\ go \in {"none", "born", "load", "claim", "enter", "work", "end", "final"}
    /\ e \in Status /\ at \in 0 .. Steps /\ acc \in SUBSET Step
    /\ res \in Terminal \union {"none"}
    /\ Sound(e.phase, e.cur, e.data)
    /\ go \in {"born", "load", "claim"} => e.phase \in {"", "Running"}
    /\ go = "claim" => e.phase = ""
    /\ go \in {"enter", "work"} =>
          at \in Step /\ acc = 1 .. at - 1 /\ \A k \in acc : ran[k] > 0
    /\ IF go \in {"end", "final"} THEN res \in Terminal ELSE res = "none"
    /\ res = "Succeeded" => acc = Step /\ \A k \in Step : ran[k] > 0

FlagInv ==
    /\ stop \in BOOLEAN /\ creds \in BOOLEAN /\ old \in BOOLEAN /\ canc \in BOOLEAN
    /\ canc => go # "none"

CountInv ==
    /\ ran \in [Step -> Nat]
    /\ restarts \in 0 .. MaxRestarts /\ faults \in 0 .. MaxFaults
    /\ late \in 0 .. MaxLate

Inv == ObjectInv /\ ListInv /\ DriverInv /\ FlagInv /\ CountInv

-----------------------------------------------------------------------------
(***************************************************************************)
(* What a step that leaves a part alone, or resets it, does to it.         *)
(***************************************************************************)

\* Work done stays done.
Grows == \A k \in Step : ran'[k] >= ran[k]

\* The constants as the provers use them.
LEMMA Bounds ==
    /\ Steps \in Nat /\ 1 <= Steps
    /\ MaxRestarts \in Nat /\ MaxFaults \in Nat /\ MaxLate \in Nat
BY StateMachineAssumption

\* Work that is not touched has not shrunk.
LEMMA StillGrows == ASSUME CountInv, ran' = ran PROVE Grows
BY DEF CountInv, Grows

\* Work done on a state of the workflow only adds to it.
LEMMA WorkedGrows ==
    ASSUME CountInv, at \in Step, Worked
    PROVE  Grows /\ ran' \in [Step -> Nat] /\ ran'[at] = ran[at] + 1
           /\ \A k \in Step \ {at} : ran'[k] = ran[k]
BY DEF CountInv, Grows, Worked

\* A true checkpoint stays true as work is added.
LEMMA SoundStays ==
    ASSUME CountInv, CountInv', Grows, NEW p, NEW c, NEW d, d \in SUBSET Step,
           Sound(p, c, d)
    PROVE  /\ p = "" => c = 0
           /\ p = "Running" => c \in Step /\ d = 1 .. c - 1 /\ \A k \in d : ran'[k] > 0
<1>1. \A k \in Step : ran[k] \in Nat /\ ran'[k] \in Nat /\ ran'[k] >= ran[k]
  BY DEF CountInv, Grows
<1>2. p = "" => c = 0 BY DEF Sound
<1>3. p = "Running" => c \in Step /\ d = 1 .. c - 1 /\ \A k \in d : ran[k] > 0
  BY DEF Sound
<1>4. p = "Running" => \A k \in d : ran'[k] > 0 BY <1>1, <1>3
<1> QED BY <1>2, <1>3, <1>4

\* The object is left alone while work is added.
LEMMA ObjectStays ==
    ASSUME ObjectInv, CountInv, CountInv', Grows, UNCHANGED <<phase, cur, data, output>>
    PROVE  ObjectInv'
<1>1. \A k \in Step : ran[k] \in Nat /\ ran'[k] \in Nat /\ ran'[k] >= ran[k]
  BY DEF CountInv, Grows
<1>2. Sound(phase, cur, data)' BY SoundStays DEF ObjectInv, Sound
<1>3. SuccessIsComplete' BY <1>1 DEF ObjectInv, SuccessIsComplete
<1> QED BY <1>2, <1>3 DEF ObjectInv

\* So is the list.
LEMMA ListStays ==
    ASSUME ListInv, CountInv, CountInv', Grows, UNCHANGED snap,
           proc' \in {"up", "stopping", "down"}
    PROVE  ListInv'
<1>1. CASE snap = NoSnap BY <1>1 DEF ListInv
<1>2. CASE snap # NoSnap
  <2>1. snap \in Status BY <1>2 DEF ListInv
  <2>2. snap.data \in SUBSET Step BY <2>1 DEF Status
  <2>a. Sound(snap.phase, snap.cur, snap.data) BY <1>2 DEF ListInv
  <2>3. Sound(snap.phase, snap.cur, snap.data)' BY <2>2, <2>a, SoundStays DEF Sound
  <2> QED BY <2>3 DEF ListInv
<1> QED BY <1>1, <1>2

\* So is the goroutine.
LEMMA DriverStays ==
    ASSUME DriverInv, CountInv, CountInv', Grows, UNCHANGED <<go, e, at, acc, res>>
    PROVE  DriverInv'
<1>1. \A k \in Step : ran[k] \in Nat /\ ran'[k] \in Nat /\ ran'[k] >= ran[k]
  BY DEF CountInv, Grows
<1>2. e \in Status BY DEF DriverInv
<1>3. e.data \in SUBSET Step BY <1>2 DEF Status
<1>4. Sound(e.phase, e.cur, e.data)' BY <1>3, SoundStays DEF DriverInv, Sound
<1>a. go \in {"enter", "work"} => acc \in SUBSET Step /\ \A k \in acc : ran[k] > 0
  BY Zenon DEF DriverInv
<1>b. res = "Succeeded" => \A k \in Step : ran[k] > 0 BY Zenon DEF DriverInv
<1>5. go \in {"enter", "work"} => \A k \in acc : ran'[k] > 0 BY <1>1, <1>a
<1>6. res = "Succeeded" => \A k \in Step : ran'[k] > 0 BY <1>1, <1>b
<1> QED BY <1>4, <1>5, <1>6 DEF DriverInv

\* The goroutine is gone.
Gone == go' = "none" /\ e' = Fresh /\ at' = 0 /\ acc' = {} /\ res' = "none" /\ canc' = FALSE

\* A goroutine that is not there carries the status of a new execution.
LEMMA FreshStatus == Fresh \in Status /\ Fresh.phase = "" /\ Fresh.cur = 0
BY Bounds DEF Fresh, Status, Phase

\* A goroutine that is gone carries nothing that could be untrue.
LEMMA DriverGone == ASSUME Gone PROVE DriverInv'
<1>1. Sound(e.phase, e.cur, e.data)' BY FreshStatus DEF Gone, Sound
<1>2. 0 \in 0 .. Steps BY Bounds
<1> QED BY <1>1, <1>2, FreshStatus DEF Gone, DriverInv

\* Its registered cancel function goes with it.
LEMMA FlagsGone ==
    ASSUME FlagInv, Gone, UNCHANGED <<stop, creds, old>> PROVE FlagInv'
BY DEF Gone, FlagInv

\* One more fault, or none, within its bound.
LEMMA FaultCount ==
    ASSUME CountInv, faults' = faults \/ Fault, UNCHANGED restarts,
           ran' \in [Step -> Nat], late' \in 0 .. MaxLate
    PROVE  CountInv'
BY Bounds DEF CountInv, Fault

\* A goroutine that leaves is counted when its execution is listed, within the
\* bound.
LEMMA DepartCount ==
    ASSUME CountInv, Depart
    PROVE  /\ late' \in 0 .. MaxLate /\ late \in Nat
           /\ IF snap = NoSnap THEN late' = late ELSE late' = late + 1
BY Bounds DEF CountInv, Depart

-----------------------------------------------------------------------------
(***************************************************************************)
(* The steps.                                                              *)
(***************************************************************************)

\* Steps that touch neither a status nor a goroutine nor the work done.
LEMMA QuietKeeps ==
    ASSUME Inv, UNCHANGED <<phase, cur, data, output, snap, go, e, at, acc, res, late, ran>>,
           proc' \in {"up", "stopping", "down"}, FlagInv',
           restarts' \in 0 .. MaxRestarts, faults' = faults
    PROVE  Inv'
<1>1. CountInv' BY DEF Inv, CountInv
<1>2. Grows BY StillGrows DEF Inv
<1> QED BY <1>1, <1>2, ObjectStays, ListStays, DriverStays DEF Inv

\* The front door stores credentials and asks for a stop; time passes.
LEMMA OutsideKeeps ==
    ASSUME Inv, StoreCreds \/ GraceEnds \/ StopExecution PROVE Inv'
<1>1. UNCHANGED <<phase, cur, data, output, proc, snap, go, e, at, acc, res, canc,
                  late, ran, restarts, faults>>
  BY DEF StoreCreds, GraceEnds, StopExecution, driver
<1>2. stop' \in BOOLEAN /\ creds' \in BOOLEAN /\ old' \in BOOLEAN
  BY DEF StoreCreds, GraceEnds, StopExecution, Inv, FlagInv
<1>3. FlagInv' BY <1>1, <1>2 DEF Inv, FlagInv
<1> QED BY <1>1, <1>3, QuietKeeps DEF Inv, ListInv, CountInv

\* The process is told to stop, exits and starts again.
LEMMA ProcessKeeps ==
    ASSUME Inv, Shutdown \/ Exit \/ Boot PROVE Inv'
<1>1. /\ UNCHANGED <<object, snap, driver, ran, faults>>
      /\ proc' \in {"up", "stopping", "down"}
      /\ restarts' = restarts \/ (restarts < MaxRestarts /\ restarts' = restarts + 1)
  BY DEF Shutdown, Exit, Boot
<1>2. FlagInv' BY <1>1 DEF Inv, FlagInv, object, driver
<1>3. restarts' \in 0 .. MaxRestarts BY <1>1, Bounds DEF Inv, CountInv
<1> QED BY <1>1, <1>2, <1>3, QuietKeeps DEF object, driver

\* A crash takes the list and the goroutine, never the object.
LEMMA CrashKeeps == ASSUME Inv, Crash PROVE Inv'
<1>1. /\ UNCHANGED <<object, late, ran, faults>> /\ Gone /\ snap' = NoSnap /\ proc' = "down"
      /\ restarts < MaxRestarts /\ restarts' = restarts + 1
  BY DEF Crash, Gone
<1>2. CountInv' BY <1>1, Bounds DEF Inv, CountInv
<1>3. Grows BY <1>1, StillGrows DEF Inv
<1>4. ObjectInv' BY <1>1, <1>2, <1>3, ObjectStays DEF Inv, object
<1>5. ListInv' BY <1>1 DEF ListInv
<1>6. FlagInv' BY <1>1, FlagsGone DEF Inv, object
<1> QED BY <1>1, <1>2, <1>4, <1>5, <1>6, DriverGone DEF Inv

\* What is listed is the status as it is, hence true.
LEMMA ListKeeps == ASSUME Inv, List PROVE Inv'
<1>1. /\ UNCHANGED <<object, proc, driver, ran, restarts, faults>>
      /\ snap' = [phase |-> phase, cur |-> cur, data |-> data, stop |-> stop]
  BY DEF List
<1>2. CountInv' BY <1>1 DEF Inv, CountInv, driver
<1>3. Grows BY <1>1, StillGrows DEF Inv
<1>4. ObjectInv' BY <1>1, <1>2, <1>3, ObjectStays DEF Inv, object
<1>5. DriverInv' BY <1>1, <1>2, <1>3, DriverStays DEF Inv, driver
<1>6. FlagInv' BY <1>1 DEF Inv, FlagInv, object, driver
<1>7. ListInv'
  <2>1. snap' \in Status BY <1>1 DEF Status, Inv, ObjectInv, FlagInv
  <2>2. Sound(snap.phase, snap.cur, snap.data)' BY <1>1 DEF Inv, ObjectInv, Sound, object
  <2> QED BY <1>1, <2>1, <2>2 DEF Inv, ListInv
<1> QED BY <1>2, <1>4, <1>5, <1>6, <1>7 DEF Inv

\* reconcile has dealt with what it listed and left the rest alone.
LEMMA DealtWith ==
    ASSUME Inv, snap' = NoSnap,
           UNCHANGED <<object, proc, go, e, at, acc, res, late, ran, restarts, faults>>,
           canc' = canc \/ (canc' = TRUE /\ go # "none")
    PROVE  Inv'
<1>1. CountInv' BY DEF Inv, CountInv
<1>2. Grows BY StillGrows DEF Inv
<1>3. ObjectInv' BY <1>1, <1>2, ObjectStays DEF Inv, object
<1>4. DriverInv' BY <1>1, <1>2, DriverStays DEF Inv
<1>5. FlagInv'
  <2>1. CASE canc' = canc BY <2>1 DEF Inv, FlagInv, object
  <2>2. CASE canc' = TRUE /\ go # "none" BY <2>2 DEF Inv, FlagInv, object
  <2> QED BY <2>1, <2>2
<1>6. ListInv' BY DEF Inv, ListInv
<1> QED BY <1>1, <1>3, <1>4, <1>5, <1>6 DEF Inv

\* reconcile passes the execution over.
LEMMA DispatchSkipsKeeps == ASSUME Inv, DispatchSkips PROVE Inv'
BY DealtWith DEF DispatchSkips, driver

\* reconcile cancels the goroutine of a stopped execution.
LEMMA DispatchCancelsKeeps == ASSUME Inv, DispatchCancels PROVE Inv'
BY DealtWith DEF DispatchCancels

\* reconcile writes Aborted itself; that is never a success.
LEMMA DispatchAbortsKeeps == ASSUME Inv, DispatchAborts PROVE Inv'
<1>1. /\ UNCHANGED <<data, stop, output, creds, old, proc, driver, ran, restarts>>
      /\ snap' = NoSnap /\ (faults' = faults \/ Fault)
      /\ (phase' = "Aborted" /\ cur' = 0) \/ UNCHANGED <<phase, cur>>
  BY DEF DispatchAborts, Fault
<1>2. CountInv' BY <1>1, FaultCount DEF Inv, CountInv, driver
<1>3. Grows BY <1>1, StillGrows DEF Inv
<1>4. ObjectInv'
  <2>1. CASE UNCHANGED <<phase, cur>>
    BY <1>1, <1>2, <1>3, <2>1, ObjectStays DEF Inv
  <2>2. CASE phase' = "Aborted" /\ cur' = 0
    <3>1. phase' \in Phase /\ cur' \in 0 .. Steps BY <2>2, Bounds DEF Phase, Terminal
    <3>2. Sound(phase, cur, data)' /\ SuccessIsComplete'
      BY <2>2 DEF Sound, SuccessIsComplete
    <3> QED BY <1>1, <2>2, <3>1, <3>2 DEF Inv, ObjectInv
  <2> QED BY <1>1, <2>1, <2>2
<1>5. DriverInv' BY <1>1, <1>2, <1>3, DriverStays DEF Inv, driver
<1>6. FlagInv' BY <1>1 DEF Inv, FlagInv, driver
<1>7. ListInv' BY <1>1 DEF Inv, ListInv
<1> QED BY <1>2, <1>4, <1>5, <1>6, <1>7 DEF Inv

\* The goroutine starts with a status that was true when listed, and still is.
LEMMA DispatchStartsKeeps == ASSUME Inv, DispatchStarts PROVE Inv'
<1>1. /\ UNCHANGED <<object, proc, at, acc, res, canc, late, ran, restarts, faults>>
      /\ snap' = NoSnap /\ go' = "born" /\ e' = snap
      /\ snap # NoSnap /\ snap.phase \notin Terminal /\ go = "none"
  BY DEF DispatchStarts, Ended, Busy
<1>2. CountInv' BY <1>1 DEF Inv, CountInv
<1>3. Grows BY <1>1, StillGrows DEF Inv
<1>4. ObjectInv' BY <1>1, <1>2, <1>3, ObjectStays DEF Inv, object
<1>5. DriverInv'
  <2>1. snap \in Status /\ Sound(snap.phase, snap.cur, snap.data)
    BY <1>1 DEF Inv, ListInv
  <2>2. snap.phase \in {"", "Running"} BY <1>1, <2>1 DEF Status, Phase
  <2>3. Sound(e.phase, e.cur, e.data)' BY <1>1, <2>1 DEF Sound
  <2>4. res = "none" BY <1>1 DEF Inv, DriverInv
  <2> QED BY <1>1, <2>1, <2>2, <2>3, <2>4 DEF Inv, DriverInv
<1>6. FlagInv' BY <1>1 DEF Inv, FlagInv, object
<1>7. ListInv' BY <1>1 DEF Inv, ListInv
<1> QED BY <1>2, <1>4, <1>5, <1>6, <1>7 DEF Inv

\* The goroutine moves on and leaves the object and the list alone.
LEMMA Moves ==
    ASSUME Inv, UNCHANGED <<object, proc, snap, canc, late, restarts>>,
           faults' = faults \/ Fault, ran' \in [Step -> Nat], Grows,
           go' # "none", DriverInv'
    PROVE  Inv'
<1>1. CountInv' BY FaultCount DEF Inv, CountInv
<1>2. ObjectInv' BY <1>1, ObjectStays DEF Inv, object
<1>3. ListInv' BY <1>1, ListStays DEF Inv, ListInv
<1>4. FlagInv' BY DEF Inv, FlagInv, object
<1> QED BY <1>1, <1>2, <1>3, <1>4 DEF Inv

\* The goroutine ends with no trace in the object.
LEMMA Ends ==
    ASSUME Inv, UNCHANGED <<object, proc, snap, ran, restarts, faults>>, Depart
    PROVE  Inv'
<1>1. CountInv' BY DepartCount DEF Inv, CountInv
<1>2. Grows BY StillGrows DEF Inv
<1>3. Gone BY DEF Depart, Gone
<1>4. ObjectInv' BY <1>1, <1>2, ObjectStays DEF Inv, object
<1>5. ListInv' BY <1>1, <1>2, ListStays DEF Inv, ListInv
<1>6. FlagInv' BY <1>3, FlagsGone DEF Inv, object
<1> QED BY <1>1, <1>3, <1>4, <1>5, <1>6, DriverGone DEF Inv

\* What the goroutine was started with stays as true as it was.
LEMMA StartStays ==
    ASSUME Inv, Grows, CountInv', e' = e
    PROVE  e' \in Status /\ Sound(e.phase, e.cur, e.data)'
<1>1. e \in Status /\ Sound(e.phase, e.cur, e.data) BY DEF Inv, DriverInv
<1>2. e.data \in SUBSET Step BY <1>1 DEF Status
<1> QED BY <1>1, <1>2, SoundStays DEF Inv, Sound

\* A goroutine that goes to its end with result r.
LEMMA Closes ==
    ASSUME Inv, NEW r \in Terminal, go' \in {"end", "final"}, res' = r,
           r = "Succeeded" => res = "Succeeded",
           UNCHANGED <<object, proc, snap, e, at, acc, canc, late, restarts>>,
           faults' = faults \/ Fault, ran' \in [Step -> Nat], Grows
    PROVE  Inv'
<1>1. CountInv' BY FaultCount DEF Inv, CountInv
<1>2. e' \in Status /\ Sound(e.phase, e.cur, e.data)' BY <1>1, StartStays
<1>3. \A k \in Step : ran[k] \in Nat /\ ran'[k] \in Nat /\ ran'[k] >= ran[k]
  BY <1>1 DEF Inv, CountInv, Grows
<1>4. res = "Succeeded" => acc = Step /\ \A k \in Step : ran[k] > 0
  BY Zenon DEF Inv, DriverInv
<1>5. res' = "Succeeded" => acc' = Step /\ \A k \in Step : ran'[k] > 0
  BY <1>3, <1>4
<1>6. DriverInv' BY <1>2, <1>5 DEF Inv, DriverInv
<1> QED BY <1>6, Moves

\* A goroutine on its way to the engine.
LEMMA Prepares ==
    ASSUME Inv, go \in {"born", "load"}, go' = "load" \/ (go' = "claim" /\ e.phase # "Running"),
           UNCHANGED <<object, proc, snap, e, at, acc, res, canc, late, ran, restarts, faults>>
    PROVE  Inv'
<1>1. CountInv' /\ ran' \in [Step -> Nat] BY DEF Inv, CountInv
<1>2. Grows BY StillGrows DEF Inv
<1>3. e' \in Status /\ Sound(e.phase, e.cur, e.data)' BY <1>1, <1>2, StartStays
<1>4. res' = "none" BY DEF Inv, DriverInv
<1>5. DriverInv' BY <1>3, <1>4 DEF Inv, DriverInv
<1> QED BY <1>1, <1>2, <1>5, Moves

\* The goroutine registers its cancel function.
LEMMA RegisterKeeps == ASSUME Inv, Register PROVE Inv'
BY Prepares DEF Register

\* A new execution goes on to its claim.
LEMMA LoadClaimsKeeps == ASSUME Inv, LoadClaims PROVE Inv'
BY Prepares DEF LoadClaims

\* The phases a failure and a stop end in are terminal.
LEMMA TerminalNames == "Failed" \in Terminal /\ "Aborted" \in Terminal
BY DEF Terminal

\* A load that fails ends the execution as Failed.
LEMMA LoadFailsKeeps == ASSUME Inv, LoadFails PROVE Inv'
<1>1. Grows BY StillGrows DEF LoadFails, Inv
<1> QED BY <1>1, Closes, TerminalNames DEF LoadFails, Concludes, Inv, CountInv

\* An execution without credentials is left to the next poll.
LEMMA CredsPendingKeeps == ASSUME Inv, CredsPending PROVE Inv'
<1>1. Grows BY StillGrows DEF CredsPending, Inv
<1>2. CASE Depart BY <1>2, Ends DEF CredsPending
<1>3. CASE Concludes("Failed")
  BY <1>1, <1>3, Closes, TerminalNames DEF CredsPending, Concludes, Inv, CountInv
<1> QED BY <1>2, <1>3 DEF CredsPending

\* A resume takes its place and its results from the checkpoint it loaded.
LEMMA LoadResumesKeeps == ASSUME Inv, LoadResumes PROVE Inv'
<1>1. /\ UNCHANGED <<object, proc, snap, e, res, canc, late, ran, restarts, faults>>
      /\ e.phase = "Running" /\ go' = "enter" /\ at' = e.cur /\ acc' = e.data
  BY DEF LoadResumes, Resumed
<1>2. CountInv' /\ ran' \in [Step -> Nat] BY <1>1 DEF Inv, CountInv
<1>3. Grows BY <1>1, StillGrows DEF Inv
<1>4. e' \in Status /\ Sound(e.phase, e.cur, e.data)' BY <1>1, <1>2, <1>3, StartStays
<1>5. e.cur \in 0 .. Steps /\ e.data \in SUBSET Step BY <1>4, <1>1 DEF Status
<1>6. at' \in Step /\ acc' = 1 .. at' - 1 /\ \A k \in acc' : ran'[k] > 0
  BY <1>1, <1>4 DEF Sound
<1>7. res' = "none" BY <1>1 DEF LoadResumes, Inv, DriverInv
<1>8. DriverInv' BY <1>1, <1>4, <1>5, <1>6, <1>7 DEF Inv, DriverInv
<1> QED BY <1>1, <1>2, <1>3, <1>8, Moves

\* Running at state 1, with nothing done, is a true status.
LEMMA Claimed ==
    ASSUME Inv, CountInv', phase' = "Running", cur' = 1, data' = {}, output' = output
    PROVE  ObjectInv'
<1>1. 1 \in Step /\ 1 .. 1 - 1 = {} BY Bounds DEF Step
<1>2. Sound(phase, cur, data)' BY <1>1 DEF Sound
<1>3. SuccessIsComplete' BY DEF SuccessIsComplete
<1>4. phase' \in Phase /\ cur' \in 0 .. Steps BY Bounds DEF Phase
<1> QED BY <1>2, <1>3, <1>4 DEF Inv, ObjectInv

\* The claim writes Running at the first state, before which nothing has to be
\* done.
LEMMA ClaimKeeps == ASSUME Inv, Claim PROVE Inv'
<1>1. /\ UNCHANGED <<stop, output, creds, old, proc, snap, e, res, canc, late, ran, restarts, faults>>
      /\ phase' = "Running" /\ cur' = 1 /\ data' = {}
      /\ go = "claim" /\ go' = "enter" /\ at' = 1 /\ acc' = {}
  BY DEF Claim
<1>2. CountInv' BY <1>1 DEF Inv, CountInv
<1>3. Grows BY <1>1, StillGrows DEF Inv
<1>4. ObjectInv' BY <1>1, <1>2, Claimed
<1>5. ListInv' BY <1>1, <1>2, <1>3, ListStays DEF Inv, ListInv
<1>6. DriverInv'
  <2>1. e' \in Status /\ Sound(e.phase, e.cur, e.data)' BY <1>1, <1>2, <1>3, StartStays
  <2>2. 1 \in Step /\ 1 .. 1 - 1 = {} /\ 1 \in 0 .. Steps BY Bounds DEF Step
  <2>3. res' = "none" BY <1>1 DEF Inv, DriverInv
  <2> QED BY <1>1, <2>1, <2>2, <2>3 DEF DriverInv
<1>7. FlagInv' BY <1>1 DEF Inv, FlagInv
<1> QED BY <1>2, <1>4, <1>5, <1>6, <1>7 DEF Inv

\* A claim that is not confirmed wrote that status or nothing.
LEMMA ClaimFailsKeeps == ASSUME Inv, ClaimFails PROVE Inv'
<1>1. /\ UNCHANGED <<stop, output, creds, old, proc, snap, ran, restarts>>
      /\ UNCHANGED <<phase, cur, data>> \/ (phase' = "Running" /\ cur' = 1 /\ data' = {})
      /\ faults' = faults \/ Fault
  BY DEF ClaimFails
<1>2. Gone /\ Depart BY DEF ClaimFails, Depart, Gone
<1>3. CountInv' BY <1>1, <1>2, FaultCount, DepartCount DEF Inv, CountInv
<1>4. Grows BY <1>1, StillGrows DEF Inv
<1>5. ObjectInv' BY <1>1, <1>3, <1>4, Claimed, ObjectStays DEF Inv
<1>6. ListInv' BY <1>1, <1>3, <1>4, ListStays DEF Inv, ListInv
<1>7. FlagInv' BY <1>1, <1>2, FlagsGone DEF Inv
<1> QED BY <1>2, <1>3, <1>5, <1>6, <1>7, DriverGone DEF Inv

\* A cancel noticed between two states ends the execution as Aborted.
LEMMA EnterCancelledKeeps == ASSUME Inv, EnterCancelled PROVE Inv'
<1>1. Grows BY StillGrows DEF EnterCancelled, Inv
<1> QED BY <1>1, Closes, TerminalNames DEF EnterCancelled, Returns, Inv, CountInv

\* The checkpoint written names a state whose predecessors are done and saved.
LEMMA Checkpointed ==
    ASSUME Inv, CountInv', go = "enter", UNCHANGED <<output, ran>>,
           phase' = "Running", cur' = Saved(at), data' = acc
    PROVE  ObjectInv'
<1>1. /\ at \in Step /\ acc = 1 .. at - 1 /\ \A k \in acc : ran[k] > 0
      /\ at \in 0 .. Steps /\ acc \in SUBSET Step
  BY DEF Inv, DriverInv
<1>2. Sound(phase, cur, data)' BY <1>1 DEF Sound, Saved
<1>3. SuccessIsComplete' BY DEF SuccessIsComplete
<1>4. phase' \in Phase BY DEF Phase
<1> QED BY <1>1, <1>2, <1>3, <1>4 DEF Inv, ObjectInv, Saved

\* A checkpoint that is not confirmed wrote that status or nothing, and ends the
\* execution as Failed.
LEMMA EnterFailsKeeps == ASSUME Inv, EnterFails PROVE Inv'
<1>1. /\ UNCHANGED <<stop, output, creds, old, proc, snap, e, at, acc, canc, late, ran, restarts>>
      /\ UNCHANGED <<phase, cur, data>>
           \/ (phase' = "Running" /\ cur' = Saved(at) /\ data' = acc)
      /\ faults' = faults \/ Fault
      /\ go = "enter" /\ go' = "end" /\ res' = "Failed"
  BY DEF EnterFails, Returns
<1>2. CountInv' BY <1>1, FaultCount DEF Inv, CountInv
<1>3. Grows BY <1>1, StillGrows DEF Inv
<1>4. ObjectInv' BY <1>1, <1>2, <1>3, Checkpointed, ObjectStays DEF Inv
<1>5. ListInv' BY <1>1, <1>2, <1>3, ListStays DEF Inv, ListInv
<1>6. DriverInv'
  <2>1. e' \in Status /\ Sound(e.phase, e.cur, e.data)' BY <1>1, <1>2, <1>3, StartStays
  <2> QED BY <1>1, <2>1, TerminalNames DEF Inv, DriverInv
<1>7. FlagInv' BY <1>1 DEF Inv, FlagInv
<1> QED BY <1>2, <1>4, <1>5, <1>6, <1>7 DEF Inv

\* The checkpoint is written and the state entered.
LEMMA EnterKeeps == ASSUME Inv, Enter PROVE Inv'
<1>1. /\ UNCHANGED <<stop, output, creds, old, proc, snap, e, at, acc, res, canc, late, ran,
                     restarts, faults>>
      /\ phase' = "Running" /\ cur' = Saved(at) /\ data' = acc
      /\ go = "enter" /\ go' = "work"
  BY DEF Enter
<1>2. CountInv' BY <1>1 DEF Inv, CountInv
<1>3. Grows BY <1>1, StillGrows DEF Inv
<1>4. ObjectInv' BY <1>1, <1>2, Checkpointed
<1>5. ListInv' BY <1>1, <1>2, <1>3, ListStays DEF Inv, ListInv
<1>6. DriverInv'
  <2>1. e' \in Status /\ Sound(e.phase, e.cur, e.data)' BY <1>1, <1>2, <1>3, StartStays
  <2> QED BY <1>1, <2>1 DEF Inv, DriverInv
<1>7. FlagInv' BY <1>1 DEF Inv, FlagInv
<1> QED BY <1>2, <1>4, <1>5, <1>6, <1>7 DEF Inv

\* A goroutine at work is in a state of the workflow, with the results of those
\* before it.
LEMMA AtWork ==
    ASSUME Inv, go = "work"
    PROVE  /\ at \in Step /\ acc = 1 .. at - 1 /\ res = "none"
           /\ \A k \in Step : ran[k] \in Nat /\ (k < at => ran[k] > 0)
<1>1. at \in Step /\ acc = 1 .. at - 1 /\ (\A k \in acc : ran[k] > 0) /\ res = "none"
  BY DEF Inv, DriverInv
<1>2. \A k \in Step : ran[k] \in Nat BY DEF Inv, CountInv
<1> QED BY <1>1, <1>2, Bounds DEF Step

\* The state is done, and its result joins the data.
LEMMA WorkDone ==
    ASSUME Inv, go = "work", Worked
    PROVE  /\ Grows /\ ran' \in [Step -> Nat]
           /\ \A k \in 1 .. at : ran'[k] > 0
           /\ acc \union {at} = 1 .. at
<1>1. at \in Step /\ acc = 1 .. at - 1 BY AtWork
<1>2. Grows /\ ran' \in [Step -> Nat] /\ ran'[at] = ran[at] + 1
  BY <1>1, WorkedGrows DEF Inv
<1>3. \A k \in 1 .. at : ran'[k] > 0
  <2> SUFFICES ASSUME NEW k \in 1 .. at PROVE ran'[k] > 0 OBVIOUS
  <2>1. k \in Step /\ ran[k] \in Nat /\ ran'[k] \in Nat /\ ran'[k] >= ran[k]
    BY <1>1, <1>2, AtWork, Bounds DEF Grows, Step
  <2>2. CASE k = at BY <1>2, <2>1, <2>2
  <2>3. CASE k < at BY <2>1, <2>3, AtWork
  <2> QED BY <1>1, <2>2, <2>3, Bounds DEF Step
<1>4. acc \union {at} = 1 .. at BY <1>1, Bounds DEF Step
<1> QED BY <1>2, <1>3, <1>4

\* The state worked joins the results carried to the next.
LEMMA WorkAdvancesKeeps == ASSUME Inv, WorkAdvances PROVE Inv'
<1>1. /\ go = "work" /\ at < Steps /\ Worked
      /\ go' = "enter" /\ at' = at + 1 /\ acc' = acc \union {at}
      /\ UNCHANGED <<object, proc, snap, e, res, canc, late, restarts, faults>>
  BY DEF WorkAdvances
<1>2. /\ Grows /\ ran' \in [Step -> Nat] /\ \A k \in 1 .. at : ran'[k] > 0
      /\ acc' = 1 .. at
  BY <1>1, WorkDone
<1>3. CountInv' BY <1>1, <1>2, FaultCount DEF Inv, CountInv
<1>4. e' \in Status /\ Sound(e.phase, e.cur, e.data)' BY <1>1, <1>2, <1>3, StartStays
<1>5. at \in Step /\ res = "none" BY <1>1, AtWork
<1>6. at' \in Step /\ at' \in 0 .. Steps /\ at' - 1 = at /\ 1 .. at \in SUBSET Step
  BY <1>1, <1>5, Bounds DEF Step
<1>7. DriverInv' BY <1>1, <1>2, <1>4, <1>5, <1>6 DEF DriverInv
<1> QED BY <1>1, <1>2, <1>7, Moves

\* After the last state the results carried are those of all.
LEMMA WorkSucceedsKeeps == ASSUME Inv, WorkSucceeds PROVE Inv'
<1>1. /\ go = "work" /\ at = Steps /\ Worked
      /\ go' = "end" /\ res' = "Succeeded" /\ acc' = acc \union {at}
      /\ UNCHANGED <<object, proc, snap, e, at, canc, late, restarts, faults>>
  BY DEF WorkSucceeds
<1>2. /\ Grows /\ ran' \in [Step -> Nat] /\ \A k \in Step : ran'[k] > 0
      /\ acc' = Step
  BY <1>1, WorkDone DEF Step
<1>3. CountInv' BY <1>1, <1>2, FaultCount DEF Inv, CountInv
<1>4. e' \in Status /\ Sound(e.phase, e.cur, e.data)' BY <1>1, <1>2, <1>3, StartStays
<1>5. "Succeeded" \in Terminal BY DEF Terminal
<1>6. DriverInv' BY <1>1, <1>2, <1>4, <1>5 DEF Inv, DriverInv
<1> QED BY <1>1, <1>2, <1>6, Moves

\* Work that fails is done again or ends the execution as Failed.
LEMMA WorkFailsKeeps == ASSUME Inv, WorkFails PROVE Inv'
<1>1. /\ go = "work" /\ Fault /\ Worked /\ UNCHANGED <<object, proc, snap, restarts>>
  BY DEF WorkFails
<1>2. Grows /\ ran' \in [Step -> Nat] BY <1>1, WorkDone
<1>3. CASE UNCHANGED driver
  <2>1. CountInv' BY <1>1, <1>2, <1>3, FaultCount DEF Inv, CountInv, driver
  <2>2. DriverInv' BY <1>2, <1>3, <2>1, DriverStays DEF Inv, driver
  <2> QED BY <1>1, <1>2, <1>3, <2>2, Moves DEF driver
<1>4. CASE Returns("Failed") BY <1>1, <1>2, <1>4, Closes, TerminalNames DEF Returns
<1> QED BY <1>3, <1>4 DEF WorkFails

\* Work broken off by a cancel ends the execution as Aborted.
LEMMA WorkCancelledKeeps == ASSUME Inv, WorkCancelled PROVE Inv'
<1>1. Grows /\ ran' \in [Step -> Nat]
  BY WorkDone, StillGrows DEF WorkCancelled, Inv, CountInv
<1> QED BY <1>1, Closes, TerminalNames DEF WorkCancelled, Returns

\* A shutdown leaves the execution to the next process; anything else is
\* finalized.
LEMMA EndKeeps == ASSUME Inv, End PROVE Inv'
<1>1. go = "end" /\ UNCHANGED <<object, proc, snap, ran, restarts, faults>> BY DEF End
<1>2. CASE Depart BY <1>1, <1>2, Ends
<1>3. CASE Concludes(IF canc THEN "Aborted" ELSE res)
  <2>1. Grows /\ ran' \in [Step -> Nat] BY <1>1, StillGrows DEF Inv, CountInv
  <2>2. res \in Terminal BY <1>1 DEF Inv, DriverInv
  <2>3. res' \in {"Aborted", res} BY <1>3 DEF Concludes
  <2> QED BY <1>1, <1>3, <2>1, <2>2, <2>3, Closes, TerminalNames DEF Concludes
<1> QED BY <1>2, <1>3 DEF End

\* A success is written with every result; a patch that fails writes nothing.
LEMMA FinalizeKeeps == ASSUME Inv, Finalize PROVE Inv'
<1>1. /\ UNCHANGED <<data, stop, creds, old, proc, snap, ran, restarts>>
      /\ faults' = faults \/ Fault
  BY DEF Finalize
<1>2. Gone /\ Depart BY DEF Finalize, Depart, Gone
<1>3. CountInv' BY <1>1, <1>2, FaultCount, DepartCount DEF Inv, CountInv
<1>4. Grows BY <1>1, StillGrows DEF Inv
<1>5. ObjectInv'
  <2>1. CASE UNCHANGED <<phase, cur, output>>
    BY <1>1, <1>3, <1>4, <2>1, ObjectStays DEF Inv
  <2>2. CASE /\ phase' = res /\ cur' = IF at = 0 THEN cur ELSE 0
             /\ output' = IF res = "Succeeded" THEN acc ELSE output
    <3>1. res \in Terminal BY DEF Finalize, Inv, DriverInv
    <3>2. phase' \in Phase /\ phase' \notin {"", "Running"}
      BY <2>2, <3>1 DEF Phase, Terminal
    <3>a. cur' \in {cur, 0} BY <2>2
    <3>b. cur \in 0 .. Steps BY DEF Inv, ObjectInv
    <3>3. cur' \in 0 .. Steps BY <3>a, <3>b, Bounds
    <3>4. output' \in SUBSET Step BY <2>2 DEF Inv, ObjectInv, DriverInv
    <3>5. SuccessIsComplete'
      <4>1. res = "Succeeded" => acc = Step /\ \A k \in Step : ran[k] > 0
        BY Zenon DEF Inv, DriverInv
      <4> QED BY <1>1, <2>2, <4>1 DEF SuccessIsComplete
    <3>6. Sound(phase, cur, data)' BY <3>2 DEF Sound
    <3> QED BY <1>1, <3>2, <3>3, <3>4, <3>5, <3>6 DEF Inv, ObjectInv
  <2> QED BY <2>1, <2>2 DEF Finalize
<1>6. ListInv' BY <1>1, <1>3, <1>4, ListStays DEF Inv, ListInv
<1>7. FlagInv' BY <1>1, <1>2, FlagsGone DEF Inv
<1> QED BY <1>2, <1>3, <1>5, <1>6, <1>7, DriverGone DEF Inv

-----------------------------------------------------------------------------
(***************************************************************************)
(* Checkpoints and successes, whatever the lists.                          *)
(***************************************************************************)

\* The inductive invariant holds initially.
LEMMA InvStarts == ASSUME Init PROVE Inv
<1>1. ObjectInv
  <2>1. Sound(phase, cur, data) /\ SuccessIsComplete /\ phase \in Phase
    BY DEF Init, Sound, SuccessIsComplete, Phase
  <2>2. 0 \in 0 .. Steps BY Bounds
  <2> QED BY <2>1, <2>2 DEF Init, ObjectInv
<1>2. ListInv BY DEF Init, ListInv
<1>3. DriverInv
  <2>1. Sound(e.phase, e.cur, e.data) BY FreshStatus DEF Init, Sound
  <2>2. 0 \in 0 .. Steps BY Bounds
  <2> QED BY <2>1, <2>2, FreshStatus DEF Init, DriverInv
<1>4. FlagInv BY DEF Init, FlagInv
<1>5. CountInv
  <2>1. 0 \in 0 .. MaxRestarts /\ 0 \in 0 .. MaxFaults /\ 0 \in 0 .. MaxLate BY Bounds
  <2> QED BY <2>1 DEF Init, CountInv
<1> QED BY <1>1, <1>2, <1>3, <1>4, <1>5 DEF Inv

\* Every step keeps the inductive invariant.
LEMMA InvHolds == ASSUME Inv, [Next]_vars PROVE Inv'
<1>1. CASE UNCHANGED vars
  <2>1. Grows BY <1>1, StillGrows DEF Inv, vars
  <2>2. CountInv' BY <1>1 DEF Inv, CountInv, vars, driver
  <2>3. FlagInv' BY <1>1 DEF Inv, FlagInv, vars, object, driver
  <2> QED BY <1>1, <2>1, <2>2, <2>3, ObjectStays, ListStays, DriverStays
       DEF Inv, ListInv, vars, object, driver
<1>2. CASE Dispatch
  BY <1>2, DispatchSkipsKeeps, DispatchCancelsKeeps, DispatchAbortsKeeps,
     DispatchStartsKeeps DEF Dispatch
<1>3. CASE Goroutine
  BY <1>3, RegisterKeeps, LoadFailsKeeps, CredsPendingKeeps, LoadResumesKeeps,
     LoadClaimsKeeps, ClaimKeeps, ClaimFailsKeeps, EnterCancelledKeeps, EnterKeeps,
     EnterFailsKeeps, WorkCancelledKeeps, EndKeeps, FinalizeKeeps DEF Goroutine
<1> QED
  BY <1>1, <1>2, <1>3, OutsideKeeps, ListKeeps, WorkAdvancesKeeps, WorkSucceedsKeeps,
     WorkFailsKeeps, ProcessKeeps, CrashKeeps DEF Next

\* The inductive invariant is an invariant of the specification.
LEMMA InvAlways == Spec => []Inv
BY InvStarts, InvHolds, PTL DEF Spec

\* The status, the listed copy, the goroutine and the counters keep their types,
\* and a cancelled context has a goroutine.
THEOREM TypeCorrect == Spec => []TypeOK
<1>1. Inv => TypeOK
  BY Zenon DEF Inv, ObjectInv, ListInv, DriverInv, FlagInv, CountInv, TypeOK
<1> QED BY <1>1, InvAlways, PTL

\* However often an execution is resumed, claimed again or driven from a stale
\* list, the state its checkpoint names has all its predecessors worked through
\* and their results saved: a resume (run, setCheckpoint) loses no work.
THEOREM CheckpointsAreTrue == Spec => []CheckpointIsTrue
<1>1. Inv => CheckpointIsTrue BY DEF Inv, ObjectInv, Sound, CheckpointIsTrue
<1> QED BY <1>1, InvAlways, PTL

\* finalize writes Succeeded only over an output that carries the result of every
\* state, each of them worked through.
THEOREM SuccessesAreComplete == Spec => []SuccessIsComplete
<1>1. Inv => SuccessIsComplete BY DEF Inv, ObjectInv
<1> QED BY <1>1, InvAlways, PTL

-----------------------------------------------------------------------------
(***************************************************************************)
(* What is listed and the phase the execution ended in.                    *)
(***************************************************************************)

\* Status x is that of the object.
UpToDate(x) == x.phase = phase /\ x.cur = cur

Starting == {"born", "load", "claim"}

\* What is listed or loaded is what the object says, and an execution that is
\* driven has not ended.
Current ==
    /\ go = "none" /\ snap # NoSnap => UpToDate(snap)
    /\ go \in Starting => UpToDate(e)
    /\ go # "none" => phase \notin Terminal

\* That is so until a goroutine ends between a list and its dispatch.
CurrentInv == late = 0 => Current

\* A stop that was listed was requested, and one that was requested is in every
\* list from then on; only a stop aborts, and nothing drives what it aborted.
StopInv ==
    /\ canc => stop /\ (snap # NoSnap => snap.stop)
    /\ res = "Aborted" => canc
    /\ snap # NoSnap /\ snap.stop => stop
    /\ phase = "Aborted" => go = "none" /\ stop /\ (snap # NoSnap => snap.stop)

\* A goroutine that leaves uncounted does so after the list is dealt with.
LEMMA DepartsDealt == ASSUME CountInv, Depart, late' = 0 PROVE snap = NoSnap /\ Gone
<1>1. Gone BY DEF Depart, Gone
<1> QED BY <1>1, DepartCount

\* The count of late ends never falls.
LEMMA LateGrows == ASSUME CountInv, [Next]_vars PROVE late' = late \/ late' = late + 1
<1>1. ASSUME Depart PROVE late' = late \/ late' = late + 1 BY <1>1, DepartCount
<1> QED
  BY <1>1
  DEF Next, Dispatch, Goroutine, vars, object, driver, StoreCreds, GraceEnds,
      StopExecution, List, DispatchSkips, DispatchCancels, DispatchAborts, DispatchStarts,
      Register, LoadFails, CredsPending, LoadResumes, LoadClaims, Claim, ClaimFails,
      EnterCancelled, Enter, EnterFails, WorkCancelled, End, Finalize, WorkAdvances,
      WorkSucceeds, WorkFails, Shutdown, Exit, Crash, Boot, Concludes, Returns

\* What is listed or loaded stays what the object says.
LEMMA CurrentHolds ==
    ASSUME Inv, Current, [Next]_vars, late' = 0
    PROVE  Current'
<1> USE DEF Current, UpToDate, Starting
<1>0. CountInv /\ late' = 0 BY DEF Inv
<1>1. ASSUME UNCHANGED <<phase, cur, go, e>>, snap' = snap \/ snap' = NoSnap
      PROVE  Current'
  BY <1>1
<1>2. ASSUME go # "none", go' \in {"enter", "work", "end", "final"},
             phase' = phase \/ phase' = "Running"
      PROVE  Current'
  BY <1>2 DEF Terminal
<1>3. ASSUME go' = "none", snap' = NoSnap PROVE Current'
  BY <1>3
<1>4. ASSUME UNCHANGED <<phase, cur, e>>, go \in Starting, go' \in Starting
      PROVE  Current'
  BY <1>4
<1>5. CASE StoreCreds \/ GraceEnds \/ StopExecution
  BY <1>1, <1>5 DEF StoreCreds, GraceEnds, StopExecution, driver
<1>6. CASE List
  BY <1>6 DEF List, object, driver
<1>7. CASE Dispatch
  <2>1. CASE DispatchSkips BY <1>1, <2>1 DEF DispatchSkips, object, driver
  <2>2. CASE DispatchCancels BY <1>1, <2>2 DEF DispatchCancels, object
  <2>3. CASE DispatchAborts BY <1>3, <2>3 DEF DispatchAborts, driver
  <2>4. CASE DispatchStarts BY <2>4 DEF DispatchStarts, Ended, Busy, object
  <2> QED BY <1>7, <2>1, <2>2, <2>3, <2>4 DEF Dispatch
<1>8. CASE Goroutine
  <2>1. CASE Register BY <1>4, <2>1 DEF Register, object
  <2>2. CASE LoadFails BY <1>2, <2>2 DEF LoadFails, Concludes, object
  <2>3. CASE CredsPending
    <3>1. CASE Depart BY <1>3, <2>3, <3>1, <1>0, DepartsDealt DEF CredsPending, Gone
    <3>2. CASE Concludes("Failed")
      BY <1>2, <2>3, <3>2 DEF CredsPending, Concludes, object
    <3> QED BY <2>3, <3>1, <3>2 DEF CredsPending
  <2>4. CASE LoadResumes BY <1>2, <2>4 DEF LoadResumes, object
  <2>5. CASE LoadClaims BY <1>4, <2>5 DEF LoadClaims, object
  <2>6. CASE Claim BY <1>2, <2>6 DEF Claim
  <2>7. CASE ClaimFails BY <1>3, <2>7, <1>0, DepartsDealt DEF ClaimFails, Gone
  <2>8. CASE EnterCancelled BY <1>2, <2>8 DEF EnterCancelled, Returns, object
  <2>9. CASE Enter BY <1>2, <2>9 DEF Enter
  <2>10. CASE EnterFails BY <1>2, <2>10 DEF EnterFails, Returns, object
  <2>11. CASE WorkCancelled BY <1>2, <2>11 DEF WorkCancelled, Returns, object
  <2>12. CASE End
    <3>1. CASE Depart BY <1>3, <2>12, <3>1, <1>0, DepartsDealt DEF End, Gone
    <3>2. CASE Concludes(IF canc THEN "Aborted" ELSE res)
      BY <1>2, <2>12, <3>2 DEF End, Concludes, object
    <3> QED BY <2>12, <3>1, <3>2 DEF End
  <2>13. CASE Finalize BY <1>3, <2>13, <1>0, DepartsDealt DEF Finalize, Gone
  <2> QED
    BY <1>8, <2>1, <2>2, <2>3, <2>4, <2>5, <2>6, <2>7, <2>8, <2>9, <2>10, <2>11,
       <2>12, <2>13 DEF Goroutine
<1>9. CASE WorkAdvances BY <1>2, <1>9 DEF WorkAdvances, object
<1>10. CASE WorkSucceeds BY <1>2, <1>10 DEF WorkSucceeds, object
<1>11. CASE WorkFails
  <2>1. CASE UNCHANGED driver BY <1>1, <1>11, <2>1 DEF WorkFails, object, driver
  <2>2. CASE Returns("Failed") BY <1>2, <1>11, <2>2 DEF WorkFails, Returns, object
  <2> QED BY <1>11, <2>1, <2>2 DEF WorkFails
<1>12. CASE Shutdown \/ Exit \/ Boot
  BY <1>1, <1>12 DEF Shutdown, Exit, Boot, object, driver
<1>13. CASE Crash BY <1>3, <1>13 DEF Crash
<1>14. CASE UNCHANGED vars BY <1>1, <1>14 DEF vars, object, driver
<1> QED
  BY <1>5, <1>6, <1>7, <1>8, <1>9, <1>10, <1>11, <1>12, <1>13, <1>14 DEF Next

\* What a stop brings about stays its doing.
LEMMA StopHolds == ASSUME Inv, StopInv, [Next]_vars PROVE StopInv'
<1>0. snap # NoSnap => snap.stop \in BOOLEAN BY DEF Inv, ListInv, Status
<1>f. stop \in BOOLEAN /\ canc \in BOOLEAN /\ (canc => go # "none") BY DEF Inv, FlagInv
<1>1. ASSUME UNCHANGED <<phase, go, res, canc>>, stop' = stop \/ stop' = TRUE,
             snap' = snap \/ snap' = NoSnap
      PROVE  StopInv'
  BY <1>1 DEF StopInv
<1>2. ASSUME go # "none", go' # "none", phase' = phase \/ phase' = "Running",
             UNCHANGED <<stop, snap, canc>>, res' = "Aborted" => canc
      PROVE  StopInv'
  BY <1>2 DEF StopInv
<1>3. ASSUME Gone, phase' = phase \/ phase' = "Running" \/ (phase' = "Aborted" /\ canc),
             go # "none", UNCHANGED <<stop, snap>>
      PROVE  StopInv'
  <2>1. ~ canc' /\ res' # "Aborted" BY <1>3 DEF Gone
  <2>2. go' = "none" BY <1>3 DEF Gone
  <2>3. phase' = "Aborted" => canc BY <1>3 DEF StopInv
  <2> QED BY <1>3, <2>1, <2>2, <2>3 DEF StopInv
<1>d. ASSUME Depart PROVE Gone BY <1>d DEF Depart, Gone
<1>4. CASE StoreCreds \/ GraceEnds \/ StopExecution
  BY <1>1, <1>4 DEF StoreCreds, GraceEnds, StopExecution, driver
<1>5. CASE List
  <2>1. UNCHANGED <<phase, stop, go, res, canc>> /\ snap'.stop = stop
    BY <1>5 DEF List, object, driver
  <2> QED BY <1>f, <2>1 DEF StopInv
<1>6. CASE Dispatch
  <2>1. CASE DispatchSkips BY <1>1, <2>1 DEF DispatchSkips, object, driver
  <2>2. CASE DispatchCancels
    BY <1>0, <1>f, <2>2 DEF DispatchCancels, object, StopInv
  <2>3. CASE DispatchAborts BY <1>0, <1>f, <2>3 DEF DispatchAborts, driver, StopInv
  <2>4. CASE DispatchStarts
    BY <1>0, <1>f, <2>4 DEF DispatchStarts, Busy, object, StopInv
  <2> QED BY <1>6, <2>1, <2>2, <2>3, <2>4 DEF Dispatch
<1>7. CASE Goroutine
  <2>0. res = "Aborted" => canc BY DEF StopInv
  <2>1. CASE Register \/ LoadResumes \/ LoadClaims
    BY <1>2, <2>0, <2>1 DEF Register, LoadResumes, LoadClaims, object
  <2>2. CASE LoadFails BY <1>2, <2>2 DEF LoadFails, Concludes, object
  <2>3. CASE CredsPending
    <3>1. CASE Depart BY <1>3, <1>d, <2>3, <3>1 DEF CredsPending, object
    <3>2. CASE Concludes("Failed")
      BY <1>2, <2>3, <3>2 DEF CredsPending, Concludes, object
    <3> QED BY <2>3, <3>1, <3>2 DEF CredsPending
  <2>4. CASE Claim \/ Enter BY <1>2, <2>0, <2>4 DEF Claim, Enter
  <2>5. CASE ClaimFails BY <1>3, <1>d, <2>5 DEF ClaimFails
  <2>6. CASE EnterCancelled \/ EnterFails \/ WorkCancelled
    BY <1>2, <2>6 DEF EnterCancelled, EnterFails, WorkCancelled, Returns, object
  <2>7. CASE End
    <3>1. CASE Depart BY <1>3, <1>d, <2>7, <3>1 DEF End, object
    <3>2. CASE Concludes(IF canc THEN "Aborted" ELSE res)
      <4>1. res' = "Aborted" => canc BY <2>0, <3>2 DEF Concludes
      <4> QED BY <1>2, <2>7, <3>2, <4>1 DEF End, Concludes, object
    <3> QED BY <2>7, <3>1, <3>2 DEF End
  <2>8. CASE Finalize
    <3>1. go = "final" /\ Depart /\ UNCHANGED <<stop, snap>>
      BY <2>8 DEF Finalize
    <3>2. phase' = phase \/ phase' = res BY <2>8 DEF Finalize
    <3>3. ~ canc' /\ res' # "Aborted" /\ go' = "none" BY <3>1 DEF Depart
    <3>4. phase' = "Aborted" => canc BY <2>0, <3>1, <3>2 DEF StopInv
    <3> QED BY <3>1, <3>3, <3>4 DEF StopInv
  <2> QED BY <1>7, <2>1, <2>2, <2>3, <2>4, <2>5, <2>6, <2>7, <2>8 DEF Goroutine
<1>8. CASE WorkAdvances \/ WorkSucceeds
  BY <1>2, <1>8 DEF WorkAdvances, WorkSucceeds, object, StopInv
<1>9. CASE WorkFails
  <2>1. CASE UNCHANGED driver BY <1>1, <1>9, <2>1 DEF WorkFails, object, driver
  <2>2. CASE Returns("Failed") BY <1>2, <1>9, <2>2 DEF WorkFails, Returns, object
  <2> QED BY <1>9, <2>1, <2>2 DEF WorkFails
<1>10. CASE Shutdown \/ Exit \/ Boot
  BY <1>1, <1>10 DEF Shutdown, Exit, Boot, object, driver
<1>11. CASE Crash BY <1>11 DEF Crash, object, StopInv
<1>12. CASE UNCHANGED vars BY <1>1, <1>12 DEF vars, object, driver
<1> QED
  BY <1>4, <1>5, <1>6, <1>7, <1>8, <1>9, <1>10, <1>11, <1>12 DEF Next

\* Both hold throughout.
LEMMA StopAlways == Spec => [](Inv /\ CurrentInv /\ StopInv)
<1>1. Init => CurrentInv /\ StopInv
  BY DEF Init, CurrentInv, Current, StopInv, Starting
<1>2. ASSUME Inv, CurrentInv, StopInv, [Next]_vars PROVE (Inv /\ CurrentInv /\ StopInv)'
  <2>1. CurrentInv'
    <3> SUFFICES ASSUME late' = 0 PROVE Current' BY DEF CurrentInv
    <3>1. late = 0 BY <1>2, LateGrows, Bounds DEF Inv, CountInv
    <3> QED BY <1>2, <3>1, CurrentHolds DEF CurrentInv
  <2> QED BY <1>2, <2>1, InvHolds, StopHolds
<1> QED BY <1>1, <1>2, InvStarts, PTL DEF Spec

\* The phase an execution ended in is replaced only from a list that a goroutine
\* outlived its execution in (reconcile, main.go): as long as there was none, no
\* goroutine drives an execution that has ended, and reconcile aborts only one
\* whose listed phase is still the object's.  An aborted execution stays aborted
\* even then, for every list that could bring it back shows the stop.
THEOREM TerminalsAreFinal == Spec => TerminalIsFinal
<1>1. ASSUME Inv, [Next]_vars, go = "none", phase' # phase
      PROVE  DispatchAborts /\ phase' = "Aborted"
  BY <1>1
  DEF Next, Dispatch, Goroutine, vars, object, driver, StoreCreds, GraceEnds,
      StopExecution, List, DispatchSkips, DispatchCancels, DispatchAborts, DispatchStarts,
      Register, LoadFails, CredsPending, LoadResumes, LoadClaims, Claim, ClaimFails,
      EnterCancelled, Enter, EnterFails, WorkCancelled, End, Finalize, WorkAdvances,
      WorkSucceeds, WorkFails, Shutdown, Exit, Crash, Boot, Concludes, Returns
<1>2. ASSUME Inv, CurrentInv, StopInv, [Next]_vars, phase \in Terminal, phase' # phase
      PROVE  late > 0 /\ phase # "Aborted"
  <2>1. phase # "Aborted" BY <1>1, <1>2 DEF StopInv
  <2>2. ASSUME late = 0 PROVE FALSE
    <3>1. Current /\ go = "none" BY <1>2, <2>2 DEF CurrentInv, Current
    <3>2. DispatchAborts BY <1>1, <1>2, <3>1
    <3> QED BY <1>2, <3>1, <3>2 DEF DispatchAborts, Ended, Current, UpToDate
  <2>3. late \in Nat BY <1>2, Bounds DEF Inv, CountInv
  <2> QED BY <2>1, <2>2, <2>3
<1>3. Inv /\ CurrentInv /\ StopInv /\ [Next]_vars
        => [(phase \in Terminal /\ phase' # phase) => (late > 0 /\ phase # "Aborted")]_vars
  BY <1>2
<1> QED BY <1>3, StopAlways, PTL DEF Spec, TerminalIsFinal

-----------------------------------------------------------------------------
(***************************************************************************)
(* What is recorded as a failure.                                          *)
(***************************************************************************)

\* Before the engine there is no state; the engine returns Failed for a fault or
\* because it was cancelled, and End lets only the former pass as a failure.
FailInv ==
    /\ go \in Starting \union {"none"} => at = 0
    /\ go = "end" /\ res = "Failed" => faults > 0 \/ Cancelled
    /\ go = "final" /\ at # 0 /\ res = "Failed" => faults > 0

\* A failure that is carried stays one with a fault behind it.
LEMMA FailHolds == ASSUME Inv, FailInv, [Next]_vars PROVE FailInv'
<1> USE DEF FailInv, Starting, Cancelled
<1>0. /\ faults \in Nat /\ canc \in BOOLEAN
      /\ Fault => faults' > 0 /\ faults' = faults + 1
  BY Bounds DEF Inv, CountInv, FlagInv, Fault
<1>1. ASSUME UNCHANGED <<go, at, res, faults>>, canc' = canc \/ canc' = TRUE,
             proc' = proc \/ proc' = "stopping" \/ go = "none" \/ proc # "stopping"
      PROVE  FailInv'
  BY <1>1
<1>2. ASSUME Depart PROVE FailInv' BY <1>2 DEF Depart
<1>3. ASSUME go' \in {"enter", "work"} PROVE FailInv' BY <1>3
<1>4. ASSUME Returns("Failed"), Fault \/ (Cancelled /\ faults' = faults), proc' = proc
      PROVE  FailInv'
  BY <1>0, <1>4 DEF Returns
<1>5. CASE StoreCreds \/ GraceEnds \/ StopExecution \/ List
  BY <1>1, <1>5 DEF StoreCreds, GraceEnds, StopExecution, List, driver
<1>6. CASE Dispatch
  <2>1. CASE DispatchSkips \/ DispatchCancels
    BY <1>1, <2>1 DEF DispatchSkips, DispatchCancels, driver
  <2>2. CASE DispatchAborts BY <2>2 DEF DispatchAborts, driver
  <2>3. CASE DispatchStarts BY <2>3 DEF DispatchStarts, Busy
  <2> QED BY <1>6, <2>1, <2>2, <2>3 DEF Dispatch
<1>7. CASE Goroutine
  <2>1. CASE Register \/ LoadClaims BY <2>1 DEF Register, LoadClaims
  <2>2. CASE LoadResumes \/ Claim \/ Enter BY <1>3, <2>2 DEF LoadResumes, Claim, Enter
  <2>3. CASE LoadFails BY <2>3 DEF LoadFails, Concludes
  <2>4. CASE CredsPending
    <3>1. CASE Depart BY <1>2, <3>1
    <3>2. CASE Concludes("Failed") BY <2>4, <3>2 DEF CredsPending, Concludes
    <3> QED BY <2>4, <3>1, <3>2 DEF CredsPending
  <2>5. CASE ClaimFails BY <1>2, <2>5 DEF ClaimFails
  <2>6. CASE EnterCancelled \/ EnterFails \/ WorkCancelled
    BY <1>4, <2>6 DEF EnterCancelled, EnterFails, WorkCancelled
  <2>7. CASE End
    <3>1. CASE Depart BY <1>2, <3>1
    <3>2. CASE proc # "stopping" /\ Concludes(IF canc THEN "Aborted" ELSE res)
      <4>1. go = "end" /\ faults' = faults /\ go' = "final" /\ at' = at
        BY <2>7, <3>2 DEF End, Concludes
      <4>2. res' = "Failed" => ~ canc /\ res = "Failed" BY <3>2 DEF Concludes
      <4> QED BY <3>2, <4>1, <4>2
    <3> QED BY <2>7, <3>1, <3>2 DEF End
  <2>8. CASE Finalize BY <1>2, <2>8 DEF Finalize
  <2> QED BY <1>7, <2>1, <2>2, <2>3, <2>4, <2>5, <2>6, <2>7, <2>8 DEF Goroutine
<1>8. CASE WorkAdvances BY <1>3, <1>8 DEF WorkAdvances
<1>9. CASE WorkSucceeds BY <1>9 DEF WorkSucceeds
<1>10. CASE WorkFails
  <2>1. CASE UNCHANGED driver BY <1>3, <1>10, <2>1 DEF WorkFails, driver
  <2>2. CASE Returns("Failed") BY <1>4, <1>10, <2>2 DEF WorkFails
  <2> QED BY <1>10, <2>1, <2>2 DEF WorkFails
<1>11. CASE Shutdown \/ Exit \/ Boot
  BY <1>1, <1>11 DEF Shutdown, Exit, Boot, driver
<1>12. CASE Crash BY <1>12 DEF Crash
<1>13. CASE UNCHANGED vars BY <1>1, <1>13 DEF vars, driver
<1> QED
  BY <1>5, <1>6, <1>7, <1>8, <1>9, <1>10, <1>11, <1>12, <1>13 DEF Next

\* Once the engine has the execution, finalize writes Failed only after a task or
\* an API call failed: the engine's answer to a shutdown or a stop is Failed too,
\* and run (main.go) sorts them apart.
THEOREM ShutdownsAreNoFailures == Spec => ShutdownIsNoFailure
<1>1. Init => FailInv BY DEF Init, FailInv
<1>2. Inv /\ FailInv /\ [Next]_vars => (Inv /\ FailInv)' BY InvHolds, FailHolds
<1>3. ASSUME Inv, FailInv, [Next]_vars, phase' = "Failed", phase # "Failed", at # 0
      PROVE  faults > 0
  <2>1. Finalize /\ phase' = res
    BY <1>3
    DEF Next, Dispatch, Goroutine, vars, object, driver, StoreCreds, GraceEnds,
        StopExecution, List, DispatchSkips, DispatchCancels, DispatchAborts,
        DispatchStarts, Register, LoadFails, CredsPending, LoadResumes, LoadClaims, Claim,
        ClaimFails, EnterCancelled, Enter, EnterFails, WorkCancelled, End, Finalize,
        WorkAdvances, WorkSucceeds, WorkFails, Shutdown, Exit, Crash, Boot
  <2> QED BY <1>3, <2>1 DEF FailInv, Finalize
<1>4. Inv /\ FailInv /\ [Next]_vars
        => [(phase' = "Failed" /\ phase # "Failed" /\ at # 0) => (faults > 0)]_vars
  BY <1>3
<1> QED BY <1>1, <1>2, <1>4, InvAlways, InvStarts, PTL DEF Spec, ShutdownIsNoFailure

-----------------------------------------------------------------------------
(***************************************************************************)
(* Repetitions and their causes.                                           *)
(***************************************************************************)

\* The causes that account for the work repeated so far.  A shutdown accounts
\* for what is still driven only once that has come to its end.
Driven == go # "none" \/ snap # NoSnap
Total == restarts + faults + late
Causes == IF proc = "stopping" /\ Driven THEN Total - 1 ELSE Total

\* From state c on, each state has run at most once per cause.
Ahead(c) == \A k \in Step : k >= c => ran[k] <= Causes

\* A state yet to be worked, by the object, the list or the goroutine, has run at
\* most once per cause, one already worked once more.
Accounted ==
    /\ \A k \in Step : ran[k] <= 1 + Causes
    /\ go = "none" /\ phase \notin Terminal => Ahead(cur)
    /\ go = "none" /\ snap # NoSnap /\ ~ Ended(snap.phase) => Ahead(snap.cur)
    /\ go \in Starting => Ahead(e.cur)
    /\ go \in {"enter", "work"} => Ahead(at)

\* The causes are counted within one of their total.
LEMMA CausesRange ==
    ASSUME CountInv
    PROVE  /\ Causes \in Int /\ restarts \in Nat /\ faults \in Nat /\ late \in Nat
           /\ Total \in Nat /\ Total - 1 <= Causes /\ Causes <= Total
<1>1. restarts \in Nat /\ faults \in Nat /\ late \in Nat BY Bounds DEF CountInv
<1>2. Total \in Nat BY <1>1 DEF Total
<1>3. Causes \in {Total - 1, Total} BY DEF Causes
<1> QED BY <1>1, <1>2, <1>3

\* The two values of Causes, before and after a step.
LEMMA CausesValue ==
    /\ proc = "stopping" /\ Driven => Causes = Total - 1
    /\ proc # "stopping" \/ ~ Driven => Causes = Total
    /\ proc' = "stopping" /\ Driven' => Causes' = Total' - 1
    /\ proc' # "stopping" \/ ~ Driven' => Causes' = Total'
<1>1. proc' = "stopping" /\ Driven' => Causes' = Total' - 1
  BY DEF Causes
<1>2. proc' # "stopping" \/ ~ Driven' => Causes' = Total'
  BY DEF Causes
<1> QED BY <1>1, <1>2 DEF Causes

\* The same range after a step.
LEMMA CausesRangeNext ==
    ASSUME CountInv'
    PROVE  /\ Causes' \in Int /\ restarts' \in Nat /\ faults' \in Nat /\ late' \in Nat
           /\ Total' \in Nat /\ Total' - 1 <= Causes' /\ Causes' <= Total'
<1>1. restarts' \in Nat /\ faults' \in Nat /\ late' \in Nat BY Bounds DEF CountInv
<1>a. ASSUME NEW r \in Nat, NEW f \in Nat, NEW l \in Nat PROVE r + f + l \in Nat
  OBVIOUS
<1>b. Total' = restarts' + faults' + late' BY DEF Total
<1>2. Total' \in Nat BY <1>1, <1>a, <1>b
<1>3. Causes' \in {Total' - 1, Total'} BY CausesValue
<1>4. ASSUME NEW t \in Nat, NEW c \in {t - 1, t} PROVE c \in Int /\ t - 1 <= c /\ c <= t
  OBVIOUS
<1> QED BY <1>1, <1>2, <1>3, <1>4

\* A step that starts or ends neither the process nor, while it shuts down,
\* anything that is driven adds its fault or its late end to the causes; what
\* comes to its end during a shutdown adds the shutdown.
LEMMA CausesStep ==
    ASSUME CountInv, CountInv', proc' = proc, restarts' = restarts,
           faults' = faults \/ Fault, late' = late \/ late' = late + 1,
           proc = "stopping" /\ Driven' => Driven
    PROVE  /\ Causes' >= Causes
           /\ Fault => Causes' > Causes
           /\ late' = late + 1 => Causes' > Causes
           /\ proc = "stopping" /\ Driven /\ ~ Driven' => Causes' > Causes
<1>1. /\ Total \in Int /\ Total' \in Int /\ Total' >= Total
      /\ Fault => Total' > Total
      /\ late' = late + 1 => Total' > Total
  BY CausesRange, CausesRangeNext DEF Fault, Total
<1>2. ASSUME NEW t \in Int, NEW u \in Int, u >= t
      PROVE  /\ u >= t - 1 /\ u - 1 >= t - 1 /\ u > t - 1
             /\ u > t => u - 1 > t - 1
  BY <1>2
<1>4. CASE proc # "stopping" \/ (~ Driven /\ ~ Driven')
  <2>1. Causes = Total /\ Causes' = Total' BY <1>4, CausesValue
  <2> QED BY <1>1, <1>4, <2>1
<1>5. CASE proc = "stopping" /\ Driven /\ Driven'
  <2>1. Causes = Total - 1 /\ Causes' = Total' - 1 BY <1>5, CausesValue
  <2> QED BY <1>1, <1>2, <1>5, <2>1
<1>6. CASE proc = "stopping" /\ Driven /\ ~ Driven'
  <2>1. Causes = Total - 1 /\ Causes' = Total' BY <1>6, CausesValue
  <2> QED BY <1>1, <1>2, <1>6, <2>1
<1> QED BY <1>4, <1>5, <1>6

\* How often a state has run, over a step that repeats nothing.
LEMMA NoneRan ==
    ASSUME CountInv, CountInv', Accounted, ran' = ran, Causes' >= Causes
    PROVE  /\ \A k \in Step : ran'[k] <= 1 + Causes'
           /\ Causes' > Causes => \A k \in Step : ran'[k] <= Causes'
           /\ \A k \in Step : ran[k] <= Causes => ran'[k] <= Causes'
<1>1. Causes \in Int /\ Causes' \in Int BY CausesRange, CausesRangeNext
<1>2. \A k \in Step : ran[k] \in Nat BY DEF CountInv
<1>3. \A k \in Step : ran[k] <= 1 + Causes BY DEF Accounted
<1> QED BY <1>1, <1>2, <1>3

\* What is ahead stays ahead, and with one more cause everything is.
LEMMA StaysAhead ==
    ASSUME CountInv, CountInv', Accounted, ran' = ran, Causes' >= Causes, NEW c,
           Ahead(c) \/ Causes' > Causes
    PROVE  \A k \in Step : k >= c => ran'[k] <= Causes'
BY NoneRan DEF Ahead

\* Before the first state everything is ahead.
LEMMA AllAhead == ASSUME Ahead(0) PROVE \A k \in Step : ran[k] <= Causes
BY Bounds DEF Ahead, Step

\* Nothing is repeated and nothing moves, or what was listed is dealt with.
LEMMA AccountedStays ==
    ASSUME CountInv, CountInv', Accounted, ran' = ran, Causes' >= Causes,
           UNCHANGED <<go, e, phase, cur, at>>, snap' = snap \/ snap' = NoSnap
    PROVE  Accounted'
<1>1. \A k \in Step : ran'[k] <= 1 + Causes' BY NoneRan
<1>2. ASSUME NEW c, Ahead(c) PROVE \A k \in Step : k >= c => ran'[k] <= Causes'
  BY <1>2, StaysAhead
<1>3. (go = "none" /\ phase \notin Terminal => Ahead(cur))' BY <1>2 DEF Accounted, Ahead
<1>4. (go = "none" /\ snap # NoSnap /\ ~ Ended(snap.phase) => Ahead(snap.cur))'
  BY <1>2 DEF Accounted, Ahead, Ended
<1>5. (go \in Starting => Ahead(e.cur))' BY <1>2 DEF Accounted, Ahead
<1>6. (go \in {"enter", "work"} => Ahead(at))' BY <1>2 DEF Accounted, Ahead
<1> QED BY <1>1, <1>3, <1>4, <1>5, <1>6 DEF Accounted

\* The goroutine goes to its end.
LEMMA AccountedClosing ==
    ASSUME CountInv, CountInv', Accounted, ran' = ran, Causes' >= Causes,
           go' \in {"end", "final"}
    PROVE  Accounted'
BY NoneRan DEF Accounted, Starting

\* The goroutine is gone, with a cause counted, or in a phase that is final and
\* with nothing listed, or before it came to any work.
LEMMA AccountedGone ==
    ASSUME CountInv, CountInv', Accounted, ran' = ran, go' = "none",
           Causes' >= Causes,
           \/ Causes' > Causes
           \/ phase' \in Terminal /\ snap' = NoSnap
           \/ Ahead(0)
    PROVE  Accounted'
<1>1. \A k \in Step : ran'[k] <= 1 + Causes' BY NoneRan
<1>2. \/ \A k \in Step : ran'[k] <= Causes'
      \/ phase' \in Terminal /\ snap' = NoSnap
  BY NoneRan, AllAhead
<1> QED BY <1>1, <1>2 DEF Accounted, Starting, Ahead

\* A state is worked once more, and the goroutine leaves it behind or a fault
\* is counted.
LEMMA OnceMore ==
    ASSUME Inv, CountInv', Accounted, go = "work", Worked, Causes' >= Causes
    PROVE  /\ \A k \in Step : ran'[k] <= 1 + Causes'
           /\ \A k \in Step : k > at => ran'[k] <= Causes'
           /\ Causes' > Causes => \A k \in Step : k >= at => ran'[k] <= Causes'
<1>1. Causes \in Int /\ Causes' \in Int BY CausesRange, CausesRangeNext DEF Inv
<1>2. at \in Step BY AtWork
<1>3. ran'[at] = ran[at] + 1 /\ \A k \in Step \ {at} : ran'[k] = ran[k]
  BY <1>2, WorkedGrows DEF Inv
<1>4. \A k \in Step : ran[k] \in Nat BY DEF Inv, CountInv
<1>5. /\ \A k \in Step : ran[k] <= 1 + Causes
      /\ \A k \in Step : k >= at => ran[k] <= Causes
  BY DEF Accounted, Ahead
<1>6. Step \subseteq Int /\ ran[at] <= Causes BY <1>2, <1>5 DEF Step
<1> SUFFICES ASSUME NEW k \in Step
             PROVE  /\ ran'[k] <= 1 + Causes'
                    /\ k > at => ran'[k] <= Causes'
                    /\ Causes' > Causes /\ k >= at => ran'[k] <= Causes'
  OBVIOUS
<1>7. CASE k = at BY <1>1, <1>2, <1>3, <1>4, <1>6, <1>7
<1>8. CASE k # at BY <1>1, <1>2, <1>3, <1>4, <1>5, <1>6, <1>8
<1> QED BY <1>7, <1>8

\* Every repetition stays accounted for by a cause of its own.
LEMMA AccountedHolds ==
    ASSUME Inv, Inv', Accounted, [Next]_vars
    PROVE  Accounted'
<1>0. CountInv /\ CountInv' BY DEF Inv
<1>1. ASSUME UNCHANGED <<go, e, phase, cur, at, ran>>, snap' = snap \/ snap' = NoSnap,
             Causes' >= Causes
      PROVE Accounted'
  BY <1>0, <1>1, AccountedStays
<1>2. ASSUME go # "none", go' \in {"end", "final"}, ran' = ran,
             UNCHANGED <<proc, restarts, late>>, faults' = faults \/ Fault
      PROVE  Accounted'
  BY <1>0, <1>2, CausesStep, AccountedClosing DEF Driven
<1>3. ASSUME go # "none", ran' = ran,
             phase' \in Terminal \/ Fault \/ proc = "stopping" \/ Ahead(0),
             Depart, UNCHANGED <<proc, snap, restarts>>, faults' = faults \/ Fault
      PROVE  Accounted'
  <2>1. go' = "none" /\ Driven BY <1>3 DEF Depart, Driven
  <2>2. late' = late \/ late' = late + 1 BY <1>0, <1>3, DepartCount
  <2>3. Causes' >= Causes BY <1>0, <1>3, <2>1, <2>2, CausesStep
  <2>4. CASE snap = NoSnap
    <3>1. ~ Driven' BY <1>3, <2>1, <2>4 DEF Driven
    <3>2. Fault \/ proc = "stopping" => Causes' > Causes
      BY <1>0, <1>3, <2>1, <2>2, <3>1, CausesStep
    <3> QED BY <1>0, <1>3, <2>1, <2>3, <2>4, <3>2, AccountedGone
  <2>5. CASE snap # NoSnap
    <3>1. late' = late + 1 BY <1>0, <1>3, <2>5, DepartCount
    <3>2. Causes' > Causes BY <1>0, <1>3, <2>1, <3>1, CausesStep
    <3> QED BY <1>0, <1>3, <2>1, <2>3, <3>2, AccountedGone
  <2> QED BY <2>4, <2>5
<1>4. CASE StoreCreds \/ GraceEnds \/ StopExecution
  <2>1. UNCHANGED <<go, e, phase, cur, at, ran, proc, restarts, faults, late, snap>>
    BY <1>4 DEF StoreCreds, GraceEnds, StopExecution, driver
  <2> QED BY <1>0, <1>1, <2>1, CausesStep DEF Driven
<1>5. CASE List
  <2>1. /\ UNCHANGED <<go, e, phase, cur, at, ran, proc, restarts, faults, late>> /\ proc = "up"
        /\ snap'.phase = phase /\ snap'.cur = cur
    BY <1>5 DEF List, object, driver
  <2>2. Causes' >= Causes BY <1>0, <2>1, CausesStep
  <2>a. \A k \in Step : ran'[k] <= 1 + Causes' BY <1>0, <2>1, <2>2, NoneRan
  <2>3. ASSUME NEW c, Ahead(c) PROVE \A k \in Step : k >= c => ran'[k] <= Causes'
    BY <1>0, <2>1, <2>2, <2>3, StaysAhead
  <2>4. (go = "none" /\ phase \notin Terminal => Ahead(cur))'
    BY <2>1, <2>3 DEF Accounted, Ahead
  <2>5. (go = "none" /\ snap # NoSnap /\ ~ Ended(snap.phase) => Ahead(snap.cur))'
    BY <2>1, <2>4 DEF Ended, Ahead
  <2>6. (go \in Starting => Ahead(e.cur))' BY <2>1, <2>3 DEF Accounted, Ahead
  <2>7. (go \in {"enter", "work"} => Ahead(at))' BY <2>1, <2>3 DEF Accounted, Ahead
  <2> QED BY <2>a, <2>4, <2>5, <2>6, <2>7 DEF Accounted
<1>6. CASE Dispatch
  <2>1. CASE DispatchSkips \/ DispatchCancels
    <3>1. UNCHANGED <<go, e, phase, cur, at, ran, proc, restarts, faults, late>> /\ snap' = NoSnap
      BY <2>1 DEF DispatchSkips, DispatchCancels, object, driver
    <3> QED BY <1>0, <1>1, <3>1, CausesStep DEF Driven
  <2>2. CASE DispatchAborts
    <3>1. /\ UNCHANGED <<go, e, at, ran, proc, restarts, late>> /\ snap' = NoSnap /\ go = "none"
          /\ faults' = faults \/ Fault
          /\ phase' = "Aborted" \/ UNCHANGED <<phase, cur>>
      BY <2>2 DEF DispatchAborts, driver
    <3>2. Causes' >= Causes BY <1>0, <3>1, CausesStep DEF Driven
    <3> QED BY <1>0, <1>1, <3>1, <3>2, AccountedGone, TerminalNames
  <2>3. CASE DispatchStarts
    <3>1. /\ UNCHANGED <<ran, proc, restarts, faults, late>>
          /\ go = "none" /\ go' = "born" /\ e' = snap /\ snap # NoSnap /\ ~ Ended(snap.phase)
      BY <2>3 DEF DispatchStarts, Busy, object
    <3>2. Causes' >= Causes BY <1>0, <3>1, CausesStep DEF Driven
    <3>3. \A k \in Step : k >= snap.cur => ran'[k] <= Causes'
      BY <1>0, <3>1, <3>2, StaysAhead DEF Accounted
    <3>4. \A k \in Step : ran'[k] <= 1 + Causes' BY <1>0, <3>1, <3>2, NoneRan
    <3> QED BY <3>1, <3>3, <3>4 DEF Accounted, Ahead
  <2> QED BY <1>6, <2>1, <2>2, <2>3 DEF Dispatch
<1>7. CASE Register \/ LoadClaims
  <2>1. /\ UNCHANGED <<e, ran, proc, restarts, faults, late>>
        /\ go \in Starting /\ go' \in Starting
    BY <1>7 DEF Register, LoadClaims, Starting
  <2>2. go # "none" /\ go' \notin {"none", "enter", "work"} BY <2>1 DEF Starting
  <2>3. Causes' >= Causes BY <1>0, <2>1, <2>2, CausesStep DEF Driven
  <2>4. \A k \in Step : k >= e.cur => ran'[k] <= Causes'
    BY <1>0, <2>1, <2>3, StaysAhead DEF Accounted
  <2>5. \A k \in Step : ran'[k] <= 1 + Causes' BY <1>0, <2>1, <2>3, NoneRan
  <2> QED BY <2>1, <2>2, <2>4, <2>5 DEF Accounted, Ahead
<1>8. CASE LoadFails BY <1>2, <1>8 DEF LoadFails, Concludes
<1>e. ASSUME go \in Starting, e.phase = "" PROVE Ahead(0)
  <2>1. e.cur = 0 BY <1>e DEF Inv, DriverInv, Sound
  <2> QED BY <1>e, <2>1 DEF Accounted
<1>9. CASE CredsPending
  <2>1. go = "load" /\ UNCHANGED <<phase, cur, proc, snap, ran, restarts, faults>>
    BY <1>9 DEF CredsPending, object
  <2>2. CASE e.phase = "" /\ Depart
    <3>1. Ahead(0) BY <1>e, <2>1, <2>2 DEF Starting
    <3> QED BY <1>3, <2>1, <2>2, <3>1
  <2>3. CASE Concludes("Failed") BY <1>2, <2>1, <2>3 DEF Concludes
  <2> QED BY <1>9, <2>2, <2>3 DEF CredsPending
<1>10. CASE LoadResumes
  <2>1. /\ UNCHANGED <<proc, ran, restarts, faults, late>>
        /\ go = "load" /\ go' = "enter" /\ at' = e.cur
    BY <1>10 DEF LoadResumes, object
  <2>2. Causes' >= Causes BY <1>0, <2>1, CausesStep DEF Driven
  <2>3. \A k \in Step : k >= e.cur => ran'[k] <= Causes'
    BY <1>0, <2>1, <2>2, StaysAhead DEF Accounted, Starting
  <2>4. \A k \in Step : ran'[k] <= 1 + Causes' BY <1>0, <2>1, <2>2, NoneRan
  <2> QED BY <2>1, <2>3, <2>4 DEF Accounted, Ahead, Starting
<1>11. CASE Claim
  <2>1. go = "claim" /\ go' = "enter" /\ UNCHANGED <<proc, snap, ran, restarts, faults, late>>
    BY <1>11 DEF Claim
  <2>2. Causes' >= Causes BY <1>0, <2>1, CausesStep DEF Driven
  <2>3. Ahead(0) BY <1>e, <2>1 DEF Inv, DriverInv, Starting
  <2>4. \A k \in Step : ran'[k] <= 1 + Causes' /\ ran'[k] <= Causes'
    BY <1>0, <2>1, <2>2, <2>3, NoneRan, AllAhead
  <2> QED BY <2>1, <2>4 DEF Accounted, Ahead, Starting
<1>25. CASE ClaimFails
  <2>1. go = "claim" /\ Depart /\ UNCHANGED <<proc, snap, ran, restarts>>
        /\ (faults' = faults \/ Fault)
    BY <1>25 DEF ClaimFails
  <2>2. Ahead(0) BY <1>e, <2>1 DEF Inv, DriverInv, Starting
  <2> QED BY <1>3, <2>1, <2>2
<1>12. CASE EnterCancelled BY <1>2, <1>12 DEF EnterCancelled, Returns
<1>13. CASE Enter
  <2>1. /\ UNCHANGED <<at, proc, snap, ran, restarts, faults, late>>
        /\ go = "enter" /\ go' = "work"
    BY <1>13 DEF Enter
  <2>2. Causes' >= Causes BY <1>0, <2>1, CausesStep DEF Driven
  <2>3. \A k \in Step : k >= at => ran'[k] <= Causes'
    BY <1>0, <2>1, <2>2, StaysAhead DEF Accounted
  <2>4. \A k \in Step : ran'[k] <= 1 + Causes' BY <1>0, <2>1, <2>2, NoneRan
  <2> QED BY <2>1, <2>3, <2>4 DEF Accounted, Ahead, Starting
<1>14. CASE EnterFails BY <1>2, <1>14 DEF EnterFails, Returns
<1>15. CASE WorkCancelled
  <2>1. /\ go = "work" /\ go' = "end" /\ UNCHANGED <<proc, restarts, faults, late>>
        /\ Worked \/ ran' = ran
    BY <1>15 DEF WorkCancelled, Returns
  <2>2. Causes' >= Causes BY <1>0, <2>1, CausesStep DEF Driven
  <2>3. \A k \in Step : ran'[k] <= 1 + Causes' BY <1>0, <2>1, <2>2, OnceMore, NoneRan
  <2> QED BY <2>1, <2>3 DEF Accounted, Starting
<1>16. CASE End
  <2>1. CASE proc = "stopping" /\ Depart BY <1>3, <1>16, <2>1 DEF End
  <2>2. CASE Concludes(IF canc THEN "Aborted" ELSE res) BY <1>2, <1>16, <2>2 DEF End, Concludes
  <2> QED BY <1>16, <2>1, <2>2 DEF End
<1>17. CASE Finalize
  <2>1. res \in Terminal BY <1>17 DEF Finalize, Inv, DriverInv
  <2>2. phase' = res \/ Fault BY <1>17 DEF Finalize
  <2> QED BY <1>3, <1>17, <2>1, <2>2 DEF Finalize
<1>18. CASE WorkAdvances
  <2>1. /\ go = "work" /\ go' = "enter" /\ Worked /\ at' = at + 1
        /\ UNCHANGED <<proc, snap, restarts, faults, late>>
    BY <1>18 DEF WorkAdvances
  <2>2. Causes' >= Causes BY <1>0, <2>1, CausesStep DEF Driven
  <2>3. at \in Step BY <2>1, AtWork
  <2>4. \A k \in Step : k >= at + 1 => k > at BY <2>3 DEF Step
  <2> QED BY <1>0, <2>1, <2>2, <2>4, OnceMore DEF Accounted, Ahead, Starting
<1>19. CASE WorkSucceeds
  <2>1. go = "work" /\ go' = "end" /\ Worked /\ UNCHANGED <<proc, restarts, faults, late>>
    BY <1>19 DEF WorkSucceeds
  <2>2. Causes' >= Causes BY <1>0, <2>1, CausesStep DEF Driven
  <2> QED BY <1>0, <2>1, <2>2, OnceMore DEF Accounted, Starting
<1>20. CASE WorkFails
  <2>1. go = "work" /\ Fault /\ Worked /\ UNCHANGED <<proc, snap, restarts>>
    BY <1>20 DEF WorkFails
  <2>2. ((go' = "work" /\ at' = at) \/ go' = "end") /\ late' = late
    BY <1>20 DEF WorkFails, driver, Returns
  <2>3. Causes' >= Causes /\ Causes' > Causes BY <1>0, <2>1, <2>2, CausesStep DEF Driven
  <2> QED BY <1>0, <2>1, <2>2, <2>3, OnceMore DEF Accounted, Ahead, Starting
<1>21. CASE Shutdown
  <2>1. /\ UNCHANGED <<go, e, snap, phase, cur, at, ran, faults, late>>
        /\ proc = "up" /\ proc' = "stopping" /\ restarts' = restarts + 1
    BY <1>21 DEF Shutdown, object, driver
  <2>2. Causes' >= Causes
    <3>1. Causes = Total BY <2>1, CausesValue
    <3>2. Causes' \in {Total' - 1, Total'} BY <2>1, CausesValue
    <3>3. Total' = Total + 1 BY <1>0, <2>1, CausesRange DEF Total
    <3> QED BY <1>0, <3>1, <3>2, <3>3, CausesRange
  <2> QED BY <1>1, <2>1, <2>2
<1>22. CASE Exit \/ Boot
  <2>1. /\ UNCHANGED <<go, e, snap, phase, cur, at, ran, restarts, faults, late>>
        /\ (go = "none" /\ snap = NoSnap) \/ (proc = "down" /\ proc' = "up")
    BY <1>22 DEF Exit, Boot, object, driver
  <2>2. Total' = Total BY <2>1 DEF Total
  <2>3. Causes = Total /\ Causes' = Total' BY <2>1, CausesValue DEF Driven
  <2> QED BY <1>0, <1>1, <2>1, <2>2, <2>3, CausesRange
<1>23. CASE Crash
  <2>1. /\ go' = "none" /\ snap' = NoSnap /\ proc' = "down" /\ restarts' = restarts + 1
        /\ UNCHANGED <<ran, faults, late>>
    BY <1>23 DEF Crash
  <2>2. Causes' = Total' BY <2>1, CausesValue
  <2>4. Total' = Total + 1 BY <1>0, <2>1, CausesRange DEF Total
  <2>3. Causes' > Causes /\ Causes' >= Causes BY <1>0, <2>2, <2>4, CausesRange
  <2> QED BY <1>0, <2>1, <2>3, AccountedGone
<1>24. CASE UNCHANGED vars
  <2>1. UNCHANGED <<go, e, phase, cur, at, ran, proc, restarts, faults, late, snap>>
    BY <1>24 DEF vars, object, driver
  <2> QED BY <1>0, <1>1, <2>1, CausesStep DEF Driven
<1> QED
  BY <1>4, <1>5, <1>6, <1>7, <1>8, <1>9, <1>10, <1>11, <1>12, <1>13, <1>14, <1>15,
     <1>16, <1>17, <1>18, <1>19, <1>20, <1>21, <1>22, <1>23, <1>24, <1>25
  DEF Next, Goroutine

\* A state is worked again only for a failed task or API call, a restart of the
\* controller, or a goroutine that ended between reconcile's list and its
\* dispatch, each of them good for one repetition.
THEOREM RepeatsAreCaused == Spec => []RepeatsHaveCauses
<1>1. Init => Accounted
  <2> SUFFICES ASSUME Init PROVE Accounted OBVIOUS
  <2>1. go = "none" /\ snap = NoSnap /\ proc = "up" BY DEF Init
  <2>a. restarts = 0 /\ faults = 0 /\ late = 0 BY DEF Init
  <2>2. Total = 0 BY <2>a DEF Total
  <2>3. Causes = 0 BY <2>1, <2>2, CausesValue
  <2>4. \A k \in Step : ran[k] = 0 BY DEF Init
  <2> QED BY <2>1, <2>3, <2>4 DEF Accounted, Ahead, Starting
<1>2. Inv /\ Accounted /\ [Next]_vars => (Inv /\ Accounted)' BY InvHolds, AccountedHolds
<1>3. Inv /\ Accounted => RepeatsHaveCauses
  <2> SUFFICES ASSUME Inv, Accounted, NEW k \in Step
               PROVE  ran[k] <= 1 + restarts + faults + late
    BY DEF RepeatsHaveCauses
  <2>1. ran[k] <= 1 + Causes /\ ran[k] \in Nat BY DEF Accounted, Inv, CountInv
  <2> QED BY <2>1, CausesRange DEF Inv, Total
<1> QED BY <1>1, <1>2, <1>3, InvStarts, PTL DEF Spec

=============================================================================
