--------------------------- MODULE StateMachine ----------------------------
(***************************************************************************)
(* The statemachine controller (main.go, engine.go) driving one Execution: *)
(* a poll lists the object, a goroutine claims or resumes it, walks its    *)
(* states with a checkpoint before each, and writes the terminal phase,    *)
(* while StopExecution, shutdowns, crashes and failing API calls happen.   *)
(* The workflow is a line of Steps states; a state is one unit of work     *)
(* (Task, Wait, Parallel, Map) whose result joins the data passed on.      *)
(***************************************************************************)
EXTENDS Integers

CONSTANTS
    Steps,          \* the number of states of the workflow
    MaxRestarts,    \* bound on shutdowns and crashes of the controller
    MaxFaults,      \* bound on failed API calls and failed tasks
    MaxLate         \* bound on goroutines that end between a list and its dispatch

ASSUME StateMachineAssumption ==
    /\ Steps \in Nat \ {0}
    /\ MaxRestarts \in Nat /\ MaxFaults \in Nat /\ MaxLate \in Nat

Step == 1 .. Steps
Terminal == {"Succeeded", "Failed", "Aborted"}
Phase == {"", "Running"} \union Terminal

VARIABLES
    phase, cur, data, stop,     \* status of the Execution: phase, currentState,
                                \* context, stopRequested
    output,     \* the output recorded with Succeeded
    creds,      \* the credentials Secret the shim writes after the Execution
    old,        \* the execution is older than credsGrace
    proc,       \* the controller process
    snap,       \* what reconcile listed and has yet to deal with
    go,         \* where the goroutine of the execution is
    e,          \* the Execution it was started with
    at, acc,    \* the state it is in and the data it carries
    res,        \* the outcome it is about to record
    canc,       \* StopExecution cancelled its context
    late,       \* how often one ended after its execution was listed
    ran,        \* how often the work of each state was done
    restarts, faults

object == <<phase, cur, data, stop, output, creds, old>>
driver == <<go, e, at, acc, res, canc, late>>
vars == <<object, proc, snap, driver, ran, restarts, faults>>

Status == [phase : Phase, cur : 0 .. Steps, data : SUBSET Step, stop : BOOLEAN]
Fresh == [phase |-> "", cur |-> 0, data |-> {}, stop |-> FALSE]
NoSnap == [phase |-> "none"]

TypeOK ==
    /\ phase \in Phase /\ cur \in 0 .. Steps /\ data \subseteq Step /\ stop \in BOOLEAN
    /\ output \subseteq Step /\ creds \in BOOLEAN /\ old \in BOOLEAN
    /\ proc \in {"up", "stopping", "down"}
    /\ snap \in Status \union {NoSnap}
    /\ go \in {"none", "born", "load", "claim", "enter", "work", "end", "final"}
    /\ e \in Status /\ at \in 0 .. Steps /\ acc \subseteq Step
    /\ res \in Terminal \union {"none"}
    /\ canc \in BOOLEAN /\ (canc => go # "none")
    /\ ran \in [Step -> Nat]
    /\ restarts \in 0 .. MaxRestarts /\ faults \in 0 .. MaxFaults
    /\ late \in 0 .. MaxLate

Init ==
    /\ phase = "" /\ cur = 0 /\ data = {} /\ stop = FALSE /\ output = {}
    /\ creds \in BOOLEAN /\ old = FALSE
    /\ proc = "up" /\ snap = NoSnap
    /\ go = "none" /\ e = Fresh /\ at = 0 /\ acc = {} /\ res = "none" /\ canc = FALSE
    /\ ran = [k \in Step |-> 0]
    /\ restarts = 0 /\ faults = 0 /\ late = 0

Fault == faults < MaxFaults /\ faults' = faults + 1
Cancelled == canc \/ proc = "stopping"

-----------------------------------------------------------------------------
(***************************************************************************)
(* The shim and the clock.                                                 *)
(***************************************************************************)

StoreCreds ==
    /\ ~ creds
    /\ creds' = TRUE
    /\ UNCHANGED <<phase, cur, data, stop, output, old, proc, snap, driver, ran, restarts, faults>>

GraceEnds ==
    /\ ~ old
    /\ old' = TRUE
    /\ UNCHANGED <<phase, cur, data, stop, output, creds, proc, snap, driver, ran, restarts, faults>>

\* stopExecution only sets a flag, in whatever phase the execution is.
StopExecution ==
    /\ ~ stop
    /\ stop' = TRUE
    /\ UNCHANGED <<phase, cur, data, output, creds, old, proc, snap, driver, ran, restarts, faults>>

-----------------------------------------------------------------------------
(***************************************************************************)
(* reconcile.                                                              *)
(***************************************************************************)

\* listAllExecutions answers.
List ==
    /\ proc = "up" /\ snap = NoSnap
    /\ snap' = [phase |-> phase, cur |-> cur, data |-> data, stop |-> stop]
    /\ UNCHANGED <<object, proc, driver, ran, restarts, faults>>

\* Mutant of Ended: a phase is missing from the list.
EndedButSucceeded(p) == p \in {"Failed", "Aborted"}

\* The phases reconcile passes over.
Ended(p) == p \in Terminal

\* A goroutine is registered in the active map.
Busy(g) == g # "none"

\* Nothing to do: the execution is over, is being driven, or was asked to stop
\* before its goroutine has registered the cancel function.
DispatchSkips ==
    /\ snap # NoSnap
    /\ \/ Ended(snap.phase)
       \/ ~ snap.stop /\ Busy(go)
       \/ snap.stop /\ go = "born"
    /\ snap' = NoSnap
    /\ UNCHANGED <<object, proc, driver, ran, restarts, faults>>

\* The goroutine's own context is cancelled.
DispatchCancels ==
    /\ snap # NoSnap /\ ~ Ended(snap.phase)
    /\ snap.stop /\ go \notin {"none", "born"}
    /\ canc' = TRUE
    /\ snap' = NoSnap
    /\ UNCHANGED <<object, proc, go, e, at, acc, res, late, ran, restarts, faults>>

\* Mutant of DispatchAborts: a stop nobody is there to receive is passed over.
DispatchForgets ==
    /\ snap # NoSnap /\ ~ Ended(snap.phase)
    /\ snap.stop /\ go = "none"
    /\ snap' = NoSnap
    /\ UNCHANGED <<object, proc, driver, ran, restarts, faults>>

\* Nothing is driving it: reconcile writes the terminal phase itself, if the
\* patch succeeds.
DispatchAborts ==
    /\ snap # NoSnap /\ ~ Ended(snap.phase)
    /\ snap.stop /\ go = "none"
    /\ \/ phase' = "Aborted" /\ cur' = 0 /\ faults' = faults
       \/ Fault /\ UNCHANGED <<phase, cur>>
    /\ snap' = NoSnap
    /\ UNCHANGED <<data, stop, output, creds, old, proc, driver, ran, restarts>>

\* Mutant of DispatchStarts: a stop requested in the list is not looked at.
DispatchStartsAnyway ==
    /\ snap # NoSnap /\ ~ Ended(snap.phase)
    /\ ~ Busy(go)
    /\ go' = "born" /\ e' = snap
    /\ snap' = NoSnap
    /\ UNCHANGED <<object, proc, at, acc, res, canc, late, ran, restarts, faults>>

\* Mutant of DispatchStarts: the active map is not consulted; a second goroutine
\* takes the place of the first.
DispatchStartsTwice ==
    /\ snap # NoSnap /\ ~ Ended(snap.phase)
    /\ ~ snap.stop
    /\ go' = "born" /\ e' = snap /\ at' = 0 /\ acc' = {} /\ res' = "none" /\ canc' = FALSE
    /\ snap' = NoSnap
    /\ UNCHANGED <<object, proc, late, ran, restarts, faults>>

\* A goroutine is started with the listed object, even while shutting down.
DispatchStarts ==
    /\ snap # NoSnap /\ ~ Ended(snap.phase)
    /\ ~ snap.stop /\ ~ Busy(go)
    /\ go' = "born" /\ e' = snap
    /\ snap' = NoSnap
    /\ UNCHANGED <<object, proc, at, acc, res, canc, late, ran, restarts, faults>>

-----------------------------------------------------------------------------
(***************************************************************************)
(* run, up to the engine.                                                  *)
(***************************************************************************)

\* The goroutine ends and leaves the active and cancels maps, whether or not its
\* execution was listed in the meantime and is yet to be dealt with.
Depart ==
    /\ IF snap = NoSnap THEN late' = late ELSE late < MaxLate /\ late' = late + 1
    /\ go' = "none" /\ e' = Fresh /\ at' = 0 /\ acc' = {} /\ res' = "none"
    /\ canc' = FALSE

\* The goroutine has outcome r to record.
Concludes(r) == go' = "final" /\ res' = r /\ UNCHANGED <<e, at, acc, canc, late>>

\* The cancel function is registered.
Register ==
    /\ go = "born"
    /\ go' = "load"
    /\ UNCHANGED <<object, proc, snap, e, at, acc, res, canc, late, ran,
                   restarts, faults>>

\* Reading the definition or the credentials fails, because the context is
\* cancelled or the API is not there: the execution is failed for good.
LoadFails ==
    /\ go = "load"
    /\ (Cancelled /\ faults' = faults) \/ Fault
    /\ Concludes("Failed")
    /\ UNCHANGED <<object, proc, snap, ran, restarts>>

\* The Secret is not there: a new execution is left for the next poll.
CredsPending ==
    /\ go = "load" /\ ~ creds
    /\ IF e.phase = "" /\ ~ old THEN Depart ELSE Concludes("Failed")
    /\ UNCHANGED <<object, proc, snap, ran, restarts, faults>>

\* Mutant of Resumed: the data of the checkpoint is not read back.
ResumedEmpty(x) == {}

\* The data a resumed execution goes on with.
Resumed(x) == x.data

LoadResumes ==
    /\ go = "load" /\ creds /\ e.phase = "Running"
    /\ go' = "enter" /\ at' = e.cur /\ acc' = Resumed(e)
    /\ UNCHANGED <<object, proc, snap, e, res, canc, late, ran, restarts,
                   faults>>

LoadClaims ==
    /\ go = "load" /\ creds /\ e.phase # "Running"
    /\ go' = "claim"
    /\ UNCHANGED <<object, proc, snap, e, at, acc, res, canc, late, ran,
                   restarts, faults>>

\* Running is written before any work is done.
Claim ==
    /\ go = "claim"
    /\ phase' = "Running" /\ cur' = 1 /\ data' = {}
    /\ go' = "enter" /\ at' = 1 /\ acc' = {}
    /\ UNCHANGED <<stop, output, creds, old, proc, snap, e, res, canc, late, ran, restarts,
                   faults>>

\* The claim is not confirmed; it may have reached the API all the same.
ClaimFails ==
    /\ go = "claim"
    /\ (Cancelled /\ faults' = faults) \/ Fault
    /\ \/ UNCHANGED <<phase, cur, data>>
       \/ phase' = "Running" /\ cur' = 1 /\ data' = {}
    /\ Depart
    /\ UNCHANGED <<stop, output, creds, old, proc, snap, ran, restarts>>

-----------------------------------------------------------------------------
(***************************************************************************)
(* Engine.Run.                                                             *)
(***************************************************************************)

\* Run returns with result r.
Returns(r) == go' = "end" /\ res' = r /\ UNCHANGED <<e, at, acc, canc, late>>

\* Cancellation is noticed between two states.
EnterCancelled ==
    /\ go = "enter" /\ Cancelled
    /\ Returns("Failed")
    /\ UNCHANGED <<object, proc, snap, ran, restarts, faults>>

\* Mutant of Saved: the checkpoint names the state after the one to be entered.
SavedNext(k) == IF k < Steps THEN k + 1 ELSE k

\* The state a checkpoint names: the one about to be entered.
Saved(k) == k

\* The checkpoint is written and the state entered.
Enter ==
    /\ go = "enter"
    /\ phase' = "Running" /\ cur' = Saved(at) /\ data' = acc
    /\ go' = "work"
    /\ UNCHANGED <<stop, output, creds, old, proc, snap, e, at, acc, res, canc, late, ran,
                   restarts, faults>>

\* The checkpoint is not confirmed, and the execution fails; it may have reached
\* the API all the same.
EnterFails ==
    /\ go = "enter"
    /\ (Cancelled /\ faults' = faults) \/ Fault
    /\ \/ UNCHANGED <<phase, cur, data>>
       \/ phase' = "Running" /\ cur' = Saved(at) /\ data' = acc
    /\ Returns("Failed")
    /\ UNCHANGED <<stop, output, creds, old, proc, snap, ran, restarts>>

Worked == ran' = [ran EXCEPT ![at] = @ + 1]

\* The work of a state is done, or its error caught: on to the next.
WorkAdvances ==
    /\ go = "work" /\ at < Steps
    /\ Worked
    /\ go' = "enter" /\ at' = at + 1 /\ acc' = acc \union {at}
    /\ UNCHANGED <<object, proc, snap, e, res, canc, late, restarts, faults>>

\* Mutant of WorkSucceeds: the execution ends after any state.
WorkSucceedsEarly ==
    /\ go = "work"
    /\ Worked
    /\ go' = "end" /\ res' = "Succeeded" /\ acc' = acc \union {at}
    /\ UNCHANGED <<object, proc, snap, e, at, canc, late, restarts, faults>>

\* The last state is done.
WorkSucceeds ==
    /\ go = "work" /\ at = Steps
    /\ Worked
    /\ go' = "end" /\ res' = "Succeeded" /\ acc' = acc \union {at}
    /\ UNCHANGED <<object, proc, snap, e, at, canc, late, restarts, faults>>

\* The work fails: Retry does it again, or nothing matches the error.
WorkFails ==
    /\ go = "work" /\ Fault
    /\ Worked
    /\ UNCHANGED driver \/ Returns("Failed")
    /\ UNCHANGED <<object, proc, snap, restarts>>

\* A cancelled context breaks the work off, with or without effect; a Catch
\* goes no further than the check between two states.
WorkCancelled ==
    /\ go = "work" /\ Cancelled
    /\ Worked \/ ran' = ran
    /\ Returns("Failed")
    /\ UNCHANGED <<object, proc, snap, restarts, faults>>

-----------------------------------------------------------------------------
(***************************************************************************)
(* run, after the engine.                                                  *)
(***************************************************************************)

\* Mutant of End: a shutdown is taken for the failure it interrupted the engine with.
EndFails ==
    /\ go = "end"
    /\ Concludes(IF canc THEN "Aborted" ELSE res)
    /\ UNCHANGED <<object, proc, snap, ran, restarts, faults>>

\* A shutdown leaves the execution Running; a stop makes it Aborted.
End ==
    /\ go = "end"
    /\ IF proc = "stopping" THEN Depart
       ELSE Concludes(IF canc THEN "Aborted" ELSE res)
    /\ UNCHANGED <<object, proc, snap, ran, restarts, faults>>

\* finalize: the terminal patch, on a context of its own.
Finalize ==
    /\ go = "final"
    /\ \/ /\ phase' = res /\ faults' = faults
          /\ cur' = IF at = 0 THEN cur ELSE 0
          /\ output' = IF res = "Succeeded" THEN acc ELSE output
       \/ Fault /\ UNCHANGED <<phase, cur, output>>
    /\ Depart
    /\ UNCHANGED <<data, stop, creds, old, proc, snap, ran, restarts>>

-----------------------------------------------------------------------------
(***************************************************************************)
(* The process.                                                            *)
(***************************************************************************)

\* SIGTERM cancels the controller's context; it waits for its goroutines.
Shutdown ==
    /\ proc = "up" /\ restarts < MaxRestarts
    /\ proc' = "stopping" /\ restarts' = restarts + 1
    /\ UNCHANGED <<object, snap, driver, ran, faults>>

Exit ==
    /\ proc = "stopping" /\ go = "none" /\ snap = NoSnap
    /\ proc' = "down"
    /\ UNCHANGED <<object, snap, driver, ran, restarts, faults>>

Crash ==
    /\ proc # "down" /\ restarts < MaxRestarts
    /\ proc' = "down" /\ restarts' = restarts + 1
    /\ snap' = NoSnap
    /\ go' = "none" /\ e' = Fresh /\ at' = 0 /\ acc' = {} /\ res' = "none" /\ canc' = FALSE
    /\ UNCHANGED <<object, late, ran, faults>>

Boot ==
    /\ proc = "down"
    /\ proc' = "up"
    /\ UNCHANGED <<object, snap, driver, ran, restarts, faults>>

-----------------------------------------------------------------------------
Dispatch ==
    DispatchSkips \/ DispatchCancels \/ DispatchAborts \/ DispatchStarts

\* What the goroutine does apart from the work of a state.
Goroutine ==
    \/ Register \/ LoadFails \/ CredsPending \/ LoadResumes \/ LoadClaims
    \/ Claim \/ ClaimFails \/ EnterCancelled \/ Enter \/ EnterFails
    \/ WorkCancelled \/ End \/ Finalize

Next ==
    \/ StoreCreds \/ GraceEnds \/ StopExecution
    \/ List \/ Dispatch \/ Goroutine
    \/ WorkAdvances \/ WorkSucceeds \/ WorkFails
    \/ Shutdown \/ Exit \/ Crash \/ Boot

\* The controller polls, runs and is restarted, and time passes; the work of a
\* state may hang, but not once its context is cancelled.  Polls are seconds
\* apart, so they never keep a goroutine from ending.
Fairness ==
    /\ WF_vars(List) /\ WF_vars(Dispatch) /\ SF_vars(Goroutine)
    /\ WF_vars(Exit) /\ WF_vars(Boot) /\ WF_vars(GraceEnds)

Spec == Init /\ [][Next]_vars /\ Fairness

-----------------------------------------------------------------------------
\* Succeeded means every state was worked through and the output carries all
\* their results, over any number of resumes.
SuccessIsComplete ==
    phase = "Succeeded" => output = Step /\ \A k \in Step : ran[k] > 0

\* A checkpoint stands for work done: every state before the one it names was
\* worked through and left its result in the saved data.
CheckpointIsTrue ==
    phase = "Running" => data = 1 .. cur - 1 /\ \A k \in data : ran[k] > 0

\* A state is worked again only for a reason: its failure, a restart of the
\* controller, an API call that failed, or a goroutine that ended between a list
\* and its dispatch, which starts the execution again from the listed checkpoint.
RepeatsHaveCauses == \A k \in Step : ran[k] <= 1 + restarts + faults + late

\* The phase an execution ended in is replaced only from a list taken before it
\* ended; and an execution that was stopped is never brought back, not even then.
TerminalIsFinal ==
    [][(phase \in Terminal /\ phase' # phase) => (late > 0 /\ phase # "Aborted")]_vars

\* An execution asked to stop ends, even one whose work hangs or whose
\* controller is restarted.
StopTakesEffect == stop ~> phase \in Terminal

\* Once the engine has an execution it fails only for a failed task or API call:
\* a shutdown, which interrupts the engine in the same way, is never recorded as
\* a failure.
ShutdownIsNoFailure ==
    [][(phase' = "Failed" /\ phase # "Failed" /\ at # 0) => (faults > 0)]_vars

\* So would any execution, if a shutdown did not break off loads as well.
RestartNeverFails == phase = "Failed" => faults > 0 \/ old

=============================================================================
