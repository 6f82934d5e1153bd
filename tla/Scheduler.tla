------------------------------ MODULE Scheduler ------------------------------
(***************************************************************************)
(* The schedule of ALL enabled Sync Definitions: which ones the cron entry *)
(* run_due_sync_definitions_scheduled finds due, in which order it asks    *)
(* for their runs, what stops it, and how the end of a run plans the next  *)
(* one (scheduler.py, scheduling.py, orchestrator.py, management.py).      *)
(*                                                                         *)
(* Time is abstracted to what the code compares: next_run_at is unset, in  *)
(* the future or past, and a finished row is, or is not, more recent than  *)
(* the previous moment of the cron expression.  The moments themselves are *)
(* the action CronMoment.  What one run does inside is RunLifecycle; here  *)
(* it is queued, executing (its lock is held to the end), or left behind.  *)
(***************************************************************************)
EXTENDS Naturals, Sequences, SequencesExt

CONSTANTS
  Def,         \* the enabled definitions
  Order,       \* the order frappe.get_all returns them in
  Limit,       \* the limit argument (20)
  MaxManual,   \* bound: runs users start
  MaxCrashes   \* bound: processes killed, jobs lost

ASSUME OrderAssumption ==
  /\ Order \in Seq(Def) /\ Len(Order) > 0
  /\ \A d \in Def : \E i \in 1..Len(Order) : Order[i] = d
ASSUME BoundAssumption ==
  Limit \in Nat \ {0} /\ MaxManual \in Nat /\ MaxCrashes \in Nat

VARIABLES
  next,     \* next_run_at of each definition: "none", "future" or "past"
  ran,      \* is a row that is done at least as recent as the last cron moment?
  run,      \* the active row of each definition, see RunState
  phase,    \* the scheduler job: "asleep", "list" or "loop"
  todo,     \* the due definitions it has not asked for yet
  manual, crashes

vars == <<next, ran, run, phase, todo, manual, crashes>>
planVars == <<next, ran>>
jobVars == <<phase, todo>>

\* orphan: the process was killed and its lease still runs; lost: the row is
\* active, nobody works for it and the lock is free; stale: recovery may end it.
RunState == {"none", "queued", "executing", "orphan", "lost", "stale"}

TypeOK ==
  /\ next \in [Def -> {"none", "future", "past"}]
  /\ ran \in [Def -> BOOLEAN]
  /\ run \in [Def -> RunState]
  /\ phase \in {"asleep", "list", "loop"}
  /\ todo \in Seq(Def) /\ Len(todo) <= Limit
  /\ manual \in 0..MaxManual
  /\ crashes \in 0..MaxCrashes

\* New definitions: never run, nothing planned.
Init ==
  /\ next = [d \in Def |-> "none"]
  /\ ran = [d \in Def |-> FALSE]
  /\ run = [d \in Def |-> "none"]
  /\ phase = "asleep" /\ todo = <<>>
  /\ manual = 0 /\ crashes = 0

-----------------------------------------------------------------------------
(* Time and housekeeping *)

\* A moment of the definition's cron expression passes.
CronMoment(d) ==
  /\ ran[d] \/ next[d] = "future"
  /\ ran' = [ran EXCEPT ![d] = FALSE]
  /\ next' = [next EXCEPT ![d] = IF @ = "future" THEN "past" ELSE @]
  /\ UNCHANGED <<run, jobVars, manual, crashes>>

\* cleanup_sync_run_retention has deleted every finished row: the retention
\* period was shorter than the distance of two cron moments.
Prune(d) ==
  /\ ran[d]
  /\ ran' = [ran EXCEPT ![d] = FALSE]
  /\ UNCHANGED <<next, run, jobVars, manual, crashes>>

Move(d, from, to) == run[d] = from /\ run' = [run EXCEPT ![d] = to]

\* The lease of a killed process runs out; a row nobody works for turns stale.
LeaseEnds(d) ==
  /\ Move(d, "orphan", "lost")
  /\ UNCHANGED <<planVars, jobVars, manual, crashes>>

TurnStale(d) ==
  /\ Move(d, "lost", "stale")
  /\ UNCHANGED <<planVars, jobVars, manual, crashes>>

-----------------------------------------------------------------------------
(* The scheduler job: run_due_sync_definitions_scheduled *)

\* (mutated: without recover_stale_runs)
WakeOnly ==
  /\ phase = "asleep"
  /\ phase' = "list"
  /\ UNCHANGED <<planVars, run, todo, manual, crashes>>

\* recover_stale_runs comes first.  The recovered rows are done and finished now.
Wake ==
  /\ phase = "asleep"
  /\ run' = [d \in Def |-> IF run[d] = "stale" THEN "none" ELSE run[d]]
  /\ ran' = [d \in Def |-> ran[d] \/ run[d] = "stale"]
  /\ phase' = "list"
  /\ UNCHANGED <<next, todo, manual, crashes>>

\* list_due_sync_definitions: the planned moment has passed, or no row that is
\* done is as recent as the last cron moment (_is_due_by_cron).
IsDue(d) == next[d] = "past" \/ ~ran[d]

List ==
  /\ phase = "list"
  /\ LET due == SelectSeq(Order, IsDue)
     IN todo' = SubSeq(due, 1, IF Len(due) < Limit THEN Len(due) ELSE Limit)
  /\ phase' = "loop"
  /\ UNCHANGED <<planVars, run, manual, crashes>>

Locked(d) == run[d] \in {"executing", "orphan"}

\* enqueue_sync_definition for the next one: a new run, or already_running.
Visit ==
  /\ phase = "loop" /\ todo # <<>> /\ ~Locked(Head(todo))
  /\ run' = [run EXCEPT ![Head(todo)] = IF @ = "none" THEN "queued" ELSE @]
  /\ todo' = Tail(todo)
  /\ UNCHANGED <<planVars, phase, manual, crashes>>

\* (mutated: a phase the job does not know)
GiveUpFailed ==
  /\ phase = "loop" /\ todo # <<>> /\ Locked(Head(todo))
  /\ phase' = "failed" /\ todo' = <<>>
  /\ UNCHANGED <<planVars, run, manual, crashes>>

\* The lock could not be had within 10 seconds: LockError ends the whole job.
GiveUp ==
  /\ phase = "loop" /\ todo # <<>> /\ Locked(Head(todo))
  /\ phase' = "asleep" /\ todo' = <<>>
  /\ UNCHANGED <<planVars, run, manual, crashes>>

Sleep ==
  /\ phase = "loop" /\ todo = <<>>
  /\ phase' = "asleep"
  /\ UNCHANGED <<planVars, run, todo, manual, crashes>>

-----------------------------------------------------------------------------
(* Runs *)

\* A user starts a run, real or dry.
Manual(d) ==
  /\ manual < MaxManual /\ Move(d, "none", "queued")
  /\ manual' = manual + 1
  /\ UNCHANGED <<planVars, jobVars, crashes>>

Start(d) ==
  /\ Move(d, "queued", "executing")
  /\ UNCHANGED <<planVars, jobVars, manual, crashes>>

\* The engine returned: the row is done and _set_next_run_at plans the next
\* moment, after a dry run too.
Complete(d) ==
  /\ Move(d, "executing", "none")
  /\ ran' = [ran EXCEPT ![d] = TRUE]
  /\ next' = [next EXCEPT ![d] = "future"]
  /\ UNCHANGED <<jobVars, manual, crashes>>

\* The engine raised: the row is done, the plan is as it was.
Fail(d) ==
  /\ Move(d, "executing", "none")
  /\ ran' = [ran EXCEPT ![d] = TRUE]
  /\ UNCHANGED <<next, jobVars, manual, crashes>>

\* A worker is killed, or a job never reaches one.
Crash(d) ==
  /\ crashes < MaxCrashes
  /\ Move(d, "executing", "orphan") \/ Move(d, "queued", "lost")
  /\ crashes' = crashes + 1
  /\ UNCHANGED <<planVars, jobVars, manual>>

Job == Wake \/ List \/ Visit \/ GiveUp \/ Sleep

\* What a row that was admitted goes through without anybody's help.
Advance(d) == Start(d) \/ Complete(d) \/ Fail(d) \/ LeaseEnds(d) \/ TurnStale(d)

Next ==
  \/ Job
  \/ \E d \in Def :
       \/ Advance(d) \/ CronMoment(d) \/ Prune(d) \/ Manual(d) \/ Crash(d)

Spec == Init /\ [][Next]_vars

\* hooks.py calls the job every five minutes; the workers of the long queue take
\* every job and every job ends (its timeout), leases and stale periods run out,
\* and the moments of a cron expression recur.
Fairness ==
  /\ WF_vars(Job)
  /\ \A d \in Def : WF_vars(Advance(d)) /\ WF_vars(CronMoment(d))

FairSpec == Spec /\ Fairness

-----------------------------------------------------------------------------
(* Properties *)

\* A due definition is executed sooner or later, however the runs of the others
\* fail, however often a LockError ends the job before its turn, and although
\* jobs are lost (the recovered row of a lost job counts as a run, so that the
\* next try may have to wait for the next cron moment): provided that the limit
\* is not smaller than the number of definitions and that users start finitely
\* many runs.
EveryDueDefinitionRuns == \A d \in Def : IsDue(d) ~> run[d] = "executing"

=============================================================================
