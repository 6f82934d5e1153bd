----------------------------- MODULE DeltaSync -----------------------------
(***************************************************************************)
(* The delta baseline of ONE one-way Sync Definition: which source records *)
(* a run reads when use_last_sync_date is on, which time stamp a run       *)
(* leaves behind, and whether a change of the source can slip through      *)
(* (orchestrator.py, audit.py, models.py, changes.py, sources.py,          *)
(* engine.py, retention.py).                                               *)
(*                                                                         *)
(* Rows are admitted, executed, recovered and pruned as in RunLifecycle;   *)
(* here only what the baseline depends on is kept of them: whether a row   *)
(* is a successful real run and its last_sync_at.  Recovery may strike any *)
(* row that is or was active, which covers its late writes.  The write     *)
(* options are on (create_new, update_existing), the filter is empty and   *)
(* the source has the configured time stamp field.                         *)
(***************************************************************************)
EXTENDS Naturals

CONSTANTS
  Key,        \* records of the source
  Engine,     \* processes executing the definition (RunLifecycle!OneEngine)
  MaxRuns,    \* bound: Sync Run rows
  MaxTime,    \* bound: the clock
  MaxVersion, \* bound: changes of one record
  Batched,    \* TRUE: the target is Frappe, written in batches with one commit;
              \* FALSE: the partner, whose connector commits every record
  None        \* no time stamp, no planned write, no run

Run == 1..MaxRuns
Time == 0..MaxTime
Version == 0..MaxVersion

ASSUME BoundAssumption ==
  MaxRuns \in Nat \ {0} /\ MaxTime \in Nat /\ MaxVersion \in Nat
ASSUME NoneAssumption == None \notin Nat
ASSUME FlagAssumption == Batched \in BOOLEAN

VARIABLES
  now,
  ver, mod,   \* source: content of each record and its effective modified
  punctual,   \* was the stamp of that change not older than its commit?
  copy,       \* target: the version it holds
  undo,       \* what it held before a write that is not committed yet, or None
  status,     \* rows: absent, queued, running, success, other, pruned
  real,       \* rows: not dry_run
  stamp,      \* rows: last_sync_at
  jobs,       \* rows whose execution has not begun
  lastSync,   \* Sync Definition.last_successful_sync
  run, started, base, todo, plan, failed  \* the run an engine is in

sourceVars == <<ver, mod, punctual>>
rowVars == <<status, real, stamp, jobs, lastSync>>
targetVars == <<copy, undo>>
engineVars == <<run, started, base, todo, plan, failed>>
vars == <<now, sourceVars, targetVars, rowVars, engineVars>>

TypeOK ==
  /\ now \in Time
  /\ ver \in [Key -> Version]
  /\ mod \in [Key -> Time \cup {None}]
  /\ punctual \in [Key -> BOOLEAN]
  /\ copy \in [Key -> Version]
  /\ undo \in [Key -> Version \cup {None}]
  /\ status \in [Run ->
       {"absent", "queued", "running", "success", "other", "pruned"}]
  /\ real \in [Run -> BOOLEAN]
  /\ stamp \in [Run -> Time \cup {None}]
  /\ jobs \subseteq Run
  /\ lastSync \in Time \cup {None}
  /\ run \in [Engine -> Run \cup {None}]
  /\ started \in [Engine -> Time]
  /\ base \in [Engine -> Time \cup {None}]
  /\ todo \in [Engine -> SUBSET Key]
  /\ plan \in [Engine -> [Key -> Version \cup {None}]]
  /\ failed \in [Engine -> BOOLEAN]

\* The target starts as an exact copy: what matters is what changes afterwards.
Init ==
  /\ now = 0
  /\ ver = [k \in Key |-> 0]
  /\ mod = [k \in Key |-> 0]
  /\ punctual = [k \in Key |-> TRUE]
  /\ copy = [k \in Key |-> 0]
  /\ undo = [k \in Key |-> None]
  /\ status = [r \in Run |-> "absent"]
  /\ real = [r \in Run |-> FALSE]
  /\ stamp = [r \in Run |-> None]
  /\ jobs = {}
  /\ lastSync = None
  /\ run = [e \in Engine |-> None]
  /\ started = [e \in Engine |-> 0]
  /\ base = [e \in Engine |-> None]
  /\ todo = [e \in Engine |-> {}]
  /\ plan = [e \in Engine |-> [k \in Key |-> None]]
  /\ failed = [e \in Engine |-> FALSE]

-----------------------------------------------------------------------------
(* The source and the clock *)

Tick ==
  /\ now < MaxTime
  /\ now' = now + 1
  /\ UNCHANGED <<sourceVars, targetVars, rowVars, engineVars>>

\* A record changes and the change becomes visible.  Its stamp was taken by the
\* writer: now, earlier (a transaction open for a while, a partner clock that is
\* behind), later (a clock that is ahead), or not at all.
Change(k) ==
  /\ ver[k] < MaxVersion
  /\ ver' = [ver EXCEPT ![k] = @ + 1]
  /\ \E m \in Time \cup {None} :
       /\ mod' = [mod EXCEPT ![k] = m]
       /\ punctual' = [punctual EXCEPT ![k] = m # None /\ m >= now]
  /\ UNCHANGED <<now, targetVars, rowVars, engineVars>>

-----------------------------------------------------------------------------
(* The baseline *)

Successes == {r \in Run : status[r] = "success" /\ real[r]}

\* _get_last_successful_sync: last_sync_at of the newest row by creation that is
\* a successful real run, otherwise the definition's field.
IsBaseline(b) ==
  IF Successes = {} THEN b = lastSync
  ELSE \E r \in Successes : (\A q \in Successes : q <= r) /\ b = stamp[r]

\* (mutated: a record changed at the baseline is skipped)
ChangedAfter(k, b) == b = None \/ (mod[k] # None /\ mod[k] > b)

\* _record_changed_since: with a baseline, only a record with a stamp at or
\* after it is read.
ChangedSince(k, b) == b = None \/ (mod[k] # None /\ mod[k] >= b)

-----------------------------------------------------------------------------
(* One run *)

\* A Queued row with its job, created in the order of the names.
Admit(r) ==
  /\ status[r] = "absent" /\ \A q \in Run : q < r => status[q] # "absent"
  /\ status' = [status EXCEPT ![r] = "queued"]
  /\ \E real_run \in BOOLEAN : real' = [real EXCEPT ![r] = real_run]
  /\ jobs' = jobs \cup {r}
  /\ UNCHANGED <<now, sourceVars, targetVars, stamp, lastSync, engineVars>>

\* The job begins: run_started_at first, then the baseline, then the reads.  The
\* row may have been ended by recovery in the meantime.
Begin(e, r) ==
  /\ run[e] = None /\ r \in jobs /\ status[r] # "pruned"
  /\ jobs' = jobs \ {r}
  /\ status' = [status EXCEPT ![r] = "running"]
  /\ run' = [run EXCEPT ![e] = r]
  /\ started' = [started EXCEPT ![e] = now]
  /\ \E b \in Time \cup {None} : IsBaseline(b) /\ base' = [base EXCEPT ![e] = b]
  /\ todo' = [todo EXCEPT ![e] = Key]
  /\ UNCHANGED <<now, sourceVars, targetVars, real, stamp, lastSync, plan,
                 failed>>

\* A source batch is read: the records of the batch that pass the filter are
\* planned with the content read now.
Read(e, k) ==
  /\ run[e] # None /\ k \in todo[e]
  /\ todo' = [todo EXCEPT ![e] = @ \ {k}]
  /\ plan' = IF ChangedSince(k, base[e])
             THEN [plan EXCEPT ![e][k] = ver[k]] ELSE plan
  /\ UNCHANGED <<now, sourceVars, targetVars, rowVars, run, started, base,
                 failed>>

\* A planned record is written, or only audited by a dry run.
Write(e, k) ==
  /\ run[e] # None /\ plan[e][k] # None
  /\ IF real[run[e]]
     THEN /\ copy' = [copy EXCEPT ![k] = plan[e][k]]
          /\ undo' = IF Batched /\ undo[k] = None
                     THEN [undo EXCEPT ![k] = copy[k]] ELSE undo
     ELSE UNCHANGED targetVars
  /\ plan' = [plan EXCEPT ![e][k] = None]
  /\ UNCHANGED <<now, sourceVars, rowVars, run, started, base, todo, failed>>

\* A planned record fails or is left for review; the run goes on.
RecordFails(e, k) ==
  /\ run[e] # None /\ plan[e][k] # None
  /\ plan' = [plan EXCEPT ![e][k] = None]
  /\ failed' = [failed EXCEPT ![e] = TRUE]
  /\ UNCHANGED <<now, sourceVars, targetVars, rowVars, run, started, base,
                 todo>>

Settled == [k \in Key |-> None]

\* _flush_pending_run_writes commits the batch.
Flush(e) ==
  /\ run[e] # None /\ undo # Settled
  /\ undo' = Settled
  /\ UNCHANGED <<now, sourceVars, copy, rowVars, engineVars>>

Leave(e) ==
  /\ run' = [run EXCEPT ![e] = None]
  /\ started' = [started EXCEPT ![e] = 0]
  /\ base' = [base EXCEPT ![e] = None]
  /\ todo' = [todo EXCEPT ![e] = {}]
  /\ plan' = [plan EXCEPT ![e] = [k \in Key |-> None]]
  /\ failed' = [failed EXCEPT ![e] = FALSE]

\* (mutated: a status no Select option knows)
EndedAsUnknown(success) == IF success THEN "success" ELSE "failed"

\* _terminal_status_for_result: Success, or one of the others.
EndedAs(success) == IF success THEN "success" ELSE "other"

\* (mutated: the stamp is taken when the run ends)
SyncStampAtEnd(e, success) ==
  IF success /\ real[run[e]] THEN now ELSE None

\* last_sync_at and last_successful_sync: the START of a successful real run.
SyncStamp(e, success) ==
  IF success /\ real[run[e]] THEN started[e] ELSE None

\* Success only without a failed and without an unresolved record.
Finish(e) ==
  /\ run[e] # None /\ todo[e] = {} /\ \A k \in Key : plan[e][k] = None
  /\ LET success == ~failed[e]
         sync == SyncStamp(e, success)
     IN /\ status' = [status EXCEPT ![run[e]] = EndedAs(success)]
        /\ stamp' = [stamp EXCEPT ![run[e]] = sync]
        /\ lastSync' = IF sync = None THEN lastSync ELSE sync
  /\ undo' = Settled
  /\ Leave(e)
  /\ UNCHANGED <<now, sourceVars, copy, real, jobs>>

\* The run ends early.  An exception writes Error and commits what the batch
\* holds; after a job timeout the connection is discarded first, and a killed
\* process writes nothing: both lose the open batch.
Abort(e) ==
  /\ run[e] # None
  /\ \/ /\ status' = [status EXCEPT ![run[e]] = "other"]
        /\ UNCHANGED copy
     \/ /\ status' \in {[status EXCEPT ![run[e]] = "other"], status}
        /\ copy' = [k \in Key |-> IF undo[k] = None THEN copy[k] ELSE undo[k]]
  /\ undo' = Settled
  /\ Leave(e)
  /\ UNCHANGED <<now, sourceVars, real, stamp, jobs, lastSync>>

-----------------------------------------------------------------------------
(* Housekeeping *)

\* recover_stale_runs ends a row it selected while it was active, possibly after
\* the row was finished; stamp and last_successful_sync stay.
Recover(r) ==
  /\ status[r] \in {"queued", "running", "success"}
  /\ status' = [status EXCEPT ![r] = "other"]
  /\ UNCHANGED <<now, sourceVars, targetVars, real, stamp, jobs, lastSync,
                 engineVars>>

\* cleanup_sync_run_retention deletes an old row that is done.
Prune(r) ==
  /\ status[r] \in {"success", "other"} /\ \A e \in Engine : run[e] # r
  /\ status' = [status EXCEPT ![r] = "pruned"]
  /\ UNCHANGED <<now, sourceVars, targetVars, real, stamp, jobs, lastSync,
                 engineVars>>

Next ==
  \/ Tick
  \/ \E k \in Key : Change(k)
  \/ \E r \in Run : Admit(r) \/ Recover(r) \/ Prune(r)
  \/ \E e \in Engine :
       \/ \E r \in Run : Begin(e, r)
       \/ \E k \in Key : Read(e, k) \/ Write(e, k) \/ RecordFails(e, k)
       \/ Flush(e) \/ Finish(e) \/ Abort(e)

Spec == Init /\ [][Next]_vars

-----------------------------------------------------------------------------
(* Properties *)

\* A change the target does not have yet and whose stamp was not older than its
\* commit is still selected by the baseline the next run will use: runs that
\* fail, crash, are recovered, run dry, are pruned or execute out of order never
\* move the baseline past it.
NoLostChange ==
  \A b \in Time \cup {None}, k \in Key :
    IsBaseline(b) /\ copy[k] # ver[k] /\ punctual[k]
      => b = None \/ mod[k] >= b

=============================================================================
