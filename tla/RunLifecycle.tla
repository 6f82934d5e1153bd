---------------------------- MODULE RunLifecycle ----------------------------
(***************************************************************************)
(* The life of the Sync Run rows of ONE Sync Definition: the entry points  *)
(* that admit a run, the background job that executes it, the Redis lock   *)
(* around both, the recovery of stale runs and the definition's last_run   *)
(* fields (orchestrator.py, audit.py, management.py, scheduler.py).        *)
(*                                                                         *)
(* A process is a web request, a scheduler job or a background worker.     *)
(* Redis, RQ and the database are external: the lock is a lease with an    *)
(* owner token, a job is delivered to one worker at most once, and a plain *)
(* read inside an open transaction sees the snapshot of that transaction   *)
(* (repeatable read), as the comment at management.py:161 says it does.    *)
(*                                                                         *)
(* Time is counted in ticks (with the shipped values one tick is an hour:  *)
(* LockTimeout = 2, StaleTimeout = 3).  Only idle processes and running    *)
(* engines let time pass: every other section is a few statements, or      *)
(* waits at most the 10 seconds of blocking_timeout.                       *)
(***************************************************************************)
EXTENDS Naturals, FiniteSets

CONSTANTS
  Proc,           \* processes that may touch the definition
  MaxRuns,        \* bound: Sync Run rows ever created
  MaxCrashes,     \* bound: processes killed
  LockTimeout,    \* SYNC_DEFINITION_LOCK_TIMEOUT_SECONDS, in ticks
  StaleTimeout,   \* stale_run_timeout_minutes, in ticks; also the job timeout
  DryRuns,        \* values of the dry_run argument callers pass
  None,           \* no run, no lock owner
  Dead            \* the token of a process killed while it held the lock

ASSUME ProcAssumption == None \notin Proc /\ Dead \notin Proc /\ None # Dead
ASSUME BoundAssumption == MaxRuns \in Nat \ {0} /\ MaxCrashes \in Nat
ASSUME TimeAssumption ==
  LockTimeout \in Nat \ {0} /\ StaleTimeout \in Nat \ {0}
ASSUME DryRunAssumption == DryRuns \subseteq BOOLEAN
ASSUME NoneAssumption == None \notin 1..MaxRuns

Run == 1..MaxRuns      \* row names, in the order of creation

Active == {"Queued", "Running"}
EngineOutcome == {"Success", "Partial Error", "Needs Review"}
Status == {"Absent", "Error", "Skipped"} \cup Active \cup EngineOutcome

VARIABLES
  status,      \* status[r] of the Sync Run row, "Absent" before its insert
  dry,         \* dry_run[r]
  idle,        \* ticks since modified[r], saturated at StaleTimeout
  jobs,        \* runs whose background job waits in RQ
  lastRun,     \* Sync Definition.last_run
  lastStatus,  \* Sync Definition.last_run_status
  owner, ttl,  \* the Redis lock sync:lock:<definition> and its remaining lease
  pc, my,      \* where each process is, and the run it works for
  seen,        \* the rows' status in the snapshot of its open transaction
  spent,       \* ticks its engine has been running
  stale,       \* the active rows its recovery selected, with their status
  crashes

vars == <<status, dry, idle, jobs, lastRun, lastStatus, owner, ttl,
          pc, my, seen, spent, stale, crashes>>
rowVars == <<status, dry, idle>>
defVars == <<lastRun, lastStatus>>
lockVars == <<owner, ttl>>

Location ==
  {"idle", "enqWait", "enqCheck", "enqCreate", "enqUnlock", "enqSubmit",
   "execWait", "runCheck", "runCreate", "start", "engine", "unlock",
   "recover"}

TypeOK ==
  /\ status \in [Run -> Status]
  /\ dry \in [Run -> BOOLEAN]
  /\ idle \in [Run -> 0..StaleTimeout]
  /\ jobs \subseteq Run
  /\ lastRun \in Run \cup {None}
  /\ lastStatus \in Status
  /\ owner \in Proc \cup {None, Dead}
  /\ ttl \in 0..LockTimeout
  /\ pc \in [Proc -> Location]
  /\ my \in [Proc -> Run \cup {None}]
  /\ seen \in [Proc -> [Run -> Status]]
  /\ spent \in [Proc -> 0..StaleTimeout]
  /\ stale \in [Proc -> SUBSET (Run \X Active)]
  /\ crashes \in 0..MaxCrashes

\* No row is in sight: the table when it is empty, and a process without an
\* open transaction.
NoRows == [r \in Run |-> "Absent"]

Init ==
  /\ status = NoRows
  /\ dry = [r \in Run |-> FALSE]
  /\ idle = [r \in Run |-> 0]
  /\ jobs = {}
  /\ lastRun = None /\ lastStatus = "Absent"
  /\ owner = None /\ ttl = 0
  /\ pc = [p \in Proc |-> "idle"]
  /\ my = [p \in Proc |-> None]
  /\ seen = [p \in Proc |-> NoRows]
  /\ spent = [p \in Proc |-> 0]
  /\ stale = [p \in Proc |-> {}]
  /\ crashes = 0

-----------------------------------------------------------------------------
(* Helpers *)

\* _has_active_run on the committed rows.
HasActiveRun == \E r \in Run : status[r] \in Active

\* A row that may still be inserted: the next name in creation order.
Fresh(r) == status[r] = "Absent" /\ \A q \in Run : q < r => status[q] # "Absent"
Room == \E r \in Run : Fresh(r)

Go(p, l) == pc' = [pc EXCEPT ![p] = l]

\* Leaving for "idle" forgets everything the process knew.
Return(p) ==
  /\ Go(p, "idle")
  /\ my' = [my EXCEPT ![p] = None]
  /\ seen' = [seen EXCEPT ![p] = NoRows]
  /\ spent' = [spent EXCEPT ![p] = 0]
  /\ stale' = [stale EXCEPT ![p] = {}]

\* (mutated: the lease is shorter than the work it protects)
AcquireMinutes(p) == owner = None /\ owner' = p /\ ttl' = 1

\* Lock.acquire: succeeds only on a free key, with a fresh lease.
Acquire(p) == owner = None /\ owner' = p /\ ttl' = LockTimeout

\* Lock.release: only the owner's token deletes the key; a process whose lease
\* ran out gets LockNotOwnedError, which changes nothing.
Release(p) ==
  IF owner = p THEN owner' = None /\ ttl' = 0 ELSE UNCHANGED lockVars

\* (mutated: a status no Select option knows)
RecoveredStatusLower(st) == IF st = "Queued" THEN "skipped" ELSE "error"

\* _stale_run_terminal_status without a requested status (no caller gives one).
RecoveredStatus(st) == IF st = "Queued" THEN "Skipped" ELSE "Error"

\* _terminal_status_for_result.
TerminalStatus(errors, conflicts) ==
  CASE errors -> "Partial Error"
    [] ~errors /\ conflicts -> "Needs Review"
    [] OTHER -> "Success"

\* (mutated: only a success reaches the definition)
UpdateDefinitionOnSuccess(r, st) ==
  IF dry[r] \/ st # "Success" THEN UNCHANGED defVars
  ELSE lastRun' = r /\ lastStatus' = st

\* last_run and last_run_status are written by real runs only.
UpdateDefinition(r, st) ==
  IF dry[r] THEN UNCHANGED defVars ELSE lastRun' = r /\ lastStatus' = st

-----------------------------------------------------------------------------
(* Admission: enqueue_sync_definition *)

\* A caller opens its transaction with its first reads (the permission checks
\* of api.py, list_due_sync_definitions in the scheduler) and then asks for the
\* lock: the rows as they are now are what its later reads will see.
OpenEnqueue(p) ==
  /\ pc[p] = "idle" /\ Room
  /\ seen' = [seen EXCEPT ![p] = status]
  /\ Go(p, "enqWait")
  /\ UNCHANGED <<rowVars, jobs, defVars, lockVars, my, spent, stale, crashes>>

EnqueueLock(p) ==
  /\ pc[p] = "enqWait" /\ Room
  /\ Acquire(p)
  /\ Go(p, "enqCheck")
  /\ UNCHANGED <<rowVars, jobs, defVars, my, seen, spent, stale, crashes>>

\* blocking_timeout ran out: LockError reaches the caller, no run is created.
LockError(p) ==
  /\ pc[p] \in {"enqWait", "execWait"}
  /\ owner # None \/ (my[p] = None /\ ~Room)   \* bound: or no name is left
  /\ Return(p)
  /\ UNCHANGED <<rowVars, jobs, defVars, lockVars, crashes>>

\* (mutated: a Queued row does not count as active)
SeesRunningRun(p) == \E r \in Run : seen[p][r] = "Running"

\* _has_active_run in the transaction of p, opened before p had the lock.
SeesActiveRun(p) == \E r \in Run : seen[p][r] \in Active

\* already_running when a run is active, otherwise on to the insert.
Check(p, from, create) ==
  /\ pc[p] = from
  /\ Go(p, IF SeesActiveRun(p) THEN "unlock" ELSE create)
  /\ UNCHANGED <<rowVars, jobs, defVars, lockVars, my, seen, spent, stale,
                 crashes>>

EnqueueCheck(p) == Check(p, "enqCheck", "enqCreate")

\* _create_run_doc: insert and commit a Queued row, which ends the transaction.
Create(p, from, next) ==
  /\ pc[p] = from
  /\ \E r \in Run, d \in DryRuns :
       /\ Fresh(r)
       /\ status' = [status EXCEPT ![r] = "Queued"]
       /\ dry' = [dry EXCEPT ![r] = d]
       /\ idle' = [idle EXCEPT ![r] = 0]
       /\ my' = [my EXCEPT ![p] = r]
  /\ seen' = [seen EXCEPT ![p] = NoRows]
  /\ Go(p, next)
  /\ UNCHANGED <<jobs, defVars, lockVars, spent, stale, crashes>>

EnqueueCreate(p) == Create(p, "enqCreate", "enqUnlock")

\* The with block ends; queue=False executes in this process, otherwise the job
\* is submitted.
EnqueueUnlock(p) ==
  /\ pc[p] = "enqUnlock"
  /\ Release(p)
  /\ \E next \in {"enqSubmit", "execWait"} : Go(p, next)
  /\ UNCHANGED <<rowVars, jobs, defVars, my, seen, spent, stale, crashes>>

\* The row gets its job_id (and its status is written again), then the job is
\* pushed to RQ.
Submit(p) ==
  /\ pc[p] = "enqSubmit"
  /\ status' = [status EXCEPT ![my[p]] = "Queued"]
  /\ jobs' = jobs \cup {my[p]}
  /\ Return(p)
  /\ UNCHANGED <<dry, idle, defVars, lockVars, crashes>>

-----------------------------------------------------------------------------
(* Execution: run_sync_definition_job and execute_sync_definition *)

\* (mutated: a job stays in the queue after its delivery)
DequeueAgain(p) ==
  /\ pc[p] = "idle"
  /\ \E r \in jobs : my' = [my EXCEPT ![p] = r]
  /\ Go(p, "execWait")
  /\ UNCHANGED <<rowVars, jobs, defVars, lockVars, seen, spent, stale, crashes>>

\* A worker takes a job; RQ hands it out once.
Dequeue(p) ==
  /\ pc[p] = "idle"
  /\ \E r \in jobs :
       /\ jobs' = jobs \ {r}
       /\ my' = [my EXCEPT ![p] = r]
  /\ Go(p, "execWait")
  /\ UNCHANGED <<rowVars, defVars, lockVars, seen, spent, stale, crashes>>

\* run_sync_now: no row yet, the transaction is already open.
RunNow(p) ==
  /\ pc[p] = "idle" /\ Room
  /\ seen' = [seen EXCEPT ![p] = status]
  /\ Go(p, "execWait")
  /\ UNCHANGED <<rowVars, jobs, defVars, lockVars, my, spent, stale, crashes>>

\* (mutated: the job runs without taking the lock)
ExecuteUnlocked(p) ==
  /\ pc[p] = "execWait" /\ (my[p] = None => Room)
  /\ Go(p, IF my[p] = None THEN "runCheck" ELSE "start")
  /\ UNCHANGED <<rowVars, jobs, defVars, lockVars, my, seen, spent, stale,
                 crashes>>

\* With a run name the status of the row is not looked at again.
ExecuteLock(p) ==
  /\ pc[p] = "execWait" /\ (my[p] = None => Room)
  /\ Acquire(p)
  /\ Go(p, IF my[p] = None THEN "runCheck" ELSE "start")
  /\ UNCHANGED <<rowVars, jobs, defVars, my, seen, spent, stale, crashes>>

RunCheck(p) == Check(p, "runCheck", "runCreate")
RunCreate(p) == Create(p, "runCreate", "start")

\* Running is committed with update_modified=False: the row's idle time goes on.
Start(p) ==
  /\ pc[p] = "start"
  /\ status' = [status EXCEPT ![my[p]] = "Running"]
  /\ Go(p, "engine")
  /\ UNCHANGED <<dry, idle, jobs, defVars, lockVars, my, seen, spent, stale,
                 crashes>>

\* _flush_pending_run_writes: a batch is committed and the activity stamped.
Flush(p) ==
  /\ pc[p] = "engine"
  /\ idle' = [idle EXCEPT ![my[p]] = 0]
  /\ UNCHANGED <<status, dry, jobs, defVars, lockVars, pc, my, seen, spent,
                 stale, crashes>>

\* Both ends write the row, the definition unless dry_run, and commit once.
End(p, st) ==
  /\ pc[p] = "engine"
  /\ status' = [status EXCEPT ![my[p]] = st]
  /\ UpdateDefinition(my[p], st)
  /\ Go(p, "unlock")
  /\ UNCHANGED <<dry, idle, jobs, lockVars, my, seen, spent, stale, crashes>>

\* The engine returned its counters.
Finish(p) ==
  \E errors, conflicts \in BOOLEAN : End(p, TerminalStatus(errors, conflicts))

\* The engine raised, JobTimeoutException included.
Fail(p) == End(p, "Error")

Unlock(p) ==
  /\ pc[p] = "unlock"
  /\ Release(p)
  /\ Return(p)
  /\ UNCHANGED <<rowVars, jobs, defVars, crashes>>

-----------------------------------------------------------------------------
(* Recovery: recover_stale_runs *)

\* (mutated: a Queued row is never stale)
StaleRunning == {r \in Run : status[r] = "Running" /\ idle[r] >= StaleTimeout}

StaleRows == {r \in Run : status[r] \in Active /\ idle[r] >= StaleTimeout}

\* The rows are selected by one read ...
RecoverRead(p) ==
  /\ pc[p] = "idle" /\ StaleRows # {}
  /\ stale' = [stale EXCEPT ![p] = {<<r, status[r]>> : r \in StaleRows}]
  /\ Go(p, "recover")
  /\ UNCHANGED <<rowVars, jobs, defVars, lockVars, my, seen, spent, crashes>>

\* ... and ended by one commit later, without the lock and without a second
\* look; the definition keeps the last one in creation order, dry or not.
RecoverWrite(p) ==
  /\ pc[p] = "recover"
  /\ status' = [r \in Run |->
       IF <<r, "Queued">> \in stale[p] THEN RecoveredStatus("Queued")
       ELSE IF <<r, "Running">> \in stale[p] THEN RecoveredStatus("Running")
       ELSE status[r]]
  /\ \E last \in stale[p] :
       /\ \A other \in stale[p] : other[1] <= last[1]
       /\ lastRun' = last[1]
       /\ lastStatus' = RecoveredStatus(last[2])
  /\ Return(p)
  /\ UNCHANGED <<dry, idle, jobs, lockVars, crashes>>

-----------------------------------------------------------------------------
(* Crashes and time *)

\* A killed process leaves its lease to run out and its job is not redelivered.
Crash(p) ==
  /\ pc[p] # "idle" /\ crashes < MaxCrashes
  /\ crashes' = crashes + 1
  /\ owner' = IF owner = p THEN Dead ELSE owner
  /\ Return(p)
  /\ UNCHANGED <<rowVars, jobs, defVars, ttl>>

\* One tick.  An engine that used its whole job timeout ends before the next one
\* (RQ raises JobTimeoutException and kills the work horse a minute later).
MayTick ==
  \A p \in Proc :
    \/ pc[p] = "idle"
    \/ pc[p] = "engine" /\ spent[p] < StaleTimeout

Tick ==
  /\ MayTick
  /\ idle' = [r \in Run |->
       IF status[r] = "Absent" \/ idle[r] = StaleTimeout THEN idle[r]
       ELSE idle[r] + 1]
  /\ spent' = [p \in Proc |->
       IF pc[p] = "engine" THEN spent[p] + 1 ELSE spent[p]]
  /\ IF ttl <= 1 THEN owner' = None /\ ttl' = 0
     ELSE ttl' = ttl - 1 /\ UNCHANGED owner
  /\ UNCHANGED <<status, dry, jobs, defVars, pc, my, seen, stale, crashes>>

-----------------------------------------------------------------------------

EndEngine(p) == Finish(p) \/ Fail(p)

\* The steps that finish what a process has begun.
Proceed(p) ==
  \/ EnqueueLock(p) \/ LockError(p) \/ EnqueueCheck(p) \/ EnqueueCreate(p)
  \/ EnqueueUnlock(p) \/ Submit(p)
  \/ ExecuteLock(p) \/ RunCheck(p) \/ RunCreate(p) \/ Start(p)
  \/ EndEngine(p) \/ Unlock(p) \/ RecoverWrite(p)

Next ==
  \/ \E p \in Proc :
       \/ OpenEnqueue(p) \/ Dequeue(p) \/ RunNow(p) \/ RecoverRead(p)
       \/ Proceed(p) \/ Flush(p) \/ Crash(p)
  \/ Tick

Spec == Init /\ [][Next]_vars

\* What a process has begun goes on (or it crashes); the scheduler's cron entry
\* keeps calling recover_stale_runs; time does not stop: requests do not follow
\* each other so densely that no tick ever fits between them.
Fairness ==
  /\ \A p \in Proc : WF_vars(Proceed(p))
  /\ SF_vars(\E p \in Proc : RecoverRead(p))
  /\ SF_vars(Tick)
  /\ []<>MayTick

FairSpec == Spec /\ Fairness

-----------------------------------------------------------------------------
(* Properties *)

Inserted(r) == status[r] = "Absent" /\ status'[r] # "Absent"

\* The snapshot p checks by is older than its lock, so p may admit a run beside an
\* active one; but only beside one that was inserted since the transaction of p
\* opened.  No row that was active, skipped or ended then is active when p inserts:
\* its late job, a late write of a recovery, of an engine or of a submission would
\* have to bring it back while p waits for the lock or holds it.
JoinsOnlyLaterRuns ==
  \A p \in Proc : pc[p] \in {"enqCreate", "runCreate"} =>
    \A r \in Run : status[r] \in Active => seen[p][r] = "Absent"

\* At most one engine works for the definition at any time.
OneEngine ==
  \A p, q \in Proc : pc[p] = "engine" /\ pc[q] = "engine" => p = q

\* No run is admitted while an engine is still at work, not even for a run that
\* recovery already declared dead.
AdmissionExcludesEngines ==
  [][(\E r \in Run : Inserted(r)) => \A p \in Proc : pc[p] # "engine"]_vars

\* When the definition's last_run is a real run that has ended, last_run_status
\* is that row's status, however ends, recoveries and restarts interleave.
DefinitionAgrees ==
  lastRun # None /\ ~dry[lastRun] /\ status[lastRun] \notin Active
    => lastStatus = status[lastRun]

\* The definition never stays blocked: again and again the lock is free and no
\* run is active, whatever crashed and whichever job was lost.
NeverBlockedForGood == []<>(owner = None /\ ~HasActiveRun)

\* The runs whose job waits, or whose process is on its way to the engine.
Before == {"enqUnlock", "enqSubmit", "execWait", "start"}
Waiting == jobs \cup {my[p] : p \in {q \in Proc : pc[q] \in Before /\ my[q] # None}}

\* The runs engines work for.
Working == {my[p] : p \in {q \in Proc : pc[q] = "engine"}}

Ledger == INSTANCE RunLedger
  WITH waiting <- Waiting, working <- Working,
       Leased <- StaleTimeout < LockTimeout

\* The lock, the jobs, the checks and the recoveries together keep the ledger,
\* with every setting: no row is begun twice, rows and definition end together, a
\* recovery writes only what it may; and engines and admissions exclude each
\* other where no engine can outlive its lease.
ImplementsLedger == Ledger!Spec

=============================================================================
