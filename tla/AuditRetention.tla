--------------------------- MODULE AuditRetention ---------------------------
(***************************************************************************)
(* The daily deletion of old audit data (management.py                     *)
(* cleanup_sync_run_retention, retention.py): expired Sync Runs are listed *)
(* page by page and deleted, their Sync Run Items first and in batches,    *)
(* each batch in a transaction of its own under a lock on the row of the   *)
(* run.  Cleanups may run beside each other, started by the scheduler and  *)
(* by users, fail and be started again; runs are queued, executed,         *)
(* recovered and, when a worker takes a job late, executed after they were *)
(* recovered, all meanwhile.                                               *)
(*                                                                         *)
(* A row carries days, not times of day.  Jobs end within a day, so a day  *)
(* does not pass while an engine works; a job may wait for a worker longer *)
(* than that.                                                              *)
(***************************************************************************)
EXTENDS Naturals, FiniteSets, Sequences

CONSTANTS
  MaxRun,      \* bound: runs, named in the order of their names
  Cleaner,     \* calls of cleanup_sync_run_retention
  SuccessDays, ErrorDays, \* retention_days_success, retention_days_error
  BatchSize,   \* items deleted in one transaction
  PageSize,    \* RUN_PAGE_SIZE
  Legacy,      \* rows of an older version: ended, and without some of their dates
  MaxItems, MaxDay, MaxFaults, \* bounds: items of a run, days, failures
  None

Run == 1..MaxRun
Day == 0..MaxDay

\* "Error" stands for the four DONE_RUN_STATUSES that are kept for ErrorDays.
Ended == {"Error", "Success"}
Active == {"Queued", "Running"}
Row == [status : Ended \cup Active, finished : Day \cup {None}, created : Day \cup {None}]

\* The date ranges expired runs are listed from, in this order; the last two of
\* each status hold legacy rows, which lack dates.
Ranges == <<<<"Error", "finished">>, <<"Error", "created">>, <<"Error", "undated">>,
            <<"Success", "finished">>, <<"Success", "created">>, <<"Success", "undated">>>>

Cursor == [stamp : Day, name : Run]

ASSUME DaysAssumption == SuccessDays \in Nat \ {0} /\ ErrorDays \in Nat \ {0}
ASSUME SizeAssumption == BatchSize \in Nat \ {0} /\ PageSize \in Nat \ {0}
ASSUME BoundAssumption ==
  MaxRun \in Nat /\ MaxItems \in Nat /\ MaxDay \in Nat /\ MaxFaults \in Nat
ASSUME LegacyAssumption ==
  Legacy \subseteq [status : Ended, finished : {None}, created : {None, 0}]
ASSUME NoneAssumption == None \notin Row \cup Cursor \cup Cleaner \cup Nat

VARIABLES
  today,
  rows,    \* the Sync Run rows, None where there is none
  items,   \* how many Sync Run Items name the run
  job,     \* the job of the run: none yet, waiting, loaded (it has read the row), engine, over
  lock,    \* the cleanup that holds the row
  pc,      \* of a cleanup: idle, list, delete
  now,     \* the day a cleanup began, from which its cutoffs are computed
  range,   \* the range it lists
  cursor,  \* where its next page begins, None for the first
  full,    \* may the range have another page?
  queue,   \* the names of that page it has not visited
  current, \* the run it holds
  batch,   \* how many items of that run its open transaction deletes
  faults   \* what the bound counts

runVars == <<rows, items, job>>
listVars == <<now, range, cursor, full, queue>>
holdVars == <<lock, current, batch>>
vars == <<today, runVars, pc, listVars, holdVars, faults>>

\* A site that upgrades.
Init ==
  /\ today = 0
  /\ rows \in [Run -> Legacy \cup {None}] /\ items \in [Run -> 0..MaxItems]
  /\ \A r \in Run : rows[r] = None => items[r] = 0
  /\ job = [r \in Run |-> IF rows[r] = None THEN "none" ELSE "over"]
  /\ lock = [r \in Run |-> None]
  /\ pc = [c \in Cleaner |-> "idle"] /\ now = [c \in Cleaner |-> 0]
  /\ range = [c \in Cleaner |-> 1] /\ cursor = [c \in Cleaner |-> None]
  /\ full = [c \in Cleaner |-> FALSE] /\ queue = [c \in Cleaner |-> {}]
  /\ current = [c \in Cleaner |-> None] /\ batch = [c \in Cleaner |-> 0]
  /\ faults = 0

-----------------------------------------------------------------------------
(* Runs.                                                                   *)

Tick ==
  /\ today < MaxDay /\ \A r \in Run : job[r] \notin {"loaded", "engine"}
  /\ today' = today + 1
  /\ UNCHANGED <<runVars, pc, listVars, holdVars, faults>>

\* An UPDATE of the row waits for the cleanup that holds it, and meets nothing
\* when the row is gone.
SetRow(r, row) ==
  /\ lock[r] = None
  /\ rows' = [rows EXCEPT ![r] = IF @ = None THEN None ELSE row]

Others == UNCHANGED <<today, pc, listVars, holdVars, faults>>

\* Names of runs are not given again.
Queue(r) ==
  /\ rows[r] = None /\ job[r] = "none"
  /\ rows' = [rows EXCEPT ![r] = [status |-> "Queued", finished |-> None, created |-> today]]
  /\ job' = [job EXCEPT ![r] = "waiting"]
  /\ UNCHANGED items /\ Others

\* A job whose row is gone fails.
Load(r) ==
  /\ job[r] = "waiting"
  /\ job' = [job EXCEPT ![r] = IF rows[r] = None THEN "over" ELSE "loaded"]
  /\ UNCHANGED <<rows, items>> /\ Others

Start(r) ==
  /\ job[r] = "loaded"
  /\ SetRow(r, [rows[r] EXCEPT !.status = "Running"])
  /\ job' = [job EXCEPT ![r] = "engine"]
  /\ UNCHANGED items /\ Others

\* The link to the run is validated when an item is inserted.
AddItem(r) ==
  /\ job[r] = "engine" /\ rows[r] # None /\ items[r] < MaxItems
  /\ items' = [items EXCEPT ![r] = @ + 1]
  /\ UNCHANGED <<rows, job>> /\ Others

End(r) ==
  /\ job[r] = "engine"
  /\ \E s \in Ended : SetRow(r, [rows[r] EXCEPT !.status = s, !.finished = today])
  /\ job' = [job EXCEPT ![r] = "over"]
  /\ UNCHANGED items /\ Others

\* recover_stale_runs; the engine or the job may still be there.  The row is written
\* without a second look: it may have ended since it was read, on the same day.
Recover(r) ==
  /\ rows[r] # None /\ (rows[r].status \in Active \/ rows[r].finished = today)
  /\ SetRow(r, [rows[r] EXCEPT !.status = "Error", !.finished = today])
  /\ UNCHANGED <<items, job>> /\ Others

Dies(r) ==
  /\ job[r] \notin {"none", "over"} /\ faults < MaxFaults
  /\ job' = [job EXCEPT ![r] = "over"] /\ faults' = faults + 1
  /\ UNCHANGED <<today, rows, items, pc, listVars, holdVars>>

-----------------------------------------------------------------------------
(* Cleanups.                                                               *)

\* d has been over for so many days; there was no day 0 - n.
Past(d, status, day) == d + (IF status = "Success" THEN SuccessDays ELSE ErrorDays) <= day

\* is_expired, for the cutoffs of a cleanup that began on the given day.
IsExpired(row, day) ==
  /\ row # None
  /\ row.status \in Ended
  /\ LET done == IF row.finished # None THEN row.finished ELSE row.created
     IN  done = None \/ Past(done, row.status, day)

\* The stamp a run is listed by; those without a date are listed by name.
Stamp(r, i) ==
  CASE Ranges[i][2] = "finished" -> rows[r].finished
    [] Ranges[i][2] = "created" -> rows[r].created
    [] Ranges[i][2] = "undated" -> 0

InRange(r, i, day) ==
  /\ rows[r] # None /\ rows[r].status = Ranges[i][1]
  /\ CASE Ranges[i][2] = "finished" -> rows[r].finished # None
       [] Ranges[i][2] = "created" -> rows[r].finished = None /\ rows[r].created # None
       [] Ranges[i][2] = "undated" -> rows[r].finished = None /\ rows[r].created = None
  /\ Ranges[i][2] # "undated" => Past(Stamp(r, i), rows[r].status, day)

Key(r, i) == [stamp |-> Stamp(r, i), name |-> r]
Before(k, l) == k.stamp < l.stamp \/ (k.stamp = l.stamp /\ k.name < l.name)

\* (mutated: a page is asked for by its number, in a list that has become shorter)
BeyondByCount(i, from, day) ==
  LET all == {r \in Run : InRange(r, i, day)}
  IN  {r \in all : from # None =>
         Cardinality({s \in all : Before(Key(s, i), Key(r, i))}) >= PageSize}

\* The rows of a range behind a cursor.
Beyond(i, from, day) ==
  {r \in Run : InRange(r, i, day) /\ (from # None => Before(from, Key(r, i)))}

\* The first of those, PageSize of them at most.
PageOf(i, from, day) ==
  LET left == Beyond(i, from, day)
  IN  {r \in left : Cardinality({s \in left : Before(Key(s, i), Key(r, i))}) < PageSize}

Begin(c) ==
  /\ pc[c] = "idle"
  /\ pc' = [pc EXCEPT ![c] = "list"]
  /\ now' = [now EXCEPT ![c] = today]
  /\ full' = [full EXCEPT ![c] = TRUE]
  /\ UNCHANGED <<today, runVars, range, cursor, queue, holdVars, faults>>

\* A page, of the same range after a full one, else of the next.
Page(c) ==
  /\ pc[c] = "list" /\ queue[c] = {} /\ (full[c] \/ range[c] < Len(Ranges))
  /\ LET i == IF full[c] THEN range[c] ELSE range[c] + 1
         page == PageOf(i, IF full[c] THEN cursor[c] ELSE None, now[c])
     IN  /\ queue' = [queue EXCEPT ![c] = page]
         /\ range' = [range EXCEPT ![c] = i]
         /\ full' = [full EXCEPT ![c] = Cardinality(page) = PageSize]
         /\ \E last \in {Key(r, i) : r \in page} \cup {None} :
              /\ last = None <=> page = {}
              /\ \A r \in page : ~Before(last, Key(r, i))
              /\ cursor' = [cursor EXCEPT ![c] = last]
  /\ UNCHANGED <<today, runVars, pc, now, holdVars, faults>>

\* (mutated: the size asked for is taken for the size there is)
ItemBatchAsked(r) == BatchSize

\* How many of the first items are deleted.
ItemBatch(r) == IF items[r] < BatchSize THEN items[r] ELSE BatchSize

\* (mutated: the list is trusted)
TakeListed(c, r) ==
  /\ pc[c] = "list" /\ r \in queue[c] /\ lock[r] = None
  /\ IF rows[r] # None
     THEN /\ lock' = [lock EXCEPT ![r] = c] /\ current' = [current EXCEPT ![c] = r]
          /\ batch' = [batch EXCEPT ![c] = ItemBatch(r)]
          /\ pc' = [pc EXCEPT ![c] = "delete"] /\ UNCHANGED queue
     ELSE queue' = [queue EXCEPT ![c] = @ \ {r}] /\ UNCHANGED <<pc, holdVars>>
  /\ UNCHANGED <<today, runVars, now, range, cursor, full, faults>>

\* (mutated: a plain read instead of one for update)
TakeUnlocked(c, r) ==
  /\ pc[c] = "list" /\ r \in queue[c]
  /\ IF IsExpired(rows[r], now[c])
     THEN /\ current' = [current EXCEPT ![c] = r]
          /\ batch' = [batch EXCEPT ![c] = ItemBatch(r)]
          /\ pc' = [pc EXCEPT ![c] = "delete"] /\ UNCHANGED <<lock, queue>>
     ELSE queue' = [queue EXCEPT ![c] = @ \ {r}] /\ UNCHANGED <<pc, holdVars>>
  /\ UNCHANGED <<today, runVars, now, range, cursor, full, faults>>

\* The row is locked and judged again, then the first items are deleted, or the
\* run itself when it has none left.
Take(c, r) ==
  /\ pc[c] = "list" /\ r \in queue[c] /\ lock[r] = None
  /\ IF IsExpired(rows[r], now[c])
     THEN /\ lock' = [lock EXCEPT ![r] = c] /\ current' = [current EXCEPT ![c] = r]
          /\ batch' = [batch EXCEPT ![c] = ItemBatch(r)]
          /\ pc' = [pc EXCEPT ![c] = "delete"] /\ UNCHANGED queue
     ELSE queue' = [queue EXCEPT ![c] = @ \ {r}] /\ UNCHANGED <<pc, holdVars>>
  /\ UNCHANGED <<today, runVars, now, range, cursor, full, faults>>

Release(c) ==
  /\ lock' = [r \in Run |-> IF lock[r] = c THEN None ELSE lock[r]]
  /\ current' = [current EXCEPT ![c] = None] /\ batch' = [batch EXCEPT ![c] = 0]

Commit(c) ==
  /\ pc[c] = "delete"
  /\ LET r == current[c] IN
       IF batch[c] > 0
       THEN items' = [items EXCEPT ![r] = @ - batch[c]] /\ UNCHANGED <<rows, queue>>
       ELSE /\ rows' = [rows EXCEPT ![r] = None]
            /\ queue' = [queue EXCEPT ![c] = @ \ {r}]
            /\ UNCHANGED items
  /\ pc' = [pc EXCEPT ![c] = "list"]
  /\ Release(c)
  /\ UNCHANGED <<today, job, now, range, cursor, full, faults>>

\* What a cleanup that is over has in its variables.
Leave(c) ==
  /\ pc' = [pc EXCEPT ![c] = "idle"] /\ now' = [now EXCEPT ![c] = 0]
  /\ range' = [range EXCEPT ![c] = 1] /\ cursor' = [cursor EXCEPT ![c] = None]
  /\ full' = [full EXCEPT ![c] = FALSE] /\ queue' = [queue EXCEPT ![c] = {}]

Finish(c) ==
  /\ pc[c] = "list" /\ queue[c] = {} /\ ~full[c] /\ range[c] = Len(Ranges)
  /\ Leave(c)
  /\ UNCHANGED <<today, runVars, holdVars, faults>>

\* A statement fails, or the process is killed: what is not committed is rolled back.
Fail(c) ==
  /\ pc[c] # "idle" /\ faults < MaxFaults
  /\ Leave(c) /\ Release(c)
  /\ faults' = faults + 1
  /\ UNCHANGED <<today, runVars>>

Next ==
  \/ Tick
  \/ \E r \in Run : Queue(r) \/ Load(r) \/ Start(r) \/ AddItem(r) \/ End(r) \/ Recover(r) \/ Dies(r)
  \/ \E c \in Cleaner : Begin(c) \/ Page(c) \/ Finish(c) \/ Commit(c) \/ Fail(c)
                        \/ \E r \in Run : Take(c, r)

Spec == Init /\ [][Next]_vars

-----------------------------------------------------------------------------
(* Properties.                                                             *)

TypeOK ==
  /\ today \in Day
  /\ rows \in [Run -> Row \cup {None}] /\ items \in [Run -> 0..MaxItems]
  /\ job \in [Run -> {"none", "waiting", "loaded", "engine", "over"}]
  /\ lock \in [Run -> Cleaner \cup {None}]
  /\ pc \in [Cleaner -> {"idle", "list", "delete"}] /\ now \in [Cleaner -> Day]
  /\ range \in [Cleaner -> DOMAIN Ranges] /\ cursor \in [Cleaner -> Cursor \cup {None}]
  /\ full \in [Cleaner -> BOOLEAN] /\ queue \in [Cleaner -> SUBSET Run]
  /\ current \in [Cleaner -> Run \cup {None}] /\ batch \in [Cleaner -> 0..BatchSize]
  /\ faults \in 0..MaxFaults

\* No item is left behind by its run, whichever cleanups and late engines work on
\* the run at the same time: an item is inserted only while its run is there, and
\* the run is deleted only while it has no item.
NoOrphans == \A r \in Run : rows[r] = None => items[r] = 0

\* "Concurrent cleaners must see the latest parent and item rows, not a previous
\* read snapshot.": items and runs disappear only while their run is expired, a
\* run that has been started since it was listed included.
SparesUnexpired ==
  [][\A r \in Run :
       items'[r] < items[r] \/ (rows[r] # None /\ rows'[r] = None) =>
         \E c \in Cleaner : IsExpired(rows[r], now[c])]_vars

\* A cleanup that comes to its end leaves no run that was expired when it began,
\* legacy rows without dates included, although the pages it lists from become
\* shorter while it deletes, or another cleanup deletes them.
CompleteCleanup ==
  [][\A c \in Cleaner :
       Finish(c) => \A r \in Run : ~IsExpired(rows[r], now[c])]_vars
=============================================================================
