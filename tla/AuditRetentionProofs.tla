------------------------ MODULE AuditRetentionProofs ------------------------
(***************************************************************************)
(* Theorems about AuditRetention, for every number of runs, items and      *)
(* cleanups, all page and batch sizes and all retention periods.           *)
(***************************************************************************)
EXTENDS AuditRetention, FiniteSetTheorems, WellFoundedInduction, TLAPS

USE DaysAssumption, SizeAssumption, BoundAssumption, NoneAssumption

-----------------------------------------------------------------------------
(* What a cleanup holds *)

\* The row a cleanup has locked is expired and keeps the items it has counted.
Held ==
  \A c \in Cleaner : pc[c] = "delete" =>
    /\ current[c] \in Run /\ lock[current[c]] = c
    /\ IsExpired(rows[current[c]], now[c])
    /\ batch[c] = ItemBatch(current[c])

\* Cutoffs are never computed from a day to come.
Clock == \A c \in Cleaner : now[c] <= today

\* While an engine works its run is Running, or recovery ended it today.
Working ==
  \A r \in Run : job[r] = "engine" /\ rows[r] # None =>
    rows[r].status = "Running" \/ rows[r].finished = today

HoldInv == TypeOK /\ Held /\ Clock /\ Working

LEMMA InitHoldInv == Init => HoldInv /\ NoOrphans
<1> SUFFICES ASSUME Init PROVE HoldInv /\ NoOrphans
  OBVIOUS
<1>1. Legacy \subseteq Row
  BY LegacyAssumption DEF Row, Day, Ended, Active
<1>2. /\ 1 \in DOMAIN Ranges /\ 0 \in Day /\ 0 \in 0..BatchSize /\ 0 \in 0..MaxFaults
  BY DEF Ranges, Day
<1>3. TypeOK
  BY <1>1, <1>2 DEF Init, TypeOK
<1>4. Held /\ Clock /\ Working /\ NoOrphans
  BY DEF Init, Held, Clock, Working, NoOrphans, Day
<1>5. QED
  BY <1>3, <1>4 DEF HoldInv

\* No engine works for an expired run.
LEMMA ExpiredIdle ==
  ASSUME HoldInv, NEW c \in Cleaner, NEW r \in Run, IsExpired(rows[r], now[c])
  PROVE  job[r] # "engine"
<1> SUFFICES ASSUME job[r] = "engine" PROVE FALSE
  OBVIOUS
<1>1. rows[r] # None /\ rows[r].status \in Ended /\ rows[r].finished = today
  BY DEF IsExpired, HoldInv, Working, Ended
<1>2. today \in Nat /\ now[c] \in Nat /\ now[c] <= today /\ today # None
  BY DEF HoldInv, Clock, TypeOK, Day
<1>3. Past(today, rows[r].status, now[c])
  BY <1>1, <1>2 DEF IsExpired
<1>4. QED
  BY <1>2, <1>3 DEF Past

\* The rows on which a run may act: those no cleanup holds.
LEMMA SetRowType ==
  ASSUME HoldInv, NEW r \in Run, NEW row, rows[r] # None => row \in Row, SetRow(r, row)
  PROVE  rows' \in [Run -> Row \cup {None}]
BY DEF SetRow, HoldInv, TypeOK

\* A step that leaves what a cleanup holds alone keeps it held.
LEMMA HeldStays ==
  ASSUME HoldInv,
         \A c \in Cleaner : pc'[c] = "delete" =>
            /\ pc[c] = "delete" /\ current'[c] = current[c] /\ batch'[c] = batch[c]
            /\ now'[c] = now[c] /\ lock'[current[c]] = lock[current[c]]
            /\ rows'[current[c]] = rows[current[c]]
            /\ items'[current[c]] = items[current[c]]
  PROVE  Held'
BY DEF HoldInv, Held, ItemBatch

LEMMA RunHoldInv ==
  ASSUME HoldInv, NEW r \in Run,
         Queue(r) \/ Load(r) \/ Start(r) \/ AddItem(r) \/ End(r) \/ Recover(r) \/ Dies(r)
  PROVE  HoldInv'
<1>0. TypeOK
  BY DEF HoldInv
<1>1. /\ UNCHANGED <<today, pc, now, range, cursor, full, queue, lock, current, batch>>
      /\ faults' \in 0..MaxFaults
  <2>1. faults \in 0..MaxFaults /\ MaxFaults \in Nat
    BY <1>0 DEF TypeOK
  <2>2. CASE Dies(r)
    BY <2>1, <2>2 DEF Dies, listVars, holdVars
  <2>3. CASE Others
    BY <2>1, <2>3 DEF Others, listVars, holdVars
  <2>4. QED
    BY <2>2, <2>3 DEF Queue, Load, Start, AddItem, End, Recover
<1>2. \A c \in Cleaner : pc[c] = "delete" =>
        /\ current[c] \in Run /\ lock[current[c]] = c /\ lock[current[c]] # None
        /\ rows[current[c]] # None /\ job[current[c]] # "engine"
  BY ExpiredIdle DEF HoldInv, Held, IsExpired
<1>3. today \in Day /\ today # None
  BY <1>0 DEF TypeOK, Day
<1>4. ASSUME NEW row, rows[r] # None => row \in Row, SetRow(r, row), UNCHANGED items,
             rows[r] # None /\ job'[r] = "engine"
               => row.status = "Running" \/ row.finished = today,
             job' \in [Run -> {"none", "waiting", "loaded", "engine", "over"}],
             \A s \in Run \ {r} : job'[s] = job[s]
      PROVE  HoldInv'
  <2>1. rows' \in [Run -> Row \cup {None}]
    BY <1>4, SetRowType
  <2>2. \A s \in Run \ {r} : rows'[s] = rows[s]
    BY <1>0, <1>4 DEF SetRow, TypeOK
  <2>3. lock[r] = None /\ (rows'[r] # None => rows[r] # None /\ rows'[r] = row)
    BY <1>0, <1>4 DEF SetRow, TypeOK
  <2>4. Held'
    <3>1. \A c \in Cleaner : pc[c] = "delete" => rows'[current[c]] = rows[current[c]]
      BY <1>2, <2>2, <2>3
    <3>2. QED
      BY <1>1, <1>4, <3>1, HeldStays
  <2>5. Working'
    BY <1>1, <1>4, <2>2, <2>3 DEF HoldInv, Working
  <2>6. TypeOK' /\ Clock'
    BY <1>0, <1>1, <1>4, <2>1 DEF HoldInv, TypeOK, Clock
  <2>7. QED
    BY <2>4, <2>5, <2>6 DEF HoldInv
<1>5. CASE Queue(r)
  <2> DEFINE row == [status |-> "Queued", finished |-> None, created |-> today]
  <2>1. row \in Row
    BY <1>3 DEF Row, Active
  <2>2. /\ rows[r] = None /\ rows' = [rows EXCEPT ![r] = row] /\ items' = items
        /\ job' = [job EXCEPT ![r] = "waiting"]
    BY <1>5 DEF Queue
  <2>3. Held'
    <3>1. \A c \in Cleaner : pc[c] = "delete" => rows'[current[c]] = rows[current[c]]
      BY <1>0, <1>2, <2>2 DEF TypeOK
    <3>2. QED
      BY <1>1, <2>2, <3>1, HeldStays
  <2>4. Working' /\ Clock'
    BY <1>0, <1>1, <2>2 DEF HoldInv, Working, Clock, TypeOK
  <2>5. TypeOK'
    BY <1>0, <1>1, <2>1, <2>2 DEF TypeOK
  <2>6. QED
    BY <2>3, <2>4, <2>5 DEF HoldInv
<1>6. CASE Load(r) \/ Dies(r)
  <2>1. /\ UNCHANGED <<rows, items>>
        /\ \E j \in {"over", "loaded"} : job' = [job EXCEPT ![r] = j]
    BY <1>6 DEF Load, Dies
  <2>2. Held'
    BY <1>1, <2>1, HeldStays
  <2>3. Working' /\ Clock'
    BY <1>0, <1>1, <2>1 DEF HoldInv, Working, Clock, TypeOK
  <2>4. TypeOK'
    BY <1>0, <1>1, <2>1 DEF TypeOK
  <2>5. QED
    BY <2>2, <2>3, <2>4 DEF HoldInv
<1>7. CASE Start(r)
  <2>1. rows[r] # None => [rows[r] EXCEPT !.status = "Running"] \in Row
    BY <1>0 DEF TypeOK, Row, Active
  <2>2. rows[r] # None => [rows[r] EXCEPT !.status = "Running"].status = "Running"
    BY <1>0 DEF TypeOK, Row
  <2>3. QED
    BY <1>0, <1>4, <1>7, <2>1, <2>2 DEF Start, TypeOK
<1>8. CASE AddItem(r)
  <2>1. /\ job[r] = "engine" /\ items[r] < MaxItems /\ UNCHANGED <<rows, job>>
        /\ items' = [items EXCEPT ![r] = @ + 1]
    BY <1>8 DEF AddItem
  <2>2. Held'
    <3>1. \A c \in Cleaner : pc[c] = "delete" => items'[current[c]] = items[current[c]]
      BY <1>0, <1>2, <2>1 DEF TypeOK
    <3>2. QED
      BY <1>1, <2>1, <3>1, HeldStays
  <2>3. Working' /\ Clock'
    BY <1>1, <2>1 DEF HoldInv, Working, Clock
  <2>4. items' \in [Run -> 0..MaxItems]
    BY <1>0, <2>1 DEF TypeOK
  <2>5. TypeOK'
    BY <1>0, <1>1, <2>1, <2>4 DEF TypeOK
  <2>6. QED
    BY <2>2, <2>3, <2>5 DEF HoldInv
<1>9. CASE End(r)
  <2>1. PICK s \in Ended : SetRow(r, [rows[r] EXCEPT !.status = s, !.finished = today])
    BY <1>9 DEF End
  <2>2. rows[r] # None => [rows[r] EXCEPT !.status = s, !.finished = today] \in Row
    <3>1. rows[r] # None => rows[r] \in Row
      BY <1>0 DEF TypeOK
    <3>2. QED
      BY <1>3, <3>1 DEF Row
  <2>3. job' = [job EXCEPT ![r] = "over"] /\ items' = items
    BY <1>9 DEF End
  <2>4. QED
    BY <1>0, <1>4, <2>1, <2>2, <2>3 DEF TypeOK
<1>10. CASE Recover(r)
  <2> DEFINE row == [rows[r] EXCEPT !.status = "Error", !.finished = today]
  <2>1. rows[r] \in Row /\ SetRow(r, row) /\ UNCHANGED <<items, job>>
    BY <1>0, <1>10 DEF Recover, TypeOK
  <2>2. row \in Row /\ row.finished = today
    BY <1>3, <2>1 DEF Row, Ended
  <2>3. QED
    BY <1>0, <1>4, <2>1, <2>2 DEF TypeOK
<1>11. QED
  BY <1>5, <1>6, <1>7, <1>8, <1>9, <1>10

LEMMA KeyType ==
  ASSUME HoldInv, NEW r \in Run, NEW i \in DOMAIN Ranges, NEW day, InRange(r, i, day)
  PROVE  Key(r, i) \in Cursor
<1>1. rows[r] \in Row
  BY DEF InRange, HoldInv, TypeOK
<1>2. Stamp(r, i) \in Day
  <2>1. Ranges[i][2] \in {"finished", "created", "undated"}
    BY DEF Ranges
  <2>2. 0 \in Day
    BY DEF Day
  <2>3. rows[r].finished \in Day \cup {None} /\ rows[r].created \in Day \cup {None}
    BY <1>1 DEF Row
  <2>4. CASE Ranges[i][2] = "finished"
    BY <2>3, <2>4 DEF InRange, Stamp
  <2>5. CASE Ranges[i][2] = "created"
    BY <2>3, <2>5 DEF InRange, Stamp
  <2>6. CASE Ranges[i][2] = "undated"
    BY <2>2, <2>6 DEF Stamp
  <2>7. QED
    BY <2>1, <2>4, <2>5, <2>6
<1>3. QED
  BY <1>2 DEF Key, Cursor

\* What Leave, Begin and Page do to a cleanup that holds nothing.
LEMMA ListHoldInv ==
  ASSUME HoldInv, NEW c \in Cleaner, Begin(c) \/ Page(c) \/ Finish(c) PROVE HoldInv'
<1>0. TypeOK
  BY DEF HoldInv
<1>1. /\ UNCHANGED <<today, rows, items, job, lock, current, batch, faults>>
      /\ pc[c] # "delete" /\ pc'[c] # "delete"
      /\ pc' \in [Cleaner -> {"idle", "list", "delete"}]
      /\ \A d \in Cleaner \ {c} : pc'[d] = pc[d] /\ now'[d] = now[d]
      /\ now' \in [Cleaner -> Day] /\ now'[c] <= today
  <2>1. today \in Day /\ 0 \in Day /\ 0 <= today /\ now[c] <= today
    BY <1>0 DEF TypeOK, HoldInv, Clock, Day
  <2>2. CASE Begin(c)
    BY <1>0, <2>1, <2>2 DEF Begin, runVars, holdVars, TypeOK, Day
  <2>3. CASE Page(c)
    BY <1>0, <2>1, <2>3 DEF Page, runVars, holdVars, TypeOK
  <2>4. CASE Finish(c)
    BY <1>0, <2>1, <2>4 DEF Finish, Leave, runVars, holdVars, TypeOK
  <2>5. QED
    BY <2>2, <2>3, <2>4
<1>2. /\ range' \in [Cleaner -> DOMAIN Ranges] /\ cursor' \in [Cleaner -> Cursor \cup {None}]
      /\ full' \in [Cleaner -> BOOLEAN] /\ queue' \in [Cleaner -> SUBSET Run]
  <2>1. DOMAIN Ranges = 1..6 /\ Len(Ranges) = 6
    BY DEF Ranges
  <2>2. CASE Begin(c)
    BY <1>0, <2>2 DEF Begin, TypeOK
  <2>3. CASE Finish(c)
    BY <1>0, <2>1, <2>3 DEF Finish, Leave, TypeOK
  <2>4. CASE Page(c)
    <3> DEFINE i == IF full[c] THEN range[c] ELSE range[c] + 1
               page == PageOf(i, IF full[c] THEN cursor[c] ELSE None, now[c])
    <3>1. i \in DOMAIN Ranges
      BY <1>0, <2>1, <2>4 DEF Page, TypeOK
    <3>2. page \subseteq Run /\ \A r \in page : InRange(r, i, now[c])
      BY DEF PageOf, Beyond
    <3>3. PICK last \in {Key(r, i) : r \in page} \cup {None} : cursor' = [cursor EXCEPT ![c] = last]
      BY <2>4 DEF Page
    <3>4. last \in Cursor \cup {None}
      BY <3>1, <3>2, KeyType
    <3>5. /\ queue' = [queue EXCEPT ![c] = page] /\ range' = [range EXCEPT ![c] = i]
          /\ full' = [full EXCEPT ![c] = Cardinality(page) = PageSize]
      BY <2>4 DEF Page
    <3>6. QED
      BY <1>0, <3>1, <3>2, <3>3, <3>4, <3>5 DEF TypeOK
  <2>5. QED
    BY <2>2, <2>3, <2>4
<1>3. Held'
  <2>1. \A d \in Cleaner : pc'[d] = "delete" => pc[d] = "delete" /\ now'[d] = now[d]
    BY <1>1
  <2>2. QED
    BY <1>1, <2>1, HeldStays
<1>4. Clock' /\ Working'
  BY <1>1 DEF HoldInv, Clock, Working
<1>5. TypeOK'
  BY <1>0, <1>1, <1>2 DEF TypeOK
<1>6. QED
  BY <1>3, <1>4, <1>5 DEF HoldInv

LEMMA TakeHoldInv ==
  ASSUME HoldInv, NEW c \in Cleaner, NEW r \in Run, Take(c, r) PROVE HoldInv'
<1>0. TypeOK
  BY DEF HoldInv
<1>1. /\ UNCHANGED <<today, rows, items, job, now, range, cursor, full, faults>>
      /\ pc[c] = "list" /\ lock[r] = None
  BY DEF Take, runVars
<1>2. Clock' /\ Working'
  BY <1>1 DEF HoldInv, Clock, Working
<1>3. CASE IsExpired(rows[r], now[c])
  <2>1. /\ lock' = [lock EXCEPT ![r] = c] /\ current' = [current EXCEPT ![c] = r]
        /\ batch' = [batch EXCEPT ![c] = ItemBatch(r)]
        /\ pc' = [pc EXCEPT ![c] = "delete"] /\ queue' = queue
    BY <1>3 DEF Take
  <2>2. ItemBatch(r) \in 0..BatchSize
    BY <1>0 DEF ItemBatch, TypeOK
  <2>3. TypeOK'
    BY <1>0, <1>1, <2>1, <2>2 DEF TypeOK
  <2>4. Held'
    <3> SUFFICES ASSUME NEW d \in Cleaner, pc'[d] = "delete"
                 PROVE  /\ current'[d] \in Run /\ lock'[current'[d]] = d
                        /\ IsExpired(rows'[current'[d]], now'[d])
                        /\ batch'[d] = ItemBatch(current[d])'
      BY DEF Held
    <3>1. CASE d = c
      BY <1>0, <1>1, <1>3, <2>1, <3>1 DEF TypeOK, ItemBatch
    <3>2. CASE d # c
      <4>1. /\ current[d] \in Run /\ lock[current[d]] = d
            /\ IsExpired(rows[current[d]], now[d]) /\ batch[d] = ItemBatch(current[d])
        BY <1>0, <2>1, <3>2 DEF HoldInv, Held, TypeOK
      <4>2. current[d] # r
        BY <1>1, <4>1
      <4>3. current'[d] = current[d] /\ batch'[d] = batch[d] /\ lock'[current[d]] = d
        BY <1>0, <2>1, <3>2, <4>1, <4>2 DEF TypeOK
      <4>4. QED
        BY <1>1, <4>1, <4>3 DEF ItemBatch
    <3>3. QED
      BY <3>1, <3>2
  <2>5. QED
    BY <1>2, <2>3, <2>4 DEF HoldInv
<1>4. CASE ~IsExpired(rows[r], now[c])
  <2>1. queue' = [queue EXCEPT ![c] = @ \ {r}] /\ UNCHANGED <<pc, lock, current, batch>>
    BY <1>4 DEF Take, holdVars
  <2>2. TypeOK'
    BY <1>0, <1>1, <2>1 DEF TypeOK
  <2>3. Held'
    BY <1>1, <2>1, HeldStays
  <2>4. QED
    BY <1>2, <2>2, <2>3 DEF HoldInv
<1>5. QED
  BY <1>3, <1>4

\* A cleanup lets go of its own row only.
LEMMA ReleaseOthers ==
  ASSUME HoldInv, NEW c \in Cleaner, Release(c), NEW d \in Cleaner, d # c, pc[d] = "delete"
  PROVE  /\ current'[d] = current[d] /\ batch'[d] = batch[d]
         /\ lock'[current[d]] = lock[current[d]]
         /\ pc[c] = "delete" => current[d] # current[c]
BY DEF HoldInv, Held, TypeOK, Release

LEMMA ReleaseType ==
  ASSUME HoldInv, NEW c \in Cleaner, Release(c)
  PROVE  /\ lock' \in [Run -> Cleaner \cup {None}]
         /\ current' \in [Cleaner -> Run \cup {None}] /\ batch' \in [Cleaner -> 0..BatchSize]
BY DEF HoldInv, TypeOK, Release

LEMMA CommitHoldInv ==
  ASSUME HoldInv, NEW c \in Cleaner, Commit(c) PROVE HoldInv'
<1>0. TypeOK
  BY DEF HoldInv
<1> DEFINE r == current[c]
<1>1. /\ pc[c] = "delete" /\ pc' = [pc EXCEPT ![c] = "list"] /\ Release(c)
      /\ UNCHANGED <<today, job, now, range, cursor, full, faults>>
  BY DEF Commit
<1>2. r \in Run /\ batch[c] = ItemBatch(r) /\ IsExpired(rows[r], now[c])
  BY <1>1 DEF HoldInv, Held
<1>3. /\ \A s \in Run \ {r} : rows'[s] = rows[s] /\ items'[s] = items[s]
      /\ rows' \in [Run -> Row \cup {None}] /\ items' \in [Run -> 0..MaxItems]
      /\ queue' \in [Cleaner -> SUBSET Run]
      /\ rows'[r] = rows[r] \/ rows'[r] = None
  <2>1. items[r] \in 0..MaxItems /\ batch[c] <= items[r] /\ batch[c] \in Nat
    BY <1>0, <1>2 DEF ItemBatch, TypeOK
  <2>2. items[r] - batch[c] \in 0..MaxItems
    BY <2>1
  <2>3. CASE batch[c] > 0
    BY <1>0, <1>2, <2>2, <2>3 DEF Commit, TypeOK
  <2>4. CASE ~(batch[c] > 0)
    BY <1>0, <1>2, <2>4 DEF Commit, TypeOK
  <2>5. QED
    BY <2>3, <2>4
<1>4. TypeOK'
  BY <1>0, <1>1, <1>3, ReleaseType DEF TypeOK
<1>5. Held'
  <2>1. ASSUME NEW d \in Cleaner, pc'[d] = "delete"
        PROVE  /\ pc[d] = "delete" /\ current'[d] = current[d] /\ batch'[d] = batch[d]
               /\ now'[d] = now[d] /\ lock'[current[d]] = lock[current[d]]
               /\ rows'[current[d]] = rows[current[d]]
               /\ items'[current[d]] = items[current[d]]
    <3>1. d # c /\ pc[d] = "delete" /\ current[d] \in Run
      BY <1>0, <1>1, <2>1 DEF TypeOK, HoldInv, Held
    <3>2. QED
      BY <1>1, <1>3, <3>1, ReleaseOthers
  <2>2. QED
    BY <2>1, HeldStays
<1>6. Clock' /\ Working'
  BY <1>1, <1>3 DEF HoldInv, Clock, Working
<1>7. QED
  BY <1>4, <1>5, <1>6 DEF HoldInv

LEMMA FailHoldInv ==
  ASSUME HoldInv, NEW c \in Cleaner, Fail(c) PROVE HoldInv'
<1>0. TypeOK
  BY DEF HoldInv
<1>1. /\ UNCHANGED <<today, rows, items, job>> /\ Leave(c) /\ Release(c)
      /\ faults' = faults + 1 /\ faults < MaxFaults
  BY DEF Fail, runVars
<1>2. /\ pc' = [pc EXCEPT ![c] = "idle"] /\ now' = [now EXCEPT ![c] = 0]
      /\ 1 \in DOMAIN Ranges
  BY <1>1 DEF Leave, Ranges
<1>3. faults' \in 0..MaxFaults /\ 0 \in Day
  BY <1>0, <1>1 DEF TypeOK, Day
<1>4. TypeOK'
  BY <1>0, <1>1, <1>2, <1>3, ReleaseType DEF TypeOK, Leave
<1>5. Held'
  <2>1. \A d \in Cleaner : pc'[d] = "delete" => d # c /\ pc[d] = "delete" /\ now'[d] = now[d]
    BY <1>0, <1>2 DEF TypeOK
  <2>2. QED
    BY <1>1, <2>1, ReleaseOthers, HeldStays
<1>6. Clock' /\ Working'
  BY <1>0, <1>1, <1>2 DEF HoldInv, Clock, Working, TypeOK, Day
<1>7. QED
  BY <1>4, <1>5, <1>6 DEF HoldInv

LEMMA NextHoldInv == ASSUME HoldInv, [Next]_vars PROVE HoldInv'
<1>1. CASE Tick
  <2>1. /\ today' = today + 1 /\ today < MaxDay
        /\ \A r \in Run : job[r] # "engine"
        /\ UNCHANGED <<rows, items, job, pc, now, range, cursor, full, queue, lock, current,
                       batch, faults>>
    BY <1>1 DEF Tick, runVars, listVars, holdVars
  <2>2. today' \in Day /\ today \in Nat /\ \A c \in Cleaner : now[c] \in Nat
    BY <2>1 DEF HoldInv, TypeOK, Day
  <2>3. Held'
    BY <2>1, HeldStays
  <2>4. TypeOK' /\ Clock' /\ Working'
    BY <2>1, <2>2 DEF HoldInv, TypeOK, Clock, Working
  <2>5. QED
    BY <2>3, <2>4 DEF HoldInv
<1>2. CASE UNCHANGED vars
  BY <1>2 DEF vars, runVars, listVars, holdVars, HoldInv, TypeOK, Held, Clock, Working,
     ItemBatch
<1>3. QED
  BY <1>1, <1>2, RunHoldInv, ListHoldInv, TakeHoldInv, CommitHoldInv, FailHoldInv DEF Next

\* Rows, jobs, locks and the progress of every cleanup keep their types; a
\* transaction never deletes more items than there are.
THEOREM TypeCorrect == Spec => []TypeOK
<1>1. HoldInv => TypeOK
  BY DEF HoldInv
<1>2. QED
  BY <1>1, InitHoldInv, NextHoldInv, PTL DEF Spec

-----------------------------------------------------------------------------
(* Deletion *)

\* A run's own updates neither make nor remove rows.
LEMMA RowsStay ==
  ASSUME HoldInv, NEW s \in Run, Start(s) \/ End(s) \/ Recover(s)
  PROVE  items' = items /\ \A r \in Run : rows'[r] = None <=> rows[r] = None
<1>0. TypeOK
  BY DEF HoldInv
<1>1. ASSUME NEW row, SetRow(s, row), rows[s] # None => row # None
      PROVE  \A r \in Run : rows'[r] = None <=> rows[r] = None
  BY <1>0, <1>1 DEF SetRow, TypeOK
<1>2. rows[s] # None => rows[s] \in Row
  BY <1>0 DEF TypeOK
<1>3. CASE Start(s)
  <2>1. rows[s] # None => [rows[s] EXCEPT !.status = "Running"] \in Row
    BY <1>2 DEF Row, Active
  <2>2. QED
    BY <1>1, <1>3, <2>1 DEF Start
<1>4. ASSUME NEW st \in Ended, SetRow(s, [rows[s] EXCEPT !.status = st, !.finished = today])
      PROVE  \A r \in Run : rows'[r] = None <=> rows[r] = None
  <2>1. today \in Day
    BY <1>0 DEF TypeOK
  <2>2. rows[s] # None => [rows[s] EXCEPT !.status = st, !.finished = today] \in Row
    BY <1>2, <2>1 DEF Row
  <2>3. QED
    BY <1>1, <1>4, <2>2
<1>5. QED
  BY <1>3, <1>4 DEF Start, End, Recover, Ended

LEMMA NextNoOrphans == ASSUME HoldInv, NoOrphans, [Next]_vars PROVE NoOrphans'
<1>0. TypeOK
  BY DEF HoldInv
<1>1. CASE UNCHANGED <<rows, items>>
  BY <1>1 DEF NoOrphans
<1>2. ASSUME NEW r \in Run, AddItem(r) PROVE NoOrphans'
  BY <1>0, <1>2 DEF AddItem, NoOrphans, TypeOK
<1>3. ASSUME NEW r \in Run, Start(r) \/ End(r) \/ Recover(r) PROVE NoOrphans'
  BY <1>3, RowsStay DEF NoOrphans
<1>4. ASSUME NEW r \in Run, Queue(r) PROVE NoOrphans'
  BY <1>0, <1>4 DEF Queue, NoOrphans, TypeOK
<1>5. ASSUME NEW c \in Cleaner, Commit(c) PROVE NoOrphans'
  <2> DEFINE r == current[c]
  <2>1. /\ r \in Run /\ batch[c] = ItemBatch(r) /\ IsExpired(rows[r], now[c])
        /\ items[r] \in Nat /\ rows[r] # None
    BY <1>0, <1>5 DEF Commit, HoldInv, Held, IsExpired, TypeOK
  <2>2. CASE batch[c] > 0
    BY <1>0, <1>5, <2>1, <2>2 DEF Commit, NoOrphans, TypeOK
  <2>3. CASE ~(batch[c] > 0)
    <3>1. items[r] = 0
      BY <2>1, <2>3 DEF ItemBatch
    <3>2. rows' = [rows EXCEPT ![r] = None] /\ items' = items
      BY <1>5, <2>3 DEF Commit
    <3>3. QED
      BY <1>0, <2>1, <3>1, <3>2 DEF NoOrphans, TypeOK
  <2>4. QED
    BY <2>2, <2>3
<1>6. QED
  <2>2. ASSUME NEW r \in Run, Load(r) \/ Dies(r) PROVE UNCHANGED <<rows, items>>
    BY <2>2 DEF Load, Dies
  <2>3. ASSUME NEW c \in Cleaner,
               Begin(c) \/ Page(c) \/ Finish(c) \/ Fail(c) \/ \E r \in Run : Take(c, r)
        PROVE  UNCHANGED <<rows, items>>
    BY <2>3 DEF Begin, Page, Finish, Fail, Take, runVars
  <2>4. Tick \/ UNCHANGED vars => UNCHANGED <<rows, items>>
    BY DEF Tick, vars, runVars
  <2>5. QED
    BY <1>1, <1>2, <1>3, <1>4, <1>5, <2>2, <2>3, <2>4 DEF Next

\* No item is ever left behind by its run, for every number of cleanups and every
\* batch size: the lock on the row, the second look under it and the rule that
\* items are inserted for existing runs are enough, although the insert itself
\* takes no lock.
THEOREM NoOrphansEver == Spec => []NoOrphans
BY InitHoldInv, NextHoldInv, NextNoOrphans, PTL DEF Spec

\* Nothing is deleted of a run that is not expired when the transaction commits,
\* whatever became of it since it was listed.
THEOREM UnexpiredSpared == Spec => SparesUnexpired
<1> DEFINE Spared ==
      \A r \in Run :
        items'[r] < items[r] \/ (rows[r] # None /\ rows'[r] = None) =>
          \E c \in Cleaner : IsExpired(rows[r], now[c])
<1>1. HoldInv /\ [Next]_vars => [Spared]_vars
  <2> SUFFICES ASSUME HoldInv, Next, NEW r \in Run,
                      items'[r] < items[r] \/ (rows[r] # None /\ rows'[r] = None)
               PROVE  \E c \in Cleaner : IsExpired(rows[r], now[c])
    BY DEF vars, runVars
  <2>0. TypeOK /\ items[r] \in Nat
    BY DEF HoldInv, TypeOK
  <2>1. ASSUME NEW s \in Run, AddItem(s) PROVE FALSE
    BY <2>0, <2>1 DEF AddItem, TypeOK
  <2>3. ASSUME NEW s \in Run, Queue(s) PROVE FALSE
    BY <2>0, <2>3 DEF Queue, TypeOK
  <2>4. ASSUME NEW s \in Run, Start(s) \/ End(s) \/ Recover(s) PROVE FALSE
    BY <2>0, <2>4, RowsStay
  <2>5. ASSUME NEW c \in Cleaner, Commit(c) PROVE IsExpired(rows[r], now[c])
    <3>1. current[c] \in Run /\ IsExpired(rows[current[c]], now[c])
      BY <2>5 DEF Commit, HoldInv, Held
    <3>2. r # current[c] => items'[r] = items[r] /\ rows'[r] = rows[r]
      BY <2>0, <2>5, <3>1 DEF Commit, TypeOK
    <3>3. QED
      BY <2>0, <3>1, <3>2
  <2>6. ASSUME UNCHANGED <<rows, items>> PROVE FALSE
    BY <2>0, <2>6
  <2>7. ASSUME NEW s \in Run, Load(s) \/ Dies(s) PROVE UNCHANGED <<rows, items>>
    BY <2>7 DEF Load, Dies
  <2>8. ASSUME NEW c \in Cleaner,
               Begin(c) \/ Page(c) \/ Finish(c) \/ Fail(c) \/ \E s \in Run : Take(c, s)
        PROVE  UNCHANGED <<rows, items>>
    BY <2>8 DEF Begin, Page, Finish, Fail, Take, runVars
  <2>9. Tick => UNCHANGED <<rows, items>>
    BY DEF Tick, runVars
  <2>10. QED
    BY <2>1, <2>3, <2>4, <2>5, <2>6, <2>7, <2>8, <2>9 DEF Next
<1>2. QED
  BY <1>1, InitHoldInv, NextHoldInv, PTL DEF Spec, SparesUnexpired

-----------------------------------------------------------------------------
(* Completeness of the listing *)

\* A run of a range is on its page, or the page is full and the run is behind it.
LEMMA PageCovers ==
  ASSUME HoldInv, NEW i \in DOMAIN Ranges, NEW day, NEW from, NEW last,
         NEW r \in Beyond(i, from, day), r \notin PageOf(i, from, day),
         last \in {Key(m, i) : m \in PageOf(i, from, day)} \cup {None},
         last = None <=> PageOf(i, from, day) = {},
         \A m \in PageOf(i, from, day) : ~Before(last, Key(m, i))
  PROVE  /\ Cardinality(PageOf(i, from, day)) = PageSize
         /\ last # None /\ Before(last, Key(r, i))
<1> DEFINE left == Beyond(i, from, day)
           page == PageOf(i, from, day)
           ahead(s) == {t \in left : Before(Key(t, i), Key(s, i))}
<1>1. left \subseteq Run /\ page \subseteq left /\ IsFiniteSet(Run)
  <2>1. IsFiniteSet(1..MaxRun)
    BY FS_Interval
  <2>2. QED
    BY <2>1 DEF Beyond, PageOf, Run
<1>2. \A S \in SUBSET Run : IsFiniteSet(S) /\ Cardinality(S) \in Nat
  BY <1>1, FS_Subset, FS_CardinalityType
<1>3. \A S, T \in SUBSET Run : S \subseteq T => Cardinality(S) <= Cardinality(T)
  BY <1>2, FS_Subset
<1>4. \A s \in left : ahead(s) \in SUBSET Run
  BY <1>1
<1>5. \A s \in left : s \in page <=> Cardinality(ahead(s)) < PageSize
  BY DEF PageOf
\* Keys are ordered: by stamp, then by name.
<1>6. \A s \in left : /\ Key(s, i).stamp \in Int /\ Key(s, i).name = s /\ s \in Int
  <2>1. \A s \in left : Key(s, i) \in Cursor
    BY KeyType DEF Beyond
  <2>2. \A s \in left : Key(s, i).name = s
    BY DEF Key
  <2>3. QED
    BY <1>1, <2>1, <2>2 DEF Cursor, Day, Run
<1>7. \A s, t \in left :
        s # t => Before(Key(s, i), Key(t, i)) \/ Before(Key(t, i), Key(s, i))
  BY <1>6 DEF Before
<1>8. \A s, t, u \in left :
        Before(Key(s, i), Key(t, i)) /\ Before(Key(t, i), Key(u, i))
          => Before(Key(s, i), Key(u, i))
  BY <1>6 DEF Before
<1>9. \A s \in left : ~Before(Key(s, i), Key(s, i))
  BY <1>6 DEF Before
\* The first run that is left out has the whole page ahead of it.
<1>10. PICK x \in left \ page :
         \A y \in left \ page : ~(ahead(y) \subseteq ahead(x) /\ ahead(y) # ahead(x))
  <2> DEFINE R == StrictSubsetOrdering(Run)
             T == {ahead(s) : s \in left \ page}
  <2>1. IsWellFoundedOn(R, SUBSET Run)
    BY <1>1, FS_StrictSubsetOrderingWellFounded, FS_FiniteSubsetsOfFinite
  <2>2. T \subseteq SUBSET Run
    BY <1>4
  <2>3. r \in left \ page
    OBVIOUS
  <2>4. T # {}
    <3>1. ahead(r) \in T
      BY <2>3
    <3> HIDE DEF T
    <3>2. QED
      BY <3>1
  <2>5. \E X \in T : \A Y \in T : <<Y, X>> \notin R
    <3> HIDE DEF R, T
    <3>1. QED
      BY <2>1, <2>2, <2>4, WFMin
  <2>6. PICK X \in T : \A Y \in T : <<Y, X>> \notin R
    BY <2>5
  <2>7. PICK x \in left \ page : X = ahead(x)
    BY <2>6
  <2>8. \A y \in left \ page : ahead(y) \in T /\ ahead(y) \in SUBSET Run
    BY <1>4
  <2>9. X \in SUBSET Run
    BY <1>4, <2>7
  <2> HIDE DEF T, ahead, page, left
  <2>10. \A Y \in SUBSET Run : Y \subseteq X /\ Y # X => <<Y, X>> \in R
    BY <2>9 DEF StrictSubsetOrdering
  <2>11. QED
    BY <2>6, <2>7, <2>8, <2>10
<1>11. ahead(x) \subseteq page
  <2> SUFFICES ASSUME NEW y \in ahead(x), y \notin page PROVE FALSE
    OBVIOUS
  <2>1. ahead(y) \subseteq ahead(x)
    BY <1>8
  <2>2. y \in ahead(x) /\ y \notin ahead(y)
    BY <1>9
  <2>3. QED
    BY <1>10, <2>1, <2>2
<1>12. Cardinality(page) >= PageSize
  <2>1. Cardinality(ahead(x)) <= Cardinality(page)
    BY <1>1, <1>3, <1>4, <1>11
  <2>2. ~(Cardinality(ahead(x)) < PageSize)
    BY <1>5
  <2>3. Cardinality(ahead(x)) \in Nat /\ Cardinality(page) \in Nat
    BY <1>1, <1>2, <1>4
  <2>4. QED
    BY <2>1, <2>2, <2>3
<1>13. PICK m \in page : last = Key(m, i)
  <2>1. page # {}
    <3>1. page = {} => Cardinality(page) = 0
      BY FS_EmptySet
    <3>2. QED
      BY <1>12, <3>1
  <2>2. QED
    BY <2>1
\* The last run of the page has the rest of it ahead.
<1>14. Cardinality(page) <= PageSize
  <2>1. page \subseteq ahead(m) \cup {m}
    BY <1>1, <1>7, <1>13
  <2>2. Cardinality(ahead(m)) < PageSize /\ ahead(m) \in SUBSET Run /\ m \in Run
    BY <1>1, <1>4, <1>5
  <2>3. /\ Cardinality(ahead(m) \cup {m}) <= Cardinality(ahead(m)) + 1
        /\ ahead(m) \cup {m} \in SUBSET Run
    <3>1. IsFiniteSet(ahead(m)) /\ Cardinality(ahead(m)) \in Nat
      BY <1>2, <2>2
    <3> HIDE DEF ahead
    <3>2. Cardinality(ahead(m) \cup {m}) = IF m \in ahead(m) THEN Cardinality(ahead(m)) ELSE Cardinality(ahead(m)) + 1
      BY <3>1, FS_AddElement
    <3>3. QED
      BY <2>2, <3>1, <3>2
  <2>4. Cardinality(page) <= Cardinality(ahead(m) \cup {m})
    BY <1>1, <1>3, <2>1, <2>3
  <2>5. /\ Cardinality(page) \in Nat /\ Cardinality(ahead(m) \cup {m}) \in Nat
        /\ Cardinality(ahead(m)) \in Nat
    BY <1>1, <1>2, <2>2, <2>3
  <2> HIDE DEF ahead, page
  <2>6. QED
    BY <2>2, <2>3, <2>4, <2>5
<1>15. Before(last, Key(r, i))
  <2> SUFFICES ASSUME ~Before(Key(m, i), Key(r, i)) PROVE FALSE
    BY <1>13
  <2>1. Before(Key(r, i), Key(m, i))
    BY <1>1, <1>7
  <2>2. ahead(r) \subseteq ahead(m)
    BY <1>1, <1>8, <2>1
  <2>3. Cardinality(ahead(r)) <= Cardinality(ahead(m))
    BY <1>1, <1>3, <1>4, <2>2
  <2>4. Cardinality(ahead(m)) < PageSize /\ ~(Cardinality(ahead(r)) < PageSize)
    BY <1>1, <1>5
  <2>5. Cardinality(ahead(r)) \in Nat /\ Cardinality(ahead(m)) \in Nat
    BY <1>1, <1>2, <1>4
  <2> HIDE DEF ahead
  <2>6. QED
    BY <2>3, <2>4, <2>5
<1>16. QED
  <2>1. last # None
    BY <1>13
  <2>2. Cardinality(page) \in Nat
    BY <1>1, <1>2
  <2> HIDE DEF page
  <2>3. Cardinality(page) = PageSize
    BY <1>12, <1>14, <2>2
  <2>4. QED
    BY <1>15, <2>1, <2>3 DEF page

\* What a cleanup still has before it, of the runs expired when it began: its
\* page, the rest of the range, and the ranges after that.
Due(c, r) ==
  \/ r \in queue[c]
  \/ \E j \in DOMAIN Ranges : j > range[c] /\ InRange(r, j, now[c])
  \/ /\ full[c] /\ InRange(r, range[c], now[c])
     /\ cursor[c] # None => Before(cursor[c], Key(r, range[c]))

\* A working cleanup has passed no expired run.
NonePassed ==
  \A c \in Cleaner : pc[c] # "idle" =>
    \A r \in Run : IsExpired(rows[r], now[c]) => Due(c, r)

IdleReset ==
  \A c \in Cleaner :
    pc[c] = "idle" => range[c] = 1 /\ cursor[c] = None /\ queue[c] = {}

ListInv == HoldInv /\ NonePassed /\ IdleReset

LEMMA InitListInv == Init => ListInv
BY InitHoldInv DEF Init, ListInv, NonePassed, IdleReset

LEMMA RangesAre ==
  /\ DOMAIN Ranges = 1..6 /\ Len(Ranges) = 6
  /\ Ranges[1] = <<"Error", "finished">> /\ Ranges[2] = <<"Error", "created">>
  /\ Ranges[3] = <<"Error", "undated">> /\ Ranges[4] = <<"Success", "finished">>
  /\ Ranges[5] = <<"Success", "created">> /\ Ranges[6] = <<"Success", "undated">>
BY DEF Ranges

\* Every expired run belongs to one of the ranges.
LEMMA ExpiredListed ==
  ASSUME NEW r \in Run, NEW day, IsExpired(rows[r], day)
  PROVE  \E i \in DOMAIN Ranges : InRange(r, i, day)
<1> DEFINE st == rows[r].status
<1>1. rows[r] # None /\ st \in {"Error", "Success"}
  BY DEF IsExpired, Ended
<1>2. CASE rows[r].finished # None
  <2>1. Past(rows[r].finished, st, day)
    BY <1>2 DEF IsExpired
  <2>2. st = "Error" => InRange(r, 1, day)
    BY <1>1, <1>2, <2>1, RangesAre DEF InRange, Stamp
  <2>3. st = "Success" => InRange(r, 4, day)
    BY <1>1, <1>2, <2>1, RangesAre DEF InRange, Stamp
  <2>4. QED
    BY <1>1, <2>2, <2>3, RangesAre
<1>3. CASE rows[r].finished = None /\ rows[r].created # None
  <2>1. Past(rows[r].created, st, day)
    BY <1>3 DEF IsExpired
  <2>2. st = "Error" => InRange(r, 2, day)
    BY <1>1, <1>3, <2>1, RangesAre DEF InRange, Stamp
  <2>3. st = "Success" => InRange(r, 5, day)
    BY <1>1, <1>3, <2>1, RangesAre DEF InRange, Stamp
  <2>4. QED
    BY <1>1, <2>2, <2>3, RangesAre
<1>4. CASE rows[r].finished = None /\ rows[r].created = None
  <2>1. st = "Error" => InRange(r, 3, day)
    BY <1>1, <1>4, RangesAre DEF InRange
  <2>2. st = "Success" => InRange(r, 6, day)
    BY <1>1, <1>4, RangesAre DEF InRange
  <2>3. QED
    BY <1>1, <2>1, <2>2, RangesAre
<1>5. QED
  BY <1>2, <1>3, <1>4

\* No step makes a run expire for a cleanup that has begun: what ends now ends on
\* the day the cleanup began or later.
LEMMA ExpiredOld ==
  ASSUME HoldInv, [Next]_vars, NEW c \in Cleaner, now'[c] = now[c],
         NEW r \in Run, IsExpired(rows'[r], now[c])
  PROVE  rows'[r] = rows[r]
<1>0. TypeOK /\ today \in Day /\ today # None /\ now[c] \in Nat /\ now[c] <= today
  BY DEF HoldInv, TypeOK, Clock, Day
<1> SUFFICES ASSUME rows'[r] # rows[r] PROVE FALSE
  OBVIOUS
<1>1. rows'[r] # None /\ rows'[r].status \in Ended
  BY DEF IsExpired
<1>2. rows'[r].finished # today
  <2> SUFFICES ASSUME rows'[r].finished = today PROVE FALSE
    OBVIOUS
  <2>1. Past(today, rows'[r].status, now[c])
    BY <1>0 DEF IsExpired
  <2>2. QED
    BY <1>0, <2>1 DEF Past, Day
<1>3. CASE UNCHANGED rows
  BY <1>3
<1>4. ASSUME NEW s \in Run, NEW row, SetRow(s, row) PROVE rows[r] # None /\ rows'[r] = row /\ s = r
  BY <1>0, <1>1, <1>4 DEF SetRow, TypeOK
<1>5. ASSUME NEW s \in Run, Queue(s) PROVE FALSE
  <2>1. rows'[r].status = "Queued"
    BY <1>0, <1>5 DEF Queue, TypeOK
  <2>2. QED
    BY <1>1, <2>1 DEF Ended
<1>6. ASSUME NEW s \in Run, Start(s) PROVE FALSE
  <2>1. rows[r] # None /\ rows'[r] = [rows[r] EXCEPT !.status = "Running"]
    BY <1>4, <1>6 DEF Start
  <2>2. rows[r] \in Row
    BY <1>0, <2>1 DEF TypeOK
  <2>3. rows'[r].status = "Running"
    BY <2>1, <2>2 DEF Row
  <2>4. QED
    BY <1>1, <2>3 DEF Ended
<1>7. ASSUME NEW s \in Run, End(s) \/ Recover(s) PROVE FALSE
  <2>1. PICK st : SetRow(s, [rows[s] EXCEPT !.status = st, !.finished = today])
    BY <1>7 DEF End, Recover
  <2>2. rows[r] # None /\ rows'[r] = [rows[r] EXCEPT !.status = st, !.finished = today]
    BY <1>4, <2>1
  <2>3. rows[r] \in Row
    BY <1>0, <2>2 DEF TypeOK
  <2>4. rows'[r].finished = today
    BY <2>2, <2>3 DEF Row
  <2>5. QED
    BY <1>2, <2>4
<1>8. ASSUME NEW d \in Cleaner, Commit(d) PROVE FALSE
  <2>1. rows' = rows \/ rows' = [rows EXCEPT ![current[d]] = None]
    BY <1>8 DEF Commit
  <2>2. QED
    BY <1>0, <1>1, <2>1 DEF TypeOK
<1>9. QED
  <2>1. ASSUME NEW s \in Run, Load(s) \/ AddItem(s) \/ Dies(s) PROVE UNCHANGED rows
    BY <2>1 DEF Load, AddItem, Dies
  <2>2. ASSUME NEW d \in Cleaner,
               Begin(d) \/ Page(d) \/ Finish(d) \/ Fail(d) \/ \E s \in Run : Take(d, s)
        PROVE  UNCHANGED rows
    BY <2>2 DEF Begin, Page, Finish, Fail, Take, runVars
  <2>3. Tick \/ UNCHANGED vars => UNCHANGED rows
    BY DEF Tick, vars, runVars
  <2>4. QED
    BY <1>3, <1>5, <1>6, <1>7, <1>8, <2>1, <2>2, <2>3 DEF Next

LEMMA BeginNonePassed ==
  ASSUME ListInv, NEW c \in Cleaner, Begin(c), NEW r \in Run, IsExpired(rows[r], today)
  PROVE  Due(c, r)'
<1>0. TypeOK /\ range[c] = 1 /\ cursor[c] = None
  BY DEF ListInv, HoldInv, IdleReset, Begin
<1>1. /\ rows' = rows /\ range' = range /\ cursor' = cursor
      /\ full'[c] = TRUE /\ now'[c] = today
  BY <1>0 DEF Begin, TypeOK, runVars
<1>2. PICK i \in DOMAIN Ranges : InRange(r, i, today)
  BY ExpiredListed
<1>3. \A j : InRange(r, j, now[c])' <=> InRange(r, j, today)
  BY <1>1 DEF InRange, Stamp
<1>4. CASE i = 1
  BY <1>0, <1>1, <1>2, <1>3, <1>4 DEF Due
<1>5. CASE i # 1
  BY <1>0, <1>1, <1>2, <1>3, <1>5, RangesAre DEF Due
<1>6. QED
  BY <1>4, <1>5

LEMMA PageNonePassed ==
  ASSUME ListInv, NEW c \in Cleaner, Page(c), NEW r \in Run, IsExpired(rows[r], now[c])
  PROVE  Due(c, r)'
<1> DEFINE i == IF full[c] THEN range[c] ELSE range[c] + 1
           from == IF full[c] THEN cursor[c] ELSE None
           page == PageOf(i, from, now[c])
<1>0. TypeOK /\ HoldInv /\ range[c] \in 1..6 /\ full[c] \in BOOLEAN
  BY RangesAre DEF ListInv, HoldInv, TypeOK
<1>1. Due(c, r) /\ queue[c] = {}
  BY DEF ListInv, NonePassed, Page
<1>2. i \in DOMAIN Ranges
  BY <1>0, RangesAre DEF Page
<1>3. PICK last \in {Key(m, i) : m \in page} \cup {None} :
        /\ last = None <=> page = {}
        /\ \A m \in page : ~Before(last, Key(m, i))
        /\ cursor' = [cursor EXCEPT ![c] = last]
  BY DEF Page
<1>4. /\ queue'[c] = page /\ range'[c] = i /\ cursor'[c] = last
      /\ full'[c] = (Cardinality(page) = PageSize)
      /\ rows' = rows /\ now' = now
  BY <1>0, <1>3 DEF Page, TypeOK, runVars
<1>5. \A j : InRange(r, j, now[c])' <=> InRange(r, j, now[c])
  BY <1>4 DEF InRange, Stamp
<1>6. r \in Beyond(i, from, now[c]) \/ \E j \in DOMAIN Ranges : j > i /\ InRange(r, j, now[c])
  <2>1. CASE full[c]
    BY <1>1, <2>1 DEF Due, Beyond
  <2>2. CASE ~full[c]
    <3>1. PICK j \in DOMAIN Ranges : j > range[c] /\ InRange(r, j, now[c])
      BY <1>1, <2>2 DEF Due
    <3>2. j = range[c] + 1 \/ j > range[c] + 1
      BY <1>0, <3>1, RangesAre
    <3>3. QED
      BY <2>2, <3>1, <3>2 DEF Beyond
  <2>3. QED
    BY <1>0, <2>1, <2>2
<1>7. CASE r \in Beyond(i, from, now[c])
  <2>1. CASE r \in page
    BY <1>4, <2>1 DEF Due
  <2>2. CASE r \notin page
    <3>1. Cardinality(page) = PageSize /\ last # None /\ Before(last, Key(r, i))
      <4> HIDE DEF i, from
      <4>1. QED
        BY <1>0, <1>2, <1>3, <1>7, <2>2, PageCovers
    <3>2. InRange(r, i, now[c])
      BY <1>7 DEF Beyond
    <3>3. full'[c] /\ InRange(r, range[c], now[c])' /\ Before(cursor[c], Key(r, range[c]))'
      <4>1. InRange(r, range[c], now[c])'
        BY <1>4, <1>5, <3>2 DEF InRange, Stamp
      <4>2. Before(cursor[c], Key(r, range[c]))'
        BY <1>4, <3>1 DEF Before, Key, Stamp
      <4>3. QED
        BY <1>4, <3>1, <4>1, <4>2
    <3>4. QED
      BY <3>3 DEF Due
  <2>3. QED
    BY <2>1, <2>2
<1>8. CASE \E j \in DOMAIN Ranges : j > i /\ InRange(r, j, now[c])
  BY <1>4, <1>5, <1>8 DEF Due
<1>9. QED
  BY <1>6, <1>7, <1>8

LEMMA NextListInv == ASSUME ListInv, [Next]_vars PROVE ListInv'
<1>0. HoldInv /\ HoldInv' /\ TypeOK /\ NonePassed
  BY NextHoldInv DEF ListInv, HoldInv
<1>1. ASSUME NEW c \in Cleaner, pc'[c] # "idle", NEW r \in Run, IsExpired(rows'[r], now'[c])
      PROVE  Due(c, r)'
  <2>1. CASE Begin(c)
    <3>1. rows' = rows /\ now'[c] = today
      BY <1>0, <2>1 DEF Begin, TypeOK, runVars
    <3>2. QED
      BY <1>1, <2>1, <3>1, BeginNonePassed
  <2>2. CASE Page(c)
    <3>1. rows' = rows /\ now' = now
      BY <2>2 DEF Page, runVars
    <3>2. QED
      BY <1>1, <2>2, <3>1, PageNonePassed
  <2>3. ASSUME pc[c] # "idle", now'[c] = now[c],
               range'[c] = range[c], cursor'[c] = cursor[c], full'[c] = full[c],
               queue'[c] = queue[c] \/ r \in queue'[c]
                 \/ \E s \in Run : queue'[c] = queue[c] \ {s} /\ r # s
        PROVE  Due(c, r)'
    <3>1. rows'[r] = rows[r]
      BY <1>0, <1>1, <2>3, ExpiredOld
    <3>2. Due(c, r)
      BY <1>0, <1>1, <2>3, <3>1 DEF NonePassed
    <3>3. \A j : /\ InRange(r, j, now[c])' <=> InRange(r, j, now[c])
                 /\ Key(r, j)' = Key(r, j)
      BY <2>3, <3>1 DEF InRange, Key, Stamp
    <3>4. InRange(r, range[c], now[c])' <=> InRange(r, range[c], now[c])
      BY <2>3, <3>1 DEF InRange, Stamp
    <3>5. Before(cursor[c], Key(r, range[c]))' <=> Before(cursor[c], Key(r, range[c]))
      BY <2>3, <3>1 DEF Before, Key, Stamp
    <3>6. QED
      BY <2>3, <3>2, <3>3, <3>4, <3>5 DEF Due
  <2>4. ASSUME NEW s \in Run, Take(c, s) PROVE Due(c, r)'
    <3>1. /\ pc[c] # "idle" /\ now' = now /\ range' = range /\ cursor' = cursor
          /\ full' = full /\ rows' = rows
      BY <2>4 DEF Take, runVars
    <3>2. CASE IsExpired(rows[s], now[c])
      BY <2>3, <2>4, <3>1, <3>2 DEF Take
    <3>3. CASE ~IsExpired(rows[s], now[c])
      <4>1. r # s /\ queue'[c] = queue[c] \ {s}
        BY <1>0, <1>1, <2>4, <3>1, <3>3 DEF Take, TypeOK
      <4>2. QED
        BY <2>3, <3>1, <4>1
    <3>4. QED
      BY <3>2, <3>3
  <2>5. CASE Commit(c)
    <3>1. /\ pc[c] # "idle" /\ now' = now /\ range' = range /\ cursor' = cursor
          /\ full' = full /\ current[c] \in Run
      BY <1>0, <2>5 DEF Commit, HoldInv, Held
    <3>2. CASE batch[c] > 0
      BY <2>3, <2>5, <3>1, <3>2 DEF Commit
    <3>3. CASE ~(batch[c] > 0)
      <4>1. queue'[c] = queue[c] \ {current[c]} /\ rows'[current[c]] = None
        BY <1>0, <2>5, <3>1, <3>3 DEF Commit, TypeOK
      <4>2. r # current[c]
        BY <1>1, <4>1 DEF IsExpired
      <4>3. QED
        BY <2>3, <3>1, <4>1, <4>2
    <3>4. QED
      BY <3>2, <3>3
  <2>6. ~Finish(c) /\ ~Fail(c)
    BY <1>0, <1>1 DEF Finish, Fail, Leave, TypeOK
  <2>7. ASSUME NEW d \in Cleaner \ {c},
               Begin(d) \/ Page(d) \/ Finish(d) \/ Commit(d) \/ Fail(d)
                 \/ \E s \in Run : Take(d, s)
        PROVE  Due(c, r)'
    <3>1. /\ pc'[c] = pc[c] /\ now'[c] = now[c] /\ range'[c] = range[c]
          /\ cursor'[c] = cursor[c] /\ full'[c] = full[c] /\ queue'[c] = queue[c]
      BY <1>0, <2>7 DEF Begin, Page, Finish, Commit, Fail, Take, Leave, TypeOK
    <3>2. QED
      BY <1>1, <2>3, <3>1
  <2>8. ASSUME UNCHANGED <<pc, now, range, cursor, full, queue>> PROVE Due(c, r)'
    BY <1>1, <2>3, <2>8
  <2>9. ASSUME NEW s \in Run,
               Queue(s) \/ Load(s) \/ Start(s) \/ AddItem(s) \/ End(s) \/ Recover(s) \/ Dies(s)
        PROVE  UNCHANGED <<pc, now, range, cursor, full, queue>>
    BY <2>9 DEF Queue, Load, Start, AddItem, End, Recover, Dies, Others, listVars
  <2>10. Tick \/ UNCHANGED vars => UNCHANGED <<pc, now, range, cursor, full, queue>>
    BY DEF Tick, vars, listVars
  <2>11. QED
    BY <2>1, <2>2, <2>4, <2>5, <2>6, <2>7, <2>8, <2>9, <2>10 DEF Next
<1>2. IdleReset'
  <2>1. ASSUME NEW c \in Cleaner, Leave(c) PROVE IdleReset'
    BY <1>0, <2>1 DEF Leave, ListInv, IdleReset, TypeOK
  <2>2. ASSUME NEW c \in Cleaner,
               Begin(c) \/ Page(c) \/ Commit(c) \/ \E r \in Run : Take(c, r)
        PROVE  IdleReset'
    <3>1. /\ pc'[c] # "idle"
          /\ \A d \in Cleaner \ {c} : /\ pc'[d] = pc[d] /\ range'[d] = range[d]
                                      /\ cursor'[d] = cursor[d] /\ queue'[d] = queue[d]
      BY <1>0, <2>2 DEF Begin, Page, Commit, Take, TypeOK
    <3>2. QED
      BY <3>1 DEF ListInv, IdleReset
  <2>3. ASSUME UNCHANGED <<pc, range, cursor, queue>> PROVE IdleReset'
    BY <2>3 DEF ListInv, IdleReset
  <2>4. ASSUME NEW s \in Run,
               Queue(s) \/ Load(s) \/ Start(s) \/ AddItem(s) \/ End(s) \/ Recover(s) \/ Dies(s)
        PROVE  UNCHANGED <<pc, range, cursor, queue>>
    BY <2>4 DEF Queue, Load, Start, AddItem, End, Recover, Dies, Others, listVars
  <2>5. Tick \/ UNCHANGED vars => UNCHANGED <<pc, range, cursor, queue>>
    BY DEF Tick, vars, listVars
  <2>6. QED
    BY <2>1, <2>2, <2>3, <2>4, <2>5 DEF Next, Finish, Fail
<1>3. QED
  BY <1>0, <1>1, <1>2 DEF ListInv, NonePassed

\* A cleanup that ends has left no run that was expired when it began, for every
\* page size and any number of cleanups beside it: paging by the key of the last
\* run skips none, although the list becomes shorter between the pages.
THEOREM CleanupCompletes == Spec => CompleteCleanup
<1> DEFINE Complete ==
      \A c \in Cleaner : Finish(c) => \A r \in Run : ~IsExpired(rows[r], now[c])
<1>1. ListInv /\ [Next]_vars => [Complete]_vars
  <2> SUFFICES ASSUME ListInv, NEW c \in Cleaner, Finish(c), NEW r \in Run,
                      IsExpired(rows[r], now[c])
               PROVE  FALSE
    OBVIOUS
  <2>1. Due(c, r) /\ queue[c] = {} /\ ~full[c] /\ range[c] = 6
    BY RangesAre DEF ListInv, NonePassed, Finish
  <2>2. QED
    BY <2>1, RangesAre DEF Due
<1>2. QED
  BY <1>1, InitListInv, NextListInv, PTL DEF Spec, CompleteCleanup
=============================================================================
