------------------------- MODULE RunLifecycleProofs -------------------------
(***************************************************************************)
(* Theorems about RunLifecycle, for every set of processes, every number   *)
(* of runs and crashes and every pair of timeouts.  The last part shows    *)
(* that RunLifecycle implements RunLedger with every setting: what the     *)
(* ledger promises under a condition only (Leased) follows from the        *)
(* invariants that hold under the same condition here.                     *)
(***************************************************************************)
EXTENDS RunLifecycle, TLAPS

USE ProcAssumption, BoundAssumption, TimeAssumption,
    DryRunAssumption, NoneAssumption

-----------------------------------------------------------------------------
(* Type correctness *)

\* The locations at which the code dereferences its run.
MyDefined ==
  \A p \in Proc :
    pc[p] \in {"enqUnlock", "enqSubmit", "start", "engine"} => my[p] \in Run

TypeInv == TypeOK /\ MyDefined

LEMMA InitTypeInv == Init => TypeInv
BY DEF Init, NoRows, TypeInv, TypeOK, MyDefined, Run, Status, Active, EngineOutcome,
       Location

\* Return resets what the process knew, within the types.
LEMMA ReturnType ==
  ASSUME TypeInv, NEW p \in Proc, Return(p)
  PROVE  /\ pc' \in [Proc -> Location]
         /\ my' \in [Proc -> Run \cup {None}]
         /\ seen' \in [Proc -> [Run -> Status]]
         /\ spent' \in [Proc -> 0..StaleTimeout]
         /\ stale' \in [Proc -> SUBSET (Run \X Active)]
         /\ MyDefined'
<1>1. pc' = [pc EXCEPT ![p] = "idle"] /\ my' = [my EXCEPT ![p] = None]
  BY DEF Return, Go
<1>2. MyDefined'
  BY <1>1 DEF TypeInv, TypeOK, MyDefined
<1>3. QED
  BY <1>1, <1>2 DEF TypeInv, TypeOK, Return, Location, NoRows, Status

LEMMA NextTypeInv == TypeInv /\ [Next]_vars => TypeInv'
<1> SUFFICES ASSUME TypeInv, [Next]_vars PROVE TypeInv'
  OBVIOUS
<1> USE DEF TypeInv
<1>1. ASSUME NEW p \in Proc, OpenEnqueue(p) PROVE TypeInv'
  BY <1>1 DEF OpenEnqueue, TypeOK, MyDefined, Go, Location, rowVars, defVars,
     lockVars
<1>2. ASSUME NEW p \in Proc, Dequeue(p) PROVE TypeInv'
  BY <1>2 DEF Dequeue, TypeOK, MyDefined, Go, Location, rowVars, defVars,
     lockVars
<1>3. ASSUME NEW p \in Proc, RunNow(p) PROVE TypeInv'
  BY <1>3 DEF RunNow, TypeOK, MyDefined, Go, Location, rowVars, defVars,
     lockVars
<1>4. ASSUME NEW p \in Proc, RecoverRead(p) PROVE TypeInv'
  <2>1. {<<r, status[r]>> : r \in StaleRows} \in SUBSET (Run \X Active)
    BY DEF StaleRows
  <2>2. QED
    BY <1>4, <2>1 DEF RecoverRead, TypeOK, MyDefined, Go, Location, rowVars,
       defVars, lockVars
<1>5. ASSUME NEW p \in Proc, EnqueueLock(p) PROVE TypeInv'
  BY <1>5 DEF EnqueueLock, Acquire, TypeOK, MyDefined, Go, Location, rowVars,
     defVars
<1>6. ASSUME NEW p \in Proc, LockError(p) PROVE TypeInv'
  BY <1>6, ReturnType DEF LockError, TypeOK, rowVars, defVars, lockVars
<1>7. ASSUME NEW p \in Proc, EnqueueCheck(p) \/ RunCheck(p) PROVE TypeInv'
  BY <1>7 DEF EnqueueCheck, RunCheck, Check, TypeOK, MyDefined, Go, Location,
     rowVars, defVars, lockVars
<1>8. ASSUME NEW p \in Proc, EnqueueCreate(p) \/ RunCreate(p) PROVE TypeInv'
  <2>1. PICK r \in Run, d \in DryRuns, l \in Location :
          /\ status' = [status EXCEPT ![r] = "Queued"]
          /\ dry' = [dry EXCEPT ![r] = d]
          /\ idle' = [idle EXCEPT ![r] = 0]
          /\ my' = [my EXCEPT ![p] = r] /\ pc' = [pc EXCEPT ![p] = l]
    <3>1. ASSUME NEW from, NEW next \in Location, Create(p, from, next)
          PROVE  \E r \in Run, d \in DryRuns, l \in Location :
                   /\ status' = [status EXCEPT ![r] = "Queued"]
                   /\ dry' = [dry EXCEPT ![r] = d]
                   /\ idle' = [idle EXCEPT ![r] = 0]
                   /\ my' = [my EXCEPT ![p] = r] /\ pc' = [pc EXCEPT ![p] = l]
      BY <3>1 DEF Create, Go
    <3>2. "enqUnlock" \in Location /\ "start" \in Location
      BY DEF Location
    <3>3. QED
      BY <1>8, <3>1, <3>2 DEF EnqueueCreate, RunCreate
  <2>2. /\ seen' = [seen EXCEPT ![p] = NoRows]
        /\ UNCHANGED <<jobs, defVars, lockVars, spent, stale, crashes>>
    BY <1>8 DEF EnqueueCreate, RunCreate, Create
  <2>3. NoRows \in [Run -> Status] /\ "Queued" \in Status
    BY DEF NoRows, Status, Active
  <2>4. MyDefined'
    BY <2>1 DEF TypeOK, MyDefined
  <2>5. QED
    <3>1. /\ status' \in [Run -> Status] /\ dry' \in [Run -> BOOLEAN]
          /\ idle' \in [Run -> 0..StaleTimeout]
      BY <2>1, <2>3 DEF TypeOK
    <3>2. my' \in [Proc -> Run \cup {None}] /\ pc' \in [Proc -> Location]
      BY <2>1 DEF TypeOK
    <3>3. seen' \in [Proc -> [Run -> Status]]
      BY <2>2, <2>3 DEF TypeOK
    <3>4. QED
      BY <2>2, <2>4, <3>1, <3>2, <3>3 DEF TypeOK, defVars, lockVars
<1>9. ASSUME NEW p \in Proc, EnqueueUnlock(p) PROVE TypeInv'
  BY <1>9 DEF EnqueueUnlock, Release, TypeOK, MyDefined, Go, Location, rowVars,
     defVars, lockVars
<1>10. ASSUME NEW p \in Proc, Submit(p) PROVE TypeInv'
  BY <1>10, ReturnType DEF Submit, TypeOK, MyDefined, Status, Active, defVars,
     lockVars
<1>11. ASSUME NEW p \in Proc, ExecuteLock(p) PROVE TypeInv'
  BY <1>11 DEF ExecuteLock, Acquire, TypeOK, MyDefined, Go, Location, rowVars,
     defVars
<1>12. ASSUME NEW p \in Proc, Start(p) PROVE TypeInv'
  BY <1>12 DEF Start, TypeOK, MyDefined, Go, Location, Status, Active, defVars,
     lockVars
<1>13. ASSUME NEW p \in Proc, EndEngine(p) PROVE TypeInv'
  <2>1. PICK st \in {"Error"} \cup EngineOutcome : End(p, st)
    BY <1>13 DEF EndEngine, Finish, Fail, TerminalStatus, EngineOutcome
  <2>2. st \in Status
    BY DEF Status
  <2>3. QED
    BY <2>1, <2>2 DEF End, UpdateDefinition, TypeOK, MyDefined, Go, Location,
       defVars, lockVars
<1>14. ASSUME NEW p \in Proc, Unlock(p) PROVE TypeInv'
  BY <1>14, ReturnType DEF Unlock, Release, TypeOK, rowVars, defVars, lockVars
<1>15. ASSUME NEW p \in Proc, RecoverWrite(p) PROVE TypeInv'
  <2>1. \A st : RecoveredStatus(st) \in Status
    BY DEF RecoveredStatus, Status
  <2>2. status' \in [Run -> Status]
    BY <1>15, <2>1 DEF RecoverWrite, TypeOK
  <2>3. lastRun' \in Run \cup {None} /\ lastStatus' \in Status
    <3>1. PICK last \in stale[p] :
            lastRun' = last[1] /\ lastStatus' = RecoveredStatus(last[2])
      BY <1>15 DEF RecoverWrite
    <3>2. last \in Run \X Active
      BY DEF TypeOK
    <3>3. QED
      BY <3>1, <3>2, <2>1
  <2>4. QED
    BY <1>15, <2>2, <2>3, ReturnType DEF RecoverWrite, TypeOK, lockVars
<1>16. ASSUME NEW p \in Proc, Flush(p) PROVE TypeInv'
  BY <1>16 DEF Flush, TypeOK, MyDefined, defVars, lockVars
<1>17. ASSUME NEW p \in Proc, Crash(p) PROVE TypeInv'
  BY <1>17, ReturnType DEF Crash, TypeOK, rowVars, defVars
<1>18. ASSUME Tick PROVE TypeInv'
  <2>1. idle' \in [Run -> 0..StaleTimeout] /\ spent' \in [Proc -> 0..StaleTimeout]
    <3>1. /\ StaleTimeout \in Nat \ {0}
          /\ idle \in [Run -> 0..StaleTimeout] /\ spent \in [Proc -> 0..StaleTimeout]
      BY TimeAssumption DEF TypeOK
    <3>2. idle' \in [Run -> 0..StaleTimeout]
      <4>1. ASSUME NEW r \in Run, idle[r] # StaleTimeout
            PROVE  idle[r] + 1 \in 0..StaleTimeout
        BY <3>1, <4>1
      <4>2. idle' = [r \in Run |->
              IF status[r] = "Absent" \/ idle[r] = StaleTimeout THEN idle[r]
              ELSE idle[r] + 1]
        BY <1>18 DEF Tick
      <4>3. QED
        BY <3>1, <4>1, <4>2
    <3>3. spent' \in [Proc -> 0..StaleTimeout]
      <4>1. ASSUME NEW p \in Proc, pc[p] = "engine"
            PROVE  spent[p] + 1 \in 0..StaleTimeout
        BY <1>18, <3>1, <4>1 DEF Tick, MayTick
      <4>2. spent' = [p \in Proc |->
              IF pc[p] = "engine" THEN spent[p] + 1 ELSE spent[p]]
        BY <1>18 DEF Tick
      <4>3. QED
        BY <3>1, <4>1, <4>2
    <3>4. QED
      BY <3>2, <3>3
  <2>2. owner' \in Proc \cup {None, Dead} /\ ttl' \in 0..LockTimeout
    BY <1>18 DEF Tick, TypeOK
  <2>3. UNCHANGED <<status, dry, jobs, lastRun, lastStatus, pc, my, seen, stale, crashes>>
    BY <1>18 DEF Tick, defVars
  <2>4. QED
    BY <2>1, <2>2, <2>3 DEF TypeOK, MyDefined
<1>19. ASSUME UNCHANGED vars PROVE TypeInv'
  BY <1>19 DEF vars, rowVars, defVars, lockVars, TypeOK, MyDefined
<1>20. QED
  BY <1>1, <1>2, <1>3, <1>4, <1>5, <1>6, <1>7, <1>8, <1>9, <1>10, <1>11, <1>12,
     <1>13, <1>14, <1>15, <1>16, <1>17, <1>18, <1>19 DEF Next, Proceed

\* Every reachable state is well typed, whatever the constants are.
THEOREM TypeCorrect == Spec => []TypeOK
<1>1. Init => TypeInv
  BY InitTypeInv
<1>2. TypeInv /\ [Next]_vars => TypeInv'
  BY NextTypeInv
<1>3. TypeInv => TypeOK
  BY DEF TypeInv
<1>4. QED
  BY <1>1, <1>2, <1>3, PTL DEF Spec

-----------------------------------------------------------------------------
(* The definition's last_run_status *)

\* A recovery holds at most one status per selected row, the one it has read.
StaleFunctional ==
  \A p \in Proc, r \in Run :
    ~(<<r, "Queued">> \in stale[p] /\ <<r, "Running">> \in stale[p])

DefinitionInv == TypeInv /\ StaleFunctional /\ DefinitionAgrees

LEMMA InitDefinitionInv == Init => DefinitionInv
BY InitTypeInv DEF Init, DefinitionInv, StaleFunctional, DefinitionAgrees

LEMMA NextStaleFunctional ==
  TypeInv /\ StaleFunctional /\ [Next]_vars => StaleFunctional'
<1> SUFFICES ASSUME TypeInv, StaleFunctional, [Next]_vars PROVE StaleFunctional'
  OBVIOUS
<1>1. CASE UNCHANGED stale
  BY <1>1 DEF StaleFunctional
<1>2. ASSUME NEW p \in Proc, Return(p) PROVE StaleFunctional'
  BY <1>2 DEF Return, StaleFunctional, TypeInv, TypeOK
<1>3. ASSUME NEW p \in Proc, RecoverRead(p) PROVE StaleFunctional'
  BY <1>3 DEF RecoverRead, StaleRows, StaleFunctional, TypeInv, TypeOK
<1>4. QED
  <2>1. ASSUME NEW p \in Proc, Proceed(p) PROVE Return(p) \/ UNCHANGED stale
    BY <2>1 DEF Proceed, EnqueueLock, LockError, EnqueueCheck, EnqueueCreate,
       EnqueueUnlock, Submit, ExecuteLock, RunCheck, RunCreate, Check, Create,
       Start, EndEngine, Finish, Fail, End, Unlock, RecoverWrite
  <2>2. QED
    BY <1>1, <1>2, <1>3, <2>1 DEF Next, OpenEnqueue, Dequeue, RunNow, Flush,
       Crash, Tick, vars

LEMMA NextDefinitionAgrees ==
  DefinitionInv /\ [Next]_vars => DefinitionAgrees'
<1> SUFFICES ASSUME DefinitionInv, [Next]_vars PROVE DefinitionAgrees'
  OBVIOUS
<1> USE DEF DefinitionInv
<1>1. ASSUME UNCHANGED <<status, dry, lastRun, lastStatus>>
      PROVE  DefinitionAgrees'
  BY <1>1 DEF DefinitionAgrees
<1>2. ASSUME NEW p \in Proc, EnqueueCreate(p) \/ RunCreate(p)
      PROVE  DefinitionAgrees'
  BY <1>2 DEF EnqueueCreate, RunCreate, Create, DefinitionAgrees, TypeInv, TypeOK,
     Active, defVars
<1>3. ASSUME NEW p \in Proc, Submit(p) \/ Start(p) PROVE DefinitionAgrees'
  BY <1>3 DEF Submit, Start, DefinitionAgrees, TypeInv, TypeOK, Active, defVars
<1>4. ASSUME NEW p \in Proc, NEW st, End(p, st) PROVE DefinitionAgrees'
  <2>1. my[p] \in Run
    BY <1>4 DEF TypeInv, MyDefined, End
  <2>2. status' = [status EXCEPT ![my[p]] = st] /\ dry' = dry
    BY <1>4 DEF End
  <2>3. CASE dry[my[p]]
    BY <1>4, <2>1, <2>2, <2>3 DEF End, UpdateDefinition, DefinitionAgrees,
       TypeInv, TypeOK, defVars
  <2>4. CASE ~dry[my[p]]
    BY <1>4, <2>1, <2>2, <2>4 DEF End, UpdateDefinition, DefinitionAgrees,
       TypeInv, TypeOK
  <2>5. QED
    BY <2>3, <2>4
<1>5. ASSUME NEW p \in Proc, RecoverWrite(p) PROVE DefinitionAgrees'
  <2>1. PICK last \in stale[p] :
          lastRun' = last[1] /\ lastStatus' = RecoveredStatus(last[2])
    BY <1>5 DEF RecoverWrite
  <2>2. PICK r \in Run, st \in Active : last = <<r, st>>
    BY DEF TypeInv, TypeOK
  <2>3. status'[r] = RecoveredStatus(st)
    BY <1>5, <2>2 DEF RecoverWrite, StaleFunctional, Active
  <2>4. QED
    BY <2>1, <2>2, <2>3 DEF DefinitionAgrees
<1>6. QED
  <2>1. ASSUME NEW p \in Proc, EndEngine(p) PROVE DefinitionAgrees'
    BY <2>1, <1>4 DEF EndEngine, Finish, Fail
  <2>2. ASSUME NEW p \in Proc,
               EnqueueLock(p) \/ LockError(p) \/ EnqueueCheck(p)
                 \/ EnqueueUnlock(p) \/ ExecuteLock(p) \/ RunCheck(p)
                 \/ Unlock(p) \/ OpenEnqueue(p) \/ Dequeue(p) \/ RunNow(p)
                 \/ RecoverRead(p) \/ Flush(p) \/ Crash(p)
        PROVE  UNCHANGED <<status, dry, lastRun, lastStatus>>
    BY <2>2 DEF EnqueueLock, LockError, EnqueueCheck, EnqueueUnlock, ExecuteLock,
       RunCheck, Check, Unlock, OpenEnqueue, Dequeue, RunNow, RecoverRead, Flush,
       Crash, rowVars, defVars
  <2>3. Tick \/ UNCHANGED vars => UNCHANGED <<status, dry, lastRun, lastStatus>>
    BY DEF Tick, vars, rowVars, defVars
  <2>4. QED
    BY <1>1, <1>2, <1>3, <1>5, <2>1, <2>2, <2>3 DEF Next, Proceed

\* Once the definition's last real run has ended, last_run_status is the status
\* of that row, for any number of processes, runs and crashes: the row and the
\* definition are committed together by every writer that ends a run.
THEOREM DefinitionAgreesAlways == Spec => []DefinitionAgrees
<1>1. Init => DefinitionInv
  BY InitDefinitionInv
<1>2. DefinitionInv /\ [Next]_vars => DefinitionInv'
  BY NextTypeInv, NextStaleFunctional, NextDefinitionAgrees DEF DefinitionInv
<1>3. DefinitionInv => DefinitionAgrees
  BY DEF DefinitionInv
<1>4. QED
  BY <1>1, <1>2, <1>3, PTL DEF Spec

-----------------------------------------------------------------------------
(* The lease *)

\* The code between taking the lock and the engine, or its early release.
Section ==
  {"enqCheck", "enqCreate", "enqUnlock", "runCheck", "runCreate", "start"}

\* A short section is over before its lease has lost a tick.
SectionHoldsLease ==
  \A p \in Proc : pc[p] \in Section => owner = p /\ ttl = LockTimeout

Unspent ==
  \A p \in Proc : pc[p] \notin {"engine", "unlock"} => spent[p] = 0

\* An engine that cannot outlive its lease has used of it at most the time it
\* has run.
EngineHoldsLease ==
  StaleTimeout < LockTimeout =>
    \A p \in Proc :
      pc[p] = "engine" => owner = p /\ ttl + spent[p] >= LockTimeout

LeaseInv == TypeInv /\ SectionHoldsLease /\ Unspent /\ EngineHoldsLease

LEMMA InitLeaseInv == Init => LeaseInv
BY InitTypeInv DEF Init, LeaseInv, SectionHoldsLease, Unspent, EngineHoldsLease,
   Section

\* Leaving for "idle" keeps the lease facts when it takes the lock from nobody
\* else.
LEMMA ReturnLease ==
  ASSUME LeaseInv, NEW p \in Proc, Return(p),
         \/ UNCHANGED lockVars
         \/ owner = p
  PROVE  SectionHoldsLease' /\ Unspent' /\ EngineHoldsLease'
<1>1. /\ pc' = [pc EXCEPT ![p] = "idle"]
      /\ spent' = [spent EXCEPT ![p] = 0]
  BY DEF Return, Go
<1>2. CASE UNCHANGED lockVars
  BY <1>1, <1>2 DEF LeaseInv, TypeInv, TypeOK, SectionHoldsLease, Unspent,
     EngineHoldsLease, Section, lockVars
<1>3. CASE owner = p
  BY <1>1, <1>3 DEF LeaseInv, TypeInv, TypeOK, SectionHoldsLease, Unspent,
     EngineHoldsLease, Section
<1>4. QED
  BY <1>2, <1>3

\* One process moves between locations that hold no lease, and keeps the lock.
LEMMA MoveLease ==
  ASSUME LeaseInv, NEW p \in Proc, NEW l, Go(p, l), UNCHANGED <<lockVars, spent>>,
         l = "engine" => pc[p] \in Section,
         l \in Section => pc[p] \in Section,
         pc[p] = "engine" => l = "unlock",
         pc[p] = "unlock" => l = "unlock"
  PROVE  SectionHoldsLease' /\ Unspent' /\ EngineHoldsLease'
<1>1. pc' = [pc EXCEPT ![p] = l]
  BY DEF Go
<1>2. SectionHoldsLease'
  BY <1>1 DEF LeaseInv, TypeInv, TypeOK, SectionHoldsLease, lockVars
<1>3. Unspent'
  BY <1>1 DEF LeaseInv, TypeInv, TypeOK, Unspent
<1>4. EngineHoldsLease'
  BY <1>1 DEF LeaseInv, TypeInv, TypeOK, SectionHoldsLease, Unspent,
     EngineHoldsLease, Section, lockVars
<1>5. QED
  BY <1>2, <1>3, <1>4

LEMMA NextLeaseInv == ASSUME LeaseInv, [Next]_vars PROVE LeaseInv'
<1> DEFINE Lease == SectionHoldsLease /\ Unspent /\ EngineHoldsLease
<1> SUFFICES Lease'
  BY NextTypeInv DEF LeaseInv
<1>1. ASSUME NEW p \in Proc, NEW l \in {"enqCheck", "runCheck", "start"},
             Acquire(p), Go(p, l), pc[p] \in {"enqWait", "execWait"},
             UNCHANGED spent
      PROVE  Lease'
  <2>1. \A q \in Proc : /\ pc[q] \notin Section
                        /\ StaleTimeout < LockTimeout => pc[q] # "engine"
    BY <1>1 DEF Acquire, LeaseInv, SectionHoldsLease, EngineHoldsLease
  <2>2. pc' = [pc EXCEPT ![p] = l] /\ owner' = p /\ ttl' = LockTimeout
    BY <1>1 DEF Go, Acquire
  <2>3. SectionHoldsLease' /\ EngineHoldsLease'
    BY <2>1, <2>2 DEF LeaseInv, TypeInv, TypeOK, SectionHoldsLease,
       EngineHoldsLease
  <2>4. Unspent'
    BY <1>1, <2>2 DEF LeaseInv, TypeInv, TypeOK, Unspent
  <2>5. QED
    BY <2>3, <2>4
<1>2. ASSUME NEW p \in Proc, EnqueueLock(p) \/ ExecuteLock(p) PROVE Lease'
  BY <1>1, <1>2 DEF EnqueueLock, ExecuteLock
<1>3. ASSUME NEW p \in Proc, EnqueueUnlock(p) PROVE Lease'
  <2>1. owner = p /\ owner' = None /\ ttl' = 0
    BY <1>3 DEF EnqueueUnlock, Release, LeaseInv, SectionHoldsLease, Section
  <2>2. PICK l \in {"enqSubmit", "execWait"} : pc' = [pc EXCEPT ![p] = l]
    BY <1>3 DEF EnqueueUnlock, Go
  <2>3. QED
    BY <1>3, <2>1, <2>2 DEF EnqueueUnlock, LeaseInv, TypeInv, TypeOK,
       SectionHoldsLease, Unspent, EngineHoldsLease, Section
<1>4. ASSUME NEW p \in Proc, OpenEnqueue(p) \/ Dequeue(p) \/ RunNow(p)
                              \/ RecoverRead(p)
      PROVE  Lease'
  BY <1>4, MoveLease DEF OpenEnqueue, Dequeue, RunNow, RecoverRead, Section
<1>5. ASSUME NEW p \in Proc, EnqueueCheck(p) \/ RunCheck(p) PROVE Lease'
  BY <1>5, MoveLease DEF EnqueueCheck, RunCheck, Check, Section
<1>6. ASSUME NEW p \in Proc, EnqueueCreate(p) \/ RunCreate(p) PROVE Lease'
  BY <1>6, MoveLease DEF EnqueueCreate, RunCreate, Create, Section
<1>7. ASSUME NEW p \in Proc, Start(p) PROVE Lease'
  BY <1>7, MoveLease DEF Start, Section
<1>8. ASSUME NEW p \in Proc, EndEngine(p) PROVE Lease'
  <2>1. PICK st : End(p, st)
    BY <1>8 DEF EndEngine, Finish, Fail
  <2>2. QED
    BY <2>1, MoveLease DEF End, Section
<1>9. ASSUME NEW p \in Proc, LockError(p) \/ Submit(p) \/ RecoverWrite(p)
      PROVE  Lease'
  BY <1>9, ReturnLease DEF LockError, Submit, RecoverWrite
<1>10. ASSUME NEW p \in Proc, Unlock(p) PROVE Lease'
  BY <1>10, ReturnLease DEF Unlock, Release
<1>11. ASSUME NEW p \in Proc, Crash(p) PROVE Lease'
  <2>1. Return(p) /\ (owner = p \/ UNCHANGED lockVars)
    BY <1>11 DEF Crash, lockVars
  <2>2. QED
    BY <2>1, ReturnLease
<1>12. ASSUME NEW p \in Proc, Flush(p) PROVE Lease'
  BY <1>12 DEF Flush, LeaseInv, SectionHoldsLease, Unspent, EngineHoldsLease,
     lockVars
<1>13. ASSUME Tick PROVE Lease'
  <2>1. \A p \in Proc :
          \/ pc[p] = "idle"
          \/ pc[p] = "engine" /\ spent[p] < StaleTimeout
    BY <1>13 DEF Tick, MayTick
  <2>2. pc' = pc /\ spent' = [p \in Proc |->
          IF pc[p] = "engine" THEN spent[p] + 1 ELSE spent[p]]
    BY <1>13 DEF Tick
  <2>3. SectionHoldsLease' /\ Unspent'
    BY <2>1, <2>2 DEF LeaseInv, SectionHoldsLease, Unspent, Section
  <2>4. ASSUME StaleTimeout < LockTimeout, NEW p \in Proc, pc[p] = "engine"
        PROVE  owner' = p /\ ttl' + spent'[p] >= LockTimeout
    <3>1. owner = p /\ ttl + spent[p] >= LockTimeout /\ spent[p] < StaleTimeout
      BY <2>1, <2>4 DEF LeaseInv, EngineHoldsLease
    <3>2. /\ spent[p] \in Nat /\ ttl \in Nat
          /\ LockTimeout \in Nat /\ StaleTimeout \in Nat
      BY DEF LeaseInv, TypeInv, TypeOK
    <3>3. ttl > 1
      BY <2>4, <3>1, <3>2
    <3>4. owner' = owner /\ ttl' = ttl - 1
      BY <1>13, <3>2, <3>3 DEF Tick
    <3>5. QED
      BY <2>2, <2>4, <3>1, <3>2, <3>4
  <2>5. QED
    BY <2>2, <2>3, <2>4 DEF EngineHoldsLease
<1>14. ASSUME UNCHANGED vars PROVE Lease'
  BY <1>14 DEF vars, lockVars, LeaseInv, SectionHoldsLease, Unspent,
     EngineHoldsLease
<1>15. QED
  BY <1>2, <1>3, <1>4, <1>5, <1>6, <1>7, <1>8, <1>9, <1>10, <1>11, <1>12, <1>13,
     <1>14 DEF Next, Proceed

\* When the stale period, which is also the job timeout, is shorter than the
\* lock's lease, at most one engine works for the definition, for any number of
\* processes, runs and crashes.  The shipped values do not satisfy the
\* hypothesis.
THEOREM OneEngineIfLeaseOutlastsJobs ==
  StaleTimeout < LockTimeout => (Spec => []OneEngine)
<1> SUFFICES ASSUME StaleTimeout < LockTimeout PROVE Spec => []OneEngine
  OBVIOUS
<1>1. Init => LeaseInv
  BY InitLeaseInv
<1>2. LeaseInv /\ [Next]_vars => LeaseInv'
  BY NextLeaseInv
<1>3. LeaseInv => OneEngine
  BY DEF LeaseInv, EngineHoldsLease, OneEngine
<1>4. QED
  BY <1>1, <1>2, <1>3, PTL DEF Spec

-----------------------------------------------------------------------------
(* Admission *)

\* Whatever a process, a job or a recovery refers to has been inserted.
RowsExist ==
  /\ \A p \in Proc : my[p] # None => status[my[p]] # "Absent"
  /\ \A p \in Proc : \A s \in stale[p] : status[s[1]] # "Absent"
  /\ \A r \in jobs : status[r] # "Absent"

RowsInv == TypeInv /\ RowsExist

LEMMA InitRowsInv == Init => RowsInv
BY InitTypeInv DEF Init, RowsInv, RowsExist

Creates(p) == EnqueueCreate(p) \/ RunCreate(p)

\* Only the two inserts make a row appear, and no row disappears.
LEMMA RowsAppear ==
  ASSUME RowsInv, [Next]_vars, NEW r \in Run
  PROVE  /\ status[r] # "Absent" => status'[r] # "Absent"
         /\ Inserted(r) => \E p \in Proc : Creates(p)
<1>1. ASSUME status' = status
      PROVE  ~Inserted(r) /\ (status[r] # "Absent" => status'[r] # "Absent")
  BY <1>1 DEF Inserted
<1>2. ASSUME NEW p \in Proc, Creates(p)
      PROVE  status[r] # "Absent" => status'[r] # "Absent"
  BY <1>2 DEF Creates, EnqueueCreate, RunCreate, Create, RowsInv, TypeInv, TypeOK
<1>3. ASSUME NEW p \in Proc, NEW st \in Status \ {"Absent"}, my[p] \in Run,
             status' = [status EXCEPT ![my[p]] = st]
      PROVE  ~Inserted(r) /\ (status[r] # "Absent" => status'[r] # "Absent")
  BY <1>3 DEF RowsInv, RowsExist, TypeInv, TypeOK, Inserted, Run
<1>4. ASSUME NEW p \in Proc, Submit(p) \/ Start(p) \/ EndEngine(p)
      PROVE  ~Inserted(r) /\ (status[r] # "Absent" => status'[r] # "Absent")
  <2>1. my[p] \in Run
    BY <1>4 DEF Submit, Start, EndEngine, Finish, Fail, End, RowsInv, TypeInv,
       MyDefined
  <2>2. PICK st \in Status \ {"Absent"} : status' = [status EXCEPT ![my[p]] = st]
    BY <1>4 DEF Submit, Start, EndEngine, Finish, Fail, End, TerminalStatus,
       Status, Active, EngineOutcome
  <2>3. QED
    BY <1>3, <2>1, <2>2
<1>5. ASSUME NEW p \in Proc, RecoverWrite(p)
      PROVE  ~Inserted(r) /\ (status[r] # "Absent" => status'[r] # "Absent")
  <2>1. \A st : RecoveredStatus(st) # "Absent"
    BY DEF RecoveredStatus
  <2>2. \A st : <<r, st>> \in stale[p] => status[r] # "Absent"
    BY DEF RowsInv, RowsExist
  <2>3. QED
    BY <1>5, <2>1, <2>2 DEF RecoverWrite, Inserted
<1>6. ASSUME NEW p \in Proc,
             EnqueueLock(p) \/ LockError(p) \/ EnqueueCheck(p)
               \/ EnqueueUnlock(p) \/ ExecuteLock(p) \/ RunCheck(p)
               \/ Unlock(p) \/ OpenEnqueue(p) \/ Dequeue(p) \/ RunNow(p)
               \/ RecoverRead(p) \/ Flush(p) \/ Crash(p)
      PROVE  status' = status
  BY <1>6 DEF EnqueueLock, LockError, EnqueueCheck, EnqueueUnlock, ExecuteLock,
     RunCheck, Check, Unlock, OpenEnqueue, Dequeue, RunNow, RecoverRead, Flush,
     Crash, rowVars
<1>7. Tick \/ UNCHANGED vars => status' = status
  BY DEF Tick, vars, rowVars
<1>8. QED
  BY <1>1, <1>2, <1>4, <1>5, <1>6, <1>7 DEF Next, Proceed, Creates

LEMMA NextRowsInv == ASSUME RowsInv, [Next]_vars PROVE RowsInv'
<1>1. TypeInv /\ TypeInv'
  BY NextTypeInv DEF RowsInv
<1>2. \A r \in Run : status[r] # "Absent" => status'[r] # "Absent"
  BY RowsAppear
<1>3. ASSUME NEW p \in Proc, my'[p] # None PROVE status'[my'[p]] # "Absent"
  <2>1. my[p] # None => status'[my[p]] # "Absent"
    BY <1>1, <1>2 DEF RowsInv, RowsExist, TypeInv, TypeOK
  <2>2. CASE my' = my
    BY <1>3, <2>1, <2>2
  <2>3. ASSUME NEW q \in Proc, Return(q) PROVE status'[my'[p]] # "Absent"
    BY <1>1, <1>3, <2>1, <2>3 DEF Return, TypeInv, TypeOK
  <2>4. ASSUME NEW q \in Proc, Creates(q) PROVE status'[my'[p]] # "Absent"
    <3>1. PICK r \in Run : /\ status' = [status EXCEPT ![r] = "Queued"]
                           /\ my' = [my EXCEPT ![q] = r]
      BY <2>4 DEF Creates, EnqueueCreate, RunCreate, Create
    <3>2. QED
      BY <1>1, <1>3, <2>1, <3>1 DEF TypeInv, TypeOK
  <2>5. ASSUME NEW q \in Proc, Dequeue(q) PROVE status'[my'[p]] # "Absent"
    <3>1. PICK r \in jobs : my' = [my EXCEPT ![q] = r]
      BY <2>5 DEF Dequeue
    <3>2. r \in Run /\ status[r] # "Absent"
      BY <1>1 DEF RowsInv, RowsExist, TypeInv, TypeOK
    <3>3. QED
      BY <1>1, <1>2, <1>3, <2>1, <3>1, <3>2 DEF TypeInv, TypeOK
  <2>6. ASSUME NEW q \in Proc, Proceed(q), ~Creates(q)
        PROVE  Return(q) \/ my' = my
    BY <2>6 DEF Proceed, Creates, EnqueueLock, LockError, EnqueueCheck,
       EnqueueUnlock, Submit, ExecuteLock, RunCheck, Check, Start, EndEngine,
       Finish, Fail, End, Unlock, RecoverWrite
  <2>7. QED
    BY <2>2, <2>3, <2>4, <2>5, <2>6 DEF Next, OpenEnqueue, RunNow, RecoverRead,
       Flush, Crash, Tick, vars
<1>4. ASSUME NEW p \in Proc, NEW s \in stale'[p]
      PROVE  status'[s[1]] # "Absent"
  <2>1. s[1] \in Run
    BY <1>1 DEF TypeInv, TypeOK
  <2>2. CASE s \in stale[p]
    BY <1>2, <2>1, <2>2 DEF RowsInv, RowsExist
  <2>3. ASSUME NEW q \in Proc, RecoverRead(q) PROVE status'[s[1]] # "Absent"
    <3>1. s \in stale[p] \/ s[1] \in StaleRows
      BY <1>1, <2>3 DEF RecoverRead, TypeInv, TypeOK
    <3>2. s[1] \in StaleRows => status[s[1]] # "Absent"
      BY DEF StaleRows, Active
    <3>3. QED
      BY <1>2, <2>1, <2>2, <3>1, <3>2
  <2>4. ASSUME NEW q \in Proc, Return(q) PROVE s \in stale[p]
    BY <1>1, <2>4 DEF Return, TypeInv, TypeOK
  <2>5. ASSUME NEW q \in Proc, Proceed(q) PROVE Return(q) \/ stale' = stale
    BY <2>5 DEF Proceed, EnqueueLock, LockError, EnqueueCheck, EnqueueCreate,
       EnqueueUnlock, Submit, ExecuteLock, RunCheck, RunCreate, Check, Create,
       Start, EndEngine, Finish, Fail, End, Unlock, RecoverWrite
  <2>6. QED
    BY <2>2, <2>3, <2>4, <2>5 DEF Next, OpenEnqueue, Dequeue, RunNow, Flush,
       Crash, Tick, vars
<1>5. ASSUME NEW r \in jobs' PROVE status'[r] # "Absent"
  <2>1. CASE r \in jobs
    BY <1>1, <1>2, <2>1 DEF RowsInv, RowsExist, TypeInv, TypeOK
  <2>2. CASE r \notin jobs
    <3>1. PICK p \in Proc : Submit(p)
      BY <2>2 DEF Next, Proceed, OpenEnqueue, Dequeue, RunNow, RecoverRead,
         EnqueueLock, LockError, EnqueueCheck, EnqueueCreate, EnqueueUnlock,
         ExecuteLock, RunCheck, RunCreate, Check, Create, Start, EndEngine,
         Finish, Fail, End, Unlock, RecoverWrite, Flush, Crash, Tick, vars
    <3>2. r = my[p] /\ status' = [status EXCEPT ![my[p]] = "Queued"]
      BY <2>2, <3>1 DEF Submit
    <3>3. QED
      BY <1>1, <3>1, <3>2 DEF TypeInv, TypeOK, MyDefined, Submit
  <2>3. QED
    BY <2>1, <2>2
<1>6. QED
  BY <1>1, <1>3, <1>4, <1>5 DEF RowsInv, RowsExist

\* Under the same hypothesis no run is admitted while an engine is at work: who
\* inserts holds the lease, and so does every engine.
THEOREM AdmissionExcludesEnginesIfLeaseOutlastsJobs ==
  StaleTimeout < LockTimeout => (Spec => AdmissionExcludesEngines)
<1> SUFFICES ASSUME StaleTimeout < LockTimeout
             PROVE  Spec => AdmissionExcludesEngines
  OBVIOUS
<1> DEFINE Excludes ==
      (\E r \in Run : Inserted(r)) => \A p \in Proc : pc[p] # "engine"
<1>1. Init => LeaseInv /\ RowsInv
  BY InitLeaseInv, InitRowsInv
<1>2. LeaseInv /\ RowsInv /\ [Next]_vars => (LeaseInv /\ RowsInv)'
  BY NextLeaseInv, NextRowsInv
<1>3. LeaseInv /\ RowsInv /\ [Next]_vars => [Excludes]_vars
  <2> SUFFICES ASSUME LeaseInv, RowsInv, [Next]_vars,
                      NEW r \in Run, Inserted(r),
                      NEW q \in Proc, pc[q] = "engine"
               PROVE  FALSE
    OBVIOUS
  <2>1. PICK p \in Proc : Creates(p)
    BY RowsAppear
  <2>2. pc[p] \in Section /\ pc[p] # "engine"
    BY <2>1 DEF Creates, EnqueueCreate, RunCreate, Create, Section
  <2>3. owner = p /\ owner = q
    BY <2>2 DEF LeaseInv, SectionHoldsLease, EngineHoldsLease
  <2>4. QED
    BY <2>2, <2>3
<1>4. QED
  BY <1>1, <1>2, <1>3, PTL DEF Spec, AdmissionExcludesEngines

\* A run that is being admitted is known to its admitting process alone.
AdmittedAlone ==
  \A p \in Proc :
    pc[p] \in {"enqUnlock", "enqSubmit"} =>
      /\ status[my[p]] = "Queued" /\ idle[my[p]] = 0 /\ my[p] \notin jobs
      /\ \A q \in Proc : q # p => my[q] # my[p]
      /\ \A q \in Proc : \A s \in stale[q] : s[1] # my[p]

AdmissionInv == LeaseInv /\ RowsInv /\ AdmittedAlone

LEMMA InitAdmissionInv == Init => AdmissionInv
BY InitLeaseInv, InitRowsInv DEF Init, AdmissionInv, AdmittedAlone

LEMMA NextAdmittedAlone ==
  ASSUME AdmissionInv, [Next]_vars PROVE AdmittedAlone'
<1> DEFINE Alone(p, r) ==
      /\ status[r] = "Queued" /\ idle[r] = 0 /\ r \notin jobs
      /\ \A q \in Proc : q # p => my[q] # r
      /\ \A q \in Proc : \A s \in stale[q] : s[1] # r
<1> SUFFICES ASSUME NEW p \in Proc, pc'[p] \in {"enqUnlock", "enqSubmit"}
             PROVE  Alone(p, my[p])'
  BY DEF AdmittedAlone
<1> USE DEF AdmissionInv
<1>0. TypeInv /\ TypeInv'
  BY NextTypeInv DEF LeaseInv
<1>1. ASSUME NEW q \in Proc, q # p, NEW l, Go(q, l) PROVE pc'[p] = pc[p]
  BY <1>0, <1>1 DEF Go, TypeInv, TypeOK
<1>2. ASSUME pc[p] \in {"enqUnlock", "enqSubmit"}
      PROVE  Alone(p, my[p]) /\ my[p] \in Run
  BY <1>0, <1>2 DEF AdmittedAlone, TypeInv, MyDefined
\* Another process forgets what it knew.
<1>3. ASSUME NEW q \in Proc, q # p, Return(q), pc[p] \in {"enqUnlock", "enqSubmit"}
      PROVE  /\ pc'[p] = pc[p] /\ my'[p] = my[p]
             /\ \A o \in Proc : o # p => my'[o] # my[p]
             /\ \A o \in Proc : \A s \in stale'[o] : s[1] # my[p]
  BY <1>0, <1>1, <1>2, <1>3 DEF Return, TypeInv, TypeOK, Run
\* The steps of p itself that lead here.
<1>4. ASSUME Creates(p) PROVE Alone(p, my[p])'
  <2>1. PICK r \in Run : /\ status[r] = "Absent"
                         /\ status' = [status EXCEPT ![r] = "Queued"]
                         /\ idle' = [idle EXCEPT ![r] = 0]
                         /\ my' = [my EXCEPT ![p] = r]
    BY <1>4 DEF Creates, EnqueueCreate, RunCreate, Create, Fresh
  <2>2. jobs' = jobs /\ stale' = stale
    BY <1>4 DEF Creates, EnqueueCreate, RunCreate, Create
  <2>3. /\ r \notin jobs
        /\ \A q \in Proc : my[q] # r
        /\ \A q \in Proc : \A s \in stale[q] : s[1] # r
    BY <1>0, <2>1 DEF RowsInv, RowsExist, Run
  <2>4. QED
    BY <1>0, <2>1, <2>2, <2>3 DEF TypeInv, TypeOK
<1>5. ASSUME EnqueueUnlock(p) PROVE Alone(p, my[p])'
  BY <1>2, <1>5 DEF EnqueueUnlock, rowVars
\* The steps of another process.
<1>6. ASSUME NEW q \in Proc, q # p, Creates(q) PROVE Alone(p, my[p])'
  <2>1. PICK r \in Run : /\ status[r] = "Absent"
                         /\ status' = [status EXCEPT ![r] = "Queued"]
                         /\ idle' = [idle EXCEPT ![r] = 0]
                         /\ my' = [my EXCEPT ![q] = r]
    BY <1>6 DEF Creates, EnqueueCreate, RunCreate, Create, Fresh
  <2>2. jobs' = jobs /\ stale' = stale /\ pc'[p] = pc[p]
    BY <1>1, <1>6 DEF Creates, EnqueueCreate, RunCreate, Create
  <2>3. Alone(p, my[p]) /\ my[p] # r
    BY <1>2, <2>1, <2>2
  <2>4. QED
    BY <1>0, <1>2, <1>6, <2>1, <2>2, <2>3 DEF TypeInv, TypeOK
<1>7. ASSUME NEW q \in Proc, q # p, NEW st, my[q] \in Run,
             status' = [status EXCEPT ![my[q]] = st],
             pc[p] \in {"enqUnlock", "enqSubmit"}
      PROVE  status'[my[p]] = "Queued"
  BY <1>0, <1>2, <1>7 DEF TypeInv, TypeOK
<1>8. ASSUME NEW q \in Proc, q # p, Start(q) \/ EndEngine(q)
      PROVE  Alone(p, my[p])'
  <2>1. /\ pc'[p] = pc[p] /\ my[q] \in Run
        /\ UNCHANGED <<idle, jobs, my, stale>>
    BY <1>0, <1>1, <1>8 DEF Start, EndEngine, Finish, Fail, End, TypeInv, MyDefined
  <2>2. PICK st : status' = [status EXCEPT ![my[q]] = st]
    BY <1>8 DEF Start, EndEngine, Finish, Fail, End
  <2>3. QED
    BY <1>2, <1>7, <1>8, <2>1, <2>2
<1>9. ASSUME NEW q \in Proc, q # p, Submit(q) PROVE Alone(p, my[p])'
  <2>1. /\ my[q] \in Run /\ Return(q) /\ idle' = idle
        /\ status' = [status EXCEPT ![my[q]] = "Queued"]
        /\ jobs' = jobs \cup {my[q]}
    BY <1>0, <1>9 DEF Submit, TypeInv, MyDefined
  <2>2. pc[p] \in {"enqUnlock", "enqSubmit"}
    BY <1>1, <1>9, <2>1 DEF Return
  <2>3. QED
    BY <1>2, <1>3, <1>7, <1>9, <2>1, <2>2
<1>10. ASSUME NEW q \in Proc, q # p, RecoverWrite(q) PROVE Alone(p, my[p])'
  <2>1. Return(q) /\ idle' = idle /\ jobs' = jobs
    BY <1>10 DEF RecoverWrite
  <2>2. pc[p] \in {"enqUnlock", "enqSubmit"}
    BY <1>1, <1>10, <2>1 DEF Return
  <2>3. \A st : <<my[p], st>> \notin stale[q]
    BY <1>2, <2>2
  <2>4. status'[my[p]] = status[my[p]]
    BY <1>2, <1>10, <2>2, <2>3 DEF RecoverWrite
  <2>5. QED
    BY <1>2, <1>3, <1>10, <2>1, <2>2, <2>4
<1>11. ASSUME NEW q \in Proc, q # p, RecoverRead(q) PROVE Alone(p, my[p])'
  <2>1. pc'[p] = pc[p] /\ UNCHANGED <<status, idle, jobs, my>>
    BY <1>1, <1>11 DEF RecoverRead, rowVars
  <2>2. stale' = [stale EXCEPT ![q] = {<<r, status[r]>> : r \in StaleRows}]
    BY <1>11 DEF RecoverRead
  <2>3. my[p] \notin StaleRows
    BY <1>2, <2>1 DEF StaleRows
  <2>4. QED
    BY <1>0, <1>2, <2>1, <2>2, <2>3 DEF TypeInv, TypeOK
<1>12. ASSUME NEW q \in Proc, q # p, Dequeue(q) PROVE Alone(p, my[p])'
  <2>1. PICK r \in jobs : jobs' = jobs \ {r} /\ my' = [my EXCEPT ![q] = r]
    BY <1>12 DEF Dequeue
  <2>2. pc'[p] = pc[p] /\ UNCHANGED <<status, idle, stale>>
    BY <1>1, <1>12 DEF Dequeue, rowVars
  <2>3. QED
    BY <1>0, <1>2, <1>12, <2>1, <2>2 DEF TypeInv, TypeOK
<1>13. ASSUME NEW q \in Proc, q # p, Flush(q) PROVE Alone(p, my[p])'
  <2>1. /\ pc' = pc /\ my' = my /\ jobs' = jobs /\ stale' = stale /\ status' = status
        /\ idle' = [idle EXCEPT ![my[q]] = 0]
    BY <1>13 DEF Flush
  <2>2. QED
    BY <1>0, <1>2, <2>1 DEF TypeInv, TypeOK
<1>14. ASSUME NEW q \in Proc, q # p,
              LockError(q) \/ Unlock(q) \/ Crash(q)
       PROVE  Alone(p, my[p])'
  <2>1. Return(q) /\ UNCHANGED <<status, idle, jobs>>
    BY <1>14 DEF LockError, Unlock, Crash, rowVars
  <2>2. pc[p] \in {"enqUnlock", "enqSubmit"}
    BY <1>1, <1>14, <2>1 DEF Return
  <2>3. QED
    BY <1>2, <1>3, <1>14, <2>1, <2>2
<1>15. ASSUME NEW q \in Proc, q # p,
              EnqueueLock(q) \/ EnqueueCheck(q) \/ EnqueueUnlock(q)
                \/ ExecuteLock(q) \/ RunCheck(q) \/ OpenEnqueue(q) \/ RunNow(q)
       PROVE  Alone(p, my[p])'
  <2>1. pc'[p] = pc[p] /\ UNCHANGED <<status, idle, jobs, my, stale>>
    BY <1>1, <1>15 DEF EnqueueLock, EnqueueCheck, EnqueueUnlock, ExecuteLock,
       RunCheck, Check, OpenEnqueue, RunNow, rowVars
  <2>2. QED
    BY <1>2, <2>1
\* No other step of p leads here, and no time passes.
<1>16. ASSUME OpenEnqueue(p) \/ Dequeue(p) \/ RunNow(p) \/ RecoverRead(p)
                \/ EnqueueLock(p) \/ LockError(p) \/ EnqueueCheck(p) \/ Submit(p)
                \/ ExecuteLock(p) \/ RunCheck(p) \/ Start(p) \/ EndEngine(p)
                \/ Unlock(p) \/ RecoverWrite(p) \/ Flush(p) \/ Crash(p)
       PROVE  FALSE
  BY <1>0, <1>16 DEF OpenEnqueue, Dequeue, RunNow, RecoverRead, EnqueueLock,
     LockError, EnqueueCheck, Submit, ExecuteLock, RunCheck, Check, Start,
     EndEngine, Finish, Fail, End, Unlock, RecoverWrite, Flush, Crash, Return, Go,
     TypeInv, TypeOK
<1>17. ~Tick
  BY DEF Tick, MayTick
<1>18. CASE UNCHANGED vars
  BY <1>2, <1>18 DEF vars, rowVars
<1>19. QED
  BY <1>4, <1>5, <1>6, <1>8, <1>9, <1>10, <1>11, <1>12, <1>13, <1>14, <1>15, <1>16,
     <1>17, <1>18 DEF Next, Proceed, Creates

-----------------------------------------------------------------------------
(* A run that has not begun *)

\* A row that is Queued, or that recovery skipped, and that no recovery has seen
\* at work.
NotBegun(r) ==
  /\ status[r] \in {"Queued", "Skipped"}
  /\ \A q \in Proc : <<r, "Running">> \notin stale[q]

\* The run of a waiting job has not begun and no process works for it.
JobsNotBegun ==
  \A r \in jobs : NotBegun(r) /\ \A p \in Proc : my[p] # r

\* Nor has the run of a process on its way to the engine.
MineNotBegun ==
  \A p \in Proc : pc[p] \in Before /\ my[p] # None => NotBegun(my[p])

\* A run has one process.
MineAlone ==
  \A p, q \in Proc : p # q /\ my[p] # None => my[q] # my[p]

IdleForgot == \A p \in Proc : pc[p] = "idle" => my[p] = None

\* A row seen at work does not wait again.
SeenRunning ==
  \A q \in Proc, r \in Run : <<r, "Running">> \in stale[q] => status[r] # "Queued"

PendingInv == JobsNotBegun /\ MineNotBegun /\ MineAlone /\ IdleForgot /\ SeenRunning

LedgerInv == AdmissionInv /\ StaleFunctional /\ PendingInv

LEMMA InitLedgerInv == Init => LedgerInv
BY InitAdmissionInv DEF Init, LedgerInv, StaleFunctional, PendingInv, JobsNotBegun,
   MineNotBegun, MineAlone, IdleForgot, SeenRunning, Before

LEMMA LedgerTypes ==
  ASSUME LedgerInv
  PROVE  /\ TypeInv /\ RowsExist /\ AdmittedAlone
         /\ JobsNotBegun /\ MineNotBegun /\ MineAlone /\ IdleForgot /\ SeenRunning
BY DEF LedgerInv, AdmissionInv, LeaseInv, RowsInv, PendingInv

\* A process that forgets its run and its rows makes nothing begin.
LEMMA ReturnPending ==
  ASSUME LedgerInv, NEW p \in Proc, Return(p), UNCHANGED <<status, jobs>>
  PROVE  PendingInv'
<1>1. /\ pc' = [pc EXCEPT ![p] = "idle"]
      /\ my' = [my EXCEPT ![p] = None]
      /\ stale' = [stale EXCEPT ![p] = {}]
  BY DEF Return, Go
<1>2. \A r : NotBegun(r) => NotBegun(r)'
  BY <1>1, LedgerTypes DEF NotBegun, TypeInv, TypeOK
<1>3. \A q \in Proc : (my'[q] = my[q] /\ pc'[q] = pc[q]) \/ my'[q] = None
  BY <1>1, LedgerTypes DEF TypeInv, TypeOK
<1>4. JobsNotBegun'
  <2>1. \A r \in jobs : r # None
    BY LedgerTypes DEF TypeInv, TypeOK, Run
  <2>2. QED
    BY <1>2, <1>3, <2>1, LedgerTypes DEF JobsNotBegun
<1>5. MineNotBegun' /\ MineAlone'
  BY <1>2, <1>3, LedgerTypes DEF MineNotBegun, MineAlone
<1>6. IdleForgot'
  BY <1>1, LedgerTypes DEF IdleForgot, TypeInv, TypeOK
<1>7. SeenRunning'
  BY <1>1, LedgerTypes DEF SeenRunning, TypeInv, TypeOK
<1>8. QED
  BY <1>4, <1>5, <1>6, <1>7 DEF PendingInv

\* Nor does one that moves on without touching rows, jobs and what is known.
LEMMA MovePending ==
  ASSUME LedgerInv, NEW p \in Proc, NEW l, Go(p, l), l # "idle",
         UNCHANGED <<status, jobs, my, stale>>,
         l \in Before => pc[p] \in Before \/ my[p] = None
  PROVE  PendingInv'
<1>1. pc' = [pc EXCEPT ![p] = l]
  BY DEF Go
<1>2. \A r : NotBegun(r) => NotBegun(r)'
  BY DEF NotBegun
<1>3. JobsNotBegun' /\ MineAlone' /\ SeenRunning'
  BY <1>2, LedgerTypes DEF JobsNotBegun, MineAlone, SeenRunning
<1>4. MineNotBegun' /\ IdleForgot'
  BY <1>1, <1>2, LedgerTypes DEF MineNotBegun, IdleForgot, TypeInv, TypeOK
<1>5. QED
  BY <1>3, <1>4 DEF PendingInv

\* The engine's own writes concern a run that is on nobody else's way.
LEMMA EnginePending ==
  ASSUME LedgerInv, NEW p \in Proc, NEW st, st # "Queued", NEW l, Go(p, l),
         l \notin Before \cup {"idle"}, my[p] \in Run,
         status' = [status EXCEPT ![my[p]] = st],
         UNCHANGED <<jobs, my, stale>>
  PROVE  PendingInv'
<1>1. pc' = [pc EXCEPT ![p] = l]
  BY DEF Go
<1>2. \A r \in Run : NotBegun(r) /\ r # my[p] => NotBegun(r)'
  BY LedgerTypes DEF NotBegun, TypeInv, TypeOK
<1>3. JobsNotBegun'
  BY <1>2, LedgerTypes DEF JobsNotBegun, TypeInv, TypeOK
<1>4. MineNotBegun'
  <2> SUFFICES ASSUME NEW q \in Proc, pc'[q] \in Before, my'[q] # None
               PROVE  NotBegun(my[q])'
    BY DEF MineNotBegun
  <2>1. q # p /\ pc[q] \in Before /\ my[q] \in Run /\ my'[q] = my[q]
    BY <1>1, LedgerTypes DEF TypeInv, TypeOK
  <2>2. NotBegun(my[q]) /\ my[q] # my[p]
    BY <2>1, LedgerTypes DEF MineNotBegun, MineAlone
  <2>3. QED
    BY <1>2, <2>1, <2>2
<1>5. MineAlone' /\ IdleForgot'
  BY <1>1, LedgerTypes DEF MineAlone, IdleForgot, TypeInv, TypeOK
<1>6. SeenRunning'
  BY LedgerTypes DEF SeenRunning, TypeInv, TypeOK
<1>7. QED
  BY <1>3, <1>4, <1>5, <1>6 DEF PendingInv

LEMMA CreatePending ==
  ASSUME LedgerInv, NEW p \in Proc, Creates(p) PROVE PendingInv'
<1>1. PICK r \in Run : /\ status[r] = "Absent"
                       /\ status' = [status EXCEPT ![r] = "Queued"]
                       /\ my' = [my EXCEPT ![p] = r]
  BY DEF Creates, EnqueueCreate, RunCreate, Create, Fresh
<1>2. jobs' = jobs /\ stale' = stale
  BY DEF Creates, EnqueueCreate, RunCreate, Create
<1>3. PICK l \in Before : pc' = [pc EXCEPT ![p] = l]
  BY DEF Creates, EnqueueCreate, RunCreate, Create, Go, Before
<1>4. /\ r \notin jobs /\ r # None
      /\ \A q \in Proc : my[q] # r
      /\ \A q \in Proc : \A st : <<r, st>> \notin stale[q]
  BY <1>1, LedgerTypes DEF RowsExist, Run
<1>5. \A o \in Run : NotBegun(o) => NotBegun(o)'
  BY <1>1, <1>2, LedgerTypes DEF NotBegun, TypeInv, TypeOK
<1>6. NotBegun(r)'
  BY <1>1, <1>2, <1>4, LedgerTypes DEF NotBegun, TypeInv, TypeOK
<1>7. JobsNotBegun'
  BY <1>1, <1>2, <1>4, <1>5, LedgerTypes DEF JobsNotBegun, TypeInv, TypeOK
<1>8. MineNotBegun'
  BY <1>1, <1>3, <1>5, <1>6, LedgerTypes DEF MineNotBegun, TypeInv, TypeOK
<1>9. MineAlone' /\ IdleForgot'
  BY <1>1, <1>3, <1>4, LedgerTypes DEF MineAlone, IdleForgot, Before, TypeInv, TypeOK
<1>10. SeenRunning'
  BY <1>1, <1>2, <1>4, LedgerTypes DEF SeenRunning, TypeInv, TypeOK
<1>11. QED
  BY <1>7, <1>8, <1>9, <1>10 DEF PendingInv

\* The run handed to RQ is known to its process alone, and is Queued.
LEMMA SubmitPending ==
  ASSUME LedgerInv, NEW p \in Proc, Submit(p)
  PROVE  status' = status /\ PendingInv'
<1>1. /\ my[p] \in Run /\ status[my[p]] = "Queued"
      /\ \A q \in Proc : q # p => my[q] # my[p]
      /\ \A q \in Proc : \A s \in stale[q] : s[1] # my[p]
  BY LedgerTypes DEF Submit, TypeInv, MyDefined, AdmittedAlone
<1>2. status' = status
  BY <1>1, LedgerTypes DEF Submit, TypeInv, TypeOK
<1>3. /\ pc' = [pc EXCEPT ![p] = "idle"]
      /\ my' = [my EXCEPT ![p] = None]
      /\ stale' = [stale EXCEPT ![p] = {}]
      /\ jobs' = jobs \cup {my[p]}
  BY DEF Submit, Return, Go
<1>4. NotBegun(my[p])
  BY <1>1, LedgerTypes DEF NotBegun
<1>5. \A r : NotBegun(r) => NotBegun(r)'
  BY <1>2, <1>3, LedgerTypes DEF NotBegun, TypeInv, TypeOK
<1>6. \A q \in Proc : q # p => my'[q] = my[q] /\ pc'[q] = pc[q]
  BY <1>3, LedgerTypes DEF TypeInv, TypeOK
<1>7. my'[p] = None /\ pc'[p] = "idle"
  BY <1>3, LedgerTypes DEF TypeInv, TypeOK
<1>8. JobsNotBegun'
  <2> SUFFICES ASSUME NEW r \in jobs' PROVE NotBegun(r)' /\ \A q \in Proc : my'[q] # r
    BY DEF JobsNotBegun
  <2>1. r # None
    BY <1>1, <1>3, LedgerTypes DEF TypeInv, TypeOK, Run
  <2>2. QED
    BY <1>1, <1>3, <1>4, <1>5, <1>6, <1>7, <2>1, LedgerTypes DEF JobsNotBegun
<1>9. MineNotBegun' /\ MineAlone'
  BY <1>5, <1>6, <1>7, LedgerTypes DEF MineNotBegun, MineAlone
<1>10. IdleForgot'
  BY <1>6, <1>7, LedgerTypes DEF IdleForgot
<1>11. SeenRunning'
  BY <1>2, <1>3, LedgerTypes DEF SeenRunning, TypeInv, TypeOK
<1>12. QED
  BY <1>2, <1>8, <1>9, <1>10, <1>11 DEF PendingInv

LEMMA NextPendingInv == ASSUME LedgerInv, [Next]_vars PROVE PendingInv'
<1>1. ASSUME NEW p \in Proc, OpenEnqueue(p) \/ EnqueueLock(p) \/ EnqueueCheck(p)
               \/ EnqueueUnlock(p) \/ ExecuteLock(p) \/ RunCheck(p) \/ RunNow(p)
      PROVE  PendingInv'
  <2>1. pc[p] = "idle" => my[p] = None
    BY LedgerTypes DEF IdleForgot
  <2>2. QED
    BY <1>1, <2>1, MovePending DEF OpenEnqueue, EnqueueLock, EnqueueCheck, EnqueueUnlock,
       ExecuteLock, RunCheck, RunNow, Check, Before, rowVars
<1>2. ASSUME NEW p \in Proc, LockError(p) \/ Unlock(p) \/ Crash(p) PROVE PendingInv'
  BY <1>2, ReturnPending DEF LockError, Unlock, Crash, rowVars
<1>3. ASSUME NEW p \in Proc, Creates(p) PROVE PendingInv'
  BY <1>3, CreatePending
<1>4. ASSUME NEW p \in Proc, Submit(p) PROVE PendingInv'
  BY <1>4, SubmitPending
<1>5. ASSUME NEW p \in Proc, Start(p) PROVE PendingInv'
  <2>1. my[p] \in Run
    BY <1>5, LedgerTypes DEF Start, TypeInv, MyDefined
  <2>2. QED
    BY <1>5, <2>1, EnginePending DEF Start, Before
<1>6. ASSUME NEW p \in Proc, EndEngine(p) PROVE PendingInv'
  <2>1. PICK st \in {"Error"} \cup EngineOutcome : End(p, st)
    BY <1>6 DEF EndEngine, Finish, Fail, TerminalStatus, EngineOutcome
  <2>2. my[p] \in Run
    BY <2>1, LedgerTypes DEF End, TypeInv, MyDefined
  <2>3. QED
    BY <2>1, <2>2, EnginePending DEF End, EngineOutcome, Before
<1>7. ASSUME NEW p \in Proc, Dequeue(p) PROVE PendingInv'
  <2>1. PICK r \in jobs : jobs' = jobs \ {r} /\ my' = [my EXCEPT ![p] = r]
    BY <1>7 DEF Dequeue
  <2>2. pc' = [pc EXCEPT ![p] = "execWait"] /\ status' = status /\ stale' = stale
    BY <1>7 DEF Dequeue, Go, rowVars
  <2>3. NotBegun(r) /\ \A q \in Proc : my[q] # r
    BY LedgerTypes DEF JobsNotBegun
  <2>4. \A o : NotBegun(o) => NotBegun(o)'
    BY <2>2 DEF NotBegun
  <2>5. JobsNotBegun' /\ MineNotBegun'
    BY <2>1, <2>2, <2>3, <2>4, LedgerTypes DEF JobsNotBegun, MineNotBegun, TypeInv, TypeOK
  <2>6. MineAlone' /\ IdleForgot' /\ SeenRunning'
    BY <2>1, <2>2, <2>3, LedgerTypes DEF MineAlone, IdleForgot, SeenRunning, TypeInv, TypeOK
  <2>7. QED
    BY <2>5, <2>6 DEF PendingInv
<1>8. ASSUME NEW p \in Proc, RecoverRead(p) PROVE PendingInv'
  <2>1. /\ stale' = [stale EXCEPT ![p] = {<<r, status[r]>> : r \in StaleRows}]
        /\ pc' = [pc EXCEPT ![p] = "recover"]
        /\ status' = status /\ jobs' = jobs /\ my' = my
    BY <1>8 DEF RecoverRead, Go, rowVars
  <2>2. \A r : NotBegun(r) => NotBegun(r)'
    BY <2>1, LedgerTypes DEF NotBegun, StaleRows, TypeInv, TypeOK
  <2>3. SeenRunning'
    BY <2>1, LedgerTypes DEF SeenRunning, StaleRows, TypeInv, TypeOK
  <2>4. JobsNotBegun' /\ MineNotBegun' /\ MineAlone' /\ IdleForgot'
    BY <2>1, <2>2, LedgerTypes DEF JobsNotBegun, MineNotBegun, MineAlone, IdleForgot,
       Before, TypeInv, TypeOK
  <2>5. QED
    BY <2>3, <2>4 DEF PendingInv
<1>9. ASSUME NEW p \in Proc, RecoverWrite(p) PROVE PendingInv'
  <2>1. /\ pc' = [pc EXCEPT ![p] = "idle"]
        /\ my' = [my EXCEPT ![p] = None]
        /\ stale' = [stale EXCEPT ![p] = {}] /\ jobs' = jobs
    BY <1>9 DEF RecoverWrite, Return, Go
  <2>2. \A r \in Run :
          \/ status'[r] = status[r]
          \/ status'[r] = "Skipped"
          \/ <<r, "Running">> \in stale[p] /\ status'[r] = "Error"
    BY <1>9 DEF RecoverWrite, RecoveredStatus
  <2>3. \A r \in Run : NotBegun(r) => NotBegun(r)'
    BY <2>1, <2>2, LedgerTypes DEF NotBegun, TypeInv, TypeOK
  <2>4. \A q \in Proc : (my'[q] = my[q] /\ pc'[q] = pc[q]) \/ my'[q] = None
    BY <2>1, LedgerTypes DEF TypeInv, TypeOK
  <2>5. JobsNotBegun'
    <3>1. \A r \in jobs : r \in Run /\ r # None
      BY LedgerTypes DEF TypeInv, TypeOK, Run
    <3>2. QED
      BY <2>1, <2>3, <2>4, <3>1, LedgerTypes DEF JobsNotBegun
  <2>6. MineNotBegun' /\ MineAlone'
    BY <2>3, <2>4, LedgerTypes DEF MineNotBegun, MineAlone, TypeInv, TypeOK
  <2>7. IdleForgot' /\ SeenRunning'
    BY <2>1, <2>2, LedgerTypes DEF IdleForgot, SeenRunning, TypeInv, TypeOK
  <2>8. QED
    BY <2>5, <2>6, <2>7 DEF PendingInv
<1>10. ASSUME UNCHANGED <<status, jobs, pc, my, stale>> PROVE PendingInv'
  BY <1>10, LedgerTypes DEF PendingInv, JobsNotBegun, MineNotBegun, MineAlone,
     IdleForgot, SeenRunning, NotBegun
<1>11. (\E p \in Proc : Flush(p)) \/ Tick \/ UNCHANGED vars
         => UNCHANGED <<status, jobs, pc, my, stale>>
  BY DEF Flush, Tick, vars, rowVars
<1>12. QED
  BY <1>1, <1>2, <1>3, <1>4, <1>5, <1>6, <1>7, <1>8, <1>9, <1>10, <1>11
     DEF Next, Proceed, Creates

-----------------------------------------------------------------------------
(* What a snapshot still says *)

\* Where a process has an open transaction that may hold an old snapshot.
Reading ==
  {"enqWait", "enqCheck", "enqCreate", "execWait", "runCheck", "runCreate", "unlock"}

\* Elsewhere it has none, nor when it comes with a run.
NoSnapshot(p) == pc[p] \notin Reading \/ my[p] # None

Blank == \A p \in Proc : NoSnapshot(p) => seen[p] = NoRows

\* Who is about to insert saw no active row.
SawNoneActive ==
  \A p \in Proc :
    pc[p] \in {"enqCreate", "runCreate"} => \A r \in Run : seen[p][r] \notin Active

Ended(st) == st \notin Active \cup {"Absent"}

\* The engine of r, or a killed one, has the lock.
LockedFor(r) == owner = Dead \/ (owner \in Proc /\ pc[owner] = "engine" /\ my[owner] = r)

\* A row that some snapshot shows skipped or ended is not Queued again, and where
\* a late job began it the lock has not been given back since.
EndedStays ==
  \A p \in Proc, r \in Run : Ended(seen[p][r]) =>
    /\ status[r] \notin {"Absent", "Queued"}
    /\ status[r] = "Running" => LockedFor(r)

SnapshotInv == LedgerInv /\ Blank /\ SawNoneActive /\ EndedStays

LEMMA InitSnapshotInv == Init => SnapshotInv
<1> SUFFICES ASSUME Init PROVE SnapshotInv
  OBVIOUS
<1>1. \A p \in Proc : pc[p] = "idle" /\ seen[p] = NoRows
  BY DEF Init
<1>2. \A p \in Proc, r \in Run : seen[p][r] = "Absent"
  BY <1>1 DEF NoRows
<1>3. Blank /\ SawNoneActive /\ EndedStays
  BY <1>1, <1>2 DEF Blank, SawNoneActive, EndedStays, Ended
<1>4. QED
  BY <1>3, InitLedgerInv DEF SnapshotInv

\* What p's own step does to where processes read.
LEMMA NextBlank == ASSUME SnapshotInv, [Next]_vars PROVE Blank' /\ SawNoneActive'
<1>0. TypeInv /\ Blank /\ SawNoneActive
  BY LedgerTypes DEF SnapshotInv
\* A step that leaves the snapshots alone.
<1>1. ASSUME NEW p \in Proc, NEW l, Go(p, l), seen' = seen,
             \A q \in Proc : q # p => my'[q] = my[q],
             l \notin Reading \/ my'[p] # None => NoSnapshot(p),
             l \in {"enqCreate", "runCreate"} => \A r \in Run : seen[p][r] \notin Active
      PROVE  Blank' /\ SawNoneActive'
  BY <1>0, <1>1 DEF Go, Blank, NoSnapshot, SawNoneActive, TypeInv, TypeOK
<1>2. ASSUME NEW p \in Proc, Return(p) PROVE Blank' /\ SawNoneActive'
  BY <1>0, <1>2 DEF Return, Go, Blank, NoSnapshot, SawNoneActive, TypeInv, TypeOK
<1>3. ASSUME NEW p \in Proc, OpenEnqueue(p) \/ RunNow(p) PROVE Blank' /\ SawNoneActive'
  <2>1. my[p] = None
    BY <1>3, LedgerTypes DEF SnapshotInv, IdleForgot, OpenEnqueue, RunNow
  <2>2. QED
    BY <1>0, <1>3, <2>1 DEF OpenEnqueue, RunNow, Go, Blank, NoSnapshot, SawNoneActive,
       Reading, TypeInv, TypeOK
<1>4. ASSUME NEW p \in Proc, Creates(p) PROVE Blank' /\ SawNoneActive'
  <2>1. PICK l \in {"enqUnlock", "start"} :
          /\ pc' = [pc EXCEPT ![p] = l] /\ seen' = [seen EXCEPT ![p] = NoRows]
          /\ \A q \in Proc : q # p => my'[q] = my[q]
    BY <1>0, <1>4 DEF Creates, EnqueueCreate, RunCreate, Create, Go, TypeInv, TypeOK
  <2>2. QED
    BY <1>0, <2>1 DEF Blank, NoSnapshot, SawNoneActive, TypeInv, TypeOK
<1>5. ASSUME NEW p \in Proc, EnqueueCheck(p) \/ RunCheck(p)
      PROVE  Blank' /\ SawNoneActive'
  BY <1>1, <1>5 DEF EnqueueCheck, RunCheck, Check, SeesActiveRun, Reading, NoSnapshot
<1>6. ASSUME NEW p \in Proc,
             EnqueueLock(p) \/ EnqueueUnlock(p) \/ ExecuteLock(p) \/ Start(p)
               \/ EndEngine(p) \/ Dequeue(p) \/ RecoverRead(p)
      PROVE  Blank' /\ SawNoneActive'
  <2>1. PICK l : /\ Go(p, l) /\ seen' = seen
                 /\ \A q \in Proc : q # p => my'[q] = my[q]
                 /\ l \notin Reading \/ my'[p] # None => NoSnapshot(p)
                 /\ l \notin {"enqCreate", "runCreate"}
    <3>1. CASE EnqueueUnlock(p)
      <4>1. PICK l \in {"enqSubmit", "execWait"} : Go(p, l)
        BY <3>1 DEF EnqueueUnlock
      <4>2. seen' = seen /\ my' = my /\ NoSnapshot(p)
        BY <3>1 DEF EnqueueUnlock, Reading, NoSnapshot
      <4>3. QED
        BY <4>1, <4>2
    <3>2. CASE EnqueueLock(p) \/ Start(p) \/ RecoverRead(p)
      BY <3>2 DEF EnqueueLock, Start, RecoverRead, Reading, NoSnapshot
    <3>3. CASE Dequeue(p)
      BY <1>0, <3>3 DEF Dequeue, Reading, NoSnapshot, TypeInv, TypeOK
    <3>4. CASE ExecuteLock(p)
      <4>1. PICK l \in {"runCheck", "start"} : Go(p, l) /\ (l = "start" => my[p] # None)
        BY <3>4 DEF ExecuteLock
      <4>2. QED
        BY <3>4, <4>1 DEF ExecuteLock, Reading, NoSnapshot
    <3>5. CASE EndEngine(p)
      BY <3>5 DEF EndEngine, Finish, Fail, End, Reading, NoSnapshot
    <3>6. QED
      BY <1>6, <3>1, <3>2, <3>3, <3>4, <3>5
  <2>2. QED
    BY <1>1, <2>1
<1>7. ASSUME NEW p \in Proc,
             LockError(p) \/ Submit(p) \/ Unlock(p) \/ RecoverWrite(p) \/ Crash(p)
      PROVE  Blank' /\ SawNoneActive'
  BY <1>2, <1>7 DEF LockError, Submit, Unlock, RecoverWrite, Crash
<1>8. (\E p \in Proc : Flush(p)) \/ Tick \/ UNCHANGED vars => Blank' /\ SawNoneActive'
  <2>1. (\E p \in Proc : Flush(p)) \/ Tick \/ UNCHANGED vars
          => pc' = pc /\ my' = my /\ seen' = seen
    BY DEF Flush, Tick, vars
  <2>2. QED
    BY <1>0, <2>1 DEF Blank, NoSnapshot, SawNoneActive
<1>9. QED
  BY <1>3, <1>4, <1>5, <1>6, <1>7, <1>8 DEF Next, Proceed, Creates

LEMMA NextEndedStays == ASSUME SnapshotInv, [Next]_vars PROVE EndedStays'
<1> SUFFICES ASSUME NEW p \in Proc, NEW r \in Run, Ended(seen'[p][r])
             PROVE  /\ status'[r] \notin {"Absent", "Queued"}
                    /\ status'[r] = "Running" => LockedFor(r)'
  BY DEF EndedStays, Ended
<1> DEFINE Stays == /\ status[r] \notin {"Absent", "Queued"}
                    /\ status[r] = "Running" => LockedFor(r)
<1>0. TypeInv /\ Blank /\ EndedStays /\ SectionHoldsLease
  BY LedgerTypes DEF SnapshotInv, LedgerInv, AdmissionInv, LeaseInv
\* What p read, it has read before, unless it opens its transaction now.
<1>1. CASE Ended(seen[p][r])
  <2>0. Stays
    BY <1>0, <1>1 DEF EndedStays
  \* A process that is at no engine moves, and the lock stays where it is.
  <2>1. ASSUME NEW q \in Proc, pc[q] # "engine", UNCHANGED <<status, owner>>,
               \A o \in Proc : o # q => pc'[o] = pc[o] /\ my'[o] = my[o]
        PROVE  Stays'
    BY <2>0, <2>1 DEF LockedFor
  \* The lock is free, or its owner is at no engine: no such row is at work.
  <2>2. ASSUME owner # Dead, \/ owner = None
                             \/ owner \in Proc /\ pc[owner] # "engine"
        PROVE  status[r] # "Running"
    BY <2>0, <2>2 DEF LockedFor
  <2>3. ASSUME NEW q \in Proc, EnqueueLock(q) \/ ExecuteLock(q) PROVE Stays'
    <3>1. owner = None /\ status' = status
      BY <2>3 DEF EnqueueLock, ExecuteLock, Acquire, rowVars
    <3>2. QED
      BY <2>0, <2>2, <3>1
  <2>4. ASSUME NEW q \in Proc, EnqueueUnlock(q) \/ Unlock(q) PROVE Stays'
    <3>1. pc[q] # "engine" /\ status' = status
      BY <2>4 DEF EnqueueUnlock, Unlock, rowVars
    <3>2. CASE owner = q
      BY <2>0, <2>2, <3>1, <3>2
    <3>3. CASE owner # q
      <4>1. owner' = owner
        BY <2>4, <3>3 DEF EnqueueUnlock, Unlock, Release, lockVars
      <4>2. \A o \in Proc : o # q => pc'[o] = pc[o] /\ my'[o] = my[o]
        BY <1>0, <2>4 DEF EnqueueUnlock, Unlock, Return, Go, TypeInv, TypeOK
      <4>3. QED
        BY <2>1, <3>1, <4>1, <4>2
    <3>4. QED
      BY <3>2, <3>3
  <2>5. ASSUME NEW q \in Proc,
               OpenEnqueue(q) \/ RunNow(q) \/ Dequeue(q) \/ RecoverRead(q)
                 \/ EnqueueCheck(q) \/ RunCheck(q) \/ LockError(q)
        PROVE  Stays'
    <3>1. pc[q] # "engine" /\ UNCHANGED <<status, owner>>
      BY <2>5 DEF OpenEnqueue, RunNow, Dequeue, RecoverRead, EnqueueCheck, RunCheck,
         Check, LockError, rowVars, lockVars
    <3>2. \A o \in Proc : o # q => pc'[o] = pc[o] /\ my'[o] = my[o]
      BY <1>0, <2>5 DEF OpenEnqueue, RunNow, Dequeue, RecoverRead, EnqueueCheck,
         RunCheck, Check, LockError, Return, Go, TypeInv, TypeOK
    <3>3. QED
      BY <2>1, <3>1, <3>2
  <2>6. ASSUME NEW q \in Proc, Submit(q) PROVE Stays'
    <3>1. pc[q] # "engine" /\ status' = status /\ owner' = owner
      BY <2>6, SubmitPending DEF SnapshotInv, Submit, lockVars
    <3>2. \A o \in Proc : o # q => pc'[o] = pc[o] /\ my'[o] = my[o]
      BY <1>0, <2>6 DEF Submit, Return, Go, TypeInv, TypeOK
    <3>3. QED
      BY <2>1, <3>1, <3>2
  <2>7. ASSUME NEW q \in Proc, Creates(q) PROVE Stays'
    <3>1. PICK n \in Run : /\ status[n] = "Absent"
                           /\ status' = [status EXCEPT ![n] = "Queued"]
                           /\ my' = [my EXCEPT ![q] = n]
      BY <2>7 DEF Creates, EnqueueCreate, RunCreate, Create, Fresh
    <3>2. pc[q] # "engine" /\ owner' = owner
      BY <2>7 DEF Creates, EnqueueCreate, RunCreate, Create, lockVars
    <3>3. status'[r] = status[r]
      BY <1>0, <2>0, <3>1 DEF TypeInv, TypeOK
    <3>4. \A o \in Proc : o # q => pc'[o] = pc[o] /\ my'[o] = my[o]
      BY <1>0, <2>7, <3>1 DEF Creates, EnqueueCreate, RunCreate, Create, Go, TypeInv,
         TypeOK
    <3>5. QED
      BY <2>0, <3>2, <3>3, <3>4 DEF LockedFor
  \* Who starts has the lock.
  <2>8. ASSUME NEW q \in Proc, Start(q) PROVE Stays'
    <3>1. owner = q /\ owner' = q /\ owner # Dead /\ pc[q] # "engine"
      BY <1>0, <2>8 DEF Start, SectionHoldsLease, Section, lockVars
    <3>2. status[r] # "Running"
      BY <2>2, <3>1
    <3>3. /\ status' = [status EXCEPT ![my[q]] = "Running"] /\ my[q] \in Run
          /\ pc'[q] = "engine" /\ my' = my
      BY <1>0, <2>8 DEF Start, Go, TypeInv, TypeOK, MyDefined
    <3>4. CASE r = my[q]
      BY <1>0, <3>1, <3>3, <3>4 DEF LockedFor, TypeInv, TypeOK
    <3>5. CASE r # my[q]
      BY <1>0, <2>0, <3>2, <3>3, <3>5 DEF TypeInv, TypeOK
    <3>6. QED
      BY <3>4, <3>5
  <2>9. ASSUME NEW q \in Proc, EndEngine(q) PROVE Stays'
    <3>1. PICK st \in {"Error"} \cup EngineOutcome : End(q, st)
      BY <2>9 DEF EndEngine, Finish, Fail, TerminalStatus, EngineOutcome
    <3>2. /\ status' = [status EXCEPT ![my[q]] = st] /\ my[q] \in Run
          /\ my' = my /\ owner' = owner
          /\ \A o \in Proc : o # q => pc'[o] = pc[o]
      BY <1>0, <3>1 DEF End, Go, TypeInv, TypeOK, MyDefined, lockVars
    <3>3. CASE r = my[q]
      BY <1>0, <3>1, <3>2, <3>3 DEF TypeInv, TypeOK, EngineOutcome
    <3>4. CASE r # my[q]
      <4>1. status'[r] = status[r]
        BY <1>0, <3>2, <3>4 DEF TypeInv, TypeOK
      <4>2. LockedFor(r) => LockedFor(r)'
        BY <3>2, <3>4 DEF LockedFor
      <4>3. QED
        BY <2>0, <4>1, <4>2
    <3>5. QED
      BY <3>3, <3>4
  <2>10. ASSUME NEW q \in Proc, RecoverWrite(q) PROVE Stays'
    <3>1. status'[r] \in {"Skipped", "Error"} \/ status'[r] = status[r]
      BY <2>10 DEF RecoverWrite, RecoveredStatus
    <3>2. pc[q] # "engine" /\ owner' = owner
      BY <2>10 DEF RecoverWrite, lockVars
    <3>3. \A o \in Proc : o # q => pc'[o] = pc[o] /\ my'[o] = my[o]
      BY <1>0, <2>10 DEF RecoverWrite, Return, Go, TypeInv, TypeOK
    <3>4. QED
      BY <2>0, <3>1, <3>2, <3>3 DEF LockedFor
  \* A killed engine leaves its lease.
  <2>11. ASSUME NEW q \in Proc, Crash(q) PROVE Stays'
    <3>1. status' = status /\ owner' = IF owner = q THEN Dead ELSE owner
      BY <2>11 DEF Crash, rowVars
    <3>2. \A o \in Proc : o # q => pc'[o] = pc[o] /\ my'[o] = my[o]
      BY <1>0, <2>11 DEF Crash, Return, Go, TypeInv, TypeOK
    <3>3. QED
      BY <2>0, <3>1, <3>2 DEF LockedFor
  \* No lease loses a tick while somebody waits or has the lock.
  <2>12. CASE Tick
    <3>1. seen[p] = NoRows
      BY <1>0, <2>12 DEF Tick, MayTick, Blank, NoSnapshot, Reading
    <3>2. seen[p][r] = "Absent"
      BY <3>1 DEF NoRows
    <3>3. QED
      BY <1>1, <3>2 DEF Ended
  <2>13. CASE (\E q \in Proc : Flush(q)) \/ UNCHANGED vars
    <3>1. UNCHANGED <<status, owner, pc, my>>
      BY <2>13 DEF Flush, vars, rowVars, lockVars
    <3>2. QED
      BY <2>0, <3>1 DEF LockedFor
  <2>14. Stays'
    BY <2>3, <2>4, <2>5, <2>6, <2>7, <2>8, <2>9, <2>10, <2>11, <2>12, <2>13
       DEF Next, Proceed, Creates
  <2>15. QED
    BY <2>14
<1>2. CASE ~Ended(seen[p][r])
  <2>1. seen'[p][r] # seen[p][r] /\ seen'[p][r] # "Absent"
    BY <1>2 DEF Ended
  <2>2. \E q \in Proc : OpenEnqueue(q) \/ RunNow(q)
    <3>1. ASSUME NEW q \in Proc, seen' = [seen EXCEPT ![q] = NoRows] PROVE FALSE
      <4>1. seen'[p] = seen[p] \/ seen'[p] = NoRows
        BY <1>0, <3>1 DEF TypeInv, TypeOK
      <4>2. QED
        BY <2>1, <4>1 DEF NoRows
    <3>2. seen' # seen
      BY <2>1
    <3>3. ASSUME NEW q \in Proc, Proceed(q) \/ Crash(q)
          PROVE  seen' = seen \/ seen' = [seen EXCEPT ![q] = NoRows]
      BY <3>3 DEF Proceed, Crash, EnqueueLock, LockError, EnqueueCheck, EnqueueCreate,
         EnqueueUnlock, Submit, ExecuteLock, RunCheck, RunCreate, Check, Create, Start,
         EndEngine, Finish, Fail, End, Unlock, RecoverWrite, Return
    <3>4. QED
      BY <3>1, <3>2, <3>3 DEF Next, Dequeue, RecoverRead, Flush, Tick, vars
  <2>3. status' = status /\ seen'[p][r] = status[r]
    BY <1>0, <2>1, <2>2 DEF OpenEnqueue, RunNow, rowVars, TypeInv, TypeOK
  <2>4. QED
    BY <2>3 DEF Ended, Active
<1>3. QED
  BY <1>1, <1>2

\* With every pair of timeouts and however old the snapshot is that the check
\* reads, a run is admitted beside an active one only if that one was inserted
\* after the admitting transaction had opened: rows that had ended, were skipped
\* or were active then are not active when the lock is held.
THEOREM JoinsOnlyLaterRunsAlways == Spec => []JoinsOnlyLaterRuns
<1>1. Init => SnapshotInv
  BY InitSnapshotInv
<1>2. SnapshotInv /\ [Next]_vars => SnapshotInv'
  <2> SUFFICES ASSUME SnapshotInv, [Next]_vars PROVE SnapshotInv'
    OBVIOUS
  <2>1. LedgerInv'
    BY NextLeaseInv, NextRowsInv, NextAdmittedAlone, NextStaleFunctional, NextPendingInv
       DEF SnapshotInv, LedgerInv, AdmissionInv, LeaseInv
  <2>2. QED
    BY <2>1, NextBlank, NextEndedStays DEF SnapshotInv
<1>3. SnapshotInv => JoinsOnlyLaterRuns
  <2> SUFFICES ASSUME SnapshotInv, NEW p \in Proc, pc[p] \in {"enqCreate", "runCreate"},
                      NEW r \in Run, status[r] \in Active, seen[p][r] # "Absent"
               PROVE  FALSE
    BY DEF JoinsOnlyLaterRuns
  <2>1. Ended(seen[p][r])
    BY DEF SnapshotInv, SawNoneActive, Ended
  <2>2. status[r] = "Running" /\ LockedFor(r)
    BY <2>1 DEF SnapshotInv, EndedStays, Active
  <2>3. owner = p
    BY DEF SnapshotInv, LedgerInv, AdmissionInv, LeaseInv, SectionHoldsLease, Section
  <2>4. QED
    BY <2>2, <2>3 DEF LockedFor
<1>4. QED
  BY <1>1, <1>2, <1>3, PTL DEF Spec

-----------------------------------------------------------------------------
(* The refinement *)

LEMMA WaitingRun ==
  ASSUME TypeInv, NEW r
  PROVE  r \in Waiting <=>
           r \in jobs \/ \E p \in Proc : pc[p] \in Before /\ my[p] # None /\ my[p] = r
BY DEF Waiting

LEMMA WorkingRun ==
  ASSUME NEW r PROVE r \in Working <=> \E p \in Proc : pc[p] = "engine" /\ my[p] = r
BY DEF Working

\* A process that stays on its way to the engine, or off it, changes neither set.
LEMMA LedgerSetsStay ==
  ASSUME NEW p \in Proc, TypeInv, jobs' = jobs, my' = my, NEW l, Go(p, l),
         l = "engine" <=> pc[p] = "engine",
         my[p] # None => (l \in Before <=> pc[p] \in Before)
  PROVE  Waiting' = Waiting /\ Working' = Working
<1>1. \A q \in Proc : q # p => pc'[q] = pc[q]
  BY DEF Go, TypeInv, TypeOK
<1>2. pc'[p] = l
  BY DEF Go, TypeInv, TypeOK
<1>3. {q \in Proc : pc'[q] \in Before /\ my[q] # None}
        = {q \in Proc : pc[q] \in Before /\ my[q] # None}
  BY <1>1, <1>2
<1>4. {q \in Proc : pc'[q] = "engine"} = {q \in Proc : pc[q] = "engine"}
  BY <1>1, <1>2
<1>5. QED
  BY <1>3, <1>4 DEF Waiting, Working

\* A process that leaves loses the run it waits or works for, if it has one.
LEMMA LeavingLoses ==
  ASSUME LedgerInv, NEW p \in Proc, Return(p), jobs' = jobs
  PROVE  /\ pc[p] \in Before \cup {"engine"} /\ my[p] # None =>
              /\ my[p] \in Waiting \cup Working
              /\ Waiting' = Waiting \ {my[p]} /\ Working' = Working \ {my[p]}
         /\ pc[p] \notin Before \cup {"engine"} \/ my[p] = None =>
              Waiting' = Waiting /\ Working' = Working
<1>1. /\ TypeInv /\ MineAlone /\ JobsNotBegun
      /\ pc'[p] = "idle" /\ my'[p] = None
      /\ \A q \in Proc : q # p => pc'[q] = pc[q] /\ my'[q] = my[q]
  BY LedgerTypes DEF Return, Go, TypeInv, TypeOK
<1>2. pc[p] = "engine" => my[p] # None
  BY <1>1 DEF TypeInv, MyDefined, Run
<1>3. \A r : r \in Waiting' <=>
        r \in jobs \/ \E q \in Proc : q # p /\ pc[q] \in Before /\ my[q] # None /\ my[q] = r
  <2>1. "idle" \notin Before
    BY DEF Before
  <2>2. \A r : r \in Waiting' <=>
          r \in jobs \/ \E q \in Proc : pc'[q] \in Before /\ my'[q] # None /\ my'[q] = r
    BY DEF Waiting
  <2>3. QED
    BY <1>1, <2>1, <2>2
<1>4. \A r : r \in Working' <=> \E q \in Proc : q # p /\ pc[q] = "engine" /\ my[q] = r
  <2>1. \A r : r \in Working' <=> \E q \in Proc : pc'[q] = "engine" /\ my'[q] = r
    BY DEF Working
  <2>2. QED
    BY <1>1, <2>1
<1>5. CASE pc[p] \in Before \cup {"engine"} /\ my[p] # None
  <2>1. \A q \in Proc : q # p => my[q] # my[p]
    BY <1>1, <1>5 DEF MineAlone
  <2>2. my[p] \notin jobs
    BY <1>1 DEF JobsNotBegun
  <2>3. my[p] \in Waiting \cup Working
    BY <1>1, <1>5, WaitingRun, WorkingRun
  <2>4. \A r : r \in Waiting' <=> r \in Waiting /\ r # my[p]
    BY <1>1, <1>3, <2>1, <2>2, WaitingRun
  <2>5. \A r : r \in Working' <=> r \in Working /\ r # my[p]
    BY <1>4, <2>1, WorkingRun
  <2>6. QED
    BY <1>5, <2>3, <2>4, <2>5
<1>6. CASE pc[p] \notin Before \cup {"engine"} \/ my[p] = None
  <2>1. \A r : r \in Waiting' <=> r \in Waiting
    BY <1>1, <1>2, <1>3, <1>6, WaitingRun
  <2>2. \A r : r \in Working' <=> r \in Working
    BY <1>2, <1>4, <1>6, WorkingRun
  <2>3. QED
    BY <1>6, <2>1, <2>2
<1>7. QED
  BY <1>5, <1>6

\* Whoever is in a short section holds the lease that every engine would hold.
LEMMA SectionExcludesEngine ==
  ASSUME LeaseInv, NEW p \in Proc, pc[p] \in Section
  PROVE  StaleTimeout < LockTimeout => Working = {}
<1> SUFFICES ASSUME StaleTimeout < LockTimeout PROVE Working = {}
  OBVIOUS
<1>1. \A q \in Proc : pc[q] # "engine"
  BY DEF LeaseInv, SectionHoldsLease, EngineHoldsLease, Section
<1>2. QED
  BY <1>1 DEF Working

LEMMA CreateAdmits ==
  ASSUME LedgerInv, NEW p \in Proc, Creates(p)
  PROVE  \E r \in Run : Ledger!Admit(r)
<1>0. TypeInv /\ LeaseInv
  BY DEF LedgerInv, AdmissionInv, LeaseInv
<1>1. PICK r \in Run, d \in DryRuns, l \in Before :
        /\ Fresh(r)
        /\ status' = [status EXCEPT ![r] = "Queued"]
        /\ dry' = [dry EXCEPT ![r] = d]
        /\ my' = [my EXCEPT ![p] = r]
        /\ pc' = [pc EXCEPT ![p] = l] /\ l # "engine"
  BY DEF Creates, EnqueueCreate, RunCreate, Create, Go, Before
<1>2. /\ pc[p] \in {"enqCreate", "runCreate"} /\ jobs' = jobs
      /\ UNCHANGED <<lastRun, lastStatus>>
  BY DEF Creates, EnqueueCreate, RunCreate, Create, defVars
<1>3. StaleTimeout < LockTimeout => Working = {}
  BY <1>0, <1>2, SectionExcludesEngine DEF Section
<1>4. /\ pc'[p] = l /\ my'[p] = r /\ r # None
      /\ \A q \in Proc : q # p => pc'[q] = pc[q] /\ my'[q] = my[q]
      /\ pc[p] # "engine" /\ pc[p] \notin Before
  BY <1>0, <1>1, <1>2 DEF TypeInv, TypeOK, Run, Before
<1>5. Waiting' = Waiting \cup {r}
  <2>1. \A o : o \in Waiting' <=>
          o \in jobs' \/ \E q \in Proc : pc'[q] \in Before /\ my'[q] # None /\ my'[q] = o
    BY DEF Waiting
  <2>2. \A o : o \in Waiting' <=> o \in Waiting \/ o = r
    BY <1>0, <1>2, <1>4, <2>1, WaitingRun
  <2>3. QED
    BY <2>2
<1>6. Working' = Working
  <2>1. \A o : o \in Working' <=> \E q \in Proc : pc'[q] = "engine" /\ my'[q] = o
    BY DEF Working
  <2>2. \A o : o \in Working' <=> o \in Working
    BY <1>1, <1>4, <2>1, WorkingRun
  <2>3. QED
    BY <2>2
<1>7. Ledger!Admit(r)
  BY <1>1, <1>2, <1>3, <1>5, <1>6 DEF Ledger!Admit, Ledger!Run, Run, Fresh
<1>8. QED
  BY <1>7

LEMMA StartBegins ==
  ASSUME LedgerInv, NEW p \in Proc, Start(p)
  PROVE  my[p] \in Run /\ Ledger!Begin(my[p])
<1>0. TypeInv /\ LeaseInv /\ MineAlone /\ JobsNotBegun /\ MineNotBegun
  BY LedgerTypes DEF LedgerInv, AdmissionInv
<1>1. /\ my[p] \in Run /\ my[p] # None /\ pc[p] = "start"
      /\ status' = [status EXCEPT ![my[p]] = "Running"]
      /\ my' = my /\ pc' = [pc EXCEPT ![p] = "engine"] /\ jobs' = jobs
      /\ UNCHANGED <<dry, lastRun, lastStatus>>
  BY <1>0 DEF Start, Go, TypeInv, MyDefined, defVars, Run
<1>2. StaleTimeout < LockTimeout => Working = {}
  BY <1>0, <1>1, SectionExcludesEngine DEF Section
<1>3. status[my[p]] \in {"Queued", "Skipped"}
  BY <1>0, <1>1 DEF MineNotBegun, NotBegun, Before
<1>4. /\ pc'[p] = "engine"
      /\ \A q \in Proc : q # p => pc'[q] = pc[q]
      /\ \A q \in Proc : q # p => my[q] # my[p]
      /\ my[p] \notin jobs /\ "engine" \notin Before
  BY <1>0, <1>1 DEF TypeInv, TypeOK, MineAlone, JobsNotBegun, Before
<1>5. my[p] \in Waiting
  BY <1>0, <1>1, WaitingRun DEF Before
<1>6. Waiting' = Waiting \ {my[p]}
  <2>1. \A o : o \in Waiting' <=>
          o \in jobs \/ \E q \in Proc : pc'[q] \in Before /\ my[q] # None /\ my[q] = o
    BY <1>1 DEF Waiting
  <2>2. \A o : o \in Waiting' <=> o \in Waiting /\ o # my[p]
    BY <1>0, <1>4, <2>1, WaitingRun
  <2>3. QED
    BY <2>2
<1>7. Working' = Working \cup {my[p]}
  <2>1. \A o : o \in Working' <=> \E q \in Proc : pc'[q] = "engine" /\ my[q] = o
    BY <1>1 DEF Working
  <2>2. \A o : o \in Working' <=> o \in Working \/ o = my[p]
    BY <1>1, <1>4, <2>1, WorkingRun
  <2>3. QED
    BY <2>2
<1>8. QED
  BY <1>1, <1>2, <1>3, <1>5, <1>6, <1>7 DEF Ledger!Begin

LEMMA EndEnds ==
  ASSUME LedgerInv, NEW p \in Proc, EndEngine(p)
  PROVE  my[p] \in Run /\ \E st \in Ledger!Outcome : Ledger!End(my[p], st)
<1>0. TypeInv /\ MineAlone
  BY LedgerTypes
<1>1. PICK st \in {"Error"} \cup EngineOutcome : End(p, st)
  BY DEF EndEngine, Finish, Fail, TerminalStatus, EngineOutcome
<1>2. /\ my[p] \in Run /\ my[p] # None /\ pc[p] = "engine" /\ Go(p, "unlock")
      /\ my' = my /\ jobs' = jobs
  BY <1>0, <1>1 DEF End, TypeInv, MyDefined, Run
<1>3. /\ pc'[p] = "unlock" /\ my'[p] = my[p]
      /\ \A q \in Proc : q # p => pc'[q] = pc[q] /\ my'[q] = my[q]
      /\ \A q \in Proc : q # p => my[q] # my[p]
      /\ "unlock" \notin Before /\ "engine" \notin Before
  BY <1>0, <1>2 DEF Go, TypeInv, TypeOK, MineAlone, Before
<1>4. Working' = Working \ {my[p]} /\ my[p] \in Working
  <2>1. \A o : o \in Working' <=> \E q \in Proc : pc'[q] = "engine" /\ my'[q] = o
    BY DEF Working
  <2>2. \A o : o \in Working' <=> o \in Working /\ o # my[p]
    BY <1>2, <1>3, <2>1, WorkingRun
  <2>3. QED
    BY <1>2, <2>2, WorkingRun
<1>5. Waiting' = Waiting
  <2>1. \A o : o \in Waiting' <=>
          o \in jobs' \/ \E q \in Proc : pc'[q] \in Before /\ my'[q] # None /\ my'[q] = o
    BY DEF Waiting
  <2>2. \A o : o \in Waiting' <=> o \in Waiting
    BY <1>0, <1>2, <1>3, <2>1, WaitingRun
  <2>3. QED
    BY <2>2
<1>6. Ledger!End(my[p], st)
  BY <1>1, <1>4, <1>5 DEF End, UpdateDefinition, defVars, Ledger!End
<1>7. QED
  BY <1>1, <1>2, <1>6 DEF Ledger!Outcome, EngineOutcome

LEMMA RecoveryRecovers ==
  ASSUME LedgerInv, NEW p \in Proc, RecoverWrite(p)
  PROVE  \E S \in SUBSET Run : Ledger!Recover(S)
<1> DEFINE S == {s[1] : s \in stale[p]}
<1>0. stale[p] \subseteq Run \X Active
  BY LedgerTypes DEF TypeInv, TypeOK
<1>1. \A r \in Run :
        /\ <<r, "Queued">> \in stale[p] => status'[r] = "Skipped"
        /\ <<r, "Running">> \in stale[p] => status'[r] = "Error"
        /\ r \notin S => status'[r] = status[r]
  <2>1. \A r \in Run : ~(<<r, "Queued">> \in stale[p] /\ <<r, "Running">> \in stale[p])
    BY DEF LedgerInv, StaleFunctional
  <2>2. \A r, st : <<r, st>> \in stale[p] => r \in S
    OBVIOUS
  <2>3. QED
    BY <2>1, <2>2 DEF RecoverWrite, RecoveredStatus
<1>2. \A r \in S : r \in Run /\ status[r] # "Absent"
  BY <1>0, LedgerTypes DEF RowsExist
<1>3. \A r \in S : <<r, "Queued">> \in stale[p] \/ <<r, "Running">> \in stale[p]
  <2>1. \A s \in stale[p] : s = <<s[1], "Queued">> \/ s = <<s[1], "Running">>
    BY <1>0 DEF Active
  <2>2. QED
    BY <2>1
<1>4. \A r \in S : status[r] = "Queued" => status'[r] = "Skipped"
  BY <1>1, <1>2, <1>3, LedgerTypes DEF SeenRunning
<1>5. PICK last \in stale[p] :
        /\ \A other \in stale[p] : other[1] <= last[1]
        /\ lastRun' = last[1]
        /\ lastStatus' = RecoveredStatus(last[2])
  BY DEF RecoverWrite
<1>6. lastStatus' = status'[lastRun']
  <2>1. PICK r \in Run, st \in Active : last = <<r, st>>
    BY <1>0
  <2>2. status'[r] = RecoveredStatus(st)
    BY <1>1, <2>1 DEF RecoveredStatus, Active
  <2>3. QED
    BY <1>5, <2>1, <2>2
<1>7. dry' = dry /\ Waiting' = Waiting /\ Working' = Working
  BY LeavingLoses DEF RecoverWrite, Before
<1>8. Ledger!Recover(S)
  <2>1. \A r \in S : status'[r] \in {"Skipped", "Error"}
    BY <1>1, <1>2, <1>3
  <2>2. lastRun' \in S /\ \A r \in S : r <= lastRun'
    BY <1>5
  <2>3. QED
    BY <1>1, <1>2, <1>4, <1>6, <1>7, <2>1, <2>2 DEF Ledger!Recover, Ledger!Run, Run
<1>9. S \in SUBSET Run
  BY <1>2
<1>10. QED
  BY <1>8, <1>9

\* A process that gives up or is killed loses its run or changes nothing of the ledger.
LEMMA LeaveLoses ==
  ASSUME LedgerInv, NEW p \in Proc, LockError(p) \/ Unlock(p) \/ Crash(p)
  PROVE  (\E r \in Run : Ledger!Lose(r)) \/ UNCHANGED Ledger!vars
<1>1. Return(p) /\ jobs' = jobs /\ UNCHANGED <<status, dry, lastRun, lastStatus>>
  BY DEF LockError, Unlock, Crash, rowVars, defVars
<1>2. my[p] # None => my[p] \in Run
  BY LedgerTypes DEF TypeInv, TypeOK
<1>3. CASE pc[p] \in Before \cup {"engine"} /\ my[p] # None
  <2>1. Ledger!Lose(my[p])
    BY <1>1, <1>3, LeavingLoses DEF Ledger!Lose
  <2>2. QED
    BY <1>2, <1>3, <2>1
<1>4. CASE pc[p] \notin Before \cup {"engine"} \/ my[p] = None
  BY <1>1, <1>4, LeavingLoses DEF Ledger!vars
<1>5. QED
  BY <1>3, <1>4

\* A job has the run of the process that submitted it, and then of the one that took it.
LEMMA HandOver ==
  ASSUME LedgerInv, NEW p \in Proc, Submit(p) \/ Dequeue(p)
  PROVE  UNCHANGED Ledger!vars
<1>0. TypeInv /\ MineAlone /\ JobsNotBegun /\ IdleForgot
  BY LedgerTypes
<1>1. UNCHANGED <<status, dry, lastRun, lastStatus>>
  BY SubmitPending DEF Submit, Dequeue, rowVars, defVars
<1>2. CASE Submit(p)
  <2>1. /\ pc'[p] = "idle" /\ my'[p] = None /\ jobs' = jobs \cup {my[p]}
        /\ my[p] # None /\ pc[p] = "enqSubmit" /\ pc[p] \in Before
        /\ "idle" \notin Before /\ pc[p] # "engine"
        /\ \A q \in Proc : q # p => pc'[q] = pc[q] /\ my'[q] = my[q]
    BY <1>0, <1>2 DEF Submit, Return, Go, TypeInv, TypeOK, MyDefined, Before, Run
  <2>2. \A o : o \in Waiting' <=>
          o \in jobs' \/ \E q \in Proc : pc'[q] \in Before /\ my'[q] # None /\ my'[q] = o
    BY DEF Waiting
  <2>3. \A o : o \in Waiting' <=> o \in Waiting
    BY <1>0, <2>1, <2>2, WaitingRun
  <2>4. \A o : o \in Working' <=> \E q \in Proc : pc'[q] = "engine" /\ my'[q] = o
    BY DEF Working
  <2>5. \A o : o \in Working' <=> o \in Working
    BY <2>1, <2>4, WorkingRun
  <2>6. Waiting' = Waiting /\ Working' = Working
    BY <2>3, <2>5
  <2>7. QED
    BY <1>1, <2>6 DEF Ledger!vars
<1>3. CASE Dequeue(p)
  <2>1. PICK r \in jobs : jobs' = jobs \ {r} /\ my' = [my EXCEPT ![p] = r]
    BY <1>3 DEF Dequeue
  <2>2. /\ pc'[p] = "execWait" /\ my'[p] = r /\ r # None
        /\ pc[p] = "idle" /\ my[p] = None
        /\ "execWait" \in Before /\ "idle" \notin Before
        /\ \A q \in Proc : q # p => pc'[q] = pc[q] /\ my'[q] = my[q]
    BY <1>0, <1>3, <2>1 DEF Dequeue, Go, TypeInv, TypeOK, IdleForgot, Before, Run
  <2>3. \A o : o \in Waiting' <=>
          o \in jobs' \/ \E q \in Proc : pc'[q] \in Before /\ my'[q] # None /\ my'[q] = o
    BY DEF Waiting
  <2>4. \A o : o \in Waiting' <=> o \in Waiting
    BY <1>0, <2>1, <2>2, <2>3, WaitingRun
  <2>5. \A o : o \in Working' <=> \E q \in Proc : pc'[q] = "engine" /\ my'[q] = o
    BY DEF Working
  <2>6. \A o : o \in Working' <=> o \in Working
    BY <2>2, <2>5, WorkingRun
  <2>7. Waiting' = Waiting /\ Working' = Working
    BY <2>4, <2>6
  <2>8. QED
    BY <1>1, <2>7 DEF Ledger!vars
<1>4. QED
  BY <1>2, <1>3

LEMMA StepImplementsLedger ==
  ASSUME LedgerInv, [Next]_vars
  PROVE  [Ledger!Next]_(Ledger!vars)
<1>0. TypeInv /\ IdleForgot
  BY LedgerTypes
<1>1. ASSUME NEW p \in Proc, Creates(p) PROVE Ledger!Next
  BY <1>1, CreateAdmits DEF Ledger!Next, Ledger!Run, Run
<1>2. ASSUME NEW p \in Proc, Start(p) PROVE Ledger!Next
  BY <1>2, StartBegins DEF Ledger!Next, Ledger!Run, Run
<1>3. ASSUME NEW p \in Proc, EndEngine(p) PROVE Ledger!Next
  BY <1>3, EndEnds DEF Ledger!Next, Ledger!Run, Run
<1>4. ASSUME NEW p \in Proc, RecoverWrite(p) PROVE Ledger!Next
  BY <1>4, RecoveryRecovers DEF Ledger!Next, Ledger!Run, Run
<1>5. ASSUME NEW p \in Proc, LockError(p) \/ Unlock(p) \/ Crash(p)
      PROVE  Ledger!Next \/ UNCHANGED Ledger!vars
  BY <1>5, LeaveLoses DEF Ledger!Next, Ledger!Run, Run
<1>6. ASSUME NEW p \in Proc, Submit(p) \/ Dequeue(p) PROVE UNCHANGED Ledger!vars
  BY <1>6, HandOver
<1>7. ASSUME NEW p \in Proc, OpenEnqueue(p) \/ EnqueueLock(p) \/ EnqueueCheck(p)
               \/ EnqueueUnlock(p) \/ ExecuteLock(p) \/ RunCheck(p) \/ RunNow(p)
               \/ RecoverRead(p)
      PROVE  UNCHANGED Ledger!vars
  <2>1. UNCHANGED <<status, dry, lastRun, lastStatus, jobs, my>>
    BY <1>7 DEF OpenEnqueue, EnqueueLock, EnqueueCheck, EnqueueUnlock, ExecuteLock,
       RunCheck, Check, RunNow, RecoverRead, rowVars, defVars
  <2>2. PICK l : /\ Go(p, l) /\ (l = "engine" <=> pc[p] = "engine")
                 /\ my[p] # None => (l \in Before <=> pc[p] \in Before)
    <3>1. pc[p] = "idle" => my[p] = None
      BY <1>0 DEF IdleForgot
    <3>2. QED
      BY <1>7, <3>1 DEF OpenEnqueue, EnqueueLock, EnqueueCheck, EnqueueUnlock, ExecuteLock,
         RunCheck, Check, RunNow, RecoverRead, Before
  <2>3. Waiting' = Waiting /\ Working' = Working
    BY <1>0, <2>1, <2>2, LedgerSetsStay
  <2>4. QED
    BY <2>1, <2>3 DEF Ledger!vars
<1>8. ASSUME (\E p \in Proc : Flush(p)) \/ Tick \/ UNCHANGED vars
      PROVE  UNCHANGED Ledger!vars
  <2>1. UNCHANGED <<status, dry, lastRun, lastStatus, jobs, pc, my>>
    BY <1>8 DEF Flush, Tick, vars, rowVars, defVars
  <2>2. QED
    BY <2>1 DEF Ledger!vars, Waiting, Working
<1>9. QED
  BY <1>1, <1>2, <1>3, <1>4, <1>5, <1>6, <1>7, <1>8 DEF Next, Proceed, Creates

\* With every setting, and for every number of processes, runs and crashes, the
\* lock, the jobs, the checks and the recoveries together keep the ledger: no row
\* is begun twice, rows and definition end together, recoveries write only what
\* they may.  Where the stale (and job) timeout is shorter than the lease, engines
\* exclude each other and admissions.
THEOREM LifecycleImplementsLedger == Spec => ImplementsLedger
<1>1. Init => LedgerInv
  BY InitLedgerInv
<1>2. LedgerInv /\ [Next]_vars => LedgerInv'
  BY NextLeaseInv, NextRowsInv, NextAdmittedAlone, NextStaleFunctional,
     NextPendingInv DEF LedgerInv, AdmissionInv, LeaseInv
<1>3. Init => Ledger!Init
  BY DEF Init, NoRows, Ledger!Init, Ledger!Run, Run, Waiting, Working, Before
<1>4. LedgerInv /\ [Next]_vars => [Ledger!Next]_(Ledger!vars)
  BY StepImplementsLedger
<1>5. QED
  BY <1>1, <1>2, <1>3, <1>4, PTL DEF Spec, ImplementsLedger, Ledger!Spec

=============================================================================
