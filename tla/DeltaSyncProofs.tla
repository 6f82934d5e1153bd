--------------------------- MODULE DeltaSyncProofs ---------------------------
(***************************************************************************)
(* Theorems about DeltaSync, for every set of records and every number of  *)
(* runs, ticks and versions.                                               *)
(***************************************************************************)
EXTENDS DeltaSync, TLAPS

USE BoundAssumption, NoneAssumption, FlagAssumption

-----------------------------------------------------------------------------
(* Type correctness *)

RowStatus == {"absent", "queued", "running", "success", "other", "pruned"}

LEMMA InitTypeOK == Init => TypeOK
BY DEF Init, TypeOK, Run, Time, Version

\* Leaving a run resets what the engine knew, within the types.
LEMMA LeaveType ==
  ASSUME TypeOK, NEW e \in Engine, Leave(e)
  PROVE  /\ run' \in [Engine -> Run \cup {None}]
         /\ started' \in [Engine -> Time]
         /\ base' \in [Engine -> Time \cup {None}]
         /\ todo' \in [Engine -> SUBSET Key]
         /\ plan' \in [Engine -> [Key -> Version \cup {None}]]
         /\ failed' \in [Engine -> BOOLEAN]
BY DEF TypeOK, Leave, Time, Version

LEMMA NextTypeOK == TypeOK /\ [Next]_vars => TypeOK'
<1> SUFFICES ASSUME TypeOK, [Next]_vars PROVE TypeOK'
  OBVIOUS
<1> USE DEF rowVars, sourceVars, targetVars, engineVars
<1>1. ASSUME Tick PROVE TypeOK'
  BY <1>1 DEF Tick, TypeOK, Time
<1>2. ASSUME NEW k \in Key, Change(k) PROVE TypeOK'
  BY <1>2 DEF Change, TypeOK, Version, Time
<1>3. ASSUME NEW r \in Run, Admit(r) PROVE TypeOK'
  BY <1>3 DEF Admit, TypeOK
<1>4. ASSUME NEW e \in Engine, NEW r \in Run, Begin(e, r) PROVE TypeOK'
  BY <1>4 DEF Begin, TypeOK
<1>5. ASSUME NEW e \in Engine, NEW k \in Key, Read(e, k) PROVE TypeOK'
  <2>1. todo' \in [Engine -> SUBSET Key]
    BY <1>5 DEF Read, TypeOK
  <2>2. plan' \in [Engine -> [Key -> Version \cup {None}]]
    BY <1>5 DEF Read, TypeOK
  <2>3. QED
    BY <1>5, <2>1, <2>2 DEF Read, TypeOK
<1>6. ASSUME NEW e \in Engine, NEW k \in Key, Write(e, k) PROVE TypeOK'
  <2>1. plan[e][k] \in Version
    BY <1>6 DEF Write, TypeOK
  <2>2. copy' \in [Key -> Version] /\ undo' \in [Key -> Version \cup {None}]
    BY <1>6, <2>1 DEF Write, TypeOK
  <2>3. plan' \in [Engine -> [Key -> Version \cup {None}]]
    BY <1>6 DEF Write, TypeOK
  <2>4. QED
    BY <1>6, <2>2, <2>3 DEF Write, TypeOK
<1>7. ASSUME NEW e \in Engine, NEW k \in Key, RecordFails(e, k) PROVE TypeOK'
  BY <1>7 DEF RecordFails, TypeOK
<1>8. ASSUME NEW e \in Engine, Flush(e) PROVE TypeOK'
  BY <1>8 DEF Flush, Settled, TypeOK
<1>9. ASSUME NEW e \in Engine, Finish(e) PROVE TypeOK'
  <2>1. PICK success \in BOOLEAN :
          /\ status' = [status EXCEPT ![run[e]] = EndedAs(success)]
          /\ stamp' = [stamp EXCEPT ![run[e]] = SyncStamp(e, success)]
          /\ lastSync' = IF SyncStamp(e, success) = None THEN lastSync
                         ELSE SyncStamp(e, success)
    BY <1>9 DEF Finish, TypeOK
  <2>2. SyncStamp(e, success) \in Time \cup {None}
    BY DEF SyncStamp, TypeOK
  <2>3. status' \in [Run -> RowStatus]
    BY <2>1 DEF EndedAs, TypeOK, RowStatus
  <2>4. QED
    BY <1>9, <2>1, <2>2, <2>3, LeaveType
       DEF Finish, Settled, TypeOK, RowStatus
<1>10. ASSUME NEW e \in Engine, Abort(e) PROVE TypeOK'
  <2>1. status' \in [Run -> RowStatus]
    BY <1>10 DEF Abort, TypeOK, RowStatus
  <2>2. copy' \in [Key -> Version]
    BY <1>10 DEF Abort, TypeOK
  <2>3. QED
    BY <1>10, <2>1, <2>2, LeaveType DEF Abort, Settled, TypeOK, RowStatus
<1>11. ASSUME NEW r \in Run, Recover(r) \/ Prune(r) PROVE TypeOK'
  BY <1>11 DEF Recover, Prune, TypeOK
<1>12. ASSUME UNCHANGED vars PROVE TypeOK'
  BY <1>12 DEF vars, TypeOK
<1>13. QED
  BY <1>1, <1>2, <1>3, <1>4, <1>5, <1>6, <1>7, <1>8, <1>9, <1>10, <1>11, <1>12
     DEF Next

\* Every reachable state is well typed, whatever the constants are.
THEOREM TypeCorrect == Spec => []TypeOK
BY InitTypeOK, NextTypeOK, PTL DEF Spec

-----------------------------------------------------------------------------
(* No lost change *)

\* A time stamp the next run may start from, or that a running one started from.
InUse(s) ==
  \/ s = lastSync
  \/ \E r \in Successes : s = stamp[r]
  \/ \E e \in Engine : run[e] # None /\ s = base[e]

\* If the target held v, the change of k it lacks would be selected from s on.
Safe(v, k, s) == v # ver[k] /\ punctual[k] => mod[k] \in Time /\ mod[k] >= s

RowsExist ==
  /\ \A r \in jobs : status[r] # "absent"
  /\ \A e \in Engine : run[e] # None => status[run[e]] # "absent"

\* No stamp in use hides a change, not even if the open batch is rolled back.
StampsSafe ==
  \A s \in Time : InUse(s) =>
    /\ s <= now
    /\ \A e \in Engine : run[e] # None => s <= started[e]
    /\ \A k \in Key : /\ Safe(copy[k], k, s)
                      /\ undo[k] # None => Safe(undo[k], k, s)

\* Nothing planned is older than the start of its run, and a real run that has
\* not failed yet has read, or planned, or need not touch every older change.
EnginesSafe ==
  \A e \in Engine :
    /\ run[e] = None => plan[e] = Settled
    /\ run[e] # None =>
         /\ started[e] <= now
         /\ \A k \in Key : plan[e][k] # None => Safe(plan[e][k], k, started[e])
         /\ real[run[e]] /\ ~failed[e] =>
              \A k \in Key :
                \/ k \in todo[e]
                \/ plan[e][k] # None
                \/ Safe(copy[k], k, started[e])

DeltaInv == TypeOK /\ RowsExist /\ StampsSafe /\ EnginesSafe

LEMMA InitDeltaInv == Init => DeltaInv
<1> SUFFICES ASSUME Init PROVE DeltaInv
  OBVIOUS
<1>1. \A s \in Time : ~InUse(s)
  BY DEF Init, InUse, Successes, Time
<1>2. QED
  BY <1>1, InitTypeOK DEF Init, DeltaInv, RowsExist, StampsSafe, EnginesSafe,
     Settled

\* What hides no change before a step hides none after it: a change that becomes
\* visible now carries no stamp before now, or is not punctual.
LEMMA SafeStays ==
  ASSUME TypeOK, [Next]_vars, NEW v, NEW k \in Key, NEW s \in Time, s <= now,
         Safe(v, k, s)
  PROVE  v # ver'[k] /\ punctual'[k] => mod'[k] \in Time /\ mod'[k] >= s
<1>1. CASE UNCHANGED sourceVars
  BY <1>1 DEF Safe, sourceVars
<1>2. ASSUME NEW j \in Key, Change(j)
      PROVE  v # ver'[k] /\ punctual'[k] => mod'[k] \in Time /\ mod'[k] >= s
  <2>1. CASE j # k
    BY <1>2, <2>1 DEF Change, Safe, TypeOK
  <2>2. CASE j = k
    <3>1. PICK m \in Time \cup {None} :
            /\ mod' = [mod EXCEPT ![k] = m]
            /\ punctual' = [punctual EXCEPT ![k] = m # None /\ m >= now]
      BY <1>2, <2>2 DEF Change
    <3>2. mod'[k] = m /\ (punctual'[k] => m # None /\ m >= now)
      BY <3>1 DEF TypeOK
    <3>3. QED
      BY <3>2 DEF TypeOK, Time
  <2>3. QED
    BY <2>1, <2>2
<1>3. QED
  BY <1>1, <1>2 DEF Safe, Next, Tick, Admit, Begin, Read, Write, RecordFails,
     Flush, Finish, Abort, Recover, Prune, vars, sourceVars

\* The clock never goes back.
LEMMA TimeGoesOn == TypeOK /\ [Next]_vars => now \in Time /\ now' >= now
BY DEF TypeOK, Time, Next, Tick, Change, Admit, Begin, Read, Write, RecordFails,
   Flush, Finish, Abort, Recover, Prune, vars

LEMMA NextRowsExist == DeltaInv /\ [Next]_vars => RowsExist'
<1> SUFFICES ASSUME DeltaInv, [Next]_vars PROVE RowsExist'
  OBVIOUS
<1> USE DEF DeltaInv, RowsExist, TypeOK
<1>1. ASSUME NEW e \in Engine, Leave(e), NEW f \in Engine, run'[f] # None
      PROVE  run'[f] = run[f]
  BY <1>1 DEF Leave
<1>2. ASSUME NEW r \in Run, Admit(r) PROVE RowsExist'
  BY <1>2 DEF Admit, engineVars
<1>3. ASSUME NEW e \in Engine, NEW r \in Run, Begin(e, r) PROVE RowsExist'
  BY <1>3 DEF Begin
<1>4. ASSUME NEW e \in Engine, Finish(e) PROVE RowsExist'
  <2>1. PICK success : status' = [status EXCEPT ![run[e]] = EndedAs(success)]
    BY <1>4 DEF Finish
  <2>2. \A r \in Run : status[r] # "absent" => status'[r] # "absent"
    BY <2>1 DEF EndedAs
  <2>3. jobs' = jobs /\ Leave(e)
    BY <1>4 DEF Finish
  <2>4. QED
    BY <1>1, <2>2, <2>3
<1>5. ASSUME NEW e \in Engine, Abort(e) PROVE RowsExist'
  <2>1. \A r \in Run : status[r] # "absent" => status'[r] # "absent"
    BY <1>5 DEF Abort
  <2>2. jobs' = jobs /\ Leave(e)
    BY <1>5 DEF Abort
  <2>3. QED
    BY <1>1, <2>1, <2>2
<1>6. ASSUME NEW r \in Run, Recover(r) \/ Prune(r) PROVE RowsExist'
  BY <1>6 DEF Recover, Prune, engineVars
<1>7. CASE UNCHANGED <<status, jobs, run>>
  BY <1>7
<1>8. QED
  BY <1>2, <1>3, <1>4, <1>5, <1>6, <1>7 DEF Next, Tick, Change, Read, Write,
     RecordFails, Flush, vars, rowVars, engineVars

\* Only one engine works at a time (RunLifecycle!OneEngine).
OneAtATime == \A e, f \in Engine : e = f

\* No step puts an unsafe stamp into use.
LEMMA NextStampsSafe ==
  ASSUME OneAtATime, DeltaInv, [Next]_vars PROVE StampsSafe'
<1> USE DEF DeltaInv
<1>1. TypeOK'
  BY NextTypeOK
\* Stamps that were in use before the step, when no engine writes or begins.
<1>2. ASSUME NEW s \in Time, InUse(s), UNCHANGED <<targetVars, run, started>>
      PROVE  /\ s <= now'
             /\ \A e \in Engine : run'[e] # None => s <= started'[e]
             /\ \A k \in Key : /\ Safe(copy[k], k, s)'
                               /\ undo'[k] # None => Safe(undo[k], k, s)'
  <2>1. s <= now /\ now \in Time /\ now' \in Time /\ now' >= now
    BY <1>1, <1>2, TimeGoesOn DEF StampsSafe, TypeOK
  <2>2. s <= now'
    BY <2>1 DEF Time
  <2>3. \A e \in Engine : run'[e] # None => s <= started'[e]
    BY <1>2 DEF StampsSafe
  <2>4. \A k \in Key : Safe(copy[k], k, s) /\ (undo[k] # None => Safe(undo[k], k, s))
    BY <1>2 DEF StampsSafe
  <2>5. \A k \in Key : Safe(copy[k], k, s)' /\ (undo'[k] # None => Safe(undo[k], k, s)')
    BY <1>2, <2>1, <2>4, SafeStays DEF Safe, targetVars
  <2>6. QED
    BY <2>2, <2>3, <2>5
<1>3. ASSUME UNCHANGED <<targetVars, run, started>>,
             \A s \in Time : InUse(s)' => InUse(s)
      PROVE  StampsSafe'
  BY <1>2, <1>3 DEF StampsSafe
<1>4. ASSUME NEW r \in Run, Admit(r) PROVE StampsSafe'
  <2>1. /\ status[r] = "absent" /\ status' = [status EXCEPT ![r] = "queued"]
        /\ \A q \in Run : q # r => real'[q] = real[q]
    BY <1>4 DEF Admit, TypeOK
  <2>2. Successes' = Successes
    BY <2>1 DEF Successes, TypeOK
  <2>3. UNCHANGED <<targetVars, run, started, base, lastSync, stamp>>
    BY <1>4 DEF Admit, targetVars, engineVars
  <2>4. QED
    BY <1>3, <2>2, <2>3 DEF InUse
<1>5. ASSUME NEW r \in Run, Recover(r) \/ Prune(r) PROVE StampsSafe'
  <2>1. /\ \/ status' = [status EXCEPT ![r] = "other"]
           \/ status' = [status EXCEPT ![r] = "pruned"]
        /\ real' = real
    BY <1>5 DEF Recover, Prune
  <2>2. Successes' \subseteq Successes
    BY <2>1 DEF Successes, TypeOK
  <2>3. UNCHANGED <<targetVars, run, started, base, lastSync, stamp>>
    BY <1>5 DEF Recover, Prune, targetVars, engineVars
  <2>4. QED
    BY <1>3, <2>2, <2>3 DEF InUse
<1>6. CASE /\ UNCHANGED <<targetVars, run, started, base>>
           /\ UNCHANGED rowVars
  <2>1. Successes' = Successes /\ UNCHANGED <<lastSync, stamp>>
    BY <1>6 DEF Successes, rowVars
  <2>2. QED
    BY <1>3, <1>6, <2>1 DEF InUse
<1>7. ASSUME NEW e \in Engine, NEW r \in Run, Begin(e, r) PROVE StampsSafe'
  <2>1. PICK b \in Time \cup {None} :
          IsBaseline(b) /\ base' = [base EXCEPT ![e] = b]
    BY <1>7 DEF Begin
  <2>2. /\ status' = [status EXCEPT ![r] = "running"]
        /\ run' = [run EXCEPT ![e] = r] /\ started' = [started EXCEPT ![e] = now]
        /\ UNCHANGED <<now, sourceVars, targetVars, real, stamp, lastSync>>
    BY <1>7 DEF Begin
  <2>3. Successes' \subseteq Successes
    BY <2>2 DEF Successes, TypeOK
  <2>4. ASSUME NEW s \in Time, InUse(s)' PROVE InUse(s)
    <3>1. ASSUME s = b PROVE InUse(s)
      BY <2>1, <3>1 DEF IsBaseline, InUse
    <3>2. ASSUME NEW f \in Engine, run'[f] # None, s = base'[f]
          PROVE  f = e /\ s = b
      BY <2>1, <3>2 DEF OneAtATime, TypeOK
    <3>3. QED
      BY <2>2, <2>3, <2>4, <3>1, <3>2 DEF InUse
  <2>5. ASSUME NEW s \in Time, InUse(s)'
        PROVE  /\ s <= now'
               /\ \A f \in Engine : run'[f] # None => s <= started'[f]
               /\ \A k \in Key : /\ Safe(copy[k], k, s)'
                                 /\ undo'[k] # None => Safe(undo[k], k, s)'
    <3>1. s <= now /\ \A k \in Key :
            Safe(copy[k], k, s) /\ (undo[k] # None => Safe(undo[k], k, s))
      BY <2>4, <2>5 DEF StampsSafe
    <3>2. \A f \in Engine : started'[f] = now
      BY <2>2 DEF OneAtATime, TypeOK
    <3>3. QED
      BY <2>2, <3>1, <3>2 DEF Safe, sourceVars, targetVars
  <2>6. QED
    BY <2>5 DEF StampsSafe
<1>8. ASSUME NEW e \in Engine, NEW k \in Key, Write(e, k) PROVE StampsSafe'
  <2>1. /\ run[e] # None /\ plan[e][k] # None
        /\ UNCHANGED <<now, sourceVars, rowVars, run, started, base>>
    BY <1>8 DEF Write
  <2>2. \A s \in Time : InUse(s)' => InUse(s)
    BY <2>1 DEF InUse, Successes, rowVars
  <2>3. ASSUME NEW s \in Time, InUse(s), NEW j \in Key
        PROVE  /\ Safe(copy[j], j, s)'
               /\ undo'[j] # None => Safe(undo[j], j, s)'
    <3>1. Safe(copy[j], j, s) /\ (undo[j] # None => Safe(undo[j], j, s))
      BY <2>3 DEF StampsSafe
    <3>2. Safe(plan[e][k], k, s)
      <4>1. s <= started[e] /\ Safe(plan[e][k], k, started[e])
        BY <2>1, <2>3 DEF StampsSafe, EnginesSafe
      <4>2. QED
        BY <4>1 DEF Safe, TypeOK, Time
    <3>3. copy'[j] = copy[j] \/ (j = k /\ copy'[j] = plan[e][k])
      BY <1>8 DEF Write, TypeOK, targetVars
    <3>4. undo'[j] = undo[j] \/ undo'[j] = copy[j]
      BY <1>8 DEF Write, TypeOK, targetVars
    <3>5. QED
      BY <2>1, <3>1, <3>2, <3>3, <3>4 DEF Safe, sourceVars
  <2>4. QED
    BY <2>1, <2>2, <2>3 DEF StampsSafe
<1>9. ASSUME NEW e \in Engine, Flush(e) PROVE StampsSafe'
  <2>1. /\ undo' = Settled
        /\ UNCHANGED <<now, sourceVars, copy, rowVars, engineVars>>
    BY <1>9 DEF Flush
  <2>2. \A s \in Time : InUse(s)' => InUse(s)
    BY <2>1 DEF InUse, Successes, rowVars, engineVars
  <2>3. \A k \in Key : undo'[k] = None
    BY <2>1 DEF Settled
  <2>4. QED
    BY <2>1, <2>2, <2>3 DEF StampsSafe, Safe, sourceVars, engineVars
<1>10. ASSUME NEW e \in Engine, Finish(e) PROVE StampsSafe'
  <2>1. DEFINE success == ~failed[e]
  <2>2. /\ run[e] # None /\ todo[e] = {} /\ \A k \in Key : plan[e][k] = None
        /\ status' = [status EXCEPT ![run[e]] = EndedAs(success)]
        /\ stamp' = [stamp EXCEPT ![run[e]] = SyncStamp(e, success)]
        /\ lastSync' = IF SyncStamp(e, success) = None THEN lastSync
                       ELSE SyncStamp(e, success)
        /\ undo' = Settled
        /\ UNCHANGED <<now, sourceVars, copy, real>>
    BY <1>10 DEF Finish
  <2>3. \A f \in Engine : run'[f] = None
    BY <1>10 DEF Finish, Leave, OneAtATime, TypeOK
  <2>4. ASSUME NEW s \in Time, InUse(s)'
        PROVE  InUse(s) \/ (real[run[e]] /\ ~failed[e] /\ s = started[e])
    <3>1. SyncStamp(e, success) = None
            \/ (real[run[e]] /\ ~failed[e] /\ SyncStamp(e, success) = started[e])
      BY DEF SyncStamp
    <3>2. CASE s = lastSync'
      BY <2>2, <3>1, <3>2 DEF InUse
    <3>3. ASSUME NEW r \in Successes', s = stamp'[r]
          PROVE  InUse(s) \/ (real[run[e]] /\ ~failed[e] /\ s = started[e])
      <4>1. CASE r = run[e]
        BY <2>2, <3>1, <3>3, <4>1 DEF TypeOK, Successes, Time
      <4>2. CASE r # run[e]
        BY <2>2, <3>3, <4>2 DEF TypeOK, Successes, InUse
      <4>3. QED
        BY <4>1, <4>2
    <3>4. QED
      BY <2>3, <2>4, <3>2, <3>3 DEF InUse
  <2>5. ASSUME NEW s \in Time, InUse(s)', NEW k \in Key
        PROVE  s <= now /\ Safe(copy[k], k, s)
    <3>1. CASE InUse(s)
      BY <3>1 DEF StampsSafe
    <3>2. CASE real[run[e]] /\ ~failed[e] /\ s = started[e]
      BY <2>2, <3>2 DEF EnginesSafe
    <3>3. QED
      BY <2>4, <2>5, <3>1, <3>2
  <2>6. ASSUME NEW s \in Time, InUse(s)' PROVE s <= now
    BY <2>2, <2>4, <2>6 DEF StampsSafe, EnginesSafe
  <2>7. \A k \in Key : undo'[k] = None
    BY <2>2 DEF Settled
  <2>8. QED
    BY <2>2, <2>3, <2>5, <2>6, <2>7 DEF StampsSafe, Safe, sourceVars
<1>11. ASSUME NEW e \in Engine, Abort(e) PROVE StampsSafe'
  <2>1. /\ undo' = Settled
        /\ \A k \in Key : copy'[k] = copy[k] \/ (undo[k] # None /\ copy'[k] = undo[k])
        /\ \A r \in Run : status'[r] \in {status[r], "other"}
        /\ UNCHANGED <<now, sourceVars, real, stamp, lastSync>>
    BY <1>11 DEF Abort, TypeOK
  <2>2. \A f \in Engine : run'[f] = None
    BY <1>11 DEF Abort, Leave, OneAtATime, TypeOK
  <2>3. Successes' \subseteq Successes
    BY <2>1 DEF Successes
  <2>4. \A s \in Time : InUse(s)' => InUse(s)
    BY <2>1, <2>2, <2>3 DEF InUse
  <2>5. \A k \in Key : undo'[k] = None
    BY <2>1 DEF Settled
  <2>6. QED
    BY <2>1, <2>2, <2>4, <2>5 DEF StampsSafe, Safe, sourceVars
<1>12. QED
  BY <1>4, <1>5, <1>6, <1>7, <1>8, <1>9, <1>10, <1>11 DEF Next, Tick, Change,
     Read, RecordFails, vars, engineVars

\* No step makes a plan, or what an engine has left behind it, unsafe.
LEMMA NextEnginesSafe ==
  ASSUME OneAtATime, DeltaInv, [Next]_vars PROVE EnginesSafe'
<1> USE DEF DeltaInv
<1>0. TypeOK' /\ RowsExist' /\ now \in Time /\ now' >= now
  BY NextTypeOK, NextRowsExist, TimeGoesOn
<1> DEFINE EngineSafe(e) ==
      /\ run[e] = None => plan[e] = Settled
      /\ run[e] # None =>
           /\ started[e] <= now
           /\ \A k \in Key : plan[e][k] # None => Safe(plan[e][k], k, started[e])
           /\ real[run[e]] /\ ~failed[e] =>
                \A k \in Key :
                  \/ k \in todo[e]
                  \/ plan[e][k] # None
                  \/ Safe(copy[k], k, started[e])
<1> SUFFICES ASSUME NEW e \in Engine PROVE EngineSafe(e)'
  BY DEF EnginesSafe
<1>1. EngineSafe(e) /\ \A f \in Engine : f = e
  BY DEF EnginesSafe, OneAtATime
\* The start of the run stays in the past.
<1>2. ASSUME run[e] # None, started' = started PROVE started'[e] <= now'
  BY <1>0, <1>1, <1>2 DEF TypeOK, Time
<1>3. CASE /\ UNCHANGED <<copy, engineVars>>
           /\ run[e] # None => real'[run[e]] = real[run[e]]
  <2>1. ASSUME run[e] # None, NEW k \in Key, NEW v, Safe(v, k, started[e])
        PROVE  v # ver'[k] /\ punctual'[k]
                 => mod'[k] \in Time /\ mod'[k] >= started[e]
    BY <1>1, <2>1, SafeStays DEF TypeOK
  <2>2. CASE run[e] = None
    BY <1>1, <1>3, <2>2 DEF engineVars, Settled
  <2>3. ASSUME run[e] # None, NEW k \in Key, plan[e][k] # None
        PROVE  Safe(plan[e][k], k, started[e])'
    BY <1>1, <1>3, <2>1, <2>3 DEF Safe, engineVars
  <2>4. ASSUME run[e] # None, real[run[e]], ~failed[e], NEW k \in Key,
               k \notin todo[e], plan[e][k] = None
        PROVE  Safe(copy[k], k, started[e])'
    BY <1>1, <1>3, <2>1, <2>4 DEF Safe, engineVars
  <2>5. QED
    BY <1>2, <1>3, <2>2, <2>3, <2>4 DEF engineVars
<1>4. ASSUME NEW r \in Run, Admit(r) PROVE EngineSafe(e)'
  <2>1. run[e] # None => real'[run[e]] = real[run[e]]
    BY <1>4 DEF Admit, RowsExist, TypeOK
  <2>2. QED
    BY <1>3, <1>4, <2>1 DEF Admit, targetVars
<1>5. ASSUME NEW r \in Run, Begin(e, r) PROVE EngineSafe(e)'
  <2>1. /\ run[e] = None /\ run' = [run EXCEPT ![e] = r]
        /\ started' = [started EXCEPT ![e] = now]
        /\ todo' = [todo EXCEPT ![e] = Key]
        /\ plan' = plan /\ now' = now
    BY <1>5 DEF Begin
  <2>2. \A k \in Key : plan'[e][k] = None
    BY <1>1, <2>1 DEF Settled
  <2>3. run'[e] # None /\ started'[e] = now /\ todo'[e] = Key
    BY <2>1 DEF TypeOK, Run
  <2>4. QED
    BY <1>0, <2>1, <2>2, <2>3 DEF Time
<1>6. ASSUME NEW k \in Key, Read(e, k) PROVE EngineSafe(e)'
  <2>1. /\ run[e] # None /\ k \in todo[e]
        /\ todo' = [todo EXCEPT ![e] = @ \ {k}]
        /\ plan' = IF ChangedSince(k, base[e])
                   THEN [plan EXCEPT ![e][k] = ver[k]] ELSE plan
        /\ UNCHANGED <<now, sourceVars, targetVars, rowVars, run, started, base,
                       failed>>
    BY <1>6 DEF Read
  <2>2. Safe(ver[k], k, started[e])
    BY DEF Safe
  <2>3. \A j \in Key : j # k => plan'[e][j] = plan[e][j]
    BY <2>1 DEF TypeOK
  <2>4. plan'[e][k] = plan[e][k] \/ plan'[e][k] = ver[k]
    BY <2>1 DEF TypeOK
  <2>5. \A j \in Key : plan'[e][j] # None => Safe(plan'[e][j], j, started[e])
    BY <1>1, <2>1, <2>2, <2>3, <2>4
  <2>6. ChangedSince(k, base[e]) => plan'[e][k] # None
    BY <2>1 DEF TypeOK, Version
  <2>7. ~ChangedSince(k, base[e]) => Safe(copy[k], k, started[e])
    <3>1. SUFFICES ASSUME base[e] # None, mod[k] = None \/ ~(mod[k] >= base[e]),
                          copy[k] # ver[k], punctual[k]
                   PROVE  FALSE
      BY DEF ChangedSince, Safe
    <3>2. base[e] \in Time /\ InUse(base[e])
      BY <2>1, <3>1 DEF InUse, TypeOK
    <3>3. Safe(copy[k], k, base[e])
      BY <3>2 DEF StampsSafe
    <3>4. QED
      BY <3>1, <3>3 DEF Safe, Time
  <2>8. \A j \in Key : j \notin todo'[e] => j = k \/ j \notin todo[e]
    BY <2>1 DEF TypeOK
  <2>9. real[run[e]] /\ ~failed[e] => \A j \in Key :
          j \in todo'[e] \/ plan'[e][j] # None \/ Safe(copy[j], j, started[e])
    BY <1>1, <2>1, <2>3, <2>6, <2>7, <2>8
  <2>10. /\ started'[e] <= now' /\ run'[e] = run[e] /\ started' = started
         /\ real' = real /\ failed' = failed
    BY <1>2, <2>1 DEF rowVars
  <2>11. QED
    BY <2>1, <2>5, <2>9, <2>10 DEF Safe, sourceVars, targetVars
<1>7. ASSUME NEW k \in Key, Write(e, k) \/ RecordFails(e, k)
      PROVE  EngineSafe(e)'
  <2>1. /\ run[e] # None /\ plan[e][k] # None
        /\ plan' = [plan EXCEPT ![e][k] = None]
        /\ UNCHANGED <<now, sourceVars, rowVars, run, started, todo>>
    BY <1>7 DEF Write, RecordFails
  <2>2. /\ plan'[e][k] = None
        /\ \A j \in Key : j # k => plan'[e][j] = plan[e][j]
    BY <2>1 DEF TypeOK
  <2>3. \A j \in Key : plan'[e][j] # None => Safe(plan'[e][j], j, started[e])
    BY <1>1, <2>1, <2>2
  <2>4. ASSUME real[run[e]], ~failed'[e], NEW j \in Key, j \notin todo[e],
               plan'[e][j] = None
        PROVE  copy'[j] # ver[j] /\ punctual[j]
                 => mod[j] \in Time /\ mod[j] >= started[e]
    <3>1. Write(e, k) /\ ~failed[e]
      BY <1>7, <2>4 DEF Write, RecordFails, TypeOK
    <3>2. copy' = [copy EXCEPT ![k] = plan[e][k]]
      BY <2>4, <3>1 DEF Write
    <3>3. CASE j = k
      BY <1>1, <2>1, <3>2, <3>3 DEF TypeOK, Safe
    <3>4. CASE j # k
      BY <1>1, <2>1, <2>2, <2>4, <3>1, <3>2, <3>4 DEF TypeOK, Safe
    <3>5. QED
      BY <3>3, <3>4
  <2>5. /\ started'[e] <= now' /\ run'[e] = run[e] /\ started' = started
        /\ real' = real /\ todo' = todo
    BY <1>2, <2>1 DEF rowVars
  <2>6. QED
    BY <2>1, <2>3, <2>4, <2>5 DEF Safe, sourceVars
<1>8. ASSUME Finish(e) \/ Abort(e) PROVE EngineSafe(e)'
  BY <1>8 DEF Finish, Abort, Leave, Settled, TypeOK
<1>9. ASSUME Flush(e) PROVE EngineSafe(e)'
  BY <1>3, <1>9 DEF Flush, rowVars
<1>10. ASSUME NEW r \in Run, Recover(r) \/ Prune(r) PROVE EngineSafe(e)'
  BY <1>3, <1>10 DEF Recover, Prune, targetVars
<1>11. Tick \/ (\E k \in Key : Change(k)) \/ UNCHANGED vars => EngineSafe(e)'
  BY <1>3 DEF Tick, Change, vars, targetVars, rowVars
<1>12. QED
  BY <1>1, <1>4, <1>5, <1>6, <1>7, <1>8, <1>9, <1>10, <1>11 DEF Next

\* With one engine at a time no change is lost, for any number of records, runs,
\* ticks and versions: every stamp a run may start from is at most the start of
\* a run that has written, or need not write, every change older than itself.
THEOREM NoLostChangeWithOneEngine == OneAtATime => (Spec => []NoLostChange)
<1> SUFFICES ASSUME OneAtATime PROVE Spec => []NoLostChange
  OBVIOUS
<1>1. Init => DeltaInv
  BY InitDeltaInv
<1>2. DeltaInv /\ [Next]_vars => DeltaInv'
  BY NextTypeOK, NextRowsExist, NextStampsSafe, NextEnginesSafe DEF DeltaInv
<1>3. DeltaInv => NoLostChange
  <2> SUFFICES ASSUME DeltaInv, NEW b \in Time, NEW k \in Key, IsBaseline(b),
                      copy[k] # ver[k], punctual[k]
               PROVE  mod[k] >= b
    BY DEF NoLostChange
  <2>1. InUse(b)
    BY DEF IsBaseline, InUse
  <2>2. QED
    BY <2>1 DEF DeltaInv, StampsSafe, Safe
<1>4. QED
  BY <1>1, <1>2, <1>3, PTL DEF Spec

=============================================================================
