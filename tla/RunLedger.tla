------------------------------ MODULE RunLedger ------------------------------
(***************************************************************************)
(* What the Sync Run rows of one Sync Definition promise to whoever reads  *)
(* them, without locks, jobs, transactions and clocks.  Every row is begun *)
(* at most once, every row and the definition are told of an end together, *)
(* and nothing but an admission, an engine or a recovery writes them.      *)
(* One further promise holds under a condition only: engines exclude each  *)
(* other and admissions if they cannot outlive their lease.                *)
(***************************************************************************)
EXTENDS Naturals

CONSTANTS
  MaxRuns, DryRuns, None,
  Leased       \* do engines always end before their lease?

VARIABLES
  status,      \* status of each row, "Absent" before its insert
  dry,         \* its dry_run flag
  waiting,     \* the runs that may still begin
  working,     \* the runs an engine works for
  lastRun,     \* last_run of the definition
  lastStatus   \* last_run_status

vars == <<status, dry, waiting, working, lastRun, lastStatus>>

Run == 1..MaxRuns
Active == {"Queued", "Running"}
Outcome == {"Success", "Partial Error", "Needs Review", "Error"}

Init ==
  /\ status = [r \in Run |-> "Absent"]
  /\ dry = [r \in Run |-> FALSE]
  /\ waiting = {} /\ working = {}
  /\ lastRun = None /\ lastStatus = "Absent"

\* A row is inserted, perhaps beside an active one, while nothing works.
Admit(r) ==
  /\ Leased => working = {}
  /\ status[r] = "Absent"
  /\ \E d \in DryRuns : dry' = [dry EXCEPT ![r] = d]
  /\ status' = [status EXCEPT ![r] = "Queued"]
  /\ waiting' = waiting \cup {r}
  /\ UNCHANGED <<working, lastRun, lastStatus>>

\* A run that waits begins, for the only time: from Queued, or from Skipped when
\* recovery was faster than its job.
Begin(r) ==
  /\ Leased => working = {}
  /\ r \in waiting /\ status[r] \in {"Queued", "Skipped"}
  /\ status' = [status EXCEPT ![r] = "Running"]
  /\ waiting' = waiting \ {r} /\ working' = working \cup {r}
  /\ UNCHANGED <<dry, lastRun, lastStatus>>

\* Its end is told to the definition unless it was a dry run.
End(r, st) ==
  /\ r \in working /\ working' = working \ {r}
  /\ status' = [status EXCEPT ![r] = st]
  /\ IF dry[r] THEN UNCHANGED <<lastRun, lastStatus>>
     ELSE lastRun' = r /\ lastStatus' = st
  /\ UNCHANGED <<dry, waiting>>

\* A job, the process that has it, or its engine is lost and leaves the row as it is.
Lose(r) ==
  /\ r \in waiting \cup working
  /\ waiting' = waiting \ {r} /\ working' = working \ {r}
  /\ UNCHANGED <<status, dry, lastRun, lastStatus>>

\* Rows declared dead: Skipped if they waited, Error if they were at work when
\* they were looked at; the definition keeps the last of them.
Recover(S) ==
  /\ \A r \in S : status[r] # "Absent"
  /\ \A r \in Run \ S : status'[r] = status[r]
  /\ \A r \in S : status'[r] \in {"Skipped", "Error"}
  /\ \A r \in S : status[r] = "Queued" => status'[r] = "Skipped"
  /\ lastRun' \in S /\ \A r \in S : r <= lastRun'
  /\ lastStatus' = status'[lastRun']
  /\ UNCHANGED <<dry, waiting, working>>

Next ==
  \/ \E r \in Run :
       Admit(r) \/ Begin(r) \/ Lose(r) \/ \E st \in Outcome : End(r, st)
  \/ \E S \in SUBSET Run : Recover(S)

Spec == Init /\ [][Next]_vars
=============================================================================
