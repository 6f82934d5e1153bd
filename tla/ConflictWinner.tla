--------------------------- MODULE ConflictWinner ---------------------------
(***************************************************************************)
(* One document and the row it belongs to, both edited by users, in a      *)
(* "Frappe <-> Partner" Sync Definition: which side a run writes, with     *)
(* which time stamp, and what a person makes of a conflict the run leaves  *)
(* to a person (bidirectional.py, changes.py, writes.py, matching.py,      *)
(* mapping.py, audit.py, management.py).                                   *)
(*                                                                         *)
(* A value is the number of the edit it comes from; edits are numbered in  *)
(* the order they are made in.  A write of a run copies the time stamp of  *)
(* the side it copies, so the stamps say when a user edited, not when the  *)
(* run wrote; all but the save that stores the row's identity, which       *)
(* stamps the document anew.  A run reads each side twice in a delta sync, *)
(* writes rows at once and documents in a transaction.  Given here: keys   *)
(* and identities do not change and neither side is deleted (IdentityLinks *)
(* and the one-way modules are about those); one engine at a time; both    *)
(* systems have the same clock; dry runs write nothing and are left out.   *)
(***************************************************************************)
EXTENDS Naturals

CONSTANTS
  MaxEdits,  \* bound: edits of users
  MaxTime,   \* bound: the clock
  MaxFaults, \* bound: failing writes and killed workers
  Configs,   \* the definitions considered, see Config
  Breaches,  \* which disciplines are dropped: Init, EditDoc, EditRow, Current
  None       \* nothing read, nothing to write, no baseline

Edit == 0..MaxEdits
Time == 0..MaxTime

Config == [mode : {"match_fields", "identity_fields"},
           ids : BOOLEAN,    \* are identity fields configured?
           delta : BOOLEAN,  \* use_last_sync_date
           update : BOOLEAN, \* update_existing
           buffer : 0..1,    \* timestamp_buffer_ms
           tie : {"manual", "frappe_wins", "partner_wins"}]
\* A document stores the identity of its row if it is linked.
Doc == [val : Edit, mod : Time, linked : BOOLEAN]
Row == [val : Edit, mod : Time]

ASSUME ConfigAssumption ==
  /\ Configs \subseteq Config
  /\ \A c \in Configs : c.mode = "identity_fields" => c.ids
ASSUME NoneAssumption == None \notin Doc \cup Row \cup Time
ASSUME BoundAssumption ==
  MaxEdits \in Nat /\ MaxTime \in Nat /\ MaxFaults \in Nat /\ Breaches \subseteq {"adopt", "race", "late"}

VARIABLES
  config,
  clock,
  edits,    \* edits made
  at,       \* when each was made, a history variable
  bumped,   \* when a run last stamped the document anew
  doc,      \* the document as the run's transaction sees it
  saved,    \* as committed
  row,
  faults,
  baseline, \* last_successful_sync
  phase,    \* of the run
  start,    \* when it began
  before,   \* the edits made before it began, a history variable
  outcome,  \* its status so far
  opDoc, knownDoc, \* what it listed of Frappe and what it looks documents up in
  opRow, knownRow, \* the same of the partner
  push,     \* the document it is to write to the row
  pull,     \* the row it is to write to the document
  items     \* open conflict items: the record read of each side

userVars == <<clock, edits, at>>
sideVars == <<doc, saved, row, bumped>>
readVars == <<opDoc, knownDoc, opRow, knownRow>>
runVars == <<phase, start, before, outcome, readVars, push, pull>>
vars == <<config, userVars, sideVars, faults, baseline, runVars, items>>

Item == [doc : Doc, row : Row]

TypeOK ==
  /\ config \in Configs
  /\ clock \in Time /\ edits \in Edit /\ at \in [Edit -> Time]
  /\ bumped \in Time \cup {None}
  /\ doc \in Doc /\ saved \in Doc /\ row \in Row
  /\ faults \in 0..MaxFaults
  /\ baseline \in Time \cup {None}
  /\ phase \in {"idle", "lookup", "partner", "rows", "push", "link", "pull", "end"}
  /\ start \in Time /\ before \in Edit
  /\ outcome \in {"Success", "Needs Review", "Partial Error"}
  /\ opDoc \in Doc \cup {None} /\ knownDoc \in Doc \cup {None}
  /\ opRow \in Row \cup {None} /\ knownRow \in Row \cup {None}
  /\ push \in Doc \cup {None} /\ pull \in Row \cup {None}
  /\ items \subseteq Item

\* A document and its row before the first run, with equal values.  In match_fields
\* mode an unlinked document beside a row with an identity is the breach "adopt".
Init ==
  /\ config \in Configs
  /\ clock = 0 /\ edits = 0 /\ at = [e \in Edit |-> 0] /\ bumped = None
  /\ \E linked \in BOOLEAN :
       /\ linked => config.ids
       /\ "adopt" \in Breaches \/ (config.mode = "match_fields" /\ config.ids => linked)
       /\ doc = [val |-> 0, mod |-> 0, linked |-> linked]
  /\ saved = doc /\ row = [val |-> 0, mod |-> 0]
  /\ faults = 0 /\ baseline = None /\ items = {}
  /\ phase = "idle" /\ start = 0 /\ before = 0 /\ outcome = "Success"
  /\ opDoc = None /\ knownDoc = None /\ opRow = None /\ knownRow = None
  /\ push = None /\ pull = None

-----------------------------------------------------------------------------
(* Users *)

Tick ==
  /\ clock < MaxTime /\ clock' = clock + 1
  /\ UNCHANGED <<config, edits, at, sideVars, faults, baseline, runVars, items>>

NewEdit ==
  /\ edits < MaxEdits /\ edits' = edits + 1
  /\ at' = [at EXCEPT ![edits + 1] = clock]
  /\ UNCHANGED <<config, clock, bumped, faults, baseline, runVars, items>>

\* The save of the link has stamped the document with a time that an edit made now
\* does not surpass.
LooksNewer == bumped # None /\ clock <= bumped + config.buffer

\* A user saves the document, unless the run's transaction holds its lock.
\* Discipline: not in the moment a run saved the link.
EditDoc ==
  /\ "race" \in Breaches \/ ~LooksNewer
  /\ doc = saved /\ NewEdit
  /\ doc' = [doc EXCEPT !.val = edits + 1, !.mod = clock] /\ saved' = doc'
  /\ UNCHANGED row

\* The partner edits the row.  Discipline: not between a run's write of the row
\* and its save of the link, nor in the same moment as that save.
EditRow ==
  /\ "race" \in Breaches \/ (phase # "link" /\ ~LooksNewer)
  /\ NewEdit
  /\ row' = [val |-> edits + 1, mod |-> clock]
  /\ UNCHANGED <<doc, saved>>

-----------------------------------------------------------------------------
(* A run reads, in the order of engine.py *)

\* (mutated: a change stamped exactly at the baseline is not selected)
ChangedSinceStrict(record) == baseline = None \/ record.mod > baseline

\* _record_changed_since
ChangedSince(record) == baseline = None \/ record.mod >= baseline

\* A delta sync lists what changed since the baseline.
IsDelta == config.delta /\ baseline # None
Listed(record) == IF IsDelta /\ ~ChangedSince(record) THEN None ELSE record

Start ==
  /\ phase = "idle" /\ phase' = "lookup"
  /\ start' = clock /\ before' = edits /\ outcome' = "Success"
  /\ opDoc' = Listed(doc)
  /\ knownDoc' = IF IsDelta THEN None ELSE opDoc'
  /\ UNCHANGED <<config, userVars, sideVars, faults, baseline, items, opRow, knownRow,
                 push, pull>>

ReadLookup ==
  /\ phase = "lookup" /\ phase' = "partner"
  /\ knownDoc' = IF IsDelta THEN doc ELSE knownDoc
  /\ UNCHANGED <<config, userVars, sideVars, faults, baseline, items, start, before,
                 outcome, opDoc, opRow, knownRow, push, pull>>

ReadPartner ==
  /\ phase = "partner" /\ phase' = "rows"
  /\ opRow' = Listed(row)
  /\ knownRow' = IF IsDelta THEN None ELSE opRow'
  /\ UNCHANGED <<config, userVars, sideVars, faults, baseline, items, start, before,
                 outcome, opDoc, knownDoc, push, pull>>

-----------------------------------------------------------------------------
(* The decision *)

\* _compare_modified_timestamps
Compare(d, r) ==
  IF d.mod <= r.mod + config.buffer /\ r.mod <= d.mod + config.buffer THEN "tie"
  ELSE IF r.mod > d.mod THEN "partner" ELSE "frappe"

\* resolve_conflict: the side to take, or a person decides.
Winner(d, r) ==
  IF ChangedSince(d) # ChangedSince(r)
  THEN IF ChangedSince(d) THEN "frappe" ELSE "partner"
  ELSE IF Compare(d, r) # "tie" THEN Compare(d, r)
  ELSE CASE config.tie = "partner_wins" -> "partner"
         [] config.tie = "frappe_wins" -> "frappe"
         [] config.tie = "manual" -> "manual"

\* _pair_token_from_frappe: in match_fields mode the tokens of a document and its
\* row are equal unless the row has an identity the document does not store.
SameToken(d) == config.ids => d.linked

\* The two records are compared as a pair (_sync_bidirectional_identity_pair, the
\* pairs of _sync_bidirectional); the links are among the differences.
DecidePair(d, r) ==
  LET differ == d.val # r.val \/ (config.mode = "identity_fields" /\ ~d.linked)
      winner == IF differ /\ config.update THEN Winner(d, r) ELSE "none"
  IN /\ push' = IF winner = "frappe" THEN d ELSE None
     /\ pull' = IF winner = "partner" THEN r ELSE None
     /\ IF winner = "manual"
        THEN /\ items' = items \cup {[doc |-> d, row |-> r]}
             /\ outcome' = "Needs Review"
        ELSE UNCHANGED <<items, outcome>>

\* match_fields mode, for each side that is listed alone: a one-way sync of that
\* record, compared with the lookup of the other side and with no look at times.
DecideAlone ==
  /\ push' = IF opDoc # None /\ config.update /\ opDoc.val # knownRow'.val
             THEN opDoc ELSE None
  /\ pull' = IF /\ opRow # None /\ config.update
                /\ opRow.val # knownDoc.val \/ (config.ids /\ ~knownDoc.linked)
             THEN opRow ELSE None
  /\ UNCHANGED <<items, outcome>>

\* The lookup of the rows, then the decision; writes forget what was read.
Decide ==
  /\ phase = "rows" /\ phase' = "push"
  /\ knownRow' = IF IsDelta THEN row ELSE opRow
  /\ IF opDoc = None /\ opRow = None
     THEN push' = None /\ pull' = None /\ UNCHANGED <<items, outcome>>
     ELSE IF config.mode = "identity_fields"
     THEN IF opRow = None THEN DecidePair(opDoc, knownRow') ELSE DecidePair(knownDoc, opRow)
     ELSE IF opDoc # None /\ opRow # None /\ SameToken(opDoc) THEN DecidePair(opDoc, opRow)
     ELSE DecideAlone
  /\ UNCHANGED <<config, userVars, sideVars, faults, baseline, start, before,
                 opDoc, knownDoc, opRow>>

-----------------------------------------------------------------------------
(* Writes: the row first, then the document *)

\* The transaction of Frappe may be committed with each audit item.
Log == saved' \in {saved, doc'}

\* (mutated: one failing record makes the run an Error)
FailsHard ==
  /\ faults < MaxFaults /\ faults' = faults + 1
  /\ outcome' = "Error"

\* A write fails; the run goes on.
Fails ==
  /\ faults < MaxFaults /\ faults' = faults + 1
  /\ outcome' = "Partial Error"

Writing == UNCHANGED <<config, userVars, baseline, start, before, readVars, items>>

\* (mutated: the row is stamped with the time of the write)
PushedNow(d) == [val |-> d.val, mod |-> clock]

\* _with_partner_timestamps: the row gets the stamp of the document.
Pushed(d) == [val |-> d.val, mod |-> d.mod]

\* _apply_partner_update and the one-way update of a row, up to the UPDATE.
Push ==
  /\ phase = "push" /\ Writing
  /\ \/ push = None /\ phase' = "pull" /\ UNCHANGED <<row, faults, outcome, push>>
     \/ /\ push # None /\ row' = Pushed(push)
        /\ phase' = IF config.ids /\ ~push.linked THEN "link" ELSE "pull"
        /\ push' = IF config.ids /\ ~push.linked THEN push ELSE None
        /\ UNCHANGED <<faults, outcome>>
     \/ push # None /\ Fails /\ phase' = "pull" /\ push' = None /\ UNCHANGED row
  /\ UNCHANGED <<doc, bumped, pull>> /\ Log

\* _persist_frappe_partner_identity: the save stamps the document with the time.
Link ==
  /\ phase = "link" /\ Writing
  /\ \/ /\ doc' = [doc EXCEPT !.linked = TRUE, !.mod = clock]
        /\ bumped' = clock /\ UNCHANGED <<faults, outcome>>
     \/ Fails /\ UNCHANGED <<doc, bumped>>
  /\ phase' = "pull" /\ push' = None
  /\ UNCHANGED <<row, pull>> /\ Log

\* _with_frappe_modified_timestamp, _set_mapped_frappe_modified
Pulled(r) == [val |-> r.val, mod |-> r.mod, linked |-> config.ids]

\* _apply_frappe_update and the one-way update of a document.
Pull ==
  /\ phase = "pull" /\ Writing
  /\ \/ pull = None /\ UNCHANGED <<doc, faults, outcome>>
     \/ pull # None /\ doc' = Pulled(pull) /\ UNCHANGED <<faults, outcome>>
     \/ pull # None /\ Fails /\ UNCHANGED doc
  /\ phase' = "end" /\ pull' = None
  /\ UNCHANGED <<row, bumped, push>> /\ Log

Reset ==
  /\ phase' = "idle" /\ start' = 0 /\ before' = 0 /\ outcome' = "Success"
  /\ opDoc' = None /\ knownDoc' = None /\ opRow' = None /\ knownRow' = None
  /\ push' = None /\ pull' = None

\* (mutated: a run with open conflicts leaves a baseline)
SyncStampReviewed == IF outcome = "Partial Error" THEN baseline ELSE start

\* last_sync_at of a successful run is the time it began.
SyncStamp == IF outcome = "Success" THEN start ELSE baseline

Finish ==
  /\ phase = "end"
  /\ baseline' = SyncStamp /\ saved' = doc
  /\ Reset
  /\ UNCHANGED <<config, userVars, doc, row, bumped, faults, items>>

\* The worker is killed: the row stays, the open transaction is rolled back.
Crash ==
  /\ phase # "idle"
  /\ faults < MaxFaults /\ faults' = faults + 1
  /\ doc' = saved /\ Reset
  /\ UNCHANGED <<config, userVars, saved, row, bumped, baseline, items>>

-----------------------------------------------------------------------------
(* resolve_sync_run_item *)

\* Discipline: the records still are what the item shows.
Current(it) == "late" \in Breaches \/ (doc = saved /\ doc = it.doc /\ row = it.row)

\* The status is checked without a lock: of two requests at a time both pass.
Close(it) ==
  \/ items' = items \ {it}
  \/ "late" \in Breaches /\ UNCHANGED items

\* _resolve_item_to_frappe writes the payload stored with the item.
AcceptRow(it) ==
  /\ config.update /\ it \in items /\ doc = saved /\ Current(it)
  /\ doc' = [val |-> it.row.val, mod |-> it.row.mod,
             linked |-> doc.linked \/ config.mode = "identity_fields"]
  /\ saved' = doc' /\ Close(it)
  /\ UNCHANGED <<config, userVars, row, bumped, faults, baseline, runVars>>

\* _resolve_item_to_partner
AcceptDoc(it) ==
  /\ config.update /\ it \in items /\ Current(it)
  /\ row' = Pushed(it.doc) /\ Close(it)
  /\ UNCHANGED <<config, userVars, doc, saved, bumped, faults, baseline, runVars>>

\* The write fails: the item becomes an error and cannot be resolved any more.
ResolutionFails(it) ==
  /\ config.update /\ it \in items
  /\ faults < MaxFaults /\ faults' = faults + 1
  /\ items' = items \ {it}
  /\ UNCHANGED <<config, userVars, sideVars, baseline, runVars>>

-----------------------------------------------------------------------------
Run == Start \/ ReadLookup \/ ReadPartner \/ Decide \/ Push \/ Link \/ Pull \/ Finish

Next ==
  \/ Tick \/ EditDoc \/ EditRow
  \/ Run \/ Crash
  \/ \E it \in items : AcceptRow(it) \/ AcceptDoc(it) \/ ResolutionFails(it)

Spec == Init /\ [][Next]_vars

\* The scheduler starts runs again and again (Scheduler) and a run goes on.
FairSpec == Spec /\ WF_vars(Run)

-----------------------------------------------------------------------------
(* Properties *)

\* Whatever is edited, rejected, killed or resolved between, a document and a row
\* that differ are visible to a delta sync: one has a stamp not before the baseline.
DivergenceIsSeen ==
  phase = "idle" /\ config.update /\ baseline # None /\ doc.val # row.val =>
    doc.mod >= baseline \/ row.mod >= baseline

\* A run replaces a value that was there when it began only by an edit that is
\* newer, or older by no more than the buffer, although stamps are copied to and
\* fro, saved anew, and compared with a baseline.
NewestWins ==
  [][/\ (phase = "push" /\ phase' \in {"link", "pull"} /\ row.val <= before) =>
          (row'.val = row.val \/ at[row'.val] + config.buffer >= at[row.val])
     /\ (phase = "pull" /\ phase' = "end" /\ doc.val <= before) =>
          (doc'.val = doc.val \/ at[doc'.val] + config.buffer >= at[doc.val])]_vars

\* If ties are not left to a person, both sides are equal for good once users rest.
Converges ==
  config.update /\ config.tie # "manual" => <>[](doc.val = row.val)
=============================================================================
