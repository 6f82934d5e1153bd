--------------------------- MODULE IdentityLinks ---------------------------
(***************************************************************************)
(* One "Frappe <-> Partner" Sync Definition that pairs documents and rows  *)
(* by the identities they store of each other (match_mode identity_fields):*)
(* what a run makes of the links it reads, contradictory ones included,    *)
(* and what it creates, links and deletes (bidirectional.py from           *)
(* _sync_bidirectional_identity_fields on, matching.py, writes.py,         *)
(* engine.py).                                                             *)
(*                                                                         *)
(* The partner commits each statement at once; what the run does to        *)
(* documents is one transaction of Frappe, committed after some audit      *)
(* items and at the end.  Documents and rows are reduced to their links:   *)
(* which side of a pair wins is ConflictWinner's subject and arbitrary     *)
(* here.  Users create, copy and delete on both sides; they do not edit    *)
(* the identity fields.  Taken as given: one engine at a time, real runs,  *)
(* identities of rows are not used again (FrappeToPartner shows what       *)
(* max_plus_one does with them).  A dead worker loses the transaction.     *)
(***************************************************************************)
EXTENDS Naturals

CONSTANTS
  Name,       \* names of documents
  MaxId,      \* bound: identities the partner's column may hold
  Configs,    \* the definitions considered, see Config
  NewNames,   \* a name that was rolled back is not given again (autoname hash)
  Unruly,     \* may users delete at any time? see Alone
  MaxChanges, \* bound: changes users make
  MaxFaults,  \* bound: failing writes and killed workers
  None,       \* no link, no record
  Gone        \* the document or row was deleted

Id == 1..MaxId

Config == [strategy : {"connector_default", "sequence"}, \* of new identities
           create : BOOLEAN,  \* create_new
           update : BOOLEAN,  \* update_existing
           delete : BOOLEAN]  \* delete_missing
\* born is the record of the other side a record was inserted for, a history
\* variable; pid and fid are the links.
Doc == [pid : Id \cup {None}, born : Id \cup {None}]
Row == [fid : Name \cup {None}, born : Name \cup {None}]
Pair == [doc : Name, row : Id, pid : Id \cup {None}, fid : Name \cup {None}]

ASSUME ConfigAssumption == Configs \subseteq Config
ASSUME NoneAssumption ==
  /\ Name \cap Id = {} /\ None # Gone
  /\ None \notin Id \cup Name \cup Doc \cup Row
  /\ Gone \notin Id \cup Name \cup Doc \cup Row
ASSUME BoundAssumption ==
  /\ MaxId \in Nat /\ MaxChanges \in Nat /\ MaxFaults \in Nat
  /\ NewNames \in BOOLEAN /\ Unruly \in BOOLEAN

VARIABLES
  config,  \* the definition
  docs,    \* the documents as the transaction of the run sees them
  saved,   \* the documents as committed
  rows,    \* the partner's table
  lastId,  \* the greatest identity given
  lost,    \* names of documents whose insert was rolled back
  changes, faults, \* what the bounds count
  phase,   \* of the run
  full,    \* a full sync, not a delta sync?
  opDocs, knownDocs, \* frappe_records and frappe_lookup_records
  opRows, knownRows, \* partner_records and partner_lookup_records
  todo,    \* records not resolved yet
  conflicted, \* conflicted_ids
  pairs,   \* the pairs found
  onlyDocs, onlyRows, \* frappe_only and partner_only
  doomed,  \* documents and rows whose counterpart is missing
  dirty    \* did users change anything, or a write fail, since the run began?

siteVars == <<docs, saved, lost>>
partnerVars == <<rows, lastId>>
boundVars == <<changes, faults>>
readVars == <<full, opDocs, knownDocs, opRows, knownRows>>
planVars == <<todo, conflicted, pairs, onlyDocs, onlyRows, doomed>>
runVars == <<phase, readVars, planVars>>
vars == <<config, siteVars, partnerVars, boundVars, runVars, dirty>>

Nothing(S) == [x \in S |-> None]
Live(f) == {x \in DOMAIN f : f[x] \notin {None, Gone}}

TypeOK ==
  /\ config \in Configs
  /\ docs \in [Name -> Doc \cup {None, Gone}]
  /\ saved \in [Name -> Doc \cup {None, Gone}]
  /\ rows \in [Id -> Row \cup {None, Gone}]
  /\ lastId \in 0..MaxId /\ lost \subseteq Name
  /\ changes \in 0..MaxChanges /\ faults \in 0..MaxFaults
  /\ phase \in {"idle", "frappe", "lookup", "partner", "resolve", "write", "end"}
  /\ full \in BOOLEAN
  /\ opDocs \in [Name -> Doc \cup {None}] /\ knownDocs \in [Name -> Doc \cup {None}]
  /\ opRows \in [Id -> Row \cup {None}] /\ knownRows \in [Id -> Row \cup {None}]
  /\ todo \subseteq Name \cup Id /\ conflicted \subseteq Name \cup Id
  /\ pairs \subseteq Pair
  /\ onlyDocs \subseteq Name /\ onlyRows \subseteq Id
  /\ doomed \subseteq Name \cup Id
  /\ dirty \in BOOLEAN

\* No run is at work.
Reset ==
  /\ phase' = "idle" /\ full' = FALSE
  /\ opDocs' = Nothing(Name) /\ knownDocs' = Nothing(Name)
  /\ opRows' = Nothing(Id) /\ knownRows' = Nothing(Id)
  /\ todo' = {} /\ conflicted' = {} /\ pairs' = {} /\ onlyDocs' = {} /\ onlyRows' = {}
  /\ doomed' = {} /\ dirty' = FALSE

Init ==
  /\ config \in Configs
  /\ docs = Nothing(Name) /\ saved = docs /\ lost = {}
  /\ rows = Nothing(Id) /\ lastId = 0
  /\ changes = 0 /\ faults = 0
  /\ phase = "idle" /\ full = FALSE
  /\ opDocs = Nothing(Name) /\ knownDocs = Nothing(Name)
  /\ opRows = Nothing(Id) /\ knownRows = Nothing(Id)
  /\ todo = {} /\ conflicted = {} /\ pairs = {} /\ onlyDocs = {} /\ onlyRows = {}
  /\ doomed = {} /\ dirty = FALSE

-----------------------------------------------------------------------------
(* Users *)

\* Between two resolutions, which only compute on what was read, a change of a
\* user commutes with them; it is not interleaved there.
UserMay == changes < MaxChanges /\ changes' = changes + 1 /\ phase # "resolve"
UserDid == dirty' = (phase # "idle") /\ UNCHANGED <<config, faults, runVars>>

\* A name that neither view knows; the names of a naming series may come again
\* after a rollback.
Unused(n) == docs[n] = None /\ saved[n] = None /\ (NewNames => n \notin lost)

SetDoc(n, d) ==
  /\ docs' = [docs EXCEPT ![n] = d] /\ saved' = [saved EXCEPT ![n] = d]

\* A document is created, or duplicated with the stored identity of another.
NewDoc(n) ==
  /\ UserMay /\ Unused(n)
  /\ \E p \in {None} \cup {saved[m].pid : m \in Live(saved)} :
       SetDoc(n, [pid |-> p, born |-> None])
  /\ UserDid /\ UNCHANGED <<lost, partnerVars>>

\* The discipline of users: a copy, or what it was copied from, is not deleted
\* while a run is at work, and no row between the two reads of a delta sync.
Alone(f, x, link) ==
  Unruly \/ phase = "idle" \/ \A y \in Live(f) \ {x} : link[y] # link[x] \/ link[x] = None

Pids == [n \in Live(saved) |-> saved[n].pid]
Fids == [i \in Live(rows) |-> rows[i].fid]

\* A document is deleted, unless the run's transaction holds a lock on it.
DeleteDoc(n) ==
  /\ UserMay /\ n \in Live(docs) /\ docs[n] = saved[n] /\ Alone(saved, n, Pids)
  /\ SetDoc(n, Gone)
  /\ UserDid /\ UNCHANGED <<lost, partnerVars>>

\* A row is inserted, or copied with the stored name of another.
NewRow ==
  /\ UserMay /\ lastId < MaxId
  /\ lastId' = lastId + 1
  /\ \E f \in {None} \cup {rows[j].fid : j \in Live(rows)} :
       rows' = [rows EXCEPT ![lastId + 1] = [fid |-> f, born |-> None]]
  /\ UserDid /\ UNCHANGED siteVars

DeleteRow(i) ==
  /\ UserMay /\ i \in Live(rows) /\ Alone(rows, i, Fids)
  /\ Unruly \/ full \/ phase # "partner"
  /\ rows' = [rows EXCEPT ![i] = Gone]
  /\ UserDid /\ UNCHANGED <<lastId, siteVars>>

-----------------------------------------------------------------------------
(* The reads of a run, in the order of engine.py *)

\* (mutated: what was deleted is listed as well)
ListedAll(f) == f

\* A read of a whole side.
Listed(f) == [x \in DOMAIN f |-> IF x \in Live(f) THEN f[x] ELSE None]

\* A delta sync lists the records changed since the baseline, here any.
Delta(f, S) == [x \in DOMAIN f |-> IF x \in S THEN f[x] ELSE None]

Start ==
  /\ phase = "idle"
  /\ full' \in BOOLEAN
  /\ \E S \in SUBSET Live(docs) :
       /\ full' => S = Live(docs)
       /\ opDocs' = Delta(docs, S)
  /\ IF full' THEN phase' = "lookup" /\ knownDocs' = opDocs'
     ELSE phase' = "frappe" /\ UNCHANGED knownDocs
  /\ UNCHANGED <<config, siteVars, partnerVars, boundVars, opRows, knownRows,
                 planVars, dirty>>

ReadLookup ==
  /\ phase = "frappe" /\ phase' = "lookup"
  /\ knownDocs' = Listed(docs)
  /\ UNCHANGED <<config, siteVars, partnerVars, boundVars, full, opDocs, opRows,
                 knownRows, planVars, dirty>>

ReadPartner ==
  /\ phase = "lookup"
  /\ \E S \in SUBSET Live(rows) :
       /\ full => S = Live(rows)
       /\ opRows' = Delta(rows, S)
  /\ phase' = "partner"
  /\ UNCHANGED <<config, siteVars, partnerVars, boundVars, full, opDocs, knownDocs,
                 knownRows, planVars, dirty>>

-----------------------------------------------------------------------------
(* Resolution *)

\* _identity_conflict_keys
DocKeys(n, d) == {n, d.pid} \ {None}
RowKeys(i, r) == {i, r.fid} \ {None}

DocsClaiming(i) == {n \in Live(knownDocs) : knownDocs[n].pid = i}
RowsClaiming(n) == {i \in Live(knownRows) : knownRows[i].fid = n}

\* _identity_unique_index: a value that several records have is not indexed.
Sole(S) == {x \in S : S = {x}}

\* (mutated: a document is looked for by its stored identity only)
RowsById(n, d) == {d.pid} \cap Live(knownRows)

\* The rows of a document: the one with its stored identity, or else the one that
\* names it.
RowsOf(n, d) ==
  IF d.pid \in Live(knownRows) THEN {d.pid} ELSE Sole(RowsClaiming(n))

\* duplicate_conflicts of _build_identity_record_state
Duplicates(R) ==
  LET D == {n \in Live(knownDocs) :
              \E m \in Live(knownDocs) \ {n} :
                knownDocs[m].pid = knownDocs[n].pid /\ knownDocs[n].pid # None}
      P == {i \in Live(R) :
              \E j \in Live(R) \ {i} : R[j].fid = R[i].fid /\ R[i].fid # None}
  IN (UNION {DocKeys(n, knownDocs[n]) : n \in D}) \cup (UNION {RowKeys(i, R[i]) : i \in P})

\* The lookup of the rows; a full sync has read them already.
Index ==
  /\ phase = "partner" /\ phase' = "resolve"
  /\ knownRows' = IF full THEN opRows ELSE Listed(rows)
  /\ conflicted' = Duplicates(knownRows')
  /\ todo' = Live(opDocs) \cup Live(opRows)
  /\ UNCHANGED <<config, siteVars, partnerVars, boundVars, full, opDocs, knownDocs,
                 opRows, pairs, onlyDocs, onlyRows, doomed, dirty>>

Resolving(x) ==
  /\ phase = "resolve" /\ x \in todo
  /\ todo' = todo \ {x}
  /\ UNCHANGED <<config, siteVars, partnerVars, boundVars, phase, readVars, doomed,
                 dirty>>

\* _resolve_identity_partner_for_frappe, for a document of the operation list.
ResolveDoc(n) ==
  /\ n \in Name /\ Resolving(n)
  /\ LET d == opDocs[n]
         found == RowsOf(n, d)
     IN IF DocKeys(n, d) \cap conflicted # {}
        THEN UNCHANGED <<conflicted, pairs, onlyDocs, onlyRows>>
        ELSE IF found = {}
        THEN onlyDocs' = onlyDocs \cup {n} /\ UNCHANGED <<conflicted, pairs, onlyRows>>
        ELSE \E i \in found :
               LET r == knownRows[i]
               IN /\ UNCHANGED <<onlyDocs, onlyRows>>
                  /\ IF \/ Sole(RowsClaiming(n)) \notin {{}, {i}}
                        \/ d.pid \notin {None, i}
                        \/ r.fid \notin {None, n}
                     THEN /\ conflicted' = conflicted \cup DocKeys(n, d) \cup RowKeys(i, r)
                          /\ UNCHANGED pairs
                     ELSE /\ pairs' = IF RowKeys(i, r) \cap conflicted # {} THEN pairs
                                      ELSE pairs \cup {[doc |-> n, row |-> i,
                                                        pid |-> d.pid, fid |-> r.fid]}
                          /\ UNCHANGED conflicted

\* _resolve_identity_frappe_for_partner, for a row of the operation list, after
\* the documents: the document that stores its identity, or else the one it names.
\* A pair found twice keeps what the row's side read.
ResolveRow(i) ==
  /\ i \in Id /\ Resolving(i) /\ todo \cap Name = {}
  /\ LET r == opRows[i]
         ById == Sole(DocsClaiming(i))
         ByName == {r.fid} \cap Live(knownDocs)
         found == IF ById # {} /\ (ByName = {} \/ ById = ByName) THEN ById ELSE ByName
     IN IF RowKeys(i, r) \cap conflicted # {}
        THEN UNCHANGED <<conflicted, pairs, onlyDocs, onlyRows>>
        ELSE IF found = {}
        THEN onlyRows' = onlyRows \cup {i} /\ UNCHANGED <<conflicted, pairs, onlyDocs>>
        ELSE \E n \in found :
               LET d == knownDocs[n]
               IN /\ UNCHANGED <<onlyDocs, onlyRows>>
                  /\ IF \/ ById # {} /\ ByName # {} /\ ById # ByName
                        \/ r.fid \notin {None, n}
                        \/ d.pid \notin {None, i}
                     THEN /\ conflicted' = conflicted \cup DocKeys(n, d) \cup RowKeys(i, r)
                          /\ UNCHANGED pairs
                     ELSE /\ pairs' = IF DocKeys(n, d) \cap conflicted # {} THEN pairs
                                      ELSE {p \in pairs : <<p.doc, p.row>> # <<n, i>>}
                                             \cup {[doc |-> n, row |-> i,
                                                    pid |-> d.pid, fid |-> r.fid]}
                          /\ UNCHANGED conflicted

\* (mutated: records that store no link count as well)
UnlinkedToo ==
  {n \in Live(knownDocs) :
     /\ knownDocs[n].pid \notin Live(knownRows)
     /\ Sole(RowsClaiming(n)) = {}
     /\ DocKeys(n, knownDocs[n]) \cap conflicted = {}}
  \cup
  {i \in Live(knownRows) :
     /\ knownRows[i].fid \notin Live(knownDocs)
     /\ Sole(DocsClaiming(i)) = {}
     /\ RowKeys(i, knownRows[i]) \cap conflicted = {}}

\* (mutated: documents in a contradiction as well)
OrphansContradicted ==
  {n \in Live(knownDocs) :
     /\ knownDocs[n].pid # None /\ knownDocs[n].pid \notin Live(knownRows)
     /\ Sole(RowsClaiming(n)) = {}}
  \cup
  {i \in Live(knownRows) :
     /\ knownRows[i].fid # None /\ knownRows[i].fid \notin Live(knownDocs)
     /\ Sole(DocsClaiming(i)) = {}
     /\ RowKeys(i, knownRows[i]) \cap conflicted = {}}

\* (mutated: documents only)
OrphanDocs ==
  {n \in Live(knownDocs) :
     /\ knownDocs[n].pid # None /\ knownDocs[n].pid \notin Live(knownRows)
     /\ Sole(RowsClaiming(n)) = {}
     /\ DocKeys(n, knownDocs[n]) \cap conflicted = {}}

\* _delete_missing_identity_records: linked, and no indexed record is at the other
\* end of the link.
Orphans ==
  {n \in Live(knownDocs) :
     /\ knownDocs[n].pid # None /\ knownDocs[n].pid \notin Live(knownRows)
     /\ Sole(RowsClaiming(n)) = {}
     /\ DocKeys(n, knownDocs[n]) \cap conflicted = {}}
  \cup
  {i \in Live(knownRows) :
     /\ knownRows[i].fid # None /\ knownRows[i].fid \notin Live(knownDocs)
     /\ Sole(DocsClaiming(i)) = {}
     /\ RowKeys(i, knownRows[i]) \cap conflicted = {}}

\* Everything is resolved: what is in conflict by now is left alone.
Plan ==
  /\ phase = "resolve" /\ todo = {} /\ phase' = "write"
  /\ pairs' = {p \in pairs : {p.doc, p.row, p.pid, p.fid} \cap conflicted = {}}
  /\ onlyDocs' = {n \in onlyDocs : DocKeys(n, opDocs[n]) \cap conflicted = {}
                                     /\ opDocs[n].pid = None}
  /\ onlyRows' = {i \in onlyRows : RowKeys(i, opRows[i]) \cap conflicted = {}
                                     /\ opRows[i].fid = None}
  /\ doomed' = IF config.delete /\ full THEN Orphans ELSE {}
  /\ opDocs' = Nothing(Name) /\ knownDocs' = Nothing(Name)
  /\ opRows' = Nothing(Id) /\ knownRows' = Nothing(Id)
  /\ UNCHANGED <<config, siteVars, partnerVars, boundVars, full, todo, conflicted, dirty>>

-----------------------------------------------------------------------------
(* Writes *)

\* The transaction of Frappe may be committed with each audit item.
Log == saved' \in {saved, docs'}

Error == UNCHANGED docs /\ dirty' = TRUE /\ Log

Rejected ==
  /\ faults < MaxFaults /\ faults' = faults + 1
  /\ Error /\ UNCHANGED partnerVars

\* upsert_record: the row with identity i, or a new one, is made to name n.
Upsert(i, n) ==
  IF i \in Live(rows)
  THEN rows' = [rows EXCEPT ![i].fid = n] /\ UNCHANGED lastId
  ELSE /\ lastId' = lastId + 1
       /\ rows' = [rows EXCEPT ![lastId + 1] = [fid |-> n, born |-> n]]

\* The identity upsert_record reports for a row asked for by i: connector_default
\* reports what it was asked for.
Resolved(i) ==
  IF i \in Live(rows) \/ config.strategy = "connector_default" THEN i ELSE lastId + 1

\* A row is to be inserted and the identity column has no value left.
Exhausted(i) == i \notin Live(rows) /\ lastId = MaxId

\* _persist_frappe_partner_identity; the document may be gone, or its save may
\* fail, although the row is written.
Persist(n, id, known) ==
  \/ id \in {None, known} /\ UNCHANGED <<docs, dirty, faults>> /\ Log
  \/ /\ id \notin {None, known} /\ n \in Live(docs)
     /\ docs' = [docs EXCEPT ![n].pid = id]
     /\ UNCHANGED <<dirty, faults>> /\ Log
  \/ /\ id \notin {None, known} /\ Error
     /\ IF n \in Live(docs) THEN faults < MaxFaults /\ faults' = faults + 1
        ELSE UNCHANGED faults

Writing(S) == phase = "write" /\ S /\ UNCHANGED <<config, lost, changes, phase, readVars,
                                                  todo, conflicted>>

\* _apply_partner_update.  The record keeps the identity persisted for it, so that
\* delete_missing looks for a row it has not read.
UpdatePartner(p) ==
  \/ /\ ~Exhausted(p.row)
     /\ Upsert(p.row, p.doc)
     /\ Persist(p.doc, Resolved(p.row), p.pid)
     /\ doomed' = IF /\ config.delete /\ full /\ p.fid = None
                     /\ Resolved(p.row) # p.row /\ docs' # docs
                  THEN doomed \cup {p.doc} ELSE doomed
  \/ Exhausted(p.row) /\ Error /\ UNCHANGED <<partnerVars, faults, doomed>>
  \/ Rejected /\ UNCHANGED doomed

\* _apply_frappe_update
UpdateFrappe(p) ==
  /\ \/ /\ p.doc \in Live(docs)
        /\ docs' = [docs EXCEPT ![p.doc].pid = p.row]
        /\ Log /\ UNCHANGED <<partnerVars, faults, dirty>>
     \/ p.doc \notin Live(docs) /\ Error /\ UNCHANGED <<partnerVars, faults>>
     \/ Rejected
  /\ UNCHANGED doomed

\* No difference, update_existing off, or a conflict for a person to decide.
Leave(linked) ==
  /\ IF linked THEN UNCHANGED dirty ELSE dirty' = TRUE
  /\ UNCHANGED <<docs, partnerVars, faults, doomed>> /\ Log

\* _sync_bidirectional_identity_pair: links are among the differences.
SyncPair(p) ==
  /\ Writing(p \in pairs)
  /\ pairs' = pairs \ {p} /\ UNCHANGED <<onlyDocs, onlyRows>>
  /\ LET linked == p.pid = p.row /\ p.fid = p.doc
     IN \/ Leave(linked)
        \/ config.update /\ UpdatePartner(p)
        \/ config.update /\ UpdateFrappe(p)

\* delete_doc and delete_record: not an error if the record is gone.
DeleteOrphan(x) ==
  /\ Writing(pairs = {} /\ x \in doomed) /\ (x \in Id => doomed \cap Name = {})
  /\ doomed' = doomed \ {x} /\ UNCHANGED <<pairs, onlyDocs, onlyRows>>
  /\ \/ /\ x \in Name
        /\ docs' = [docs EXCEPT ![x] = Gone] /\ Log
        /\ UNCHANGED <<partnerVars, faults, dirty>>
     \/ /\ x \in Id
        /\ rows' = [rows EXCEPT ![x] = Gone] /\ UNCHANGED docs /\ Log
        /\ UNCHANGED <<lastId, faults, dirty>>
     \/ Rejected

\* _create_identity_partner_from_frappe: always an INSERT.  connector_default does
\* not report the identity of the new row.
CreateRow(n) ==
  /\ Writing(pairs = {} /\ doomed = {} /\ n \in onlyDocs)
  /\ onlyDocs' = onlyDocs \ {n} /\ UNCHANGED <<pairs, onlyRows, doomed>>
  /\ IF ~config.create THEN Leave(FALSE)
     ELSE \/ /\ ~Exhausted(None)
             /\ Upsert(None, n)
             /\ Persist(n, IF config.strategy = "sequence" THEN lastId + 1 ELSE None, None)
          \/ Exhausted(None) /\ Error /\ UNCHANGED <<partnerVars, faults>>
          \/ Rejected

\* _create_identity_frappe_from_partner: the document first, then its name is
\* written to the row; if that is rejected the document stays.
CreateDoc(i) ==
  /\ Writing(pairs = {} /\ doomed = {} /\ onlyDocs = {} /\ i \in onlyRows)
  /\ onlyRows' = onlyRows \ {i} /\ UNCHANGED <<pairs, onlyDocs, doomed>>
  /\ IF ~config.create THEN Leave(FALSE)
     ELSE \/ \E n \in {m \in Name : Unused(m)} :
               /\ docs' = [docs EXCEPT ![n] = [pid |-> i, born |-> i]]
               /\ Log
               /\ \/ ~Exhausted(i) /\ Upsert(i, n) /\ UNCHANGED <<faults, dirty>>
                  \/ /\ IF Exhausted(i) THEN UNCHANGED faults
                        ELSE faults < MaxFaults /\ faults' = faults + 1
                     /\ dirty' = TRUE /\ UNCHANGED partnerVars
          \/ (\A m \in Name : ~Unused(m)) /\ Error /\ UNCHANGED <<partnerVars, faults>>
          \/ Rejected

EndRun ==
  /\ phase = "write" /\ pairs = {} /\ doomed = {} /\ onlyDocs = {} /\ onlyRows = {}
  /\ phase' = "end" /\ saved' = docs
  /\ UNCHANGED <<config, docs, lost, partnerVars, boundVars, readVars, planVars, dirty>>

Finish ==
  /\ phase = "end" /\ Reset
  /\ UNCHANGED <<config, siteVars, partnerVars, boundVars>>

\* The worker is killed: rows stay, the open transaction is rolled back.
Crash ==
  /\ phase \notin {"idle", "end"}
  /\ faults < MaxFaults /\ faults' = faults + 1
  /\ docs' = saved /\ saved' = saved
  /\ lost' = lost \cup (Live(docs) \cap {n \in Name : saved[n] = None})
  /\ Reset
  /\ UNCHANGED <<config, partnerVars, changes>>

Next ==
  \/ \E n \in Name : NewDoc(n) \/ DeleteDoc(n) \/ ResolveDoc(n) \/ CreateRow(n)
  \/ \E i \in Id : DeleteRow(i) \/ ResolveRow(i) \/ CreateDoc(i)
  \/ NewRow \/ Start \/ ReadLookup \/ ReadPartner \/ Index \/ Plan
  \/ \E p \in pairs : SyncPair(p)
  \/ \E x \in doomed : DeleteOrphan(x)
  \/ EndRun \/ Finish \/ Crash

Spec == Init /\ [][Next]_vars

-----------------------------------------------------------------------------
(* Properties *)

\* However links are lost, copied, contradictory or read late, a run inserts no
\* second row for a document and no second document for a row.
OneCounterpart ==
  /\ \A i, j \in Live(rows) : rows[i].born = rows[j].born /\ rows[i].born # None => i = j
  /\ \A m, n \in Live(docs) : docs[m].born = docs[n].born /\ docs[m].born # None => m = n

\* A full sync that creates and deletes, in which nothing failed, nothing changed and
\* no links contradict each other, leaves no document without a row and no row
\* without a document.
Completes ==
  phase = "end" /\ full /\ ~dirty /\ conflicted = {} /\ config.create /\ config.delete =>
    /\ \A n \in Live(docs) : \E i \in Live(rows) : docs[n].pid = i \/ rows[i].fid = n
    /\ \A i \in Live(rows) : \E n \in Live(docs) : docs[n].pid = i \/ rows[i].fid = n

\* Of the records that were read, a pair has the only ones that claim each other, and
\* what is created or deleted is claimed by none and shares its own claim with none:
\* a record in a contradiction is neither written, created again, nor deleted.
UnambiguousPairs ==
  [][phase = "resolve" /\ phase' = "write" /\ ~dirty =>
       /\ \A p \in pairs' : /\ DocsClaiming(p.row) \subseteq {p.doc}
                            /\ RowsClaiming(p.doc) \subseteq {p.row}
                            /\ knownDocs[p.doc].pid \in {None, p.row}
                            /\ knownRows[p.row].fid \in {None, p.doc}
       /\ \A n \in onlyDocs' : RowsClaiming(n) = {}
       /\ \A i \in onlyRows' : DocsClaiming(i) = {}
       /\ \A n \in doomed' \cap Name :
            RowsClaiming(n) = {} /\ DocsClaiming(knownDocs[n].pid) = {n}
       /\ \A i \in doomed' \cap Id :
            DocsClaiming(i) = {} /\ RowsClaiming(knownRows[i].fid) = {i}]_vars

\* delete_missing deletes a document only if the row it stores is gone (or was
\* inserted again by this run, after the partner had deleted it), and a row only
\* if the document it names was deleted or its insert rolled back.
DeletesOnlyOrphans ==
  [][phase = "write" /\ doomed' # doomed =>
       /\ \A n \in Live(docs) : docs'[n] = Gone /\ docs[n].pid \in Live(rows) =>
            dirty /\ rows[docs[n].pid].born = n
       /\ \A i \in Live(rows) : rows'[i] = Gone =>
            rows[i].fid \in lost \cup {n \in Name : docs[n] = Gone}]_vars
=============================================================================
