-------------------------- MODULE PartnerToFrappe --------------------------
(***************************************************************************)
(* One "Frappe <- Partner" Sync Definition and its records: how a run      *)
(* reads the partner's table, matches each record with a document (by the  *)
(* partner identity stored on the document first, then by the match        *)
(* fields), creates, updates and deletes documents inside one database     *)
(* transaction that is committed every few audit items, and what failing   *)
(* records and killed workers leave behind (one_way.py, matching.py,       *)
(* sources.py, writes.py, engine.py, audit.py).                            *)
(*                                                                         *)
(* Taken as given: one engine at a time (RunLifecycle!OneEngine), complete *)
(* loads (the delta filter is DeltaSync's subject), real runs.  Nobody     *)
(* else edits the documents while a run is at work.  The SELECT of a run   *)
(* sees one state of the partner's table, which is streamed in batches.    *)
(* A record and a document are reduced to their match key, one more mapped *)
(* value and, for a document, the stored partner identity.                 *)
(***************************************************************************)
EXTENDS Naturals, FiniteSets

CONSTANTS
  Id,         \* values of partner_identity_field: the records of the partner
  Key,        \* match keys that are complete
  Val,        \* values of the other mapped fields
  Name,       \* names of documents
  Configs,    \* the definitions considered, see Config
  BatchSize,  \* batch_size: records fetched at a time
  Threshold,  \* _runtime_commit_batch_size: audit items that force a commit
  ReuseKeys,  \* FALSE: the partner never gives a record the key of another
  MaxMade,    \* bound: documents users made by hand
  MaxChanges, \* bound: changes at the partner
  MaxFaults,  \* bound: failing writes and killed workers
  None,       \* no record, no document, no stored identity
  NoKey       \* a match field of the record is empty

Config == [identity : BOOLEAN,  \* both identity fields are configured
           all : BOOLEAN,       \* one_way_match_mode = all_matches
           delete : BOOLEAN,    \* delete_missing, on a full sync
           create : BOOLEAN,    \* create_new
           update : BOOLEAN]    \* update_existing
Record == [key : Key \cup {NoKey}, val : Val]
Doc == [key : Key, val : Val, pid : Id \cup {None}]

ASSUME ConfigAssumption == Configs \subseteq Config
ASSUME NoneAssumption ==
  None \notin Id \cup Name \cup Key \cup Record \cup Doc /\ NoKey \notin Key
ASSUME BoundAssumption ==
  /\ BatchSize \in Nat \ {0} /\ Threshold \in Nat \ {0}
  /\ MaxMade \in Nat /\ MaxChanges \in Nat /\ MaxFaults \in Nat
  /\ ReuseKeys \in BOOLEAN

VARIABLES
  config,   \* the definition
  made,     \* the keys of the documents users made by hand, a history variable
  partner,  \* the partner's table
  owner,    \* the record that had each key first
  changes, faults, \* what the bounds count
  docs,     \* the documents as the transaction of the run sees them
  saved,    \* the documents as committed
  phase,    \* of the run: idle, read, write, end
  source,   \* the result of the run's SELECT
  rest,     \* records not fetched yet
  seen,     \* the documents loaded to match the batch with
  work,     \* the matches of the batch: <<record, document or None to create>>
  doomed,   \* documents to delete as missing in the source
  pending,  \* audit items since the last commit
  failed    \* has a record failed?

siteVars == <<docs, saved, pending>>
partnerVars == <<partner, owner, changes>>
batchVars == <<seen, work, doomed>>
runVars == <<phase, source, rest, failed>>
vars == <<config, made, partnerVars, faults, siteVars, runVars, batchVars>>

Nothing(S) == [x \in S |-> None]
Present(f) == {x \in DOMAIN f : f[x] # None}

TypeOK ==
  /\ config \in Configs
  /\ made \in [Name -> Key \cup {None}]
  /\ partner \in [Id -> Record \cup {None}]
  /\ owner \in [Key -> Id \cup {None}]
  /\ changes \in 0..MaxChanges /\ faults \in 0..MaxFaults
  /\ docs \in [Name -> Doc \cup {None}]
  /\ saved \in [Name -> Doc \cup {None}]
  /\ phase \in {"idle", "read", "write", "end"}
  /\ source \in [Id -> Record \cup {None}]
  /\ rest \subseteq Present(source)
  /\ seen \in [Name -> Doc \cup {None}]
  /\ work \subseteq Present(source) \X (Name \cup {None})
  /\ doomed \subseteq Present(seen)
  /\ pending \in 0..(Threshold - 1)
  /\ failed \in BOOLEAN

\* A table that is empty still, and documents users made by hand, some of them
\* with the same key.
Init ==
  /\ config \in Configs
  /\ partner = Nothing(Id) /\ owner = Nothing(Key)
  /\ changes = 0 /\ faults = 0
  /\ docs \in [Name -> [key : Key, val : Val, pid : {None}] \cup {None}]
  /\ Cardinality(Present(docs)) <= MaxMade
  /\ made = [n \in Name |-> IF docs[n] = None THEN None ELSE docs[n].key]
  /\ saved = docs /\ pending = 0
  /\ phase = "idle" /\ source = Nothing(Id) /\ rest = {} /\ failed = FALSE
  /\ seen = Nothing(Name) /\ work = {} /\ doomed = {}

-----------------------------------------------------------------------------
(* The partner *)

\* A key that identifies: no other record has or had it.  With stored identities
\* moreover, a record is renamed only to a key no document but its own has, and
\* only a record that is new may take over a document made by hand.
OwnKey(i, k) ==
  /\ owner[k] \in {None, i}
  /\ config.identity /\ (partner[i] = None \/ partner[i].key # k) =>
       \A n \in Name :
         \A d \in {docs[n], saved[n]} \ {None} :
           d.key = k => d.pid = i \/ \A q \in Key : owner[q] # i

\* Somebody inserts, changes, renames, blanks or deletes a record.
Change(i) ==
  /\ changes < MaxChanges /\ changes' = changes + 1
  /\ \E r \in Record \cup {None} :
       /\ r # partner[i]
       /\ partner' = [partner EXCEPT ![i] = r]
       /\ IF r = None \/ r.key = NoKey THEN owner' = owner
          ELSE /\ ReuseKeys \/ OwnKey(i, r.key)
               /\ owner' = [owner EXCEPT ![r.key] = IF @ = None THEN i ELSE @]
  /\ UNCHANGED <<config, made, faults, siteVars, runVars, batchVars>>

-----------------------------------------------------------------------------
(* Matching *)

\* _valid_key
Keyed(S) == {i \in S : source[i] # None /\ source[i].key # NoKey}

\* first_match indexes the batch by key: records without a key are dropped
\* silently and the last record of a key stands for the others.  all_matches
\* keeps the list.
Inputs(B) ==
  IF config.all THEN {B}
  ELSE {S \in SUBSET Keyed(B) :
          \A i \in Keyed(B) :
            Cardinality({j \in S : source[j].key = source[i].key}) = 1}

\* (mutated: the second query, by stored identity, is left out)
CandidatesByKey(B) ==
  {n \in Present(docs) :
     config.delete \/ \E i \in Keyed(B) : docs[n].key = source[i].key}

\* _load_frappe_match_candidates: the documents with a key or an identity of the
\* batch.  A run that deletes loads all documents first.
Candidates(B) ==
  {n \in Present(docs) :
     \/ config.delete
     \/ \E i \in Keyed(B) : docs[n].key = source[i].key
     \/ config.identity /\ docs[n].pid \in B}

\* _build_frappe_match_lookup: first_match keeps one document of each key, the
\* last by modified, BEFORE it builds the index of identities.
Lookups(C) ==
  IF config.all THEN {C}
  ELSE {L \in SUBSET C :
          \A n \in C : Cardinality({m \in L : docs[m].key = docs[n].key}) = 1}

\* _find_existing_frappe_records: the stored identity first, then the key.
Matches(L, i) ==
  LET linked == {n \in L : config.identity /\ docs[n].pid = i}
      keyed == {n \in L : docs[n].key = source[i].key}
  IN IF linked # {} THEN {{n} : n \in linked} ELSE {keyed}

\* (mutated: records that need no write do not count as present)
SourceKeysWritten ==
  {source[i].key : i \in {j \in Keyed(Id) : \A n \in Present(docs) :
     docs[n].key # source[j].key \/ docs[n].val # source[j].val}}

\* collected_source_keys of a complete load
SourceKeys == {source[i].key : i \in Keyed(Id)}

\* The documents one_way.py deletes: of the documents loaded at the beginning
\* those whose key no source record has.
Missing == {n \in Present(docs) : docs[n].key \notin SourceKeys}

-----------------------------------------------------------------------------
(* A run *)

\* The run begins: the partner's SELECT is executed.
Start ==
  /\ phase = "idle"
  /\ source' = partner
  /\ rest' = Present(partner)
  /\ phase' = IF config.delete \/ rest' # {} THEN "read" ELSE "end"
  /\ UNCHANGED <<config, made, partnerVars, faults, siteVars, failed, batchVars>>

\* What _sync_partner_to_frappe will do with a batch is settled once its
\* documents are loaded: M holds the matches of each record.
Plan(S, M) ==
  {w \in S \X (Name \cup {None}) :
     IF M[w[1]] = {} THEN w[2] = None ELSE w[2] \in M[w[1]]}

\* One batch: its documents are loaded, and matched with its records.  A run
\* that deletes takes the whole table as one batch.
Batch ==
  /\ phase = "read"
  /\ \E B \in SUBSET rest :
       /\ IF config.delete THEN B = rest
          ELSE B # {} /\ Cardinality(B) <= BatchSize
       /\ rest' = rest \ B
       /\ seen' = [n \in Name |-> IF n \in Candidates(B) THEN docs[n] ELSE None]
       /\ \E S \in Inputs(B), L \in Lookups(Candidates(B)) :
            \E M \in [S -> SUBSET L] :
              /\ \A i \in S : M[i] \in IF Keyed({i}) = {} THEN {{}}
                                     ELSE Matches(L, i)
              /\ work' = Plan(S, M)
  /\ doomed' = IF config.delete THEN Missing ELSE {}
  /\ phase' = "write"
  /\ UNCHANGED <<config, made, partnerVars, faults, siteVars, source, failed>>

\* frappe_payload with the identity of the record
Image(i) == [key |-> source[i].key, val |-> source[i].val,
             pid |-> IF config.identity THEN i ELSE None]

\* (mutated: commits one item late)
LogLate ==
  IF pending >= Threshold THEN saved' = docs' /\ pending' = 0
  ELSE saved' = saved /\ pending' = pending + 1

\* _register_and_log with commit=False: the item joins the transaction, which is
\* committed with it when there are enough of them.
Log ==
  IF pending + 1 >= Threshold THEN saved' = docs' /\ pending' = 0
  ELSE saved' = saved /\ pending' = pending + 1

\* A record fails: its savepoint is rolled back and an error item written.
Error ==
  /\ UNCHANGED docs
  /\ failed' = TRUE
  /\ Log

\* (mutated: the new document does not get the partner's identity)
CreateUnlinked(i) ==
  /\ IF config.create
     THEN \E n \in Name :
            docs[n] = None /\ docs' = [docs EXCEPT ![n] = [Image(i) EXCEPT !.pid = None]]
     ELSE UNCHANGED docs
  /\ Log
  /\ UNCHANGED <<faults, failed>>

\* No match: a document is created, unless create_new is off.
Create(i) ==
  /\ IF config.create
     THEN \E n \in Name : docs[n] = None /\ docs' = [docs EXCEPT ![n] = Image(i)]
     ELSE UNCHANGED docs
  /\ Log
  /\ UNCHANGED <<faults, failed>>

\* (mutated: an update clears the stored identity)
UpdateUnlinked(i, n) ==
  /\ docs' = IF config.update /\ seen[n] # Image(i)
             THEN [docs EXCEPT ![n] = [Image(i) EXCEPT !.pid = None]] ELSE docs
  /\ Log
  /\ UNCHANGED <<faults, failed>>

\* A matched document: skipped if update_existing is off or the document, as it
\* was loaded, does not differ; otherwise saved.
Update(i, n) ==
  /\ docs' = IF config.update /\ seen[n] # Image(i)
             THEN [docs EXCEPT ![n] = Image(i)] ELSE docs
  /\ Log
  /\ UNCHANGED <<faults, failed>>

\* A write the database, a validation or a hook rejects: the insertion of a
\* document too for which Name has no free name.
Rejected ==
  /\ \/ faults < MaxFaults /\ faults' = faults + 1
     \/ Present(docs) = Name /\ UNCHANGED faults
  /\ Error

Write(i, n) ==
  /\ phase = "write" /\ <<i, n>> \in work
  /\ work' = work \ {<<i, n>>}
  /\ \/ Keyed({i}) = {} /\ Error /\ UNCHANGED faults
     \/ Keyed({i}) # {} /\ n = None /\ Create(i)
     \/ Keyed({i}) # {} /\ n # None /\ Update(i, n)
     \/ Keyed({i}) # {} /\ Rejected
  /\ UNCHANGED <<config, made, partnerVars, phase, source, rest, seen, doomed>>

\* _delete_missing_frappe_records, after the last record
Delete(n) ==
  /\ phase = "write" /\ work = {} /\ n \in doomed
  /\ doomed' = doomed \ {n}
  /\ \/ /\ docs' = [docs EXCEPT ![n] = None]
        /\ Log
        /\ UNCHANGED <<faults, failed>>
     \/ Rejected
  /\ UNCHANGED <<config, made, partnerVars, phase, source, rest, seen, work>>

\* The batch ends with _flush_pending_run_writes.
EndBatch ==
  /\ phase = "write" /\ work = {} /\ doomed = {}
  /\ saved' = docs /\ pending' = 0
  /\ seen' = Nothing(Name)
  /\ phase' = IF rest = {} THEN "end" ELSE "read"
  /\ UNCHANGED <<config, made, partnerVars, faults, docs, source, rest, failed, work,
                 doomed>>

Leave ==
  /\ phase' = "idle" /\ source' = Nothing(Id) /\ rest' = {} /\ failed' = FALSE
  /\ seen' = Nothing(Name) /\ work' = {} /\ doomed' = {}

Finish ==
  /\ phase = "end"
  /\ Leave
  /\ UNCHANGED <<config, made, partnerVars, faults, siteVars>>

\* The worker is killed, or its job times out: the open transaction is lost.
Crash ==
  /\ phase # "idle"
  /\ faults < MaxFaults /\ faults' = faults + 1
  /\ docs' = saved /\ saved' = saved /\ pending' = 0
  /\ Leave
  /\ UNCHANGED <<config, made, partnerVars>>

Next ==
  \/ \E i \in Id : Change(i)
  \/ Start \/ Batch \/ EndBatch \/ Finish \/ Crash
  \/ \E i \in Id, n \in Name \cup {None} : Write(i, n)
  \/ \E n \in Name : Delete(n)

Spec == Init /\ [][Next]_vars

-----------------------------------------------------------------------------
(* Properties *)

\* Users made another document with the same key (the name stays a twin's name).
Twin(n) == made[n] # None /\ \E x \in Name \ {n} : made[x] = made[n]

\* A record has at most one document: a rename, an adoption of a document made
\* by hand, failing records, a killed worker or a stale lookup never make a
\* second one for a record that is linked already.  Only twins may share a record
\* (all_matches links both), or hide each other from the index (first_match).
UniqueIdentity ==
  \A m, n \in Present(docs) : docs[m].pid = docs[n].pid =>
    m = n \/ docs[m].pid = None \/ Twin(m) \/ Twin(n)

\* A document never passes from one record to another, and is not unlinked by a
\* run; only the loss of an open transaction may undo a link.
LinkStable ==
  [][\A n \in Present(docs) :
       phase' # "idle" /\ docs[n].pid # None /\ docs'[n] # None
         => docs'[n].pid = docs[n].pid]_vars

\* The document of record i
Corresponds(n, i) ==
  /\ source[i] # None
  /\ \/ docs[n].pid = i
     \/ docs[n].pid = None /\ docs[n].key = source[i].key

\* The document was linked to the record when the run loaded it, and the record
\* has lost or changed its key since the run before.
Rekeyed(n, i) == seen[n].pid = i /\ seen[n].key # source[i].key

\* Of the documents a record of the complete load corresponds to, delete_missing
\* deletes those of records that lost or changed their key, since it compares keys
\* from before the run's own updates, and never another one: whatever the run
\* created, linked and renamed between the load and the deletion.
DeletesOnlyMissing ==
  [][\A n \in Present(docs) :
       phase' # "idle" /\ docs'[n] = None
         => \A i \in Id : Corresponds(n, i) => Rekeyed(n, i)]_vars

\* A run that ends without a failed record leaves the image of every record it
\* read, and nothing else if it deletes.  Definitions that combine deletion with
\* identities are excepted: they delete what Rekeyed says.
MirrorsSource ==
  phase = "end" /\ ~failed /\ config.create /\ config.update
    /\ ~(config.identity /\ config.delete) =>
    /\ \A i \in Keyed(Id) : \E n \in Name : docs[n] = Image(i)
    /\ config.delete => \A n \in Present(docs) : docs[n].key \in SourceKeys
=============================================================================
