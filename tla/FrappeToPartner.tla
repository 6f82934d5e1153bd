-------------------------- MODULE FrappeToPartner --------------------------
(***************************************************************************)
(* One "Frappe -> Partner" Sync Definition: a run loads the partner's      *)
(* table once, pages through the documents, and inserts, updates and       *)
(* deletes rows.  The partner commits each statement at once, while the    *)
(* identity it gives a row is stored on the document in a transaction of   *)
(* Frappe that commits later (one_way.py, matching.py, writes.py,          *)
(* engine.py and the relational part of connectors.py).                    *)
(*                                                                         *)
(* Users edit documents and rows at any time.  Taken as given: one engine  *)
(* at a time, complete loads, real runs, and an identity column that is    *)
(* not among the mapped fields.  The transaction may be committed after    *)
(* any audit item: how many items force it is PartnerToFrappe's subject.   *)
(***************************************************************************)
EXTENDS Naturals, FiniteSets, FiniteSetsExt

CONSTANTS
  Name,       \* names of documents
  Key,        \* match keys that are complete
  Val,        \* values of the other mapped fields
  MaxId,      \* bound: identities the partner's column may hold
  Configs,    \* the definitions considered, see Config
  BatchSize,  \* batch_size: documents fetched at a time
  Reuse,      \* may keys and identities be used again? see Edit, Vanish
  MaxChanges, \* bound: changes users make
  MaxFaults,  \* bound: failing writes and killed workers
  None,       \* no row, no identity, not created yet
  Gone,       \* the document was deleted
  NoKey       \* a match field of the document is empty

Id == 1..MaxId

Config == [identity : BOOLEAN,  \* both identity fields are configured
           \* partner_create_id_strategy; payload acts like connector_default here
           strategy : {"connector_default", "sequence", "max_plus_one"},
           all : BOOLEAN,       \* one_way_match_mode = all_matches
           delete : BOOLEAN,    \* delete_missing, on a full sync
           create : BOOLEAN,    \* create_new
           update : BOOLEAN]    \* update_existing
Doc == [key : Key \cup {NoKey}, val : Val]
Row == [key : Key, val : Val, from : Name \cup {None}]
Read == [key : Key \cup {NoKey}, val : Val, link : Id \cup {None}]

ASSUME ConfigAssumption == Configs \subseteq Config
ASSUME NoneAssumption ==
  /\ None \notin Id \cup Name \cup Key \cup Doc \cup Row \cup Read
  /\ Gone \notin Doc \cup {None} /\ NoKey \notin Key
ASSUME BoundAssumption ==
  /\ MaxId \in Nat /\ BatchSize \in Nat \ {0}
  /\ MaxChanges \in Nat /\ MaxFaults \in Nat /\ Reuse \in BOOLEAN

VARIABLES
  config,  \* the definition
  docs,    \* the documents, without the stored identity
  owner,   \* the document that had each key first
  link,    \* stored identities as the run's transaction sees them
  saved,   \* stored identities as committed
  rows,    \* the partner's table; from is the document a row was inserted for
  lastId,  \* the greatest identity ever given
  changes, faults, \* what the bounds count
  phase,   \* of the run: idle, read, write
  known,   \* the rows loaded when the run began, as far as they are indexed
  todo,    \* documents not fetched yet
  source,  \* the documents fetched
  work,    \* matches of the batch: <<document, row or None to create>>
  keys,    \* complete_source_keys, if the run deletes
  doomed,  \* keys to delete as missing in the source
  failed,  \* has a record failed?
  touched  \* have users changed rows since the run began?

siteVars == <<docs, owner, link, saved>>
partnerVars == <<rows, lastId>>
runVars == <<known, todo, source, keys>>
vars == <<config, siteVars, partnerVars, changes, faults, phase, runVars, work,
          doomed, failed, touched>>

Nothing(S) == [x \in S |-> None]
Present(f) == {x \in DOMAIN f : f[x] # None}

TypeOK ==
  /\ config \in Configs
  /\ docs \in [Name -> Doc \cup {None, Gone}]
  /\ owner \in [Key -> Name \cup {None}]
  /\ link \in [Name -> Id \cup {None}] /\ saved \in [Name -> Id \cup {None}]
  /\ rows \in [Id -> Row \cup {None}]
  /\ lastId \in 0..MaxId /\ \A i \in Present(rows) : i <= lastId
  /\ changes \in 0..MaxChanges /\ faults \in 0..MaxFaults
  /\ phase \in {"idle", "read", "write", "end"}
  /\ known \in [Id -> Row \cup {None}]
  /\ todo \subseteq Name
  /\ source \in [Name -> Read \cup {None}]
  /\ work \subseteq Present(source) \X (Id \cup {None})
  /\ keys \subseteq Key /\ doomed \subseteq Key
  /\ failed \in BOOLEAN /\ touched \in BOOLEAN

Leave ==
  /\ phase' = "idle"
  /\ known' = Nothing(Id) /\ todo' = {} /\ source' = Nothing(Name)
  /\ work' = {} /\ keys' = {} /\ doomed' = {}
  /\ failed' = FALSE /\ touched' = FALSE

Init ==
  /\ config \in Configs
  /\ docs = Nothing(Name) /\ owner = Nothing(Key)
  /\ link = Nothing(Name) /\ saved = Nothing(Name)
  /\ rows = Nothing(Id) /\ lastId = 0
  /\ changes = 0 /\ faults = 0
  /\ phase = "idle" /\ known = Nothing(Id) /\ todo = {} /\ source = Nothing(Name)
  /\ work = {} /\ keys = {} /\ doomed = {} /\ failed = FALSE /\ touched = FALSE

-----------------------------------------------------------------------------
(* Users *)

\* The documents' discipline: a key is never used by a second document, and with
\* stored identities a document is renamed only between runs and while its row is
\* linked.
OwnKey(n, k) ==
  /\ owner[k] \in {None, n}
  /\ config.identity /\ (\E q \in Key \ {k} : owner[q] = n) =>
       /\ phase = "idle"
       /\ \A i \in Present(rows) : rows[i].from = n => link[n] = i

\* With first_match a row that is not indexed is not found by its identity either: the
\* row a renamed document is linked to shares its key with no other until a run has
\* given it the new one.
Findable ==
  config.identity /\ ~config.all =>
    \A n \in Name, i \in Present(rows) :
      /\ i \in {link[n], saved[n]}
      /\ docs[n] \in Doc /\ docs[n].key \notin {NoKey, rows[i].key}
      => \A j \in Present(rows) \ {i} : rows[j].key # rows[i].key

\* A document is created, edited, renamed or deleted; its name is not used again.
Edit(n) ==
  /\ changes < MaxChanges /\ changes' = changes + 1
  /\ docs[n] # Gone
  /\ \E d \in Doc \cup {Gone} :
       /\ d # docs[n] /\ (docs[n] = None => d # Gone)
       /\ docs' = [docs EXCEPT ![n] = d]
       /\ IF d = Gone \/ d.key = NoKey THEN owner' = owner
          ELSE /\ Reuse \/ OwnKey(n, d.key)
               /\ owner' = [owner EXCEPT ![d.key] = IF @ = None THEN n ELSE @]
  /\ UNCHANGED <<config, link, saved, partnerVars, faults, phase, runVars, work,
                 doomed, failed, touched>>
  /\ Reuse \/ Findable'

\* The partner inserts a row of its own, or edits one.
Insert ==
  /\ changes < MaxChanges /\ changes' = changes + 1
  /\ lastId < MaxId /\ lastId' = lastId + 1
  /\ \E k \in Key, v \in Val :
       rows' = [rows EXCEPT ![lastId + 1] = [key |-> k, val |-> v, from |-> None]]
  /\ touched' = (phase # "idle")
  /\ UNCHANGED <<config, siteVars, faults, phase, runVars, work, doomed, failed>>
  /\ Reuse \/ Findable'

\* The partner's discipline: during a run it deletes no row that shares its key,
\* and with max_plus_one never the row whose identity would be given again.
Spare(i) ==
  /\ phase = "idle" \/ \A j \in Present(rows) \ {i} : rows[j].key # rows[i].key
  /\ config.strategy # "max_plus_one" \/ i < Max(Present(rows))

\* The partner deletes a row.
Vanish(i) ==
  /\ changes < MaxChanges /\ changes' = changes + 1
  /\ rows[i] # None /\ rows' = [rows EXCEPT ![i] = None]
  /\ Reuse \/ Spare(i)
  /\ touched' = (phase # "idle")
  /\ UNCHANGED <<config, siteVars, lastId, faults, phase, runVars, work, doomed,
                 failed>>

-----------------------------------------------------------------------------
(* Matching *)

\* _build_partner_match_lookup: first_match keeps one row of each key, the last.
Indexes ==
  IF config.all THEN {Present(rows)}
  ELSE {L \in SUBSET Present(rows) :
          \A i \in Present(rows) :
            Cardinality({j \in L : rows[j].key = rows[i].key}) = 1}

\* _find_existing_partner_records: the row with the stored identity, or else the
\* rows with the key.  R holds the documents read.
Matches(n, R) ==
  LET linked == {i \in Present(known) : config.identity /\ R[n].link = i}
      keyed == {i \in Present(known) : known[i].key = R[n].key}
  IN IF R[n].key = NoKey THEN {} ELSE IF linked # {} THEN linked ELSE keyed

\* all_matches without identities writes the rows of a key with one statement.
Targets(n, R) ==
  IF Matches(n, R) = {} THEN {None}
  ELSE IF config.identity \/ ~config.all THEN Matches(n, R)
  ELSE {CHOOSE i \in Matches(n, R) : TRUE}

-----------------------------------------------------------------------------
(* A run *)

\* The whole table of the partner is loaded and indexed.
Start ==
  /\ phase = "idle" /\ phase' = "read"
  /\ \E L \in Indexes : known' = [i \in Id |-> IF i \in L THEN rows[i] ELSE None]
  /\ todo' = {n \in Name : docs[n] # Gone}
  /\ UNCHANGED <<config, siteVars, partnerVars, changes, faults, source, keys, work,
                 doomed, failed, touched>>

\* (mutated: _valid_key is not asked)
AllKeys == {docs[n].key : n \in {m \in Name : docs[m] \in Doc}}

\* _frappe_source_key_set_from_batches
SourceKeys == {docs[n].key : n \in {m \in Name : docs[m] \in Doc}} \ {NoKey}

\* A batch of documents is fetched; a run that deletes fetches all at once, and
\* reads the keys of the source once more.
Fetch ==
  /\ phase = "read"
  /\ \E B \in SUBSET todo :
       /\ IF config.delete THEN B = todo
          ELSE B # {} /\ Cardinality(B) <= BatchSize
       /\ todo' = todo \ B
       /\ source' =
            [n \in Name |->
               IF n \in B /\ docs[n] \in Doc
               THEN [key |-> docs[n].key, val |-> docs[n].val, link |-> link[n]]
               ELSE source[n]]
       /\ work' = UNION {{n} \X Targets(n, source') : n \in B \cap Present(source')}
  /\ keys' = IF config.delete THEN SourceKeys ELSE {}
  /\ doomed' = IF config.delete THEN {known[i].key : i \in Present(known)} \ keys'
               ELSE {}
  /\ phase' = "write"
  /\ UNCHANGED <<config, siteVars, partnerVars, changes, faults, known, failed,
                 touched>>

\* The transaction of Frappe may be committed with each audit item.
Log == saved' \in {saved, link'}

Error ==
  /\ UNCHANGED link
  /\ failed' = TRUE
  /\ Log

\* A write the partner rejects.
Rejected ==
  /\ faults < MaxFaults /\ faults' = faults + 1
  /\ Error
  /\ UNCHANGED partnerVars

\* (mutated: the greatest identity plus one, whatever the strategy)
NewIdByMax == Max(Present(rows) \cup {0}) + 1

\* The identity of the next row: counted by the partner, or MAX + 1.
NewId == IF config.strategy = "max_plus_one"
         THEN Max(Present(rows) \cup {0}) + 1 ELSE lastId + 1

\* A row is to be inserted and the identity column has no value left.
Exhausted(S) == S = {} /\ NewId > MaxId

\* The rows the WHERE clause of an UPDATE or DELETE selects.
WithId(i) == Present(rows) \cap {i}
WithKey(k) == {i \in Present(rows) : rows[i].key = k}

\* _partner_key_values_for_write
ForWrite(n) == IF config.identity /\ source[n].link # None THEN WithId(source[n].link)
               ELSE WithKey(source[n].key)

\* (mutated: the row of a match is looked up by the key of the document)
ForKeyOfDocument(n, i) == WithKey(source[n].key)

\* _partner_key_values_for_existing_match
ForExistingMatch(n, i) == IF config.identity THEN WithId(i) ELSE WithKey(known[i].key)

\* (mutated: the UPDATE does not write the match fields)
UpsertValues(n, S) ==
  IF S # {}
  THEN /\ rows' = [i \in Id |-> IF i \in S THEN [rows[i] EXCEPT !.val = source[n].val]
                                ELSE rows[i]]
       /\ UNCHANGED lastId
  ELSE /\ rows' = [rows EXCEPT ![NewId] = [key |-> source[n].key,
                                           val |-> source[n].val, from |-> n]]
       /\ lastId' = IF NewId > lastId THEN NewId ELSE lastId

\* upsert_record: an UPDATE and, if it met no row, an INSERT.
Upsert(n, S) ==
  IF S # {}
  THEN /\ rows' = [i \in Id |-> IF i \in S
                                THEN [key |-> source[n].key, val |-> source[n].val,
                                      from |-> rows[i].from]
                                ELSE rows[i]]
       /\ UNCHANGED lastId
  ELSE /\ rows' = [rows EXCEPT ![NewId] = [key |-> source[n].key,
                                           val |-> source[n].val, from |-> n]]
       /\ lastId' = IF NewId > lastId THEN NewId ELSE lastId

\* The identity upsert_record reports.  connector_default looks a new row up by
\* the values of the WHERE clause, and if it finds none reports them.
Resolved(id, S) ==
  IF S # {} THEN S
  ELSE IF config.strategy = "connector_default" /\ id # None THEN {id} ELSE {NewId}

\* (mutated: the reported identity is not stored)
PersistNothing(n, r) == UNCHANGED <<link, failed, faults>> /\ Log

\* _persist_frappe_partner_identity saves the document; it may be gone, or the
\* save may fail, although the row is written.
Persist(n, r) ==
  IF ~config.identity \/ r = source[n].link
  THEN UNCHANGED <<link, failed, faults>> /\ Log
  ELSE \/ docs[n] # Gone /\ link' = [link EXCEPT ![n] = r] /\ Log
          /\ UNCHANGED <<failed, faults>>
       \/ docs[n] = Gone /\ Error /\ UNCHANGED faults
       \/ faults < MaxFaults /\ faults' = faults + 1 /\ Error

Skip == UNCHANGED <<link, partnerVars, failed, faults>> /\ Log

\* No row matches: a row is inserted, unless create_new is off.
Create(n) ==
  IF ~config.create THEN Skip
  ELSE LET id == IF config.identity THEN source[n].link ELSE None
           S == ForWrite(n)
       IN IF Exhausted(S) THEN Error /\ UNCHANGED <<partnerVars, faults>>
          ELSE \/ Upsert(n, S) /\ \E r \in Resolved(id, S) : Persist(n, r)
               \/ Rejected

\* A matched row: skipped if it did not differ when it was loaded or
\* update_existing is off, otherwise written.  Only a single match is stored.
Update(n, i) ==
  IF ~config.update \/ \A j \in IF config.identity \/ ~config.all THEN {i}
                                ELSE Matches(n, source) :
                         known[j].key = source[n].key /\ known[j].val = source[n].val
  THEN Skip
  ELSE LET id == IF config.identity THEN i ELSE None
           S == ForExistingMatch(n, i)
       IN IF Exhausted(S) THEN Error /\ UNCHANGED <<partnerVars, faults>>
          ELSE \/ /\ Upsert(n, S)
                  /\ IF Cardinality(Matches(n, source)) = 1
                     THEN \E r \in Resolved(id, S) : Persist(n, r)
                     ELSE UNCHANGED <<link, failed, faults>> /\ Log
               \/ Rejected

Write(n, i) ==
  /\ phase = "write" /\ <<n, i>> \in work
  /\ work' = work \ {<<n, i>>}
  /\ IF source[n].key = NoKey THEN Error /\ UNCHANGED <<partnerVars, faults>>
     ELSE IF i = None THEN Create(n) ELSE Update(n, i)
  /\ UNCHANGED <<config, docs, owner, changes, phase, runVars, doomed, touched>>

\* _delete_missing_partner_records: DELETE WHERE the match fields have the key of
\* a row that was loaded when the run began.
Delete(k) ==
  /\ phase = "write" /\ work = {} /\ k \in doomed
  /\ doomed' = doomed \ {k}
  /\ \/ /\ rows' = [i \in Id |-> IF i \in WithKey(k) THEN None ELSE rows[i]]
        /\ UNCHANGED <<lastId, link, failed, faults>> /\ Log
     \/ Rejected
  /\ UNCHANGED <<config, docs, owner, changes, phase, runVars, work, touched>>

\* The batch ends with _flush_pending_run_writes.  A delta sync fetches only some
\* of the documents.
EndBatch ==
  /\ phase = "write" /\ work = {} /\ doomed = {}
  /\ saved' = link
  /\ phase' \in IF todo = {} THEN {"end"} ELSE {"read", "end"}
  /\ UNCHANGED <<config, docs, owner, link, partnerVars, changes, faults, runVars,
                 work, doomed, failed, touched>>

Finish ==
  /\ phase = "end" \/ (phase = "read" /\ ~config.delete)
  /\ Leave
  /\ UNCHANGED <<config, siteVars, partnerVars, changes, faults>>

\* The worker is killed: the rows stay, the open transaction is lost.
Crash ==
  /\ phase # "idle"
  /\ faults < MaxFaults /\ faults' = faults + 1
  /\ link' = saved /\ saved' = saved
  /\ Leave
  /\ UNCHANGED <<config, docs, owner, partnerVars, changes>>

Next ==
  \/ \E n \in Name : Edit(n)
  \/ Insert \/ \E i \in Id : Vanish(i)
  \/ Start \/ Fetch \/ EndBatch \/ Finish \/ Crash
  \/ \E n \in Name, i \in Id \cup {None} : Write(n, i)
  \/ \E k \in Key : Delete(k)

Spec == Init /\ [][Next]_vars

-----------------------------------------------------------------------------
(* Properties *)

\* With stored identities a document has at most one row at the partner, through
\* renames, killed workers and identities that were not stored.
OneRowPerDocument ==
  config.identity =>
    \A i, j \in Present(rows) :
      rows[i].from = rows[j].from /\ rows[i].from # None => i = j

\* A run writes the row of a document only with what it read of that document.
OwnRows ==
  [][work' # work /\ phase' = phase =>
       \A i \in Present(rows) :
         LET n == rows[i].from
         IN rows'[i] \notin {rows[i], None} /\ n # None =>
              /\ source[n] # None
              /\ rows'[i].key = source[n].key /\ rows'[i].val = source[n].val]_vars

\* delete_missing deletes no row of a document it read, renamed ones included,
\* as long as updates are on and succeed; a row that first_match did not index is
\* not covered.
DeletesOnlyMissing ==
  [][work' = work /\ phase = "write" /\ phase' = "write" /\ ~touched' /\ ~failed
       /\ config.identity /\ config.update =>
         \A i \in Present(rows) \cap Present(known) :
           rows'[i] = None =>
             ~\E n \in Present(source) : link[n] = i \/ rows[i].key = source[n].key]_vars

\* A run that ends without a failed record and without others at the table leaves
\* the image of every document it read, and nothing else if it deletes.
MirrorsSource ==
  phase = "end" /\ ~failed /\ ~touched /\ config.create /\ config.update =>
    /\ \A n \in Present(source) :
         \E i \in Present(rows) : /\ rows[i].key = source[n].key
                                  /\ rows[i].val = source[n].val
    /\ config.delete => \A i \in Present(rows) : rows[i].key \in keys

\* The insert for a document without a match leaves it with the identity of the
\* new row; with connector_default only if it had none.
LinkResolved ==
  [][work' # work /\ ~failed' /\ config.identity =>
       \A n \in {m \in Name : <<m, None>> \in work \ work'} :
         (config.strategy = "connector_default" => source[n].link = None) =>
           \A i \in Id : rows[i] = None /\ rows'[i] # None => link'[n] = i]_vars
=============================================================================
