---------------------------- MODULE RecordState ----------------------------
(***************************************************************************)
(* A definition whose records a script processes (execution/scripted.py):  *)
(* the source is staged and verified, every record of it is planned by the *)
(* script from the documents it is shown, and the runtime applies the plan *)
(* and keeps one Sync Record State per source group: the documents the     *)
(* group owns, or the group that absorbed it.                              *)
(*                                                                         *)
(* The script is arbitrary: a step takes any action whose preconditions    *)
(* hold, and any record may fail.  Documents are Journal Entries.  Users   *)
(* insert, submit, edit, reverse, cancel and delete them while a run is    *)
(* under way; they do not change the fields a document is matched by.  A   *)
(* transaction reads the documents as they were when it began (REPEATABLE  *)
(* READ, the isolation Frappe uses); a dead worker loses it.  Taken as     *)
(* given: one engine at a time.                                            *)
(***************************************************************************)
EXTENDS Naturals, FiniteSets

CONSTANTS
  Key,        \* the keys of source groups (record_key)
  Version,    \* what a source record may say
  MaxDoc,     \* bound: documents, named in the order of their creation
  BatchSize,  \* groups planned from one read of states and documents
  Flags,      \* the definitions considered: subsets of {"create", "update"}
  MaxRuns, MaxOutside, MaxFaults, \* bounds: runs, steps of users, crashes
  None

Document == 1..MaxDoc

Actions == {"create", "reverse", "replace", "skip"}

\* A group is a source record with the keys its "_sync" part names as aliases.
Keys(g) == {g.key} \cup g.aliases

Doc == [key : Key \cup {None}, status : {"free", "draft", "submitted", "cancelled", "deleted"},
        by : {"user", "sync"},
        modified : 0..MaxOutside,
        outside : BOOLEAN,  \* has a reversal a user made
        reversed : BOOLEAN] \* has a reversal the runtime made

\* A row that was never written has revision 0.
State == [revision : 0..MaxRuns, version : Version \cup {None},
          alias_of : Key \cup {None}, documents : SUBSET Document]

ASSUME SizeAssumption == BatchSize \in Nat \ {0} /\ MaxDoc \in Nat \ {0}
ASSUME BoundAssumption == MaxRuns \in Nat /\ MaxOutside \in Nat /\ MaxFaults \in Nat
ASSUME VersionAssumption == Version # {}
ASSUME NoneAssumption == None \notin Key \cup Version
ASSUME FlagsAssumption == Flags \subseteq SUBSET {"create", "update"}

VARIABLES
  flags,     \* create_new and update_existing
  docs, states, \* as committed
  view,      \* what the transaction of the run sees, None before its first read
  staged,    \* the records staged on disk
  todo,      \* those not read into a batch yet
  batch,     \* those of the batch not planned yet
  cache,     \* states and documents as loaded for the batch, None without one
  phase,     \* what the engine does
  attempts,  \* of staging
  runs, outside, faults \* what the bounds count

vars == <<flags, docs, states, view, staged, todo, batch, cache, phase,
          attempts, runs, outside, faults>>
tables == <<docs, states, view>>
progress == <<staged, todo, batch, cache, phase, attempts, runs>>

\* What a source script may emit: no key belongs to two groups.  of[k] is the key of
\* the group k belongs to, k itself when it heads one.
Emitted ==
  {{[key |-> k, aliases |-> {a \in Key \ {k} : of[a] = k}, version |-> says[k]] :
      k \in {h \in Key : of[h] = h}} :
   of \in {f \in [Key -> Key \cup {None}] : \A k \in Key : f[k] # None => f[f[k]] = f[k]},
   says \in [Key -> Version]}

Tables == [docs : [Document -> Doc], states : [Key -> State]]

ASSUME TablesAssumption == None \notin Tables

Unwritten == [revision |-> 0, version |-> None, alias_of |-> None, documents |-> {}]
Absent == [key |-> None, status |-> "free", by |-> "user",
           modified |-> 0, outside |-> FALSE, reversed |-> FALSE]

Committed == [docs |-> docs, states |-> states]

Init ==
  /\ flags \in Flags
  /\ docs = [d \in Document |-> Absent] /\ states = [k \in Key |-> Unwritten]
  /\ view = None /\ cache = None
  /\ staged = {} /\ todo = {} /\ batch = {}
  /\ phase = "idle" /\ attempts = 0
  /\ runs = 0 /\ outside = 0 /\ faults = 0

-----------------------------------------------------------------------------
(* What others do.                                                         *)

\* A change a user makes to the document d.
UserDid(d, new) ==
  /\ outside < MaxOutside
  /\ docs' = [docs EXCEPT ![d] = new]
  /\ outside' = outside + 1
  /\ UNCHANGED <<flags, states, view, progress, faults>>

\* What a read sees: the transaction begins with the first one.
Seen == IF view = None THEN Committed ELSE view

\* Names no document has, committed or not.
Unnamed == {d \in Document : docs[d].status = "free" /\ Seen.docs[d].status = "free"}

First(D) == {d \in D : \A e \in D : d <= e}
Last(D) == {d \in D : \A e \in D : e <= d}

UserInserts(k) ==
  \E d \in First(Unnamed) : UserDid(d, [Absent EXCEPT !.key = k, !.status = "submitted"])

UserEdits(d) ==
  /\ docs[d].status \in {"draft", "submitted"}
  /\ UserDid(d, [docs[d] EXCEPT !.modified = @ + 1])

UserSubmits(d) ==
  docs[d].status = "draft" /\ UserDid(d, [docs[d] EXCEPT !.status = "submitted", !.modified = @ + 1])

UserReverses(d) ==
  /\ docs[d].status = "submitted" /\ ~docs[d].outside /\ ~docs[d].reversed
  /\ UserDid(d, [docs[d] EXCEPT !.outside = TRUE])

UserCancels(d) ==
  docs[d].status = "submitted" /\ UserDid(d, [docs[d] EXCEPT !.status = "cancelled", !.modified = @ + 1])

UserDeletes(d) ==
  docs[d].status = "draft" /\ UserDid(d, [docs[d] EXCEPT !.status = "deleted"])

-----------------------------------------------------------------------------
(* Staging (script_support.py): the source is read, then read again; a     *)
(* difference discards what was staged, three times at most.               *)

\* (mutated: what the last attempt staged is not truncated)
ReadAppending ==
  /\ phase = "read"
  /\ \E R \in Emitted : staged' = staged \cup R
  /\ phase' = "verify"
  /\ UNCHANGED <<flags, tables, todo, batch, cache, attempts, runs, outside, faults>>

Read ==
  /\ phase = "read"
  /\ staged' \in Emitted
  /\ phase' = "verify"
  /\ UNCHANGED <<flags, tables, todo, batch, cache, attempts, runs, outside, faults>>

Verified ==
  /\ phase = "verify"
  /\ phase' = "batches" /\ todo' = staged /\ attempts' = 0
  /\ UNCHANGED <<flags, tables, staged, batch, cache, runs, outside, faults>>

\* SourceChanged; the third one fails the run.
Changed ==
  /\ phase = "verify"
  /\ attempts' = (attempts + 1) % 3
  /\ staged' = IF attempts' = 0 THEN {} ELSE staged
  /\ phase' = IF attempts' = 0 THEN "idle" ELSE "read"
  /\ UNCHANGED <<flags, tables, todo, batch, cache, runs, outside, faults>>

Start ==
  /\ phase = "idle" /\ runs < MaxRuns
  /\ runs' = runs + 1 /\ phase' = "read"
  /\ UNCHANGED <<flags, tables, staged, todo, attempts, batch, cache, outside, faults>>

-----------------------------------------------------------------------------
(* The transaction.                                                        *)

\* The rows of a transaction that were inserted or written; only users change the others.
Merge(T) ==
  [d \in Document |->
     IF docs[d].status = "free" THEN T.docs[d]
                                ELSE [docs[d] EXCEPT !.reversed = T.docs[d].reversed]]

Commit ==
  /\ docs' = Merge(Seen)
  /\ states' = Seen.states
  /\ view' = None

\* _flush_pending_run_writes between two records, by count or by time.
Flush ==
  /\ phase = "batches" /\ view # None
  /\ Commit
  /\ UNCHANGED <<flags, progress, outside, faults>>

\* prepared_batches: states and documents of the next groups.
LoadBatch ==
  /\ phase = "batches" /\ batch = {} /\ todo # {}
  /\ batch' \in (SUBSET todo) \ {{}}
  /\ IF Cardinality(todo) < BatchSize THEN batch' = todo ELSE Cardinality(batch') = BatchSize
  /\ todo' = todo \ batch'
  /\ cache' = Seen /\ view' = Seen
  /\ UNCHANGED <<flags, docs, states, staged, phase, attempts, runs, outside, faults>>

-----------------------------------------------------------------------------
(* Planning.                                                               *)

\* The document a group without a state is matched with, the last of them.
Matched(T, k) ==
  Last({d \in Document : T.docs[d].key = k /\ T.docs[d].status \notin {"free", "deleted"}})

\* What a group owns or, before its first state, is matched with.
Holdings(T, k) ==
  IF T.states[k].revision = 0 THEN Matched(T, k) ELSE T.states[k].documents

Documents(g) == UNION {Holdings(cache, k) : k \in Keys(g)}

\* (mutated: an absorbed group is planned like any other)
SeparateAliasesOnly(g) ==
  \A k \in g.aliases : cache.states[k].alias_of \in {None, g.key}

\* The group is not part of another one, and neither are those it absorbs.
Separate(g) ==
  /\ cache.states[g.key].alias_of = None
  /\ \A k \in g.aliases : cache.states[k].alias_of \in {None, g.key}

\* A document that was reversed, cancelled or deleted outside stops the group.
Sound(held) ==
  \A d \in held :
    /\ cache.docs[d].status \in {"draft", "submitted"}
    /\ ~cache.docs[d].outside /\ ~cache.docs[d].reversed

Allowed(held, action) ==
  CASE action = "skip" -> TRUE
    [] action = "create" -> "create" \in flags /\ held = {}
    [] action \in {"reverse", "replace"} ->
         /\ "update" \in flags /\ held # {}
         /\ \A d \in held : cache.docs[d].status = "submitted"
         /\ action = "replace" => "create" \in flags

-----------------------------------------------------------------------------
(* Applying a plan, in one savepoint.                                      *)

\* (mutated: the documents are not compared)
CurrentState(g, held) ==
  Seen.states[g.key].revision = cache.states[g.key].revision

\* Nothing the plan was made from has changed since the batch was loaded.
Current(g, held) ==
  /\ Seen.states[g.key].revision = cache.states[g.key].revision
  /\ \A d \in held : Seen.docs[d].modified = cache.docs[d].modified

Unreversed(held) ==
  \A d \in held : ~Seen.docs[d].outside /\ ~Seen.docs[d].reversed

\* The documents a group is left with; new is the document inserted, if any.
Kept(held, action, new) ==
  CASE action = "skip" -> held
    [] action = "reverse" -> {}
    [] OTHER -> {new}

\* (mutated: the documents of absorbed groups are forgotten)
ReversingOwn(g, held, action) ==
  IF action \in {"reverse", "replace"} THEN Holdings(cache, g.key) ELSE {}

Reversing(g, held, action) == IF action \in {"reverse", "replace"} THEN held ELSE {}

AppliedDocs(g, held, action, new, status) ==
  [d \in Document |->
     IF action \in {"create", "replace"} /\ d = new
     THEN [Absent EXCEPT !.key = g.key, !.status = status, !.by = "sync"]
     ELSE [Seen.docs[d] EXCEPT !.reversed = @ \/ d \in Reversing(g, held, action)]]

\* (mutated: an alias is written once and never again)
AppliedStatesOnce(g, held, action, new) ==
  [k \in Key |->
     LET old == Seen.states[k] IN
     CASE k = g.key ->
            IF old.version = g.version /\ old.documents = Kept(held, action, new)
            THEN old
            ELSE [revision |-> old.revision + 1, version |-> g.version,
                  alias_of |-> None, documents |-> Kept(held, action, new)]
       [] k \in g.aliases /\ old.revision = 0 ->
            [revision |-> 1, version |-> None, alias_of |-> g.key, documents |-> {}]
       [] OTHER -> old]

\* persist_state of the group, when it says anything new, and of its aliases.
AppliedStates(g, held, action, new) ==
  [k \in Key |->
     LET old == Seen.states[k] IN
     CASE k = g.key ->
            IF old.version = g.version /\ old.documents = Kept(held, action, new)
            THEN old
            ELSE [revision |-> old.revision + 1, version |-> g.version,
                  alias_of |-> None, documents |-> Kept(held, action, new)]
       [] k \in g.aliases ->
            IF Holdings(cache, k) = {} /\ old.alias_of = g.key
            THEN old
            ELSE [revision |-> cache.states[k].revision + 1, version |-> None,
                  alias_of |-> g.key, documents |-> {}]
       [] OTHER -> old]

Unchanged(g, held, action) ==
  /\ action = "skip"
  /\ cache.states[g.key].version = g.version
  /\ cache.states[g.key].documents = held
  /\ \A k \in g.aliases : Holdings(cache, k) = {} /\ cache.states[k].alias_of = g.key

\* The batch's reads are kept as long as a group of it is to be planned.
Planned(g) ==
  /\ batch' = batch \ {g}
  /\ cache' = IF batch' = {} THEN None ELSE cache

\* plan_record and apply_plan for one group: both read within one transaction.
Process(g, action) ==
  LET held == Documents(g) IN
  /\ phase = "batches" /\ g \in batch
  /\ Separate(g) /\ Sound(held) /\ Allowed(held, action)
  /\ Planned(g)
  /\ \/ /\ Unchanged(g, held, action)
        /\ view' = Seen
     \/ /\ ~Unchanged(g, held, action) /\ Current(g, held)
        /\ action \in {"reverse", "replace"} => Unreversed(held)
        /\ \E new \in IF action \in {"create", "replace"} THEN First(Unnamed) ELSE {None},
              status \in {"draft", "submitted"} :
             view' = [docs |-> AppliedDocs(g, held, action, new, status),
                      states |-> AppliedStates(g, held, action, new)]
  /\ UNCHANGED <<flags, docs, states, staged, todo, phase, attempts, runs, outside, faults>>

\* A group that is refused, or whose writes fail and are rolled back.
Reject(g) ==
  /\ phase = "batches" /\ g \in batch
  /\ Planned(g)
  /\ view' = Seen
  /\ UNCHANGED <<flags, docs, states, staged, todo, phase, attempts, runs, outside, faults>>

\* The groups with a state the source no longer has are only reported.
Finish ==
  /\ phase = "batches" /\ todo = {} /\ batch = {}
  /\ Commit
  /\ phase' = "idle" /\ staged' = {}
  /\ UNCHANGED <<flags, todo, batch, cache, attempts, runs, outside, faults>>

Crash ==
  /\ phase # "idle" /\ faults < MaxFaults
  /\ faults' = faults + 1
  /\ phase' = "idle" /\ staged' = {} /\ todo' = {} /\ batch' = {} /\ attempts' = 0
  /\ view' = None /\ cache' = None
  /\ UNCHANGED <<flags, docs, states, runs, outside>>

User ==
  \/ \E k \in Key : UserInserts(k)
  \/ \E d \in Document : UserEdits(d) \/ UserSubmits(d) \/ UserReverses(d) \/ UserCancels(d)
                         \/ UserDeletes(d)

Engine ==
  \/ Start \/ Read \/ Verified \/ Changed \/ LoadBatch \/ Flush \/ Finish \/ Crash
  \/ \E g \in batch : Reject(g) \/ \E action \in Actions : Process(g, action)

Next == User \/ Engine

Spec == Init /\ [][Next]_vars

-----------------------------------------------------------------------------
(* Properties.                                                             *)

TypeOK ==
  /\ flags \in Flags
  /\ docs \in [Document -> Doc] /\ states \in [Key -> State]
  /\ view \in Tables \cup {None} /\ cache \in Tables \cup {None}
  /\ todo \subseteq staged /\ batch \subseteq staged
  /\ staged \in Emitted /\ todo \cap batch = {} /\ (cache = None <=> batch = {})
  /\ phase \in {"idle", "read", "verify", "batches"}
  /\ attempts \in 0..2
  /\ runs \in 0..MaxRuns /\ outside \in 0..MaxOutside /\ faults \in 0..MaxFaults

Owners(d) == {k \in Key : d \in states[k].documents}

\* No two groups own a document, whatever was merged, flushed or rolled back and
\* wherever a worker died; a document a run inserted is owned as long as the
\* runtime has not reversed it; and a group that was absorbed owns none.
OneOwner ==
  /\ \A d \in Document :
       /\ \A j, k \in Owners(d) : j = k
       /\ docs[d].by = "sync" /\ ~docs[d].reversed => Owners(d) # {}
  /\ \A k \in Key : states[k].alias_of # None => states[k].documents = {}

\* A document a group owns, adopted ones included, is let go of only together
\* with a reversal that is committed in the same transaction.
NothingLetGo ==
  [][\A d \in Document :
       Owners(d) # {} /\ Owners(d)' = {} => docs'[d].reversed]_vars

\* "Source group split requires explicit reconciliation; existing group is
\* retained.": a group that was absorbed stays with the group that absorbed it.
AbsorbedForGood ==
  [][\A k \in Key : states[k].alias_of # None => states'[k].alias_of = states[k].alias_of]_vars

\* "Target document changed after planning.": a transaction does not reverse a
\* document that changed between the read the script was shown and the beginning
\* of the transaction.
ReversesWhatWasShown ==
  [][\A d \in Document :
       view' # None /\ view'.docs[d].reversed /\ ~Seen.docs[d].reversed =>
         /\ Seen.docs[d] = cache.docs[d]
         /\ Seen.docs[d].status = "submitted" /\ ~Seen.docs[d].outside]_vars
=============================================================================
