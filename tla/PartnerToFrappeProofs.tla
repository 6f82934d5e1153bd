----------------------- MODULE PartnerToFrappeProofs -----------------------
(***************************************************************************)
(* Theorems about PartnerToFrappe for every number of records, keys,       *)
(* documents and runs.                                                     *)
(*                                                                         *)
(* TypeCorrect and DeletesOnlyMissingOrRekeyed need no assumption: they    *)
(* hold of every definition and every partner.  OneDocumentPerRecord,      *)
(* LinksAreStable and EndMirrorsSource hold of every definition and every  *)
(* table of documents made by hand, several with one key among them, and   *)
(* assume ~ReuseKeys: the partner gives no record the key of another.      *)
(***************************************************************************)
EXTENDS PartnerToFrappe, FiniteSetTheorems, TLAPS

USE ConfigAssumption, NoneAssumption, BoundAssumption

-----------------------------------------------------------------------------
(* Type correctness *)

\* Matches and documents to delete exist only while a batch is written.
NoLeftovers == phase # "write" => work = {} /\ doomed = {}

TypeInv == TypeOK /\ NoLeftovers

\* Another fault stays within the bound.
LEMMA FaultType ==
  ASSUME TypeOK, faults < MaxFaults, faults' = faults + 1
  PROVE  faults' \in 0..MaxFaults
BY DEF TypeOK

\* A run that is over leaves nothing behind in memory.
LEMMA LeaveType ==
  ASSUME Leave
  PROVE  /\ phase' = "idle" /\ failed' = FALSE
         /\ source' \in [Id -> Record \cup {None}]
         /\ seen' \in [Name -> Doc \cup {None}]
         /\ rest' = {} /\ work' = {} /\ doomed' = {}
BY DEF Leave, Nothing

\* A record with a key has an image, which is a document.
LEMMA ImageType ==
  ASSUME TypeOK, NEW i \in Id, Keyed({i}) # {}
  PROVE  /\ i \in Present(source) /\ source[i].key \in Key
         /\ Image(i) \in Doc
<1>1. source[i] \in Record /\ source[i].key # NoKey
  BY DEF Keyed, TypeOK
<1>2. source[i] # None
  BY DEF Keyed
<1>3. QED
  BY <1>1, <1>2 DEF Image, Doc, Record, Present, TypeOK

\* An audit item keeps the committed documents and the counter well typed.
LEMMA LogType ==
  ASSUME TypeOK, docs' \in [Name -> Doc \cup {None}], Log
  PROVE  saved' \in [Name -> Doc \cup {None}] /\ pending' \in 0..(Threshold - 1)
<1>1. CASE pending + 1 >= Threshold
  BY <1>1 DEF Log, TypeOK
<1>2. CASE ~(pending + 1 >= Threshold)
  BY <1>2 DEF Log, TypeOK
<1>3. QED
  BY <1>1, <1>2

\* What a step of the writing phase may do to the documents.
LEMMA WriteType ==
  ASSUME TypeOK, NEW i \in Id, NEW n \in Name \cup {None}, Write(i, n)
  PROVE  /\ docs' \in [Name -> Doc \cup {None}]
         /\ saved' \in [Name -> Doc \cup {None}]
         /\ pending' \in 0..(Threshold - 1)
         /\ faults' \in 0..MaxFaults /\ failed' \in BOOLEAN
<1>1. CASE Keyed({i}) = {} /\ Error /\ UNCHANGED faults
  BY <1>1, LogType DEF Error, TypeOK
<1>2. CASE Keyed({i}) # {} /\ n = None /\ Create(i)
  <2>1. docs' \in [Name -> Doc \cup {None}]
    BY <1>2, ImageType DEF Create, TypeOK
  <2>2. QED
    BY <1>2, <2>1, LogType DEF Create, TypeOK
<1>3. CASE Keyed({i}) # {} /\ n # None /\ Update(i, n)
  <2>1. docs' \in [Name -> Doc \cup {None}]
    BY <1>3, ImageType DEF Update, TypeOK
  <2>2. QED
    BY <1>3, <2>1, LogType DEF Update, TypeOK
<1>4. CASE Keyed({i}) # {} /\ Rejected
  BY <1>4, LogType DEF Rejected, Error, TypeOK
<1>5. QED
  BY <1>1, <1>2, <1>3, <1>4 DEF Write

LEMMA NextTypeInv == TypeInv /\ [Next]_vars => TypeInv'
<1> SUFFICES ASSUME TypeInv, [Next]_vars PROVE TypeInv'
  OBVIOUS
<1> USE DEF TypeInv
<1>1. ASSUME NEW i \in Id, Change(i) PROVE TypeInv'
  <2>1. changes' \in 0..MaxChanges
    BY <1>1 DEF Change, TypeOK
  <2>2. PICK r \in Record \cup {None} :
          /\ partner' = [partner EXCEPT ![i] = r]
          /\ IF r = None \/ r.key = NoKey THEN owner' = owner
             ELSE owner' = [owner EXCEPT ![r.key] = IF @ = None THEN i ELSE @]
    BY <1>1 DEF Change
  <2>3. owner' \in [Key -> Id \cup {None}]
    BY <2>2 DEF TypeOK, Record
  <2>4. partner' \in [Id -> Record \cup {None}]
    BY <2>2 DEF TypeOK
  <2>5. UNCHANGED <<config, made, faults, docs, saved, pending, phase, source, rest,
                    failed, seen, work, doomed>>
    BY <1>1 DEF Change, siteVars, runVars, batchVars
  <2>6. QED
    BY <2>1, <2>3, <2>4, <2>5 DEF TypeOK, NoLeftovers, Present
<1>2. ASSUME Start PROVE TypeInv'
  <2>1. UNCHANGED <<config, made, partner, owner, changes, faults, docs, saved,
                    pending, failed, seen, work, doomed>>
    BY <1>2 DEF Start, partnerVars, siteVars, batchVars
  <2>2. source' = partner /\ rest' = Present(partner) /\ phase' \in {"read", "end"}
    BY <1>2 DEF Start
  <2>3. work' = {} /\ doomed' = {}
    BY <1>2, <2>1 DEF Start, NoLeftovers
  <2>4. rest' \subseteq Present(source')
    BY <2>2
  <2>5. QED
    BY <2>1, <2>2, <2>3, <2>4 DEF TypeOK, NoLeftovers
<1>3. ASSUME Batch PROVE TypeInv'
  <2>1. PICK B \in SUBSET rest :
          /\ rest' = rest \ B
          /\ seen' = [n \in Name |-> IF n \in Candidates(B) THEN docs[n] ELSE None]
          /\ \E S \in Inputs(B), L \in Lookups(Candidates(B)) :
               \E M \in [S -> SUBSET L] : work' = Plan(S, M)
    BY <1>3 DEF Batch
  <2>2. work' \subseteq Present(source) \X (Name \cup {None})
    BY <2>1 DEF Plan, Inputs, Keyed, TypeOK, Present
  <2>3. doomed' \subseteq Present(seen')
    <3>1. CASE config.delete
      BY <1>3, <2>1, <3>1 DEF Batch, Missing, Candidates, Present, TypeOK
    <3>2. CASE ~config.delete
      BY <1>3, <3>2 DEF Batch
    <3>3. QED
      BY <3>1, <3>2
  <2>4. seen' \in [Name -> Doc \cup {None}]
    BY <2>1 DEF TypeOK
  <2>5. QED
    BY <1>3, <2>1, <2>2, <2>3, <2>4 DEF Batch, TypeOK, NoLeftovers, partnerVars,
       siteVars
<1>4. ASSUME EndBatch PROVE TypeInv'
  BY <1>4 DEF EndBatch, TypeOK, NoLeftovers, partnerVars, Nothing, Present
<1>5. ASSUME Finish PROVE TypeInv'
  BY <1>5, LeaveType DEF Finish, TypeOK, NoLeftovers, partnerVars, siteVars
<1>6. ASSUME Crash PROVE TypeInv'
  <2>1. faults' \in 0..MaxFaults
    BY <1>6, FaultType DEF Crash
  <2>2. 0 \in 0..(Threshold - 1)
    OBVIOUS
  <2>3. QED
    BY <1>6, <2>1, <2>2, LeaveType DEF Crash, TypeOK, NoLeftovers,
       partnerVars
<1>7. ASSUME NEW i \in Id, NEW n \in Name \cup {None}, Write(i, n) PROVE TypeInv'
  <2>1. /\ work' = work \ {<<i, n>>}
        /\ UNCHANGED <<config, made, partner, owner, changes, phase, source, rest,
                       seen, doomed>>
        /\ phase = "write"
    BY <1>7 DEF Write, partnerVars
  <2>2. QED
    BY <1>7, <2>1, WriteType DEF TypeOK, NoLeftovers, Present
<1>8. ASSUME NEW n \in Name, Delete(n) PROVE TypeInv'
  <2>1. docs' \in [Name -> Doc \cup {None}] /\ faults' \in 0..MaxFaults
          /\ failed' \in BOOLEAN /\ Log
    BY <1>8, FaultType DEF Delete, Rejected, Error, TypeOK
  <2>2. /\ doomed' = doomed \ {n}
        /\ UNCHANGED <<config, made, partner, owner, changes, phase, source, rest,
                       seen, work>>
    BY <1>8 DEF Delete, partnerVars
  <2>3. saved' \in [Name -> Doc \cup {None}] /\ pending' \in 0..(Threshold - 1)
    BY <2>1, LogType
  <2>4. QED
    BY <1>8, <2>1, <2>2, <2>3 DEF Delete, TypeOK, NoLeftovers, Present
<1>9. ASSUME UNCHANGED vars PROVE TypeInv'
  BY <1>9 DEF vars, partnerVars, siteVars, runVars, batchVars, TypeOK, NoLeftovers,
     Present
<1>10. QED
  BY <1>1, <1>2, <1>3, <1>4, <1>5, <1>6, <1>7, <1>8, <1>9 DEF Next

LEMMA InitTypeInv == Init => TypeInv
<1> SUFFICES ASSUME Init PROVE TypeInv
  OBVIOUS
<1>1. docs \in [Name -> Doc \cup {None}] /\ saved \in [Name -> Doc \cup {None}]
  BY DEF Init, Doc
<1>2. 0 \in 0..MaxChanges /\ 0 \in 0..MaxFaults /\ 0 \in 0..(Threshold - 1)
  OBVIOUS
<1>3. QED
  BY <1>1, <1>2 DEF Init, TypeInv, TypeOK, NoLeftovers, Nothing, Present

\* Every reachable state is well typed, whatever the constants are: the
\* transaction never holds more audit items than the commit threshold.
THEOREM TypeCorrect == Spec => []TypeOK
<1>1. TypeInv => TypeOK
  BY DEF TypeInv
<1>2. QED
  BY <1>1, InitTypeInv, NextTypeInv, PTL DEF Spec

-----------------------------------------------------------------------------
(* What the steps do *)

\* Writing a match changes one document at most: the matched one, or a new one.
LEMMA WriteEffect ==
  ASSUME TypeInv, NEW i \in Id, NEW n \in Name \cup {None}, Write(i, n)
  PROVE  /\ phase = "write" /\ <<i, n>> \in work /\ work' = work \ {<<i, n>>}
         /\ UNCHANGED <<config, made, partner, owner, phase, source, seen, doomed>>
         /\ saved' \in {saved, docs'}
         /\ \/ docs' = docs
            \/ /\ Keyed({i}) # {}
               /\ \E m \in Name : /\ m = n \/ (n = None /\ docs[m] = None)
                                  /\ docs' = [docs EXCEPT ![m] = Image(i)]
<1>1. /\ phase = "write" /\ <<i, n>> \in work /\ work' = work \ {<<i, n>>}
      /\ UNCHANGED <<config, made, partner, owner, phase, source, seen, doomed>>
  BY DEF Write, partnerVars
<1>2. CASE docs' = docs /\ Log
  BY <1>1, <1>2 DEF Log
<1>3. CASE Keyed({i}) # {} /\ n = None /\ Create(i)
  <2>1. saved' \in {saved, docs'}
    BY <1>3 DEF Create, Log
  <2>2. QED
    BY <1>1, <1>3, <2>1 DEF Create
<1>4. CASE Keyed({i}) # {} /\ n # None /\ Update(i, n)
  <2>1. saved' \in {saved, docs'}
    BY <1>4 DEF Update, Log
  <2>2. n \in Name
    BY <1>4
  <2>3. docs' = docs \/ docs' = [docs EXCEPT ![n] = Image(i)]
    BY <1>4 DEF Update
  <2>4. \/ docs' = docs
        \/ \E m \in Name : /\ m = n \/ (n = None /\ docs[m] = None)
                           /\ docs' = [docs EXCEPT ![m] = Image(i)]
    BY <2>2, <2>3
  <2>5. QED
    BY <1>1, <1>4, <2>1, <2>4
<1>5. QED
  BY <1>2, <1>3, <1>4 DEF Write, Error, Rejected

LEMMA DeleteEffect ==
  ASSUME TypeInv, NEW n \in Name, Delete(n)
  PROVE  /\ n \in doomed /\ doomed' = doomed \ {n}
         /\ work = {}
         /\ UNCHANGED <<config, made, partner, owner, phase, source, seen, work>>
         /\ saved' \in {saved, docs'}
         /\ docs' \in {docs, [docs EXCEPT ![n] = None]}
BY DEF Delete, Rejected, Error, Log, partnerVars

\* A batch matches a record only with a document that exists and has its key or
\* its identity.
LEMMA BatchEffect ==
  ASSUME TypeInv, Batch
  PROVE  /\ UNCHANGED <<config, made, partner, owner, source, docs, saved>>
         /\ doomed' = IF config.delete THEN Missing ELSE {}
         /\ \A i \in Id, n \in Name : <<i, n>> \in work' =>
              /\ source[i].key # NoKey /\ docs[n] # None
              /\ \/ docs[n].key = source[i].key
                 \/ config.identity /\ docs[n].pid = i
<1>1. PICK B \in SUBSET rest :
        \E S \in Inputs(B), L \in Lookups(Candidates(B)) :
          \E M \in [S -> SUBSET L] :
            /\ \A i \in S : M[i] \in IF Keyed({i}) = {} THEN {{}}
                                   ELSE Matches(L, i)
            /\ work' = Plan(S, M)
  BY DEF Batch
<1>2. PICK S \in Inputs(B), L \in Lookups(Candidates(B)) :
        \E M \in [S -> SUBSET L] :
          /\ \A i \in S : M[i] \in IF Keyed({i}) = {} THEN {{}}
                                 ELSE Matches(L, i)
          /\ work' = Plan(S, M)
  BY <1>1
<1>3. PICK M \in [S -> SUBSET L] :
        /\ \A i \in S : M[i] \in IF Keyed({i}) = {} THEN {{}}
                               ELSE Matches(L, i)
        /\ work' = Plan(S, M)
  BY <1>2
<1>4. L \subseteq Present(docs)
  BY <1>2 DEF Lookups, Candidates
<1>5. ASSUME NEW i \in Id, NEW n \in Name, <<i, n>> \in work'
      PROVE  /\ source[i].key # NoKey /\ docs[n] # None
             /\ \/ docs[n].key = source[i].key
                \/ config.identity /\ docs[n].pid = i
  <2>1. i \in S /\ n \in M[i] /\ n \in L
    BY <1>3, <1>5 DEF Plan
  <2>2. Keyed({i}) # {} /\ M[i] \in Matches(L, i)
    BY <1>3, <2>1
  <2>3. docs[n].key = source[i].key \/ (config.identity /\ docs[n].pid = i)
    <3>1. CASE \E m \in L : config.identity /\ docs[m].pid = i /\ M[i] = {m}
      BY <2>1, <3>1
    <3>2. CASE M[i] = {m \in L : docs[m].key = source[i].key}
      BY <2>1, <3>2
    <3> DEFINE linked == {m \in L : config.identity /\ docs[m].pid = i}
    <3>3. CASE linked = {}
      BY <2>2, <3>2, <3>3 DEF Matches
    <3>4. CASE linked # {}
      <4>1. M[i] \in {{m} : m \in linked}
        BY <2>2, <3>4 DEF Matches
      <4>2. QED
        BY <3>1, <4>1
    <3>5. QED
      BY <3>3, <3>4
  <2>4. source[i].key # NoKey
    BY <2>2 DEF Keyed
  <2>5. docs[n] # None
    BY <1>4, <2>1 DEF Present
  <2>6. QED
    BY <2>3, <2>4, <2>5
<1>6. QED
  BY <1>5 DEF Batch, partnerVars, siteVars

\* The definition of a site does not change.
LEMMA ConfigStays == TypeInv /\ [Next]_vars => config' = config
BY WriteEffect, DeleteEffect, BatchEffect
   DEF Next, Change, Start, EndBatch, Finish, Crash, vars

-----------------------------------------------------------------------------
(* Definitions without stored identities *)

Unlinked(D) == \A n \in Present(D) : D[n].pid = None

\* Updates do not change the key of a document.
UpdatesKeepKey ==
  \A i \in Present(source), n \in Name :
    <<i, n>> \in work => /\ source[i].key # NoKey /\ docs[n] # None
                         /\ docs[n].key = source[i].key

DoomedMissing ==
  \A n \in doomed : docs[n] # None /\ docs[n].key \notin SourceKeys

KeyInv ==
  /\ ~config.identity => Unlinked(docs) /\ Unlinked(saved) /\ UpdatesKeepKey
                           /\ DoomedMissing
  /\ ~config.delete => doomed = {}

LEMMA UnlinkedWrite ==
  ASSUME TypeInv, ~config.identity, Unlinked(docs), Unlinked(saved),
         NEW i \in Id, NEW n \in Name \cup {None}, Write(i, n)
  PROVE  Unlinked(docs)' /\ Unlinked(saved)'
<1>1. Unlinked(docs)'
  <2>1. CASE docs' = docs
    BY <2>1 DEF Unlinked
  <2>2. ASSUME NEW m \in Name, docs' = [docs EXCEPT ![m] = Image(i)]
        PROVE  Unlinked(docs)'
    BY <2>2 DEF Unlinked, Image, Present, TypeInv, TypeOK
  <2>3. QED
    BY <2>1, <2>2, WriteEffect
<1>2. QED
  BY <1>1, WriteEffect DEF Unlinked

LEMMA NextKeyInv == TypeInv /\ TypeInv' /\ KeyInv /\ [Next]_vars => KeyInv'
<1> SUFFICES ASSUME TypeInv, TypeInv', KeyInv, [Next]_vars PROVE KeyInv'
  OBVIOUS
<1>1. ASSUME NEW i \in Id, Change(i) PROVE KeyInv'
  BY <1>1 DEF Change, siteVars, runVars, batchVars, KeyInv, Unlinked,
     UpdatesKeepKey, DoomedMissing, SourceKeys, Keyed, Present
<1>2. ASSUME Start PROVE KeyInv'
  <2>1. /\ UNCHANGED <<config, docs, saved, doomed>>
        /\ work' = {} /\ doomed = {}
    BY <1>2 DEF Start, siteVars, batchVars, TypeInv, NoLeftovers
  <2>2. QED
    BY <2>1 DEF KeyInv, Unlinked, UpdatesKeepKey, DoomedMissing
<1>3. ASSUME Batch PROVE KeyInv'
  <2>1. ~config.delete => doomed' = {}
    BY <1>3, BatchEffect
  <2>2. ASSUME ~config.identity PROVE UpdatesKeepKey'
    BY <1>3, <2>2, BatchEffect DEF UpdatesKeepKey, Present, TypeInv, TypeOK
  <2>3. DoomedMissing'
    <3>1. SourceKeys' = SourceKeys
      BY <1>3, BatchEffect DEF SourceKeys, Keyed
    <3>2. QED
      BY <1>3, <3>1, BatchEffect DEF DoomedMissing, Missing, Present
  <2>4. QED
    BY <1>3, <2>1, <2>2, <2>3, BatchEffect DEF KeyInv, Unlinked
<1>4. ASSUME EndBatch PROVE KeyInv'
  BY <1>4 DEF EndBatch, KeyInv, Unlinked, UpdatesKeepKey, DoomedMissing
<1>5. ASSUME Finish PROVE KeyInv'
  BY <1>5, LeaveType DEF Finish, siteVars, KeyInv, Unlinked, UpdatesKeepKey,
     DoomedMissing
<1>6. ASSUME Crash PROVE KeyInv'
  BY <1>6, LeaveType DEF Crash, KeyInv, Unlinked, UpdatesKeepKey, DoomedMissing
<1>7. ASSUME NEW i \in Id, NEW n \in Name \cup {None}, Write(i, n) PROVE KeyInv'
  <2>0. /\ UNCHANGED <<config, source, doomed>> /\ work' \subseteq work
        /\ i \in Present(source)
    <3>1. <<i, n>> \in Present(source) \X (Name \cup {None})
      BY <1>7, WriteEffect DEF TypeInv, TypeOK
    <3>2. QED
      BY <1>7, <3>1, WriteEffect
  <2>1. ASSUME ~config.identity PROVE UpdatesKeepKey' /\ DoomedMissing'
    <3>1. UpdatesKeepKey /\ DoomedMissing
      BY <2>1 DEF KeyInv
    <3>2. SourceKeys' = SourceKeys
      BY <2>0 DEF SourceKeys, Keyed
    <3>3. CASE docs' = docs
      BY <2>0, <3>1, <3>2, <3>3 DEF UpdatesKeepKey, DoomedMissing, Present
    <3>4. ASSUME Keyed({i}) # {},
                 NEW m \in Name, m = n \/ (n = None /\ docs[m] = None),
                 docs' = [docs EXCEPT ![m] = Image(i)]
          PROVE  UpdatesKeepKey' /\ DoomedMissing'
      <4>1. source[i].key \in SourceKeys /\ Image(i) # None
              /\ Image(i).key = source[i].key
        BY <3>4, ImageType DEF SourceKeys, Keyed, Image, TypeInv
      <4>2. docs[m] = None \/ docs[m].key = source[i].key
        BY <1>7, <2>0, <3>1, <3>4, WriteEffect DEF UpdatesKeepKey
      <4>3. m \notin doomed
        BY <3>1, <4>1, <4>2 DEF DoomedMissing
      <4>4. DoomedMissing'
        <5>1. doomed \subseteq Name
          BY DEF TypeInv, TypeOK, Present
        <5>2. QED
          BY <2>0, <3>1, <3>2, <3>4, <4>3, <5>1 DEF DoomedMissing, TypeInv, TypeOK
      <4>5. UpdatesKeepKey'
        <5>1. SUFFICES ASSUME NEW j \in Present(source), NEW x \in Name,
                              <<j, x>> \in work
                       PROVE  /\ source[j].key # NoKey /\ docs'[x] # None
                              /\ docs'[x].key = source[j].key
          BY <2>0 DEF UpdatesKeepKey, Present
        <5>2. source[j].key # NoKey /\ docs[x] # None
                /\ docs[x].key = source[j].key
          BY <3>1, <5>1 DEF UpdatesKeepKey
        <5>3. QED
          BY <3>4, <4>1, <4>2, <5>2 DEF TypeInv, TypeOK
      <4>6. QED
        BY <4>4, <4>5
    <3>5. QED
      BY <1>7, <3>3, <3>4, WriteEffect
  <2>2. QED
    BY <1>7, <2>1, UnlinkedWrite, WriteEffect DEF KeyInv
<1>8. ASSUME NEW n \in Name, Delete(n) PROVE KeyInv'
  <2>1. SourceKeys' = SourceKeys
    BY <1>8, DeleteEffect DEF SourceKeys, Keyed
  <2>2. ASSUME ~config.identity PROVE Unlinked(docs)' /\ Unlinked(saved)'
    BY <1>8, <2>2, DeleteEffect DEF KeyInv, Unlinked, Present, TypeInv, TypeOK
  <2>3. ASSUME ~config.identity PROVE DoomedMissing'
    <3>1. doomed \subseteq Name
      BY DEF TypeInv, TypeOK, Present
    <3>2. QED
      BY <1>8, <2>1, <2>3, <3>1, DeleteEffect DEF KeyInv, DoomedMissing, TypeInv,
         TypeOK
  <2>4. UpdatesKeepKey'
    BY <1>8, DeleteEffect DEF UpdatesKeepKey
  <2>5. QED
    BY <1>8, <2>2, <2>3, <2>4, DeleteEffect DEF KeyInv
<1>9. ASSUME UNCHANGED vars PROVE KeyInv'
  BY <1>9 DEF vars, siteVars, runVars, batchVars, KeyInv, Unlinked,
     UpdatesKeepKey, DoomedMissing, SourceKeys, Keyed, Present
<1>10. QED
  BY <1>1, <1>2, <1>3, <1>4, <1>5, <1>6, <1>7, <1>8, <1>9 DEF Next

LEMMA InitKeyInv == Init => KeyInv
<1> SUFFICES ASSUME Init PROVE KeyInv
  OBVIOUS
<1>1. Unlinked(docs) /\ Unlinked(saved)
  BY DEF Init, Unlinked, Present
<1>2. QED
  BY <1>1 DEF Init, KeyInv, UpdatesKeepKey, DoomedMissing

-----------------------------------------------------------------------------
(* What a run may delete *)

\* A match waits for the document that had its key or its identity when the batch
\* was loaded.
LoadedMatches ==
  \A i \in Present(source), n \in Name :
    <<i, n>> \in work => \/ seen[n].key = source[i].key /\ source[i].key # NoKey
                         \/ config.identity /\ seen[n].pid = i

\* A document that waits to be deleted had the key of no record when the batch was
\* loaded; the run may have written it since, for the record it was linked to.
DoomedAsLoaded ==
  \A n \in doomed : /\ docs[n] # None /\ seen[n].key \notin SourceKeys
                    /\ docs[n].pid = seen[n].pid
                    /\ docs[n].pid = None => docs[n].key = seen[n].key

LoadedInv == LoadedMatches /\ DoomedAsLoaded

\* What a batch matches or will delete is kept as it was loaded.
LEMMA BatchLoads ==
  ASSUME TypeInv, Batch
  PROVE  /\ \A i \in Id, n \in Name : <<i, n>> \in work' => seen'[n] = docs[n]
         /\ config.delete => \A n \in Name : seen'[n] = docs[n]
<1>1. PICK B \in SUBSET rest :
        /\ seen' = [n \in Name |-> IF n \in Candidates(B) THEN docs[n] ELSE None]
        /\ \E S \in Inputs(B), L \in Lookups(Candidates(B)) :
             \E M \in [S -> SUBSET L] : work' = Plan(S, M)
  BY DEF Batch
<1>2. PICK S \in Inputs(B), L \in Lookups(Candidates(B)) :
        \E M \in [S -> SUBSET L] : work' = Plan(S, M)
  BY <1>1
<1>3. PICK M \in [S -> SUBSET L] : work' = Plan(S, M)
  BY <1>2
<1>4. L \subseteq Candidates(B) /\ None \notin L
  BY <1>2 DEF Lookups, Candidates, Present, TypeInv, TypeOK
<1>5. ASSUME NEW i \in Id, NEW n \in Name, <<i, n>> \in work'
      PROVE  seen'[n] = docs[n]
  <2>1. i \in S /\ n \in M[i]
    BY <1>3, <1>5 DEF Plan
  <2>2. n \in Candidates(B)
    BY <1>3, <1>4, <2>1
  <2>3. QED
    BY <1>1, <2>2
<1>6. ASSUME config.delete, NEW n \in Name PROVE seen'[n] = docs[n]
  BY <1>1, <1>6 DEF Candidates, Present, TypeInv, TypeOK
<1>7. QED
  BY <1>5, <1>6

LEMMA NextLoadedInv == TypeInv /\ TypeInv' /\ LoadedInv /\ [Next]_vars => LoadedInv'
<1> SUFFICES ASSUME TypeInv, TypeInv', LoadedInv, [Next]_vars PROVE LoadedInv'
  OBVIOUS
<1> USE DEF LoadedInv
<1>0. doomed \subseteq Name /\ Present(source) \subseteq Id
  BY DEF TypeInv, TypeOK, Present
<1>1. ASSUME UNCHANGED <<config, source, docs, seen, work, doomed>> PROVE LoadedInv'
  BY <1>1 DEF LoadedMatches, DoomedAsLoaded, SourceKeys, Keyed
<1>2. ASSUME work' = {}, doomed' = {} PROVE LoadedInv'
  BY <1>2 DEF LoadedMatches, DoomedAsLoaded
<1>3. ASSUME Batch PROVE LoadedInv'
  <2>1. SourceKeys' = SourceKeys
    BY <1>3, BatchEffect DEF SourceKeys, Keyed
  <2>2. LoadedMatches'
    BY <1>0, <1>3, BatchEffect, BatchLoads DEF LoadedMatches
  <2>3. DoomedAsLoaded'
    <3>1. CASE config.delete
      BY <1>3, <2>1, <3>1, BatchEffect, BatchLoads DEF DoomedAsLoaded, Missing,
         Present, TypeInv, TypeOK
    <3>2. CASE ~config.delete
      BY <1>3, <3>2, BatchEffect DEF DoomedAsLoaded
    <3>3. QED
      BY <3>1, <3>2
  <2>4. QED
    BY <2>2, <2>3
<1>4. ASSUME NEW i \in Id, NEW n \in Name \cup {None}, Write(i, n) PROVE LoadedInv'
  <2>1. /\ UNCHANGED <<config, source, seen, doomed>> /\ work' \subseteq work
        /\ <<i, n>> \in work /\ i \in Present(source)
    <3>1. <<i, n>> \in Present(source) \X (Name \cup {None})
      BY <1>4, WriteEffect DEF TypeInv, TypeOK
    <3>2. QED
      BY <1>4, <3>1, WriteEffect
  <2>2. SourceKeys' = SourceKeys /\ LoadedMatches'
    BY <2>1 DEF SourceKeys, Keyed, LoadedMatches
  <2>3. ASSUME NEW m \in doomed, docs'[m] # docs[m]
        PROVE  docs'[m] # None /\ docs'[m].pid = i /\ seen[m].pid = i
    <3>1. Keyed({i}) # {}
      BY <1>4, <2>3, WriteEffect
    <3>2. PICK x \in Name : /\ x = n \/ (n = None /\ docs[x] = None)
                            /\ docs' = [docs EXCEPT ![x] = Image(i)]
      BY <1>4, <2>3, WriteEffect
    <3>3. m = x /\ docs'[m] = Image(i) /\ docs[m] # None
      BY <1>0, <2>3, <3>2 DEF TypeInv, TypeOK, DoomedAsLoaded
    <3>4. source[i].key \in SourceKeys /\ Image(i) # None
      BY <1>0, <2>1, <3>1, ImageType DEF SourceKeys, Keyed, TypeInv
    <3>5. config.identity /\ seen[m].pid = i
      BY <2>1, <2>3, <3>2, <3>3, <3>4 DEF LoadedMatches, DoomedAsLoaded
    <3>6. QED
      BY <3>3, <3>4, <3>5 DEF Image
  <2>4. DoomedAsLoaded'
    <3>1. SUFFICES ASSUME NEW m \in doomed
                   PROVE  /\ docs'[m] # None /\ docs'[m].pid = seen[m].pid
                          /\ docs'[m].pid = None => docs'[m].key = seen[m].key
      BY <2>1, <2>2 DEF DoomedAsLoaded
    <3>2. CASE docs'[m] = docs[m]
      BY <3>2 DEF DoomedAsLoaded
    <3>3. CASE docs'[m] # docs[m]
      BY <1>0, <2>1, <2>3, <3>3
    <3>4. QED
      BY <3>2, <3>3
  <2>5. QED
    BY <2>2, <2>4
<1>5. ASSUME NEW n \in Name, Delete(n) PROVE LoadedInv'
  <2>1. SourceKeys' = SourceKeys /\ LoadedMatches'
    BY <1>5, DeleteEffect DEF SourceKeys, Keyed, LoadedMatches
  <2>2. DoomedAsLoaded'
    BY <1>0, <1>5, <2>1, DeleteEffect DEF DoomedAsLoaded, TypeInv, TypeOK
  <2>3. QED
    BY <2>1, <2>2
<1>6. ASSUME NEW i \in Id, Change(i) PROVE LoadedInv'
  BY <1>1, <1>6 DEF Change, siteVars, runVars, batchVars
<1>7. ASSUME Start PROVE LoadedInv'
  BY <1>2, <1>7 DEF Start, batchVars, TypeInv, NoLeftovers
<1>8. ASSUME EndBatch \/ Finish \/ Crash PROVE LoadedInv'
  BY <1>2, <1>8 DEF EndBatch, Finish, Crash, Leave
<1>9. ASSUME UNCHANGED vars PROVE LoadedInv'
  BY <1>1, <1>9 DEF vars, siteVars, runVars, batchVars
<1>10. QED
  BY <1>3, <1>4, <1>5, <1>6, <1>7, <1>8, <1>9 DEF Next

\* Only a Delete step removes a document from a run that goes on, and only one
\* that is doomed.
LEMMA DeletesDoomed ==
  ASSUME TypeInv, [Next]_vars, NEW n \in Present(docs), phase' # "idle",
         docs'[n] = None
  PROVE  n \in doomed /\ source' = source /\ seen' = seen
<1>1. n \in Name /\ docs[n] # None
  BY DEF Present, TypeInv, TypeOK
<1>2. PICK m \in Name : Delete(m)
  <2>1. ASSUME NEW j \in Id, NEW x \in Name \cup {None}, Write(j, x) PROVE FALSE
    <3>1. CASE docs' = docs
      BY <1>1, <3>1
    <3>2. ASSUME Keyed({j}) # {}, NEW m \in Name,
                 docs' = [docs EXCEPT ![m] = Image(j)]
          PROVE  FALSE
      <4>1. Image(j) # None
        BY <3>2, ImageType DEF TypeInv
      <4>2. QED
        BY <1>1, <3>2, <4>1 DEF TypeInv, TypeOK
    <3>3. QED
      BY <2>1, <3>1, <3>2, WriteEffect
  <2>2. CASE docs' = docs
    BY <1>1, <2>2
  <2>3. QED
    BY <2>1, <2>2, BatchEffect DEF Next, Change, Start, EndBatch, Finish, Crash,
       Leave, vars, siteVars
<1>3. QED
  BY <1>1, <1>2, DeleteEffect DEF TypeInv, TypeOK

\* A doomed document corresponds to a record only if the record was linked to it
\* with another key.
LEMMA DoomedRekeyed ==
  ASSUME TypeInv, LoadedInv, NEW n \in doomed, NEW i \in Id, Corresponds(n, i)
  PROVE  Rekeyed(n, i)
<1>1. /\ n \in Name /\ seen[n] # None /\ seen[n] \in Doc /\ seen[n].key \in Key
      /\ seen[n].key \notin SourceKeys
  BY DEF LoadedInv, DoomedAsLoaded, TypeInv, TypeOK, Present, Doc
<1>2. seen[n].key # source[i].key
  BY <1>1 DEF Corresponds, SourceKeys, Keyed
<1>3. seen[n].pid = i
  BY <1>2 DEF Corresponds, LoadedInv, DoomedAsLoaded
<1>4. QED
  BY <1>2, <1>3 DEF Rekeyed

\* Whatever the definition, and whatever the partner does with its keys, of the
\* documents that correspond to a record of the complete load delete_missing
\* deletes only those of records that changed their key since the link was written
\* (one_way.py compares the keys as they were loaded, matching.py identities).
THEOREM DeletesOnlyMissingOrRekeyed == Spec => DeletesOnlyMissing
<1>1. Init => TypeInv /\ LoadedInv
  <2>1. Init => LoadedInv
    BY DEF Init, LoadedInv, LoadedMatches, DoomedAsLoaded
  <2>2. QED
    BY <2>1, InitTypeInv
<1>2. TypeInv /\ LoadedInv /\ [Next]_vars => (TypeInv /\ LoadedInv)'
  BY NextTypeInv, NextLoadedInv
<1>3. TypeInv /\ LoadedInv /\ [Next]_vars =>
        [\A n \in Present(docs) :
           phase' # "idle" /\ docs'[n] = None
             => \A i \in Id : Corresponds(n, i) => Rekeyed(n, i)]_vars
  BY DeletesDoomed, DoomedRekeyed
<1>4. QED
  BY <1>1, <1>2, <1>3, PTL DEF Spec, DeletesOnlyMissing

-----------------------------------------------------------------------------
(* The inductive invariant of a definition with stored identities *)

\* The records of table R own their keys.
OwnKeys(R) == \A i \in Present(R) : R[i].key # NoKey => owner[R[i].key] = i

\* A linked document has a key of its record.
LinksOwn(D) ==
  \A n \in Present(D) : D[n].pid # None => owner[D[n].key] = D[n].pid

\* A document without identity was made by hand, and still has its first key.
HandKeys(D) == \A n \in Present(D) : D[n].pid = None => made[n] = D[n].key

\* Only twins share a key with a document that is not linked yet.
SameKey(D) ==
  \A m, n \in Present(D) :
    m # n /\ D[n].pid = None /\ D[m].key = D[n].key => made[m] = made[n]

\* Only a twin shares its record with another document.
DistinctLinks(D) ==
  \A m, n \in Present(D) :
    D[m].pid = D[n].pid => m = n \/ D[m].pid = None \/ Twin(m) \/ Twin(n)

\* A record shares its key with a document made by hand only if it never had
\* another key.
TakesOver(D) ==
  \A i \in Present(partner), n \in Present(D) :
    D[n].pid = None /\ D[n].key = partner[i].key
      => \A q \in Key : owner[q] = i => q = D[n].key

\* A record the run may link to a document made by hand is linked to twins of it
\* at most.
NotLinkedYet ==
  \A i \in Present(source), m, n \in Present(docs) :
    docs[n].pid = None /\ docs[n].key = source[i].key /\ docs[m].pid = i
      => made[m] = made[n]

\* A record that gets a new document has no match.
NewOrMatched ==
  \A w, x \in work : w[1] = x[1] /\ w[2] = None => w = x

\* What is going to be created does not exist, unless a twin hid it.
CreatesNew ==
  \A i \in Present(source), n \in Present(docs) :
    <<i, None>> \in work /\ source[i].key # NoKey
      => /\ docs[n].key # source[i].key
         /\ docs[n].pid = i => Twin(n)

\* What is going to be updated is the document of the record or shares its key.
UpdatesMatch ==
  \A i \in Present(source), n \in Name :
    <<i, n>> \in work
      => /\ source[i].key # NoKey
         /\ docs[n] # None
         /\ \/ docs[n].pid = i
            \/ docs[n].pid = None /\ docs[n].key = source[i].key

Stored(D) ==
  LinksOwn(D) /\ HandKeys(D) /\ SameKey(D) /\ DistinctLinks(D) /\ TakesOver(D)

LinkInv ==
  /\ OwnKeys(partner) /\ OwnKeys(source)
  /\ Stored(docs) /\ Stored(saved)
  /\ NotLinkedYet /\ NewOrMatched /\ CreatesNew /\ UpdatesMatch

\* Without identities in the definition nothing is linked.
IdentityInv ==
  /\ config.identity => LinkInv
  /\ ~config.identity => Unlinked(docs) /\ Unlinked(saved)

\* The index keeps a document of each key.
LEMMA OneOfEachKey ==
  ASSUME NEW C \in SUBSET Present(docs), NEW L \in Lookups(C), NEW n \in C
  PROVE  \E y \in L : docs[y].key = docs[n].key /\ (n \in L => y = n)
<1>1. CASE n \in L
  BY <1>1
<1>2. CASE n \notin L
  <2>1. ~config.all
    BY <1>2 DEF Lookups
  <2>2. Cardinality({m \in L : docs[m].key = docs[n].key}) = 1
    BY <2>1 DEF Lookups
  <2>3. {m \in L : docs[m].key = docs[n].key} # {}
    <3>1. SUFFICES ASSUME {m \in L : docs[m].key = docs[n].key} = {} PROVE FALSE
      OBVIOUS
    <3>2. Cardinality({}) = 1
      BY <2>2, <3>1, Zenon
    <3>3. QED
      BY <3>2, FS_EmptySet
  <2>4. QED
    BY <1>2, <2>3
<1>3. QED
  BY <1>1, <1>2

\* A batch gives a record documents that exist or a new one, and a new one only
\* if it has none but a twin whose like hides it in the index.
LEMMA BatchMatches ==
  ASSUME TypeInv, Batch, config.identity, HandKeys(docs), SameKey(docs),
         LinksOwn(docs), OwnKeys(source)
  PROVE  NewOrMatched' /\ CreatesNew'
<1>1. PICK B \in SUBSET rest :
        \E S \in Inputs(B), L \in Lookups(Candidates(B)) :
          \E M \in [S -> SUBSET L] :
            /\ \A i \in S : M[i] \in IF Keyed({i}) = {} THEN {{}}
                                   ELSE Matches(L, i)
            /\ work' = Plan(S, M)
  BY DEF Batch
<1>2. PICK S \in Inputs(B), L \in Lookups(Candidates(B)) :
        \E M \in [S -> SUBSET L] :
          /\ \A i \in S : M[i] \in IF Keyed({i}) = {} THEN {{}}
                                 ELSE Matches(L, i)
          /\ work' = Plan(S, M)
  BY <1>1
<1>3. PICK M \in [S -> SUBSET L] :
        /\ \A i \in S : M[i] \in IF Keyed({i}) = {} THEN {{}}
                               ELSE Matches(L, i)
        /\ work' = Plan(S, M)
  BY <1>2
<1>4. /\ L \subseteq Candidates(B) /\ Candidates(B) \subseteq Present(docs)
      /\ Present(docs) \subseteq Name /\ L \subseteq Name
  BY <1>2 DEF Lookups, Candidates, Present, TypeInv, TypeOK
<1>5. NewOrMatched'
  <2>1. SUFFICES ASSUME NEW w \in work', NEW x \in work', w[1] = x[1],
                        w[2] = None
                 PROVE  w = x
    BY DEF NewOrMatched
  <2>2. /\ w \in S \X (Name \cup {None}) /\ x \in S \X (Name \cup {None})
        /\ IF M[w[1]] = {} THEN w[2] = None ELSE w[2] \in M[w[1]]
        /\ IF M[w[1]] = {} THEN x[2] = None ELSE x[2] \in M[w[1]]
    BY <1>3, <2>1 DEF Plan
  <2>3. M[w[1]] = {}
    BY <1>3, <1>4, <2>1, <2>2
  <2>4. QED
    BY <2>1, <2>2, <2>3
<1>6. ASSUME NEW i \in Id, NEW n \in Present(docs),
             <<i, None>> \in work', source[i].key # NoKey
      PROVE  docs[n].key # source[i].key /\ (docs[n].pid = i => Twin(n))
  <2>1. i \in S /\ M[i] = {}
    <3>1. i \in S /\ (M[i] = {} \/ None \in M[i])
      BY <1>3, <1>6 DEF Plan
    <3>2. QED
      BY <1>3, <1>4, <3>1
  <2>2. i \in B /\ source[i] # None /\ i # None /\ i \in Present(source)
    BY <1>1, <1>2, <2>1 DEF Inputs, Keyed, Present, TypeInv, TypeOK
  <2>3. M[i] \in Matches(L, i)
    BY <1>3, <1>6, <2>1, <2>2 DEF Keyed
  <2> DEFINE linked == {x \in L : config.identity /\ docs[x].pid = i}
  <2>4. linked = {}
    <3>1. SUFFICES ASSUME linked # {} PROVE FALSE
      OBVIOUS
    <3>2. M[i] \in {{x} : x \in linked}
      BY <2>3, <3>1 DEF Matches
    <3>3. QED
      BY <2>1, <3>2
  <2>5. {x \in L : docs[x].key = source[i].key} = {}
    BY <2>1, <2>3, <2>4 DEF Matches
  <2>6. n \in Candidates(B) \/ (docs[n].pid # i /\ docs[n].key # source[i].key)
    BY <1>6, <2>2 DEF Candidates, Keyed
  <2>7. CASE n \in Candidates(B)
    <3>1. PICK y \in L : docs[y].key = docs[n].key /\ (n \in L => y = n)
      BY <1>2, <1>4, <2>7, OneOfEachKey
    <3>2. docs[n].key # source[i].key
      BY <2>5, <3>1
    <3>3. ASSUME docs[n].pid = i PROVE Twin(n)
      <4>1. n \notin L /\ y # n /\ docs[y].pid # i
        BY <2>4, <3>1, <3>3
      <4>2. y \in Present(docs) /\ owner[docs[n].key] = i
        BY <1>4, <1>6, <2>2, <3>3 DEF LinksOwn
      <4>3. docs[y].pid = None
        BY <3>1, <4>1, <4>2 DEF LinksOwn
      <4>4. made[n] = made[y] /\ made[y] = docs[y].key
        BY <1>6, <3>1, <4>1, <4>2, <4>3 DEF SameKey, HandKeys
      <4>5. y \in Name /\ n \in Name /\ docs[y].key # None
        BY <1>4, <1>6, <4>2 DEF TypeInv, TypeOK, Present, Doc
      <4>6. QED
        BY <4>1, <4>4, <4>5 DEF Twin
    <3>4. QED
      BY <3>2, <3>3
  <2>8. QED
    BY <2>2, <2>6, <2>7
<1>7. CreatesNew'
  <2>1. source' = source /\ docs' = docs /\ made' = made
    BY BatchEffect
  <2>2. Present(source) \subseteq Id
    BY DEF Present, TypeInv, TypeOK
  <2>3. \A n \in Name : Twin(n)' = Twin(n)
    BY <2>1 DEF Twin
  <2>4. Present(docs') \subseteq Name
    BY <2>1 DEF Present, TypeInv, TypeOK
  <2>5. QED
    BY <1>6, <2>1, <2>2, <2>3, <2>4 DEF CreatesNew
<1>8. QED
  BY <1>5, <1>7

\* A record and the document it is written to: only twins share its identity, or
\* have its key and are not linked.
LEMMA SoleDocument ==
  ASSUME TypeInv, LinkInv, NEW i \in Present(source), source[i].key # NoKey,
         NEW n \in Name \cup {None}, <<i, n>> \in work,
         NEW m \in Name, m = n \/ (n = None /\ docs[m] = None),
         NEW x \in Name, x # m, docs[x] # None
  PROVE  /\ docs[x].pid = None /\ docs[x].key = source[i].key
              => made[x] = made[m]
         /\ docs[x].pid = i => Twin(x) \/ Twin(m)
<1> USE DEF LinkInv, Stored
<1>0. /\ i \in Id /\ i # None /\ x \in Present(docs)
      /\ owner[source[i].key] = i
  BY DEF Present, TypeInv, TypeOK, OwnKeys
<1>1. CASE n = None
  BY <1>0, <1>1 DEF CreatesNew
<1>2. CASE m = n /\ docs[m].pid = i
  <2>1. m \in Present(docs)
    BY <1>2 DEF UpdatesMatch, Present, TypeInv, TypeOK
  <2>2. docs[x].pid = i => Twin(x) \/ Twin(m)
    BY <1>0, <1>2, <2>1 DEF DistinctLinks
  <2>3. docs[x].pid = None /\ docs[x].key = source[i].key => made[x] = made[m]
    BY <1>0, <1>2, <2>1 DEF NotLinkedYet
  <2>4. QED
    BY <2>2, <2>3
<1>3. CASE m = n /\ docs[m].pid = None /\ docs[m].key = source[i].key
  <2>1. m \in Present(docs)
    BY <1>3 DEF UpdatesMatch, Present, TypeInv, TypeOK
  <2>2. docs[x].pid = None /\ docs[x].key = source[i].key => made[x] = made[m]
    BY <1>0, <1>3, <2>1 DEF SameKey
  <2>3. ASSUME docs[x].pid = i PROVE Twin(m)
    <3>1. made[x] = made[m] /\ made[m] = docs[m].key
      BY <1>0, <1>3, <2>1, <2>3 DEF NotLinkedYet, HandKeys
    <3>2. docs[m].key # None
      BY <2>1 DEF TypeInv, TypeOK, Present, Doc
    <3>3. QED
      BY <3>1, <3>2 DEF Twin
  <2>4. QED
    BY <2>2, <2>3
<1>4. CASE n # None
  <2>1. /\ docs[n] # None
        /\ docs[n].pid = i \/ (docs[n].pid = None /\ docs[n].key = source[i].key)
    BY <1>4 DEF UpdatesMatch
  <2>2. QED
    BY <1>2, <1>3, <1>4, <2>1
<1>5. QED
  BY <1>1, <1>4

\* Writing the image of a record keeps what is stored in order.
LEMMA StoreImage ==
  ASSUME TypeInv, LinkInv, config.identity,
         NEW i \in Id, Keyed({i}) # {}, NEW m \in Name,
         docs' = [docs EXCEPT ![m] = Image(i)],
         UNCHANGED <<made, partner, owner, source>>,
         \A x \in Name : x # m /\ docs[x] # None
           => /\ docs[x].pid = None /\ docs[x].key = source[i].key
                   => made[x] = made[m]
              /\ docs[x].pid = i => Twin(x) \/ Twin(m)
  PROVE  Stored(docs)' /\ NotLinkedYet'
<1> USE DEF LinkInv, Stored
<1>1. /\ Image(i) \in Doc /\ Image(i) # None
      /\ Image(i).pid = i /\ Image(i).key = source[i].key
      /\ owner[source[i].key] = i /\ i # None
  BY ImageType DEF Image, TypeInv, OwnKeys, Keyed
<1>2. /\ docs'[m] = Image(i)
      /\ \A x \in Name : x # m => docs'[x] = docs[x]
      /\ Present(docs') \subseteq Name
  BY DEF TypeInv, TypeOK, Present
<1>3. \A x \in Present(docs') : x = m \/ (x \in Present(docs) /\ docs'[x] = docs[x]
                                         /\ x # m /\ docs[x] # None)
  BY <1>2 DEF Present, TypeInv, TypeOK
<1>4. LinksOwn(docs)'
  BY <1>1, <1>2, <1>3 DEF LinksOwn, Present
<1>5. HandKeys(docs)'
  BY <1>1, <1>2, <1>3 DEF HandKeys, Present
<1>6. SameKey(docs)'
  <2>1. SUFFICES ASSUME NEW a \in Present(docs'), NEW b \in Present(docs'),
                        a # b, docs'[b].pid = None,
                        docs'[a].key = docs'[b].key
                 PROVE  made[a] = made[b]
    BY DEF SameKey, Present
  <2>2. /\ b # m /\ b \in Present(docs) /\ docs'[b] = docs[b] /\ docs[b] # None
        /\ b \in Name
    BY <1>1, <1>2, <1>3, <2>1
  <2>3. CASE a = m
    BY <1>1, <1>2, <2>1, <2>2, <2>3
  <2>4. CASE a # m
    <3>1. a \in Present(docs) /\ docs'[a] = docs[a]
      BY <1>3, <2>1, <2>4
    <3>2. QED
      BY <2>1, <2>2, <3>1 DEF SameKey
  <2>5. QED
    BY <2>3, <2>4
<1>7. DistinctLinks(docs)'
  <2>1. SUFFICES ASSUME NEW a \in Present(docs'), NEW b \in Present(docs'),
                        docs'[a].pid = docs'[b].pid, a # b, docs'[a].pid # None
                 PROVE  Twin(a) \/ Twin(b)
    <3>1. \A x \in Name : Twin(x)' = Twin(x)
      BY DEF Twin
    <3>2. QED
      BY <1>2, <2>1, <3>1 DEF DistinctLinks, Present
  <2>2. CASE a = m
    <3>1. b \in Name /\ b # m /\ docs[b] # None /\ docs[b].pid = i
      BY <1>1, <1>2, <1>3, <2>1, <2>2
    <3>2. QED
      BY <2>2, <3>1, Zenon
  <2>3. CASE b = m
    <3>1. a \in Name /\ a # m /\ docs[a] # None /\ docs[a].pid = i
      BY <1>1, <1>2, <1>3, <2>1, <2>3
    <3>2. QED
      BY <2>3, <3>1, Zenon
  <2>4. CASE a # m /\ b # m
    BY <1>3, <2>1, <2>4 DEF DistinctLinks
  <2>5. QED
    BY <2>2, <2>3, <2>4
<1>8. TakesOver(docs)'
  BY <1>1, <1>2, <1>3 DEF TakesOver, Present
<1>9. NotLinkedYet'
  <2>1. SUFFICES ASSUME NEW j \in Present(source), NEW a \in Present(docs'),
                        NEW b \in Present(docs'),
                        docs'[b].pid = None, docs'[b].key = source[j].key,
                        docs'[a].pid = j
                 PROVE  made[a] = made[b]
    BY DEF NotLinkedYet, Present
  <2>2. /\ b # m /\ b \in Present(docs) /\ docs'[b] = docs[b] /\ docs[b] # None
        /\ b \in Name
    BY <1>1, <1>2, <1>3, <2>1
  <2>3. CASE a = m
    BY <1>1, <1>2, <2>1, <2>2, <2>3
  <2>4. CASE a # m
    BY <1>3, <2>1, <2>2, <2>4 DEF NotLinkedYet, Present
  <2>5. QED
    BY <2>3, <2>4
<1>10. QED
  BY <1>4, <1>5, <1>6, <1>7, <1>8, <1>9

\* ... and the remaining matches of the batch.
LEMMA KeepMatches ==
  ASSUME TypeInv, LinkInv, config.identity,
         NEW i \in Id, Keyed({i}) # {}, NEW n \in Name \cup {None},
         <<i, n>> \in work, work' = work \ {<<i, n>>},
         NEW m \in Name, m = n \/ (n = None /\ docs[m] = None),
         docs' = [docs EXCEPT ![m] = Image(i)],
         UNCHANGED <<made, owner, source>>
  PROVE  CreatesNew' /\ UpdatesMatch'
<1> USE DEF LinkInv
<1>1. /\ Image(i) # None /\ Image(i).pid = i /\ Image(i).key = source[i].key
      /\ owner[source[i].key] = i /\ i # None /\ i \in Present(source)
  BY ImageType DEF Image, TypeInv, OwnKeys, Keyed
<1>2. /\ docs'[m] = Image(i)
      /\ \A x \in Name : x # m => docs'[x] = docs[x]
      /\ Present(docs') \subseteq Name
  BY DEF TypeInv, TypeOK, Present
<1>3. \A x \in Present(docs') : x = m \/ (x \in Present(docs) /\ docs'[x] = docs[x])
  BY <1>2 DEF Present, TypeInv, TypeOK
<1>4. ASSUME NEW j \in Present(source), j # i, source[j].key # NoKey
      PROVE  source[j].key # source[i].key
  BY <1>1, <1>4 DEF OwnKeys
<1>5. <<i, None>> \notin work'
  <2>1. SUFFICES ASSUME <<i, None>> \in work PROVE <<i, None>> = <<i, n>>
    OBVIOUS
  <2>2. QED
    BY <2>1 DEF NewOrMatched
<1>6. CreatesNew'
  <2>1. SUFFICES ASSUME NEW j \in Present(source), NEW x \in Present(docs'),
                        <<j, None>> \in work', source[j].key # NoKey
                 PROVE  /\ docs'[x].key # source[j].key
                        /\ docs'[x].pid = j => Twin(x)
    <3>1. \A x \in Name : Twin(x)' = Twin(x)
      BY DEF Twin
    <3>2. QED
      BY <1>2, <2>1, <3>1 DEF CreatesNew, Present
  <2>2. j # i
    BY <1>5, <2>1
  <2>3. CASE x = m
    BY <1>1, <1>2, <1>4, <2>1, <2>2, <2>3
  <2>4. CASE x # m
    BY <1>3, <2>1, <2>4 DEF CreatesNew, Present
  <2>5. QED
    BY <2>3, <2>4
<1>7. UpdatesMatch'
  <2>1. SUFFICES ASSUME NEW j \in Present(source), NEW x \in Name,
                        <<j, x>> \in work'
                 PROVE  /\ source[j].key # NoKey /\ docs'[x] # None
                        /\ \/ docs'[x].pid = j
                           \/ docs'[x].pid = None /\ docs'[x].key = source[j].key
    BY DEF UpdatesMatch
  <2>2. /\ source[j].key # NoKey /\ docs[x] # None
        /\ \/ docs[x].pid = j
           \/ docs[x].pid = None /\ docs[x].key = source[j].key
    BY <2>1 DEF UpdatesMatch
  <2>3. x # m
    <3>1. SUFFICES ASSUME x = m PROVE FALSE
      OBVIOUS
    <3>2. m = n /\ j # i
      BY <2>1, <2>2, <3>1
    <3>3. docs[m].pid = i \/ (docs[m].pid = None /\ docs[m].key = source[i].key)
      BY <1>1, <3>2 DEF UpdatesMatch
    <3>4. source[j].key # source[i].key /\ j # None
      BY <1>4, <2>2, <3>2 DEF Present, TypeInv, TypeOK
    <3>5. QED
      BY <1>1, <2>2, <3>1, <3>2, <3>3, <3>4
  <2>4. QED
    BY <1>2, <2>2, <2>3
<1>8. QED
  BY <1>6, <1>7

LEMMA NextLinkInv ==
  ASSUME ~ReuseKeys, TypeInv, LinkInv, config.identity, [Next]_vars
  PROVE  LinkInv'
<1> USE DEF LinkInv, Stored
<1>0. Present(partner) \subseteq Id /\ Present(source) \subseteq Id
        /\ Present(docs) \subseteq Name /\ Present(saved) \subseteq Name
  BY DEF Present, TypeInv, TypeOK
<1>1. ASSUME NEW i \in Id, Change(i) PROVE LinkInv'
  <2>1. PICK r \in Record \cup {None} :
          /\ partner' = [partner EXCEPT ![i] = r]
          /\ IF r = None \/ r.key = NoKey THEN owner' = owner
             ELSE /\ OwnKey(i, r.key)
                  /\ owner' = [owner EXCEPT ![r.key] = IF @ = None THEN i ELSE @]
    BY <1>1 DEF Change
  <2>2. UNCHANGED <<config, made, docs, saved, source, work>>
    BY <1>1 DEF Change, siteVars, runVars, batchVars
  <2>3. /\ \A q \in Key : owner[q] # None => owner'[q] = owner[q]
        /\ \A q \in Key : owner'[q] # owner[q] =>
             /\ r # None /\ q = r.key /\ owner[q] = None /\ owner'[q] = i
    BY <2>1 DEF TypeInv, TypeOK, Record
  <2>4. r # None /\ r.key # NoKey =>
          /\ OwnKey(i, r.key) /\ r.key \in Key
          /\ owner'[r.key] = i
    BY <2>1 DEF OwnKey, Record, TypeInv, TypeOK
  <2>5. /\ \A j \in Id : j # i => partner'[j] = partner[j]
        /\ partner'[i] = r /\ Present(partner') \subseteq Id
    BY <2>1 DEF TypeInv, TypeOK, Present
  <2>6. OwnKeys(partner)'
    <3>1. SUFFICES ASSUME NEW j \in Id, partner'[j] # None,
                          partner'[j].key # NoKey
                   PROVE  owner'[partner'[j].key] = j
      BY <2>5 DEF OwnKeys, Present
    <3>2. CASE j = i
      BY <2>4, <2>5, <3>1, <3>2
    <3>3. CASE j # i
      BY <2>3, <2>5, <3>1, <3>3 DEF OwnKeys, Present, TypeInv, TypeOK, Record
    <3>4. QED
      BY <3>2, <3>3
  <2>7. OwnKeys(source)'
    BY <1>0, <2>2, <2>3 DEF OwnKeys, Present, TypeInv, TypeOK, Record
  <2>8. LinksOwn(docs)' /\ LinksOwn(saved)'
    BY <1>0, <2>2, <2>3 DEF LinksOwn, Present, TypeInv, TypeOK, Doc
  <2>9. ASSUME NEW j \in Id, partner'[j] # None, NEW d \in Doc,
               d.pid = None, d.key = partner'[j].key,
               partner[j] # None /\ d.key = partner[j].key
                 => \A q \in Key : owner[q] = j => q = d.key,
               \E n \in Name : d \in {docs[n], saved[n]} \ {None},
               NEW q \in Key, owner'[q] = j
        PROVE  q = d.key
    <3>1. d.key \in Key
      BY DEF Doc
    <3>2. CASE j # i
      BY <2>3, <2>5, <2>9, <3>2
    <3>3. CASE j = i /\ partner[i] # None /\ partner[i].key = r.key
      BY <2>3, <2>5, <2>9, <3>3
    <3>4. CASE j = i /\ (partner[i] = None \/ partner[i].key # r.key)
      <4>1. r # None /\ r.key # NoKey /\ d.key = r.key /\ d.pid # i
        BY <2>5, <2>9, <3>1, <3>4
      <4>2. \A y \in Key : owner[y] # i
        BY <2>4, <2>9, <3>4, <4>1 DEF OwnKey
      <4>3. QED
        BY <2>3, <2>9, <3>4, <4>1, <4>2
    <3>5. QED
      BY <3>2, <3>3, <3>4
  <2>10. TakesOver(docs)'
    <3>1. SUFFICES ASSUME NEW j \in Id, partner'[j] # None,
                          NEW n \in Name, docs[n] # None, docs[n].pid = None,
                          docs[n].key = partner'[j].key,
                          NEW q \in Key, owner'[q] = j
                   PROVE  q = docs[n].key
      BY <1>0, <2>2, <2>5 DEF TakesOver, Present
    <3>2. docs[n] \in Doc
      BY <3>1 DEF TypeInv, TypeOK
    <3>3. partner[j] # None /\ docs[n].key = partner[j].key
            => \A y \in Key : owner[y] = j => y = docs[n].key
      BY <3>1 DEF TakesOver, Present, TypeInv, TypeOK
    <3>4. QED
      BY <2>9, <3>1, <3>2, <3>3
  <2>11. TakesOver(saved)'
    <3>1. SUFFICES ASSUME NEW j \in Id, partner'[j] # None,
                          NEW n \in Name, saved[n] # None, saved[n].pid = None,
                          saved[n].key = partner'[j].key,
                          NEW q \in Key, owner'[q] = j
                   PROVE  q = saved[n].key
      BY <1>0, <2>2, <2>5 DEF TakesOver, Present
    <3>2. saved[n] \in Doc
      BY <3>1 DEF TypeInv, TypeOK
    <3>3. partner[j] # None /\ saved[n].key = partner[j].key
            => \A y \in Key : owner[y] = j => y = saved[n].key
      BY <3>1 DEF TakesOver, Present, TypeInv, TypeOK
    <3>4. QED
      BY <2>9, <3>1, <3>2, <3>3
  <2>12. /\ HandKeys(docs)' /\ HandKeys(saved)'
         /\ SameKey(docs)' /\ SameKey(saved)'
         /\ DistinctLinks(docs)' /\ DistinctLinks(saved)'
    BY <2>2 DEF HandKeys, SameKey, DistinctLinks, Twin
  <2>13. NotLinkedYet' /\ NewOrMatched' /\ CreatesNew' /\ UpdatesMatch'
    BY <2>2 DEF NotLinkedYet, NewOrMatched, CreatesNew, UpdatesMatch, Twin
  <2>14. QED
    BY <2>6, <2>7, <2>8, <2>10, <2>11, <2>12, <2>13
<1>2. ASSUME Start PROVE LinkInv'
  <2>1. /\ UNCHANGED <<made, partner, owner, docs, saved>>
        /\ source' = partner /\ work' = {}
    BY <1>2 DEF Start, partnerVars, siteVars, batchVars, TypeInv, NoLeftovers
  <2>2. OwnKeys(partner)' /\ OwnKeys(source)'
    BY <2>1 DEF OwnKeys, Present
  <2>3. Stored(docs)' /\ Stored(saved)'
    BY <2>1 DEF LinksOwn, HandKeys, SameKey, DistinctLinks, TakesOver, Twin
  <2>4. NotLinkedYet'
    <3>1. SUFFICES ASSUME NEW i \in Id, partner[i] # None,
                          NEW m \in Present(docs), NEW n \in Present(docs),
                          docs[n].pid = None, docs[n].key = partner[i].key,
                          docs[m].pid = i
                   PROVE  made[m] = made[n]
      BY <1>0, <2>1 DEF NotLinkedYet, Present
    <3>2. i # None /\ docs[m].key \in Key /\ i \in Present(partner)
      BY <1>0, <3>1 DEF TypeInv, TypeOK, Doc, Present
    <3>3. owner[docs[m].key] = i
      BY <3>1, <3>2 DEF LinksOwn
    <3>4. docs[m].key = docs[n].key
      BY <3>1, <3>2, <3>3 DEF TakesOver
    <3>5. QED
      BY <3>1, <3>2, <3>4 DEF SameKey
  <2>5. NewOrMatched' /\ CreatesNew' /\ UpdatesMatch'
    BY <2>1 DEF NewOrMatched, CreatesNew, UpdatesMatch
  <2>6. QED
    BY <2>2, <2>3, <2>4, <2>5
<1>3. ASSUME Batch PROVE LinkInv'
  <2>1. UNCHANGED <<made, partner, owner, source, docs, saved>>
    BY <1>3, BatchEffect
  <2>2. OwnKeys(partner)' /\ OwnKeys(source)' /\ Stored(docs)' /\ Stored(saved)'
          /\ NotLinkedYet'
    BY <2>1 DEF OwnKeys, LinksOwn, HandKeys, SameKey, DistinctLinks, TakesOver, Twin,
       NotLinkedYet
  <2>3. NewOrMatched' /\ CreatesNew'
    BY <1>3, BatchMatches
  <2>4. UpdatesMatch'
    <3>1. SUFFICES ASSUME NEW i \in Present(source), NEW n \in Name,
                          <<i, n>> \in work'
                   PROVE  /\ source[i].key # NoKey /\ docs[n] # None
                          /\ \/ docs[n].pid = i
                             \/ docs[n].pid = None /\ docs[n].key = source[i].key
      BY <2>1 DEF UpdatesMatch
    <3>2. /\ source[i].key # NoKey /\ docs[n] # None
          /\ docs[n].key = source[i].key \/ docs[n].pid = i
      BY <1>0, <1>3, <3>1, BatchEffect
    <3>3. CASE docs[n].key = source[i].key /\ docs[n].pid # None
      BY <3>1, <3>2, <3>3 DEF LinksOwn, OwnKeys, Present, TypeInv, TypeOK
    <3>4. QED
      BY <3>2, <3>3
  <2>5. QED
    BY <2>2, <2>3, <2>4
<1>4. ASSUME EndBatch PROVE LinkInv'
  <2>1. UNCHANGED <<made, partner, owner, source, docs, work>> /\ saved' = docs
    BY <1>4 DEF EndBatch, partnerVars
  <2>2. QED
    BY <2>1 DEF OwnKeys, LinksOwn, HandKeys, SameKey, DistinctLinks, TakesOver, Twin,
       NotLinkedYet, NewOrMatched, CreatesNew, UpdatesMatch
<1>5. ASSUME Leave, UNCHANGED <<made, partner, owner, saved>>, docs' \in {docs, saved}
      PROVE  LinkInv'
  <2>1. source' = Nothing(Id) /\ work' = {} /\ Present(source') = {}
    BY <1>5 DEF Leave, Nothing, Present
  <2>2. OwnKeys(partner)' /\ OwnKeys(source)'
    BY <1>5, <2>1 DEF OwnKeys
  <2>3. Stored(docs)' /\ Stored(saved)'
    BY <1>5 DEF LinksOwn, HandKeys, SameKey, DistinctLinks, TakesOver, Twin
  <2>4. NotLinkedYet' /\ NewOrMatched' /\ CreatesNew' /\ UpdatesMatch'
    BY <2>1 DEF NotLinkedYet, NewOrMatched, CreatesNew, UpdatesMatch, Twin
  <2>5. QED
    BY <2>2, <2>3, <2>4
<1>6. ASSUME NEW i \in Id, NEW n \in Name \cup {None}, Write(i, n) PROVE LinkInv'
  <2>1. /\ <<i, n>> \in work /\ work' = work \ {<<i, n>>}
        /\ UNCHANGED <<made, partner, owner, source>> /\ saved' \in {saved, docs'}
    BY <1>6, WriteEffect
  <2>2. OwnKeys(partner)' /\ OwnKeys(source)' /\ NewOrMatched'
    BY <2>1 DEF OwnKeys, NewOrMatched
  <2>3. Stored(docs)' /\ NotLinkedYet' /\ CreatesNew' /\ UpdatesMatch'
    <3>1. CASE docs' = docs
      BY <2>1, <3>1 DEF LinksOwn, HandKeys, SameKey, DistinctLinks, TakesOver, Twin,
         NotLinkedYet, CreatesNew, UpdatesMatch
    <3>2. ASSUME Keyed({i}) # {},
                 NEW m \in Name, m = n \/ (n = None /\ docs[m] = None),
                 docs' = [docs EXCEPT ![m] = Image(i)]
          PROVE  Stored(docs)' /\ NotLinkedYet' /\ CreatesNew' /\ UpdatesMatch'
      <4>1. i \in Present(source) /\ source[i].key # NoKey
        BY <3>2, ImageType DEF Keyed, TypeInv
      <4>2. \A x \in Name : x # m /\ docs[x] # None
              => /\ docs[x].pid = None /\ docs[x].key = source[i].key
                      => made[x] = made[m]
                 /\ docs[x].pid = i => Twin(x) \/ Twin(m)
        BY <2>1, <3>2, <4>1, SoleDocument
      <4>3. Stored(docs)' /\ NotLinkedYet'
        BY <2>1, <3>2, <4>2, StoreImage
      <4>4. CreatesNew' /\ UpdatesMatch'
        BY <2>1, <3>2, KeepMatches
      <4>5. QED
        BY <4>3, <4>4
    <3>3. QED
      BY <1>6, <3>1, <3>2, WriteEffect
  <2>4. Stored(saved)'
    BY <2>1, <2>3 DEF LinksOwn, HandKeys, SameKey, DistinctLinks, TakesOver, Twin
  <2>5. QED
    BY <2>2, <2>3, <2>4
<1>7. ASSUME NEW n \in Name, Delete(n) PROVE LinkInv'
  <2>1. /\ work = {} /\ UNCHANGED <<made, partner, owner, source, work>>
        /\ saved' \in {saved, docs'}
        /\ docs' \in {docs, [docs EXCEPT ![n] = None]}
    BY <1>7, DeleteEffect
  <2>2. /\ Present(docs') \subseteq Present(docs)
        /\ \A x \in Present(docs') : docs'[x] = docs[x]
    BY <2>1 DEF Present, TypeInv, TypeOK
  <2>3. OwnKeys(partner)' /\ OwnKeys(source)' /\ NewOrMatched' /\ CreatesNew'
          /\ UpdatesMatch'
    BY <2>1 DEF OwnKeys, NewOrMatched, CreatesNew, UpdatesMatch
  <2>4. Stored(docs)'
    BY <2>1, <2>2 DEF LinksOwn, HandKeys, SameKey, DistinctLinks, TakesOver, Twin, Present
  <2>5. NotLinkedYet'
    BY <2>1, <2>2 DEF NotLinkedYet, Present
  <2>6. Stored(saved)'
    BY <2>1, <2>4 DEF LinksOwn, HandKeys, SameKey, DistinctLinks, TakesOver, Twin
  <2>7. QED
    BY <2>3, <2>4, <2>5, <2>6
<1>8. ASSUME UNCHANGED vars PROVE LinkInv'
  <2>1. UNCHANGED <<made, partner, owner, source, docs, saved, work>>
    BY <1>8 DEF vars, partnerVars, siteVars, runVars, batchVars
  <2>2. QED
    BY <2>1 DEF OwnKeys, LinksOwn, HandKeys, SameKey, DistinctLinks, TakesOver, Twin,
       NotLinkedYet, NewOrMatched, CreatesNew, UpdatesMatch
<1>9. QED
  <2>1. ASSUME Finish \/ Crash PROVE LinkInv'
    BY <1>5, <2>1 DEF Finish, Crash, partnerVars, siteVars
  <2>2. QED
    BY <1>1, <1>2, <1>3, <1>4, <1>6, <1>7, <1>8, <2>1 DEF Next

LEMMA InitIdentityInv == Init => IdentityInv
<1> SUFFICES ASSUME Init PROVE IdentityInv
  OBVIOUS
<1>1. /\ Present(partner) = {} /\ Present(source) = {} /\ work = {} /\ saved = docs
      /\ \A n \in Present(docs) : docs[n].pid = None /\ made[n] = docs[n].key
  BY DEF Init, Nothing, Present
<1>2. HandKeys(docs) /\ SameKey(docs)
  BY <1>1 DEF HandKeys, SameKey
<1>3. Stored(docs) /\ Stored(saved)
  BY <1>1, <1>2 DEF Stored, LinksOwn, DistinctLinks, TakesOver
<1>4. QED
  BY <1>1, <1>3 DEF IdentityInv, LinkInv, OwnKeys, NotLinkedYet, NewOrMatched,
     CreatesNew, UpdatesMatch, Unlinked

LEMMA NextUnlinked ==
  ASSUME TypeInv, ~config.identity, Unlinked(docs), Unlinked(saved), [Next]_vars
  PROVE  Unlinked(docs)' /\ Unlinked(saved)'
<1>1. ASSUME NEW i \in Id, NEW n \in Name \cup {None}, Write(i, n)
      PROVE  Unlinked(docs)' /\ Unlinked(saved)'
  BY <1>1, UnlinkedWrite
<1>2. ASSUME NEW n \in Name, Delete(n) PROVE Unlinked(docs)' /\ Unlinked(saved)'
  BY <1>2, DeleteEffect DEF Unlinked, Present, TypeInv, TypeOK
<1>3. ASSUME docs' \in {docs, saved}, saved' \in {docs, saved}
      PROVE  Unlinked(docs)' /\ Unlinked(saved)'
  BY <1>3 DEF Unlinked
<1>4. QED
  BY <1>1, <1>2, <1>3, BatchEffect DEF Next, Change, Start, EndBatch, Finish,
     Crash, vars, siteVars

LEMMA NextIdentityInv ==
  ASSUME ~ReuseKeys, TypeInv, IdentityInv, [Next]_vars
  PROVE  IdentityInv'
<1>1. config' = config
  BY ConfigStays
<1>2. QED
  BY <1>1, NextLinkInv, NextUnlinked DEF IdentityInv

\* If no record gets the key of another one, a run of any definition leaves every
\* record with one linked document at most, twins apart: through renames, adopted
\* documents, rejected writes, killed workers and lookups older than the writes
\* before them.  Of the documents users made, any number may have the same key:
\* what all_matches links to one record and first_match hides are twins.
THEOREM OneDocumentPerRecord ==
  ASSUME ~ReuseKeys
  PROVE  Spec => []UniqueIdentity
<1>1. Init => TypeInv /\ IdentityInv
  BY InitTypeInv, InitIdentityInv
<1>2. TypeInv /\ IdentityInv /\ [Next]_vars => (TypeInv /\ IdentityInv)'
  BY NextTypeInv, NextIdentityInv
<1>3. TypeInv /\ IdentityInv => UniqueIdentity
  BY DEF IdentityInv, LinkInv, Stored, DistinctLinks, Unlinked, UniqueIdentity
<1>4. QED
  BY <1>1, <1>2, <1>3, PTL DEF Spec

\* The identity a step leaves on a linked document.
LEMMA KeepLink ==
  ASSUME TypeInv, IdentityInv, [Next]_vars, NEW n \in Present(docs),
         phase' # "idle", docs[n].pid # None, docs'[n] # None
  PROVE  docs'[n].pid = docs[n].pid
<1>1. n \in Name /\ docs[n] # None /\ LinkInv /\ config.identity
  BY DEF Present, TypeInv, TypeOK, IdentityInv, Unlinked
<1>2. ASSUME NEW i \in Id, NEW x \in Name \cup {None}, Write(i, x)
      PROVE  docs'[n].pid = docs[n].pid
  <2>1. <<i, x>> \in work
    BY <1>2, WriteEffect
  <2>2. ASSUME Keyed({i}) # {},
               NEW m \in Name, m = x \/ (x = None /\ docs[m] = None),
               docs' = [docs EXCEPT ![m] = Image(i)]
        PROVE  docs'[n].pid = docs[n].pid
    <3>1. i \in Present(source) /\ Image(i).pid = i
      BY <1>1, <2>2, ImageType DEF Image, TypeInv
    <3>2. CASE n = m
      <4>1. docs[n].pid = i
        BY <1>1, <2>1, <2>2, <3>1, <3>2 DEF LinkInv, UpdatesMatch
      <4>2. QED
        BY <1>1, <2>2, <3>1, <3>2, <4>1 DEF TypeInv, TypeOK
    <3>3. CASE n # m
      BY <1>1, <2>2, <3>3 DEF TypeInv, TypeOK
    <3>4. QED
      BY <3>2, <3>3
  <2>3. QED
    BY <1>2, <2>2, WriteEffect
<1>3. ASSUME NEW m \in Name, Delete(m) PROVE docs'[n].pid = docs[n].pid
  BY <1>1, <1>3, DeleteEffect DEF TypeInv, TypeOK
<1>4. QED
  BY <1>2, <1>3, BatchEffect DEF Next, Change, Start, EndBatch, Finish, Crash,
     Leave, vars, siteVars

\* Under the same assumption no run hands the document of one record to another,
\* and only a lost transaction takes a link back.
THEOREM LinksAreStable ==
  ASSUME ~ReuseKeys
  PROVE  Spec => LinkStable
<1>1. Init => TypeInv /\ IdentityInv
  BY InitTypeInv, InitIdentityInv
<1>2. TypeInv /\ IdentityInv /\ [Next]_vars => (TypeInv /\ IdentityInv)'
  BY NextTypeInv, NextIdentityInv
<1>3. TypeInv /\ IdentityInv /\ [Next]_vars =>
        [\A n \in Present(docs) :
           phase' # "idle" /\ docs[n].pid # None /\ docs'[n] # None
             => docs'[n].pid = docs[n].pid]_vars
  BY KeepLink
<1>4. QED
  BY <1>1, <1>2, <1>3, PTL DEF Spec, LinkStable


-----------------------------------------------------------------------------
(* What a run leaves at its end *)

\* What the writes rely on: a match is the record's own document or has its key,
\* a document to delete has the key of no record, and no key has two records.
OwnInv == KeyInv /\ IdentityInv /\ OwnKeys(partner) /\ OwnKeys(source)

\* A document that waits for its update is as it was loaded.
AsLoaded ==
  \A i \in Id, n \in Name : <<i, n>> \in work => docs[n] = seen[n]

\* A record that is loaded waits for its batch, waits to be written, or has its
\* image.
Imaged ==
  \A i \in Keyed(Id) : \/ i \in rest
                       \/ \E n \in Name \cup {None} : <<i, n>> \in work
                       \/ \E n \in Name : docs[n] = Image(i)

\* A document without a record waits to be deleted.
NoneLeft == \A n \in Present(docs) : n \in doomed \/ docs[n].key \in SourceKeys

MirrorInv ==
  phase # "idle" =>
    /\ AsLoaded
    /\ ~failed /\ config.create /\ config.update => Imaged
    /\ ~failed /\ config.delete /\ phase # "read" => NoneLeft
    /\ phase = "end" => rest = {}

LEMMA NextOwnInv ==
  ASSUME ~ReuseKeys, TypeInv, TypeInv', OwnInv, [Next]_vars
  PROVE  OwnInv'
<1>1. KeyInv' /\ IdentityInv'
  BY NextKeyInv, NextIdentityInv DEF OwnInv
<1>2. Present(partner) \subseteq Id /\ Present(source) \subseteq Id
  BY DEF Present, TypeInv, TypeOK
<1>3. ASSUME NEW i \in Id, Change(i) PROVE OwnKeys(partner)' /\ OwnKeys(source)'
  <2>1. PICK r \in Record \cup {None} :
          /\ partner' = [partner EXCEPT ![i] = r]
          /\ IF r = None \/ r.key = NoKey THEN owner' = owner
             ELSE /\ OwnKey(i, r.key)
                  /\ owner' = [owner EXCEPT ![r.key] = IF @ = None THEN i ELSE @]
    BY <1>3 DEF Change
  <2>2. source' = source
    BY <1>3 DEF Change, runVars
  <2>3. \A q \in Key : owner[q] # None => owner'[q] = owner[q]
    BY <2>1 DEF TypeInv, TypeOK, Record
  <2>4. r # None /\ r.key # NoKey => owner'[r.key] = i
    BY <2>1 DEF OwnKey, Record, TypeInv, TypeOK
  <2>5. /\ \A j \in Id : j # i => partner'[j] = partner[j]
        /\ partner'[i] = r /\ Present(partner') \subseteq Id
    BY <2>1 DEF TypeInv, TypeOK, Present
  <2>6. ASSUME NEW j \in Id, partner'[j] # None, partner'[j].key # NoKey
        PROVE  owner'[partner'[j].key] = j
    <3>1. CASE j = i
      BY <2>4, <2>5, <2>6, <3>1
    <3>2. CASE j # i
      BY <2>3, <2>5, <2>6, <3>2 DEF OwnInv, OwnKeys, Present, TypeInv, TypeOK,
         Record
    <3>3. QED
      BY <3>1, <3>2
  <2>7. OwnKeys(source)'
    BY <1>2, <2>2, <2>3 DEF OwnInv, OwnKeys, Present, TypeInv, TypeOK, Record
  <2>8. QED
    BY <2>5, <2>6, <2>7 DEF OwnKeys, Present
<1>4. ASSUME owner' = owner, partner' = partner,
             source' \in {source, partner, Nothing(Id)}
      PROVE  OwnKeys(partner)' /\ OwnKeys(source)'
  <2>1. Present(Nothing(Id)) = {}
    BY DEF Nothing, Present
  <2>2. QED
    BY <1>4, <2>1 DEF OwnInv, OwnKeys
<1>5. QED
  <2>1. ASSUME NEW i \in Id, NEW n \in Name \cup {None}, Write(i, n)
        PROVE  OwnKeys(partner)' /\ OwnKeys(source)'
    BY <1>4, <2>1, WriteEffect
  <2>2. ASSUME NEW n \in Name, Delete(n)
        PROVE  OwnKeys(partner)' /\ OwnKeys(source)'
    BY <1>4, <2>2, DeleteEffect
  <2>3. QED
    BY <1>1, <1>3, <1>4, <2>1, <2>2, BatchEffect DEF OwnInv, Next, Start, EndBatch,
       Finish, Crash, Leave, vars, partnerVars, runVars

\* Two records do not share a key, and a match is the document of the record or
\* has its key.
LEMMA OneOwnerOfKey ==
  ASSUME TypeInv, OwnInv
  PROVE  /\ \A i, j \in Keyed(Id) : source[i].key = source[j].key => i = j
         /\ UpdatesMatch
<1>1. \A i, j \in Keyed(Id) : source[i].key = source[j].key => i = j
  BY DEF OwnInv, OwnKeys, Keyed, Present, TypeInv, TypeOK
<1>2. CASE config.identity
  BY <1>1, <1>2 DEF OwnInv, IdentityInv, LinkInv
<1>3. CASE ~config.identity
  BY <1>1, <1>3 DEF OwnInv, KeyInv, UpdatesKeepKey, UpdatesMatch, Unlinked, Present,
     TypeInv, TypeOK
<1>4. QED
  BY <1>2, <1>3

\* Every keyed record of a batch gets an entry: the index by key drops none,
\* since records do not share keys.
LEMMA BatchCovers ==
  ASSUME TypeInv, OwnInv, Batch
  PROVE  /\ \A i \in Keyed(Id) :
              i \in rest /\ i \notin rest'
                => \E n \in Name \cup {None} : <<i, n>> \in work'
         /\ AsLoaded'
         /\ config.delete => rest' = {}
<1>1. PICK B \in SUBSET rest :
        /\ config.delete => B = rest
        /\ rest' = rest \ B
        /\ seen' = [n \in Name |-> IF n \in Candidates(B) THEN docs[n] ELSE None]
        /\ \E S \in Inputs(B), L \in Lookups(Candidates(B)) :
             \E M \in [S -> SUBSET L] :
               /\ \A i \in S : M[i] \in IF Keyed({i}) = {} THEN {{}}
                                      ELSE Matches(L, i)
               /\ work' = Plan(S, M)
  BY DEF Batch
<1>2. PICK S \in Inputs(B), L \in Lookups(Candidates(B)) :
        \E M \in [S -> SUBSET L] : work' = Plan(S, M)
  BY <1>1
<1>3. PICK M \in [S -> SUBSET L] : work' = Plan(S, M)
  BY <1>2
<1>4. L \subseteq Candidates(B) /\ L \subseteq Name /\ B \subseteq Id
  BY <1>2 DEF Lookups, Candidates, Present, TypeInv, TypeOK
<1>5. ASSUME NEW i \in Keyed(Id), i \in B PROVE i \in S
  <2>1. CASE config.all
    BY <1>2, <1>5, <2>1 DEF Inputs
  <2>2. CASE ~config.all
    <3>1. S \subseteq Keyed(B) /\ i \in Keyed(B)
            /\ Cardinality({j \in S : source[j].key = source[i].key}) = 1
      BY <1>2, <1>5, <2>2 DEF Inputs, Keyed
    <3>2. {j \in S : source[j].key = source[i].key} # {}
      <4>1. SUFFICES ASSUME {j \in S : source[j].key = source[i].key} = {}
                     PROVE  FALSE
        OBVIOUS
      <4>2. Cardinality({}) = 1
        BY <3>1, <4>1, Zenon
      <4>3. QED
        BY <4>2, FS_EmptySet
    <3>3. PICK j \in S : source[j].key = source[i].key
      BY <3>2
    <3>4. j \in Keyed(Id)
      BY <1>4, <3>1 DEF Keyed
    <3>5. QED
      BY <3>3, <3>4, OneOwnerOfKey
  <2>3. QED
    BY <2>1, <2>2
<1>6. ASSUME NEW i \in Keyed(Id), i \in B
      PROVE  \E n \in Name \cup {None} : <<i, n>> \in work'
  <2>1. i \in S /\ M[i] \subseteq Name
    BY <1>3, <1>4, <1>5, <1>6
  <2>2. CASE M[i] = {}
    BY <1>3, <2>1, <2>2 DEF Plan
  <2>3. CASE M[i] # {}
    <3>1. PICK n \in M[i] : TRUE
      BY <2>3
    <3>2. <<i, n>> \in work'
      BY <1>3, <2>1, <2>3, <3>1 DEF Plan
    <3>3. QED
      BY <2>1, <3>1, <3>2
  <2>4. QED
    BY <2>2, <2>3
<1>7. AsLoaded'
  <2>1. SUFFICES ASSUME NEW i \in Id, NEW n \in Name, <<i, n>> \in work'
                 PROVE  docs'[n] = seen'[n]
    BY DEF AsLoaded
  <2>2. i \in S /\ n \in M[i]
    BY <1>3, <2>1 DEF Plan
  <2>3. n \in Candidates(B)
    BY <1>3, <1>4, <2>2
  <2>4. docs' = docs
    BY BatchEffect
  <2>5. QED
    BY <1>1, <2>3, <2>4
<1>8. QED
  BY <1>1, <1>6, <1>7

\* Writing one match disturbs neither the documents that wait nor the images that
\* are written.
LEMMA WriteMirrors ==
  ASSUME TypeInv, OwnInv, MirrorInv, NEW i \in Id, NEW n \in Name \cup {None},
         Write(i, n)
  PROVE  /\ AsLoaded'
         /\ ~failed' /\ config.create /\ config.update => Imaged'
         /\ ~failed' /\ config.delete => NoneLeft'
<1>1. /\ phase = "write" /\ <<i, n>> \in work /\ work' = work \ {<<i, n>>}
      /\ UNCHANGED <<config, rest, source, seen, doomed>>
  BY DEF Write
<1>2. AsLoaded /\ (~failed' => ~failed)
        /\ \A j \in Id : Image(j)' = Image(j)
  BY <1>1 DEF MirrorInv, Write, Error, Create, Update, Rejected, Image
<1>3. Keyed(Id)' = Keyed(Id) /\ SourceKeys' = SourceKeys
  BY <1>1 DEF Keyed, SourceKeys
<1>4. ASSUME NEW m \in Name, docs'[m] # docs[m]
      PROVE  /\ i \in Keyed(Id) /\ docs'[m] = Image(i) /\ Image(i) \in Doc
             /\ docs[m] = None \/ (m = n /\ UpdatesMatch)
  <2>1. Keyed({i}) # {}
    BY <1>4, WriteEffect
  <2>2. PICK x \in Name : /\ x = n \/ (n = None /\ docs[x] = None)
                          /\ docs' = [docs EXCEPT ![x] = Image(i)]
    BY <1>4, WriteEffect
  <2>3. m = x /\ docs'[m] = Image(i)
    BY <1>4, <2>2 DEF TypeInv, TypeOK
  <2>4. Image(i) \in Doc /\ i \in Keyed(Id)
    BY <2>1, ImageType DEF TypeInv, Keyed
  <2>5. QED
    BY <2>2, <2>3, <2>4, OneOwnerOfKey
<1>5. AsLoaded'
  <2>1. SUFFICES ASSUME NEW j \in Id, NEW m \in Name, <<j, m>> \in work',
                        docs'[m] # docs[m]
                 PROVE  FALSE
    BY <1>1, <1>2 DEF AsLoaded
  <2>2. j \in Present(source) /\ i \in Present(source)
    BY <1>1, <2>1 DEF TypeInv, TypeOK
  <2>3. /\ docs[m] # None
        /\ docs[m].pid = j \/ (docs[m].pid = None /\ docs[m].key = source[j].key)
        /\ source[j].key # NoKey
    BY <1>1, <2>1, <2>2, OneOwnerOfKey DEF UpdatesMatch
  <2>4. m = n
    BY <1>4, <2>1, <2>3
  <2>5. docs[m].pid = i \/ (docs[m].pid = None /\ docs[m].key = source[i].key)
    BY <1>1, <2>2, <2>4, OneOwnerOfKey DEF UpdatesMatch
  <2>6. i # j
    BY <1>1, <2>1, <2>4
  <2>7. source[i].key = source[j].key
    BY <2>3, <2>5, <2>6
  <2>8. j \in Keyed(Id) /\ i \in Keyed(Id)
    BY <1>4, <2>1, <2>2, <2>3 DEF Keyed, Present
  <2>9. QED
    BY <2>6, <2>7, <2>8, OneOwnerOfKey
<1>6. ASSUME ~failed', config.create, config.update PROVE Imaged'
  <2>1. SUFFICES ASSUME NEW j \in Keyed(Id), j \notin rest,
                        \A x \in Name \cup {None} : <<j, x>> \notin work'
                 PROVE  \E m \in Name : docs'[m] = Image(j)
    BY <1>1, <1>2, <1>3 DEF Imaged, Keyed
  <2>2. Imaged /\ j \in Id
    BY <1>1, <1>2, <1>6 DEF MirrorInv, Keyed
  <2>3. CASE \E m \in Name : docs[m] = Image(j)
    <3>1. PICK m \in Name : docs[m] = Image(j)
      BY <2>3
    <3>2. SUFFICES ASSUME docs'[m] # docs[m] PROVE docs'[m] = Image(j)
      BY <3>1
    <3>3. Image(j) \in Doc /\ Image(j) # None /\ j \in Present(source)
      <4>1. Keyed({j}) # {}
        BY <2>1 DEF Keyed
      <4>2. QED
        BY <2>2, <4>1, ImageType DEF TypeInv
    <3>4. m = n /\ UpdatesMatch /\ i \in Keyed(Id)
      BY <1>4, <3>1, <3>2, <3>3
    <3>5. docs[m].pid = i \/ (docs[m].pid = None /\ docs[m].key = source[i].key)
      BY <1>1, <3>4 DEF UpdatesMatch, Keyed, Present, TypeInv, TypeOK
    <3>6. docs[m].key = source[j].key /\ docs[m].pid \in {j, None}
      BY <3>1 DEF Image
    <3>7. i = j
      BY <2>1, <3>4, <3>5, <3>6, OneOwnerOfKey
    <3>8. QED
      BY <1>4, <3>2, <3>7
  <2>4. CASE ~\E m \in Name : docs[m] = Image(j)
    <3>1. j = i
      BY <1>1, <2>1, <2>2, <2>4 DEF Imaged
    <3>2. Keyed({i}) # {}
      BY <2>1, <3>1 DEF Keyed
    <3>3. CASE n = None /\ Create(i)
      BY <1>6, <3>1, <3>3 DEF Create, TypeInv, TypeOK
    <3>4. CASE n # None /\ Update(i, n)
      <4>1. docs[n] = seen[n] /\ n \in Name
        BY <1>1, <1>2, <3>4 DEF AsLoaded
      <4>2. docs'[n] = Image(i)
        BY <1>6, <3>4, <4>1 DEF Update, TypeInv, TypeOK
      <4>3. QED
        BY <3>1, <4>1, <4>2
    <3>5. QED
      BY <1>6, <3>2, <3>3, <3>4 DEF Write, Rejected, Error
  <2>5. QED
    BY <2>3, <2>4
<1>7. ASSUME ~failed', config.delete PROVE NoneLeft'
  <2>1. SUFFICES ASSUME NEW m \in Name, docs'[m] # None
                 PROVE  m \in doomed \/ docs'[m].key \in SourceKeys
    BY <1>1, <1>3, WriteType DEF NoneLeft, Present, TypeInv, TypeOK
  <2>2. CASE docs'[m] = docs[m]
    BY <1>1, <1>2, <1>7, <2>1, <2>2 DEF MirrorInv, NoneLeft, Present, TypeInv,
       TypeOK
  <2>3. CASE docs'[m] # docs[m]
    <3>1. docs'[m].key = source[i].key /\ i \in Keyed(Id)
      BY <1>4, <2>3 DEF Image
    <3>2. QED
      BY <3>1 DEF SourceKeys
  <2>4. QED
    BY <2>2, <2>3
<1>8. QED
  BY <1>1, <1>5, <1>6, <1>7

LEMMA NextMirrorInv ==
  ASSUME ~ReuseKeys, ~(config.identity /\ config.delete),
         TypeInv, TypeInv', OwnInv, MirrorInv, [Next]_vars
  PROVE  MirrorInv'
<1>0. Present(docs) \subseteq Name
  BY DEF TypeInv, TypeOK, Present
<1>1. ASSUME NEW i \in Id, Change(i) PROVE MirrorInv'
  <2>1. UNCHANGED <<config, docs, phase, source, rest, failed, seen, work, doomed>>
    BY <1>1 DEF Change, siteVars, runVars, batchVars
  <2>2. QED
    BY <2>1 DEF MirrorInv, AsLoaded, Imaged, NoneLeft, Image, Keyed, SourceKeys
<1>2. ASSUME Start PROVE MirrorInv'
  <2>1. /\ work' = {} /\ config' = config
        /\ source' = partner /\ rest' = Present(partner)
        /\ phase' \in {"read", "end"}
        /\ phase' = "end" => ~config.delete /\ rest' = {}
    BY <1>2 DEF Start, batchVars, TypeInv, NoLeftovers
  <2>2. AsLoaded' /\ Imaged'
    BY <2>1 DEF AsLoaded, Imaged, Keyed, Present, TypeInv, TypeOK
  <2>3. QED
    BY <2>1, <2>2 DEF MirrorInv
<1>3. ASSUME Batch PROVE MirrorInv'
  <2>1. /\ phase = "read" /\ phase' = "write"
        /\ UNCHANGED <<config, docs, source, failed>>
        /\ doomed' = IF config.delete THEN Missing ELSE {}
    BY <1>3, BatchEffect DEF Batch
  <2>2. Keyed(Id)' = Keyed(Id) /\ SourceKeys' = SourceKeys
          /\ work = {} /\ \A j \in Id : Image(j)' = Image(j)
    BY <2>1 DEF Keyed, SourceKeys, Image, TypeInv, NoLeftovers
  <2>3. AsLoaded'
    BY <1>3, BatchCovers
  <2>4. ASSUME ~failed, config.create, config.update PROVE Imaged'
    <3>1. SUFFICES ASSUME NEW j \in Keyed(Id), j \notin rest',
                          \A x \in Name \cup {None} : <<j, x>> \notin work'
                   PROVE  \E m \in Name : docs'[m] = Image(j)
      BY <2>1, <2>2 DEF Imaged, Keyed
    <3>2. j \notin rest
      BY <1>3, <3>1, BatchCovers
    <3>3. QED
      BY <2>1, <2>2, <2>4, <3>2 DEF MirrorInv, Imaged
  <2>5. ASSUME config.delete PROVE NoneLeft'
    BY <2>1, <2>2, <2>5 DEF NoneLeft, Missing
  <2>6. QED
    BY <2>1, <2>3, <2>4, <2>5 DEF MirrorInv
<1>4. ASSUME EndBatch PROVE MirrorInv'
  <2>1. /\ phase = "write" /\ work = {} /\ doomed = {} /\ work' = {} /\ doomed' = {}
        /\ UNCHANGED <<config, docs, source, rest, failed>>
        /\ phase' = IF rest = {} THEN "end" ELSE "read"
    BY <1>4 DEF EndBatch
  <2>2. Keyed(Id)' = Keyed(Id) /\ SourceKeys' = SourceKeys
          /\ \A j \in Id : Image(j)' = Image(j)
    BY <2>1 DEF Keyed, SourceKeys, Image
  <2>3. AsLoaded'
    BY <2>1 DEF AsLoaded
  <2>4. Imaged => Imaged'
    BY <2>1, <2>2 DEF Imaged, Keyed
  <2>5. NoneLeft => NoneLeft'
    BY <2>1, <2>2 DEF NoneLeft
  <2>6. QED
    BY <2>1, <2>3, <2>4, <2>5 DEF MirrorInv
<1>5. ASSUME NEW i \in Id, NEW n \in Name \cup {None}, Write(i, n) PROVE MirrorInv'
  <2>1. phase = "write" /\ phase' = "write" /\ config' = config
    BY <1>5 DEF Write
  <2>2. QED
    BY <1>5, <2>1, WriteMirrors DEF MirrorInv
<1>6. ASSUME NEW n \in Name, Delete(n) PROVE MirrorInv'
  <2>1. /\ phase = "write" /\ phase' = "write" /\ n \in doomed
        /\ UNCHANGED <<config, source, rest, work>> /\ work = {}
        /\ doomed' = doomed \ {n}
    BY <1>6 DEF Delete
  <2>2. Keyed(Id)' = Keyed(Id) /\ SourceKeys' = SourceKeys
          /\ \A j \in Id : Image(j)' = Image(j)
    BY <2>1 DEF Keyed, SourceKeys, Image
  <2>3. ~config.identity /\ docs[n].key \notin SourceKeys /\ docs[n] # None
    BY <1>0, <2>1 DEF OwnInv, KeyInv, DoomedMissing
  <2>4. AsLoaded'
    BY <2>1 DEF AsLoaded
  <2>5. ASSUME ~failed' PROVE docs' = [docs EXCEPT ![n] = None] /\ ~failed
    BY <1>6, <2>5 DEF Delete, Rejected, Error
  <2>6. ASSUME ~failed', config.create, config.update PROVE Imaged'
    <3>1. Imaged
      BY <2>1, <2>5, <2>6 DEF MirrorInv
    <3>2. SUFFICES ASSUME NEW j \in Keyed(Id), NEW m \in Name, docs[m] = Image(j)
                   PROVE  docs'[m] = Image(j)
      BY <2>1, <2>2, <3>1 DEF Imaged, Keyed
    <3>3. docs[m].key \in SourceKeys
      BY <3>2 DEF Image, SourceKeys
    <3>4. m # n
      BY <2>3, <3>3
    <3>5. QED
      BY <2>5, <2>6, <3>2, <3>4 DEF TypeInv, TypeOK
  <2>7. ASSUME ~failed', config.delete PROVE NoneLeft'
    <3>1. NoneLeft
      BY <2>1, <2>5, <2>7 DEF MirrorInv
    <3>2. QED
      BY <2>1, <2>2, <2>5, <2>7, <3>1 DEF NoneLeft, Present, TypeInv, TypeOK
  <2>8. QED
    BY <2>1, <2>4, <2>6, <2>7 DEF MirrorInv
<1>7. ASSUME UNCHANGED vars PROVE MirrorInv'
  BY <1>7 DEF vars, siteVars, runVars, batchVars, MirrorInv, AsLoaded, Imaged,
     NoneLeft, Image, Keyed, SourceKeys
<1>8. ASSUME Finish \/ Crash PROVE MirrorInv'
  BY <1>8 DEF Finish, Crash, Leave, MirrorInv
<1>9. QED
  BY <1>1, <1>2, <1>3, <1>4, <1>5, <1>6, <1>7, <1>8 DEF Next

\* Deletion by keys spares the images only without stored identities.
SoundMirrorInv == ~(config.identity /\ config.delete) => MirrorInv

\* If no record gets the key of another one, a run that ends without a failed
\* record leaves a document with the content of each record it read, and no
\* document without one if it deletes: in every definition that does not combine
\* deletion with stored identities.
THEOREM EndMirrorsSource ==
  ASSUME ~ReuseKeys
  PROVE  Spec => []MirrorsSource
<1>1. Init => TypeInv /\ OwnInv /\ SoundMirrorInv
  BY InitTypeInv, InitKeyInv, InitIdentityInv
     DEF Init, OwnInv, OwnKeys, SoundMirrorInv, MirrorInv, Nothing, Present
<1>2. TypeInv /\ OwnInv /\ SoundMirrorInv /\ [Next]_vars
        => (TypeInv /\ OwnInv /\ SoundMirrorInv)'
  BY NextTypeInv, NextOwnInv, NextMirrorInv, ConfigStays DEF SoundMirrorInv
<1>3. TypeInv /\ SoundMirrorInv => MirrorsSource
  BY DEF TypeInv, NoLeftovers, SoundMirrorInv, MirrorInv, Imaged, NoneLeft,
     MirrorsSource
<1>4. QED
  BY <1>1, <1>2, <1>3, PTL DEF Spec
=============================================================================
