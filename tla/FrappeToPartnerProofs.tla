----------------------- MODULE FrappeToPartnerProofs -----------------------
(***************************************************************************)
(* Theorems about FrappeToPartner for every number of documents, keys,     *)
(* rows, changes and faults.  All its properties are proved.               *)
(*                                                                         *)
(* TypeCorrect and NewRowsAreLinked hold whatever users do.  The others    *)
(* assume Disciplined: keys and identities are not used again, the         *)
(* disciplines named in the module.  Each has an inductive invariant of    *)
(* its own, built on the one before:                                       *)
(*   PlanInv   TypeOK, and what is planned was read and is still linked    *)
(*             as it was read: NewRowsAreLinked                            *)
(*   OwnInv    and keys, rows and links belong to one document:            *)
(*             RowsAreOwned                                                *)
(*   RowInv    and a document's row is linked or has its key, and is       *)
(*             indexed while the document waits: OneRowForEachDocument     *)
(*   ImageInv  OwnInv, and what was loaded is unchanged or written with    *)
(*             what was read: EndMirrorsSource                             *)
(*   LinkInv   RowInv and ImageInv, and linked rows have the key read:     *)
(*             OnlyMissingAreDeleted                                       *)
(***************************************************************************)
EXTENDS FrappeToPartner, FiniteSetTheorems, WellFoundedInduction, TLAPS

USE ConfigAssumption, NoneAssumption, BoundAssumption

-----------------------------------------------------------------------------
(* The greatest identity *)

\* A set of naturals below a bound has a greatest element, and Max is that.
LEMMA MaxIsGreatest ==
  ASSUME NEW b \in Nat, NEW S \in SUBSET (0..b), S # {}
  PROVE  Max(S) \in S /\ \A y \in S : y <= Max(S)
<1> DEFINE T == {b - y : y \in S}
<1>0. \A y \in S : y \in Nat /\ y <= b /\ b - y \in Nat
  OBVIOUS
<1>1. T \subseteq Nat /\ T # {}
  BY <1>0
<1>2. PICK m \in T : \A t \in T : ~(<<t, m>> \in OpToRel(<, Nat))
  BY <1>1, WFMin, NatLessThanWellFounded
<1>3. \A t \in T : ~(t < m)
  BY <1>1, <1>2 DEF OpToRel
<1>4. PICK x \in S : m = b - x
  OBVIOUS
<1>5. ASSUME NEW y \in S PROVE y <= x
  <2>1. ~(b - y < b - x)
    BY <1>3, <1>4
  <2>2. QED
    BY <1>0, <2>1
<1>6. \A y \in S : x >= y
  BY <1>0, <1>5
<1>7. Max(S) \in S /\ \A y \in S : Max(S) >= y
  BY <1>4, <1>6 DEF Max
<1>8. QED
  BY <1>0, <1>7

-----------------------------------------------------------------------------
(* What a write does *)

\* The rows the statement for a match selects.
Selected(n, i) == IF i = None THEN ForWrite(n) ELSE ForExistingMatch(n, i)

\* The identity a new row may report instead of its own.
Reported(n, i) == IF ~config.identity THEN None
                  ELSE IF i = None THEN source[n].link ELSE i

LEMMA SelectedRows ==
  ASSUME TypeOK, NEW n \in Name, NEW i \in Id \cup {None}
  PROVE  Selected(n, i) \in SUBSET Present(rows)
BY DEF Selected, ForWrite, ForExistingMatch, WithId, WithKey

\* A new identity is free, or the column has no value left.
LEMMA NewIdFree ==
  ASSUME TypeOK
  PROVE  /\ NewId \in Nat \ {0}
         /\ NewId <= MaxId => NewId \in Id /\ rows[NewId] = None
<1>1. Present(rows) \subseteq 0..MaxId /\ Present(rows) \subseteq 1..MaxId
  BY DEF TypeOK, Present, Id
<1>2. CASE config.strategy = "max_plus_one"
  <2> DEFINE S == Present(rows) \cup {0}
  <2>1. S \in SUBSET (0..MaxId) /\ S # {}
    BY <1>1
  <2>2. Max(S) \in S /\ \A y \in S : y <= Max(S)
    BY <2>1, MaxIsGreatest
  <2>3. NewId = Max(S) + 1
    BY <1>2 DEF NewId
  <2>4. Max(S) \in 0..MaxId
    BY <2>1, <2>2
  <2> HIDE DEF S
  <2>5. NewId \in Nat \ {0} /\ NewId \notin S
    BY <2>2, <2>3, <2>4
  <2>6. QED
    BY <2>5 DEF S, Present, TypeOK, Id
<1>3. CASE config.strategy # "max_plus_one"
  <2>1. NewId = lastId + 1 /\ lastId \in Nat
    BY <1>3 DEF NewId, TypeOK
  <2>2. ASSUME NewId <= MaxId PROVE NewId \in Id /\ rows[NewId] = None
    <3>1. NewId \in Id
      BY <2>1, <2>2 DEF Id
    <3>2. NewId \notin Present(rows)
      BY <2>1 DEF TypeOK
    <3>3. QED
      BY <3>1, <3>2 DEF Present, TypeOK
  <2>3. QED
    BY <2>1, <2>2
<1>4. QED
  BY <1>2, <1>3

\* Storing an identity sets the document's link to it or fails.
LEMMA PersistEffect ==
  ASSUME TypeOK, NEW n \in Name, NEW r, Persist(n, r)
  PROVE  /\ faults' \in 0..MaxFaults /\ failed' \in BOOLEAN
         /\ saved' \in {saved, link'}
         /\ link' = link \/ (config.identity /\ link' = [link EXCEPT ![n] = r])
<1>1. CASE UNCHANGED <<link, failed, faults>> /\ Log
  BY <1>1 DEF Log, TypeOK
<1>2. CASE /\ config.identity /\ link' = [link EXCEPT ![n] = r] /\ Log
           /\ UNCHANGED <<failed, faults>>
  BY <1>2 DEF Log, TypeOK
<1>3. CASE Error /\ UNCHANGED faults
  BY <1>3 DEF Error, Log, TypeOK
<1>4. CASE faults < MaxFaults /\ faults' = faults + 1 /\ Error
  <2>1. faults' \in 0..MaxFaults
    BY <1>4 DEF TypeOK
  <2>2. QED
    BY <1>4, <2>1 DEF Error, Log
<1>5. QED
  BY <1>1, <1>2, <1>3, <1>4 DEF Persist

\* Writing a match leaves everything as it is but the counters, or writes what was
\* read of the document to the rows it selects, or to a new row if there is none; the
\* identity reported is stored or not.
LEMMA WriteEffect ==
  ASSUME TypeOK, NEW n \in Name, NEW i \in Id \cup {None}, Write(n, i)
  PROVE  /\ phase = "write" /\ <<n, i>> \in work /\ work' = work \ {<<n, i>>}
         /\ UNCHANGED <<config, docs, owner, changes, phase, known, todo, source, keys,
                        doomed, touched>>
         /\ faults' \in 0..MaxFaults /\ failed' \in BOOLEAN
         /\ saved' \in {saved, link'}
         /\ \/ UNCHANGED <<rows, lastId, link>>
            \/ /\ source[n].key # NoKey
               /\ Upsert(n, Selected(n, i)) /\ ~Exhausted(Selected(n, i))
               /\ \/ link' = link
                  \/ /\ config.identity
                     /\ i = None \/ Cardinality(Matches(n, source)) = 1
                     /\ \E r \in Resolved(Reported(n, i), Selected(n, i)) :
                          link' = [link EXCEPT ![n] = r]
<1>1. /\ phase = "write" /\ <<n, i>> \in work /\ work' = work \ {<<n, i>>}
      /\ UNCHANGED <<config, docs, owner, changes, phase, known, todo, source, keys,
                     doomed, touched>>
  BY DEF Write, runVars
<1>2. CASE source[n].key = NoKey
  BY <1>1, <1>2 DEF Write, Error, Log, partnerVars, TypeOK
<1>3. CASE source[n].key # NoKey /\ i = None
  <2>1. CASE Skip
    BY <1>1, <2>1 DEF Skip, Log, partnerVars, TypeOK
  <2>2. CASE Error /\ UNCHANGED <<partnerVars, faults>>
    BY <1>1, <2>2 DEF Error, Log, partnerVars, TypeOK
  <2>3. CASE Rejected
    BY <1>1, <2>3 DEF Rejected, Error, Log, partnerVars, TypeOK
  <2> DEFINE id == IF config.identity THEN source[n].link ELSE None
             S == ForWrite(n)
  <2>4. ASSUME ~Exhausted(S), Upsert(n, S), NEW r \in Resolved(id, S), Persist(n, r)
        PROVE  /\ faults' \in 0..MaxFaults /\ failed' \in BOOLEAN
               /\ saved' \in {saved, link'}
               /\ link' = link \/ (config.identity /\ link' = [link EXCEPT ![n] = r])
    BY <2>4, PersistEffect
  <2>5. S = Selected(n, i) /\ id = Reported(n, i)
    BY <1>3 DEF Selected, Reported
  <2>6. Skip \/ (Error /\ UNCHANGED <<partnerVars, faults>>) \/ Rejected
          \/ (~Exhausted(S) /\ Upsert(n, S) /\ \E r \in Resolved(id, S) : Persist(n, r))
    BY <1>3 DEF Write, Create
  <2> HIDE DEF id, S
  <2>7. QED
    BY <1>1, <1>3, <2>1, <2>2, <2>3, <2>4, <2>5, <2>6
<1>4. CASE source[n].key # NoKey /\ i # None
  <2>1. CASE Skip
    BY <1>1, <2>1 DEF Skip, Log, partnerVars, TypeOK
  <2>2. CASE Error /\ UNCHANGED <<partnerVars, faults>>
    BY <1>1, <2>2 DEF Error, Log, partnerVars, TypeOK
  <2>3. CASE Rejected
    BY <1>1, <2>3 DEF Rejected, Error, Log, partnerVars, TypeOK
  <2> DEFINE id == IF config.identity THEN i ELSE None
             S == ForExistingMatch(n, i)
  <2>4. ASSUME ~Exhausted(S), Upsert(n, S), NEW r \in Resolved(id, S), Persist(n, r)
        PROVE  /\ faults' \in 0..MaxFaults /\ failed' \in BOOLEAN
               /\ saved' \in {saved, link'}
               /\ link' = link \/ (config.identity /\ link' = [link EXCEPT ![n] = r])
    BY <2>4, PersistEffect
  <2>5. S = Selected(n, i) /\ id = Reported(n, i)
    BY <1>4 DEF Selected, Reported
  <2>6. CASE /\ ~Exhausted(S) /\ Upsert(n, S)
             /\ UNCHANGED <<link, failed, faults>> /\ Log
    BY <1>1, <1>4, <2>5, <2>6 DEF Log, TypeOK
  <2>7. \/ Skip \/ (Error /\ UNCHANGED <<partnerVars, faults>>) \/ Rejected
        \/ /\ ~Exhausted(S) /\ Upsert(n, S)
           /\ UNCHANGED <<link, failed, faults>> /\ Log
        \/ /\ ~Exhausted(S) /\ Upsert(n, S) /\ Cardinality(Matches(n, source)) = 1
           /\ \E r \in Resolved(id, S) : Persist(n, r)
    BY <1>4 DEF Write, Update
  <2> HIDE DEF id, S
  <2>8. QED
    BY <1>1, <1>4, <2>1, <2>2, <2>3, <2>4, <2>5, <2>6, <2>7
<1>5. QED
  BY <1>2, <1>3, <1>4

-----------------------------------------------------------------------------
(* Type correctness *)

\* The values read of a document that is written make a row.
LEMMA ReadType ==
  ASSUME TypeOK, NEW n \in Name, NEW i, <<n, i>> \in work
  PROVE  /\ source[n] \in Read /\ source[n].val \in Val
         /\ source[n].key # NoKey => source[n].key \in Key
         /\ source[n].link \in Id \cup {None}
<1>1. source[n] \in Read
  BY DEF TypeOK, Present
<1>2. QED
  BY <1>1 DEF Read

LEMMA UpsertType ==
  ASSUME TypeOK, NEW n \in Name, NEW S \in SUBSET Present(rows),
         source[n].key \in Key, source[n].val \in Val,
         Upsert(n, S), ~Exhausted(S)
  PROVE  /\ rows' \in [Id -> Row \cup {None}]
         /\ lastId' \in 0..MaxId /\ lastId <= lastId'
         /\ \A i \in Present(rows)' : i <= lastId'
         /\ S = {} => NewId \in Id /\ rows[NewId] = None /\ NewId <= lastId'
<1>1. CASE S # {}
  <2>1. rows' = [i \in Id |-> IF i \in S
                              THEN [key |-> source[n].key, val |-> source[n].val,
                                    from |-> rows[i].from]
                              ELSE rows[i]] /\ lastId' = lastId
    BY <1>1 DEF Upsert
  <2>2. ASSUME NEW i \in S PROVE rows[i].from \in Name \cup {None}
    BY <2>2 DEF TypeOK, Present, Row
  <2>3. ASSUME NEW i \in S
        PROVE  [key |-> source[n].key, val |-> source[n].val, from |-> rows[i].from]
                 \in Row
    BY <2>2 DEF Row
  <2>4. rows' \in [Id -> Row \cup {None}]
    BY <2>1, <2>3 DEF TypeOK
  <2>5. ASSUME NEW i \in Present(rows)' PROVE i \in Present(rows)
    <3>1. i \in Id /\ rows'[i] # None
      BY <2>4, <2>5 DEF Present
    <3>2. CASE i \in S
      BY <3>2
    <3>3. CASE i \notin S
      BY <2>1, <3>1, <3>3 DEF Present, TypeOK
    <3>4. QED
      BY <3>2, <3>3
  <2>6. QED
    BY <1>1, <2>1, <2>4, <2>5 DEF TypeOK
<1>2. CASE S = {}
  <2>1. NewId \in Id /\ rows[NewId] = None
    BY <1>2, NewIdFree DEF Exhausted, Id
  <2>2. [key |-> source[n].key, val |-> source[n].val, from |-> n] \in Row
    BY DEF Row
  <2>3. /\ rows' = [rows EXCEPT ![NewId] = [key |-> source[n].key,
                                            val |-> source[n].val, from |-> n]]
        /\ lastId' = IF NewId > lastId THEN NewId ELSE lastId
    BY <1>2 DEF Upsert
  <2>4. rows' \in [Id -> Row \cup {None}]
    BY <2>1, <2>2, <2>3 DEF TypeOK
  <2>5. lastId \in 0..MaxId /\ NewId \in 1..MaxId
    BY <2>1 DEF TypeOK, Id
  <2>6. lastId' \in 0..MaxId /\ lastId <= lastId' /\ NewId <= lastId'
    BY <2>3, <2>5
  <2>7. ASSUME NEW i \in Present(rows)' PROVE i = NewId \/ i \in Present(rows)
    BY <2>3, <2>4, <2>7 DEF Present, TypeOK
  <2>8. \A i \in Present(rows) : i <= lastId /\ i \in Nat
    BY DEF TypeOK, Present, Id
  <2>9. ASSUME NEW i \in Present(rows)' PROVE i <= lastId'
    BY <2>5, <2>6, <2>7, <2>8, <2>9
  <2>10. QED
    BY <2>1, <2>4, <2>6, <2>9
<1>3. QED
  BY <1>1, <1>2

\* The identity a write reports is one of the column.
LEMMA ResolvedType ==
  ASSUME TypeOK, NEW n \in Name, NEW i \in Id \cup {None}, <<n, i>> \in work,
         ~Exhausted(Selected(n, i)), NEW r \in Resolved(Reported(n, i), Selected(n, i))
  PROVE  r \in Id
<1>1. Reported(n, i) \in Id \cup {None}
  BY ReadType DEF Reported
<1>2. Selected(n, i) \subseteq Id
  BY SelectedRows DEF Present, TypeOK
<1>3. Selected(n, i) = {} => NewId \in Id
  BY NewIdFree DEF Exhausted
<1>4. QED
  BY <1>1, <1>2, <1>3 DEF Resolved

LEMMA WriteType ==
  ASSUME TypeOK, NEW n \in Name, NEW i \in Id \cup {None}, Write(n, i)
  PROVE  TypeOK'
<1> DEFINE S == Selected(n, i)
<1>1. /\ phase = "write" /\ <<n, i>> \in work /\ work' = work \ {<<n, i>>}
      /\ UNCHANGED <<config, docs, owner, changes, phase, known, todo, source, keys,
                     doomed, touched>>
      /\ faults' \in 0..MaxFaults /\ failed' \in BOOLEAN
      /\ saved' \in {saved, link'}
  BY WriteEffect
<1>2. S \in SUBSET Present(rows)
  BY SelectedRows
<1>3. \/ UNCHANGED <<rows, lastId, link>>
      \/ /\ source[n].key # NoKey
         /\ Upsert(n, S) /\ ~Exhausted(S)
         /\ link' = link \/ \E r \in Resolved(Reported(n, i), S) :
                              link' = [link EXCEPT ![n] = r]
  BY WriteEffect
<1>4. link' \in [Name -> Id \cup {None}]
  BY <1>1, <1>3, ResolvedType DEF TypeOK
<1>5. saved' \in [Name -> Id \cup {None}]
  BY <1>1, <1>4 DEF TypeOK
<1>6. /\ rows' \in [Id -> Row \cup {None}]
      /\ lastId' \in 0..MaxId
      /\ \A j \in Present(rows)' : j <= lastId'
  <2>1. CASE UNCHANGED <<rows, lastId, link>>
    BY <2>1 DEF TypeOK, Present
  <2>2. CASE source[n].key # NoKey /\ Upsert(n, S) /\ ~Exhausted(S)
    <3>1. source[n].key \in Key /\ source[n].val \in Val
      BY <1>1, <2>2, ReadType
    <3> HIDE DEF S
    <3>2. QED
      BY <1>2, <2>2, <3>1, UpsertType
  <2>3. QED
    BY <1>3, <2>1, <2>2
<1>7. work' \subseteq Present(source') \X (Id \cup {None})
  BY <1>1 DEF TypeOK
<1> HIDE DEF S
<1>8. QED
  BY <1>1, <1>4, <1>5, <1>6, <1>7 DEF TypeOK

\* What a plan proposes are rows that were loaded, or a new one.
LEMMA TargetsType ==
  ASSUME NEW n, NEW R, known \in [Id -> Row \cup {None}]
  PROVE  /\ Matches(n, R) \subseteq Present(known)
         /\ Targets(n, R) \subseteq Present(known) \cup {None}
<1>1. Matches(n, R) \subseteq Present(known)
  BY DEF Matches
<1>2. CASE Matches(n, R) = {}
  BY <1>1, <1>2 DEF Targets
<1>3. CASE Matches(n, R) # {}
  <2>1. (CHOOSE i \in Matches(n, R) : TRUE) \in Matches(n, R)
    BY <1>3
  <2>2. QED
    BY <1>1, <1>3, <2>1 DEF Targets
<1>4. QED
  BY <1>2, <1>3

\* What a user's edit of a document does.
LEMMA EditEffect ==
  ASSUME TypeOK, NEW n \in Name, Edit(n)
  PROVE  /\ UNCHANGED <<config, link, saved, rows, lastId, faults, phase, known, todo,
                        source, keys, work, doomed, failed, touched>>
         /\ changes' \in 0..MaxChanges /\ docs[n] # Gone
         /\ \E d \in Doc \cup {Gone} :
              /\ docs' = [docs EXCEPT ![n] = d]
              /\ IF d = Gone \/ d.key = NoKey THEN owner' = owner
                 ELSE /\ Reuse \/ OwnKey(n, d.key)
                      /\ owner' = [owner EXCEPT ![d.key] = IF @ = None THEN n ELSE @]
         /\ owner' \in [Key -> Name \cup {None}]
         /\ Reuse \/ Findable'
<1>1. /\ UNCHANGED <<config, link, saved, rows, lastId, faults, phase, known, todo,
                     source, keys, work, doomed, failed, touched>>
      /\ changes' \in 0..MaxChanges /\ docs[n] # Gone /\ (Reuse \/ Findable')
  BY DEF Edit, partnerVars, runVars, TypeOK
<1>2. PICK d \in Doc \cup {Gone} :
        /\ docs' = [docs EXCEPT ![n] = d]
        /\ IF d = Gone \/ d.key = NoKey THEN owner' = owner
           ELSE /\ Reuse \/ OwnKey(n, d.key)
                /\ owner' = [owner EXCEPT ![d.key] = IF @ = None THEN n ELSE @]
  BY DEF Edit
<1>3. owner' \in [Key -> Name \cup {None}]
  BY <1>2 DEF TypeOK, Doc
<1>4. QED
  BY <1>1, <1>2, <1>3

LEMMA NextType == TypeOK /\ [Next]_vars => TypeOK'
<1> SUFFICES ASSUME TypeOK, [Next]_vars PROVE TypeOK'
  OBVIOUS
<1>1. ASSUME NEW n \in Name, Edit(n) PROVE TypeOK'
  <2>1. PICK d \in Doc \cup {Gone} : docs' = [docs EXCEPT ![n] = d]
    BY <1>1, EditEffect
  <2>2. docs' \in [Name -> Doc \cup {None, Gone}]
    BY <2>1 DEF TypeOK
  <2>3. QED
    BY <1>1, <2>2, EditEffect DEF TypeOK, Present
<1>2. ASSUME Insert PROVE TypeOK'
  <2>1. PICK k \in Key, v \in Val :
          rows' = [rows EXCEPT ![lastId + 1] = [key |-> k, val |-> v, from |-> None]]
    BY <1>2 DEF Insert
  <2>2. [key |-> k, val |-> v, from |-> None] \in Row
    BY DEF Row
  <2>3. lastId' = lastId + 1 /\ lastId' \in 0..MaxId /\ lastId + 1 \in Id
    BY <1>2 DEF Insert, TypeOK, Id
  <2>4. rows' \in [Id -> Row \cup {None}]
    BY <2>1, <2>2, <2>3 DEF TypeOK
  <2>5. \A i \in Present(rows)' : i = lastId + 1 \/ i \in Present(rows)
    BY <2>1, <2>4 DEF TypeOK, Present
  <2>6. \A i \in Present(rows) : i \in Nat /\ i <= lastId
    BY DEF TypeOK, Present, Id
  <2>7. \A i \in Present(rows)' : i <= lastId'
    BY <2>3, <2>5, <2>6 DEF TypeOK
  <2>8. changes' \in 0..MaxChanges /\ touched' \in BOOLEAN
    BY <1>2 DEF Insert, TypeOK
  <2>9. UNCHANGED <<config, docs, owner, link, saved, faults, phase, known, todo,
                    source, keys, work, doomed, failed>>
    BY <1>2 DEF Insert, siteVars, runVars
  <2>10. QED
    BY <2>3, <2>4, <2>7, <2>8, <2>9 DEF TypeOK
<1>3. ASSUME NEW i \in Id, Vanish(i) PROVE TypeOK'
  <2>1. rows' = [rows EXCEPT ![i] = None] /\ lastId' = lastId
    BY <1>3 DEF Vanish
  <2>2. rows' \in [Id -> Row \cup {None}] /\ Present(rows)' \subseteq Present(rows)
    BY <2>1 DEF TypeOK, Present
  <2>3. changes' \in 0..MaxChanges /\ touched' \in BOOLEAN
    BY <1>3 DEF Vanish, TypeOK
  <2>4. UNCHANGED <<config, docs, owner, link, saved, faults, phase, known, todo,
                    source, keys, work, doomed, failed>>
    BY <1>3 DEF Vanish, siteVars, runVars
  <2>5. QED
    BY <2>1, <2>2, <2>3, <2>4 DEF TypeOK
<1>4. ASSUME Start PROVE TypeOK'
  <2>1. known' \in [Id -> Row \cup {None}]
    BY <1>4 DEF Start, TypeOK
  <2>2. QED
    BY <1>4, <2>1 DEF Start, TypeOK, siteVars, partnerVars, Present
<1>5. ASSUME Fetch PROVE TypeOK'
  <2>1. PICK B \in SUBSET todo :
          /\ todo' = todo \ B
          /\ source' =
               [n \in Name |->
                  IF n \in B /\ docs[n] \in Doc
                  THEN [key |-> docs[n].key, val |-> docs[n].val, link |-> link[n]]
                  ELSE source[n]]
          /\ work' = UNION {{n} \X Targets(n, source') : n \in B \cap Present(source')}
    BY <1>5 DEF Fetch
  <2>2. ASSUME NEW n \in Name, docs[n] \in Doc
        PROVE  [key |-> docs[n].key, val |-> docs[n].val, link |-> link[n]] \in Read
    BY <2>2 DEF Doc, Read, TypeOK
  <2>3. source' \in [Name -> Read \cup {None}]
    BY <2>1, <2>2 DEF TypeOK
  <2>4. work' \subseteq Present(source') \X (Id \cup {None})
    <3>1. \A n : Targets(n, source') \subseteq Id \cup {None}
      BY TargetsType DEF TypeOK, Present
    <3>2. QED
      BY <2>1, <3>1
  <2>5. keys' \subseteq Key
    BY <1>5 DEF Fetch, SourceKeys, Doc
  <2>6. doomed' \subseteq Key
    BY <1>5 DEF Fetch, TypeOK, Present, Row
  <2>7. UNCHANGED <<config, docs, owner, link, saved, rows, lastId, changes, faults,
                    known, failed, touched>> /\ phase' = "write"
    BY <1>5 DEF Fetch, siteVars, partnerVars
  <2>8. QED
    BY <2>1, <2>3, <2>4, <2>5, <2>6, <2>7 DEF TypeOK, Present
<1>6. ASSUME EndBatch PROVE TypeOK'
  BY <1>6 DEF EndBatch, TypeOK, partnerVars, runVars, Present
<1>7. ASSUME Finish PROVE TypeOK'
  BY <1>7 DEF Finish, Leave, Nothing, TypeOK, siteVars, partnerVars, Present
<1>8. ASSUME Crash PROVE TypeOK'
  <2>1. faults' \in 0..MaxFaults
    BY <1>8 DEF Crash, TypeOK
  <2>2. QED
    BY <1>8, <2>1 DEF Crash, Leave, Nothing, TypeOK, partnerVars, Present
<1>9. ASSUME NEW n \in Name, NEW i \in Id \cup {None}, Write(n, i) PROVE TypeOK'
  BY <1>9, WriteType
<1>10. ASSUME NEW k \in Key, Delete(k) PROVE TypeOK'
  <2>1. \/ rows' = [i \in Id |-> IF i \in WithKey(k) THEN None ELSE rows[i]]
           /\ UNCHANGED <<lastId, link, failed, faults>> /\ Log
        \/ Rejected
    BY <1>10 DEF Delete
  <2>2. /\ rows' \in [Id -> Row \cup {None}] /\ Present(rows)' \subseteq Present(rows)
        /\ lastId' = lastId /\ link' = link /\ failed' \in BOOLEAN
        /\ faults' \in 0..MaxFaults /\ saved' \in {saved, link}
    <3>1. CASE rows' = [i \in Id |-> IF i \in WithKey(k) THEN None ELSE rows[i]]
               /\ UNCHANGED <<lastId, link, failed, faults>> /\ Log
      BY <3>1 DEF TypeOK, Present, Log
    <3>2. CASE Rejected
      BY <3>2 DEF Rejected, Error, Log, partnerVars, TypeOK, Present
    <3>3. QED
      BY <2>1, <3>1, <3>2
  <2>3. UNCHANGED <<config, docs, owner, changes, phase, known, todo, source, keys,
                    work, touched>> /\ doomed' = doomed \ {k}
    BY <1>10 DEF Delete, runVars
  <2>4. saved' \in [Name -> Id \cup {None}]
    BY <2>2 DEF TypeOK
  <2>5. QED
    BY <2>2, <2>3, <2>4 DEF TypeOK
<1>11. ASSUME UNCHANGED vars PROVE TypeOK'
  BY <1>11 DEF vars, siteVars, partnerVars, runVars, TypeOK, Present
<1>12. QED
  BY <1>1, <1>2, <1>3, <1>4, <1>5, <1>6, <1>7, <1>8, <1>9, <1>10, <1>11 DEF Next

LEMMA InitType == Init => TypeOK
<1> SUFFICES ASSUME Init PROVE TypeOK
  OBVIOUS
<1>1. 0 \in 0..MaxId /\ 0 \in 0..MaxChanges /\ 0 \in 0..MaxFaults
  OBVIOUS
<1>2. QED
  BY <1>1 DEF Init, TypeOK, Nothing, Present

\* Every reachable state is well typed: no identity exceeds the greatest one given,
\* whatever strategy numbers the rows.
THEOREM TypeCorrect == Spec => []TypeOK
BY InitType, NextType, PTL DEF Spec

-----------------------------------------------------------------------------
(* The plan of a batch *)

\* Outside the writing phase nothing is planned and every link is committed; a
\* definition that deletes has fetched everything when it writes.
Quiet ==
  /\ phase # "write" => work = {} /\ link = saved
  /\ phase = "idle" => known = Nothing(Id) /\ todo = {} /\ source = Nothing(Name)
  /\ config.delete /\ phase \in {"write", "end"} => todo = {}
  /\ \A n \in todo : source[n] = None

\* A planned document was fetched, for the rows Targets names, with the link it still
\* has, which is committed.
Planned ==
  \A n \in Name, i \in Id \cup {None} : <<n, i>> \in work =>
    /\ i \in Targets(n, source)
    /\ n \notin todo /\ source[n] # None
    /\ source[n].link = link[n] /\ link[n] = saved[n]

PlanInv == TypeOK /\ Quiet /\ Planned

LEMMA TargetsAlone ==
  ASSUME TypeOK, NEW n, NEW R
  PROVE  /\ None \notin Matches(n, R)
         /\ Matches(n, R) = {} => Targets(n, R) = {None}
         /\ Matches(n, R) # {} => Targets(n, R) \subseteq Matches(n, R)
<1>1. Matches(n, R) \subseteq Present(known)
  BY TargetsType DEF TypeOK
<1>2. None \notin Matches(n, R)
  BY <1>1 DEF Present, TypeOK
<1>3. CASE Matches(n, R) = {}
  BY <1>2, <1>3 DEF Targets
<1>4. CASE Matches(n, R) # {}
  <2>1. (CHOOSE i \in Matches(n, R) : TRUE) \in Matches(n, R)
    BY <1>4
  <2>2. QED
    BY <1>2, <1>4, <2>1 DEF Targets
<1>5. QED
  BY <1>3, <1>4

\* A document with another row to write has no single match.
LEMMA OnlyMatch ==
  ASSUME TypeOK, NEW n, NEW R, Cardinality(Matches(n, R)) = 1,
         NEW i \in Matches(n, R), NEW j \in Matches(n, R)
  PROVE  i = j
<1>1. Matches(n, R) \subseteq 1..MaxId
  BY TargetsType DEF TypeOK, Present, Id
<1>2. IsFiniteSet(Matches(n, R))
  BY <1>1, FS_Interval, FS_Subset
<1>3. QED
  BY <1>2, FS_Singleton

\* The links of the documents still to be written do not change.
LEMMA WriteKeepsPlan ==
  ASSUME PlanInv, NEW n \in Name, NEW i \in Id \cup {None}, Write(n, i),
         NEW m \in Name, NEW j \in Id \cup {None}, <<m, j>> \in work'
  PROVE  <<m, j>> \in work /\ link'[m] = link[m] /\ saved'[m] = saved[m]
<1>1. /\ <<n, i>> \in work /\ <<m, j>> \in work /\ <<m, j>> # <<n, i>>
      /\ saved' \in {saved, link'}
  BY WriteEffect DEF PlanInv
<1>2. \/ link' = link
      \/ /\ i = None \/ Cardinality(Matches(n, source)) = 1
         /\ \E r : link' = [link EXCEPT ![n] = r]
  BY WriteEffect DEF PlanInv
<1>3. i \in Targets(n, source) /\ j \in Targets(m, source) /\ link[m] = saved[m]
  BY <1>1 DEF PlanInv, Planned
<1>4. ASSUME m = n PROVE i # None /\ Cardinality(Matches(n, source)) # 1
  <2>1. i # j
    BY <1>1, <1>4
  <2>2. Matches(n, source) # {}
    BY <1>3, <1>4, <2>1, TargetsAlone DEF PlanInv
  <2>3. i \in Matches(n, source) /\ j \in Matches(n, source)
    BY <1>3, <1>4, <2>2, TargetsAlone DEF PlanInv
  <2>4. QED
    BY <2>1, <2>3, OnlyMatch, TargetsAlone DEF PlanInv
<1>5. link'[m] = link[m]
  BY <1>2, <1>4 DEF PlanInv, TypeOK
<1>6. QED
  BY <1>1, <1>3, <1>5

\* What fetching a batch reads and plans.
LEMMA FetchEffect ==
  ASSUME PlanInv, Fetch
  PROVE  \E B \in SUBSET todo :
           /\ config.delete => B = todo
           /\ todo' = todo \ B
           /\ source' =
                [n \in Name |->
                   IF n \in B /\ docs[n] \in Doc
                   THEN [key |-> docs[n].key, val |-> docs[n].val, link |-> link[n]]
                   ELSE source[n]]
           /\ \A n \in Name, i \in Id \cup {None} : <<n, i>> \in work' =>
                /\ n \in B /\ source'[n] # None
                /\ i \in Targets(n, source') /\ i \in Targets(n, source)'
<1>1. PICK B \in SUBSET todo :
        /\ IF config.delete THEN B = todo
           ELSE B # {} /\ Cardinality(B) <= BatchSize
        /\ todo' = todo \ B
        /\ source' =
             [n \in Name |->
                IF n \in B /\ docs[n] \in Doc
                THEN [key |-> docs[n].key, val |-> docs[n].val, link |-> link[n]]
                ELSE source[n]]
        /\ work' = UNION {{n} \X Targets(n, source') : n \in B \cap Present(source')}
  BY DEF Fetch
<1>2. ASSUME NEW n \in Name, NEW i \in Id \cup {None}, <<n, i>> \in work'
      PROVE  n \in B /\ source'[n] # None /\ i \in Targets(n, source')
  BY <1>1, <1>2 DEF Present
<1>3. \A n \in Name : Targets(n, source') = Targets(n, source)'
  BY DEF Fetch, Targets, Matches, Present
<1>4. \A n \in Name, i \in Id \cup {None} : <<n, i>> \in work' =>
        /\ n \in B /\ source'[n] # None
        /\ i \in Targets(n, source') /\ i \in Targets(n, source)'
  BY <1>2, <1>3
<1>5. config.delete => B = todo
  BY <1>1
<1> WITNESS B \in SUBSET todo
<1>6. QED
  BY <1>1, <1>4, <1>5

LEMMA NextPlan == PlanInv /\ [Next]_vars => PlanInv'
<1> SUFFICES ASSUME PlanInv, [Next]_vars PROVE PlanInv'
  OBVIOUS
<1>1. TypeOK /\ TypeOK'
  BY NextType DEF PlanInv
<1>3. ASSUME UNCHANGED <<config, known, source, work, link, saved, phase, todo>>
      PROVE  PlanInv'
  BY <1>1, <1>3 DEF PlanInv, Quiet, Planned, Targets, Matches, Present
<1>4. ASSUME NEW n \in Name, Edit(n) PROVE PlanInv'
  <2>1. UNCHANGED <<config, known, source, work, link, saved, phase, todo>>
    BY <1>4, <1>1, EditEffect
  <2>2. QED
    BY <1>3, <2>1
<1>5. ASSUME Insert PROVE PlanInv'
  BY <1>3, <1>5 DEF Insert, siteVars, runVars
<1>6. ASSUME NEW i \in Id, Vanish(i) PROVE PlanInv'
  BY <1>3, <1>6 DEF Vanish, siteVars, runVars
<1>7. ASSUME Start PROVE PlanInv'
  BY <1>1, <1>7 DEF Start, PlanInv, Quiet, Planned, siteVars, Nothing
<1>8. ASSUME Fetch PROVE PlanInv'
  <2>1. PICK B \in SUBSET todo :
          /\ config.delete => B = todo
          /\ todo' = todo \ B
          /\ source' =
               [n \in Name |->
                  IF n \in B /\ docs[n] \in Doc
                  THEN [key |-> docs[n].key, val |-> docs[n].val, link |-> link[n]]
                  ELSE source[n]]
          /\ \A n \in Name, i \in Id \cup {None} : <<n, i>> \in work' =>
               /\ n \in B /\ source'[n] # None
               /\ i \in Targets(n, source') /\ i \in Targets(n, source)'
    BY <1>8, FetchEffect
  <2>2. phase = "read" /\ phase' = "write" /\ UNCHANGED <<config, link, saved, known>>
    BY <1>8 DEF Fetch, siteVars
  <2>3. link = saved
    BY <2>2 DEF PlanInv, Quiet
  <2>4. Quiet'
    BY <1>1, <2>1, <2>2 DEF PlanInv, Quiet, TypeOK
  <2>5. ASSUME NEW n \in Name, NEW i \in Id \cup {None}, <<n, i>> \in work'
        PROVE  /\ i \in Targets(n, source)'
               /\ n \notin todo' /\ source'[n] # None
               /\ source'[n].link = link'[n] /\ link'[n] = saved'[n]
    <3>1. n \in B /\ source'[n] # None /\ i \in Targets(n, source)'
      BY <2>1, <2>5
    <3>2. CASE docs[n] \in Doc
      BY <2>1, <2>2, <2>3, <3>1, <3>2
    <3>3. CASE docs[n] \notin Doc
      <4>1. source'[n] = source[n]
        BY <2>1, <3>3
      <4>2. QED
        BY <3>1, <4>1 DEF PlanInv, Quiet
    <3>4. QED
      BY <3>2, <3>3
  <2>6. QED
    BY <1>1, <2>4, <2>5 DEF PlanInv, Planned
<1>9. ASSUME EndBatch PROVE PlanInv'
  <2>1. /\ work = {} /\ saved' = link /\ phase = "write" /\ phase' \in {"read", "end"}
        /\ phase' = "read" => todo # {}
        /\ UNCHANGED <<config, link, known, todo, source, work>>
    BY <1>9 DEF EndBatch, runVars
  <2>2. Quiet'
    BY <2>1 DEF PlanInv, Quiet
  <2>3. QED
    BY <1>1, <2>1, <2>2 DEF PlanInv, Planned
<1>10. ASSUME Finish PROVE PlanInv'
  <2>1. link = saved /\ UNCHANGED <<config, link, saved>>
    BY <1>10 DEF Finish, PlanInv, Quiet, siteVars
  <2>2. QED
    BY <1>1, <1>10, <2>1 DEF Finish, Leave, PlanInv, Quiet, Planned
<1>11. ASSUME Crash PROVE PlanInv'
  BY <1>1, <1>11 DEF Crash, Leave, PlanInv, Quiet, Planned
<1>12. ASSUME NEW n \in Name, NEW i \in Id \cup {None}, Write(n, i) PROVE PlanInv'
  <2>1. /\ phase = "write" /\ work' \subseteq work
        /\ UNCHANGED <<config, phase, known, todo, source>>
    BY <1>12, WriteEffect DEF PlanInv
  <2>2. Quiet'
    BY <2>1 DEF PlanInv, Quiet
  <2>3. ASSUME NEW m \in Name, NEW j \in Id \cup {None}, <<m, j>> \in work'
        PROVE  /\ j \in Targets(m, source)'
               /\ m \notin todo' /\ source'[m] # None
               /\ source'[m].link = link'[m] /\ link'[m] = saved'[m]
    <3>1. <<m, j>> \in work /\ link'[m] = link[m] /\ saved'[m] = saved[m]
      BY <1>12, <2>3, WriteKeepsPlan
    <3>2. /\ j \in Targets(m, source)
          /\ m \notin todo /\ source[m] # None
          /\ source[m].link = link[m] /\ link[m] = saved[m]
      BY <3>1 DEF PlanInv, Planned
    <3>3. Targets(m, source)' = Targets(m, source)
      BY <2>1 DEF Targets, Matches, Present
    <3>4. QED
      BY <2>1, <3>1, <3>2, <3>3
  <2>4. QED
    BY <1>1, <2>2, <2>3 DEF PlanInv, Planned
<1>13. ASSUME NEW k \in Key, Delete(k) PROVE PlanInv'
  <2>1. /\ work = {} /\ phase = "write"
        /\ UNCHANGED <<config, phase, known, todo, source, work>>
    BY <1>13 DEF Delete, runVars
  <2>2. QED
    BY <1>1, <2>1 DEF PlanInv, Quiet, Planned
<1>14. ASSUME UNCHANGED vars PROVE PlanInv'
  BY <1>3, <1>14 DEF vars, siteVars, runVars
<1>15. QED
  BY <1>4, <1>5, <1>6, <1>7, <1>8, <1>9, <1>10, <1>11, <1>12, <1>13, <1>14 DEF Next

LEMMA InitPlan == Init => PlanInv
BY InitType DEF Init, PlanInv, Quiet, Planned

LEMMA AlwaysPlan == Spec => []PlanInv
BY InitPlan, NextPlan, PTL DEF Spec

-----------------------------------------------------------------------------
(* A new row is linked *)

LEMMA CreateEffect ==
  ASSUME PlanInv, NEW n \in Name, Write(n, None), config.identity, ~failed',
         config.strategy = "connector_default" => source[n].link = None,
         NEW i \in Id, rows[i] = None, rows'[i] # None
  PROVE  link'[n] = i
<1>1. <<n, None>> \in work /\ source[n].link = link[n] /\ TypeOK
  BY DEF Write, PlanInv, Planned
<1>2. ~Skip /\ ~Error /\ ~Rejected
  BY DEF Skip, Error, Rejected, partnerVars
<1> DEFINE S == ForWrite(n)
<1>3. Upsert(n, S) /\ \E r \in Resolved(source[n].link, S) : Persist(n, r)
  BY <1>2 DEF Write, Create
<1>4. S \subseteq Present(rows)
  BY DEF ForWrite, WithId, WithKey
<1>5. S = {}
  <2>1. i \notin S
    BY <1>4 DEF Present
  <2>2. S # {} => rows'[i] = rows[i]
    BY <1>3, <2>1 DEF Upsert
  <2>3. QED
    BY <2>2
<1>6. rows' = [rows EXCEPT ![NewId] = [key |-> source[n].key, val |-> source[n].val,
                                       from |-> n]]
  BY <1>3, <1>5 DEF Upsert
<1>7. i = NewId
  BY <1>1, <1>6 DEF TypeOK
<1>8. Persist(n, NewId)
  BY <1>3, <1>5 DEF Resolved
<1>9. CASE NewId = source[n].link
  BY <1>1, <1>2, <1>7, <1>8, <1>9 DEF Persist
<1>10. CASE NewId # source[n].link
  <2>1. link' = [link EXCEPT ![n] = NewId]
    BY <1>2, <1>8, <1>10 DEF Persist
  <2>2. QED
    BY <1>1, <1>7, <2>1 DEF TypeOK
<1>11. QED
  BY <1>9, <1>10

\* Whatever the partner does, the insert for a document that matched no row leaves the
\* document with the identity of the new row, unless the record fails.
THEOREM NewRowsAreLinked == Spec => LinkResolved
<1> DEFINE Step ==
      work' # work /\ ~failed' /\ config.identity =>
        \A n \in {m \in Name : <<m, None>> \in work \ work'} :
          (config.strategy = "connector_default" => source[n].link = None) =>
            \A i \in Id : rows[i] = None /\ rows'[i] # None => link'[n] = i
<1>1. PlanInv /\ [Next]_vars => [Step]_vars
  <2> SUFFICES ASSUME PlanInv, [Next]_vars, work' # work, ~failed', config.identity,
                      NEW n \in Name, <<n, None>> \in work, <<n, None>> \notin work',
                      config.strategy = "connector_default" => source[n].link = None,
                      NEW i \in Id, rows[i] = None, rows'[i] # None
               PROVE  link'[n] = i
    BY DEF vars
  <2>1. CASE \E m \in Name, j \in Id \cup {None} : Write(m, j)
    <3>1. PICK m \in Name, j \in Id \cup {None} : Write(m, j)
      BY <2>1
    <3>2. m = n /\ j = None
      BY <3>1 DEF Write
    <3>3. QED
      BY <3>1, <3>2, CreateEffect
  <2>2. CASE Start \/ Fetch \/ EndBatch \/ Finish \/ Crash
    BY <2>2 DEF Start, Fetch, EndBatch, Finish, Crash, partnerVars
  <2>3. CASE (\E m \in Name : Edit(m)) \/ Insert \/ (\E j \in Id : Vanish(j))
               \/ (\E k \in Key : Delete(k)) \/ UNCHANGED vars
    BY <2>3 DEF Edit, Insert, Vanish, Delete, vars
  <2>4. QED
    BY <2>1, <2>2, <2>3 DEF Next
<1>2. QED
  BY <1>1, AlwaysPlan, PTL DEF Spec, LinkResolved

-----------------------------------------------------------------------------
(* Keys and identities have one owner *)

\* What the theorems below assume: the disciplines of Edit, Insert and Vanish, and no
\* definition that deletes rows while it numbers new ones by MAX + 1.
Disciplined ==
  ~Reuse /\ \A c \in Configs : ~(c.delete /\ c.strategy = "max_plus_one")

\* A key of the document, as it is or as it was read.
KeyOf(n, k) ==
  \/ docs[n] \in Doc /\ docs[n].key = k
  \/ source[n] # None /\ source[n].key = k

\* The row was inserted for the document, or the document is linked to it.
Belongs(i, n) == rows[i].from = n \/ link[n] = i \/ saved[n] = i

\* A document has its keys to itself, and its rows have no other; a row keeps the key
\* it was loaded with or gets another of the same owner.
Owned ==
  /\ \A n \in Name, k \in Key : KeyOf(n, k) => owner[k] = n
  /\ \A n \in Name, i \in Present(rows) : Belongs(i, n) => owner[rows[i].key] = n
  /\ \A i \in Present(known) \cap Present(rows) :
       \/ rows[i].key = known[i].key
       \/ owner[rows[i].key] # None /\ owner[rows[i].key] = owner[known[i].key]

\* No link and no row loaded has an identity that is still to be given.
Numbered ==
  /\ \A n \in Name :
       /\ link[n] # None => link[n] <= lastId
       /\ saved[n] # None => saved[n] <= lastId
  /\ \A i \in Present(known) : i <= lastId
  /\ config.strategy = "max_plus_one" => lastId = 0 \/ rows[lastId] # None
  /\ ~config.delete => doomed = {}

OwnInv == PlanInv /\ Owned /\ Numbered

LEMMA NewIdNext ==
  ASSUME OwnInv
  PROVE  NewId = lastId + 1
<1>1. CASE config.strategy = "max_plus_one"
  <2> DEFINE S == Present(rows) \cup {0}
  <2>1. S \in SUBSET (0..MaxId) /\ S # {}
    BY DEF OwnInv, PlanInv, TypeOK, Present, Id
  <2>2. Max(S) \in S /\ \A y \in S : y <= Max(S)
    BY <2>1, MaxIsGreatest
  <2>3. lastId \in S /\ lastId \in Nat /\ \A y \in S : y <= lastId
    BY <1>1 DEF OwnInv, Numbered, PlanInv, TypeOK, Present, Id
  <2>4. NewId = Max(S) + 1
    BY <1>1 DEF NewId
  <2>5. Max(S) \in 0..MaxId
    BY <2>1, <2>2
  <2> HIDE DEF S
  <2>6. QED
    BY <2>2, <2>3, <2>4, <2>5
<1>2. QED
  BY <1>1 DEF NewId

\* The statement for a match selects rows with keys of the document only.
LEMMA SelectedOwned ==
  ASSUME OwnInv, NEW n \in Name, NEW i \in Id \cup {None}, <<n, i>> \in work,
         source[n].key # NoKey, NEW j \in Selected(n, i)
  PROVE  rows[j] # None /\ owner[rows[j].key] = n
<1>1. j \in Present(rows) /\ j \in Id
  BY SelectedRows DEF OwnInv, PlanInv, Present, TypeOK
<1>2. /\ source[n].key \in Key /\ owner[source[n].key] = n
      /\ source[n].link = link[n] /\ i \in Targets(n, source)
  BY ReadType DEF OwnInv, PlanInv, Planned, Owned, KeyOf
<1>3. ASSUME rows[j].key = source[n].key PROVE owner[rows[j].key] = n
  BY <1>2, <1>3
<1>4. ASSUME link[n] = j PROVE owner[rows[j].key] = n
  BY <1>1, <1>4 DEF OwnInv, Owned, Belongs
<1>5. CASE i = None
  BY <1>2, <1>3, <1>4, <1>5 DEF Selected, ForWrite, WithId, WithKey, Present
<1>6. CASE i # None
  <2>1. i \in Matches(n, source)
    BY <1>2, <1>6, TargetsAlone DEF OwnInv, PlanInv
  <2>2. known[i] # None /\ i \in Id
    BY <2>1, TargetsType DEF OwnInv, PlanInv, Present, TypeOK
  <2>3. (config.identity /\ link[n] = i) \/ known[i].key = source[n].key
    BY <1>2, <2>1 DEF Matches
  <2>4. CASE config.identity
    <3>1. j = i
      BY <1>6, <2>4 DEF Selected, ForExistingMatch, WithId
    <3>2. CASE known[i].key = source[n].key
      <4>1. i \in Present(known) \cap Present(rows)
        BY <1>1, <2>2, <3>1 DEF OwnInv, PlanInv, Present, TypeOK
      <4>2. QED
        BY <1>1, <1>2, <3>1, <3>2, <4>1 DEF OwnInv, Owned, Present
    <3>3. QED
      BY <1>1, <1>4, <2>3, <3>1, <3>2 DEF Present
  <2>5. CASE ~config.identity
    <3>1. rows[j].key = known[i].key
      BY <1>6, <2>5 DEF Selected, ForExistingMatch, WithKey
    <3>2. QED
      BY <1>1, <1>3, <2>3, <2>5, <3>1 DEF Present
  <2>6. QED
    BY <2>4, <2>5
<1>7. QED
  BY <1>5, <1>6

\* A write either leaves the rows and links, or gives the selected rows, or the next
\* one if there is none, what was read of the document; only the document's link may
\* change, to a row it has just written or to an identity no row has.
LEMMA WriteRows ==
  ASSUME OwnInv, NEW n \in Name, NEW i \in Id \cup {None}, Write(n, i),
         ~UNCHANGED <<rows, lastId, link>>
  PROVE  /\ source[n].key \in Key /\ owner[source[n].key] = n
         /\ \A j \in Selected(n, i) :
              /\ j \in Id /\ rows[j] # None /\ owner[rows[j].key] = n
              /\ rows'[j] # None
              /\ rows'[j] = [key |-> source[n].key, val |-> source[n].val,
                             from |-> rows[j].from]
         /\ Selected(n, i) # {} =>
              lastId' = lastId /\ \A j \in Id \ Selected(n, i) : rows'[j] = rows[j]
         /\ Selected(n, i) = {} =>
              /\ lastId' = lastId + 1 /\ lastId' \in Id /\ rows[lastId'] = None
              /\ rows'[lastId'] = [key |-> source[n].key, val |-> source[n].val,
                                   from |-> n]
              /\ rows'[lastId'] # None
              /\ \A j \in Id \ {lastId'} : rows'[j] = rows[j]
         /\ \A m \in Name \ {n} : link'[m] = link[m]
         /\ link'[n] # link[n] =>
              /\ config.identity /\ link'[n] \in Id
              /\ i = None \/ Cardinality(Matches(n, source)) = 1
              /\ Selected(n, i) # {} => link'[n] \in Selected(n, i)
              /\ Selected(n, i) = {} =>
                   link'[n] = lastId' \/ (link'[n] <= lastId /\ rows[link'[n]] = None)
<1> DEFINE S == Selected(n, i)
<1>0. TypeOK
  BY DEF OwnInv, PlanInv
<1>1. /\ <<n, i>> \in work /\ source[n].key # NoKey
      /\ Upsert(n, S) /\ ~Exhausted(S)
      /\ \/ link' = link
         \/ /\ config.identity
            /\ i = None \/ Cardinality(Matches(n, source)) = 1
            /\ \E r \in Resolved(Reported(n, i), S) : link' = [link EXCEPT ![n] = r]
  BY <1>0, WriteEffect
<1>2. source[n].key \in Key /\ owner[source[n].key] = n
  BY <1>0, <1>1, ReadType DEF OwnInv, PlanInv, Planned, Owned, KeyOf
<1>3. \A j \in S : j \in Id /\ rows[j] # None /\ owner[rows[j].key] = n
  BY <1>0, <1>1, SelectedOwned, SelectedRows DEF Present, TypeOK
<1>4. S # {} => /\ lastId' = lastId
                /\ \A j \in Id \ S : rows'[j] = rows[j]
                /\ \A j \in S : rows'[j] = [key |-> source[n].key, val |-> source[n].val,
                                            from |-> rows[j].from]
  BY <1>1, <1>3 DEF Upsert
<1>5. S = {} => /\ lastId' = lastId + 1 /\ lastId' \in Id /\ rows[lastId'] = None
                /\ rows'[lastId'] = [key |-> source[n].key, val |-> source[n].val,
                                     from |-> n]
                /\ \A j \in Id \ {lastId'} : rows'[j] = rows[j]
  <2> SUFFICES ASSUME S = {}
               PROVE  /\ lastId' = lastId + 1 /\ lastId' \in Id /\ rows[lastId'] = None
                      /\ rows'[lastId'] = [key |-> source[n].key,
                                           val |-> source[n].val, from |-> n]
                      /\ \A j \in Id \ {lastId'} : rows'[j] = rows[j]
    OBVIOUS
  <2>1. NewId = lastId + 1 /\ NewId <= MaxId
    BY <1>0, <1>1, NewIdNext, NewIdFree DEF Exhausted
  <2>2. NewId \in Id /\ rows[NewId] = None
    BY <1>0, <2>1, NewIdFree
  <2>3. lastId' = NewId
    BY <1>0, <1>1, <2>1 DEF Upsert, TypeOK
  <2>4. rows' = [rows EXCEPT ![NewId] = [key |-> source[n].key, val |-> source[n].val,
                                         from |-> n]]
    BY <1>1 DEF Upsert
  <2> HIDE DEF S
  <2>5. QED
    BY <1>0, <2>1, <2>2, <2>3, <2>4 DEF TypeOK
<1>6. \A m \in Name \ {n} : link'[m] = link[m]
  BY <1>0, <1>1 DEF TypeOK
<1>7. ASSUME link'[n] # link[n]
      PROVE  /\ config.identity /\ link'[n] \in Id
             /\ i = None \/ Cardinality(Matches(n, source)) = 1
             /\ S # {} => link'[n] \in S
             /\ S = {} => link'[n] = lastId' \/ (link'[n] <= lastId /\ rows[link'[n]] = None)
  <2>1. PICK r \in Resolved(Reported(n, i), S) : link' = [link EXCEPT ![n] = r]
    BY <1>1, <1>7
  <2>2. link'[n] = r /\ r \in Id
    BY <1>0, <1>1, <2>1, ResolvedType DEF TypeOK
  <2>3. config.identity /\ (i = None \/ Cardinality(Matches(n, source)) = 1)
    BY <1>1, <1>7
  <2>4. S # {} => r \in S
    BY <2>1 DEF Resolved
  <2>5. ASSUME S = {} PROVE r = lastId' \/ (r <= lastId /\ rows[r] = None)
    <3>1. r = NewId \/ r = Reported(n, i)
      BY <2>1, <2>5 DEF Resolved
    <3>2. CASE r = NewId
      BY <1>5, <2>5, <3>2, NewIdNext
    <3>3. CASE r = Reported(n, i) /\ i = None
      <4>1. r = source[n].link /\ r = link[n]
        BY <1>1, <2>3, <3>3 DEF Reported, OwnInv, PlanInv, Planned
      <4>2. QED
        BY <1>7, <2>2, <4>1
    <3>4. CASE r = Reported(n, i) /\ i # None
      <4>1. r = i /\ WithId(r) = {}
        BY <2>3, <2>5, <3>4 DEF Reported, Selected, ForExistingMatch
      <4>2. rows[r] = None
        BY <1>0, <2>2, <4>1 DEF WithId, Present, TypeOK
      <4>3. i \in Targets(n, source)
        BY <1>1 DEF OwnInv, PlanInv, Planned
      <4>4. r \in Present(known)
        BY <1>0, <2>2, <4>1, <4>3, TargetsType DEF TypeOK
      <4>5. QED
        BY <4>2, <4>4 DEF OwnInv, Numbered
    <3>5. QED
      BY <3>1, <3>2, <3>3, <3>4
  <2>6. QED
    BY <2>2, <2>3, <2>4, <2>5
<1>8. ASSUME NEW f \in Name \cup {None}
      PROVE  [key |-> source[n].key, val |-> source[n].val, from |-> f] # None
  <2>1. source[n].val \in Val
    BY <1>0, <1>1, ReadType
  <2>2. [key |-> source[n].key, val |-> source[n].val, from |-> f] \in Row
    BY <1>2, <2>1 DEF Row
  <2>3. QED
    BY <2>2
<1>9. \A j \in S : rows[j].from \in Name \cup {None}
  BY <1>0, <1>3 DEF TypeOK, Row
<1>10. (\A j \in S : rows'[j] # None) /\ (S = {} => rows'[lastId'] # None)
  BY <1>4, <1>5, <1>8, <1>9
<1> HIDE DEF S
<1>11. QED
  BY <1>2, <1>3, <1>4, <1>5, <1>6, <1>7, <1>10 DEF S

\* A row that a write changes has what was read of the document; it had a key of the
\* document before, or is new.
LEMMA ChangedRow ==
  ASSUME OwnInv, NEW n \in Name, NEW i \in Id \cup {None}, Write(n, i),
         NEW j \in Id, rows'[j] # rows[j]
  PROVE  /\ source[n].key \in Key /\ owner[source[n].key] = n
         /\ rows'[j] # None
         /\ rows'[j].key = source[n].key /\ rows'[j].val = source[n].val
         /\ \/ /\ j \in Selected(n, i)
               /\ rows[j] # None /\ owner[rows[j].key] = n
               /\ rows'[j].from = rows[j].from
            \/ /\ Selected(n, i) = {} /\ lastId' = lastId + 1 /\ j = lastId'
               /\ rows[j] = None /\ rows'[j].from = n
<1> DEFINE S == Selected(n, i)
<1>1. ~UNCHANGED <<rows, lastId, link>>
  OBVIOUS
<1>2. source[n].key \in Key /\ owner[source[n].key] = n
  BY <1>1, WriteRows
<1>3. \A x \in S :
        /\ x \in Id /\ rows[x] # None /\ owner[rows[x].key] = n
        /\ rows'[x] # None
        /\ rows'[x] = [key |-> source[n].key, val |-> source[n].val,
                       from |-> rows[x].from]
  BY <1>1, WriteRows
<1>4. S # {} => \A x \in Id \ S : rows'[x] = rows[x]
  BY <1>1, WriteRows
<1>5. S = {} => /\ lastId' = lastId + 1 /\ rows[lastId'] = None /\ rows'[lastId'] # None
                /\ rows'[lastId'] = [key |-> source[n].key, val |-> source[n].val,
                                     from |-> n]
                /\ \A x \in Id \ {lastId'} : rows'[x] = rows[x]
  BY <1>1, WriteRows
<1> HIDE DEF S
<1>6. CASE j \in S
  <2>1. rows'[j] = [key |-> source[n].key, val |-> source[n].val, from |-> rows[j].from]
    BY <1>3, <1>6
  <2>2. rows'[j].key = source[n].key /\ rows'[j].val = source[n].val
        /\ rows'[j].from = rows[j].from
    BY <2>1
  <2>3. QED
    BY <1>2, <1>3, <1>6, <2>2 DEF S
<1>7. CASE S = {}
  <2>1. j = lastId'
    BY <1>5, <1>7
  <2>2. rows'[j] = [key |-> source[n].key, val |-> source[n].val, from |-> n]
    BY <1>5, <1>7, <2>1
  <2>3. rows'[j].key = source[n].key /\ rows'[j].val = source[n].val
        /\ rows'[j].from = n
    BY <2>2
  <2>4. QED
    BY <1>2, <1>5, <1>7, <2>1, <2>3 DEF S
<1>8. QED
  BY <1>4, <1>6, <1>7

LEMMA WriteKeepsOwn ==
  ASSUME OwnInv, NEW n \in Name, NEW i \in Id \cup {None}, Write(n, i)
  PROVE  Owned' /\ Numbered'
<1> DEFINE S == Selected(n, i)
<1>0. TypeOK /\ lastId \in Nat
  BY DEF OwnInv, PlanInv, TypeOK
<1>1. /\ UNCHANGED <<config, docs, owner, known, source, doomed>>
      /\ saved' \in {saved, link'}
  BY <1>0, WriteEffect
<1>2. CASE UNCHANGED <<rows, lastId, link>>
  <2>1. \A m \in Name, j \in Id : Belongs(j, m)' => Belongs(j, m)
    BY <1>1, <1>2 DEF Belongs
  <2>2. Owned'
    BY <1>1, <1>2, <2>1 DEF OwnInv, Owned, KeyOf, Present, TypeOK, PlanInv
  <2>3. Numbered'
    BY <1>1, <1>2 DEF OwnInv, Numbered, Present
  <2>4. QED
    BY <2>2, <2>3
<1>3. CASE ~UNCHANGED <<rows, lastId, link>>
  <2>1. /\ source[n].key \in Key /\ owner[source[n].key] = n
        /\ \A j \in S :
             /\ j \in Id /\ rows[j] # None /\ owner[rows[j].key] = n
             /\ rows'[j] # None
             /\ rows'[j] = [key |-> source[n].key, val |-> source[n].val,
                            from |-> rows[j].from]
    BY <1>3, WriteRows
  <2>2. S # {} => lastId' = lastId /\ \A j \in Id \ S : rows'[j] = rows[j]
    BY <1>3, WriteRows
  <2>3. S = {} =>
          /\ lastId' = lastId + 1 /\ lastId' \in Id /\ rows'[lastId'] # None
          /\ rows'[lastId'] = [key |-> source[n].key, val |-> source[n].val,
                               from |-> n]
          /\ \A j \in Id \ {lastId'} : rows'[j] = rows[j]
    BY <1>3, WriteRows
  <2>4. \A m \in Name \ {n} : link'[m] = link[m]
    BY <1>3, WriteRows
  <2>5. link'[n] # link[n] =>
          /\ link'[n] \in Id
          /\ S # {} => link'[n] \in S
          /\ S = {} => link'[n] = lastId' \/ (link'[n] <= lastId /\ rows[link'[n]] = None)
    BY <1>3, WriteRows
  <2> HIDE DEF S
  <2>6. lastId <= lastId'
    BY <1>0, <2>2, <2>3
  <2>7. \A m \in Name : saved'[m] = saved[m] \/ saved'[m] = link'[m]
    BY <1>1
  <2>8. \A m \in Name : /\ link[m] # None => link[m] <= lastId
                        /\ saved[m] # None => saved[m] <= lastId
                        /\ link[m] \in Id \cup {None} /\ saved[m] \in Id \cup {None}
    BY <1>0 DEF OwnInv, Numbered, TypeOK
  <2>9. \A m \in Name : /\ link'[m] # None => link'[m] <= lastId'
                        /\ saved'[m] # None => saved'[m] <= lastId'
    <3>1. \A j \in S : j \in Nat /\ j <= lastId
      <4>1. \A j \in S : j \in Present(rows)
        BY <1>0, <2>1 DEF Present, TypeOK
      <4>2. QED
        BY <1>0, <4>1 DEF TypeOK, Present, Id
    <3>2. ASSUME NEW m \in Name, link'[m] # None PROVE link'[m] <= lastId'
      <4>1. CASE link'[m] = link[m]
        BY <1>0, <2>2, <2>3, <2>8, <3>2, <4>1 DEF Id
      <4>2. CASE link'[m] # link[m]
        <5>1. m = n
          BY <2>4, <4>2
        <5>2. link'[m] \in Nat
          BY <2>5, <4>2, <5>1 DEF Id
        <5>3. CASE S # {}
          BY <2>2, <2>5, <3>1, <4>2, <5>1, <5>3
        <5>4. CASE S = {}
          BY <1>0, <2>3, <2>5, <4>2, <5>1, <5>2, <5>4
        <5>5. QED
          BY <5>3, <5>4
      <4>3. QED
        BY <4>1, <4>2
    <3>3. ASSUME NEW m \in Name, saved'[m] # None PROVE saved'[m] <= lastId'
      <4>1. CASE saved'[m] = saved[m]
        BY <1>0, <2>2, <2>3, <2>8, <3>3, <4>1 DEF Id
      <4>2. QED
        BY <2>7, <3>2, <3>3, <4>1
    <3>4. QED
      BY <3>2, <3>3
  <2>10. ASSUME NEW m \in Name, NEW j \in Present(rows)', Belongs(j, m)'
         PROVE  owner[rows'[j].key] = m
    <3>1. j \in Id /\ rows'[j] # None
      BY <1>0, NextType, WriteType DEF Present, TypeOK
    <3>2. link'[m] = j => m = n \/ link[m] = j
      BY <2>4
    <3>3. rows'[j].from = m \/ link'[m] = j \/ saved[m] = j
      BY <2>7, <2>10 DEF Belongs
    <3>4. ASSUME rows[j] # None, rows[j].from = m \/ link[m] = j \/ saved[m] = j
          PROVE  owner[rows[j].key] = m
      BY <1>0, <3>1, <3>4 DEF OwnInv, Owned, Belongs, Present, TypeOK
    <3>5. CASE j \in S
      <4>0. rows'[j] = [key |-> source[n].key, val |-> source[n].val,
                        from |-> rows[j].from] /\ rows[j] # None
        BY <2>1, <3>5
      <4>1. rows'[j].key = source[n].key /\ rows'[j].from = rows[j].from /\ rows[j] # None
        BY <4>0
      <4>2. m = n \/ rows[j].from = m \/ link[m] = j \/ saved[m] = j
        BY <3>2, <3>3, <4>1
      <4>3. m = n
        BY <2>1, <3>4, <3>5, <4>1, <4>2
      <4>4. QED
        BY <2>1, <4>1, <4>3
    <3>6. CASE S = {} /\ j = lastId'
      <4>1. rows'[j].key = source[n].key /\ rows'[j].from = n
        BY <2>3, <3>6
      <4>2. link[m] # j /\ saved[m] # j
        <5>1. j = lastId + 1
          BY <2>3, <3>6
        <5>2. j # None
          BY <3>1
        <5>3. ~(j <= lastId)
          BY <1>0, <5>1
        <5>4. QED
          BY <2>8, <5>2, <5>3
      <4>3. m = n
        BY <3>2, <3>3, <4>1, <4>2
      <4>4. QED
        BY <2>1, <4>1, <4>3
    <3>7. CASE j \notin S /\ ~(S = {} /\ j = lastId')
      <4>1. rows'[j] = rows[j]
        BY <2>2, <2>3, <3>1, <3>7
      <4>2. link'[m] = j => link[m] = j
        BY <2>4, <2>5, <3>1, <3>7, <4>1
      <4>3. QED
        BY <3>1, <3>3, <3>4, <4>1, <4>2
    <3>8. QED
      BY <3>5, <3>6, <3>7
  <2>11. ASSUME NEW j \in Present(known) \cap Present(rows)'
         PROVE  \/ rows'[j].key = known[j].key
                \/ owner[rows'[j].key] # None
                   /\ owner[rows'[j].key] = owner[known[j].key]
    <3>1. j \in Id /\ rows'[j] # None /\ known[j] # None
      BY <1>0 DEF Present, TypeOK
    <3>2. rows[j] # None => \/ rows[j].key = known[j].key
                            \/ /\ owner[rows[j].key] # None
                               /\ owner[rows[j].key] = owner[known[j].key]
      BY <1>0, <3>1 DEF OwnInv, Owned, Present, TypeOK
    <3>3. CASE j \in S
      <4>0. rows'[j] = [key |-> source[n].key, val |-> source[n].val,
                        from |-> rows[j].from] /\ rows[j] # None
        BY <2>1, <3>3
      <4>1. owner[rows'[j].key] = n /\ owner[rows[j].key] = n /\ rows[j] # None
        BY <2>1, <3>3, <4>0
      <4>2. QED
        BY <3>2, <4>1
    <3>4. CASE S = {} /\ j = lastId'
      <4>1. j <= lastId /\ j = lastId + 1
        BY <2>3, <3>1, <3>4 DEF OwnInv, Numbered, Present
      <4>2. QED
        BY <1>0, <4>1
    <3>5. CASE j \notin S /\ ~(S = {} /\ j = lastId')
      <4>1. rows'[j] = rows[j]
        BY <2>2, <2>3, <3>1, <3>5
      <4>2. QED
        BY <3>1, <3>2, <4>1
    <3>6. QED
      BY <3>3, <3>4, <3>5
  <2>12. Owned'
    <3>1. \A m \in Name, k \in Key : KeyOf(m, k)' => owner'[k] = m
      BY <1>1 DEF OwnInv, Owned, KeyOf
    <3>2. QED
      BY <1>1, <2>10, <2>11, <3>1 DEF Owned, Present
  <2>13. config.strategy = "max_plus_one" => lastId' = 0 \/ rows'[lastId'] # None
    <3>1. CASE S # {}
      <4>1. lastId' = lastId
        BY <2>2, <3>1
      <4>2. CASE lastId \in S
        BY <2>1, <4>1, <4>2
      <4>3. CASE lastId \notin S
        BY <1>0, <2>2, <3>1, <4>1, <4>3 DEF OwnInv, Numbered, TypeOK, Id
      <4>4. QED
        BY <4>2, <4>3
    <3>2. CASE S = {}
      BY <2>3, <3>2
    <3>3. QED
      BY <3>1, <3>2
  <2>14. \A j \in Present(known)' : j <= lastId'
    <3>1. \A j \in Present(known) : j \in Nat /\ j <= lastId
      BY <1>0 DEF OwnInv, Numbered, Present, TypeOK, Id
    <3>2. lastId' = lastId \/ lastId' = lastId + 1
      BY <2>2, <2>3
    <3>3. \A j \in Present(known) : j <= lastId'
      BY <1>0, <3>1, <3>2
    <3>4. Present(known)' = Present(known)
      BY <1>1 DEF Present
    <3>5. QED
      BY <3>3, <3>4
  <2>15. Numbered'
    BY <1>1, <2>9, <2>13, <2>14 DEF Numbered, OwnInv
  <2>16. QED
    BY <2>12, <2>15
<1>4. QED
  BY <1>2, <1>3

\* A key once owned keeps its owner.
LEMMA EditOwner ==
  ASSUME TypeOK, ~Reuse, NEW n \in Name, Edit(n)
  PROVE  /\ \A k \in Key : owner[k] # None => owner'[k] = owner[k]
         /\ \A m \in Name \ {n} : docs'[m] = docs[m]
         /\ docs'[n] \in Doc /\ docs'[n].key # NoKey =>
              owner'[docs'[n].key] = n /\ OwnKey(n, docs'[n].key)
<1>1. PICK d \in Doc \cup {Gone} :
        /\ docs' = [docs EXCEPT ![n] = d]
        /\ IF d = Gone \/ d.key = NoKey THEN owner' = owner
           ELSE /\ Reuse \/ OwnKey(n, d.key)
                /\ owner' = [owner EXCEPT ![d.key] = IF @ = None THEN n ELSE @]
  BY EditEffect
<1>2. docs'[n] = d /\ \A m \in Name \ {n} : docs'[m] = docs[m]
  BY <1>1 DEF TypeOK
<1>3. CASE d = Gone \/ d.key = NoKey
  BY <1>1, <1>2, <1>3
<1>4. CASE ~(d = Gone \/ d.key = NoKey)
  <2>1. d \in Doc /\ d.key \in Key /\ OwnKey(n, d.key)
    BY <1>1, <1>4 DEF Doc
  <2>2. owner' = [owner EXCEPT ![d.key] = IF @ = None THEN n ELSE @]
    BY <1>1, <1>4
  <2>3. owner[d.key] \in {None, n}
    BY <2>1 DEF OwnKey
  <2>4. \A k \in Key : owner[k] # None => owner'[k] = owner[k]
    BY <2>2 DEF TypeOK
  <2>5. owner'[d.key] = n
    BY <2>1, <2>2, <2>3 DEF TypeOK
  <2>6. QED
    BY <1>2, <2>1, <2>4, <2>5
<1>5. QED
  BY <1>3, <1>4

LEMMA NextOwn ==
  ASSUME Disciplined
  PROVE  OwnInv /\ [Next]_vars => OwnInv'
<1> SUFFICES ASSUME OwnInv, [Next]_vars PROVE OwnInv'
  OBVIOUS
<1> USE DEF Disciplined
<1>0. TypeOK /\ PlanInv /\ PlanInv' /\ TypeOK'
  BY NextPlan DEF OwnInv, PlanInv
<1>1. SUFFICES Owned' /\ Numbered'
  BY <1>0 DEF OwnInv
<1>2. ASSUME NEW n \in Name, Edit(n) PROVE Owned' /\ Numbered'
  <2>1. UNCHANGED <<config, link, saved, rows, lastId, known, source, doomed>>
    BY <1>0, <1>2, EditEffect
  <2>2. /\ \A k \in Key : owner[k] # None => owner'[k] = owner[k]
        /\ \A m \in Name \ {n} : docs'[m] = docs[m]
        /\ docs'[n] \in Doc /\ docs'[n].key # NoKey => owner'[docs'[n].key] = n
    BY <1>0, <1>2, EditOwner
  <2>3. ASSUME NEW m \in Name, NEW k \in Key, KeyOf(m, k)' PROVE owner'[k] = m
    <3>1. CASE KeyOf(m, k)
      <4>1. owner[k] = m
        BY <3>1 DEF OwnInv, Owned
      <4>2. QED
        BY <2>2, <4>1
    <3>2. CASE ~KeyOf(m, k)
      <4>1. docs'[m] \in Doc /\ docs'[m].key = k /\ m = n
        BY <2>1, <2>2, <2>3, <3>2 DEF KeyOf
      <4>2. QED
        BY <2>2, <4>1
    <3>3. QED
      BY <3>1, <3>2
  <2>4. \A i \in Present(rows) : rows[i].key \in Key
    BY <1>0 DEF TypeOK, Present, Row
  <2>5. ASSUME NEW m \in Name, NEW i \in Present(rows), Belongs(i, m)
        PROVE  owner'[rows[i].key] = m
    <3>1. owner[rows[i].key] = m
      BY <2>5 DEF OwnInv, Owned
    <3>2. QED
      BY <2>2, <2>4, <3>1
  <2>6. \A i \in Present(known) : known[i].key \in Key
    BY <1>0 DEF TypeOK, Present, Row
  <2>7. ASSUME NEW i \in Present(known) \cap Present(rows)
        PROVE  \/ rows[i].key = known[i].key
               \/ owner'[rows[i].key] # None
                  /\ owner'[rows[i].key] = owner'[known[i].key]
    BY <2>2, <2>4, <2>6 DEF OwnInv, Owned
  <2>8. \A m \in Name : \A i : Belongs(i, m)' <=> Belongs(i, m)
    BY <2>1 DEF Belongs
  <2>9. Present(rows)' = Present(rows) /\ Present(known)' = Present(known)
    BY <2>1 DEF Present
  <2>10. Owned'
    BY <2>1, <2>3, <2>5, <2>7, <2>8, <2>9 DEF Owned
  <2>11. QED
    BY <2>1, <2>9, <2>10 DEF OwnInv, Numbered
<1>3. ASSUME Insert PROVE Owned' /\ Numbered'
  <2>1. /\ lastId' = lastId + 1 /\ lastId + 1 \in Id /\ lastId \in Nat
        /\ UNCHANGED <<config, docs, owner, link, saved, known, source, doomed>>
    BY <1>0, <1>3 DEF Insert, siteVars, runVars, TypeOK, Id
  <2>2. PICK k \in Key, v \in Val :
          rows' = [rows EXCEPT ![lastId + 1] = [key |-> k, val |-> v, from |-> None]]
    BY <1>3 DEF Insert
  <2>3. \A i \in Id \ {lastId + 1} : rows'[i] = rows[i]
    BY <1>0, <2>2 DEF TypeOK
  <2>4. rows'[lastId + 1] = [key |-> k, val |-> v, from |-> None]
    BY <1>0, <2>1, <2>2 DEF TypeOK
  <2>5. rows'[lastId + 1] # None
    BY <2>4 DEF Row
  <2>6. \A m \in Name : link[m] # lastId + 1 /\ saved[m] # lastId + 1
    <3>1. ~(lastId + 1 <= lastId) /\ lastId + 1 # None
      BY <2>1
    <3>2. QED
      BY <3>1 DEF OwnInv, Numbered
  <2>7. ASSUME NEW m \in Name, NEW i \in Present(rows)', Belongs(i, m)'
        PROVE  owner'[rows'[i].key] = m
    <3>1. i \in Id /\ rows'[i] # None
      BY <1>0 DEF Present, TypeOK
    <3>2. i # lastId + 1
      <4>1. ASSUME i = lastId + 1 PROVE FALSE
        <5>1. rows'[i].from = None
          BY <2>4, <4>1
        <5>2. QED
          BY <2>1, <2>6, <2>7, <4>1, <5>1 DEF Belongs
      <4>2. QED
        BY <4>1
    <3>3. rows'[i] = rows[i] /\ i \in Present(rows)
      BY <1>0, <2>3, <3>1, <3>2 DEF Present, TypeOK
    <3>4. Belongs(i, m)
      BY <2>1, <2>7, <3>3 DEF Belongs
    <3>5. QED
      BY <2>1, <3>3, <3>4 DEF OwnInv, Owned
  <2>8. ASSUME NEW i \in Present(known)' \cap Present(rows)'
        PROVE  \/ rows'[i].key = known'[i].key
               \/ owner'[rows'[i].key] # None
                  /\ owner'[rows'[i].key] = owner'[known'[i].key]
    <3>1. i \in Present(known) /\ i \in Id
      BY <1>0, <2>1 DEF Present, TypeOK
    <3>2. i # lastId + 1
      BY <2>1, <3>1 DEF OwnInv, Numbered
    <3>3. i \in Present(rows) /\ rows'[i] = rows[i]
      BY <1>0, <2>3, <3>1, <3>2 DEF Present, TypeOK
    <3>4. QED
      BY <2>1, <3>1, <3>3 DEF OwnInv, Owned
  <2>9. Owned'
    <3>1. \A m \in Name, j \in Key : KeyOf(m, j)' => owner'[j] = m
      BY <2>1 DEF OwnInv, Owned, KeyOf
    <3>2. QED
      BY <2>7, <2>8, <3>1 DEF Owned
  <2>10. Numbered'
    <3>1. \A x \in Id : x <= lastId => x <= lastId + 1
      BY <2>1 DEF Id
    <3>2. \A m \in Name : link[m] \in Id \cup {None} /\ saved[m] \in Id \cup {None}
      BY <1>0 DEF TypeOK
    <3>3. \A m \in Name :
            /\ link'[m] # None => link'[m] <= lastId'
            /\ saved'[m] # None => saved'[m] <= lastId'
      BY <2>1, <3>1, <3>2 DEF OwnInv, Numbered
    <3>4. \A i \in Present(known)' : i <= lastId'
      BY <1>0, <2>1, <3>1 DEF OwnInv, Numbered, Present, TypeOK
    <3>5. QED
      BY <2>1, <2>5, <3>3, <3>4 DEF OwnInv, Numbered
  <2>11. QED
    BY <2>9, <2>10
<1>4. ASSUME Present(rows)' \subseteq Present(rows),
             \A i \in Present(rows)' : rows'[i] = rows[i],
             config.strategy = "max_plus_one" => lastId = 0 \/ rows'[lastId] # None,
             saved' \in {saved, link},
             UNCHANGED <<config, docs, owner, link, lastId, known, source>>,
             doomed' \subseteq doomed
      PROVE  Owned' /\ Numbered'
  <2>1. \A m \in Name, i \in Present(rows)' : Belongs(i, m)' => Belongs(i, m)
    BY <1>4 DEF Belongs
  <2>2. Owned'
    <3>1. \A m \in Name, j \in Key : KeyOf(m, j)' => owner'[j] = m
      BY <1>4 DEF OwnInv, Owned, KeyOf
    <3>2. \A m \in Name, i \in Present(rows)' : Belongs(i, m)' => owner'[rows'[i].key] = m
      BY <1>4, <2>1 DEF OwnInv, Owned
    <3>3. Present(known)' = Present(known)
      BY <1>4 DEF Present
    <3>4. QED
      BY <1>4, <3>1, <3>2, <3>3 DEF OwnInv, Owned
  <2>3. Numbered'
    <3>1. \A m \in Name : saved'[m] \in {saved[m], link[m]}
      BY <1>4
    <3>2. QED
      BY <1>4, <3>1 DEF OwnInv, Numbered, Present
  <2>4. QED
    BY <2>2, <2>3
<1>5. ASSUME NEW i \in Id, Vanish(i) PROVE Owned' /\ Numbered'
  <2>1. /\ rows' = [rows EXCEPT ![i] = None]
        /\ UNCHANGED <<config, docs, owner, link, saved, lastId, known, source, doomed>>
        /\ Spare(i) /\ i \in Present(rows)
    BY <1>0, <1>5 DEF Vanish, siteVars, runVars, Present, TypeOK
  <2>2. Present(rows)' \subseteq Present(rows) /\ \A j \in Present(rows)' : rows'[j] = rows[j]
    BY <1>0, <2>1 DEF Present, TypeOK
  <2>3. ASSUME config.strategy = "max_plus_one", lastId # 0 PROVE rows'[lastId] # None
    <3>1. i < Max(Present(rows))
      BY <2>1, <2>3 DEF Spare
    <3>2. Max(Present(rows)) \in Present(rows)
      <4>1. Present(rows) \in SUBSET (0..MaxId) /\ Present(rows) # {}
        <5>1. Present(rows) \in SUBSET (0..MaxId)
          BY <1>0 DEF TypeOK, Present, Id
        <5>2. QED
          BY <2>1, <5>1
      <4>2. QED
        BY <4>1, MaxIsGreatest
    <3>3. Max(Present(rows)) <= lastId /\ Max(Present(rows)) \in Nat
      BY <1>0, <3>2 DEF TypeOK, Present, Id
    <3>4. i # lastId /\ lastId \in Id
      BY <1>0, <2>3, <3>1, <3>3 DEF TypeOK, Id
    <3>5. QED
      BY <1>0, <2>1, <2>3, <3>4 DEF OwnInv, Numbered, TypeOK
  <2>4. QED
    BY <1>4, <2>1, <2>2, <2>3
<1>6. ASSUME NEW k \in Key, Delete(k) PROVE Owned' /\ Numbered'
  <2>1. /\ UNCHANGED <<config, docs, owner, known, source>>
        /\ k \in doomed /\ doomed' = doomed \ {k}
    BY <1>6 DEF Delete, runVars
  <2>2. config.strategy # "max_plus_one"
    BY <1>0, <2>1 DEF OwnInv, Numbered, TypeOK
  <2>3. \/ rows' = [i \in Id |-> IF i \in WithKey(k) THEN None ELSE rows[i]]
           /\ UNCHANGED <<lastId, link>> /\ Log
        \/ UNCHANGED <<rows, lastId, link>> /\ Log
    BY <1>6 DEF Delete, Rejected, Error, partnerVars
  <2>4. saved' \in {saved, link} /\ UNCHANGED <<lastId, link>>
    BY <2>3 DEF Log
  <2>5. Present(rows)' \subseteq Present(rows) /\ \A j \in Present(rows)' : rows'[j] = rows[j]
    BY <1>0, <2>3 DEF Present, TypeOK
  <2>6. QED
    BY <1>4, <2>1, <2>2, <2>4, <2>5
<1>7. ASSUME Start PROVE Owned' /\ Numbered'
  <2>1. UNCHANGED <<config, docs, owner, link, saved, rows, lastId, source, doomed>>
    BY <1>7 DEF Start, siteVars, partnerVars
  <2>2. PICK L : known' = [i \in Id |-> IF i \in L THEN rows[i] ELSE None]
    BY <1>7 DEF Start
  <2>3. \A i \in Present(known)' : i \in Present(rows) /\ known'[i] = rows[i]
    BY <1>0, <2>2 DEF Present, TypeOK
  <2>4. \A m \in Name : \A i : Belongs(i, m)' <=> Belongs(i, m)
    BY <2>1 DEF Belongs
  <2>5. Owned'
    <3>1. \A m \in Name, j \in Key : KeyOf(m, j)' => owner'[j] = m
      BY <2>1 DEF OwnInv, Owned, KeyOf
    <3>2. Present(rows)' = Present(rows)
      BY <2>1 DEF Present
    <3>3. QED
      BY <2>1, <2>3, <2>4, <3>1, <3>2 DEF OwnInv, Owned
  <2>6. Numbered'
    BY <1>0, <2>1, <2>3 DEF OwnInv, Numbered, TypeOK
  <2>7. QED
    BY <2>5, <2>6
<1>8. ASSUME Fetch PROVE Owned' /\ Numbered'
  <2>1. UNCHANGED <<config, docs, owner, link, saved, rows, lastId, known>>
        /\ doomed' = IF config.delete THEN {known[i].key : i \in Present(known)} \ keys'
                     ELSE {}
    BY <1>8 DEF Fetch, siteVars, partnerVars
  <2>2. PICK B \in SUBSET todo :
          source' =
            [n \in Name |->
               IF n \in B /\ docs[n] \in Doc
               THEN [key |-> docs[n].key, val |-> docs[n].val, link |-> link[n]]
               ELSE source[n]]
    BY <1>0, <1>8, FetchEffect
  <2>3. ASSUME NEW m \in Name, NEW k \in Key, KeyOf(m, k)' PROVE KeyOf(m, k)
    <3>1. CASE m \in B /\ docs[m] \in Doc
      BY <2>1, <2>2, <2>3, <3>1 DEF KeyOf
    <3>2. CASE ~(m \in B /\ docs[m] \in Doc)
      BY <2>1, <2>2, <2>3, <3>2 DEF KeyOf
    <3>3. QED
      BY <3>1, <3>2
  <2>4. \A m \in Name : \A i : Belongs(i, m)' <=> Belongs(i, m)
    BY <2>1 DEF Belongs
  <2>5. Present(rows)' = Present(rows) /\ Present(known)' = Present(known)
    BY <2>1 DEF Present
  <2>6. Owned'
    BY <2>1, <2>3, <2>4, <2>5 DEF OwnInv, Owned
  <2>7. QED
    BY <2>1, <2>5, <2>6 DEF OwnInv, Numbered
<1>9. ASSUME EndBatch PROVE Owned' /\ Numbered'
  <2>1. UNCHANGED <<config, docs, owner, link, rows, lastId, known, source, doomed>>
        /\ saved' = link
    BY <1>9 DEF EndBatch, partnerVars, runVars
  <2>2. Present(rows)' = Present(rows)
    BY <2>1 DEF Present
  <2>3. QED
    BY <1>4, <2>1, <2>2 DEF OwnInv, Numbered
<1>10. ASSUME Leave, UNCHANGED <<config, docs, owner, rows, lastId>>,
              link' = saved, saved' = saved
       PROVE  Owned' /\ Numbered'
  <2>1. known' = Nothing(Id) /\ source' = Nothing(Name) /\ doomed' = {}
    BY <1>10 DEF Leave
  <2>2. Present(known)' = {} /\ \A m \in Name : source'[m] = None
    BY <2>1 DEF Nothing, Present
  <2>3. \A m \in Name : \A i : Belongs(i, m)' => Belongs(i, m)
    BY <1>10 DEF Belongs
  <2>4. \A m \in Name, k \in Key : KeyOf(m, k)' => KeyOf(m, k)
    BY <1>10, <2>2 DEF KeyOf
  <2>5. Present(rows)' = Present(rows)
    BY <1>10 DEF Present
  <2>6. Owned'
    BY <1>10, <2>2, <2>3, <2>4, <2>5 DEF OwnInv, Owned
  <2>7. QED
    BY <1>10, <2>1, <2>2, <2>6 DEF OwnInv, Numbered
<1>11. ASSUME Finish PROVE Owned' /\ Numbered'
  <2>1. link = saved
    BY <1>0, <1>11 DEF Finish, PlanInv, Quiet
  <2>2. QED
    BY <1>10, <1>11, <2>1 DEF Finish, siteVars, partnerVars
<1>12. ASSUME Crash PROVE Owned' /\ Numbered'
  BY <1>10, <1>12 DEF Crash, partnerVars
<1>13. ASSUME NEW n \in Name, NEW i \in Id \cup {None}, Write(n, i)
       PROVE  Owned' /\ Numbered'
  BY <1>13, WriteKeepsOwn
<1>14. ASSUME UNCHANGED vars PROVE Owned' /\ Numbered'
  <2>1. UNCHANGED <<config, docs, owner, link, saved, rows, lastId, known, source, doomed>>
    BY <1>14 DEF vars, siteVars, partnerVars, runVars
  <2>2. Present(rows)' = Present(rows)
    BY <2>1 DEF Present
  <2>3. QED
    BY <1>4, <2>1, <2>2 DEF OwnInv, Numbered
<1>15. QED
  BY <1>2, <1>3, <1>5, <1>6, <1>7, <1>8, <1>9, <1>11, <1>12, <1>13, <1>14 DEF Next

LEMMA InitOwn == Init => OwnInv
<1> SUFFICES ASSUME Init PROVE OwnInv
  OBVIOUS
<1>1. PlanInv
  BY InitPlan
<1>2. /\ \A i : rows[i] = None \/ i \notin Id
      /\ Present(rows) = {} /\ Present(known) = {}
      /\ \A n \in Name : docs[n] = None /\ source[n] = None /\ link[n] = None
                         /\ saved[n] = None
      /\ lastId = 0 /\ doomed = {}
  BY DEF Init, Nothing, Present
<1>3. QED
  BY <1>1, <1>2 DEF OwnInv, Owned, Numbered, KeyOf

LEMMA AlwaysOwn ==
  ASSUME Disciplined
  PROVE  Spec => []OwnInv
<1>1. OwnInv /\ [Next]_vars => OwnInv'
  BY NextOwn
<1>2. QED
  BY <1>1, InitOwn, PTL DEF Spec

\* A run writes the row of a document only with what it read of that document, whatever
\* users and faults do between its steps.
THEOREM RowsAreOwned ==
  ASSUME Disciplined
  PROVE  Spec => OwnRows
<1> DEFINE Step ==
      work' # work /\ phase' = phase =>
        \A i \in Present(rows) :
          LET n == rows[i].from
          IN rows'[i] \notin {rows[i], None} /\ n # None =>
               /\ source[n] # None
               /\ rows'[i].key = source[n].key /\ rows'[i].val = source[n].val
<1>1. OwnInv /\ [Next]_vars => [Step]_vars
  <2> SUFFICES ASSUME OwnInv, [Next]_vars, work' # work, phase' = phase,
                      NEW i \in Present(rows), rows'[i] # rows[i], rows[i].from # None
               PROVE  /\ source[rows[i].from] # None
                      /\ rows'[i].key = source[rows[i].from].key
                      /\ rows'[i].val = source[rows[i].from].val
    BY DEF vars
  <2>1. PICK m \in Name, j \in Id \cup {None} : Write(m, j)
    <3>1. ~Fetch /\ ~Start /\ ~EndBatch
      BY DEF Fetch, Start, EndBatch
    <3>2. ~Crash /\ ~Finish
      BY DEF Crash, Finish, Leave
    <3>3. ~(\E m \in Name : Edit(m)) /\ ~Insert /\ ~(\E j \in Id : Vanish(j))
          /\ ~(\E k \in Key : Delete(k)) /\ ~UNCHANGED vars
      BY DEF Edit, Insert, Vanish, Delete, vars
    <3>4. QED
      BY <3>1, <3>2, <3>3 DEF Next
  <2>2. TypeOK /\ i \in Id /\ rows[i] # None /\ rows[i].from \in Name
    BY DEF OwnInv, PlanInv, TypeOK, Present, Row
  <2>5. /\ owner[rows[i].key] = m
        /\ rows'[i].key = source[m].key /\ rows'[i].val = source[m].val
    BY <2>1, <2>2, ChangedRow
  <2>6. owner[rows[i].key] = rows[i].from
    BY <2>2 DEF OwnInv, Owned, Belongs
  <2>7. source[m] # None
    BY <2>1 DEF OwnInv, PlanInv, Planned, Write
  <2>8. QED
    BY <2>5, <2>6, <2>7
<1>2. Spec => []OwnInv
  BY AlwaysOwn
<1>3. QED
  BY <1>1, <1>2, PTL DEF Spec, OwnRows

-----------------------------------------------------------------------------
(* One row for each document *)

\* The run has not written the document yet.
Waiting(n) == n \in todo \/ \E i \in Id \cup {None} : <<n, i>> \in work

\* A document has the key it was read with, unless it has none.
OneKey ==
  \A n \in Name, k, q \in Key : KeyOf(n, k) /\ KeyOf(n, q) => k = q

\* A row of a document that is not safely linked has the document's key.
Tied ==
  \A n \in Name, i \in Present(rows), k \in Key :
    rows[i].from = n /\ (link[n] # i \/ saved[n] # i) /\ KeyOf(n, k) => rows[i].key = k

\* A document linked to another row than its own is linked to one with the same key.
AsLinked ==
  \A n \in Name, i, j \in Present(rows) :
    rows[i].from = n /\ i # j /\ j \in {link[n], saved[n]} => rows[i].key = rows[j].key

OneRow ==
  \A i, j \in Present(rows) : rows[i].from = rows[j].from /\ rows[i].from # None => i = j

\* A row of a waiting document that is not indexed has the document's key.
Hidden ==
  \A n \in Name, i \in Present(rows), k \in Key :
    Waiting(n) /\ Belongs(i, n) /\ known[i] = None /\ KeyOf(n, k) => rows[i].key = k

\* A waiting document's own row is indexed, or another with its key is.
Indexed ==
  \A n \in Name, i \in Present(rows) :
    Waiting(n) /\ rows[i].from = n => \E j \in Present(known) : known[j].key = rows[i].key

\* The other row a waiting document is linked to was loaded with the key of its own.
LinkedKnown ==
  \A n \in Name, i \in Present(rows), j \in Present(known) :
    Waiting(n) /\ rows[i].from = n /\ i # j /\ link[n] = j => known[j].key = rows[i].key

\* A row that shared its key when it was loaded is still there and has it, as long as
\* nobody owns the key or its owner waits.
Shared(i, k) ==
  \/ known[i] # None /\ known[i].key = k
  \/ /\ rows[i] # None /\ rows[i].key = k
     /\ rows[i].from # None \/ \E n \in Name : link[n] = i

Unwritten(k) ==
  /\ owner[k] # None => Waiting(owner[k])
  /\ phase # "end"
  /\ config.delete => phase = "read" \/ work # {}

Spared ==
  \A j \in Present(known), i \in Id :
    i # j /\ Shared(i, known[j].key) /\ Unwritten(known[j].key) =>
      rows[j] # None /\ rows[j].key = known[j].key

RowParts ==
  /\ OneKey /\ Tied /\ AsLinked /\ OneRow
  /\ Hidden /\ Indexed /\ LinkedKnown
  /\ Findable

RowInv == OwnInv /\ (config.identity => RowParts /\ Spared)

\* When a write changes something, every row of the document that it leaves alone has
\* the key read of the document already.
LEMMA AsideHasKey ==
  ASSUME RowInv, config.identity, NEW n \in Name, NEW i \in Id \cup {None}, Write(n, i),
         source[n].key \in Key, NEW j \in Present(rows), j \notin Selected(n, i),
         Belongs(j, n)
  PROVE  rows[j].key = source[n].key
<1>1. /\ <<n, i>> \in work /\ i \in Targets(n, source) /\ source[n] # None
      /\ source[n].link = link[n] /\ link[n] = saved[n] /\ TypeOK
  BY DEF Write, RowInv, OwnInv, PlanInv, Planned
<1>2. KeyOf(n, source[n].key) /\ Waiting(n) /\ RowParts
  BY <1>1 DEF KeyOf, Waiting, RowInv
<1>3. j \in Id /\ rows[j] # None
  BY <1>1 DEF TypeOK, Present
<1>4. CASE link[n] # j
  BY <1>1, <1>2, <1>4 DEF RowParts, Tied, Belongs
<1>5. CASE link[n] = j
  <2>1. i # None
    <3>1. ASSUME i = None PROVE FALSE
      <4>1. Selected(n, i) = WithId(j)
        BY <1>1, <1>3, <1>5, <3>1 DEF Selected, ForWrite
      <4>2. QED
        BY <4>1 DEF WithId
    <3>2. QED
      BY <3>1
  <2>2. i # j
    BY <2>1 DEF Selected, ForExistingMatch, WithId
  <2>3. i \in Matches(n, source)
    BY <1>1, <2>1, TargetsAlone
  <2>4. known[j] = None
    BY <1>1, <1>3, <1>5, <2>2, <2>3 DEF Matches, Present, TypeOK
  <2>5. QED
    BY <1>2, <2>4 DEF RowParts, Hidden
<1>6. QED
  BY <1>4, <1>5

\* So every row a document has after it was written has the key read of it.
LEMMA WrittenKeys ==
  ASSUME RowInv, config.identity, NEW n \in Name, NEW i \in Id \cup {None}, Write(n, i),
         ~UNCHANGED <<rows, lastId, link>>,
         NEW j \in Present(rows)', Belongs(j, n) \/ Belongs(j, n)'
  PROVE  rows'[j].key = source[n].key
<1>1. /\ OwnInv /\ TypeOK /\ TypeOK' /\ saved' \in {saved, link'}
      /\ source[n].key \in Key
  BY WriteType, WriteEffect, WriteRows DEF RowInv, OwnInv, PlanInv
<1>2. j \in Id /\ rows'[j] # None
  BY <1>1 DEF Present, TypeOK
<1>3. CASE rows'[j] # rows[j]
  BY <1>1, <1>2, <1>3, ChangedRow
<1>4. CASE rows'[j] = rows[j]
  <2>1. j \in Present(rows)
    BY <1>1, <1>2, <1>4 DEF Present, TypeOK
  <2>2. CASE j \in Selected(n, i)
    <3>1. \A x \in Selected(n, i) :
            /\ x \in Id /\ rows[x] # None /\ owner[rows[x].key] = n
            /\ rows'[x] # None
            /\ rows'[x] = [key |-> source[n].key, val |-> source[n].val,
                           from |-> rows[x].from]
      BY <1>1, WriteRows
    <3>2. rows'[j] = [key |-> source[n].key, val |-> source[n].val,
                      from |-> rows[j].from]
      BY <2>2, <3>1
    <3>3. QED
      BY <3>2
  <2>3. CASE j \notin Selected(n, i)
    <3>1. Belongs(j, n)
      <4>1. ASSUME link'[n] = j, link[n] # j PROVE FALSE
        <5>1. CASE Selected(n, i) # {}
          BY <1>1, <2>3, <4>1, <5>1, WriteRows
        <5>2. CASE Selected(n, i) = {}
          <6>1. link'[n] = lastId' \/ rows[link'[n]] = None
            BY <1>1, <4>1, <5>2, WriteRows
          <6>2. rows[lastId'] = None
            BY <1>1, <5>2, WriteRows
          <6>3. QED
            BY <1>2, <1>4, <4>1, <6>1, <6>2
        <5>3. QED
          BY <5>1, <5>2
      <4>2. QED
        BY <1>1, <1>4, <4>1 DEF Belongs
    <3>2. QED
      BY <1>1, <1>4, <2>1, <2>3, <3>1, AsideHasKey
  <2>4. QED
    BY <2>2, <2>3
<1>5. QED
  BY <1>3, <1>4

\* A write does not touch the rows and links of other documents.
LEMMA OthersKept ==
  ASSUME OwnInv, NEW n \in Name, NEW i \in Id \cup {None}, Write(n, i),
         NEW m \in Name \ {n}, NEW j \in Present(rows)', Belongs(j, m)'
  PROVE  rows'[j] = rows[j] /\ j \in Present(rows) /\ Belongs(j, m)
<1>1. TypeOK /\ TypeOK' /\ Owned' /\ owner' = owner /\ saved' \in {saved, link'}
  BY WriteType, WriteEffect, WriteKeepsOwn DEF OwnInv, PlanInv
<1>2. j \in Id /\ owner[rows'[j].key] = m
  BY <1>1 DEF Owned, Present, TypeOK
<1>3. rows'[j] = rows[j]
  BY <1>2, ChangedRow
<1>4. link'[m] = link[m]
  <2>1. CASE UNCHANGED <<rows, lastId, link>>
    BY <2>1
  <2>2. CASE ~UNCHANGED <<rows, lastId, link>>
    BY <2>2, WriteRows
  <2>3. QED
    BY <2>1, <2>2
<1>5. Belongs(j, m)
  BY <1>1, <1>3, <1>4 DEF Belongs
<1>6. QED
  BY <1>1, <1>3, <1>5 DEF Present, TypeOK

\* A document that still waits after a write was matched with several rows by its key.
LEMMA WaitsAfterWrite ==
  ASSUME PlanInv, NEW n \in Name, NEW i \in Id \cup {None}, Write(n, i), Waiting(n)'
  PROVE  /\ i \in Present(known) /\ known[i].key = source[n].key
         /\ \E x \in Present(known) : x # i /\ known[x].key = source[n].key
         /\ config.identity => link[n] \notin Present(known)
         /\ link'[n] = link[n]
<1>1. /\ <<n, i>> \in work /\ i \in Targets(n, source) /\ n \notin todo
      /\ todo' = todo /\ work' = work \ {<<n, i>>} /\ TypeOK
  BY WriteEffect DEF Write, PlanInv, Planned
<1>2. PICK x \in Id \cup {None} : <<n, x>> \in work'
  BY <1>1 DEF Waiting
<1>3. x # i /\ x \in Targets(n, source) /\ link'[n] = link[n]
  BY <1>1, <1>2, WriteKeepsPlan DEF PlanInv, Planned
<1>4. i \in Matches(n, source) /\ x \in Matches(n, source)
  BY <1>1, <1>3, TargetsAlone
<1>5. i \in Present(known) /\ x \in Present(known)
  BY <1>1, <1>4, TargetsType DEF TypeOK
<1> DEFINE linked == {y \in Present(known) : config.identity /\ source[n].link = y}
           keyed == {y \in Present(known) : known[y].key = source[n].key}
<1>6. Matches(n, source) = linked \/ (linked = {} /\ Matches(n, source) = keyed)
  BY <1>4 DEF Matches
<1>7. ~(i \in linked /\ x \in linked)
  BY <1>3
<1>8. linked = {} /\ i \in keyed /\ x \in keyed
  BY <1>4, <1>6, <1>7
<1>9. config.identity => link[n] \notin Present(known)
  BY <1>1, <1>8 DEF PlanInv, Planned
<1>10. QED
  BY <1>3, <1>5, <1>8, <1>9

\* The row a match stands for is there as long as the document has a row of its own:
\* so nothing is inserted for it.
LEMMA NothingInserted ==
  ASSUME RowInv, config.identity, NEW n \in Name, NEW i \in Id \cup {None}, Write(n, i),
         ~UNCHANGED <<rows, lastId, link>>,
         NEW j \in Present(rows), rows[j].from = n
  PROVE  Selected(n, i) # {}
<1> SUFFICES ASSUME Selected(n, i) = {} PROVE FALSE
  OBVIOUS
<1>0. /\ OwnInv /\ TypeOK /\ RowParts /\ Spared
      /\ <<n, i>> \in work /\ i \in Targets(n, source) /\ source[n].link = link[n]
      /\ phase = "write"
  BY DEF Write, RowInv, OwnInv, PlanInv, Planned
<1>1. source[n].key \in Key /\ owner[source[n].key] = n
  <2>1. source[n].key # NoKey
    BY <1>0, WriteEffect
  <2>2. QED
    BY <1>0, <2>1, ReadType DEF OwnInv, PlanInv, Planned, Owned, KeyOf
<1>2. Waiting(n) /\ Unwritten(source[n].key)
  BY <1>0, <1>1 DEF Waiting, Unwritten
<1>3. j \in Id /\ rows[j] # None /\ Belongs(j, n)
  BY <1>0, <1>1 DEF Present, TypeOK, Belongs
<1>4. rows[j].key = source[n].key
  BY <1>0, <1>1, <1>3, AsideHasKey
<1>5. CASE i = None
  <2>1. Matches(n, source) = {}
    BY <1>0, <1>1, <1>5, TargetsAlone
  <2>2. PICK x \in Present(known) : known[x].key = rows[j].key
    BY <1>0, <1>1, <1>2 DEF RowParts, Indexed
  <2>3. source[n].key # NoKey
    BY <1>0, <1>1
  <2>4. QED
    BY <1>4, <2>1, <2>2, <2>3 DEF Matches
<1>6. CASE i # None
  <2>1. i \in Matches(n, source) /\ i \in Present(known)
    BY <1>0, <1>1, <1>6, TargetsAlone, TargetsType DEF TypeOK
  <2>2. i \in Id
    BY <1>0, <1>1, <2>1 DEF Present, TypeOK
  <2>3. rows[i] = None
    BY <1>0, <1>1, <1>6, <2>2 DEF Selected, ForExistingMatch, WithId, Present, TypeOK
  <2>4. i # j
    BY <1>3, <2>3
  <2>5. known[i].key = source[n].key
    <3>1. CASE link[n] = i
      BY <1>0, <1>1, <1>2, <1>4, <2>1, <2>4, <3>1 DEF RowParts, LinkedKnown
    <3>2. CASE link[n] # i
      BY <1>0, <1>1, <2>1, <3>2 DEF Matches
    <3>3. QED
      BY <3>1, <3>2
  <2>6. rows[j].from # None
    OBVIOUS
  <2>7. Shared(j, known[i].key) /\ Unwritten(known[i].key)
    BY <1>2, <1>3, <1>4, <2>5, <2>6 DEF Shared
  <2>8. QED
    BY <1>0, <1>1, <1>3, <2>1, <2>3, <2>4, <2>7 DEF Spared
<1>7. QED
  BY <1>5, <1>6

\* Rows that vanish, identities that are stored or forgotten, and documents that are
\* written or gone disturb nothing.
LEMMA Shrink ==
  ASSUME TypeOK, RowParts,
         UNCHANGED <<config, docs, link, known>>,
         saved' \in {saved, link},
         \A i \in Present(rows)' : i \in Present(rows) /\ rows'[i] = rows[i],
         \A n \in Name, k \in Key : KeyOf(n, k)' => KeyOf(n, k),
         \A n \in Name : Waiting(n)' => Waiting(n)
  PROVE  RowParts'
<1>1. /\ \A n \in Name, i \in Present(rows)' : Belongs(i, n)' => Belongs(i, n)
      /\ \A n \in Name : saved'[n] \in {saved[n], link[n]}
  BY DEF Belongs
<1>2. Present(known)' = Present(known)
  BY DEF Present
<1>3. OneKey' /\ OneRow'
  BY DEF RowParts, OneKey, OneRow
<1>4. Tied'
  BY <1>1 DEF RowParts, Tied
<1>5. AsLinked'
  BY <1>1 DEF RowParts, AsLinked
<1>6. Hidden'
  BY <1>1 DEF RowParts, Hidden
<1>7. Indexed' /\ LinkedKnown'
  BY <1>2 DEF RowParts, Indexed, LinkedKnown
<1>8. Findable'
  BY <1>1 DEF RowParts, Findable
<1>9. QED
  BY <1>3, <1>4, <1>5, <1>6, <1>7, <1>8 DEF RowParts

\* What a write changes keeps the parts about single rows.
LEMMA WriteKeepsKeys ==
  ASSUME RowInv, config.identity, NEW n \in Name, NEW i \in Id \cup {None}, Write(n, i),
         ~UNCHANGED <<rows, lastId, link>>
  PROVE  OneKey' /\ Tied' /\ AsLinked' /\ Hidden' /\ Indexed' /\ LinkedKnown' /\ Findable'
<1> DEFINE k0 == source[n].key
<1>0. OwnInv /\ TypeOK /\ RowParts /\ TypeOK' /\ Owned'
  BY WriteType, WriteKeepsOwn DEF RowInv, OwnInv, PlanInv
<1>1. /\ UNCHANGED <<config, docs, owner, known, source, todo>>
      /\ work' = work \ {<<n, i>>} /\ saved' \in {saved, link'}
      /\ <<n, i>> \in work /\ source[n] # None
  BY <1>0, WriteEffect DEF OwnInv, PlanInv, Planned
<1>2. k0 \in Key /\ owner[k0] = n /\ \A m \in Name \ {n} : link'[m] = link[m]
  BY <1>0, WriteRows
<1>3. \A m \in Name : \A k : KeyOf(m, k)' <=> KeyOf(m, k)
  BY <1>1 DEF KeyOf
<1>4. \A k \in Key : KeyOf(n, k) => k = k0
  BY <1>0, <1>1, <1>2 DEF RowParts, OneKey, KeyOf
<1>5. \A m \in Name : Waiting(m)' => Waiting(m)
  BY <1>1 DEF Waiting
<1>6. \A j \in Present(rows)' : Belongs(j, n)' => rows'[j].key = k0
  BY WrittenKeys
<1>7. \A m \in Name \ {n}, j \in Present(rows)' : Belongs(j, m)' =>
        rows'[j] = rows[j] /\ j \in Present(rows) /\ Belongs(j, m)
  BY <1>0, OthersKept
<1>8. \A m \in Name \ {n} : link'[m] = link[m] /\ saved'[m] \in {saved[m], link[m]}
  BY <1>1, <1>2
<1>9. Present(known)' = Present(known)
  BY <1>1 DEF Present
<1> HIDE DEF k0
<1>10. OneKey'
  BY <1>0, <1>3 DEF RowParts, OneKey
<1>11. Tied'
  <2> SUFFICES ASSUME NEW m \in Name, NEW j \in Present(rows)', NEW k \in Key,
                      rows'[j].from = m, link'[m] # j \/ saved'[m] # j, KeyOf(m, k)
               PROVE  rows'[j].key = k
    BY <1>3 DEF Tied
  <2>1. Belongs(j, m)'
    BY DEF Belongs
  <2>2. CASE m = n
    BY <1>4, <1>6, <2>1, <2>2
  <2>3. CASE m # n
    BY <1>0, <1>7, <1>8, <2>1, <2>3 DEF RowParts, Tied
  <2>4. QED
    BY <2>2, <2>3
<1>12. AsLinked'
  <2> SUFFICES ASSUME NEW m \in Name, NEW j \in Present(rows)', NEW x \in Present(rows)',
                      rows'[j].from = m, j # x, x \in {link'[m], saved'[m]}
               PROVE  rows'[j].key = rows'[x].key
    BY DEF AsLinked
  <2>1. Belongs(j, m)' /\ Belongs(x, m)'
    BY DEF Belongs
  <2>2. CASE m = n
    BY <1>6, <2>1, <2>2
  <2>3. CASE m # n
    BY <1>0, <1>7, <1>8, <2>1, <2>3 DEF RowParts, AsLinked
  <2>4. QED
    BY <2>2, <2>3
<1>13. Hidden'
  <2> SUFFICES ASSUME NEW m \in Name, NEW j \in Present(rows)', NEW k \in Key,
                      Waiting(m), Belongs(j, m)', known[j] = None, KeyOf(m, k)
               PROVE  rows'[j].key = k
    BY <1>1, <1>3, <1>5 DEF Hidden
  <2>1. CASE m = n
    BY <1>4, <1>6, <2>1
  <2>2. CASE m # n
    BY <1>0, <1>7, <2>2 DEF RowParts, Hidden
  <2>3. QED
    BY <2>1, <2>2
<1>14. Indexed'
  <2> SUFFICES ASSUME NEW m \in Name, NEW j \in Present(rows)',
                      Waiting(m)', rows'[j].from = m
               PROVE  \E x \in Present(known) : known[x].key = rows'[j].key
    BY <1>1, <1>9 DEF Indexed
  <2>1. Belongs(j, m)'
    BY DEF Belongs
  <2>2. CASE m = n
    <3>1. i \in Present(known) /\ known[i].key = k0
      BY <1>0, <2>2, WaitsAfterWrite DEF OwnInv, k0
    <3>2. QED
      BY <1>6, <2>1, <2>2, <3>1
  <2>3. CASE m # n
    BY <1>0, <1>5, <1>7, <2>1, <2>3 DEF RowParts, Indexed
  <2>4. QED
    BY <2>2, <2>3
<1>15. LinkedKnown'
  <2> SUFFICES ASSUME NEW m \in Name, NEW j \in Present(rows)', NEW x \in Present(known),
                      Waiting(m)', rows'[j].from = m, j # x, link'[m] = x
               PROVE  known[x].key = rows'[j].key
    BY <1>1, <1>9 DEF LinkedKnown
  <2>1. Belongs(j, m)'
    BY DEF Belongs
  <2>2. m # n
    BY <1>0, WaitsAfterWrite DEF RowInv, OwnInv
  <2>3. QED
    BY <1>0, <1>5, <1>7, <1>8, <2>1, <2>2 DEF RowParts, LinkedKnown
<1>16. Findable'
  <2> SUFFICES ASSUME ~config.all, NEW m \in Name, NEW j \in Present(rows)',
                      j \in {link'[m], saved'[m]},
                      docs[m] \in Doc /\ docs[m].key \notin {NoKey, rows'[j].key},
                      NEW x \in Present(rows)' \ {j}, rows'[x].key = rows'[j].key
               PROVE  FALSE
    BY <1>1 DEF Findable
  <2>1. Belongs(j, m)'
    BY DEF Belongs
  <2>2. docs[m].key \in Key /\ KeyOf(m, docs[m].key)
    BY DEF Doc, KeyOf
  <2>3. m # n
    BY <1>4, <1>6, <2>1, <2>2
  <2>4. rows'[j] = rows[j] /\ j \in Present(rows) /\ j \in {link[m], saved[m]}
    BY <1>7, <1>8, <2>1, <2>3
  <2>5. owner[rows[j].key] = m
    BY <1>0, <1>7, <2>1, <2>3 DEF OwnInv, Owned
  <2>6. x \in Id
    BY <1>0 DEF Present, TypeOK
  <2>7. rows'[x] = rows[x]
    BY <1>0, <2>3, <2>4, <2>5, <2>6, ChangedRow
  <2>8. x \in Present(rows)
    BY <1>0, <2>6, <2>7 DEF Present, TypeOK
  <2>9. QED
    BY <1>0, <2>4, <2>7, <2>8 DEF RowParts, Findable
<1>17. QED
  BY <1>10, <1>11, <1>12, <1>13, <1>14, <1>15, <1>16

\* Nothing is inserted for a document that has a row.
LEMMA WriteKeepsOneRow ==
  ASSUME RowInv, config.identity, NEW n \in Name, NEW i \in Id \cup {None}, Write(n, i),
         ~UNCHANGED <<rows, lastId, link>>
  PROVE  OneRow'
<1>0. OwnInv /\ TypeOK /\ RowParts /\ TypeOK'
  BY WriteType DEF RowInv, OwnInv, PlanInv
<1> SUFFICES ASSUME NEW j \in Present(rows)', NEW x \in Present(rows)',
                    rows'[j].from = rows'[x].from, rows'[j].from # None, j # x
             PROVE  FALSE
  BY DEF OneRow
<1>1. j \in Id /\ x \in Id /\ rows'[j] # None /\ rows'[x] # None
  BY <1>0 DEF Present, TypeOK
<1>2. ASSUME NEW y \in Id, rows'[y] # None, Selected(n, i) # {}
      PROVE  y \in Present(rows) /\ rows'[y].from = rows[y].from
  <2>1. CASE rows'[y] = rows[y]
    BY <1>0, <1>2, <2>1 DEF Present, TypeOK
  <2>2. CASE rows'[y] # rows[y]
    BY <1>0, <1>2, <2>2, ChangedRow DEF Present, TypeOK
  <2>3. QED
    BY <2>1, <2>2
<1>3. Selected(n, i) = {}
  BY <1>0, <1>1, <1>2 DEF RowParts, OneRow
<1>4. ASSUME NEW y \in Id, rows'[y] # None, rows'[y] # rows[y]
      PROVE  y = lastId' /\ rows'[y].from = n
  BY <1>0, <1>3, <1>4, ChangedRow
<1>5. ASSUME NEW y \in Id, rows'[y] # None, rows'[y] = rows[y]
      PROVE  y \in Present(rows) /\ rows[y].from # n
  <2>1. y \in Present(rows)
    BY <1>0, <1>5 DEF Present, TypeOK
  <2>2. QED
    BY <1>3, <2>1, NothingInserted
<1>6. CASE rows'[j] = rows[j] /\ rows'[x] = rows[x]
  BY <1>0, <1>1, <1>5, <1>6 DEF RowParts, OneRow
<1>7. CASE rows'[j] # rows[j] /\ rows'[x] # rows[x]
  BY <1>1, <1>4, <1>7
<1>8. CASE rows'[j] # rows[j] /\ rows'[x] = rows[x]
  BY <1>1, <1>4, <1>5, <1>8
<1>9. CASE rows'[j] = rows[j] /\ rows'[x] # rows[x]
  BY <1>1, <1>4, <1>5, <1>9
<1>10. QED
  BY <1>6, <1>7, <1>8, <1>9

\* While a document waits for the second of two rows with its key, the first is there.
LEMMA WriteKeepsSpared ==
  ASSUME RowInv, config.identity, NEW n \in Name, NEW i \in Id \cup {None}, Write(n, i),
         ~UNCHANGED <<rows, lastId, link>>
  PROVE  Spared'
<1> DEFINE k0 == source[n].key
<1>0. OwnInv /\ PlanInv /\ TypeOK /\ Spared /\ TypeOK' /\ Owned'
  BY WriteType, WriteKeepsOwn DEF RowInv, OwnInv, PlanInv
<1>1. /\ UNCHANGED <<config, docs, owner, known, source, todo, phase>>
      /\ work' = work \ {<<n, i>>}
  BY <1>0, WriteEffect
<1>2. k0 \in Key /\ owner[k0] = n /\ \A m \in Name \ {n} : link'[m] = link[m]
  BY <1>0, WriteRows
<1>3. Present(known)' = Present(known)
  BY <1>1 DEF Present
<1> SUFFICES ASSUME NEW j \in Present(known), NEW x \in Id, x # j,
                    Shared(x, known[j].key)', Unwritten(known[j].key)'
             PROVE  rows'[j] # None /\ rows'[j].key = known[j].key
  BY <1>1, <1>3 DEF Spared, Shared, Unwritten, Waiting
<1> DEFINE k == known[j].key
<1>4. Unwritten(k)
  BY <1>1 DEF Unwritten, Waiting
<1>5. j \in Id /\ k \in Key /\ known[j] # None /\ j <= lastId
  BY <1>0 DEF Present, TypeOK, Row, OwnInv, Numbered
<1>6. \A y \in Id : rows'[y] # rows[y] => rows'[y] # None /\ rows'[y].key = k0
  BY <1>0, ChangedRow
<1>7. lastId \in Nat
  BY <1>0 DEF TypeOK
<1>8. \/ known[x] # None /\ known[x].key = k
      \/ /\ rows'[x] # None /\ rows'[x].key = k
         /\ rows'[x].from # None \/ \E m \in Name : link'[m] = x
  BY <1>1 DEF Shared
<1> HIDE DEF k0, k
<1>9. CASE owner[k] = n
  <2>1. Waiting(n)'
    BY <1>1, <1>2, <1>9 DEF Unwritten, k, TypeOK
  <2>2. /\ i \in Present(known) /\ known[i].key = k0
        /\ link'[n] = link[n]
    BY <1>0, <2>1, WaitsAfterWrite DEF k0
  <2>3. PICK z \in Present(known) : z # i /\ known[z].key = k0
    BY <1>0, <2>1, WaitsAfterWrite DEF k0
  <2>4. i \in Id /\ z \in Id /\ known[i] # None /\ known[z] # None
    BY <1>0, <2>2, <2>3 DEF Present, TypeOK
  <2>5. Selected(n, i) \subseteq {i}
    BY <1>0, <2>4 DEF Selected, ForExistingMatch, WithId
  <2>6. ASSUME j # i PROVE rows'[j] = rows[j]
    <3>1. ASSUME rows'[j] # rows[j] PROVE FALSE
      <4>1. j \in Selected(n, i) \/ (lastId' = lastId + 1 /\ j = lastId')
        BY <1>0, <1>5, <3>1, ChangedRow
      <4>2. QED
        BY <1>5, <1>7, <2>5, <2>6, <4>1
    <3>2. QED
      BY <3>1
  <2>7. CASE k = k0
    <3>1. CASE j = i
      <4>1. Shared(z, known[i].key) /\ Unwritten(known[i].key)
        BY <1>4, <2>2, <2>3, <2>4, <2>7 DEF Shared
      <4>2. rows[i] # None
        BY <1>0, <2>2, <2>3, <2>4, <4>1 DEF Spared
      <4>3. i \in Selected(n, i)
        BY <1>0, <2>4, <4>2 DEF Selected, ForExistingMatch, WithId, Present, TypeOK
      <4>4. \A y \in Selected(n, i) :
              /\ y \in Id /\ rows[y] # None /\ owner[rows[y].key] = n
              /\ rows'[y] # None
              /\ rows'[y] = [key |-> source[n].key, val |-> source[n].val,
                             from |-> rows[y].from]
        BY <1>0, WriteRows
      <4>5. rows'[i] # None /\ rows'[i] = [key |-> source[n].key, val |-> source[n].val,
                                           from |-> rows[i].from]
        BY <4>3, <4>4
      <4>6. rows'[i].key = source[n].key
        BY <4>5
      <4>7. QED
        BY <2>7, <3>1, <4>5, <4>6 DEF k, k0
    <3>2. CASE j # i
      <4>1. Shared(i, known[j].key) /\ Unwritten(known[j].key)
        BY <1>4, <2>2, <2>4, <2>7 DEF Shared, k
      <4>2. QED
        BY <1>0, <2>4, <2>6, <3>2, <4>1 DEF Spared
    <3>3. QED
      BY <3>1, <3>2
  <2>8. CASE k # k0
    <3>1. j # i
      BY <2>2, <2>8 DEF k
    <3>2. Shared(x, known[j].key)
      <4>1. CASE known[x] # None /\ known[x].key = k
        BY <4>1 DEF Shared, k
      <4>2. CASE /\ rows'[x] # None /\ rows'[x].key = k
                 /\ rows'[x].from # None \/ \E m \in Name : link'[m] = x
        <5>1. rows'[x] = rows[x]
          BY <1>6, <2>8, <4>2
        <5>2. rows[x].from # None \/ \E m \in Name : link[m] = x
          BY <1>2, <2>2, <4>2, <5>1
        <5>3. QED
          BY <4>2, <5>1, <5>2 DEF Shared, k
      <4>3. QED
        BY <1>8, <4>1, <4>2
    <3>3. QED
      BY <1>0, <1>4, <2>6, <3>1, <3>2 DEF Spared, k
  <2>9. QED
    BY <2>7, <2>8
<1>10. CASE owner[k] # n
  <2>1. Shared(x, known[j].key)
    <3>1. CASE known[x] # None /\ known[x].key = k
      BY <3>1 DEF Shared, k
    <3>2. CASE /\ rows'[x] # None /\ rows'[x].key = k
               /\ rows'[x].from # None \/ \E m \in Name : link'[m] = x
      <4>1. rows'[x] = rows[x]
        BY <1>2, <1>6, <1>10, <3>2
      <4>2. link'[n] # x
        <5>1. ASSUME link'[n] = x PROVE FALSE
          <6>1. x \in Present(rows)' /\ Belongs(x, n)'
            BY <1>0, <3>2, <5>1 DEF Belongs, Present, TypeOK
          <6>2. owner'[rows'[x].key] = n
            BY <1>0, <6>1 DEF Owned
          <6>3. QED
            BY <1>1, <1>10, <3>2, <6>2
        <5>2. QED
          BY <5>1
      <4>3. rows[x].from # None \/ \E m \in Name : link[m] = x
        BY <1>2, <3>2, <4>1, <4>2
      <4>4. QED
        BY <3>2, <4>1, <4>3 DEF Shared, k
    <3>3. QED
      BY <1>8, <3>1, <3>2
  <2>2. rows[j] # None /\ rows[j].key = k
    BY <1>0, <1>4, <2>1 DEF Spared, k
  <2>3. rows'[j] = rows[j]
    <3>1. ASSUME rows'[j] # rows[j] PROVE FALSE
      <4>1. \/ owner[rows[j].key] = n
            \/ rows[j] = None
        BY <1>0, <1>5, <3>1, ChangedRow
      <4>2. QED
        BY <1>10, <2>2, <4>1
    <3>2. QED
      BY <3>1
  <2>4. QED
    BY <2>2, <2>3 DEF k
<1>11. QED
  BY <1>9, <1>10

LEMMA WriteKeepsRows ==
  ASSUME RowInv, config.identity, NEW n \in Name, NEW i \in Id \cup {None}, Write(n, i)
  PROVE  RowParts' /\ Spared'
<1>0. OwnInv /\ TypeOK /\ RowParts /\ Spared
  BY DEF RowInv, OwnInv, PlanInv
<1>1. /\ UNCHANGED <<config, docs, owner, known, source, todo, phase>>
      /\ work' = work \ {<<n, i>>} /\ saved' \in {saved, link'}
  BY <1>0, WriteEffect
<1>2. CASE UNCHANGED <<rows, lastId, link>>
  <2>1. \A m \in Name : Waiting(m)' => Waiting(m)
    BY <1>1 DEF Waiting
  <2>2. \A m \in Name, k \in Key : KeyOf(m, k)' => KeyOf(m, k)
    BY <1>1 DEF KeyOf
  <2>3. \A j \in Present(rows)' : j \in Present(rows) /\ rows'[j] = rows[j]
    BY <1>2 DEF Present
  <2>4. RowParts'
    BY <1>0, <1>1, <1>2, <2>1, <2>2, <2>3, Shrink
  <2>5. \A k \in Key : Unwritten(k)' => Unwritten(k)
    BY <1>0, <1>1, <2>1 DEF Unwritten, TypeOK
  <2>6. \A x \in Id : \A k \in Key : Shared(x, k)' => Shared(x, k)
    BY <1>1, <1>2 DEF Shared
  <2>7. \A j \in Present(known) : known[j].key \in Key
    BY <1>0 DEF Present, TypeOK, Row
  <2>8. Present(known)' = Present(known)
    BY <1>1 DEF Present
  <2>9. Spared'
    BY <1>0, <1>1, <1>2, <2>5, <2>6, <2>7, <2>8 DEF Spared
  <2>10. QED
    BY <2>4, <2>9
<1>3. CASE ~UNCHANGED <<rows, lastId, link>>
  BY <1>3, WriteKeepsKeys, WriteKeepsOneRow, WriteKeepsSpared DEF RowParts
<1>4. QED
  BY <1>2, <1>3

LEMMA EditKeepsRows ==
  ASSUME RowInv, config.identity, ~Reuse, NEW n \in Name, Edit(n)
  PROVE  RowParts' /\ Spared'
<1>0. OwnInv /\ TypeOK /\ Quiet /\ Owned /\ RowParts /\ Spared
  BY DEF RowInv, OwnInv, PlanInv
<1>1. /\ UNCHANGED <<config, link, saved, rows, known, source, todo, work, phase>>
      /\ Findable'
  BY <1>0, EditEffect DEF Edit, siteVars, partnerVars, runVars
<1>2. /\ \A k \in Key : owner[k] # None => owner'[k] = owner[k]
      /\ \A m \in Name \ {n} : docs'[m] = docs[m]
      /\ docs'[n] \in Doc /\ docs'[n].key # NoKey =>
           owner'[docs'[n].key] = n /\ OwnKey(n, docs'[n].key)
  BY <1>0, EditOwner
<1>3. /\ \A m \in Name : Waiting(m)' <=> Waiting(m)
      /\ \A m \in Name : \A i : Belongs(i, m)' <=> Belongs(i, m)
      /\ Present(rows)' = Present(rows) /\ Present(known)' = Present(known)
  BY <1>1 DEF Waiting, Belongs, Present
<1>4. ASSUME NEW m \in Name, NEW k \in Key, KeyOf(m, k)', ~KeyOf(m, k)
      PROVE  m = n /\ docs'[n] \in Doc /\ docs'[n].key = k /\ OwnKey(n, k)
  <2>1. docs'[m] \in Doc /\ docs'[m].key = k /\ m = n
    BY <1>1, <1>2, <1>4 DEF KeyOf
  <2>2. QED
    BY <1>2, <2>1
<1>5. ASSUME NEW k \in Key, OwnKey(n, k), NEW q \in Key, owner[q] = n, q # k
      PROVE  /\ phase = "idle" /\ source[n] = None /\ ~Waiting(n)
             /\ \A i \in Present(rows) : rows[i].from = n => link[n] = i /\ saved[n] = i
  <2>1. phase = "idle" /\ \A i \in Present(rows) : rows[i].from = n => link[n] = i
    BY <1>0, <1>5 DEF OwnKey, RowInv
  <2>2. source[n] = None /\ ~Waiting(n) /\ link = saved
    BY <1>0, <2>1 DEF Quiet, Nothing, Waiting
  <2>3. QED
    BY <2>1, <2>2
<1>6. OneKey'
  <2> SUFFICES ASSUME NEW m \in Name, NEW k \in Key, NEW q \in Key,
                      KeyOf(m, k)', KeyOf(m, q)', k # q
               PROVE  FALSE
    BY DEF OneKey
  <2>1. ASSUME NEW x \in Key, NEW y \in Key, x # y, KeyOf(m, x), KeyOf(m, x)',
               KeyOf(m, y)', ~KeyOf(m, y)
        PROVE  FALSE
    <3>1. m = n /\ docs'[n] \in Doc /\ docs'[n].key = y /\ OwnKey(n, y)
      BY <1>4, <2>1
    <3>2. owner[x] = n
      BY <1>0, <2>1, <3>1 DEF Owned
    <3>3. phase = "idle" /\ source[n] = None
      BY <1>5, <2>1, <3>1, <3>2
    <3>4. docs'[n] \in Doc /\ docs'[n].key = x
      BY <1>1, <2>1, <3>1, <3>3 DEF KeyOf
    <3>5. QED
      BY <2>1, <3>1, <3>3, <3>4
  <2>2. CASE KeyOf(m, k) /\ KeyOf(m, q)
    BY <1>0, <2>2 DEF RowParts, OneKey
  <2>3. CASE ~KeyOf(m, k) /\ ~KeyOf(m, q)
    BY <1>4, <2>3
  <2>4. QED
    BY <2>1, <2>2, <2>3
<1>7. ASSUME NEW m \in Name, NEW i \in Present(rows), NEW k \in Key,
             Belongs(i, m), KeyOf(m, k)', ~KeyOf(m, k), rows[i].key # k
      PROVE  ~Waiting(m) /\ (rows[i].from = m => link[m] = i /\ saved[m] = i)
  <2>1. m = n /\ OwnKey(n, k)
    BY <1>4, <1>7
  <2>2. owner[rows[i].key] = n /\ rows[i].key \in Key
    BY <1>0, <1>7, <2>1 DEF Owned, Present, TypeOK, Row
  <2>3. QED
    BY <1>5, <1>7, <2>1, <2>2
<1>8. Tied'
  <2>1. \A m \in Name : \A i : rows[i].from = m => Belongs(i, m)
    BY DEF Belongs
  <2>2. QED
    BY <1>0, <1>1, <1>3, <1>7, <2>1 DEF RowParts, Tied
<1>9. Hidden'
  BY <1>0, <1>1, <1>3, <1>7 DEF RowParts, Hidden
<1>10. AsLinked' /\ OneRow' /\ Indexed' /\ LinkedKnown'
  BY <1>0, <1>1, <1>3 DEF RowParts, AsLinked, OneRow, Indexed, LinkedKnown
<1>11. \A k \in Key : Unwritten(k)' => Unwritten(k)
  BY <1>0, <1>1, <1>2, <1>3 DEF Unwritten, TypeOK
<1>12. \A j \in Present(known) : known[j].key \in Key
  BY <1>0 DEF Present, TypeOK, Row
<1>13. Spared'
  BY <1>0, <1>1, <1>3, <1>11, <1>12 DEF Spared, Shared
<1>14. QED
  BY <1>1, <1>6, <1>8, <1>9, <1>10, <1>13 DEF RowParts

LEMMA InsertKeepsRows ==
  ASSUME RowInv, config.identity, ~Reuse, Insert
  PROVE  RowParts' /\ Spared'
<1> DEFINE new == lastId + 1
<1>0. OwnInv /\ TypeOK /\ TypeOK' /\ RowParts /\ Spared
  BY NextType DEF RowInv, OwnInv, PlanInv, Next
<1>1. /\ UNCHANGED <<config, docs, owner, link, saved, known, source, todo, work, phase>>
      /\ Findable' /\ new \in Id /\ lastId \in Nat
  BY <1>0 DEF Insert, siteVars, runVars, TypeOK, Id
<1>2. PICK k0 \in Key, v \in Val :
        rows' = [rows EXCEPT ![new] = [key |-> k0, val |-> v, from |-> None]]
  BY DEF Insert
<1>3. /\ \A i \in Id \ {new} : rows'[i] = rows[i]
      /\ rows'[new].from = None
  BY <1>0, <1>1, <1>2 DEF TypeOK
<1>4. /\ \A m \in Name : link[m] # new /\ saved[m] # new
      /\ new \notin Present(known)
  <2>1. ~(new <= lastId) /\ new # None
    BY <1>1
  <2>2. QED
    BY <1>0, <2>1 DEF OwnInv, Numbered
<1> HIDE DEF new
<1>5. \A i \in Present(rows)', m \in Name : Belongs(i, m)' =>
        i # new /\ i \in Present(rows) /\ rows'[i] = rows[i] /\ Belongs(i, m)
  <2> SUFFICES ASSUME NEW i \in Present(rows)', NEW m \in Name, Belongs(i, m)'
               PROVE  /\ i # new /\ i \in Present(rows) /\ rows'[i] = rows[i]
                      /\ Belongs(i, m)
    OBVIOUS
  <2>1. i \in Id /\ rows'[i] # None
    BY <1>0 DEF Present, TypeOK
  <2>2. i # new
    BY <1>1, <1>3, <1>4 DEF Belongs
  <2>3. rows'[i] = rows[i]
    BY <1>3, <2>1, <2>2
  <2>4. QED
    BY <1>0, <1>1, <2>1, <2>2, <2>3 DEF Belongs, Present, TypeOK
<1>6. /\ \A m \in Name : Waiting(m)' <=> Waiting(m)
      /\ \A m \in Name : \A k : KeyOf(m, k)' <=> KeyOf(m, k)
      /\ Present(known)' = Present(known)
      /\ \A m \in Name : \A i : rows'[i].from = m => Belongs(i, m)'
      /\ \A m \in Name : \A i : i \in {link'[m], saved'[m]} => Belongs(i, m)'
  BY <1>1 DEF Waiting, KeyOf, Present, Belongs
<1>7. OneKey'
  BY <1>0, <1>6 DEF RowParts, OneKey
<1>8. Tied'
  BY <1>0, <1>1, <1>5, <1>6 DEF RowParts, Tied
<1>9. AsLinked'
  BY <1>0, <1>1, <1>5, <1>6 DEF RowParts, AsLinked
<1>10. OneRow'
  <2> SUFFICES ASSUME NEW i \in Present(rows)', NEW j \in Present(rows)',
                      rows'[i].from = rows'[j].from, rows'[i].from # None
               PROVE  i = j
    BY DEF OneRow
  <2>1. i \in Id /\ j \in Id /\ i # new /\ j # new
    BY <1>0, <1>3 DEF Present, TypeOK
  <2>2. rows'[i] = rows[i] /\ rows'[j] = rows[j]
    BY <1>3, <2>1
  <2>3. i \in Present(rows) /\ j \in Present(rows)
    BY <1>0, <2>1, <2>2 DEF Present, TypeOK
  <2>4. QED
    BY <1>0, <2>2, <2>3 DEF RowParts, OneRow
<1>11. Hidden'
  BY <1>0, <1>1, <1>5, <1>6 DEF RowParts, Hidden
<1>12. Indexed'
  BY <1>0, <1>1, <1>5, <1>6 DEF RowParts, Indexed
<1>13. LinkedKnown'
  BY <1>0, <1>1, <1>5, <1>6 DEF RowParts, LinkedKnown
<1>14. Spared'
  <2> SUFFICES ASSUME NEW j \in Present(known), NEW x \in Id, x # j,
                      Shared(x, known[j].key)', Unwritten(known[j].key)'
               PROVE  rows'[j] # None /\ rows'[j].key = known[j].key
    BY <1>1, <1>6 DEF Spared, Shared, Unwritten, Waiting
  <2>1. Unwritten(known[j].key)
    BY <1>1 DEF Unwritten, Waiting
  <2>2. Shared(x, known[j].key)
    <3>1. CASE known[x] # None /\ known[x].key = known[j].key
      BY <3>1 DEF Shared
    <3>2. CASE /\ rows'[x] # None /\ rows'[x].key = known[j].key
               /\ rows'[x].from # None \/ \E m \in Name : link[m] = x
      <4>1. x # new
        BY <1>3, <1>4, <3>2
      <4>2. QED
        BY <1>3, <3>2, <4>1 DEF Shared
    <3>3. QED
      BY <1>1, <3>1, <3>2 DEF Shared
  <2>3. rows[j] # None /\ rows[j].key = known[j].key
    BY <1>0, <2>1, <2>2 DEF Spared
  <2>4. j \in Id /\ j # new
    BY <1>0, <1>4 DEF Present, TypeOK
  <2>5. QED
    BY <1>3, <2>3, <2>4
<1>15. QED
  BY <1>1, <1>7, <1>8, <1>9, <1>10, <1>11, <1>12, <1>13, <1>14 DEF RowParts

\* Every row of the table is loaded, or under first_match another with its key.
LEMMA StartLoads ==
  ASSUME TypeOK, Start
  PROVE  /\ \A j \in Present(known)' : j \in Present(rows) /\ known'[j] = rows[j]
         /\ \A i \in Present(rows) :
              \E j \in Present(known)' : rows[j].key = rows[i].key
         /\ config.all => \A i \in Present(rows) : known'[i] # None
<1>1. PICK L \in Indexes : known' = [i \in Id |-> IF i \in L THEN rows[i] ELSE None]
  BY DEF Start
<1>2. L \subseteq Present(rows) /\ (config.all => L = Present(rows))
  BY <1>1 DEF Indexes
<1>3. ASSUME NEW i \in Present(rows) PROVE \E j \in L : rows[j].key = rows[i].key
  <2>1. CASE config.all
    BY <1>2, <2>1
  <2>2. CASE ~config.all
    <3> DEFINE T == {j \in L : rows[j].key = rows[i].key}
    <3>1. Cardinality(T) = 1
      BY <1>1, <2>2 DEF Indexes
    <3>2. Cardinality({}) = 0
      BY FS_EmptySet
    <3> HIDE DEF T
    <3>3. T # {}
      BY <3>1, <3>2
    <3>4. QED
      BY <3>3 DEF T
  <2>3. QED
    BY <2>1, <2>2
<1>4. /\ \A j \in L : j \in Present(known)' /\ known'[j] # None
      /\ \A j \in Present(known)' : j \in L /\ known'[j] = rows[j]
  BY <1>1, <1>2 DEF Present, TypeOK
<1>5. QED
  BY <1>2, <1>3, <1>4

LEMMA StartKeepsRows ==
  ASSUME RowInv, config.identity, Start
  PROVE  RowParts' /\ Spared'
<1>0. OwnInv /\ TypeOK /\ RowParts
  BY DEF RowInv, OwnInv, PlanInv
<1>1. /\ UNCHANGED <<config, docs, owner, link, saved, rows, source, work>>
      /\ source = Nothing(Name)
  BY DEF Start, siteVars, partnerVars, RowInv, OwnInv, PlanInv, Quiet
<1>2. /\ \A j \in Present(known)' : j \in Present(rows) /\ known'[j] = rows[j]
      /\ \A i \in Present(rows) :
           \E j \in Present(known)' : rows[j].key = rows[i].key
      /\ config.all => \A i \in Present(rows) : known'[i] # None
  BY <1>0, StartLoads
<1>3. \A j \in Present(known)' : known'[j] # None
  BY DEF Present
<1>6. /\ \A m \in Name : \A k : KeyOf(m, k)' <=> KeyOf(m, k)
      /\ \A m \in Name : \A i : Belongs(i, m)' <=> Belongs(i, m)
      /\ Present(rows)' = Present(rows)
  BY <1>1 DEF KeyOf, Belongs, Present
<1>7. OneKey' /\ Tied' /\ AsLinked' /\ OneRow' /\ Findable'
  BY <1>0, <1>1, <1>6 DEF RowParts, OneKey, Tied, AsLinked, OneRow, Findable
<1>8. Hidden'
  <2> SUFFICES ASSUME NEW m \in Name, NEW i \in Present(rows), NEW k \in Key,
                      Belongs(i, m), known'[i] = None, KeyOf(m, k)
               PROVE  rows[i].key = k
    BY <1>1, <1>6 DEF Hidden
  <2>1. CASE link[m] # i \/ saved[m] # i
    <3>1. CASE rows[i].from = m
      BY <1>0, <2>1, <3>1 DEF RowParts, Tied
    <3>2. CASE rows[i].from # m
      <4>1. link = saved
        BY DEF Start, RowInv, OwnInv, PlanInv, Quiet
      <4>2. QED
        BY <2>1, <3>2, <4>1 DEF Belongs
    <3>3. QED
      BY <3>1, <3>2
  <2>2. CASE link[m] = i
    <3>1. PICK j \in Present(known)' : rows[j].key = rows[i].key
      BY <1>2
    <3>2. j \in Present(rows) \ {i} /\ ~config.all
      BY <1>2, <1>3, <3>1
    <3>3. docs[m] \in Doc /\ docs[m].key = k
      BY <1>1 DEF KeyOf, Nothing
    <3>4. k # NoKey
      OBVIOUS
    <3>5. QED
      BY <1>0, <2>2, <3>1, <3>2, <3>3, <3>4 DEF RowParts, Findable
  <2>3. QED
    BY <2>1, <2>2
<1>9. Indexed'
  <2> SUFFICES ASSUME NEW i \in Present(rows)
               PROVE  \E j \in Present(known)' : known'[j].key = rows[i].key
    BY <1>1, <1>6 DEF Indexed
  <2>1. PICK j \in Present(known)' : rows[j].key = rows[i].key
    BY <1>2
  <2>2. QED
    BY <1>2, <2>1
<1>10. LinkedKnown'
  <2> SUFFICES ASSUME NEW m \in Name, NEW i \in Present(rows), NEW j \in Present(known)',
                      rows[i].from = m, i # j, link[m] = j
               PROVE  known'[j].key = rows[i].key
    BY <1>1, <1>6 DEF LinkedKnown
  <2>1. j \in Present(rows) /\ known'[j] = rows[j]
    BY <1>2
  <2>2. QED
    BY <1>0, <2>1 DEF RowParts, AsLinked
<1>11. Spared'
  <2>1. \A j \in Present(known)' : rows[j] # None /\ rows[j].key = known'[j].key
    BY <1>2 DEF Present
  <2>2. QED
    BY <1>1, <2>1 DEF Spared
<1>12. QED
  BY <1>7, <1>8, <1>9, <1>10, <1>11 DEF RowParts

\* After a run nobody waits and nothing is loaded.
LEMMA LeaveKeepsRows ==
  ASSUME RowInv, config.identity, Leave, UNCHANGED <<config, docs, owner, rows>>,
         link' = saved, saved' = saved
  PROVE  RowParts' /\ Spared'
<1>0. TypeOK /\ RowParts
  BY DEF RowInv, OwnInv, PlanInv
<1>1. /\ Present(known)' = {} /\ Present(rows)' = Present(rows)
      /\ \A m \in Name : ~Waiting(m)'
      /\ \A m \in Name : \A k : KeyOf(m, k)' => KeyOf(m, k)
  BY DEF Leave, Nothing, Present, Waiting, KeyOf
<1>2. OneKey' /\ OneRow'
  BY <1>0, <1>1 DEF RowParts, OneKey, OneRow
<1>3. Tied' /\ AsLinked' /\ Findable'
  BY <1>0, <1>1 DEF RowParts, Tied, AsLinked, Findable
<1>4. Hidden' /\ Indexed' /\ LinkedKnown' /\ Spared'
  BY <1>1 DEF Hidden, Indexed, LinkedKnown, Spared
<1>5. QED
  BY <1>2, <1>3, <1>4 DEF RowParts

LEMMA VanishKeepsRows ==
  ASSUME RowInv, config.identity, ~Reuse, NEW i \in Id, Vanish(i)
  PROVE  RowParts' /\ Spared'
<1>0. OwnInv /\ TypeOK /\ Quiet /\ RowParts /\ Spared
  BY DEF RowInv, OwnInv, PlanInv
<1>1. /\ rows' = [rows EXCEPT ![i] = None] /\ rows[i] # None /\ Spare(i)
      /\ UNCHANGED <<config, docs, owner, link, saved, known, source, todo, work, phase>>
  BY DEF Vanish, siteVars, runVars
<1>2. /\ \A m \in Name : Waiting(m)' => Waiting(m)
      /\ \A m \in Name, k \in Key : KeyOf(m, k)' => KeyOf(m, k)
      /\ Present(known)' = Present(known)
  BY <1>1 DEF Waiting, KeyOf, Present
<1>3. \A j \in Id : rows'[j] # None => j # i /\ rows'[j] = rows[j]
  BY <1>0, <1>1 DEF TypeOK
<1>4. \A j \in Present(rows)' : j \in Present(rows) /\ rows'[j] = rows[j]
  BY <1>0, <1>1 DEF Present, TypeOK
<1>5. RowParts'
  BY <1>0, <1>1, <1>2, <1>4, Shrink
<1>6. Spared'
  <2> SUFFICES ASSUME NEW j \in Present(known), NEW x \in Id, x # j,
                      Shared(x, known[j].key)', Unwritten(known[j].key)'
               PROVE  rows'[j] # None /\ rows'[j].key = known[j].key
    BY <1>1, <1>2 DEF Spared, Shared, Unwritten, Waiting
  <2>1. Unwritten(known[j].key)
    BY <1>1 DEF Unwritten, Waiting
  <2>2. \/ known[x] # None /\ known[x].key = known[j].key
        \/ /\ rows'[x] # None /\ rows'[x].key = known[j].key
           /\ rows'[x].from # None \/ \E m \in Name : link[m] = x
    BY <1>1 DEF Shared
  <2>3. Shared(x, known[j].key)
    BY <1>3, <2>2 DEF Shared
  <2>4. rows[j] # None /\ rows[j].key = known[j].key /\ j \in Id
    BY <1>0, <2>1, <2>3 DEF Spared, Present, TypeOK
  <2>5. j # i
    <3>1. SUFFICES ASSUME j = i PROVE FALSE
      OBVIOUS
    <3>2. \A y \in Present(rows) \ {i} : rows[y].key # rows[i].key
      <4>1. phase # "idle"
        BY <1>0 DEF Quiet, Nothing, Present
      <4>2. QED
        BY <1>1, <4>1 DEF Spare
    <3>3. x \notin Present(rows) \/ rows[x].key # known[j].key
      BY <2>4, <3>1, <3>2
    <3>4. known[x] # None /\ known[x].key = known[j].key
      BY <1>0, <1>3, <2>2, <3>3 DEF Present, TypeOK
    <3>5. x \in Present(known) /\ Shared(j, known[x].key) /\ Unwritten(known[x].key)
      BY <1>0, <2>1, <3>4 DEF Shared, Present, TypeOK
    <3>6. rows[x] # None /\ rows[x].key = known[x].key
      BY <1>0, <2>4, <3>5 DEF Spared
    <3>7. QED
      BY <1>0, <3>3, <3>4, <3>6 DEF Present, TypeOK
  <2>6. QED
    BY <1>0, <1>1, <2>4, <2>5 DEF TypeOK
<1>7. QED
  BY <1>5, <1>6

LEMMA NextRow ==
  ASSUME Disciplined
  PROVE  RowInv /\ [Next]_vars => RowInv'
<1> SUFFICES ASSUME RowInv, [Next]_vars PROVE RowInv'
  OBVIOUS
<1>0. OwnInv /\ OwnInv' /\ TypeOK /\ Quiet /\ Numbered /\ ~Reuse
  BY NextOwn DEF RowInv, OwnInv, PlanInv, Disciplined
<1>1. UNCHANGED config
  BY DEF Next, Edit, Insert, Vanish, Start, Fetch, EndBatch, Finish, Crash, Write, Delete,
         vars
<1>2. SUFFICES ASSUME config.identity PROVE RowParts' /\ Spared'
  BY <1>0, <1>1 DEF RowInv
<1>3. RowParts /\ Spared
  BY <1>2 DEF RowInv
\* Spared in a step in which no row comes back and no key becomes unwritten again.
<1>4. ASSUME UNCHANGED <<rows, link, known>>,
             \A k \in Key : Unwritten(k)' => Unwritten(k)
      PROVE  Spared'
  <2>1. Present(known)' = Present(known) /\ \A j \in Present(known) : known[j].key \in Key
    BY <1>0, <1>4 DEF Present, TypeOK, Row
  <2>2. QED
    BY <1>3, <1>4, <2>1 DEF Spared, Shared
<1>5. ASSUME NEW k \in Key, Delete(k) PROVE RowParts' /\ Spared'
  <2>1. /\ UNCHANGED <<docs, link, known, source, todo, work, phase>>
        /\ work = {} /\ phase = "write" /\ k \in doomed /\ saved' \in {saved, link}
    BY <1>5 DEF Delete, Rejected, Error, Log, runVars, partnerVars
  <2>2. \/ rows' = [i \in Id |-> IF i \in WithKey(k) THEN None ELSE rows[i]]
        \/ rows' = rows
    BY <1>5 DEF Delete, Rejected, partnerVars
  <2>3. \A j \in Present(rows)' : j \in Present(rows) /\ rows'[j] = rows[j]
    BY <1>0, <2>2 DEF Present, TypeOK
  <2>4. /\ \A m \in Name : Waiting(m)' => Waiting(m)
        /\ \A m \in Name, q \in Key : KeyOf(m, q)' => KeyOf(m, q)
    BY <2>1 DEF Waiting, KeyOf
  <2>5. RowParts'
    BY <1>0, <1>1, <1>3, <2>1, <2>3, <2>4, Shrink
  <2>6. config.delete
    BY <1>0, <2>1 DEF Numbered
  <2>7. \A q : ~Unwritten(q)'
    BY <1>1, <2>1, <2>6 DEF Unwritten
  <2>8. QED
    BY <2>5, <2>7 DEF Spared
<1>6. ASSUME Fetch PROVE RowParts' /\ Spared'
  <2>1. UNCHANGED <<docs, owner, link, saved, rows, known>> /\ phase = "read"
    BY <1>6 DEF Fetch, siteVars, partnerVars
  <2>2. PICK B \in SUBSET todo :
          /\ todo' = todo \ B
          /\ source' =
               [n \in Name |->
                  IF n \in B /\ docs[n] \in Doc
                  THEN [key |-> docs[n].key, val |-> docs[n].val, link |-> link[n]]
                  ELSE source[n]]
          /\ \A n \in Name, i \in Id \cup {None} : <<n, i>> \in work' => n \in B
    BY <1>0, <1>6, FetchEffect DEF OwnInv
  <2>3. \A m \in Name : Waiting(m)' => Waiting(m)
    BY <2>2 DEF Waiting
  <2>4. ASSUME NEW m \in Name, NEW k \in Key, KeyOf(m, k)' PROVE KeyOf(m, k)
    <3>1. CASE m \in B /\ docs[m] \in Doc
      BY <2>1, <2>2, <2>4, <3>1 DEF KeyOf
    <3>2. CASE ~(m \in B /\ docs[m] \in Doc)
      BY <2>1, <2>2, <2>4, <3>2 DEF KeyOf
    <3>3. QED
      BY <3>1, <3>2
  <2>5. \A j \in Present(rows)' : j \in Present(rows) /\ rows'[j] = rows[j]
    BY <2>1 DEF Present
  <2>6. RowParts'
    BY <1>0, <1>1, <1>3, <2>1, <2>3, <2>4, <2>5, Shrink
  <2>7. \A k \in Key : Unwritten(k)' => Unwritten(k)
    BY <1>0, <2>1, <2>3 DEF Unwritten, TypeOK
  <2>8. QED
    BY <1>4, <2>1, <2>6, <2>7
<1>7. ASSUME EndBatch PROVE RowParts' /\ Spared'
  <2>1. /\ UNCHANGED <<docs, owner, link, rows, known, source, todo, work>>
        /\ saved' = link /\ phase = "write"
        /\ phase' \in IF todo = {} THEN {"end"} ELSE {"read", "end"}
    BY <1>7 DEF EndBatch, partnerVars, runVars
  <2>2. /\ \A m \in Name : Waiting(m)' => Waiting(m)
        /\ \A m \in Name, q \in Key : KeyOf(m, q)' => KeyOf(m, q)
    BY <2>1 DEF Waiting, KeyOf
  <2>3. \A j \in Present(rows)' : j \in Present(rows) /\ rows'[j] = rows[j]
    BY <2>1 DEF Present
  <2>4. RowParts'
    BY <1>0, <1>1, <1>3, <2>1, <2>2, <2>3, Shrink
  <2>5. phase' # "end" => ~config.delete
    BY <1>0, <2>1 DEF Quiet
  <2>6. \A k \in Key : Unwritten(k)' => Unwritten(k)
    BY <1>0, <1>1, <2>1, <2>2, <2>5 DEF Unwritten, TypeOK
  <2>7. QED
    BY <1>4, <2>1, <2>4, <2>6
<1>8. ASSUME Finish PROVE RowParts' /\ Spared'
  <2>1. link = saved
    BY <1>0, <1>8 DEF Finish, Quiet
  <2>2. QED
    BY <1>2, <1>8, <2>1, LeaveKeepsRows DEF Finish, siteVars, partnerVars
<1>9. ASSUME Crash PROVE RowParts' /\ Spared'
  BY <1>2, <1>9, LeaveKeepsRows DEF Crash, partnerVars
<1>10. ASSUME UNCHANGED vars PROVE RowParts' /\ Spared'
  <2>1. UNCHANGED <<docs, owner, link, saved, rows, known, source, todo, work, phase>>
    BY <1>10 DEF vars, siteVars, partnerVars, runVars
  <2>2. /\ \A m \in Name : Waiting(m)' => Waiting(m)
        /\ \A m \in Name, q \in Key : KeyOf(m, q)' => KeyOf(m, q)
    BY <2>1 DEF Waiting, KeyOf
  <2>3. \A j \in Present(rows)' : j \in Present(rows) /\ rows'[j] = rows[j]
    BY <2>1 DEF Present
  <2>4. RowParts'
    BY <1>0, <1>1, <1>3, <2>1, <2>2, <2>3, Shrink
  <2>5. \A k \in Key : Unwritten(k)' => Unwritten(k)
    BY <1>0, <1>1, <2>1, <2>2 DEF Unwritten, TypeOK
  <2>6. QED
    BY <1>4, <2>1, <2>4, <2>5
<1>11. QED
  BY <1>0, <1>2, <1>5, <1>6, <1>7, <1>8, <1>9, <1>10, EditKeepsRows, InsertKeepsRows,
     VanishKeepsRows, StartKeepsRows, WriteKeepsRows DEF Next

LEMMA InitRow == Init => RowInv
<1> SUFFICES ASSUME Init PROVE RowInv
  OBVIOUS
<1>1. OwnInv
  BY InitOwn
<1>2. /\ Present(rows) = {} /\ Present(known) = {}
      /\ \A n \in Name : docs[n] = None /\ source[n] = None
  BY DEF Init, Nothing, Present
<1>3. OneKey
  BY <1>2 DEF OneKey, KeyOf
<1>4. QED
  BY <1>1, <1>2, <1>3 DEF RowInv, RowParts, Tied, AsLinked, OneRow, Hidden, Indexed,
                          LinkedKnown, Findable, Spared

\* With stored identities a document has at most one row at the partner, through
\* renames, killed workers and identities that were not stored.
THEOREM OneRowForEachDocument ==
  ASSUME Disciplined
  PROVE  Spec => []OneRowPerDocument
<1>1. RowInv /\ [Next]_vars => RowInv'
  BY NextRow
<1>2. RowInv => OneRowPerDocument
  BY DEF RowInv, RowParts, OneRow, OneRowPerDocument
<1>3. QED
  BY <1>1, <1>2, InitRow, PTL DEF Spec

-----------------------------------------------------------------------------
(* The image of what was read *)

\* The row is what was read of the document.
Image(i, n) ==
  /\ rows[i] # None /\ source[n] # None
  /\ rows[i].key = source[n].key /\ rows[i].val = source[n].val

\* A run that deletes fetches once, and deletes no key that it read.
Sorted ==
  /\ phase # "write" => doomed = {}
  /\ config.delete /\ phase = "read" => \A n \in Name : source[n] = None
  /\ doomed \cap keys = {}
  /\ config.delete => \A n \in Name :
       source[n] # None /\ source[n].key # NoKey => source[n].key \in keys

\* Then every row has a key that was read or is still to be deleted.
Kept ==
  config.delete /\ ~failed /\ ~touched => \A i \in Present(rows) :
    /\ phase = "read" => \E j \in Present(known) : known[j].key = rows[i].key
    /\ phase \in {"write", "end"} => rows[i].key \in keys \cup doomed

\* Until rows are deleted, a row loaded is as it was or the image of its key's owner.
Loaded ==
  /\ ~touched /\ phase # "idle"
  /\ config.delete => phase = "read" \/ work # {}
  => \A i \in Present(known) :
       \/ rows[i] # None /\ rows[i].key = known[i].key /\ rows[i].val = known[i].val
       \/ \E m \in Name : owner[known[i].key] = m /\ Image(i, m)

\* A document that was written has an image.
Imaged ==
  ~failed /\ ~touched /\ config.create /\ config.update =>
    \A n \in Name : source[n] # None /\ ~Waiting(n) => \E i \in Id : Image(i, n)

\* A row loaded that a written document is linked to has the key that was read.
LinksWritten ==
  ~failed /\ ~touched /\ config.update =>
    \A n \in Name, i \in Present(rows) \cap Present(known) :
      source[n] # None /\ ~Waiting(n) /\ link[n] = i => rows[i].key = source[n].key

ImageInv == OwnInv /\ Sorted /\ Kept /\ Loaded /\ Imaged

\* A write that does not fail writes the rows it selects, or need not.
LEMMA WriteOutcome ==
  ASSUME PlanInv, NEW n \in Name, NEW i \in Id \cup {None}, Write(n, i), ~failed'
  PROVE  /\ ~failed /\ source[n].key # NoKey
         /\ \/ ~Exhausted(Selected(n, i)) /\ Upsert(n, Selected(n, i))
            \/ /\ rows' = rows
               /\ \/ i = None /\ ~config.create
                  \/ i # None /\ ~config.update
                  \/ /\ i # None
                     /\ known[i].key = source[n].key /\ known[i].val = source[n].val
<1>0. TypeOK /\ <<n, i>> \in work /\ i \in Targets(n, source)
  BY DEF Write, PlanInv, Planned
<1>1. source[n].key # NoKey
  BY DEF Write, Error
<1>2. ASSUME NEW r, Persist(n, r) PROVE ~failed
  BY <1>2 DEF Persist, Error
<1>3. CASE i = None
  <2> DEFINE id == IF config.identity THEN source[n].link ELSE None
             S == ForWrite(n)
  <2>1. S = Selected(n, i)
    BY <1>3 DEF Selected
  <2>2. \/ (Skip /\ ~config.create)
        \/ (Error /\ UNCHANGED <<partnerVars, faults>>) \/ Rejected
        \/ (~Exhausted(S) /\ Upsert(n, S) /\ \E r \in Resolved(id, S) : Persist(n, r))
    BY <1>1, <1>3 DEF Write, Create
  <2> HIDE DEF id, S
  <2>3. CASE ~Exhausted(S) /\ Upsert(n, S) /\ \E r \in Resolved(id, S) : Persist(n, r)
    BY <1>1, <1>2, <2>1, <2>3
  <2>4. CASE Skip /\ ~config.create
    BY <1>1, <1>3, <2>4 DEF Skip, partnerVars
  <2>5. QED
    BY <2>2, <2>3, <2>4 DEF Error, Rejected
<1>4. CASE i # None
  <2> DEFINE id == IF config.identity THEN i ELSE None
             S == ForExistingMatch(n, i)
             same == \A j \in IF config.identity \/ ~config.all THEN {i}
                              ELSE Matches(n, source) :
                       known[j].key = source[n].key /\ known[j].val = source[n].val
  <2>1. S = Selected(n, i) /\ i \in Matches(n, source)
    BY <1>0, <1>4, TargetsAlone DEF Selected
  <2>2. \/ Skip /\ (~config.update \/ same)
        \/ (Error /\ UNCHANGED <<partnerVars, faults>>) \/ Rejected
        \/ /\ ~Exhausted(S) /\ Upsert(n, S)
           /\ failed' = failed \/ \E r \in Resolved(id, S) : Persist(n, r)
    BY <1>1, <1>4 DEF Write, Update
  <2>3. same => known[i].key = source[n].key /\ known[i].val = source[n].val
    BY <2>1
  <2> HIDE DEF id, S, same
  <2>4. CASE /\ ~Exhausted(S) /\ Upsert(n, S)
             /\ failed' = failed \/ \E r \in Resolved(id, S) : Persist(n, r)
    BY <1>1, <1>2, <2>1, <2>4
  <2>5. CASE Skip /\ (~config.update \/ same)
    BY <1>1, <1>4, <2>3, <2>5 DEF Skip, partnerVars
  <2>6. QED
    BY <2>2, <2>4, <2>5 DEF Error, Rejected
<1>5. QED
  BY <1>3, <1>4

\* What an upsert selects, or inserts, is the image.
LEMMA UpsertImage ==
  ASSUME TypeOK, NEW n \in Name, NEW i \in Id \cup {None}, <<n, i>> \in work,
         source[n].key # NoKey, source[n] # None, source' = source,
         ~Exhausted(Selected(n, i)), Upsert(n, Selected(n, i))
  PROVE  /\ \E j \in Id : Image(j, n)'
         /\ \A j \in Selected(n, i) : Image(j, n)'
<1> DEFINE S == Selected(n, i)
<1>1. S \in SUBSET Present(rows) /\ S \subseteq Id
  BY SelectedRows DEF TypeOK, Present
<1>2. source[n].key \in Key /\ source[n].val \in Val
  BY ReadType
<1>3. ASSUME NEW f \in Name \cup {None}
      PROVE  [key |-> source[n].key, val |-> source[n].val, from |-> f] # None
  <2>1. [key |-> source[n].key, val |-> source[n].val, from |-> f] \in Row
    BY <1>2 DEF Row
  <2>2. QED
    BY <2>1
<1>4. \A j \in S : rows[j].from \in Name \cup {None}
  BY <1>1 DEF TypeOK, Present, Row
<1>5. CASE S # {}
  <2>1. \A j \in S : rows'[j] = [key |-> source[n].key, val |-> source[n].val,
                                 from |-> rows[j].from]
    BY <1>1, <1>5 DEF Upsert
  <2>2. ASSUME NEW j \in S PROVE Image(j, n)'
    <3>1. rows'[j] = [key |-> source[n].key, val |-> source[n].val,
                      from |-> rows[j].from]
      BY <2>1
    <3>2. rows'[j] # None
      BY <1>3, <1>4, <3>1
    <3>3. rows'[j].key = source[n].key /\ rows'[j].val = source[n].val
      BY <3>1
    <3>4. QED
      BY <3>2, <3>3 DEF Image
  <2> HIDE DEF S
  <2>3. QED
    BY <1>1, <1>5, <2>2 DEF S
<1>6. CASE S = {}
  <2>1. NewId \in Id
    BY <1>6, NewIdFree DEF Exhausted, Id
  <2>2. rows' = [rows EXCEPT ![NewId] = [key |-> source[n].key, val |-> source[n].val,
                                         from |-> n]]
    BY <1>6 DEF Upsert
  <2>3. rows'[NewId] = [key |-> source[n].key, val |-> source[n].val, from |-> n]
    BY <2>1, <2>2 DEF TypeOK
  <2>4. rows'[NewId] # None
    BY <1>3, <2>3
  <2>5. rows'[NewId].key = source[n].key /\ rows'[NewId].val = source[n].val
    BY <2>3
  <2>6. QED
    BY <1>6, <2>1, <2>4, <2>5 DEF Image
<1>7. QED
  BY <1>5, <1>6

\* A document fetched is planned.
LEMMA FetchPlans ==
  ASSUME PlanInv, Fetch
  PROVE  /\ \A n \in Name : source'[n] # None /\ ~Waiting(n)' =>
              source'[n] = source[n] /\ ~Waiting(n)
         /\ \A n \in Name : source[n] # None => source'[n] = source[n]
         /\ \A n \in Name : source'[n] # source[n] =>
              docs[n] \in Doc /\ source'[n].key = docs[n].key
<1>0. TypeOK /\ TypeOK' /\ Quiet
  BY NextType DEF PlanInv, Next
<1>1. PICK B \in SUBSET todo :
        /\ todo' = todo \ B
        /\ source' =
             [n \in Name |->
                IF n \in B /\ docs[n] \in Doc
                THEN [key |-> docs[n].key, val |-> docs[n].val, link |-> link[n]]
                ELSE source[n]]
        /\ work' = UNION {{n} \X Targets(n, source') : n \in B \cap Present(source')}
  BY DEF Fetch
<1>2. \A n \in todo : source[n] = None
  BY <1>0 DEF Quiet
<1>3. work = {}
  BY <1>0 DEF Fetch, Quiet
<1>4. ASSUME NEW n \in Name, source'[n] # None, n \in B PROVE Waiting(n)'
  <2>1. n \in Present(source')
    BY <1>0, <1>4 DEF Present, TypeOK
  <2>2. PICK i : i \in Targets(n, source')
    BY DEF Targets
  <2>3. i \in Id \cup {None}
    BY <1>0, <2>2, TargetsType DEF Present, TypeOK
  <2>4. work' = UNION {{m} \X Targets(m, source') : m \in B \cap Present(source')}
    BY <1>1
  <2>5. <<n, i>> \in {n} \X Targets(n, source')
    BY <2>2
  <2>6. {n} \X Targets(n, source')
          \in {{m} \X Targets(m, source') : m \in B \cap Present(source')}
    BY <1>4, <2>1
  <2>7. <<n, i>> \in work'
    BY <2>4, <2>5, <2>6, Zenon
  <2>8. QED
    BY <2>3, <2>7 DEF Waiting
<1>5. ASSUME NEW n \in Name, n \notin B PROVE source'[n] = source[n]
  BY <1>1, <1>5
<1>6. ASSUME NEW n \in Name, n \notin B, Waiting(n) PROVE Waiting(n)'
  BY <1>1, <1>3, <1>6 DEF Waiting
<1>7. ASSUME NEW n \in Name, source'[n] # source[n]
      PROVE  docs[n] \in Doc /\ source'[n].key = docs[n].key
  <2>1. n \in B /\ docs[n] \in Doc
    BY <1>1, <1>7
  <2>2. source'[n] = [key |-> docs[n].key, val |-> docs[n].val, link |-> link[n]]
    BY <1>1, <2>1
  <2>3. QED
    BY <2>1, <2>2
<1>8. QED
  BY <1>2, <1>4, <1>5, <1>6, <1>7

LEMMA ImageOwner ==
  ASSUME OwnInv, NEW j \in Id, NEW m \in Name, Image(j, m)
  PROVE  owner[rows[j].key] = m /\ rows[j].key \in Key
<1>1. rows[j].key \in Key
  BY DEF OwnInv, PlanInv, TypeOK, Row, Image
<1>2. KeyOf(m, rows[j].key)
  BY DEF Image, KeyOf
<1>3. QED
  BY <1>1, <1>2 DEF OwnInv, Owned

\* A write leaves the images of other documents and renews those of its own.
LEMMA WriteKeepsImages ==
  ASSUME ImageInv, NEW n \in Name, NEW i \in Id \cup {None}, Write(n, i)
  PROVE  Sorted' /\ Kept' /\ Loaded' /\ Imaged'
<1>0. OwnInv /\ PlanInv /\ TypeOK /\ Owned /\ TypeOK'
  BY WriteType DEF ImageInv, OwnInv, PlanInv
<1>1. /\ UNCHANGED <<config, docs, owner, known, source, todo, keys, doomed, phase, touched>>
      /\ phase = "write" /\ work' = work \ {<<n, i>>} /\ <<n, i>> \in work
      /\ source[n] # None /\ i \in Targets(n, source)
  BY <1>0, WriteEffect DEF PlanInv, Planned
<1>2. ASSUME NEW j \in Id, rows'[j] # rows[j]
      PROVE  /\ Image(j, n)' /\ source[n].key \in Key /\ rows'[j].key = source[n].key
             /\ rows[j] # None => owner[rows[j].key] = n
  BY <1>0, <1>1, <1>2, ChangedRow DEF Image
<1>3. ASSUME NEW j \in Id, NEW m \in Name, Image(j, m) PROVE Image(j, m)'
  <2>1. CASE rows'[j] = rows[j]
    BY <1>1, <1>3, <2>1 DEF Image
  <2>2. CASE rows'[j] # rows[j]
    <3>1. m = n
      BY <1>0, <1>2, <1>3, <2>2, ImageOwner DEF Image
    <3>2. QED
      BY <1>2, <2>2, <3>1
  <2>3. QED
    BY <2>1, <2>2
<1>4. ~failed' => ~failed
  BY <1>0, WriteOutcome
<1>5. Present(known)' = Present(known) /\ Present(known) \subseteq Id
  BY <1>0, <1>1 DEF Present, TypeOK
<1>6. Sorted'
  BY <1>1 DEF ImageInv, Sorted
<1>7. Kept'
  <2> SUFFICES ASSUME config.delete, ~failed', ~touched, NEW j \in Present(rows)'
               PROVE  rows'[j].key \in keys \cup doomed
    BY <1>1 DEF Kept
  <2>1. j \in Id /\ rows'[j] # None
    BY <1>0 DEF Present, TypeOK
  <2>2. CASE rows'[j] = rows[j]
    <3>1. j \in Present(rows)
      BY <1>0, <2>1, <2>2 DEF Present, TypeOK
    <3>2. QED
      BY <1>1, <1>4, <2>2, <3>1 DEF ImageInv, Kept
  <2>3. CASE rows'[j] # rows[j]
    <3>1. rows'[j].key = source[n].key /\ source[n].key # NoKey
      BY <1>2, <2>1, <2>3
    <3>2. QED
      BY <1>1, <3>1 DEF ImageInv, Sorted
  <2>4. QED
    BY <2>2, <2>3
<1>8. Loaded'
  <2> SUFFICES ASSUME ~touched, NEW j \in Present(known)
               PROVE  \/ /\ rows'[j] # None
                         /\ rows'[j].key = known[j].key /\ rows'[j].val = known[j].val
                      \/ \E m \in Name : owner[known[j].key] = m /\ Image(j, m)'
    BY <1>1, <1>5 DEF Loaded, Image
  <2>1. j \in Id
    BY <1>5
  <2>2. \/ rows[j] # None /\ rows[j].key = known[j].key /\ rows[j].val = known[j].val
        \/ \E m \in Name : owner[known[j].key] = m /\ Image(j, m)
    BY <1>1 DEF ImageInv, Loaded
  <2>3. CASE rows[j] # None /\ rows[j].key = known[j].key /\ rows[j].val = known[j].val
    <3>1. CASE rows'[j] = rows[j]
      BY <2>3, <3>1
    <3>2. CASE rows'[j] # rows[j]
      <4>1. owner[known[j].key] = n /\ Image(j, n)'
        BY <1>2, <2>1, <2>3, <3>2
      <4>2. QED
        BY <4>1
    <3>3. QED
      BY <3>1, <3>2
  <2>4. CASE \E m \in Name : owner[known[j].key] = m /\ Image(j, m)
    BY <1>3, <2>1, <2>4
  <2>5. QED
    BY <2>2, <2>3, <2>4
<1>9. Imaged'
  <2> SUFFICES ASSUME ~failed', ~touched, config.create, config.update,
                      NEW m \in Name, source[m] # None, ~Waiting(m)'
               PROVE  \E j \in Id : Image(j, m)'
    BY <1>1 DEF Imaged, Image
  <2>1. CASE ~Waiting(m)
    <3>1. PICK j \in Id : Image(j, m)
      BY <1>4, <2>1 DEF ImageInv, Imaged
    <3>2. QED
      BY <1>3, <3>1
  <2>2. CASE Waiting(m)
    <3>1. m = n
      BY <1>1, <2>2 DEF Waiting
    <3>2. CASE ~Exhausted(Selected(n, i)) /\ Upsert(n, Selected(n, i))
      <4>1. source[n].key # NoKey
        BY <1>0, WriteOutcome
      <4>2. QED
        BY <1>0, <1>1, <3>1, <3>2, <4>1, UpsertImage
    <3>3. CASE /\ rows' = rows /\ i # None
               /\ known[i].key = source[n].key /\ known[i].val = source[n].val
      <4>1. i \in Present(known) /\ i \in Id
        BY <1>0, <1>1, <1>5, <3>3, TargetsType DEF TypeOK
      <4>2. \/ rows[i] # None /\ rows[i].key = known[i].key /\ rows[i].val = known[i].val
            \/ \E x \in Name : owner[known[i].key] = x /\ Image(i, x)
        BY <1>1, <4>1 DEF ImageInv, Loaded
      <4>3. owner[source[n].key] = n
        <5>1. source[n].key \in Key
          BY <1>0, <3>3, <4>1 DEF TypeOK, Present, Row
        <5>2. QED
          BY <1>0, <1>1, <5>1 DEF Owned, KeyOf
      <4>4. Image(i, n)
        BY <1>1, <3>3, <4>2, <4>3 DEF Image
      <4>5. QED
        BY <1>3, <3>1, <4>1, <4>4
    <3>4. QED
      BY <1>0, <3>2, <3>3, WriteOutcome
  <2>3. QED
    BY <2>1, <2>2
<1>10. QED
  BY <1>6, <1>7, <1>8, <1>9

LEMMA NextImage ==
  ASSUME Disciplined
  PROVE  ImageInv /\ [Next]_vars => ImageInv'
<1> SUFFICES ASSUME ImageInv, [Next]_vars PROVE ImageInv'
  OBVIOUS
<1>0. OwnInv /\ OwnInv' /\ PlanInv /\ TypeOK /\ TypeOK' /\ Quiet /\ Numbered /\ ~Reuse
  BY NextOwn DEF ImageInv, OwnInv, PlanInv, Disciplined
<1>1. SUFFICES Sorted' /\ Kept' /\ Loaded' /\ Imaged'
  BY <1>0 DEF ImageInv
<1>2. Sorted /\ Kept /\ Loaded /\ Imaged
  BY DEF ImageInv
<1>3. ASSUME UNCHANGED <<config, rows, phase, known, todo, source, keys, work, doomed,
                         failed, touched>>,
             \A k \in Key : owner[k] # None => owner'[k] = owner[k]
      PROVE  Sorted' /\ Kept' /\ Loaded' /\ Imaged'
  <2>1. /\ Present(rows)' = Present(rows) /\ Present(known)' = Present(known)
        /\ \A n \in Name : Waiting(n)' <=> Waiting(n)
        /\ \A i, n : Image(i, n)' <=> Image(i, n)
    BY <1>3 DEF Present, Waiting, Image
  <2>2. \A i \in Present(known) : known[i].key \in Key
    BY <1>0 DEF Present, TypeOK, Row
  <2>3. Loaded'
    <3> SUFFICES ASSUME ~touched, phase # "idle",
                        config.delete => phase = "read" \/ work # {},
                        NEW i \in Present(known)
                 PROVE  \/ /\ rows[i] # None
                           /\ rows[i].key = known[i].key /\ rows[i].val = known[i].val
                        \/ \E m \in Name : owner'[known[i].key] = m /\ Image(i, m)
      BY <1>3, <2>1 DEF Loaded
    <3>1. \/ rows[i] # None /\ rows[i].key = known[i].key /\ rows[i].val = known[i].val
          \/ \E m \in Name : owner[known[i].key] = m /\ Image(i, m)
      BY <1>2 DEF Loaded
    <3>2. ASSUME NEW m \in Name, owner[known[i].key] = m PROVE owner'[known[i].key] = m
      BY <1>3, <2>2, <3>2
    <3>3. QED
      BY <3>1, <3>2
  <2>4. QED
    BY <1>2, <1>3, <2>1, <2>3 DEF Sorted, Kept, Imaged
<1>4. ASSUME NEW n \in Name, Edit(n) PROVE Sorted' /\ Kept' /\ Loaded' /\ Imaged'
  BY <1>0, <1>3, <1>4, EditEffect, EditOwner
<1>5. ASSUME UNCHANGED vars PROVE Sorted' /\ Kept' /\ Loaded' /\ Imaged'
  BY <1>3, <1>5 DEF vars, siteVars, partnerVars, runVars
<1>6. ASSUME touched' = (phase # "idle"),
             UNCHANGED <<config, phase, known, todo, source, keys, work, doomed, failed>>
      PROVE  Sorted' /\ Kept' /\ Loaded' /\ Imaged'
  <2>1. phase = "idle" => \A n \in Name : source[n] = None
    BY <1>0 DEF Quiet, Nothing
  <2>2. QED
    BY <1>2, <1>6, <2>1 DEF Sorted, Kept, Loaded, Imaged
<1>7. ASSUME Insert PROVE Sorted' /\ Kept' /\ Loaded' /\ Imaged'
  BY <1>6, <1>7 DEF Insert, runVars
<1>8. ASSUME NEW i \in Id, Vanish(i) PROVE Sorted' /\ Kept' /\ Loaded' /\ Imaged'
  BY <1>6, <1>8 DEF Vanish, runVars
<1>9. ASSUME Start PROVE Sorted' /\ Kept' /\ Loaded' /\ Imaged'
  <2>1. /\ UNCHANGED <<config, rows, source, keys, doomed, failed, touched>>
        /\ phase = "idle" /\ phase' = "read"
    BY <1>9 DEF Start, partnerVars
  <2>2. /\ \A j \in Present(known)' : j \in Present(rows) /\ known'[j] = rows[j]
        /\ \A i \in Present(rows) :
             \E j \in Present(known)' : rows[j].key = rows[i].key
    BY <1>0, <1>9, StartLoads
  <2>3. \A n \in Name : source[n] = None
    BY <1>0, <2>1 DEF Quiet, Nothing
  <2>4. Present(rows)' = Present(rows) /\ \A i \in Present(rows) : rows[i] # None
    BY <2>1 DEF Present
  <2>5. Sorted' /\ Imaged'
    BY <1>2, <2>1, <2>3 DEF Sorted, Imaged
  <2>6. Kept'
    BY <2>1, <2>2, <2>4 DEF Kept
  <2>7. Loaded'
    BY <2>1, <2>2, <2>4 DEF Loaded
  <2>8. QED
    BY <2>5, <2>6, <2>7
<1>10. ASSUME Fetch PROVE Sorted' /\ Kept' /\ Loaded' /\ Imaged'
  <2>1. /\ UNCHANGED <<config, docs, owner, rows, known, failed, touched>>
        /\ phase = "read" /\ phase' = "write"
        /\ keys' = IF config.delete THEN SourceKeys ELSE {}
        /\ doomed' = IF config.delete THEN {known[i].key : i \in Present(known)} \ keys'
                     ELSE {}
    BY <1>10 DEF Fetch, siteVars, partnerVars
  <2>2. /\ \A n \in Name : source'[n] # None /\ ~Waiting(n)' =>
             source'[n] = source[n] /\ ~Waiting(n)
        /\ \A n \in Name : source[n] # None => source'[n] = source[n]
        /\ \A n \in Name : source'[n] # source[n] =>
             docs[n] \in Doc /\ source'[n].key = docs[n].key
    BY <1>0, <1>10, FetchPlans
  <2>3. Present(rows)' = Present(rows) /\ Present(known)' = Present(known)
    BY <2>1 DEF Present
  <2>4. \A i \in Id, n \in Name : Image(i, n) => Image(i, n)'
    BY <2>1, <2>2 DEF Image
  <2>5. ASSUME config.delete, NEW n \in Name, source'[n] # None, source'[n].key # NoKey
        PROVE  source'[n].key \in keys'
    <3>1. source[n] = None
      BY <1>2, <2>1, <2>5 DEF Sorted
    <3>2. docs[n] \in Doc /\ source'[n].key = docs[n].key
      BY <2>2, <2>5, <3>1
    <3>3. QED
      BY <2>1, <2>5, <3>2 DEF SourceKeys
  <2>6. Sorted'
    BY <2>1, <2>5 DEF Sorted
  <2>7. Kept'
    <3> SUFFICES ASSUME config.delete, ~failed, ~touched, NEW i \in Present(rows)
                 PROVE  rows[i].key \in keys' \cup doomed'
      BY <2>1, <2>3 DEF Kept
    <3>1. PICK j \in Present(known) : known[j].key = rows[i].key
      BY <1>2, <2>1 DEF Kept
    <3>2. QED
      BY <2>1, <3>1
  <2>8. Loaded'
    <3>1. Present(known) \subseteq Id
      BY <1>0 DEF Present, TypeOK
    <3>2. QED
      BY <1>2, <2>1, <2>3, <2>4, <3>1 DEF Loaded
  <2>9. Imaged'
    BY <1>2, <2>1, <2>2, <2>4 DEF Imaged
  <2>10. QED
    BY <2>6, <2>7, <2>8, <2>9
<1>11. ASSUME EndBatch PROVE Sorted' /\ Kept' /\ Loaded' /\ Imaged'
  <2>1. /\ UNCHANGED <<config, owner, rows, known, todo, source, keys, work, doomed,
                       failed, touched>>
        /\ phase = "write" /\ work = {} /\ doomed = {}
        /\ phase' \in IF todo = {} THEN {"end"} ELSE {"read", "end"}
    BY <1>11 DEF EndBatch, partnerVars, runVars
  <2>2. config.delete => phase' = "end"
    BY <1>0, <2>1 DEF Quiet
  <2>3. /\ Present(rows)' = Present(rows) /\ Present(known)' = Present(known)
        /\ \A n \in Name : Waiting(n)' <=> Waiting(n)
        /\ \A i, n : Image(i, n)' <=> Image(i, n)
    BY <2>1 DEF Present, Waiting, Image
  <2>4. Sorted'
    BY <1>2, <2>1, <2>2 DEF Sorted
  <2>5. Kept'
    BY <1>2, <2>1, <2>2, <2>3 DEF Kept
  <2>6. Loaded'
    BY <1>2, <2>1, <2>2, <2>3 DEF Loaded
  <2>7. Imaged'
    BY <1>2, <2>1, <2>3 DEF Imaged
  <2>8. QED
    BY <2>4, <2>5, <2>6, <2>7
<1>12. ASSUME Leave PROVE Sorted' /\ Kept' /\ Loaded' /\ Imaged'
  <2>1. /\ phase' = "idle" /\ doomed' = {}
        /\ \A n \in Name : source'[n] = None
    BY <1>12 DEF Leave, Nothing
  <2>2. QED
    BY <2>1 DEF Sorted, Kept, Loaded, Imaged
<1>13. ASSUME NEW k \in Key, Delete(k) PROVE Sorted' /\ Kept' /\ Loaded' /\ Imaged'
  <2>1. /\ UNCHANGED <<config, phase, known, todo, source, keys, work, touched>>
        /\ phase = "write" /\ work = {} /\ k \in doomed /\ doomed' = doomed \ {k}
    BY <1>13 DEF Delete, runVars
  <2>2. config.delete
    BY <1>0, <2>1 DEF Numbered
  <2>3. Sorted'
    BY <1>2, <2>1 DEF Sorted
  <2>4. Loaded'
    BY <2>1, <2>2 DEF Loaded
  <2>5. ~failed' => /\ ~failed
                    /\ rows' = [i \in Id |-> IF i \in WithKey(k) THEN None ELSE rows[i]]
    BY <1>13 DEF Delete, Rejected, Error
  <2>6. Kept'
    <3> SUFFICES ASSUME ~failed', ~touched, NEW i \in Present(rows)'
                 PROVE  rows'[i].key \in keys \cup doomed'
      BY <2>1 DEF Kept
    <3>1. i \in Id /\ rows'[i] # None
      BY <1>0 DEF Present, TypeOK
    <3>2. i \notin WithKey(k) /\ rows'[i] = rows[i]
      BY <2>5, <3>1
    <3>3. i \in Present(rows) /\ rows[i].key # k
      BY <1>0, <3>1, <3>2 DEF WithKey, Present, TypeOK
    <3>4. QED
      BY <1>2, <2>1, <2>2, <2>5, <3>2, <3>3 DEF Kept
  <2>7. Imaged'
    <3> SUFFICES ASSUME ~failed', ~touched, config.create, config.update,
                        NEW n \in Name, source[n] # None, ~Waiting(n)
                 PROVE  \E i \in Id : Image(i, n)'
      BY <2>1 DEF Imaged, Image, Waiting
    <3>1. PICK i \in Id : Image(i, n)
      BY <1>2, <2>5 DEF Imaged
    <3>2. rows[i].key = source[n].key /\ rows[i].key \in Key
      BY <1>0, <3>1, ImageOwner DEF Image
    <3>3. rows[i].key # k
      BY <1>2, <2>1, <2>2, <3>2 DEF Sorted
    <3>4. i \notin WithKey(k)
      BY <3>3 DEF WithKey
    <3>5. rows'[i] = rows[i]
      BY <2>5, <3>4
    <3>6. QED
      BY <2>1, <3>1, <3>5 DEF Image
  <2>8. QED
    BY <2>3, <2>4, <2>6, <2>7
<1>14. QED
  BY <1>4, <1>5, <1>7, <1>8, <1>9, <1>10, <1>11, <1>12, <1>13, WriteKeepsImages
     DEF Next, Finish, Crash

LEMMA InitImage == Init => ImageInv
<1> SUFFICES ASSUME Init PROVE ImageInv
  OBVIOUS
<1>1. OwnInv
  BY InitOwn
<1>2. phase = "idle" /\ doomed = {} /\ \A n \in Name : source[n] = None
  BY DEF Init, Nothing
<1>3. QED
  BY <1>1, <1>2 DEF ImageInv, Sorted, Kept, Loaded, Imaged

LEMMA AlwaysImage ==
  ASSUME Disciplined
  PROVE  Spec => []ImageInv
<1>1. ImageInv /\ [Next]_vars => ImageInv'
  BY NextImage
<1>2. QED
  BY <1>1, InitImage, PTL DEF Spec

\* A run that ends without a failed record and without others at the table leaves the
\* image of every document it read, and nothing else if it deletes.
THEOREM EndMirrorsSource ==
  ASSUME Disciplined
  PROVE  Spec => []MirrorsSource
<1>1. ImageInv => MirrorsSource
  <2> SUFFICES ASSUME ImageInv, phase = "end", ~failed, ~touched,
                      config.create, config.update
               PROVE  /\ \A n \in Present(source) :
                           \E i \in Present(rows) : /\ rows[i].key = source[n].key
                                                    /\ rows[i].val = source[n].val
                      /\ config.delete => \A i \in Present(rows) : rows[i].key \in keys
    BY DEF MirrorsSource
  <2>0. TypeOK /\ Quiet /\ Sorted /\ Kept /\ Imaged
    BY DEF ImageInv, OwnInv, PlanInv
  <2>1. ASSUME NEW n \in Present(source)
        PROVE  \E i \in Present(rows) : /\ rows[i].key = source[n].key
                                        /\ rows[i].val = source[n].val
    <3>1. n \in Name /\ source[n] # None
      BY <2>0 DEF Present, TypeOK
    <3>2. ~Waiting(n)
      BY <2>0, <3>1 DEF Waiting, Quiet
    <3>3. PICK i \in Id : Image(i, n)
      BY <2>0, <3>1, <3>2 DEF Imaged
    <3>4. i \in Present(rows)
      BY <2>0, <3>3 DEF Image, Present, TypeOK
    <3>5. QED
      BY <3>3, <3>4 DEF Image
  <2>2. config.delete => \A i \in Present(rows) : rows[i].key \in keys
    BY <2>0 DEF Sorted, Kept
  <2>3. QED
    BY <2>1, <2>2
<1>2. Spec => []ImageInv
  BY AlwaysImage
<1>3. QED
  BY <1>1, <1>2, PTL

LinkInv == RowInv /\ ImageInv /\ (config.identity => LinksWritten)

LEMMA WriteKeepsLinks ==
  ASSUME LinkInv, config.identity, NEW m \in Name, NEW j \in Id \cup {None}, Write(m, j)
  PROVE  LinksWritten'
<1>0. RowInv /\ OwnInv /\ PlanInv /\ Owned /\ TypeOK /\ TypeOK' /\ Loaded /\ LinksWritten
  BY WriteType DEF LinkInv, ImageInv, OwnInv, PlanInv
<1>1. /\ UNCHANGED <<config, known, source, todo, touched>>
      /\ phase = "write" /\ work' = work \ {<<m, j>>} /\ <<m, j>> \in work
      /\ j \in Targets(m, source) /\ source[m] # None /\ source[m].link = link[m]
  BY <1>0, WriteEffect DEF PlanInv, Planned
<1> SUFFICES ASSUME ~failed', ~touched, config.update,
                    NEW n \in Name, NEW i \in Present(rows)' \cap Present(known),
                    source[n] # None, ~Waiting(n)', link'[n] = i
             PROVE  rows'[i].key = source[n].key
  BY <1>1 DEF LinksWritten, Present
<1>2. /\ ~failed /\ source[m].key # NoKey
      /\ \/ ~Exhausted(Selected(m, j)) /\ Upsert(m, Selected(m, j))
         \/ /\ rows' = rows
            /\ j # None => known[j].key = source[m].key
  BY <1>0, WriteOutcome
<1>3. i \in Id /\ rows'[i] # None /\ known[i] # None /\ Belongs(i, n)'
  BY <1>0 DEF Present, TypeOK, Belongs
<1>4. CASE n = m /\ ~UNCHANGED <<rows, lastId, link>>
  BY <1>0, <1>3, <1>4, WrittenKeys
<1>5. CASE n = m /\ UNCHANGED <<rows, lastId, link>>
  <2>1. link[n] = i /\ rows[i] # None
    BY <1>3, <1>5
  <2>2. Matches(n, source) = {i}
    BY <1>1, <1>2, <1>5, <2>1 DEF Matches
  <2>3. j = i
    BY <1>0, <1>1, <1>5, <2>2, TargetsAlone
  <2>4. CASE ~Exhausted(Selected(m, j)) /\ Upsert(m, Selected(m, j))
    <3>1. i \in Selected(m, j)
      BY <1>0, <1>3, <2>1, <2>3 DEF Selected, ForExistingMatch, WithId, Present, TypeOK
    <3>2. \A x \in Selected(m, j) : Image(x, m)'
      BY <1>0, <1>1, <1>2, <2>4, UpsertImage
    <3>3. Image(i, m)'
      BY <3>1, <3>2
    <3>4. QED
      BY <1>1, <1>5, <3>3 DEF Image
  <2>5. CASE rows' = rows /\ (j # None => known[j].key = source[m].key)
    <3>1. known[i].key = source[n].key
      BY <1>3, <1>5, <2>3, <2>5
    <3>2. \/ rows[i].key = known[i].key
          \/ \E x \in Name : owner[known[i].key] = x /\ Image(i, x)
      BY <1>0, <1>1 DEF Loaded
    <3>3. owner[source[n].key] = n
      <4>1. source[n].key \in Key
        BY <1>0, <1>3, <3>1 DEF TypeOK, Row
      <4>2. QED
        BY <1>0, <4>1 DEF Owned, KeyOf
    <3>4. QED
      BY <2>5, <3>1, <3>2, <3>3 DEF Image
  <2>6. QED
    BY <1>2, <2>4, <2>5
<1>6. CASE n # m
  <2>1. rows'[i] = rows[i] /\ i \in Present(rows)
    BY <1>0, <1>3, <1>6, OthersKept
  <2>2. link'[n] = link[n]
    <3>1. CASE ~UNCHANGED <<rows, lastId, link>>
      <4>1. \A x \in Name \ {m} : link'[x] = link[x]
        BY <1>0, <3>1, WriteRows
      <4>2. QED
        BY <1>6, <4>1
    <3>2. QED
      BY <3>1
  <2>3. ~Waiting(n)
    BY <1>1, <1>6 DEF Waiting
  <2>4. QED
    BY <1>0, <1>2, <2>1, <2>2, <2>3 DEF LinksWritten
<1>7. QED
  BY <1>4, <1>5, <1>6

LEMMA NextLink ==
  ASSUME Disciplined
  PROVE  LinkInv /\ [Next]_vars => LinkInv'
<1> SUFFICES ASSUME LinkInv, [Next]_vars PROVE LinkInv'
  OBVIOUS
<1>0. /\ RowInv' /\ ImageInv' /\ PlanInv /\ TypeOK /\ TypeOK' /\ Quiet
  BY NextRow, NextImage DEF LinkInv, RowInv, OwnInv, PlanInv
<1>1. UNCHANGED config
  BY DEF Next, Edit, Insert, Vanish, Start, Fetch, EndBatch, Finish, Crash, Write, Delete,
         vars
<1>2. SUFFICES ASSUME config.identity PROVE LinksWritten'
  BY <1>0, <1>1 DEF LinkInv
<1>3. LinksWritten
  BY <1>2 DEF LinkInv
<1>4. ASSUME UNCHANGED <<link, known, touched>>, ~failed' => ~failed,
             ~failed' => \A i \in Present(rows)' : i \in Present(rows) /\ rows'[i] = rows[i],
             \A n \in Name : source'[n] # None /\ ~Waiting(n)' =>
               source'[n] = source[n] /\ ~Waiting(n)
      PROVE  LinksWritten'
  <2>1. Present(known)' = Present(known)
    BY <1>4 DEF Present
  <2>2. QED
    BY <1>1, <1>3, <1>4, <2>1 DEF LinksWritten
<1>5. ASSUME UNCHANGED <<link, known, touched, failed, rows, source, todo, work>>
      PROVE  LinksWritten'
  <2>1. Present(rows)' = Present(rows) /\ \A n \in Name : Waiting(n)' <=> Waiting(n)
    BY <1>5 DEF Present, Waiting
  <2>2. QED
    BY <1>4, <1>5, <2>1
<1>6. ASSUME NEW n \in Name, Edit(n) PROVE LinksWritten'
  BY <1>0, <1>5, <1>6, EditEffect
<1>7. ASSUME EndBatch PROVE LinksWritten'
  BY <1>5, <1>7 DEF EndBatch, partnerVars, runVars
<1>8. ASSUME UNCHANGED vars PROVE LinksWritten'
  BY <1>5, <1>8 DEF vars, siteVars, partnerVars, runVars
<1>9. ASSUME Insert \/ (\E i \in Id : Vanish(i)) PROVE LinksWritten'
  <2>1. touched' = (phase # "idle") /\ source' = source
    BY <1>9 DEF Insert, Vanish, runVars
  <2>2. phase = "idle" => \A n \in Name : source[n] = None
    BY <1>0 DEF Quiet, Nothing
  <2>3. QED
    BY <2>1, <2>2 DEF LinksWritten
<1>10. ASSUME Start PROVE LinksWritten'
  <2>1. \A n \in Name : source'[n] = None
    BY <1>0, <1>10 DEF Start, Quiet, Nothing
  <2>2. QED
    BY <2>1 DEF LinksWritten
<1>11. ASSUME Leave PROVE LinksWritten'
  <2>1. \A n \in Name : source'[n] = None
    BY <1>11 DEF Leave, Nothing
  <2>2. QED
    BY <2>1 DEF LinksWritten
<1>12. ASSUME Fetch PROVE LinksWritten'
  <2>1. UNCHANGED <<link, known, touched, failed, rows>>
    BY <1>12 DEF Fetch, siteVars, partnerVars
  <2>2. Present(rows)' = Present(rows)
    BY <2>1 DEF Present
  <2>3. QED
    BY <1>0, <1>4, <1>12, <2>1, <2>2, FetchPlans
<1>13. ASSUME NEW k \in Key, Delete(k) PROVE LinksWritten'
  <2>1. UNCHANGED <<link, known, touched, source, todo, work>>
    BY <1>13 DEF Delete, Rejected, Error, runVars
  <2>2. ~failed' => /\ ~failed
                    /\ rows' = [i \in Id |-> IF i \in WithKey(k) THEN None ELSE rows[i]]
    BY <1>13 DEF Delete, Rejected, Error
  <2>3. ~failed' => \A i \in Present(rows)' : i \in Present(rows) /\ rows'[i] = rows[i]
    BY <1>0, <2>2 DEF Present, TypeOK
  <2>4. \A n \in Name : Waiting(n)' <=> Waiting(n)
    BY <2>1 DEF Waiting
  <2>5. QED
    BY <1>4, <2>1, <2>2, <2>3, <2>4
<1>14. QED
  BY <1>2, <1>6, <1>7, <1>8, <1>9, <1>10, <1>11, <1>12, <1>13, WriteKeepsLinks
     DEF Next, Finish, Crash

\* delete_missing deletes no row of a document it read, renamed ones included, as long
\* as updates are on and succeed.
THEOREM OnlyMissingAreDeleted ==
  ASSUME Disciplined
  PROVE  Spec => DeletesOnlyMissing
<1> DEFINE Step ==
      work' = work /\ phase = "write" /\ phase' = "write" /\ ~touched' /\ ~failed
        /\ config.identity /\ config.update =>
          \A i \in Present(rows) \cap Present(known) :
            rows'[i] = None =>
              ~\E n \in Present(source) : link[n] = i \/ rows[i].key = source[n].key
<1>1. LinkInv /\ [Next]_vars => [Step]_vars
  <2> SUFFICES ASSUME LinkInv, [Next]_vars, work' = work, phase = "write",
                      phase' = "write", ~touched', ~failed,
                      config.identity, config.update,
                      NEW i \in Present(rows) \cap Present(known), rows'[i] = None,
                      NEW n \in Present(source), link[n] = i \/ rows[i].key = source[n].key
               PROVE  FALSE
    OBVIOUS
  <2>0. TypeOK /\ Quiet /\ Numbered /\ Sorted /\ LinksWritten
    BY DEF LinkInv, ImageInv, OwnInv, PlanInv
  <2>1. i \in Id /\ rows[i] # None /\ n \in Name /\ source[n] # None
    BY <2>0 DEF Present, TypeOK
  <2>2. PICK k \in Key : Delete(k)
    <3>1. ~Start /\ ~Fetch /\ ~EndBatch /\ ~Finish /\ ~Crash
      BY DEF Start, Fetch, EndBatch, Finish, Crash, Leave
    <3>2. ~Insert /\ ~(\E j \in Id : Vanish(j))
      BY DEF Insert, Vanish
    <3>3. ~(\E m \in Name : Edit(m)) /\ ~UNCHANGED vars
      BY <2>0, <2>1, EditEffect DEF vars, partnerVars
    <3>4. ~(\E m \in Name, j \in Id \cup {None} : Write(m, j))
      BY DEF Write
    <3>5. QED
      BY <3>1, <3>2, <3>3, <3>4 DEF Next
  <2>3. work = {} /\ k \in doomed /\ touched' = touched
    BY <2>2 DEF Delete
  <2>4. rows[i].key = k
    <3>1. \/ rows' = [j \in Id |-> IF j \in WithKey(k) THEN None ELSE rows[j]]
          \/ rows' = rows
      BY <2>2 DEF Delete, Rejected, partnerVars
    <3>2. QED
      BY <2>1, <3>1 DEF WithKey
  <2>5. ~Waiting(n)
    BY <2>0, <2>1, <2>3 DEF Waiting, Quiet
  <2>6. rows[i].key = source[n].key
    BY <2>0, <2>1, <2>3, <2>5 DEF LinksWritten
  <2>7. k \in keys
    BY <2>0, <2>1, <2>3, <2>4, <2>6 DEF Sorted, Numbered
  <2>8. QED
    BY <2>0, <2>3, <2>7 DEF Sorted
<1>2. Init => LinkInv
  <2> SUFFICES ASSUME Init PROVE LinkInv
    OBVIOUS
  <2>1. \A n \in Name : source[n] = None
    BY DEF Init, Nothing
  <2>2. QED
    BY <2>1, InitRow, InitImage DEF LinkInv, LinksWritten
<1>3. LinkInv /\ [Next]_vars => LinkInv'
  BY NextLink
<1>4. QED
  BY <1>1, <1>2, <1>3, PTL DEF Spec, DeletesOnlyMissing
=============================================================================
