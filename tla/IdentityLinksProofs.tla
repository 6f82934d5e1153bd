------------------------ MODULE IdentityLinksProofs ------------------------
(***************************************************************************)
(* Theorems about IdentityLinks for every number of documents, rows,       *)
(* changes and faults.                                                     *)
(*                                                                         *)
(* LinkInv, the inductive invariant, follows a run through its phases:     *)
(*   TableInv    what the two tables store of each other at any time       *)
(*   ReadInv     what the lists a run has read still say about them        *)
(*   ResolveInv  what the resolution has concluded from the lists so far   *)
(*   WriteInv    what holds of the pairs and creations not carried out     *)
(* Plan is where the second and third give the fourth; PlanWrites is the   *)
(* lemma about it.  From there on nothing is looked up again, so that      *)
(* WriteInv has to survive whatever users and the run itself do meanwhile. *)
(*                                                                         *)
(* Three theorems need more.  PairsAreUnambiguous: Fresh, until something  *)
(* changes the lists are the tables.  OnlyOrphansAreDeleted: FullCover, a  *)
(* full sync knows every record a link leads to, and DoomedInv, what that  *)
(* makes of the records to be deleted.  FullSyncLinksAll: TodoInv, what is *)
(* neither resolved nor in the lists yet, Quiet, what a run in which       *)
(* nothing changed may rely on, and Complete, which accounts for every     *)
(* record from the plan to the end of the run.                             *)
(*                                                                         *)
(* Assumptions of the theorems, where they have some: NewNames (the name   *)
(* of a document whose insert was rolled back is not given again) and      *)
(* ~Unruly (the discipline of deletions, see Alone in IdentityLinks).      *)
(***************************************************************************)
EXTENDS IdentityLinks, TLAPS

USE ConfigAssumption, NoneAssumption, BoundAssumption

-----------------------------------------------------------------------------
(* Type correctness *)

\* What a phase does not use is empty.
NoLeftovers ==
  /\ phase # "resolve" => todo = {}
  /\ todo \subseteq Live(opDocs) \cup Live(opRows)
  /\ phase \notin {"frappe", "lookup", "partner", "resolve"} => opDocs = Nothing(Name)
  /\ phase \notin {"lookup", "partner", "resolve"} => knownDocs = Nothing(Name)
  /\ phase \notin {"partner", "resolve"} => opRows = Nothing(Id)
  /\ phase # "resolve" => knownRows = Nothing(Id)
  /\ phase \notin {"resolve", "write"} => pairs = {} /\ onlyDocs = {} /\ onlyRows = {}
  /\ phase # "write" => doomed = {}

TypeInv == TypeOK /\ NoLeftovers

LEMMA LiveDocs ==
  ASSUME NEW f \in [Name -> Doc \cup {None, Gone}]
  PROVE  Live(f) = {n \in Name : f[n] \in Doc}
BY DEF Live

LEMMA LiveRows ==
  ASSUME NEW f \in [Id -> Row \cup {None, Gone}]
  PROVE  Live(f) = {i \in Id : f[i] \in Row}
BY DEF Live

\* The records of the six tables.
LEMMA LiveSets ==
  ASSUME TypeOK
  PROVE  /\ Live(docs) = {n \in Name : docs[n] \in Doc}
         /\ Live(saved) = {n \in Name : saved[n] \in Doc}
         /\ Live(opDocs) = {n \in Name : opDocs[n] \in Doc}
         /\ Live(knownDocs) = {n \in Name : knownDocs[n] \in Doc}
         /\ Live(rows) = {i \in Id : rows[i] \in Row}
         /\ Live(opRows) = {i \in Id : opRows[i] \in Row}
         /\ Live(knownRows) = {i \in Id : knownRows[i] \in Row}
<1>1. /\ docs \in [Name -> Doc \cup {None, Gone}]
      /\ saved \in [Name -> Doc \cup {None, Gone}]
      /\ opDocs \in [Name -> Doc \cup {None, Gone}]
      /\ knownDocs \in [Name -> Doc \cup {None, Gone}]
      /\ rows \in [Id -> Row \cup {None, Gone}]
      /\ opRows \in [Id -> Row \cup {None, Gone}]
      /\ knownRows \in [Id -> Row \cup {None, Gone}]
  BY DEF TypeOK
<1>2. QED
  BY <1>1, LiveDocs, LiveRows

\* A run that is over leaves nothing behind in memory.
LEMMA ResetType ==
  ASSUME Reset
  PROVE  /\ phase' = "idle" /\ full' = FALSE /\ dirty' = FALSE
         /\ opDocs' = Nothing(Name) /\ knownDocs' = Nothing(Name)
         /\ opRows' = Nothing(Id) /\ knownRows' = Nothing(Id)
         /\ opDocs' \in [Name -> Doc \cup {None}]
         /\ knownDocs' \in [Name -> Doc \cup {None}]
         /\ opRows' \in [Id -> Row \cup {None}]
         /\ knownRows' \in [Id -> Row \cup {None}]
         /\ todo' = {} /\ conflicted' = {} /\ pairs' = {}
         /\ onlyDocs' = {} /\ onlyRows' = {} /\ doomed' = {}
BY DEF Reset, Nothing

\* What users change.
LEMMA UserEffect ==
  ASSUME TypeOK, UserMay, UserDid
  PROVE  /\ UNCHANGED <<config, faults, phase, full, opDocs, knownDocs, opRows,
                        knownRows, todo, conflicted, pairs, onlyDocs, onlyRows,
                        doomed>>
         /\ changes' \in 0..MaxChanges /\ phase # "resolve"
         /\ dirty' = (phase # "idle")
BY DEF TypeOK, UserMay, UserDid, runVars, readVars, planVars

LEMMA NewDocType ==
  ASSUME TypeOK, NEW n \in Name, NewDoc(n)
  PROVE  \E p \in Id \cup {None} :
           /\ p # None => \E m \in Live(saved) : saved[m].pid = p
           /\ [pid |-> p, born |-> None] \in Doc
           /\ docs' = [docs EXCEPT ![n] = [pid |-> p, born |-> None]]
           /\ saved' = [saved EXCEPT ![n] = [pid |-> p, born |-> None]]
<1>1. PICK p \in {None} \cup {saved[m].pid : m \in Live(saved)} :
        SetDoc(n, [pid |-> p, born |-> None])
  BY DEF NewDoc
<1>2. \A m \in Live(saved) : saved[m].pid \in Id \cup {None}
  BY LiveSets DEF Doc
<1>3. p \in Id \cup {None} /\ [pid |-> p, born |-> None] \in Doc
  BY <1>1, <1>2 DEF Doc
<1>4. QED
  BY <1>1, <1>3 DEF SetDoc

LEMMA NewRowType ==
  ASSUME TypeOK, NewRow
  PROVE  \E f \in Name \cup {None} :
           /\ f # None => \E j \in Live(rows) : rows[j].fid = f
           /\ [fid |-> f, born |-> None] \in Row
           /\ lastId + 1 \in Id /\ lastId' = lastId + 1
           /\ rows' = [rows EXCEPT ![lastId + 1] = [fid |-> f, born |-> None]]
<1>1. PICK f \in {None} \cup {rows[j].fid : j \in Live(rows)} :
        rows' = [rows EXCEPT ![lastId + 1] = [fid |-> f, born |-> None]]
  BY DEF NewRow
<1>2. \A j \in Live(rows) : rows[j].fid \in Name \cup {None}
  BY LiveSets DEF Row
<1>3. f \in Name \cup {None} /\ [fid |-> f, born |-> None] \in Row
  BY <1>1, <1>2 DEF Row
<1>4. lastId + 1 \in Id
  BY DEF NewRow, TypeOK, Id
<1>5. QED
  BY <1>1, <1>3, <1>4 DEF NewRow

LEMMA UserType ==
  ASSUME TypeInv,
         \/ NewRow
         \/ \E n \in Name : NewDoc(n) \/ DeleteDoc(n)
         \/ \E i \in Id : DeleteRow(i)
  PROVE  TypeInv'
<1> USE DEF TypeInv
<1>0. ASSUME UserMay, UserDid,
             docs' \in [Name -> Doc \cup {None, Gone}],
             saved' \in [Name -> Doc \cup {None, Gone}],
             rows' \in [Id -> Row \cup {None, Gone}],
             lastId' \in 0..MaxId, lost' = lost
      PROVE  TypeInv'
  <2>1. /\ UNCHANGED <<config, faults, phase, full, opDocs, knownDocs, opRows,
                       knownRows, todo, conflicted, pairs, onlyDocs, onlyRows,
                       doomed>>
        /\ changes' \in 0..MaxChanges
        /\ dirty' = (phase # "idle")
    BY <1>0, UserEffect
  <2>2. dirty' \in BOOLEAN
    BY <2>1
  <2>3. NoLeftovers'
    BY <2>1 DEF NoLeftovers, Live
  <2>4. QED
    BY <1>0, <2>1, <2>2, <2>3 DEF TypeOK
<1>1. CASE NewRow
  <2>1. PICK f \in Name \cup {None} :
          /\ [fid |-> f, born |-> None] \in Row
          /\ lastId + 1 \in Id /\ lastId' = lastId + 1
          /\ rows' = [rows EXCEPT ![lastId + 1] = [fid |-> f, born |-> None]]
    BY <1>1, NewRowType
  <2>2. rows' \in [Id -> Row \cup {None, Gone}] /\ lastId' \in 0..MaxId
    BY <2>1 DEF TypeOK, Id
  <2>3. QED
    BY <1>0, <1>1, <2>2 DEF NewRow, TypeOK, siteVars
<1>2. ASSUME NEW n \in Name, NewDoc(n) PROVE TypeInv'
  <2>1. PICK p \in Id \cup {None} :
          /\ [pid |-> p, born |-> None] \in Doc
          /\ docs' = [docs EXCEPT ![n] = [pid |-> p, born |-> None]]
          /\ saved' = [saved EXCEPT ![n] = [pid |-> p, born |-> None]]
    BY <1>2, NewDocType
  <2>2. /\ docs' \in [Name -> Doc \cup {None, Gone}]
        /\ saved' \in [Name -> Doc \cup {None, Gone}]
    BY <2>1 DEF TypeOK
  <2>3. QED
    BY <1>0, <1>2, <2>2 DEF NewDoc, TypeOK, partnerVars
<1>3. ASSUME NEW n \in Name, DeleteDoc(n) PROVE TypeInv'
  BY <1>0, <1>3 DEF DeleteDoc, SetDoc, TypeOK, partnerVars
<1>4. ASSUME NEW i \in Id, DeleteRow(i) PROVE TypeInv'
  BY <1>0, <1>4 DEF DeleteRow, TypeOK, siteVars
<1>5. QED
  BY <1>1, <1>2, <1>3, <1>4

LEMMA ReadDocsType ==
  ASSUME NEW f \in [Name -> Doc \cup {None, Gone}]
  PROVE  /\ Listed(f) \in [Name -> Doc \cup {None}]
         /\ \A S \in SUBSET Live(f) : Delta(f, S) \in [Name -> Doc \cup {None}]
BY LiveDocs DEF Listed, Delta

LEMMA ReadRowsType ==
  ASSUME NEW f \in [Id -> Row \cup {None, Gone}]
  PROVE  /\ Listed(f) \in [Id -> Row \cup {None}]
         /\ \A S \in SUBSET Live(f) : Delta(f, S) \in [Id -> Row \cup {None}]
BY LiveRows DEF Listed, Delta

LEMMA ReadType ==
  ASSUME TypeInv, Start \/ ReadLookup \/ ReadPartner
  PROVE  TypeInv'
<1> USE DEF TypeInv
<1>0. UNCHANGED <<config, docs, saved, lost, rows, lastId, changes, faults, todo,
                  conflicted, pairs, onlyDocs, onlyRows, doomed, dirty, knownRows>>
  BY DEF Start, ReadLookup, ReadPartner, siteVars, partnerVars, boundVars, planVars
<1>1. CASE Start
  <2>1. PICK S \in SUBSET Live(docs) : opDocs' = Delta(docs, S)
    BY <1>1 DEF Start
  <2>2. opDocs' \in [Name -> Doc \cup {None}]
    BY <2>1, ReadDocsType DEF TypeOK
  <2>3. /\ knownDocs' \in {opDocs', knownDocs} /\ opRows' = opRows
        /\ full' \in BOOLEAN /\ phase' \in {"lookup", "frappe"} /\ phase = "idle"
        /\ phase' = "frappe" => knownDocs' = knownDocs
    BY <1>1 DEF Start
  <2>4. NoLeftovers'
    BY <1>0, <2>3 DEF NoLeftovers
  <2>5. QED
    BY <1>0, <2>2, <2>3, <2>4 DEF TypeOK
<1>2. CASE ReadLookup
  <2>1. /\ knownDocs' = Listed(docs) /\ phase = "frappe" /\ phase' = "lookup"
        /\ UNCHANGED <<full, opDocs, opRows>>
    BY <1>2 DEF ReadLookup
  <2>2. knownDocs' \in [Name -> Doc \cup {None}]
    BY <2>1, ReadDocsType DEF TypeOK
  <2>3. NoLeftovers'
    BY <1>0, <2>1 DEF NoLeftovers
  <2>4. QED
    BY <1>0, <2>1, <2>2, <2>3 DEF TypeOK
<1>3. CASE ReadPartner
  <2>1. PICK S \in SUBSET Live(rows) : opRows' = Delta(rows, S)
    BY <1>3 DEF ReadPartner
  <2>2. opRows' \in [Id -> Row \cup {None}]
    BY <2>1, ReadRowsType DEF TypeOK
  <2>3. /\ UNCHANGED <<full, opDocs, knownDocs>>
        /\ phase = "lookup" /\ phase' = "partner"
    BY <1>3 DEF ReadPartner
  <2>4. NoLeftovers'
    BY <1>0, <2>3 DEF NoLeftovers
  <2>5. QED
    BY <1>0, <2>2, <2>3, <2>4 DEF TypeOK
<1>4. QED
  BY <1>1, <1>2, <1>3

\* The keys of a record are names and identities.
LEMMA KeysType ==
  /\ \A n \in Name, d \in Doc : DocKeys(n, d) \subseteq Name \cup Id
  /\ \A i \in Id, r \in Row : RowKeys(i, r) \subseteq Name \cup Id
BY DEF DocKeys, RowKeys, Doc, Row

LEMMA SoleSubset == ASSUME NEW S PROVE Sole(S) \subseteq S
BY DEF Sole

\* Two records that store the same link put themselves and their link into the
\* contradictions.
LEMMA InDuplicates ==
  ASSUME NEW R, NEW x
  PROVE  x \in Duplicates(R) <=>
           \/ \E m, n \in Live(knownDocs) :
                /\ m # n /\ knownDocs[m].pid = knownDocs[n].pid
                /\ knownDocs[n].pid # None /\ x \in DocKeys(n, knownDocs[n])
           \/ \E i, j \in Live(R) :
                /\ i # j /\ R[j].fid = R[i].fid
                /\ R[i].fid # None /\ x \in RowKeys(i, R[i])
<1> DEFINE D == {n \in Live(knownDocs) :
                   \E m \in Live(knownDocs) \ {n} :
                     knownDocs[m].pid = knownDocs[n].pid /\ knownDocs[n].pid # None}
           P == {i \in Live(R) :
                   \E j \in Live(R) \ {i} : R[j].fid = R[i].fid /\ R[i].fid # None}
           UD == UNION {DocKeys(n, knownDocs[n]) : n \in D}
           UP == UNION {RowKeys(i, R[i]) : i \in P}
<1>1. Duplicates(R) = UD \cup UP
  BY DEF Duplicates
<1>2. x \in UD <=> \E n \in D : x \in DocKeys(n, knownDocs[n])
  OBVIOUS
<1>3. x \in UP <=> \E i \in P : x \in RowKeys(i, R[i])
  OBVIOUS
<1>4. (\E n \in D : x \in DocKeys(n, knownDocs[n])) <=>
        \E m, n \in Live(knownDocs) :
          /\ m # n /\ knownDocs[m].pid = knownDocs[n].pid
          /\ knownDocs[n].pid # None /\ x \in DocKeys(n, knownDocs[n])
  OBVIOUS
<1>5. (\E i \in P : x \in RowKeys(i, R[i])) <=>
        \E i, j \in Live(R) :
          /\ i # j /\ R[j].fid = R[i].fid
          /\ R[i].fid # None /\ x \in RowKeys(i, R[i])
  OBVIOUS
<1> HIDE DEF UD, UP
<1>6. QED
  BY <1>1, <1>2, <1>3, <1>4, <1>5

\* The index lists the records in a contradiction first.
LEMMA IndexType ==
  ASSUME TypeInv, Index
  PROVE  /\ TypeInv'
         /\ knownRows' \in [Id -> Row \cup {None}]
         /\ conflicted' = Duplicates(knownRows')
         /\ UNCHANGED <<config, docs, saved, lost, rows, lastId, changes, faults,
                        full, opDocs, knownDocs, opRows, pairs, onlyDocs, onlyRows,
                        doomed, dirty>>
<1> USE DEF TypeInv
<1>1. /\ phase = "partner" /\ phase' = "resolve"
      /\ knownRows' = IF full THEN opRows ELSE Listed(rows)
      /\ conflicted' = Duplicates(knownRows')
      /\ todo' = Live(opDocs) \cup Live(opRows)
      /\ UNCHANGED <<config, docs, saved, lost, rows, lastId, changes, faults, full,
                     opDocs, knownDocs, opRows, pairs, onlyDocs, onlyRows, doomed,
                     dirty>>
  BY DEF Index, siteVars, partnerVars, boundVars
<1>2. knownRows' \in [Id -> Row \cup {None}]
  BY <1>1, ReadRowsType DEF TypeOK
<1>3. Duplicates(knownRows') \subseteq Name \cup Id
  <2> DEFINE R == knownRows'
  <2>1. R \in [Id -> Row \cup {None}]
    BY <1>2
  <2> HIDE DEF R
  <2>2. R \in [Id -> Row \cup {None, Gone}]
    BY <2>1
  <2>3. /\ \A i \in Live(R) : RowKeys(i, R[i]) \subseteq Name \cup Id
        /\ \A n \in Live(knownDocs) : DocKeys(n, knownDocs[n]) \subseteq Name \cup Id
    BY <2>2, LiveRows, LiveSets, KeysType
  <2>4. Duplicates(R) \subseteq Name \cup Id
    BY <2>3, InDuplicates
  <2>5. QED
    BY <2>4 DEF R
<1>4. todo' \subseteq Name \cup Id
  BY <1>1, LiveSets
<1>5. NoLeftovers'
  BY <1>1 DEF NoLeftovers
<1>6. QED
  BY <1>1, <1>2, <1>3, <1>4, <1>5 DEF TypeOK

\* What the resolution of a document adds: a contradiction, a document without a
\* row, or a pair.
LEMMA ResolveDocEffect ==
  ASSUME TypeInv, NEW n \in Name, ResolveDoc(n)
  PROVE  /\ phase = "resolve" /\ n \in todo /\ todo' = todo \ {n}
         /\ UNCHANGED <<config, docs, saved, lost, rows, lastId, changes, faults,
                        phase, full, opDocs, knownDocs, opRows, knownRows, doomed,
                        dirty, onlyRows>>
         /\ opDocs[n] \in Doc
         /\ conflicted \subseteq conflicted' /\ conflicted' \subseteq Name \cup Id
         /\ \/ conflicted' # {} /\ UNCHANGED <<pairs, onlyDocs>>
            \/ /\ RowsOf(n, opDocs[n]) = {}
               /\ onlyDocs' = onlyDocs \cup {n} /\ UNCHANGED pairs
            \/ \E i \in RowsOf(n, opDocs[n]) :
                 /\ i \in Live(knownRows)
                 /\ Sole(RowsClaiming(n)) \in {{}, {i}}
                 /\ opDocs[n].pid \in {None, i} /\ knownRows[i].fid \in {None, n}
                 /\ pairs' = pairs \cup {[doc |-> n, row |-> i, pid |-> opDocs[n].pid,
                                          fid |-> knownRows[i].fid]}
                 /\ UNCHANGED onlyDocs
<1>1. /\ phase = "resolve" /\ n \in todo /\ todo' = todo \ {n}
      /\ UNCHANGED <<config, docs, saved, lost, rows, lastId, changes, faults,
                     phase, full, opDocs, knownDocs, opRows, knownRows, doomed,
                     dirty>>
  BY DEF ResolveDoc, Resolving, siteVars, partnerVars, boundVars, readVars
<1>2. opDocs[n] \in Doc
  <2>1. n \in Live(opDocs) \cup Live(opRows)
    BY <1>1 DEF TypeInv, NoLeftovers
  <2>2. QED
    BY <2>1, LiveSets DEF TypeInv
<1>3. \A i \in RowsOf(n, opDocs[n]) : i \in Live(knownRows) /\ i \in Id
  BY LiveSets, SoleSubset DEF RowsOf, RowsClaiming, TypeInv
<1>4. n \in DocKeys(n, opDocs[n]) /\ DocKeys(n, opDocs[n]) \subseteq Name \cup Id
  BY <1>2, KeysType DEF DocKeys
<1>5. \A i \in Live(knownRows) : RowKeys(i, knownRows[i]) \subseteq Name \cup Id
  BY LiveSets, KeysType DEF TypeInv
<1>6. CASE DocKeys(n, opDocs[n]) \cap conflicted # {}
  BY <1>1, <1>2, <1>6 DEF ResolveDoc, TypeInv, TypeOK
<1>7. CASE /\ DocKeys(n, opDocs[n]) \cap conflicted = {}
           /\ RowsOf(n, opDocs[n]) = {}
  BY <1>1, <1>2, <1>7 DEF ResolveDoc, TypeInv, TypeOK
<1>8. CASE /\ DocKeys(n, opDocs[n]) \cap conflicted = {}
           /\ RowsOf(n, opDocs[n]) # {}
  <2>1. PICK i \in RowsOf(n, opDocs[n]) :
          /\ UNCHANGED <<onlyDocs, onlyRows>>
          /\ IF \/ Sole(RowsClaiming(n)) \notin {{}, {i}}
                \/ opDocs[n].pid \notin {None, i}
                \/ knownRows[i].fid \notin {None, n}
             THEN /\ conflicted' = conflicted \cup DocKeys(n, opDocs[n])
                                     \cup RowKeys(i, knownRows[i])
                  /\ UNCHANGED pairs
             ELSE /\ pairs' = IF RowKeys(i, knownRows[i]) \cap conflicted # {} THEN pairs
                              ELSE pairs \cup {[doc |-> n, row |-> i,
                                                pid |-> opDocs[n].pid,
                                                fid |-> knownRows[i].fid]}
                  /\ UNCHANGED conflicted
    BY <1>8 DEF ResolveDoc
  <2>2. CASE \/ Sole(RowsClaiming(n)) \notin {{}, {i}}
             \/ opDocs[n].pid \notin {None, i}
             \/ knownRows[i].fid \notin {None, n}
    <3>1. conflicted' = conflicted \cup DocKeys(n, opDocs[n])
                          \cup RowKeys(i, knownRows[i]) /\ UNCHANGED pairs
      BY <2>1, <2>2
    <3>2. QED
      BY <1>1, <1>2, <1>3, <1>4, <1>5, <2>1, <3>1 DEF TypeInv, TypeOK
  <2>3. CASE ~(\/ Sole(RowsClaiming(n)) \notin {{}, {i}}
               \/ opDocs[n].pid \notin {None, i}
               \/ knownRows[i].fid \notin {None, n})
    <3>1. CASE RowKeys(i, knownRows[i]) \cap conflicted # {}
      BY <1>1, <1>2, <2>1, <2>3, <3>1 DEF TypeInv, TypeOK
    <3>2. CASE RowKeys(i, knownRows[i]) \cap conflicted = {}
      BY <1>1, <1>2, <1>3, <2>1, <2>3, <3>2 DEF TypeInv, TypeOK
    <3>3. QED
      BY <3>1, <3>2
  <2>4. QED
    BY <2>2, <2>3
<1>9. QED
  BY <1>6, <1>7, <1>8

\* What the resolution of a row adds, and which document it finds.
LEMMA ResolveRowEffect ==
  ASSUME TypeInv, NEW i \in Id, ResolveRow(i)
  PROVE  /\ phase = "resolve" /\ i \in todo /\ todo' = todo \ {i} /\ todo \cap Name = {}
         /\ UNCHANGED <<config, docs, saved, lost, rows, lastId, changes, faults,
                        phase, full, opDocs, knownDocs, opRows, knownRows, doomed,
                        dirty, onlyDocs>>
         /\ opRows[i] \in Row
         /\ conflicted \subseteq conflicted' /\ conflicted' \subseteq Name \cup Id
         /\ \/ conflicted' # {} /\ UNCHANGED <<pairs, onlyRows>>
            \/ /\ Sole(DocsClaiming(i)) = {} /\ opRows[i].fid \notin Live(knownDocs)
               /\ onlyRows' = onlyRows \cup {i} /\ UNCHANGED pairs
            \/ \E n \in Live(knownDocs) :
                 /\ \/ Sole(DocsClaiming(i)) = {n}
                    \/ Sole(DocsClaiming(i)) = {} /\ opRows[i].fid = n
                 /\ knownDocs[n].pid \in {None, i} /\ opRows[i].fid \in {None, n}
                 /\ pairs' = {p \in pairs : <<p.doc, p.row>> # <<n, i>>}
                               \cup {[doc |-> n, row |-> i, pid |-> knownDocs[n].pid,
                                      fid |-> opRows[i].fid]}
                 /\ UNCHANGED onlyRows
<1> DEFINE r == opRows[i]
           ById == Sole(DocsClaiming(i))
           ByName == {r.fid} \cap Live(knownDocs)
           found == IF ById # {} /\ (ByName = {} \/ ById = ByName) THEN ById ELSE ByName
<1>1. /\ phase = "resolve" /\ i \in todo /\ todo' = todo \ {i} /\ todo \cap Name = {}
      /\ UNCHANGED <<config, docs, saved, lost, rows, lastId, changes, faults,
                     phase, full, opDocs, knownDocs, opRows, knownRows, doomed,
                     dirty>>
  BY DEF ResolveRow, Resolving, siteVars, partnerVars, boundVars, readVars
<1>2. opRows[i] \in Row
  <2>1. i \in Live(opDocs) \cup Live(opRows) /\ i \notin Name
    BY <1>1 DEF TypeInv, NoLeftovers
  <2>2. QED
    BY <2>1, LiveSets DEF TypeInv
<1>3. IF RowKeys(i, r) \cap conflicted # {}
      THEN UNCHANGED <<conflicted, pairs, onlyDocs, onlyRows>>
      ELSE IF found = {}
      THEN onlyRows' = onlyRows \cup {i} /\ UNCHANGED <<conflicted, pairs, onlyDocs>>
      ELSE \E n \in found :
             LET d == knownDocs[n]
             IN /\ UNCHANGED <<onlyDocs, onlyRows>>
                /\ IF \/ ById # {} /\ ByName # {} /\ ById # ByName
                      \/ r.fid \notin {None, n}
                      \/ d.pid \notin {None, i}
                   THEN /\ conflicted' = conflicted \cup DocKeys(n, d) \cup RowKeys(i, r)
                        /\ UNCHANGED pairs
                   ELSE /\ pairs' = IF DocKeys(n, d) \cap conflicted # {} THEN pairs
                                    ELSE {p \in pairs : <<p.doc, p.row>> # <<n, i>>}
                                           \cup {[doc |-> n, row |-> i,
                                                  pid |-> d.pid, fid |-> r.fid]}
                        /\ UNCHANGED conflicted
  BY DEF ResolveRow
<1>4. i \in RowKeys(i, r) /\ RowKeys(i, r) \subseteq Name \cup Id
  BY <1>2, KeysType DEF RowKeys
<1>5. /\ \A n \in Live(knownDocs) : DocKeys(n, knownDocs[n]) \subseteq Name \cup Id
      /\ Live(knownDocs) \subseteq Name
  BY LiveSets, KeysType DEF TypeInv
<1>6. ById \subseteq Live(knownDocs) /\ ByName \subseteq Live(knownDocs)
  BY SoleSubset DEF DocsClaiming
<1>7. \A n \in ById : ById = {n}
  BY DEF Sole
<1> HIDE DEF r, ById
<1>8. CASE RowKeys(i, r) \cap conflicted # {}
  BY <1>1, <1>2, <1>3, <1>8 DEF TypeInv, TypeOK
<1>9. CASE RowKeys(i, r) \cap conflicted = {} /\ found = {}
  <2>1. onlyRows' = onlyRows \cup {i} /\ UNCHANGED <<conflicted, pairs, onlyDocs>>
    BY <1>3, <1>9
  <2>2. ById = {} /\ r.fid \notin Live(knownDocs)
    BY <1>9
  <2>3. QED
    BY <1>1, <1>2, <2>1, <2>2 DEF TypeInv, TypeOK, r, ById
<1>10. CASE RowKeys(i, r) \cap conflicted = {} /\ found # {}
  <2>1. PICK n \in found :
          /\ UNCHANGED <<onlyDocs, onlyRows>>
          /\ IF \/ ById # {} /\ ByName # {} /\ ById # ByName
                \/ r.fid \notin {None, n}
                \/ knownDocs[n].pid \notin {None, i}
             THEN /\ conflicted' = conflicted \cup DocKeys(n, knownDocs[n])
                                     \cup RowKeys(i, r)
                  /\ UNCHANGED pairs
             ELSE /\ pairs' = IF DocKeys(n, knownDocs[n]) \cap conflicted # {} THEN pairs
                              ELSE {p \in pairs : <<p.doc, p.row>> # <<n, i>>}
                                     \cup {[doc |-> n, row |-> i,
                                            pid |-> knownDocs[n].pid, fid |-> r.fid]}
                  /\ UNCHANGED conflicted
    BY <1>3, <1>10
  <2>2. n \in Live(knownDocs)
    BY <1>6, <2>1
  <2>3. CASE \/ ById # {} /\ ByName # {} /\ ById # ByName
             \/ r.fid \notin {None, n}
             \/ knownDocs[n].pid \notin {None, i}
    <3>1. /\ conflicted' = conflicted \cup DocKeys(n, knownDocs[n]) \cup RowKeys(i, r)
          /\ UNCHANGED pairs
      BY <2>1, <2>3
    <3>2. QED
      BY <1>1, <1>2, <1>4, <1>5, <2>1, <2>2, <3>1 DEF TypeInv, TypeOK
  <2>4. CASE ~(\/ ById # {} /\ ByName # {} /\ ById # ByName
               \/ r.fid \notin {None, n}
               \/ knownDocs[n].pid \notin {None, i})
    <3>1. ById = {n} \/ (ById = {} /\ r.fid = n)
      BY <1>7, <2>1, <2>4
    <3>2. CASE DocKeys(n, knownDocs[n]) \cap conflicted # {}
      BY <1>1, <1>2, <2>1, <2>4, <3>2 DEF TypeInv, TypeOK
    <3>3. CASE DocKeys(n, knownDocs[n]) \cap conflicted = {}
      <4>1. pairs' = {p \in pairs : <<p.doc, p.row>> # <<n, i>>}
                       \cup {[doc |-> n, row |-> i,
                              pid |-> knownDocs[n].pid, fid |-> r.fid]}
              /\ UNCHANGED <<conflicted, onlyDocs, onlyRows>>
        BY <2>1, <2>4, <3>3
      <4>2. QED
        BY <1>1, <1>2, <2>2, <2>4, <3>1, <4>1 DEF TypeInv, TypeOK, r, ById
    <3>4. QED
      BY <3>2, <3>3
  <2>5. QED
    BY <2>3, <2>4
<1>11. QED
  BY <1>8, <1>9, <1>10

LEMMA ResolveType ==
  ASSUME TypeInv,
         \/ \E n \in Name : ResolveDoc(n)
         \/ \E i \in Id : ResolveRow(i)
         \/ Plan
  PROVE  TypeInv'
<1>1. ASSUME NEW n \in Name, ResolveDoc(n) PROVE TypeInv'
  <2>1. /\ phase = "resolve" /\ n \in todo /\ todo' = todo \ {n}
        /\ UNCHANGED <<config, docs, saved, lost, rows, lastId, changes, faults,
                       phase, full, opDocs, knownDocs, opRows, knownRows, doomed,
                       dirty, onlyRows>>
        /\ opDocs[n] \in Doc /\ conflicted' \subseteq Name \cup Id
    BY <1>1, ResolveDocEffect
  <2>2. pairs' \subseteq Pair /\ onlyDocs' \subseteq Name
    <3>1. CASE UNCHANGED pairs
      BY <1>1, <3>1, ResolveDocEffect DEF TypeInv, TypeOK
    <3>2. ASSUME NEW i \in Live(knownRows),
                 pairs' = pairs \cup {[doc |-> n, row |-> i, pid |-> opDocs[n].pid,
                                       fid |-> knownRows[i].fid]},
                 UNCHANGED onlyDocs
          PROVE  pairs' \subseteq Pair /\ onlyDocs' \subseteq Name
      <4>1. i \in Id /\ knownRows[i] \in Row
        BY LiveSets DEF TypeInv
      <4>2. [doc |-> n, row |-> i, pid |-> opDocs[n].pid, fid |-> knownRows[i].fid]
              \in Pair
        BY <2>1, <4>1 DEF Pair, Doc, Row
      <4>3. QED
        BY <3>2, <4>2 DEF TypeInv, TypeOK
    <3>3. QED
      BY <1>1, <3>1, <3>2, ResolveDocEffect
  <2>3. NoLeftovers'
    BY <2>1 DEF TypeInv, NoLeftovers
  <2>4. QED
    BY <2>1, <2>2, <2>3 DEF TypeInv, TypeOK
<1>2. ASSUME NEW i \in Id, ResolveRow(i) PROVE TypeInv'
  <2>1. /\ phase = "resolve" /\ i \in todo /\ todo' = todo \ {i}
        /\ UNCHANGED <<config, docs, saved, lost, rows, lastId, changes, faults,
                       phase, full, opDocs, knownDocs, opRows, knownRows, doomed,
                       dirty, onlyDocs>>
        /\ opRows[i] \in Row /\ conflicted' \subseteq Name \cup Id
    BY <1>2, ResolveRowEffect
  <2>2. pairs' \subseteq Pair /\ onlyRows' \subseteq Id
    <3>1. CASE UNCHANGED pairs
      BY <1>2, <3>1, ResolveRowEffect DEF TypeInv, TypeOK
    <3>2. ASSUME NEW n \in Live(knownDocs),
                 pairs' = {p \in pairs : <<p.doc, p.row>> # <<n, i>>}
                            \cup {[doc |-> n, row |-> i, pid |-> knownDocs[n].pid,
                                   fid |-> opRows[i].fid]},
                 UNCHANGED onlyRows
          PROVE  pairs' \subseteq Pair /\ onlyRows' \subseteq Id
      <4>1. n \in Name /\ knownDocs[n] \in Doc
        BY LiveSets DEF TypeInv
      <4>2. [doc |-> n, row |-> i, pid |-> knownDocs[n].pid, fid |-> opRows[i].fid]
              \in Pair
        BY <2>1, <4>1 DEF Pair, Doc, Row
      <4>3. QED
        BY <3>2, <4>2 DEF TypeInv, TypeOK
    <3>3. QED
      BY <1>2, <3>1, <3>2, ResolveRowEffect
  <2>3. NoLeftovers'
    BY <2>1 DEF TypeInv, NoLeftovers
  <2>4. QED
    BY <2>1, <2>2, <2>3 DEF TypeInv, TypeOK
<1>3. ASSUME Plan PROVE TypeInv'
  <2>1. /\ phase = "resolve" /\ phase' = "write" /\ todo = {} /\ todo' = {}
        /\ pairs' \subseteq pairs /\ onlyDocs' \subseteq onlyDocs
        /\ onlyRows' \subseteq onlyRows
        /\ opDocs' = Nothing(Name) /\ knownDocs' = Nothing(Name)
        /\ opRows' = Nothing(Id) /\ knownRows' = Nothing(Id)
        /\ UNCHANGED <<config, docs, saved, lost, rows, lastId, changes, faults,
                       full, conflicted, dirty>>
    BY <1>3 DEF Plan, siteVars, partnerVars, boundVars
  <2>2. doomed' \subseteq Name \cup Id
    <3>1. Orphans \subseteq Name \cup Id
      BY LiveSets DEF Orphans, TypeInv
    <3>2. QED
      BY <1>3, <3>1 DEF Plan
  <2>3. /\ Nothing(Name) \in [Name -> Doc \cup {None}]
        /\ Nothing(Id) \in [Id -> Row \cup {None}]
    BY DEF Nothing
  <2>4. NoLeftovers'
    BY <2>1 DEF NoLeftovers
  <2>5. QED
    BY <2>1, <2>2, <2>3, <2>4 DEF TypeInv, TypeOK
<1>4. QED
  BY <1>1, <1>2, <1>3

-----------------------------------------------------------------------------
(* What the writes do *)

LEMMA WritingEffect ==
  ASSUME TypeOK, NEW S, Writing(S)
  PROVE  /\ phase = "write" /\ S
         /\ UNCHANGED <<config, lost, changes, phase, full, opDocs, knownDocs, opRows,
                        knownRows, todo, conflicted>>
BY DEF Writing, readVars

LEMMA FaultType ==
  ASSUME TypeOK, faults < MaxFaults, faults' = faults + 1
  PROVE  faults' \in 0..MaxFaults
BY DEF TypeOK

\* A failed write changes nothing, except that it may commit what was written
\* before.
LEMMA RejectedEffect ==
  ASSUME TypeOK, Rejected
  PROVE  /\ UNCHANGED <<docs, rows, lastId>> /\ dirty' = TRUE
         /\ saved' \in {saved, docs'} /\ faults' \in 0..MaxFaults
BY FaultType DEF Rejected, Error, Log, partnerVars

\* The row is made to name the document, or a new row does.
LEMMA UpsertEffect ==
  ASSUME TypeOK, NEW i \in Id \cup {None}, NEW n \in Name, ~Exhausted(i), Upsert(i, n)
  PROVE  /\ rows' \in [Id -> Row \cup {None, Gone}] /\ lastId' \in 0..MaxId
         /\ \/ /\ i \in Live(rows) /\ lastId' = lastId
               /\ rows' = [rows EXCEPT ![i].fid = n]
            \/ /\ i \notin Live(rows) /\ lastId + 1 \in Id /\ lastId' = lastId + 1
               /\ [fid |-> n, born |-> n] \in Row
               /\ rows' = [rows EXCEPT ![lastId + 1] = [fid |-> n, born |-> n]]
<1>1. CASE i \in Live(rows)
  <2>1. rows' = [rows EXCEPT ![i].fid = n] /\ lastId' = lastId
    BY <1>1 DEF Upsert
  <2>2. i \in Id /\ rows[i] \in Row
    BY <1>1, LiveSets
  <2>3. [rows[i] EXCEPT !.fid = n] \in Row
    BY <2>2 DEF Row
  <2>4. rows' \in [Id -> Row \cup {None, Gone}]
    BY <2>1, <2>2, <2>3 DEF TypeOK
  <2>5. QED
    BY <1>1, <2>1, <2>4 DEF TypeOK
<1>2. CASE i \notin Live(rows)
  <2>1. lastId # MaxId
    BY <1>2 DEF Exhausted
  <2>2. lastId + 1 \in Id /\ lastId + 1 \in 0..MaxId
    BY <2>1 DEF TypeOK, Id
  <2>3. [fid |-> n, born |-> n] \in Row
    BY DEF Row
  <2>4. QED
    BY <1>2, <2>2, <2>3 DEF Upsert, TypeOK
<1>3. QED
  BY <1>1, <1>2

\* The identity is stored in the document, or nothing is.
LEMMA PersistEffect ==
  ASSUME TypeOK, NEW n \in Name, NEW id \in Id \cup {None}, NEW known, Persist(n, id, known)
  PROVE  /\ docs' \in [Name -> Doc \cup {None, Gone}]
         /\ saved' \in {saved, docs'} /\ faults' \in 0..MaxFaults
         /\ \/ docs' = docs /\ id \in {None, known} /\ dirty' = dirty
            \/ docs' = docs /\ dirty' = TRUE
            \/ /\ id \in Id /\ id # known /\ n \in Live(docs) /\ dirty' = dirty
               /\ docs' = [docs EXCEPT ![n].pid = id]
<1>1. CASE id \in {None, known} /\ UNCHANGED <<docs, dirty, faults>> /\ Log
  BY <1>1 DEF Log, TypeOK
<1>2. CASE /\ id \notin {None, known} /\ n \in Live(docs)
           /\ docs' = [docs EXCEPT ![n].pid = id]
           /\ UNCHANGED <<dirty, faults>> /\ Log
  <2>1. docs[n] \in Doc
    BY <1>2, LiveSets
  <2>2. [docs[n] EXCEPT !.pid = id] \in Doc
    BY <2>1 DEF Doc
  <2>3. docs' \in [Name -> Doc \cup {None, Gone}]
    BY <1>2, <2>2 DEF TypeOK
  <2>4. QED
    BY <1>2, <2>3 DEF Log, TypeOK
<1>3. CASE /\ id \notin {None, known} /\ Error
           /\ IF n \in Live(docs) THEN faults < MaxFaults /\ faults' = faults + 1
              ELSE UNCHANGED faults
  <2>1. faults' \in 0..MaxFaults
    BY <1>3, FaultType DEF TypeOK
  <2>2. QED
    BY <1>3, <2>1 DEF Error, Log, TypeOK
<1>4. QED
  BY <1>1, <1>2, <1>3 DEF Persist

\* A pair is skipped or fails; its row is written, or inserted again after the
\* partner has deleted it; or its document is written.
LEMMA SyncPairEffect ==
  ASSUME TypeOK, NEW p \in pairs, SyncPair(p)
  PROVE  /\ phase = "write" /\ pairs' = pairs \ {p}
         /\ UNCHANGED <<config, lost, changes, phase, full, opDocs, knownDocs, opRows,
                        knownRows, todo, conflicted, onlyDocs, onlyRows>>
         /\ docs' \in [Name -> Doc \cup {None, Gone}]
         /\ rows' \in [Id -> Row \cup {None, Gone}] /\ lastId' \in 0..MaxId
         /\ saved' \in {saved, docs'} /\ faults' \in 0..MaxFaults
         /\ dirty' \in {dirty, TRUE}
         /\ p \in Pair /\ doomed' \in {doomed, doomed \cup {p.doc}}
         /\ \/ /\ UNCHANGED <<docs, rows, lastId, doomed>>
               /\ dirty' = TRUE \/ (p.pid = p.row /\ p.fid = p.doc)
            \/ /\ p.row \in Live(rows) /\ UNCHANGED <<lastId, doomed>>
               /\ rows' = [rows EXCEPT ![p.row].fid = p.doc]
               /\ \/ docs' = docs
                  \/ p.doc \in Live(docs) /\ docs' = [docs EXCEPT ![p.doc].pid = p.row]
            \/ /\ p.row \notin Live(rows) /\ lastId + 1 \in Id /\ lastId' = lastId + 1
               /\ [fid |-> p.doc, born |-> p.doc] \in Row
               /\ rows' = [rows EXCEPT ![lastId + 1] = [fid |-> p.doc, born |-> p.doc]]
               /\ \/ docs' = docs /\ doomed' = doomed
                  \/ /\ p.doc \in Live(docs) /\ doomed' = doomed
                     /\ docs' = [docs EXCEPT ![p.doc].pid = p.row]
                  \/ /\ p.doc \in Live(docs) /\ doomed' \in {doomed, doomed \cup {p.doc}}
                     /\ docs' = [docs EXCEPT ![p.doc].pid = lastId + 1]
            \/ /\ p.doc \in Live(docs) /\ UNCHANGED <<rows, lastId, doomed>>
               /\ docs' = [docs EXCEPT ![p.doc].pid = p.row]
<1>1. /\ phase = "write" /\ pairs' = pairs \ {p}
      /\ UNCHANGED <<config, lost, changes, phase, full, opDocs, knownDocs, opRows,
                     knownRows, todo, conflicted, onlyDocs, onlyRows>>
  BY WritingEffect DEF SyncPair
<1>2. p \in Pair /\ p.doc \in Name /\ p.row \in Id
  BY DEF TypeOK, Pair
<1>3. CASE Leave(p.pid = p.row /\ p.fid = p.doc)
  BY <1>1, <1>2, <1>3 DEF Leave, Log, partnerVars, TypeOK
<1>4. CASE /\ ~Exhausted(p.row)
           /\ Upsert(p.row, p.doc)
           /\ Persist(p.doc, Resolved(p.row), p.pid)
           /\ doomed' = IF /\ config.delete /\ full /\ p.fid = None
                           /\ Resolved(p.row) # p.row /\ docs' # docs
                        THEN doomed \cup {p.doc} ELSE doomed
  <2>1. CASE p.row \in Live(rows)
    <3>1. Resolved(p.row) = p.row /\ doomed' = doomed
      BY <1>4, <2>1 DEF Resolved
    <3>2. /\ rows' \in [Id -> Row \cup {None, Gone}] /\ lastId' \in 0..MaxId
          /\ lastId' = lastId /\ rows' = [rows EXCEPT ![p.row].fid = p.doc]
      BY <1>2, <1>4, <2>1, UpsertEffect
    <3>3. Persist(p.doc, p.row, p.pid)
      BY <1>4, <3>1
    <3>4. /\ docs' \in [Name -> Doc \cup {None, Gone}]
          /\ saved' \in {saved, docs'} /\ faults' \in 0..MaxFaults
          /\ dirty' \in {dirty, TRUE}
          /\ \/ docs' = docs
             \/ p.doc \in Live(docs) /\ docs' = [docs EXCEPT ![p.doc].pid = p.row]
      BY <1>2, <3>3, PersistEffect
    <3>5. QED
      BY <1>1, <1>2, <2>1, <3>1, <3>2, <3>4
  <2>2. CASE p.row \notin Live(rows)
    <3>1. /\ rows' \in [Id -> Row \cup {None, Gone}] /\ lastId' \in 0..MaxId
          /\ lastId + 1 \in Id /\ lastId' = lastId + 1
          /\ [fid |-> p.doc, born |-> p.doc] \in Row
          /\ rows' = [rows EXCEPT ![lastId + 1] = [fid |-> p.doc, born |-> p.doc]]
      BY <1>2, <1>4, <2>2, UpsertEffect
    <3>2. Resolved(p.row) \in {p.row, lastId + 1}
      BY DEF Resolved
    <3> DEFINE id == Resolved(p.row)
    <3>3. id \in {p.row, lastId + 1} /\ id \in Id /\ Persist(p.doc, id, p.pid)
      BY <1>2, <1>4, <3>1, <3>2
    <3>4. doomed' = IF /\ config.delete /\ full /\ p.fid = None
                       /\ id # p.row /\ docs' # docs
                    THEN doomed \cup {p.doc} ELSE doomed
      BY <1>4
    <3> HIDE DEF id
    <3>5. /\ docs' \in [Name -> Doc \cup {None, Gone}]
          /\ saved' \in {saved, docs'} /\ faults' \in 0..MaxFaults
          /\ dirty' \in {dirty, TRUE}
          /\ \/ docs' = docs
             \/ p.doc \in Live(docs) /\ docs' = [docs EXCEPT ![p.doc].pid = id]
      BY <1>2, <3>3, PersistEffect
    <3>6. \/ docs' = docs /\ doomed' = doomed
          \/ /\ p.doc \in Live(docs) /\ doomed' = doomed
             /\ docs' = [docs EXCEPT ![p.doc].pid = p.row]
          \/ /\ p.doc \in Live(docs) /\ doomed' \in {doomed, doomed \cup {p.doc}}
             /\ docs' = [docs EXCEPT ![p.doc].pid = lastId + 1]
      <4>1. CASE docs' = docs
        BY <3>4, <4>1
      <4>2. CASE id = p.row
        BY <3>4, <3>5, <4>2
      <4>3. CASE id = lastId + 1
        BY <3>4, <3>5, <4>3
      <4>4. QED
        BY <3>3, <4>2, <4>3
    <3>7. QED
      BY <1>1, <1>2, <2>2, <3>1, <3>5, <3>6
  <2>3. QED
    BY <2>1, <2>2
<1>5. CASE Exhausted(p.row) /\ Error /\ UNCHANGED <<partnerVars, faults, doomed>>
  BY <1>1, <1>2, <1>5 DEF Error, Log, partnerVars, TypeOK
<1>6. CASE Rejected /\ UNCHANGED doomed
  BY <1>1, <1>2, <1>6, RejectedEffect DEF TypeOK
<1>7. CASE /\ p.doc \in Live(docs)
           /\ docs' = [docs EXCEPT ![p.doc].pid = p.row]
           /\ Log /\ UNCHANGED <<partnerVars, faults, dirty>> /\ UNCHANGED doomed
  <2>1. docs[p.doc] \in Doc
    BY <1>7, LiveSets
  <2>2. [docs[p.doc] EXCEPT !.pid = p.row] \in Doc
    BY <1>2, <2>1 DEF Doc
  <2>3. docs' \in [Name -> Doc \cup {None, Gone}]
    BY <1>2, <1>7, <2>2 DEF TypeOK
  <2>4. QED
    BY <1>1, <1>2, <1>7, <2>3 DEF Log, partnerVars, TypeOK
<1>8. CASE Error /\ UNCHANGED <<partnerVars, faults>> /\ UNCHANGED doomed
  BY <1>1, <1>2, <1>8 DEF Error, Log, partnerVars, TypeOK
<1>9. QED
  BY <1>3, <1>4, <1>5, <1>6, <1>7, <1>8 DEF SyncPair, UpdatePartner, UpdateFrappe

LEMMA DeleteOrphanEffect ==
  ASSUME TypeOK, NEW x \in doomed, DeleteOrphan(x)
  PROVE  /\ phase = "write" /\ pairs = {} /\ doomed' = doomed \ {x}
         /\ UNCHANGED <<config, lost, changes, phase, full, opDocs, knownDocs, opRows,
                        knownRows, todo, conflicted, pairs, onlyDocs, onlyRows, lastId>>
         /\ docs' \in [Name -> Doc \cup {None, Gone}]
         /\ rows' \in [Id -> Row \cup {None, Gone}]
         /\ saved' \in {saved, docs'} /\ faults' \in 0..MaxFaults
         /\ \/ UNCHANGED <<docs, rows>> /\ dirty' = TRUE
            \/ /\ x \in Name /\ docs' = [docs EXCEPT ![x] = Gone]
               /\ UNCHANGED <<rows, dirty>>
            \/ /\ x \in Id /\ rows' = [rows EXCEPT ![x] = Gone]
               /\ UNCHANGED <<docs, dirty>>
<1>1. /\ phase = "write" /\ pairs = {} /\ doomed' = doomed \ {x}
      /\ UNCHANGED <<config, lost, changes, phase, full, opDocs, knownDocs, opRows,
                     knownRows, todo, conflicted, pairs, onlyDocs, onlyRows>>
  BY WritingEffect DEF DeleteOrphan
<1>2. CASE /\ x \in Name
           /\ docs' = [docs EXCEPT ![x] = Gone] /\ Log
           /\ UNCHANGED <<partnerVars, faults, dirty>>
  BY <1>1, <1>2 DEF Log, partnerVars, TypeOK
<1>3. CASE /\ x \in Id
           /\ rows' = [rows EXCEPT ![x] = Gone] /\ UNCHANGED docs /\ Log
           /\ UNCHANGED <<lastId, faults, dirty>>
  BY <1>1, <1>3 DEF Log, TypeOK
<1>4. CASE Rejected
  BY <1>1, <1>4, RejectedEffect DEF TypeOK
<1>5. QED
  BY <1>2, <1>3, <1>4 DEF DeleteOrphan

LEMMA CreateRowEffect ==
  ASSUME TypeOK, NEW n \in Name, CreateRow(n)
  PROVE  /\ phase = "write" /\ pairs = {} /\ doomed = {} /\ n \in onlyDocs
         /\ onlyDocs' = onlyDocs \ {n}
         /\ UNCHANGED <<config, lost, changes, phase, full, opDocs, knownDocs, opRows,
                        knownRows, todo, conflicted, pairs, onlyRows, doomed>>
         /\ docs' \in [Name -> Doc \cup {None, Gone}]
         /\ rows' \in [Id -> Row \cup {None, Gone}] /\ lastId' \in 0..MaxId
         /\ saved' \in {saved, docs'} /\ faults' \in 0..MaxFaults
         /\ dirty' \in {dirty, TRUE}
         /\ \/ UNCHANGED <<docs, rows, lastId>> /\ dirty' = TRUE
            \/ /\ lastId + 1 \in Id /\ lastId' = lastId + 1
               /\ [fid |-> n, born |-> n] \in Row
               /\ rows' = [rows EXCEPT ![lastId + 1] = [fid |-> n, born |-> n]]
               /\ \/ docs' = docs
                  \/ n \in Live(docs) /\ docs' = [docs EXCEPT ![n].pid = lastId + 1]
<1>1. /\ phase = "write" /\ pairs = {} /\ doomed = {} /\ n \in onlyDocs
      /\ onlyDocs' = onlyDocs \ {n}
      /\ UNCHANGED <<config, lost, changes, phase, full, opDocs, knownDocs, opRows,
                     knownRows, todo, conflicted, pairs, onlyRows, doomed>>
  BY WritingEffect DEF CreateRow
<1>2. CASE Leave(FALSE)
  BY <1>1, <1>2 DEF Leave, Log, partnerVars, TypeOK
<1>3. CASE /\ ~Exhausted(None)
           /\ Upsert(None, n)
           /\ Persist(n, IF config.strategy = "sequence" THEN lastId + 1 ELSE None, None)
  <2>1. None \notin Live(rows)
    BY LiveSets
  <2>2. /\ rows' \in [Id -> Row \cup {None, Gone}] /\ lastId' \in 0..MaxId
        /\ lastId + 1 \in Id /\ lastId' = lastId + 1
        /\ [fid |-> n, born |-> n] \in Row
        /\ rows' = [rows EXCEPT ![lastId + 1] = [fid |-> n, born |-> n]]
    BY <1>3, <2>1, UpsertEffect
  <2> DEFINE id == IF config.strategy = "sequence" THEN lastId + 1 ELSE None
  <2>3. id \in {None, lastId + 1} /\ id \in Id \cup {None} /\ Persist(n, id, None)
    BY <1>3, <2>2
  <2> HIDE DEF id
  <2>4. /\ docs' \in [Name -> Doc \cup {None, Gone}]
        /\ saved' \in {saved, docs'} /\ faults' \in 0..MaxFaults
        /\ dirty' \in {dirty, TRUE}
        /\ \/ docs' = docs
           \/ id # None /\ n \in Live(docs) /\ docs' = [docs EXCEPT ![n].pid = id]
    BY <2>3, PersistEffect
  <2>5. \/ docs' = docs
        \/ n \in Live(docs) /\ docs' = [docs EXCEPT ![n].pid = lastId + 1]
    BY <2>3, <2>4
  <2>6. QED
    BY <1>1, <2>2, <2>4, <2>5
<1>4. CASE Exhausted(None) /\ Error /\ UNCHANGED <<partnerVars, faults>>
  BY <1>1, <1>4 DEF Error, Log, partnerVars, TypeOK
<1>5. CASE Rejected
  BY <1>1, <1>5, RejectedEffect DEF TypeOK
<1>6. QED
  BY <1>2, <1>3, <1>4, <1>5 DEF CreateRow

LEMMA CreateDocEffect ==
  ASSUME TypeOK, NEW i \in Id, CreateDoc(i)
  PROVE  /\ phase = "write" /\ pairs = {} /\ doomed = {} /\ onlyDocs = {}
         /\ i \in onlyRows /\ onlyRows' = onlyRows \ {i}
         /\ UNCHANGED <<config, lost, changes, phase, full, opDocs, knownDocs, opRows,
                        knownRows, todo, conflicted, pairs, onlyDocs, doomed>>
         /\ docs' \in [Name -> Doc \cup {None, Gone}]
         /\ rows' \in [Id -> Row \cup {None, Gone}] /\ lastId' \in 0..MaxId
         /\ saved' \in {saved, docs'} /\ faults' \in 0..MaxFaults
         /\ dirty' \in {dirty, TRUE}
         /\ \/ UNCHANGED <<docs, rows, lastId>> /\ dirty' = TRUE
            \/ \E n \in Name :
                 /\ Unused(n) /\ [pid |-> i, born |-> i] \in Doc
                 /\ docs' = [docs EXCEPT ![n] = [pid |-> i, born |-> i]]
                 /\ \/ UNCHANGED <<rows, lastId>> /\ dirty' = TRUE
                    \/ /\ i \in Live(rows) /\ lastId' = lastId
                       /\ rows' = [rows EXCEPT ![i].fid = n]
                    \/ /\ i \notin Live(rows) /\ lastId + 1 \in Id
                       /\ lastId' = lastId + 1
                       /\ [fid |-> n, born |-> n] \in Row
                       /\ rows' = [rows EXCEPT ![lastId + 1] = [fid |-> n, born |-> n]]
<1>1. /\ phase = "write" /\ pairs = {} /\ doomed = {} /\ onlyDocs = {}
      /\ i \in onlyRows /\ onlyRows' = onlyRows \ {i}
      /\ UNCHANGED <<config, lost, changes, phase, full, opDocs, knownDocs, opRows,
                     knownRows, todo, conflicted, pairs, onlyDocs, doomed>>
  BY WritingEffect DEF CreateDoc
<1>2. CASE Leave(FALSE)
  BY <1>1, <1>2 DEF Leave, Log, partnerVars, TypeOK
<1>3. CASE \E n \in {m \in Name : Unused(m)} :
             /\ docs' = [docs EXCEPT ![n] = [pid |-> i, born |-> i]]
             /\ Log
             /\ \/ ~Exhausted(i) /\ Upsert(i, n) /\ UNCHANGED <<faults, dirty>>
                \/ /\ IF Exhausted(i) THEN UNCHANGED faults
                      ELSE faults < MaxFaults /\ faults' = faults + 1
                   /\ dirty' = TRUE /\ UNCHANGED partnerVars
  <2>1. PICK n \in Name :
          /\ Unused(n)
          /\ docs' = [docs EXCEPT ![n] = [pid |-> i, born |-> i]]
          /\ Log
          /\ \/ ~Exhausted(i) /\ Upsert(i, n) /\ UNCHANGED <<faults, dirty>>
             \/ /\ IF Exhausted(i) THEN UNCHANGED faults
                   ELSE faults < MaxFaults /\ faults' = faults + 1
                /\ dirty' = TRUE /\ UNCHANGED partnerVars
    BY <1>3
  <2>2. [pid |-> i, born |-> i] \in Doc
    BY DEF Doc
  <2>3. docs' \in [Name -> Doc \cup {None, Gone}] /\ saved' \in {saved, docs'}
    BY <2>1, <2>2 DEF Log, TypeOK
  <2>4. CASE ~Exhausted(i) /\ Upsert(i, n) /\ UNCHANGED <<faults, dirty>>
    <3>1. /\ rows' \in [Id -> Row \cup {None, Gone}] /\ lastId' \in 0..MaxId
          /\ \/ /\ i \in Live(rows) /\ lastId' = lastId
                /\ rows' = [rows EXCEPT ![i].fid = n]
             \/ /\ i \notin Live(rows) /\ lastId + 1 \in Id /\ lastId' = lastId + 1
                /\ [fid |-> n, born |-> n] \in Row
                /\ rows' = [rows EXCEPT ![lastId + 1] = [fid |-> n, born |-> n]]
      BY <2>4, UpsertEffect
    <3>2. faults' \in 0..MaxFaults /\ dirty' = dirty
      BY <2>4 DEF TypeOK
    <3>3. QED
      BY <1>1, <2>1, <2>2, <2>3, <3>1, <3>2
  <2>5. CASE /\ IF Exhausted(i) THEN UNCHANGED faults
                ELSE faults < MaxFaults /\ faults' = faults + 1
             /\ dirty' = TRUE /\ UNCHANGED partnerVars
    <3>1. faults' \in 0..MaxFaults
      BY <2>5, FaultType DEF TypeOK
    <3>2. /\ rows' \in [Id -> Row \cup {None, Gone}] /\ lastId' \in 0..MaxId
          /\ UNCHANGED <<rows, lastId>> /\ dirty' = TRUE
      BY <2>5 DEF partnerVars, TypeOK
    <3>3. QED
      BY <1>1, <2>1, <2>2, <2>3, <3>1, <3>2
  <2>6. QED
    BY <2>1, <2>4, <2>5
<1>4. CASE Error /\ UNCHANGED <<partnerVars, faults>>
  BY <1>1, <1>4 DEF Error, Log, partnerVars, TypeOK
<1>5. CASE Rejected
  BY <1>1, <1>5, RejectedEffect DEF TypeOK
<1>6. QED
  BY <1>2, <1>3, <1>4, <1>5 DEF CreateDoc

LEMMA WriteType ==
  ASSUME TypeInv,
         \/ \E p \in pairs : SyncPair(p)
         \/ \E x \in doomed : DeleteOrphan(x)
         \/ \E n \in Name : CreateRow(n)
         \/ \E i \in Id : CreateDoc(i)
  PROVE  TypeInv'
<1>1. ASSUME /\ phase = "write"
             /\ UNCHANGED <<config, lost, changes, phase, full, opDocs, knownDocs,
                            opRows, knownRows, todo, conflicted>>
             /\ docs' \in [Name -> Doc \cup {None, Gone}]
             /\ saved' \in {saved, docs'}
             /\ rows' \in [Id -> Row \cup {None, Gone}] /\ lastId' \in 0..MaxId
             /\ faults' \in 0..MaxFaults /\ dirty' \in {dirty, TRUE}
             /\ pairs' \subseteq pairs /\ onlyDocs' \subseteq onlyDocs
             /\ onlyRows' \subseteq onlyRows /\ doomed' \subseteq doomed \cup Name
      PROVE  TypeInv'
  BY <1>1 DEF TypeInv, TypeOK, NoLeftovers
<1>2. ASSUME NEW p \in pairs, SyncPair(p) PROVE TypeInv'
  <2>1. p \in Pair /\ p.doc \in Name
    BY DEF TypeInv, TypeOK, Pair
  <2>2. doomed' \subseteq doomed \cup Name
    BY <1>2, <2>1, SyncPairEffect DEF TypeInv
  <2>3. QED
    BY <1>1, <1>2, <2>2, SyncPairEffect DEF TypeInv
<1>3. ASSUME NEW x \in doomed, DeleteOrphan(x) PROVE TypeInv'
  <2>1. lastId' \in 0..MaxId
    BY <1>3, DeleteOrphanEffect DEF TypeInv, TypeOK
  <2>2. dirty' \in {dirty, TRUE}
    BY <1>3, DeleteOrphanEffect DEF TypeInv
  <2>3. QED
    BY <1>1, <1>3, <2>1, <2>2, DeleteOrphanEffect DEF TypeInv
<1>4. ASSUME NEW n \in Name, CreateRow(n) PROVE TypeInv'
  BY <1>1, <1>4, CreateRowEffect DEF TypeInv
<1>5. ASSUME NEW i \in Id, CreateDoc(i) PROVE TypeInv'
  BY <1>1, <1>5, CreateDocEffect DEF TypeInv
<1>6. QED
  BY <1>2, <1>3, <1>4, <1>5

\* A run that ends commits, one that is killed loses what is not committed.
LEMMA EndType ==
  ASSUME TypeInv, EndRun \/ Finish \/ Crash
  PROVE  TypeInv'
<1>1. CASE EndRun
  BY <1>1 DEF EndRun, TypeInv, TypeOK, NoLeftovers, partnerVars, boundVars, readVars,
     planVars
<1>2. CASE Finish
  BY <1>2, ResetType DEF Finish, TypeInv, TypeOK, NoLeftovers, siteVars, partnerVars,
     boundVars
<1>3. CASE Crash
  <2>1. faults' \in 0..MaxFaults /\ changes' = changes
    BY <1>3, FaultType DEF Crash, TypeInv
  <2>2. docs' = saved /\ saved' = saved /\ UNCHANGED <<config, rows, lastId>>
    BY <1>3 DEF Crash, partnerVars
  <2>3. lost' \subseteq Name
    BY <1>3 DEF Crash, TypeInv, TypeOK
  <2>4. QED
    BY <1>3, <2>1, <2>2, <2>3, ResetType DEF Crash, TypeInv, TypeOK, NoLeftovers
<1>4. QED
  BY <1>1, <1>2, <1>3

LEMMA NextTypeInv == TypeInv /\ [Next]_vars => TypeInv'
<1> SUFFICES ASSUME TypeInv, [Next]_vars PROVE TypeInv'
  OBVIOUS
<1>1. CASE UNCHANGED vars
  BY <1>1 DEF vars, siteVars, partnerVars, boundVars, runVars, readVars, planVars,
     TypeInv, TypeOK, NoLeftovers, Live
<1>2. CASE Index
  BY <1>2, IndexType
<1>3. QED
  BY <1>1, <1>2, UserType, ReadType, ResolveType, WriteType, EndType DEF Next

LEMMA InitTypeInv == Init => TypeInv
<1> SUFFICES ASSUME Init PROVE TypeInv
  OBVIOUS
<1>1. 0 \in 0..MaxId /\ 0 \in 0..MaxChanges /\ 0 \in 0..MaxFaults
  OBVIOUS
<1>2. QED
  BY <1>1 DEF Init, TypeInv, TypeOK, NoLeftovers, Nothing

\* Every reachable state is well typed, whatever users do: what a run plans are
\* pairs of names and identities that were read.
THEOREM TypeCorrect == Spec => []TypeOK
<1>1. TypeInv => TypeOK
  BY DEF TypeInv
<1>2. QED
  BY <1>1, InitTypeInv, NextTypeInv, PTL DEF Spec

-----------------------------------------------------------------------------
(* The tables *)

\* The changes of a table.
Put(f, x, r) == [f EXCEPT ![x] = r]
Rename(R, i, n) == [R EXCEPT ![i].fid = n]
Link(D, n, i) == [D EXCEPT ![n].pid = i]

\* What they do to the records in it.
LEMMA RowRenamed ==
  ASSUME NEW R \in [Id -> Row \cup {None, Gone}], NEW i \in Live(R), NEW n \in Name
  PROVE  /\ Rename(R, i, n) \in [Id -> Row \cup {None, Gone}]
         /\ Live(Rename(R, i, n)) = Live(R)
         /\ \A j \in Id : j # i => Rename(R, i, n)[j] = R[j]
         /\ \A j \in Live(R) : /\ Rename(R, i, n)[j].born = R[j].born
                               /\ Rename(R, i, n)[j].fid = IF j = i THEN n ELSE R[j].fid
<1> DEFINE R2 == Rename(R, i, n)
<1>0. R2 = [R EXCEPT ![i].fid = n]
  BY DEF Rename
<1> HIDE DEF R2
<1>1. i \in Id /\ R[i] \in Row
  BY LiveRows
<1>2. [R[i] EXCEPT !.fid = n] \in Row
  BY <1>1 DEF Row
<1>3. R2 \in [Id -> Row \cup {None, Gone}] /\ R2[i] = [R[i] EXCEPT !.fid = n]
  BY <1>0, <1>1, <1>2
<1>4. R2[i].born = R[i].born /\ R2[i].fid = n
  BY <1>1, <1>3 DEF Row
<1>5. \A j \in Id : j # i => R2[j] = R[j]
  BY <1>0, <1>1
<1>6. Live(R2) = {j \in Id : R2[j] \in Row} /\ Live(R) = {j \in Id : R[j] \in Row}
  BY <1>3, LiveRows
<1>7. QED
  BY <1>1, <1>2, <1>3, <1>4, <1>5, <1>6 DEF R2

LEMMA RowInserted ==
  ASSUME NEW R \in [Id -> Row \cup {None, Gone}], NEW k \in Id, NEW r \in Row
  PROVE  /\ Put(R, k, r) \in [Id -> Row \cup {None, Gone}]
         /\ Live(Put(R, k, r)) = Live(R) \cup {k}
         /\ Put(R, k, r)[k] = r /\ \A j \in Id : j # k => Put(R, k, r)[j] = R[j]
<1> DEFINE R2 == Put(R, k, r)
<1>0. R2 = [R EXCEPT ![k] = r]
  BY DEF Put
<1> HIDE DEF R2
<1>1. R2 \in [Id -> Row \cup {None, Gone}] /\ R2[k] = r
  BY <1>0
<1>2. Live(R2) = {j \in Id : R2[j] \in Row} /\ Live(R) = {j \in Id : R[j] \in Row}
  BY <1>1, LiveRows
<1>3. \A j \in Id : j # k => R2[j] = R[j]
  BY <1>0
<1>4. Live(R2) = Live(R) \cup {k}
  BY <1>1, <1>2, <1>3
<1>5. QED
  BY <1>1, <1>3, <1>4 DEF R2

LEMMA RowDeleted ==
  ASSUME NEW R \in [Id -> Row \cup {None, Gone}], NEW i \in Id
  PROVE  /\ Put(R, i, Gone) \in [Id -> Row \cup {None, Gone}]
         /\ Live(Put(R, i, Gone)) = Live(R) \ {i}
         /\ Put(R, i, Gone)[i] = Gone /\ \A j \in Id : j # i => Put(R, i, Gone)[j] = R[j]
<1> DEFINE R2 == Put(R, i, Gone)
<1>0. R2 = [R EXCEPT ![i] = Gone]
  BY DEF Put
<1> HIDE DEF R2
<1>1. R2 \in [Id -> Row \cup {None, Gone}] /\ R2[i] = Gone
  BY <1>0
<1>2. Live(R2) = {j \in Id : R2[j] \in Row} /\ Live(R) = {j \in Id : R[j] \in Row}
  BY <1>1, LiveRows
<1>3. \A j \in Id : j # i => R2[j] = R[j]
  BY <1>0
<1>4. Live(R2) = Live(R) \ {i}
  BY <1>1, <1>2, <1>3
<1>5. QED
  BY <1>1, <1>3, <1>4 DEF R2

LEMMA DocLinked ==
  ASSUME NEW D \in [Name -> Doc \cup {None, Gone}], NEW n \in Live(D), NEW i \in Id
  PROVE  /\ Link(D, n, i) \in [Name -> Doc \cup {None, Gone}]
         /\ Live(Link(D, n, i)) = Live(D)
         /\ \A m \in Name : m # n => Link(D, n, i)[m] = D[m]
         /\ \A m \in Live(D) : /\ Link(D, n, i)[m].born = D[m].born
                               /\ Link(D, n, i)[m].pid = IF m = n THEN i ELSE D[m].pid
<1> DEFINE D2 == Link(D, n, i)
<1>0. D2 = [D EXCEPT ![n].pid = i]
  BY DEF Link
<1> HIDE DEF D2
<1>1. n \in Name /\ D[n] \in Doc
  BY LiveDocs
<1>2. [D[n] EXCEPT !.pid = i] \in Doc
  BY <1>1 DEF Doc
<1>3. D2 \in [Name -> Doc \cup {None, Gone}] /\ D2[n] = [D[n] EXCEPT !.pid = i]
  BY <1>0, <1>1, <1>2
<1>4. D2[n].born = D[n].born /\ D2[n].pid = i
  BY <1>1, <1>3 DEF Doc
<1>5. \A m \in Name : m # n => D2[m] = D[m]
  BY <1>0, <1>1
<1>6. Live(D2) = {m \in Name : D2[m] \in Doc} /\ Live(D) = {m \in Name : D[m] \in Doc}
  BY <1>3, LiveDocs
<1>7. QED
  BY <1>1, <1>2, <1>3, <1>4, <1>5, <1>6 DEF D2

LEMMA DocInserted ==
  ASSUME NEW D \in [Name -> Doc \cup {None, Gone}], NEW n \in Name, NEW d \in Doc
  PROVE  /\ Put(D, n, d) \in [Name -> Doc \cup {None, Gone}]
         /\ Live(Put(D, n, d)) = Live(D) \cup {n}
         /\ Put(D, n, d)[n] = d /\ \A m \in Name : m # n => Put(D, n, d)[m] = D[m]
<1> DEFINE D2 == Put(D, n, d)
<1>0. D2 = [D EXCEPT ![n] = d]
  BY DEF Put
<1> HIDE DEF D2
<1>1. D2 \in [Name -> Doc \cup {None, Gone}] /\ D2[n] = d
  BY <1>0
<1>2. Live(D2) = {m \in Name : D2[m] \in Doc} /\ Live(D) = {m \in Name : D[m] \in Doc}
  BY <1>1, LiveDocs
<1>3. \A m \in Name : m # n => D2[m] = D[m]
  BY <1>0
<1>4. Live(D2) = Live(D) \cup {n}
  BY <1>1, <1>2, <1>3
<1>5. QED
  BY <1>1, <1>3, <1>4 DEF D2

LEMMA DocDeleted ==
  ASSUME NEW D \in [Name -> Doc \cup {None, Gone}], NEW n \in Name
  PROVE  /\ Put(D, n, Gone) \in [Name -> Doc \cup {None, Gone}]
         /\ Live(Put(D, n, Gone)) = Live(D) \ {n}
         /\ Put(D, n, Gone)[n] = Gone /\ \A m \in Name : m # n => Put(D, n, Gone)[m] = D[m]
<1> DEFINE D2 == Put(D, n, Gone)
<1>0. D2 = [D EXCEPT ![n] = Gone]
  BY DEF Put
<1> HIDE DEF D2
<1>1. D2 \in [Name -> Doc \cup {None, Gone}] /\ D2[n] = Gone
  BY <1>0
<1>2. Live(D2) = {m \in Name : D2[m] \in Doc} /\ Live(D) = {m \in Name : D[m] \in Doc}
  BY <1>1, LiveDocs
<1>3. \A m \in Name : m # n => D2[m] = D[m]
  BY <1>0
<1>4. Live(D2) = Live(D) \ {n}
  BY <1>1, <1>2, <1>3
<1>5. QED
  BY <1>1, <1>3, <1>4 DEF D2

\* Links hold identities that were given.
PidsGiven(D, L) ==
  \A n \in Live(D) : /\ D[n].pid # None => D[n].pid <= L
                     /\ D[n].born # None => D[n].born <= L

\* No two documents were inserted for a row.
OneDoc(D) == \A m, n \in Live(D) : D[m].born = D[n].born /\ D[m].born # None => m = n

\* A document for which a row was inserted stores that row's identity, or none, or
\* that of a row that does not exist.
BornRows(D, R, S) ==
  \A j \in Live(R), n \in Live(D) :
    R[j].born = n => D[n].pid \in {None, j} \/ D[n].pid \notin S

\* A document that was inserted for a row stores its identity as long as it exists.
BornDocs(D, S) ==
  \A m \in Live(D) : D[m].born # None => D[m].pid = D[m].born \/ D[m].born \notin S

\* A link that is stored on one side only is the only one: no row names a document
\* whose row names none, and no document stores a row whose document stores none.
HalfRow(D, R) ==
  \A n \in Live(D), i, j \in Live(R) : D[n].pid = i /\ R[i].fid = None => R[j].fid # n
HalfDoc(D, R) ==
  \A m, n \in Live(D), i \in Live(R) : D[n].pid = None /\ R[i].fid = n => D[m].pid # i

\* One view of the documents agrees with the rows.
Stored(D, R, L) ==
  /\ PidsGiven(D, L) /\ OneDoc(D)
  /\ BornRows(D, R, Live(R)) /\ BornDocs(D, Live(R))
  /\ HalfRow(D, R) /\ HalfDoc(D, R)

LEMMA StoredNewRow ==
  ASSUME NEW D \in [Name -> Doc \cup {None, Gone}],
         NEW R \in [Id -> Row \cup {None, Gone}], NEW L \in 0..MaxId, L + 1 \in Id,
         Stored(D, R, L), NEW r \in Row,
         \A n \in Live(D) : r.born = n => D[n].pid \notin Live(R),
         \A n \in Live(D) :
           r.fid = n => D[n].pid \notin Live(R) \/ R[D[n].pid].fid # None
  PROVE  Stored(D, Put(R, L + 1, r), L + 1)
<1> DEFINE R2 == Put(R, L + 1, r)
<1>1. /\ R2 \in [Id -> Row \cup {None, Gone}] /\ Live(R2) = Live(R) \cup {L + 1}
      /\ R2[L + 1] = r /\ \A j \in Id : j # L + 1 => R2[j] = R[j]
  BY RowInserted
<1>2. /\ Live(D) \subseteq Name /\ Live(R) \subseteq Id
      /\ \A n \in Live(D) : D[n].pid \in Id \cup {None} /\ D[n].born \in Id \cup {None}
  BY LiveDocs, LiveRows DEF Doc
<1>3. \A i \in Id : i <= L => i <= L + 1 /\ i # L + 1
  BY DEF Id
<1>4. \A n \in Live(D) : D[n].pid # L + 1 /\ D[n].born # L + 1
  BY <1>2, <1>3 DEF Stored, PidsGiven
<1>5. PidsGiven(D, L + 1)
  BY <1>2, <1>3 DEF Stored, PidsGiven
<1>6. BornRows(D, R2, Live(R2))
  BY <1>1, <1>2, <1>4 DEF Stored, BornRows
<1>7. BornDocs(D, Live(R2))
  BY <1>1, <1>4 DEF Stored, BornDocs
<1>8. HalfRow(D, R2)
  BY <1>1, <1>2, <1>4 DEF Stored, HalfRow
<1>9. HalfDoc(D, R2)
  BY <1>1, <1>2, <1>4 DEF Stored, HalfDoc
<1>10. QED
  BY <1>5, <1>6, <1>7, <1>8, <1>9 DEF Stored

LEMMA StoredLessRow ==
  ASSUME NEW D, NEW R, NEW L, NEW R2, Stored(D, R, L), Live(R2) \subseteq Live(R),
         \A j \in Live(R2) : R2[j] = R[j]
  PROVE  Stored(D, R2, L)
<1>1. PidsGiven(D, L) /\ OneDoc(D)
  BY DEF Stored
<1>2. BornRows(D, R2, Live(R2)) /\ BornDocs(D, Live(R2))
  BY DEF Stored, BornRows, BornDocs
<1>3. HalfRow(D, R2) /\ HalfDoc(D, R2)
  BY DEF Stored, HalfRow, HalfDoc
<1>4. QED
  BY <1>1, <1>2, <1>3 DEF Stored

LEMMA StoredRename ==
  ASSUME NEW D \in [Name -> Doc \cup {None, Gone}],
         NEW R \in [Id -> Row \cup {None, Gone}], NEW L \in 0..MaxId,
         Stored(D, R, L), NEW i \in Live(R), NEW n \in Name,
         n \in Live(D) => D[n].pid \in {None, i} \/ D[n].pid \notin Live(R),
         n \in Live(D) /\ D[n].pid = None => \A m \in Live(D) : D[m].pid # i
  PROVE  Stored(D, Rename(R, i, n), L)
<1> DEFINE R2 == Rename(R, i, n)
<1>1. /\ R2 \in [Id -> Row \cup {None, Gone}] /\ Live(R2) = Live(R)
      /\ \A j \in Id : j # i => R2[j] = R[j]
      /\ \A j \in Live(R) : /\ R2[j].born = R[j].born
                            /\ R2[j].fid = IF j = i THEN n ELSE R[j].fid
  BY RowRenamed
<1> HIDE DEF R2
<1>2. BornRows(D, R2, Live(R2)) /\ BornDocs(D, Live(R2))
  BY <1>1 DEF Stored, BornRows, BornDocs
<1>3. HalfRow(D, R2)
  BY <1>1, LiveRows, LiveDocs DEF Stored, HalfRow
<1>4. HalfDoc(D, R2)
  BY <1>1 DEF Stored, HalfDoc
<1>5. QED
  BY <1>2, <1>3, <1>4 DEF Stored, R2

LEMMA StoredLink ==
  ASSUME NEW D \in [Name -> Doc \cup {None, Gone}],
         NEW R \in [Id -> Row \cup {None, Gone}], NEW L \in 0..MaxId,
         Stored(D, R, L), NEW n \in Live(D), NEW i \in Id, i <= L,
         \A j \in Live(R) : R[j].born = n => j = i \/ i \notin Live(R),
         D[n].born \in {None, i} \/ D[n].born \notin Live(R),
         i \in Live(R) => R[i].fid \in {None, n},
         i \in Live(R) /\ R[i].fid = None => \A j \in Live(R) : R[j].fid # n
  PROVE  Stored(Link(D, n, i), R, L)
<1> DEFINE D2 == Link(D, n, i)
<1>1. /\ D2 \in [Name -> Doc \cup {None, Gone}] /\ Live(D2) = Live(D)
      /\ \A m \in Name : m # n => D2[m] = D[m]
      /\ \A m \in Live(D) : /\ D2[m].born = D[m].born
                            /\ D2[m].pid = IF m = n THEN i ELSE D[m].pid
  BY DocLinked
<1>2. PidsGiven(D2, L)
  BY <1>1 DEF Stored, PidsGiven
<1>3. OneDoc(D2)
  BY <1>1 DEF Stored, OneDoc
<1>4. BornRows(D2, R, Live(R))
  BY <1>1 DEF Stored, BornRows
<1>5. BornDocs(D2, Live(R))
  BY <1>1 DEF Stored, BornDocs
<1>6. HalfRow(D2, R)
  BY <1>1 DEF Stored, HalfRow
<1>7. HalfDoc(D2, R)
  BY <1>1, LiveRows, LiveDocs DEF Stored, HalfDoc
<1>8. QED
  BY <1>2, <1>3, <1>4, <1>5, <1>6, <1>7 DEF Stored

LEMMA StoredNewDoc ==
  ASSUME NEW D \in [Name -> Doc \cup {None, Gone}],
         NEW R \in [Id -> Row \cup {None, Gone}], NEW L \in 0..MaxId,
         Stored(D, R, L), NEW n \in Name, n \notin Live(D), NEW d \in Doc,
         \A j \in Live(R) : R[j].born # n /\ R[j].fid # n,
         d.pid # None => d.pid <= L,
         d.pid \in Live(R) /\ R[d.pid].fid \in Live(D) => D[R[d.pid].fid].pid # None,
         d.born = None \/ (d.born = d.pid /\ \A m \in Live(D) : D[m].born # d.born)
  PROVE  Stored(Put(D, n, d), R, L)
<1> DEFINE D2 == Put(D, n, d)
<1>1. /\ D2 \in [Name -> Doc \cup {None, Gone}] /\ Live(D2) = Live(D) \cup {n}
      /\ D2[n] = d /\ \A m \in Name : m # n => D2[m] = D[m]
  BY DocInserted
<1>2. Live(D) \subseteq Name
  BY LiveDocs
<1>3. \A m \in Live(D) : D2[m] = D[m]
  BY <1>1, <1>2
<1>4. PidsGiven(D2, L)
  BY <1>1, <1>3 DEF Stored, PidsGiven
<1>5. OneDoc(D2)
  BY <1>1, <1>3 DEF Stored, OneDoc
<1>6. BornRows(D2, R, Live(R))
  BY <1>1, <1>3 DEF Stored, BornRows
<1>7. BornDocs(D2, Live(R))
  BY <1>1, <1>3 DEF Stored, BornDocs
<1>8. HalfRow(D2, R)
  BY <1>1, <1>3 DEF Stored, HalfRow
<1>9. HalfDoc(D2, R)
  BY <1>1, <1>3 DEF Stored, HalfDoc
<1>10. QED
  BY <1>4, <1>5, <1>6, <1>7, <1>8, <1>9 DEF Stored

LEMMA StoredLessDoc ==
  ASSUME NEW D, NEW R, NEW L, NEW D2, Stored(D, R, L), Live(D2) \subseteq Live(D),
         \A n \in Live(D2) : D2[n] = D[n]
  PROVE  Stored(D2, R, L)
<1>1. PidsGiven(D2, L) /\ OneDoc(D2)
  BY DEF Stored, PidsGiven, OneDoc
<1>2. BornRows(D2, R, Live(R)) /\ BornDocs(D2, Live(R))
  BY DEF Stored, BornRows, BornDocs
<1>3. HalfRow(D2, R) /\ HalfDoc(D2, R)
  BY DEF Stored, HalfRow, HalfDoc
<1>4. QED
  BY <1>1, <1>2, <1>3 DEF Stored

\* Identities are given in order; a row that names a document names one that was
\* there, and a row that was inserted for a document names it as long as it exists.
Used(n) == docs[n] # None \/ n \in lost
RowIds == \A i \in Id : rows[i] # None <=> i <= lastId
FidsUsed == \A i \in Live(rows) : rows[i].fid # None => Used(rows[i].fid)
KeepName == \A i \in Live(rows) : rows[i].born # None => rows[i].fid = rows[i].born
OneRow ==
  \A i, j \in Live(rows) : rows[i].born = rows[j].born /\ rows[i].born # None => i = j

RowInv == RowIds /\ FidsUsed /\ KeepName /\ OneRow

LEMMA RowInvSame ==
  ASSUME TypeOK, RowInv, UNCHANGED <<rows, lastId>>, \A n \in Name : Used(n) => Used(n)'
  PROVE  RowInv'
<1>1. \A i \in Live(rows) : rows[i].fid \in Name \cup {None}
  BY LiveSets DEF Row
<1>2. RowIds' /\ KeepName' /\ OneRow'
  BY DEF RowInv, RowIds, KeepName, OneRow
<1>3. FidsUsed'
  BY <1>1 DEF RowInv, FidsUsed
<1>4. QED
  BY <1>2, <1>3 DEF RowInv

LEMMA RowInvInsert ==
  ASSUME TypeOK, RowInv, lastId + 1 \in Id, lastId' = lastId + 1,
         NEW r \in Row, rows' = Put(rows, lastId + 1, r),
         r.fid # None => Used(r.fid)',
         r.born # None => r.fid = r.born /\ \A j \in Live(rows) : rows[j].born # r.born,
         \A n \in Name : Used(n) => Used(n)'
  PROVE  RowInv'
<1> DEFINE k == lastId + 1
<1>1. rows \in [Id -> Row \cup {None, Gone}] /\ k \in Id
  BY DEF TypeOK
<1> HIDE DEF k
<1>2. rows' = Put(rows, k, r)
  BY DEF k
<1>3. /\ rows' \in [Id -> Row \cup {None, Gone}] /\ Live(rows') = Live(rows) \cup {k}
      /\ rows'[k] = r /\ \A j \in Id : j # k => rows'[j] = rows[j]
  BY <1>1, <1>2, RowInserted
<1>4. Live(rows) \subseteq Id /\ \A i \in Live(rows) : rows[i].fid \in Name \cup {None}
  BY LiveSets DEF Row
<1>5. /\ \A i \in Id : i <= lastId => i # k
      /\ \A i \in Id : i <= lastId' <=> i <= lastId \/ i = k
  BY DEF k, Id, TypeOK
<1>6. k \notin Live(rows)
  BY <1>1, <1>5, LiveSets DEF RowInv, RowIds
<1>7. RowIds'
  BY <1>3, <1>5 DEF RowInv, RowIds
<1>8. FidsUsed'
  BY <1>3, <1>4 DEF RowInv, FidsUsed
<1>9. KeepName'
  BY <1>3, <1>4 DEF RowInv, KeepName
<1>10. OneRow'
  BY <1>3, <1>4 DEF RowInv, OneRow
<1>11. QED
  BY <1>7, <1>8, <1>9, <1>10 DEF RowInv

LEMMA RowInvRename ==
  ASSUME TypeOK, RowInv, NEW i \in Live(rows), NEW n \in Name, lastId' = lastId,
         rows' = Rename(rows, i, n), rows[i].born \in {None, n}, Used(n)',
         \A m \in Name : Used(m) => Used(m)'
  PROVE  RowInv'
<1>1. rows \in [Id -> Row \cup {None, Gone}]
  BY DEF TypeOK
<1>2. /\ rows' \in [Id -> Row \cup {None, Gone}] /\ Live(rows') = Live(rows)
      /\ \A j \in Id : j # i => rows'[j] = rows[j]
      /\ \A j \in Live(rows) : /\ rows'[j].born = rows[j].born
                               /\ rows'[j].fid = IF j = i THEN n ELSE rows[j].fid
  BY <1>1, RowRenamed
<1>3. Live(rows) \subseteq Id /\ \A j \in Live(rows) : rows[j].fid \in Name \cup {None}
  BY LiveSets DEF Row
<1>4. rows'[i] # None
  BY <1>2, <1>3 DEF Live
<1>5. RowIds'
  BY <1>2, <1>3, <1>4 DEF RowInv, RowIds, Live
<1>6. FidsUsed'
  BY <1>2, <1>3 DEF RowInv, FidsUsed
<1>7. KeepName'
  BY <1>2 DEF RowInv, KeepName
<1>8. OneRow'
  BY <1>2 DEF RowInv, OneRow
<1>9. QED
  BY <1>5, <1>6, <1>7, <1>8 DEF RowInv

LEMMA RowInvDelete ==
  ASSUME TypeOK, RowInv, NEW i \in Id, rows[i] # None, lastId' = lastId,
         rows' = Put(rows, i, Gone), \A n \in Name : Used(n) => Used(n)'
  PROVE  RowInv'
<1>1. rows \in [Id -> Row \cup {None, Gone}]
  BY DEF TypeOK
<1>2. /\ rows' \in [Id -> Row \cup {None, Gone}] /\ Live(rows') = Live(rows) \ {i}
      /\ rows'[i] = Gone /\ \A j \in Id : j # i => rows'[j] = rows[j]
  BY <1>1, RowDeleted
<1>3. Live(rows) \subseteq Id /\ \A j \in Live(rows) : rows[j].fid \in Name \cup {None}
  BY LiveSets DEF Row
<1>4. RowIds'
  BY <1>2 DEF RowInv, RowIds
<1>5. FidsUsed'
  BY <1>2, <1>3 DEF RowInv, FidsUsed
<1>6. KeepName' /\ OneRow'
  BY <1>2, <1>3 DEF RowInv, KeepName, OneRow
<1>7. QED
  BY <1>4, <1>5, <1>6 DEF RowInv

\* The two views of the documents: what the transaction adds is not committed, and
\* it deletes only what was committed.
Behind ==
  /\ \A n \in Name : docs[n] = None => saved[n] = None
  /\ \A n \in Name : docs[n] = Gone => saved[n] # None
  /\ \A n \in Live(docs) : docs[n].pid = None => n \in Live(saved) /\ saved[n].pid = None
Synced == phase # "write" => docs = saved
Older ==
  phase = "write" /\ ~(pairs = {} /\ doomed = {} /\ onlyDocs = {}) =>
    \A n \in Name : docs[n] # None => saved[n] # None

TableInv ==
  /\ TypeInv /\ RowInv
  /\ Stored(docs, rows, lastId) /\ Stored(saved, rows, lastId)
  /\ Behind /\ Synced /\ Older

LEMMA UnusedFree ==
  ASSUME TypeOK, NewNames, RowInv, NEW n \in Name, Unused(n)
  PROVE  /\ n \notin Live(docs) /\ n \notin Live(saved) /\ docs[n] = None
         /\ \A j \in Live(rows) : rows[j].born # n /\ rows[j].fid # n
<1>1. docs[n] = None /\ saved[n] = None /\ ~Used(n)
  BY DEF Unused, Used
<1>2. \A j \in Live(rows) : rows[j].fid # n
  BY <1>1 DEF RowInv, FidsUsed
<1>3. \A j \in Live(rows) : rows[j].born # n
  BY <1>2 DEF RowInv, KeepName
<1>4. QED
  BY <1>1, <1>2, <1>3 DEF Live

LEMMA NewDocTables ==
  ASSUME TableInv, NewNames, NEW n \in Name, NewDoc(n)
  PROVE  TableInv'
<1> USE DEF TableInv
<1>1. TypeInv' /\ TypeOK /\ Unused(n) /\ UNCHANGED <<lost, rows, lastId>>
  BY UserType DEF TypeInv, NewDoc, partnerVars
<1>2. UserMay /\ UserDid
  BY DEF NewDoc
<1>3. UNCHANGED <<phase, pairs, onlyDocs, doomed>>
  BY <1>1, <1>2, UserEffect
<1>4. PICK p \in Id \cup {None} :
        /\ p # None => \E m \in Live(saved) : saved[m].pid = p
        /\ [pid |-> p, born |-> None] \in Doc
        /\ docs' = [docs EXCEPT ![n] = [pid |-> p, born |-> None]]
        /\ saved' = [saved EXCEPT ![n] = [pid |-> p, born |-> None]]
  BY <1>1, NewDocType
<1> DEFINE d == [pid |-> p, born |-> None]
<1>5. d \in Doc /\ d.pid = p /\ d.born = None
  BY <1>4
<1>6. docs' = Put(docs, n, d) /\ saved' = Put(saved, n, d)
  BY <1>4 DEF Put
<1> HIDE DEF d
<1>7. /\ n \notin Live(docs) /\ n \notin Live(saved) /\ docs[n] = None
      /\ \A j \in Live(rows) : rows[j].born # n /\ rows[j].fid # n
  BY <1>1, UnusedFree
<1>8. /\ docs \in [Name -> Doc \cup {None, Gone}] /\ saved \in [Name -> Doc \cup {None, Gone}]
      /\ rows \in [Id -> Row \cup {None, Gone}] /\ lastId \in 0..MaxId
  BY <1>1 DEF TypeOK
<1>9. d.pid # None => d.pid <= lastId
  BY <1>4, <1>5 DEF Stored, PidsGiven
<1>10. /\ d.pid \in Live(rows) /\ rows[d.pid].fid \in Live(saved) =>
            saved[rows[d.pid].fid].pid # None
       /\ d.pid \in Live(rows) /\ rows[d.pid].fid \in Live(docs) =>
            docs[rows[d.pid].fid].pid # None
  <2>1. d.pid \in Live(rows) => \E m \in Live(saved) : saved[m].pid = d.pid
    BY <1>4, <1>5, LiveSets DEF TypeInv
  <2>2. d.pid \in Live(rows) /\ rows[d.pid].fid \in Live(saved) =>
          saved[rows[d.pid].fid].pid # None
    BY <2>1 DEF Stored, HalfDoc
  <2>3. QED
    BY <2>2 DEF Behind
<1>11. Stored(docs, rows, lastId)'
  <2>1. Stored(Put(docs, n, d), rows, lastId)
    BY <1>5, <1>7, <1>8, <1>9, <1>10, StoredNewDoc
  <2>2. QED
    BY <2>1, <1>1, <1>6
<1>12. Stored(saved, rows, lastId)'
  <2>1. Stored(Put(saved, n, d), rows, lastId)
    BY <1>5, <1>7, <1>8, <1>9, <1>10, StoredNewDoc
  <2>2. QED
    BY <2>1, <1>1, <1>6
<1>13. /\ docs' \in [Name -> Doc \cup {None, Gone}] /\ Live(docs') = Live(docs) \cup {n}
       /\ docs'[n] = d /\ \A m \in Name : m # n => docs'[m] = docs[m]
  BY <1>5, <1>6, <1>8, DocInserted
<1>14. /\ saved' \in [Name -> Doc \cup {None, Gone}] /\ Live(saved') = Live(saved) \cup {n}
       /\ saved'[n] = d /\ \A m \in Name : m # n => saved'[m] = saved[m]
  BY <1>5, <1>6, <1>8, DocInserted
<1>15. \A m \in Name : Used(m) => Used(m)'
  BY <1>1, <1>7, <1>13 DEF Used
<1>16. RowInv'
  BY <1>1, <1>15, RowInvSame
<1>17. Behind'
  BY <1>5, <1>8, <1>13, <1>14, LiveDocs DEF Behind
<1>18. Synced' /\ Older'
  BY <1>3, <1>5, <1>6, <1>13, <1>14 DEF Synced, Older
<1>19. QED
  BY <1>1, <1>11, <1>12, <1>16, <1>17, <1>18

LEMMA DeleteDocTables ==
  ASSUME TableInv, NEW n \in Name, DeleteDoc(n)
  PROVE  TableInv'
<1> USE DEF TableInv
<1>1. /\ TypeInv' /\ TypeOK /\ n \in Live(docs) /\ docs[n] = saved[n]
      /\ UNCHANGED <<lost, rows, lastId>>
  BY UserType DEF TypeInv, DeleteDoc, partnerVars
<1>2. UserMay /\ UserDid
  BY DEF DeleteDoc
<1>3. UNCHANGED <<phase, pairs, onlyDocs, doomed>>
  BY <1>1, <1>2, UserEffect
<1>4. docs' = Put(docs, n, Gone) /\ saved' = Put(saved, n, Gone)
  BY DEF DeleteDoc, SetDoc, Put
<1>5. docs \in [Name -> Doc \cup {None, Gone}] /\ saved \in [Name -> Doc \cup {None, Gone}]
  BY <1>1 DEF TypeOK
<1>6. /\ docs' \in [Name -> Doc \cup {None, Gone}] /\ Live(docs') = Live(docs) \ {n}
      /\ docs'[n] = Gone /\ \A m \in Name : m # n => docs'[m] = docs[m]
  BY <1>4, <1>5, DocDeleted
<1>7. /\ saved' \in [Name -> Doc \cup {None, Gone}] /\ Live(saved') = Live(saved) \ {n}
      /\ saved'[n] = Gone /\ \A m \in Name : m # n => saved'[m] = saved[m]
  BY <1>4, <1>5, DocDeleted
<1>8. Live(docs) \subseteq Name /\ Live(saved) \subseteq Name
  BY <1>5, LiveDocs
<1>9. Stored(docs', rows, lastId) /\ Stored(saved', rows, lastId)
  BY <1>6, <1>7, <1>8, StoredLessDoc
<1>10. \A m \in Name : Used(m) => Used(m)'
  BY <1>1, <1>6 DEF Used
<1>11. RowInv'
  BY <1>1, <1>10, RowInvSame
<1>12. Behind'
  BY <1>6, <1>7, <1>8 DEF Behind
<1>13. Synced' /\ Older'
  BY <1>3, <1>4, <1>6, <1>7 DEF Synced, Older
<1>14. QED
  BY <1>1, <1>9, <1>11, <1>12, <1>13

LEMMA NewRowTables ==
  ASSUME TableInv, NewRow
  PROVE  TableInv'
<1> USE DEF TableInv
<1>1. TypeInv' /\ TypeOK /\ UNCHANGED <<docs, saved, lost>>
  BY UserType DEF TypeInv, NewRow, siteVars
<1>2. UserMay /\ UserDid
  BY DEF NewRow
<1>3. UNCHANGED <<phase, pairs, onlyDocs, doomed>>
  BY <1>1, <1>2, UserEffect
<1>4. PICK f \in Name \cup {None} :
        /\ f # None => \E j \in Live(rows) : rows[j].fid = f
        /\ [fid |-> f, born |-> None] \in Row
        /\ lastId + 1 \in Id /\ lastId' = lastId + 1
        /\ rows' = [rows EXCEPT ![lastId + 1] = [fid |-> f, born |-> None]]
  BY <1>1, NewRowType
<1> DEFINE r == [fid |-> f, born |-> None]
<1>5. r \in Row /\ r.fid = f /\ r.born = None
  BY <1>4
<1>6. rows' = Put(rows, lastId + 1, r)
  BY <1>4 DEF Put
<1> HIDE DEF r
<1>7. /\ docs \in [Name -> Doc \cup {None, Gone}] /\ saved \in [Name -> Doc \cup {None, Gone}]
      /\ rows \in [Id -> Row \cup {None, Gone}] /\ lastId \in 0..MaxId
  BY <1>1 DEF TypeOK
<1>8. ASSUME NEW D \in [Name -> Doc \cup {None, Gone}], Stored(D, rows, lastId)
      PROVE  Stored(D, rows', lastId')
  <2>1. \A n \in Live(D) : r.born = n => D[n].pid \notin Live(rows)
    BY <1>5, LiveDocs
  <2>2. \A n \in Live(D) :
          r.fid = n => D[n].pid \notin Live(rows) \/ rows[D[n].pid].fid # None
    BY <1>4, <1>5, <1>8, LiveDocs DEF Stored, HalfRow
  <2>3. Stored(D, Put(rows, lastId + 1, r), lastId + 1)
    BY <1>4, <1>5, <1>7, <1>8, <2>1, <2>2, StoredNewRow
  <2>4. QED
    BY <1>4, <1>6, <2>3
<1>9. Stored(docs, rows, lastId)' /\ Stored(saved, rows, lastId)'
  BY <1>1, <1>7, <1>8
<1>10. \A m \in Name : Used(m) => Used(m)'
  BY <1>1 DEF Used
<1>11. r.fid # None => Used(r.fid)'
  BY <1>1, <1>4, <1>5, <1>10 DEF RowInv, FidsUsed
<1>12. RowInv'
  BY <1>1, <1>4, <1>5, <1>6, <1>10, <1>11, RowInvInsert
<1>13. Behind' /\ Synced' /\ Older'
  BY <1>1, <1>3 DEF Behind, Synced, Older
<1>14. QED
  BY <1>1, <1>9, <1>12, <1>13

LEMMA DeleteRowTables ==
  ASSUME TableInv, NEW i \in Id, DeleteRow(i)
  PROVE  TableInv'
<1> USE DEF TableInv
<1>1. /\ TypeInv' /\ TypeOK /\ i \in Live(rows)
      /\ UNCHANGED <<docs, saved, lost, lastId>>
  BY UserType DEF TypeInv, DeleteRow, siteVars
<1>2. UserMay /\ UserDid
  BY DEF DeleteRow
<1>3. UNCHANGED <<phase, pairs, onlyDocs, doomed>>
  BY <1>1, <1>2, UserEffect
<1>4. rows' = Put(rows, i, Gone) /\ rows[i] # None
  BY <1>1 DEF DeleteRow, Put, Live
<1>5. rows \in [Id -> Row \cup {None, Gone}]
  BY <1>1 DEF TypeOK
<1>6. /\ rows' \in [Id -> Row \cup {None, Gone}] /\ Live(rows') = Live(rows) \ {i}
      /\ rows'[i] = Gone /\ \A j \in Id : j # i => rows'[j] = rows[j]
  BY <1>4, <1>5, RowDeleted
<1>7. Live(rows) \subseteq Id
  BY <1>5, LiveRows
<1>8. Stored(docs, rows', lastId) /\ Stored(saved, rows', lastId)
  BY <1>6, <1>7, StoredLessRow
<1>9. \A m \in Name : Used(m) => Used(m)'
  BY <1>1 DEF Used
<1>10. RowInv'
  BY <1>1, <1>4, <1>9, RowInvDelete
<1>11. Behind' /\ Synced' /\ Older'
  BY <1>1, <1>3 DEF Behind, Synced, Older
<1>12. QED
  BY <1>1, <1>8, <1>10, <1>11

-----------------------------------------------------------------------------
(* The writes and the tables *)

Deleted(n) == docs[n] = Gone /\ saved[n] = Gone

\* A document that is to get a row has none, stores no link and is in no pair.
OnlyDocsNew ==
  \A n \in onlyDocs :
    /\ docs[n] # None
    /\ n \in Live(docs) => docs[n].pid = None
    /\ n \in Live(saved) => saved[n].pid = None
    /\ \A j \in Live(rows) : rows[j].born # n
    /\ \A p \in pairs : p.doc # n

\* What a pair was read with is what is stored as long as it exists, and the row that
\* was inserted for its document is its row.
AsRead(p, D) ==
  /\ p.pid \in {None, p.row} /\ p.fid \in {None, p.doc} /\ ~(p.pid = None /\ p.fid = None)
  /\ p.doc \in Live(D) => D[p.doc].pid = p.pid
  /\ p.row \in Live(rows) => rows[p.row].fid = p.fid
  /\ \A j \in Live(rows) : rows[j].born = p.doc => j = p.row

\* Pairs share neither a document nor a row.
PairsAlive ==
  \A p \in pairs :
    /\ docs[p.doc] # None /\ rows[p.row] # None
    /\ AsRead(p, docs) /\ AsRead(p, saved)
    /\ \A q \in pairs \ {p} : q.doc # p.doc /\ q.row # p.row

\* A row that is to get a document has none and names none, except one that a user
\* deleted after the first read.
OnlyRowsNew ==
  \A i \in onlyRows :
    /\ rows[i] # None
    /\ \A m \in Live(docs) : docs[m].born # i
    /\ \A m \in Live(saved) : saved[m].born # i
    /\ i \in Live(rows) =>
         rows[i].born = None /\ (rows[i].fid = None \/ Deleted(rows[i].fid))
    /\ \A p \in pairs : p.row = i => Deleted(p.doc)

DoomedKnown ==
  \A x \in doomed : (x \in Name => docs[x] # None) /\ (x \in Id => rows[x] # None)

WriteInv == phase = "write" => OnlyDocsNew /\ PairsAlive /\ OnlyRowsNew /\ DoomedKnown

\* What the writes of a pair leave of the agreement between documents and rows.
LEMMA PairStored ==
  ASSUME TypeOK, RowInv, NEW D \in [Name -> Doc \cup {None, Gone}],
         Stored(D, rows, lastId), NEW p \in Pair, rows[p.row] # None, AsRead(p, D),
         NEW r \in Row, r.fid = p.doc, r.born = p.doc
  PROVE  /\ p.row \in Live(rows) =>
              /\ Stored(D, Rename(rows, p.row, p.doc), lastId)
              /\ p.doc \in Live(D) =>
                   Stored(Link(D, p.doc, p.row), Rename(rows, p.row, p.doc), lastId)
         /\ p.row \notin Live(rows) /\ lastId + 1 \in Id =>
              /\ Stored(D, Put(rows, lastId + 1, r), lastId + 1)
              /\ p.doc \in Live(D) =>
                   /\ Stored(Link(D, p.doc, p.row), Put(rows, lastId + 1, r), lastId + 1)
                   /\ Stored(Link(D, p.doc, lastId + 1), Put(rows, lastId + 1, r),
                             lastId + 1)
         /\ p.doc \in Live(D) => Stored(Link(D, p.doc, p.row), rows, lastId)
<1> DEFINE n == p.doc
           i == p.row
           k == lastId + 1
<1>1. /\ n \in Name /\ i \in Id /\ n # None
      /\ rows \in [Id -> Row \cup {None, Gone}] /\ lastId \in 0..MaxId
  BY DEF Pair, TypeOK
<1>2. i <= lastId
  BY <1>1 DEF RowInv, RowIds
<1>3. /\ Live(rows) \subseteq Id /\ Live(D) \subseteq Name
      /\ \A m \in Live(D) : D[m].born \in Id \cup {None}
  BY <1>1, LiveRows, LiveDocs DEF Doc
<1>4. n \in Live(D) => D[n].born \in {None, i} \/ D[n].born \notin Live(rows)
  BY DEF Stored, BornDocs, AsRead
<1>5. ASSUME i \in Live(rows)
      PROVE  /\ Stored(D, Rename(rows, i, n), lastId)
             /\ n \in Live(D) => Stored(Link(D, n, i), Rename(rows, i, n), lastId)
  <2> DEFINE R2 == Rename(rows, i, n)
  <2>1. n \in Live(D) => D[n].pid \in {None, i} \/ D[n].pid \notin Live(rows)
    BY DEF AsRead
  <2>2. n \in Live(D) /\ D[n].pid = None => \A m \in Live(D) : D[m].pid # i
    BY <1>5 DEF AsRead, Stored, HalfDoc
  <2>3. Stored(D, R2, lastId)
    BY <1>1, <1>5, <2>1, <2>2, StoredRename
  <2>4. /\ R2 \in [Id -> Row \cup {None, Gone}] /\ Live(R2) = Live(rows)
        /\ \A j \in Id : j # i => R2[j] = rows[j]
        /\ \A j \in Live(rows) : /\ R2[j].born = rows[j].born
                                 /\ R2[j].fid = IF j = i THEN n ELSE rows[j].fid
    BY <1>1, <1>5, RowRenamed
  <2> HIDE DEF R2
  <2>5. ASSUME n \in Live(D) PROVE Stored(Link(D, n, i), R2, lastId)
    <3>1. \A j \in Live(R2) : R2[j].born = n => j = i \/ i \notin Live(R2)
      BY <2>4 DEF AsRead
    <3>2. D[n].born \in {None, i} \/ D[n].born \notin Live(R2)
      BY <1>4, <2>4, <2>5
    <3>3. R2[i].fid = n
      BY <1>5, <2>4
    <3>4. QED
      BY <1>1, <1>2, <2>3, <2>4, <2>5, <3>1, <3>2, <3>3, StoredLink
  <2>6. QED
    BY <2>3, <2>5 DEF R2
<1>6. ASSUME i \notin Live(rows), k \in Id
      PROVE  /\ Stored(D, Put(rows, k, r), k)
             /\ n \in Live(D) => /\ Stored(Link(D, n, i), Put(rows, k, r), k)
                                 /\ Stored(Link(D, n, k), Put(rows, k, r), k)
  <2> DEFINE R2 == Put(rows, k, r)
  <2>1. n \in Live(D) => D[n].pid \notin Live(rows)
    BY <1>1, <1>3, <1>6 DEF AsRead
  <2>2. Stored(D, R2, k)
    <3>1. \A m \in Live(D) : r.born = m => D[m].pid \notin Live(rows)
      BY <2>1
    <3>2. \A m \in Live(D) :
            r.fid = m => D[m].pid \notin Live(rows) \/ rows[D[m].pid].fid # None
      BY <2>1
    <3>3. QED
      BY <1>1, <1>6, <3>1, <3>2, StoredNewRow
  <2>3. k \in 0..MaxId /\ i <= k /\ i # k /\ k <= k
    BY <1>1, <1>2, <1>6 DEF Id
  <2>4. /\ R2 \in [Id -> Row \cup {None, Gone}] /\ Live(R2) = Live(rows) \cup {k}
        /\ R2[k] = r /\ \A j \in Id : j # k => R2[j] = rows[j]
    <3> HIDE DEF k
    <3>1. QED
      BY <1>1, <1>6, RowInserted
  <2>5. ASSUME n \in Live(D)
        PROVE  D[n].born \in {None, i} \/ D[n].born \notin Live(R2)
    <3>1. D[n].born = None \/ (D[n].born \in Id /\ D[n].born <= lastId)
      BY <1>3, <2>5 DEF Stored, PidsGiven
    <3>2. D[n].born # k
      BY <1>1, <1>6, <3>1 DEF Id
    <3>3. QED
      BY <1>4, <2>4, <2>5, <3>2
  <2>6. \A j \in Live(rows) : rows[j].born # n
    BY <1>6 DEF AsRead
  <2> HIDE DEF R2, k
  <2>7. \A j \in Live(R2) : R2[j].born = n => j = k
    BY <1>3, <2>4, <2>6
  <2>8. i \notin Live(R2)
    BY <1>6, <2>3, <2>4
  <2>9. ASSUME n \in Live(D) PROVE Stored(Link(D, n, i), R2, k)
    BY <1>1, <2>2, <2>3, <2>4, <2>5, <2>8, <2>9, StoredLink
  <2>10. ASSUME n \in Live(D) PROVE Stored(Link(D, n, k), R2, k)
    <3>1. D[n].born \in {None, k} \/ D[n].born \notin Live(R2)
      BY <2>5, <2>8, <2>10
    <3>2. R2[k].fid = n
      BY <2>4
    <3>3. QED
      BY <1>1, <1>6, <2>2, <2>3, <2>4, <2>7, <2>10, <3>1, <3>2, StoredLink
  <2>11. QED
    BY <2>2, <2>9, <2>10 DEF R2
<1>7. ASSUME n \in Live(D) PROVE Stored(Link(D, n, i), rows, lastId)
  <2>1. \A j \in Live(rows) : rows[j].born = n => j = i \/ i \notin Live(rows)
    BY DEF AsRead
  <2>2. i \in Live(rows) => rows[i].fid \in {None, n}
    BY DEF AsRead
  <2>3. i \in Live(rows) /\ rows[i].fid = None => \A j \in Live(rows) : rows[j].fid # n
    BY <1>7 DEF AsRead, Stored, HalfRow
  <2>4. QED
    BY <1>1, <1>2, <1>4, <1>7, <2>1, <2>2, <2>3, StoredLink
<1>8. QED
  BY <1>5, <1>6, <1>7

\* The two views of the documents after a write that links, creates or deletes one.
LEMMA WriteViews ==
  ASSUME TypeOK, phase = "write", phase' = "write", lost' = lost, Behind, Older,
         docs' \in [Name -> Doc \cup {None, Gone}], saved' \in {saved, docs'},
         \A n \in Name : docs[n] # None => docs'[n] # None,
         \A n \in Name : docs'[n] = Gone => saved[n] # None,
         \A n \in Live(docs') : docs'[n].pid = None => docs'[n] = docs[n],
         \/ pairs' = {} /\ doomed' = {} /\ onlyDocs' = {}
         \/ /\ ~(pairs = {} /\ doomed = {} /\ onlyDocs = {})
            /\ \A n \in Name : docs'[n] # None => docs[n] # None
  PROVE  /\ Behind' /\ Synced' /\ Older'
         /\ \A n \in Name : Used(n) => Used(n)'
<1>1. /\ Live(docs) = {n \in Name : docs[n] \in Doc}
      /\ Live(docs') = {n \in Name : docs'[n] \in Doc}
      /\ Live(saved) = {n \in Name : saved[n] \in Doc}
  BY LiveSets, LiveDocs
<1>2. Behind'
  <2>1. CASE saved' = saved
    BY <1>1, <2>1 DEF Behind
  <2>2. CASE saved' = docs'
    BY <1>1, <2>2 DEF Behind
  <2>3. QED
    BY <2>1, <2>2
<1>3. Synced'
  BY DEF Synced
<1>4. Older'
  <2>1. \A n \in Name : saved[n] # None => saved'[n] # None
    BY DEF Behind
  <2>2. QED
    BY <2>1 DEF Older
<1>5. \A n \in Name : Used(n) => Used(n)'
  BY DEF Used
<1>6. QED
  BY <1>2, <1>3, <1>4, <1>5

LEMMA LinkedViews ==
  ASSUME TypeOK, Behind, NEW n \in Live(docs), NEW i \in Id, docs' = Link(docs, n, i)
  PROVE  /\ docs' \in [Name -> Doc \cup {None, Gone}] /\ Live(docs') = Live(docs)
         /\ \A m \in Name : docs[m] # None <=> docs'[m] # None
         /\ \A m \in Name : docs'[m] = Gone => saved[m] # None
         /\ \A m \in Live(docs') : docs'[m].pid = None => docs'[m] = docs[m]
         /\ \A m \in Name : m # n => docs'[m] = docs[m]
         /\ \A m \in Live(docs) : docs'[m].born = docs[m].born
<1>1. docs \in [Name -> Doc \cup {None, Gone}]
  BY DEF TypeOK
<1>2. /\ docs' \in [Name -> Doc \cup {None, Gone}] /\ Live(docs') = Live(docs)
      /\ \A m \in Name : m # n => docs'[m] = docs[m]
      /\ \A m \in Live(docs) : /\ docs'[m].born = docs[m].born
                               /\ docs'[m].pid = IF m = n THEN i ELSE docs[m].pid
  BY <1>1, DocLinked
<1>3. docs[n] \in Doc /\ docs'[n] \in Doc /\ i # None
  BY <1>1, <1>2, LiveDocs
<1>4. QED
  BY <1>1, <1>2, <1>3, LiveDocs DEF Behind

\* A pair is written: the case of each outcome of SyncPairEffect.
LEMMA SyncPairTables ==
  ASSUME TableInv, WriteInv, NEW p \in pairs, SyncPair(p)
  PROVE  TableInv'
<1>1. TypeInv' /\ TypeOK /\ RowInv /\ Behind /\ Older
  BY WriteType DEF TableInv, TypeInv
<1>2. /\ phase = "write" /\ pairs' = pairs \ {p}
      /\ UNCHANGED <<config, lost, changes, phase, full, opDocs, knownDocs, opRows,
                     knownRows, todo, conflicted, onlyDocs, onlyRows>>
      /\ docs' \in [Name -> Doc \cup {None, Gone}]
      /\ rows' \in [Id -> Row \cup {None, Gone}] /\ lastId' \in 0..MaxId
      /\ saved' \in {saved, docs'} /\ faults' \in 0..MaxFaults
      /\ dirty' \in {dirty, TRUE}
      /\ p \in Pair /\ doomed' \in {doomed, doomed \cup {p.doc}}
      /\ \/ /\ UNCHANGED <<docs, rows, lastId, doomed>>
            /\ dirty' = TRUE \/ (p.pid = p.row /\ p.fid = p.doc)
         \/ /\ p.row \in Live(rows) /\ UNCHANGED <<lastId, doomed>>
            /\ rows' = [rows EXCEPT ![p.row].fid = p.doc]
            /\ \/ docs' = docs
               \/ p.doc \in Live(docs) /\ docs' = [docs EXCEPT ![p.doc].pid = p.row]
         \/ /\ p.row \notin Live(rows) /\ lastId + 1 \in Id /\ lastId' = lastId + 1
            /\ [fid |-> p.doc, born |-> p.doc] \in Row
            /\ rows' = [rows EXCEPT ![lastId + 1] = [fid |-> p.doc, born |-> p.doc]]
            /\ \/ docs' = docs /\ doomed' = doomed
               \/ /\ p.doc \in Live(docs) /\ doomed' = doomed
                  /\ docs' = [docs EXCEPT ![p.doc].pid = p.row]
               \/ /\ p.doc \in Live(docs) /\ doomed' \in {doomed, doomed \cup {p.doc}}
                  /\ docs' = [docs EXCEPT ![p.doc].pid = lastId + 1]
         \/ /\ p.doc \in Live(docs) /\ UNCHANGED <<rows, lastId, doomed>>
            /\ docs' = [docs EXCEPT ![p.doc].pid = p.row]
  BY <1>1, SyncPairEffect
<1>3. /\ docs[p.doc] # None /\ rows[p.row] # None /\ AsRead(p, docs) /\ AsRead(p, saved)
      /\ p.doc \in Name /\ p.row \in Id
  BY <1>2 DEF WriteInv, PairsAlive, Pair
<1>4. /\ docs \in [Name -> Doc \cup {None, Gone}] /\ saved \in [Name -> Doc \cup {None, Gone}]
      /\ rows \in [Id -> Row \cup {None, Gone}] /\ lastId \in 0..MaxId
      /\ Stored(docs, rows, lastId) /\ Stored(saved, rows, lastId)
  BY <1>1 DEF TypeOK, TableInv
<1>5. /\ \A m \in Name : docs'[m] = Gone => saved[m] # None
      /\ \A m \in Name : docs[m] # None <=> docs'[m] # None
      /\ \A m \in Live(docs') : docs'[m].pid = None => docs'[m] = docs[m]
  <2>1. CASE docs' = docs
    BY <1>1, <2>1 DEF Behind
  <2>2. ASSUME NEW i \in Id, p.doc \in Live(docs), docs' = [docs EXCEPT ![p.doc].pid = i]
        PROVE  /\ \A m \in Name : docs'[m] = Gone => saved[m] # None
               /\ \A m \in Name : docs[m] # None <=> docs'[m] # None
               /\ \A m \in Live(docs') : docs'[m].pid = None => docs'[m] = docs[m]
    <3>1. docs' = Link(docs, p.doc, i)
      BY <2>2 DEF Link
    <3>2. QED
      BY <1>1, <2>2, <3>1, LinkedViews
  <2>3. QED
    BY <1>2, <1>3, <2>1, <2>2
<1>6. /\ Behind' /\ Synced' /\ Older'
      /\ \A m \in Name : Used(m) => Used(m)'
  BY <1>1, <1>2, <1>5, WriteViews
<1>7. Used(p.doc)'
  BY <1>3, <1>6 DEF Used
<1>8. ASSUME Stored(docs', rows', lastId'), Stored(saved, rows', lastId'), RowInv'
      PROVE  TableInv'
  BY <1>1, <1>2, <1>6, <1>8 DEF TableInv
<1>9. [fid |-> p.doc, born |-> p.doc] \in Row
  BY <1>3 DEF Row
<1> DEFINE r == [fid |-> p.doc, born |-> p.doc]
<1>10. r \in Row /\ r.fid = p.doc /\ r.born = p.doc
  BY <1>9
<1>11. rows' = [rows EXCEPT ![lastId + 1] = r] <=>
       rows' = [rows EXCEPT ![lastId + 1] = [fid |-> p.doc, born |-> p.doc]]
  OBVIOUS
<1> HIDE DEF r
<1>12. ASSUME NEW D \in {docs, saved}
       PROVE  /\ p.row \in Live(rows) =>
                   /\ Stored(D, Rename(rows, p.row, p.doc), lastId)
                   /\ p.doc \in Live(D) =>
                        Stored(Link(D, p.doc, p.row), Rename(rows, p.row, p.doc), lastId)
              /\ p.row \notin Live(rows) /\ lastId + 1 \in Id =>
                   /\ Stored(D, Put(rows, lastId + 1, r), lastId + 1)
                   /\ p.doc \in Live(D) =>
                        /\ Stored(Link(D, p.doc, p.row), Put(rows, lastId + 1, r), lastId + 1)
                        /\ Stored(Link(D, p.doc, lastId + 1), Put(rows, lastId + 1, r),
                                  lastId + 1)
              /\ p.doc \in Live(D) => Stored(Link(D, p.doc, p.row), rows, lastId)
  <2>1. /\ D \in [Name -> Doc \cup {None, Gone}] /\ Stored(D, rows, lastId)
        /\ AsRead(p, D)
    BY <1>3, <1>4
  <2>2. QED
    BY <1>1, <1>2, <1>3, <1>10, <2>1, PairStored
<1>13. CASE UNCHANGED <<docs, rows, lastId>>
  <2>1. RowInv'
    BY <1>1, <1>6, <1>13, RowInvSame
  <2>2. QED
    BY <1>4, <1>8, <1>13, <2>1
<1>14. CASE /\ p.row \in Live(rows) /\ lastId' = lastId
            /\ rows' = [rows EXCEPT ![p.row].fid = p.doc]
            /\ \/ docs' = docs
               \/ p.doc \in Live(docs) /\ docs' = [docs EXCEPT ![p.doc].pid = p.row]
  <2>1. rows' = Rename(rows, p.row, p.doc)
    BY <1>14 DEF Rename
  <2>2. \/ docs' = docs
        \/ p.doc \in Live(docs) /\ docs' = Link(docs, p.doc, p.row)
    BY <1>14 DEF Link
  <2>3. rows[p.row].born \in {None, p.doc}
    <3>1. rows[p.row].born # None => rows[p.row].fid = rows[p.row].born
      BY <1>1, <1>14 DEF RowInv, KeepName
    <3>2. rows[p.row].fid \in {None, p.doc}
      BY <1>3, <1>14 DEF AsRead
    <3>3. QED
      BY <3>1, <3>2
  <2>4. RowInv'
    BY <1>1, <1>3, <1>6, <1>7, <1>14, <2>1, <2>3, RowInvRename
  <2>5. Stored(saved, rows', lastId') /\ Stored(docs', rows', lastId')
    BY <1>12, <1>14, <2>1, <2>2
  <2>6. QED
    BY <1>8, <2>4, <2>5
<1>15. CASE /\ p.row \notin Live(rows) /\ lastId + 1 \in Id /\ lastId' = lastId + 1
            /\ rows' = [rows EXCEPT ![lastId + 1] = [fid |-> p.doc, born |-> p.doc]]
            /\ \/ docs' = docs
               \/ p.doc \in Live(docs) /\ docs' = [docs EXCEPT ![p.doc].pid = p.row]
               \/ p.doc \in Live(docs) /\ docs' = [docs EXCEPT ![p.doc].pid = lastId + 1]
  <2>1. rows' = Put(rows, lastId + 1, r)
    BY <1>11, <1>15 DEF Put
  <2>2. \/ docs' = docs
        \/ p.doc \in Live(docs) /\ docs' = Link(docs, p.doc, p.row)
        \/ p.doc \in Live(docs) /\ docs' = Link(docs, p.doc, lastId + 1)
    BY <1>15 DEF Link
  <2>3. \A j \in Live(rows) : rows[j].born # p.doc
    BY <1>3, <1>15 DEF AsRead
  <2>4. RowInv'
    BY <1>1, <1>6, <1>7, <1>10, <1>15, <2>1, <2>3, RowInvInsert
  <2>5. Stored(saved, rows', lastId') /\ Stored(docs', rows', lastId')
    BY <1>12, <1>15, <2>1, <2>2
  <2>6. QED
    BY <1>8, <2>4, <2>5
<1>16. CASE /\ p.doc \in Live(docs) /\ UNCHANGED <<rows, lastId>>
            /\ docs' = [docs EXCEPT ![p.doc].pid = p.row]
  <2>1. docs' = Link(docs, p.doc, p.row)
    BY <1>16 DEF Link
  <2>2. RowInv'
    BY <1>1, <1>6, <1>16, RowInvSame
  <2>3. Stored(docs', rows', lastId') /\ Stored(saved, rows', lastId')
    BY <1>4, <1>12, <1>16, <2>1
  <2>4. QED
    BY <1>8, <2>2, <2>3
<1>17. QED
  BY <1>2, <1>13, <1>14, <1>15, <1>16

LEMMA DeleteOrphanTables ==
  ASSUME TableInv, WriteInv, NEW x \in doomed, DeleteOrphan(x)
  PROVE  TableInv'
<1>1. TypeInv' /\ TypeOK /\ RowInv /\ Behind /\ Older
  BY WriteType DEF TableInv, TypeInv
<1>2. /\ phase = "write" /\ pairs = {} /\ doomed' = doomed \ {x}
      /\ UNCHANGED <<config, lost, changes, phase, full, opDocs, knownDocs, opRows,
                     knownRows, todo, conflicted, pairs, onlyDocs, onlyRows, lastId>>
      /\ docs' \in [Name -> Doc \cup {None, Gone}]
      /\ rows' \in [Id -> Row \cup {None, Gone}]
      /\ saved' \in {saved, docs'} /\ faults' \in 0..MaxFaults
      /\ \/ UNCHANGED <<docs, rows>> /\ dirty' = TRUE
         \/ /\ x \in Name /\ docs' = [docs EXCEPT ![x] = Gone]
            /\ UNCHANGED <<rows, dirty>>
         \/ /\ x \in Id /\ rows' = [rows EXCEPT ![x] = Gone]
            /\ UNCHANGED <<docs, dirty>>
  BY <1>1, DeleteOrphanEffect
<1>3. /\ docs \in [Name -> Doc \cup {None, Gone}] /\ saved \in [Name -> Doc \cup {None, Gone}]
      /\ rows \in [Id -> Row \cup {None, Gone}] /\ lastId \in 0..MaxId
      /\ Stored(docs, rows, lastId) /\ Stored(saved, rows, lastId)
  BY <1>1 DEF TypeOK, TableInv
<1>4. /\ x \in Name => docs[x] # None /\ saved[x] # None
      /\ x \in Id => rows[x] # None
  BY <1>1, <1>2 DEF WriteInv, DoomedKnown, Older
<1>5. ASSUME NEW y, y = x, y \in Name, docs' = Put(docs, y, Gone)
      PROVE  /\ Stored(docs', rows, lastId)
             /\ \A m \in Name : docs[m] # None <=> docs'[m] # None
             /\ \A m \in Name : docs'[m] = Gone => saved[m] # None
             /\ \A m \in Live(docs') : docs'[m].pid = None => docs'[m] = docs[m]
  <2>1. /\ docs' \in [Name -> Doc \cup {None, Gone}] /\ Live(docs') = Live(docs) \ {y}
        /\ docs'[y] = Gone /\ \A m \in Name : m # y => docs'[m] = docs[m]
    BY <1>3, <1>5, DocDeleted
  <2>2. Live(docs) \subseteq Name
    BY <1>3, LiveDocs
  <2>3. Stored(docs', rows, lastId)
    BY <1>3, <2>1, <2>2, StoredLessDoc
  <2>4. QED
    BY <1>1, <1>4, <1>5, <2>1, <2>2, <2>3 DEF Behind
<1>6. /\ Stored(docs', rows, lastId)
      /\ \A m \in Name : docs[m] # None <=> docs'[m] # None
      /\ \A m \in Name : docs'[m] = Gone => saved[m] # None
      /\ \A m \in Live(docs') : docs'[m].pid = None => docs'[m] = docs[m]
  <2>1. CASE docs' = docs
    BY <1>1, <1>3, <2>1 DEF Behind
  <2>2. CASE x \in Name /\ docs' = [docs EXCEPT ![x] = Gone]
    <3>1. docs' = Put(docs, x, Gone)
      BY <2>2 DEF Put
    <3>2. QED
      BY <1>5, <2>2, <3>1
  <2>3. QED
    BY <1>2, <2>1, <2>2
<1>7. /\ Behind' /\ Synced' /\ Older'
      /\ \A m \in Name : Used(m) => Used(m)'
  <2>1. ~(pairs = {} /\ doomed = {} /\ onlyDocs = {})
    OBVIOUS
  <2>2. QED
    BY <1>1, <1>2, <1>6, <2>1, WriteViews
<1>8. RowInv' /\ Stored(docs', rows', lastId) /\ Stored(saved, rows', lastId)
  <2>1. CASE rows' = rows
    BY <1>1, <1>2, <1>3, <1>6, <1>7, <2>1, RowInvSame
  <2>2. CASE x \in Id /\ rows' = [rows EXCEPT ![x] = Gone] /\ docs' = docs
    <3>1. rows' = Put(rows, x, Gone)
      BY <2>2 DEF Put
    <3>2. RowInv'
      BY <1>1, <1>2, <1>4, <1>7, <2>2, <3>1, RowInvDelete
    <3>3. /\ rows' \in [Id -> Row \cup {None, Gone}] /\ Live(rows') = Live(rows) \ {x}
          /\ rows'[x] = Gone /\ \A j \in Id : j # x => rows'[j] = rows[j]
      BY <1>3, <2>2, <3>1, RowDeleted
    <3>4. Live(rows) \subseteq Id
      BY <1>3, LiveRows
    <3>5. QED
      BY <1>3, <2>2, <3>2, <3>3, <3>4, StoredLessRow
  <2>3. QED
    BY <1>2, <2>1, <2>2
<1>9. QED
  BY <1>1, <1>2, <1>7, <1>8 DEF TableInv

\* A new row for a document that stores no link.
LEMMA FreshRowStored ==
  ASSUME TypeOK, RowInv, NEW D \in [Name -> Doc \cup {None, Gone}],
         Stored(D, rows, lastId), NEW n \in Name, lastId + 1 \in Id,
         n \in Live(D) => D[n].pid = None, \A j \in Live(rows) : rows[j].born # n,
         NEW r \in Row, r.fid = n, r.born = n
  PROVE  /\ Stored(D, Put(rows, lastId + 1, r), lastId + 1)
         /\ n \in Live(D) =>
              Stored(Link(D, n, lastId + 1), Put(rows, lastId + 1, r), lastId + 1)
<1> DEFINE k == lastId + 1
           R2 == Put(rows, k, r)
<1>1. rows \in [Id -> Row \cup {None, Gone}] /\ lastId \in 0..MaxId
  BY DEF TypeOK
<1>2. /\ Live(rows) \subseteq Id /\ Live(D) \subseteq Name
      /\ \A m \in Live(D) : D[m].born \in Id \cup {None}
  BY <1>1, LiveRows, LiveDocs DEF Doc
<1>3. Stored(D, R2, k)
  <2>1. \A m \in Live(D) : r.born = m => D[m].pid \notin Live(rows)
    BY <1>2
  <2>2. \A m \in Live(D) :
          r.fid = m => D[m].pid \notin Live(rows) \/ rows[D[m].pid].fid # None
    BY <1>2
  <2>3. QED
    BY <1>1, <2>1, <2>2, StoredNewRow
<1>4. k \in 0..MaxId /\ k <= k
  BY <1>1 DEF Id
<1>5. /\ R2 \in [Id -> Row \cup {None, Gone}] /\ Live(R2) = Live(rows) \cup {k}
      /\ R2[k] = r /\ \A j \in Id : j # k => R2[j] = rows[j]
  <2> HIDE DEF k
  <2>1. k \in Id
    BY DEF k
  <2>2. QED
    BY <1>1, <2>1, RowInserted
<1>6. ASSUME n \in Live(D) PROVE D[n].born \in {None, k} \/ D[n].born \notin Live(R2)
  <2>1. D[n].born = None \/ D[n].born \notin Live(rows)
    BY <1>6 DEF Stored, BornDocs
  <2>2. QED
    BY <1>5, <2>1
<1> HIDE DEF k, R2
<1>7. \A j \in Live(R2) : R2[j].born = n => j = k
  BY <1>2, <1>5
<1>8. ASSUME n \in Live(D) PROVE Stored(Link(D, n, k), R2, k)
  <2>1. k \in Id
    BY DEF k
  <2>2. QED
    BY <1>3, <1>4, <1>5, <1>6, <1>7, <1>8, <2>1, StoredLink
<1>9. QED
  BY <1>3, <1>8 DEF k, R2

LEMMA CreateRowTables ==
  ASSUME TableInv, WriteInv, NEW n \in Name, CreateRow(n)
  PROVE  TableInv'
<1>1. TypeInv' /\ TypeOK /\ RowInv /\ Behind /\ Older
  BY WriteType DEF TableInv, TypeInv
<1>2. /\ phase = "write" /\ pairs = {} /\ doomed = {} /\ n \in onlyDocs
      /\ onlyDocs' = onlyDocs \ {n}
      /\ UNCHANGED <<config, lost, changes, phase, full, opDocs, knownDocs, opRows,
                     knownRows, todo, conflicted, pairs, onlyRows, doomed>>
      /\ docs' \in [Name -> Doc \cup {None, Gone}]
      /\ rows' \in [Id -> Row \cup {None, Gone}] /\ lastId' \in 0..MaxId
      /\ saved' \in {saved, docs'} /\ faults' \in 0..MaxFaults
      /\ dirty' \in {dirty, TRUE}
      /\ \/ UNCHANGED <<docs, rows, lastId>> /\ dirty' = TRUE
         \/ /\ lastId + 1 \in Id /\ lastId' = lastId + 1
            /\ [fid |-> n, born |-> n] \in Row
            /\ rows' = [rows EXCEPT ![lastId + 1] = [fid |-> n, born |-> n]]
            /\ \/ docs' = docs
               \/ n \in Live(docs) /\ docs' = [docs EXCEPT ![n].pid = lastId + 1]
  BY <1>1, CreateRowEffect
<1>3. /\ docs \in [Name -> Doc \cup {None, Gone}] /\ saved \in [Name -> Doc \cup {None, Gone}]
      /\ rows \in [Id -> Row \cup {None, Gone}] /\ lastId \in 0..MaxId
      /\ Stored(docs, rows, lastId) /\ Stored(saved, rows, lastId)
  BY <1>1 DEF TypeOK, TableInv
<1>4. /\ docs[n] # None /\ \A j \in Live(rows) : rows[j].born # n
      /\ n \in Live(docs) => docs[n].pid = None
      /\ n \in Live(saved) => saved[n].pid = None
  BY <1>2 DEF WriteInv, OnlyDocsNew
<1>5. /\ \A m \in Name : docs'[m] = Gone => saved[m] # None
      /\ \A m \in Name : docs[m] # None <=> docs'[m] # None
      /\ \A m \in Live(docs') : docs'[m].pid = None => docs'[m] = docs[m]
  <2>1. CASE docs' = docs
    BY <1>1, <2>1 DEF Behind
  <2>2. CASE /\ n \in Live(docs) /\ lastId + 1 \in Id
             /\ docs' = [docs EXCEPT ![n].pid = lastId + 1]
    <3>1. docs' = Link(docs, n, lastId + 1)
      BY <2>2 DEF Link
    <3>2. QED
      BY <1>1, <2>2, <3>1, LinkedViews
  <2>3. QED
    BY <1>2, <2>1, <2>2
<1>6. /\ Behind' /\ Synced' /\ Older'
      /\ \A m \in Name : Used(m) => Used(m)'
  BY <1>1, <1>2, <1>5, WriteViews
<1>7. ASSUME Stored(docs', rows', lastId'), Stored(saved, rows', lastId'), RowInv'
      PROVE  TableInv'
  BY <1>1, <1>2, <1>6, <1>7 DEF TableInv
<1>8. CASE UNCHANGED <<docs, rows, lastId>>
  <2>1. RowInv'
    BY <1>1, <1>6, <1>8, RowInvSame
  <2>2. QED
    BY <1>3, <1>7, <1>8, <2>1
<1>9. CASE /\ lastId + 1 \in Id /\ lastId' = lastId + 1
           /\ [fid |-> n, born |-> n] \in Row
           /\ rows' = [rows EXCEPT ![lastId + 1] = [fid |-> n, born |-> n]]
           /\ \/ docs' = docs
              \/ n \in Live(docs) /\ docs' = [docs EXCEPT ![n].pid = lastId + 1]
  <2> DEFINE r == [fid |-> n, born |-> n]
  <2>1. r \in Row /\ r.fid = n /\ r.born = n
    BY <1>9
  <2>2. rows' = Put(rows, lastId + 1, r)
    BY <1>9 DEF Put
  <2> HIDE DEF r
  <2>3. \/ docs' = docs
        \/ n \in Live(docs) /\ docs' = Link(docs, n, lastId + 1)
    BY <1>9 DEF Link
  <2>4. Used(n)'
    BY <1>4, <1>6 DEF Used
  <2>5. RowInv'
    BY <1>1, <1>4, <1>6, <1>9, <2>1, <2>2, <2>4, RowInvInsert
  <2>6. ASSUME NEW D \in {docs, saved}
        PROVE  /\ Stored(D, Put(rows, lastId + 1, r), lastId + 1)
               /\ n \in Live(D) =>
                    Stored(Link(D, n, lastId + 1), Put(rows, lastId + 1, r), lastId + 1)
    <3>1. /\ D \in [Name -> Doc \cup {None, Gone}] /\ Stored(D, rows, lastId)
          /\ n \in Live(D) => D[n].pid = None
      BY <1>3, <1>4
    <3>2. QED
      BY <1>1, <1>4, <1>9, <2>1, <3>1, FreshRowStored
  <2>7. Stored(docs', rows', lastId') /\ Stored(saved, rows', lastId')
    BY <1>9, <2>2, <2>3, <2>6
  <2>8. QED
    BY <1>7, <2>5, <2>7
<1>10. QED
  BY <1>2, <1>8, <1>9

LEMMA CreateDocTables ==
  ASSUME TableInv, NewNames, WriteInv, NEW i \in Id, CreateDoc(i)
  PROVE  TableInv'
<1>1. TypeInv' /\ TypeOK /\ RowInv /\ Behind /\ Older
  BY WriteType DEF TableInv, TypeInv
<1>2. /\ phase = "write" /\ pairs = {} /\ doomed = {} /\ onlyDocs = {}
      /\ i \in onlyRows /\ onlyRows' = onlyRows \ {i}
      /\ UNCHANGED <<config, lost, changes, phase, full, opDocs, knownDocs, opRows,
                     knownRows, todo, conflicted, pairs, onlyDocs, doomed>>
      /\ docs' \in [Name -> Doc \cup {None, Gone}]
      /\ rows' \in [Id -> Row \cup {None, Gone}] /\ lastId' \in 0..MaxId
      /\ saved' \in {saved, docs'} /\ faults' \in 0..MaxFaults
      /\ dirty' \in {dirty, TRUE}
      /\ \/ UNCHANGED <<docs, rows, lastId>> /\ dirty' = TRUE
         \/ \E n \in Name :
              /\ Unused(n) /\ [pid |-> i, born |-> i] \in Doc
              /\ docs' = [docs EXCEPT ![n] = [pid |-> i, born |-> i]]
              /\ \/ UNCHANGED <<rows, lastId>> /\ dirty' = TRUE
                 \/ /\ i \in Live(rows) /\ lastId' = lastId
                    /\ rows' = [rows EXCEPT ![i].fid = n]
                 \/ /\ i \notin Live(rows) /\ lastId + 1 \in Id
                    /\ lastId' = lastId + 1
                    /\ [fid |-> n, born |-> n] \in Row
                    /\ rows' = [rows EXCEPT ![lastId + 1] = [fid |-> n, born |-> n]]
  BY <1>1, CreateDocEffect
<1>3. /\ docs \in [Name -> Doc \cup {None, Gone}] /\ saved \in [Name -> Doc \cup {None, Gone}]
      /\ rows \in [Id -> Row \cup {None, Gone}] /\ lastId \in 0..MaxId
      /\ Stored(docs, rows, lastId) /\ Stored(saved, rows, lastId)
  BY <1>1 DEF TypeOK, TableInv
<1>4. /\ rows[i] # None /\ \A m \in Live(docs) : docs[m].born # i
      /\ i \in Live(rows) => rows[i].born = None /\ (rows[i].fid = None \/ Deleted(rows[i].fid))
  BY <1>2 DEF WriteInv, OnlyRowsNew
<1>5. CASE UNCHANGED <<docs, rows, lastId>>
  <2>1. /\ Behind' /\ Synced' /\ Older'
        /\ \A m \in Name : Used(m) => Used(m)'
    BY <1>1, <1>2, <1>5, WriteViews DEF Behind
  <2>2. RowInv'
    BY <1>1, <1>5, <2>1, RowInvSame
  <2>3. QED
    BY <1>1, <1>2, <1>3, <1>5, <2>1, <2>2 DEF TableInv
<1>6. ASSUME NEW n \in Name, Unused(n), [pid |-> i, born |-> i] \in Doc,
             docs' = [docs EXCEPT ![n] = [pid |-> i, born |-> i]],
             \/ UNCHANGED <<rows, lastId>>
             \/ /\ i \in Live(rows) /\ lastId' = lastId
                /\ rows' = [rows EXCEPT ![i].fid = n]
             \/ /\ i \notin Live(rows) /\ lastId + 1 \in Id /\ lastId' = lastId + 1
                /\ [fid |-> n, born |-> n] \in Row
                /\ rows' = [rows EXCEPT ![lastId + 1] = [fid |-> n, born |-> n]]
      PROVE  TableInv'
  <2> DEFINE d == [pid |-> i, born |-> i]
             r == [fid |-> n, born |-> n]
  <2>1. d \in Doc /\ d.pid = i /\ d.born = i /\ docs' = Put(docs, n, d)
    BY <1>6 DEF Put
  <2>2. r \in Row /\ r.fid = n /\ r.born = n
    BY DEF Row
  <2>3. \/ UNCHANGED <<rows, lastId>>
        \/ i \in Live(rows) /\ lastId' = lastId /\ rows' = Rename(rows, i, n)
        \/ /\ i \notin Live(rows) /\ lastId + 1 \in Id /\ lastId' = lastId + 1
           /\ rows' = Put(rows, lastId + 1, r)
    BY <1>6 DEF Rename, Put
  <2> HIDE DEF d, r
  <2>4. /\ n \notin Live(docs) /\ n \notin Live(saved) /\ docs[n] = None
        /\ \A j \in Live(rows) : rows[j].born # n /\ rows[j].fid # n
    BY <1>1, <1>6, UnusedFree
  <2>5. /\ docs' \in [Name -> Doc \cup {None, Gone}] /\ Live(docs') = Live(docs) \cup {n}
        /\ docs'[n] = d /\ \A m \in Name : m # n => docs'[m] = docs[m]
    BY <1>3, <2>1, DocInserted
  <2>6. i \in 0..MaxId /\ i <= lastId /\ i # None
    BY <1>1, <1>4 DEF RowInv, RowIds, Id
  <2>7. Stored(docs', rows, lastId)
    <3>1. \A m \in Live(docs) : m # None /\ ~Deleted(m)
      BY <1>3, LiveDocs DEF Deleted
    <3>2. i \in Live(rows) => rows[i].fid \notin Live(docs)
      BY <1>4, <3>1
    <3>3. Stored(Put(docs, n, d), rows, lastId)
      BY <1>3, <1>4, <2>1, <2>4, <2>6, <3>2, StoredNewDoc
    <3>4. QED
      BY <2>1, <3>3
  <2>8. /\ Behind' /\ Synced' /\ Older'
        /\ \A m \in Name : Used(m) => Used(m)'
    <3>1. /\ \A m \in Name : docs[m] # None => docs'[m] # None
          /\ \A m \in Name : docs'[m] = Gone => saved[m] # None
          /\ \A m \in Live(docs') : docs'[m].pid = None => docs'[m] = docs[m]
      BY <1>1, <1>3, <2>1, <2>4, <2>5, <2>6, LiveDocs DEF Behind
    <3>2. pairs' = {} /\ doomed' = {} /\ onlyDocs' = {}
      BY <1>2
    <3>3. QED
      BY <1>1, <1>2, <3>1, <3>2, WriteViews
  <2>9. Used(n)'
    BY <2>1, <2>5 DEF Used
  <2>10. docs'[n].pid = i
    BY <2>1, <2>5
  <2>11. ASSUME Stored(docs', rows', lastId'), Stored(saved, rows', lastId'), RowInv'
         PROVE  TableInv'
    BY <1>1, <1>2, <2>8, <2>11 DEF TableInv
  <2>12. CASE UNCHANGED <<rows, lastId>>
    <3>1. RowInv'
      BY <1>1, <2>8, <2>12, RowInvSame
    <3>2. QED
      BY <1>3, <2>7, <2>11, <2>12, <3>1
  <2>13. CASE i \in Live(rows) /\ lastId' = lastId /\ rows' = Rename(rows, i, n)
    <3>1. RowInv'
      BY <1>1, <1>4, <2>8, <2>9, <2>13, RowInvRename
    <3>2. Stored(docs', Rename(rows, i, n), lastId)
      BY <1>3, <2>5, <2>6, <2>7, <2>10, <2>13, StoredRename
    <3>3. Stored(saved, Rename(rows, i, n), lastId)
      BY <1>3, <2>4, <2>13, StoredRename
    <3>4. QED
      BY <2>11, <2>13, <3>1, <3>2, <3>3
  <2>14. CASE /\ i \notin Live(rows) /\ lastId + 1 \in Id /\ lastId' = lastId + 1
              /\ rows' = Put(rows, lastId + 1, r)
    <3>1. RowInv'
      BY <1>1, <2>2, <2>4, <2>8, <2>9, <2>14, RowInvInsert
    <3>2. Stored(docs', Put(rows, lastId + 1, r), lastId + 1)
      <4>1. \A m \in Live(docs') : r.born = m => docs'[m].pid \notin Live(rows)
        BY <2>2, <2>10, <2>14
      <4>2. \A m \in Live(docs') :
              r.fid = m => docs'[m].pid \notin Live(rows) \/ rows[docs'[m].pid].fid # None
        BY <2>2, <2>10, <2>14
      <4>3. QED
        BY <1>3, <2>2, <2>5, <2>7, <2>14, <4>1, <4>2, StoredNewRow
    <3>3. Stored(saved, Put(rows, lastId + 1, r), lastId + 1)
      <4>1. \A m \in Live(saved) : r.born # m /\ r.fid # m
        BY <2>2, <2>4
      <4>2. QED
        BY <1>3, <2>2, <2>14, <4>1, StoredNewRow
    <3>4. QED
      BY <2>11, <2>14, <3>1, <3>2, <3>3
  <2>15. QED
    BY <2>3, <2>12, <2>13, <2>14
<1>7. QED
  BY <1>2, <1>5, <1>6

-----------------------------------------------------------------------------
(* The writes and what is left to write *)

\* What the writes of a pair leave alone.
LEMMA SyncPairLeaves ==
  ASSUME TableInv, WriteInv, NEW p \in pairs, SyncPair(p)
  PROVE  /\ phase = "write" /\ phase' = "write" /\ pairs' = pairs \ {p}
         /\ UNCHANGED <<onlyDocs, onlyRows>> /\ saved' \in {saved, docs'}
         /\ p.doc \in Name /\ p.row \in Id /\ doomed' \subseteq doomed \cup {p.doc}
         /\ Live(docs') = Live(docs)
         /\ \A m \in Name : docs[m] # None <=> docs'[m] # None
         /\ \A m \in Name : m # p.doc => docs'[m] = docs[m]
         /\ \A m \in Live(docs) : docs'[m].born = docs[m].born
         /\ \A j \in Id : rows[j] # None => rows'[j] # None
         /\ \A j \in Id : j # p.row /\ rows[j] # None => rows'[j] = rows[j]
         /\ p.row \in Live(rows') =>
              p.row \in Live(rows) /\ rows'[p.row].fid \in {rows[p.row].fid, p.doc}
         /\ \A j \in Live(rows') : \/ j \in Live(rows) /\ rows'[j].born = rows[j].born
                                   \/ rows[j] = None /\ rows'[j].born = p.doc
<1>1. TypeOK /\ RowInv /\ Behind
  BY DEF TableInv, TypeInv
<1>2. /\ phase = "write" /\ pairs' = pairs \ {p}
      /\ UNCHANGED <<config, lost, changes, phase, full, opDocs, knownDocs, opRows,
                     knownRows, todo, conflicted, onlyDocs, onlyRows>>
      /\ docs' \in [Name -> Doc \cup {None, Gone}]
      /\ rows' \in [Id -> Row \cup {None, Gone}] /\ lastId' \in 0..MaxId
      /\ saved' \in {saved, docs'} /\ faults' \in 0..MaxFaults
      /\ dirty' \in {dirty, TRUE}
      /\ p \in Pair /\ doomed' \in {doomed, doomed \cup {p.doc}}
      /\ \/ /\ UNCHANGED <<docs, rows, lastId, doomed>>
            /\ dirty' = TRUE \/ (p.pid = p.row /\ p.fid = p.doc)
         \/ /\ p.row \in Live(rows) /\ UNCHANGED <<lastId, doomed>>
            /\ rows' = [rows EXCEPT ![p.row].fid = p.doc]
            /\ \/ docs' = docs
               \/ p.doc \in Live(docs) /\ docs' = [docs EXCEPT ![p.doc].pid = p.row]
         \/ /\ p.row \notin Live(rows) /\ lastId + 1 \in Id /\ lastId' = lastId + 1
            /\ [fid |-> p.doc, born |-> p.doc] \in Row
            /\ rows' = [rows EXCEPT ![lastId + 1] = [fid |-> p.doc, born |-> p.doc]]
            /\ \/ docs' = docs /\ doomed' = doomed
               \/ /\ p.doc \in Live(docs) /\ doomed' = doomed
                  /\ docs' = [docs EXCEPT ![p.doc].pid = p.row]
               \/ /\ p.doc \in Live(docs) /\ doomed' \in {doomed, doomed \cup {p.doc}}
                  /\ docs' = [docs EXCEPT ![p.doc].pid = lastId + 1]
         \/ /\ p.doc \in Live(docs) /\ UNCHANGED <<rows, lastId, doomed>>
            /\ docs' = [docs EXCEPT ![p.doc].pid = p.row]
  BY <1>1, SyncPairEffect
<1>3. p.doc \in Name /\ p.row \in Id /\ rows[p.row] # None
  BY <1>2 DEF WriteInv, PairsAlive, Pair
<1>4. rows \in [Id -> Row \cup {None, Gone}] /\ lastId \in 0..MaxId
  BY <1>1 DEF TypeOK
<1>5. /\ Live(docs') = Live(docs)
      /\ \A m \in Name : docs[m] # None <=> docs'[m] # None
      /\ \A m \in Name : m # p.doc => docs'[m] = docs[m]
      /\ \A m \in Live(docs) : docs'[m].born = docs[m].born
  <2>1. ASSUME NEW i \in Id, p.doc \in Live(docs), docs' = [docs EXCEPT ![p.doc].pid = i]
        PROVE  /\ Live(docs') = Live(docs)
               /\ \A m \in Name : docs[m] # None <=> docs'[m] # None
               /\ \A m \in Name : m # p.doc => docs'[m] = docs[m]
               /\ \A m \in Live(docs) : docs'[m].born = docs[m].born
    <3>1. docs' = Link(docs, p.doc, i)
      BY <2>1 DEF Link
    <3>2. QED
      BY <1>1, <2>1, <3>1, LinkedViews
  <2>2. QED
    BY <1>2, <1>3, <2>1
<1> DEFINE Rows ==
      /\ \A j \in Id : rows[j] # None => rows'[j] # None
      /\ \A j \in Id : j # p.row /\ rows[j] # None => rows'[j] = rows[j]
      /\ p.row \in Live(rows') =>
           p.row \in Live(rows) /\ rows'[p.row].fid \in {rows[p.row].fid, p.doc}
      /\ \A j \in Live(rows') : \/ j \in Live(rows) /\ rows'[j].born = rows[j].born
                                \/ rows[j] = None /\ rows'[j].born = p.doc
<1>6. CASE rows' = rows
  <2>1. Rows
    BY <1>6
  <2>2. QED
    BY <1>2, <1>3, <1>5, <2>1
<1>7. CASE p.row \in Live(rows) /\ rows' = [rows EXCEPT ![p.row].fid = p.doc]
  <2>1. rows' = Rename(rows, p.row, p.doc)
    BY <1>7 DEF Rename
  <2>0. p.row \in Live(rows)
    BY <1>7
  <2>2. /\ rows' \in [Id -> Row \cup {None, Gone}] /\ Live(rows') = Live(rows)
        /\ \A j \in Id : j # p.row => rows'[j] = rows[j]
        /\ \A j \in Live(rows) : /\ rows'[j].born = rows[j].born
                                 /\ rows'[j].fid = IF j = p.row THEN p.doc ELSE rows[j].fid
    BY <1>3, <1>4, <2>0, <2>1, RowRenamed
  <2>3. rows'[p.row] # None
    BY <2>0, <2>2 DEF Live
  <2>4. Rows
    BY <2>2, <2>3
  <2>5. QED
    BY <1>2, <1>3, <1>5, <2>4
<1>8. CASE /\ p.row \notin Live(rows) /\ lastId + 1 \in Id
           /\ rows' = [rows EXCEPT ![lastId + 1] = [fid |-> p.doc, born |-> p.doc]]
  <2> DEFINE k == lastId + 1
             r == [fid |-> p.doc, born |-> p.doc]
  <2>1. r \in Row /\ r.born = p.doc /\ k \in Id /\ rows' = Put(rows, k, r)
    BY <1>3, <1>8 DEF Row, Put
  <2>2. ~(k <= lastId)
    BY <1>4
  <2> HIDE DEF k, r
  <2>3. rows[k] = None
    BY <1>1, <2>1, <2>2 DEF RowInv, RowIds
  <2>4. /\ rows' \in [Id -> Row \cup {None, Gone}] /\ Live(rows') = Live(rows) \cup {k}
        /\ rows'[k] = r /\ \A j \in Id : j # k => rows'[j] = rows[j]
    BY <1>4, <2>1, RowInserted
  <2>5. Live(rows) \subseteq Id /\ k \notin Live(rows)
    BY <1>4, <2>3, LiveRows
  <2>6. Rows
    BY <1>3, <1>8, <2>1, <2>3, <2>4, <2>5
  <2>7. QED
    BY <1>2, <1>3, <1>5, <2>6
<1>9. QED
  BY <1>2, <1>6, <1>7, <1>8

LEMMA SyncPairWrites ==
  ASSUME TableInv, WriteInv, NEW p \in pairs, SyncPair(p)
  PROVE  WriteInv'
<1>1. TypeOK /\ RowInv /\ TypeOK'
  BY SyncPairTables DEF TableInv, TypeInv
<1>2. /\ phase = "write" /\ phase' = "write" /\ pairs' = pairs \ {p}
      /\ UNCHANGED <<onlyDocs, onlyRows>> /\ saved' \in {saved, docs'}
      /\ p.doc \in Name /\ p.row \in Id /\ doomed' \subseteq doomed \cup {p.doc}
      /\ Live(docs') = Live(docs)
      /\ \A m \in Name : docs[m] # None <=> docs'[m] # None
      /\ \A m \in Name : m # p.doc => docs'[m] = docs[m]
      /\ \A m \in Live(docs) : docs'[m].born = docs[m].born
      /\ \A j \in Id : rows[j] # None => rows'[j] # None
      /\ \A j \in Id : j # p.row /\ rows[j] # None => rows'[j] = rows[j]
      /\ p.row \in Live(rows') =>
           p.row \in Live(rows) /\ rows'[p.row].fid \in {rows[p.row].fid, p.doc}
      /\ \A j \in Live(rows') : \/ j \in Live(rows) /\ rows'[j].born = rows[j].born
                                \/ rows[j] = None /\ rows'[j].born = p.doc
  BY SyncPairLeaves
<1>3. /\ docs \in [Name -> Doc \cup {None, Gone}] /\ saved \in [Name -> Doc \cup {None, Gone}]
      /\ rows \in [Id -> Row \cup {None, Gone}]
      /\ docs' \in [Name -> Doc \cup {None, Gone}] /\ saved' \in [Name -> Doc \cup {None, Gone}]
      /\ rows' \in [Id -> Row \cup {None, Gone}]
      /\ onlyDocs \subseteq Name /\ onlyRows \subseteq Id
  BY <1>1 DEF TypeOK
<1>4. /\ Live(docs) = {n \in Name : docs[n] \in Doc} /\ Live(docs') = {n \in Name : docs'[n] \in Doc}
      /\ Live(saved) = {n \in Name : saved[n] \in Doc}
      /\ Live(saved') = {n \in Name : saved'[n] \in Doc}
      /\ Live(rows) = {j \in Id : rows[j] \in Row} /\ Live(rows') = {j \in Id : rows'[j] \in Row}
  BY <1>3, LiveDocs, LiveRows
<1>5. OnlyDocsNew /\ PairsAlive /\ OnlyRowsNew /\ DoomedKnown
  BY <1>2 DEF WriteInv
<1>6. OnlyDocsNew'
  <2> SUFFICES ASSUME NEW n \in onlyDocs
               PROVE  /\ docs'[n] # None
                      /\ n \in Live(docs') => docs'[n].pid = None
                      /\ n \in Live(saved') => saved'[n].pid = None
                      /\ \A j \in Live(rows') : rows'[j].born # n
                      /\ \A q \in pairs' : q.doc # n
    BY <1>2 DEF OnlyDocsNew
  <2>1. n \in Name /\ n # p.doc
    BY <1>3, <1>5 DEF OnlyDocsNew
  <2>2. docs'[n] = docs[n] /\ saved'[n] \in {saved[n], docs[n]}
    BY <1>2, <2>1
  <2>3. QED
    BY <1>2, <1>4, <1>5, <2>1, <2>2 DEF OnlyDocsNew
<1>7. PairsAlive'
  <2> SUFFICES ASSUME NEW q \in pairs \ {p}
               PROVE  /\ docs'[q.doc] # None /\ rows'[q.row] # None
                      /\ AsRead(q, docs)' /\ AsRead(q, saved)'
                      /\ \A s \in pairs' \ {q} : s.doc # q.doc /\ s.row # q.row
    BY <1>2 DEF PairsAlive
  <2>1. q \in Pair /\ q.doc \in Name /\ q.row \in Id /\ q.doc # p.doc /\ q.row # p.row
    BY <1>1, <1>5 DEF TypeOK, Pair, PairsAlive
  <2>2. /\ docs[q.doc] # None /\ rows[q.row] # None
        /\ AsRead(q, docs) /\ AsRead(q, saved)
        /\ \A s \in pairs \ {q} : s.doc # q.doc /\ s.row # q.row
    BY <1>5 DEF PairsAlive
  <2>3. docs'[q.doc] = docs[q.doc] /\ saved'[q.doc] \in {saved[q.doc], docs[q.doc]}
    BY <1>2, <2>1
  <2>4. rows'[q.row] = rows[q.row]
    BY <1>2, <2>1, <2>2
  <2>5. \A j \in Live(rows') : rows'[j].born = q.doc => j = q.row
    BY <1>2, <2>1, <2>2 DEF AsRead
  <2>6. q.row \in Live(rows') => rows'[q.row].fid = q.fid
    BY <1>4, <2>1, <2>2, <2>4 DEF AsRead
  <2>7. AsRead(q, docs)'
    BY <1>4, <2>1, <2>2, <2>3, <2>5, <2>6 DEF AsRead
  <2>8. AsRead(q, saved)'
    BY <1>4, <2>1, <2>2, <2>3, <2>5, <2>6 DEF AsRead
  <2>9. QED
    BY <1>2, <2>2, <2>3, <2>4, <2>7, <2>8
<1>8. OnlyRowsNew'
  <2> DEFINE Del(m) == docs'[m] = Gone /\ saved'[m] = Gone
  <2> SUFFICES ASSUME NEW i \in onlyRows
               PROVE  /\ rows'[i] # None
                      /\ \A m \in Live(docs') : docs'[m].born # i
                      /\ \A m \in Live(saved') : saved'[m].born # i
                      /\ i \in Live(rows') =>
                           /\ rows'[i].born = None
                           /\ rows'[i].fid = None \/ Del(rows'[i].fid)
                      /\ \A q \in pairs' : q.row = i => Del(q.doc)
    BY <1>2 DEF OnlyRowsNew, Deleted
  <2>1. /\ rows[i] # None /\ i \in Id
        /\ \A m \in Live(docs) : docs[m].born # i
        /\ \A m \in Live(saved) : saved[m].born # i
        /\ i \in Live(rows) =>
             rows[i].born = None /\ (rows[i].fid = None \/ Deleted(rows[i].fid))
        /\ \A q \in pairs : q.row = i => Deleted(q.doc)
    BY <1>3, <1>5 DEF OnlyRowsNew
  <2>2. rows'[i] # None /\ \A m \in Live(docs') : docs'[m].born # i
    BY <1>2, <2>1
  <2>3. \A m \in Live(saved') : saved'[m].born # i
    BY <1>2, <2>1, <2>2
  <2>4. \A m \in Name : Deleted(m) => Del(m)
    <3> SUFFICES ASSUME NEW m \in Name, Deleted(m) PROVE Del(m)
      OBVIOUS
    <3>1. docs'[m] = Gone
      BY <1>2, <1>3, <1>4 DEF Deleted
    <3>2. QED
      BY <1>2, <3>1 DEF Deleted
  <2> HIDE DEF Del
  <2>5. \A q \in pairs' : q.row = i => Del(q.doc)
    BY <1>1, <1>2, <2>1, <2>4 DEF TypeOK, Pair
  <2>6. ASSUME i \in Live(rows')
        PROVE  rows'[i].born = None /\ (rows'[i].fid = None \/ Del(rows'[i].fid))
    <3>1. i \in Live(rows) /\ rows'[i].born = rows[i].born
      BY <1>2, <2>1, <2>6
    <3>2. CASE i = p.row
      <4>1. Del(p.doc)
        BY <1>2, <2>1, <2>4, <3>2
      <4>2. rows[i].fid \in Name \cup {None}
        BY <1>4, <3>1 DEF Row
      <4>3. QED
        BY <1>2, <2>1, <2>4, <2>6, <3>1, <3>2, <4>1, <4>2
    <3>3. CASE i # p.row
      <4>1. rows'[i] = rows[i]
        BY <1>2, <2>1, <3>3
      <4>2. rows[i].fid \in Name \cup {None}
        BY <1>4, <3>1 DEF Row
      <4>3. QED
        BY <2>1, <2>4, <3>1, <4>1, <4>2
    <3>4. QED
      BY <3>2, <3>3
  <2>7. QED
    BY <2>2, <2>3, <2>5, <2>6
<1>9. DoomedKnown'
  BY <1>2, <1>5 DEF DoomedKnown, WriteInv, PairsAlive
<1>10. QED
  BY <1>6, <1>7, <1>8, <1>9 DEF WriteInv

\* A change keeps what is left to write if it leaves alone, or deletes, the records
\* that are still to be written, and inserts nothing for them.
WriteKeeps ==
  LET N == onlyDocs' \cup {p.doc : p \in pairs'}
      I == onlyRows' \cup {p.row : p \in pairs'}
  IN /\ pairs' \subseteq pairs /\ onlyDocs' \subseteq onlyDocs
     /\ onlyRows' \subseteq onlyRows /\ doomed' \subseteq doomed
     /\ \A m \in Name : docs[m] # None => docs'[m] # None
     /\ \A m \in Name : Deleted(m) => docs'[m] = Gone /\ saved'[m] = Gone
     /\ \A m \in N : docs[m] # None =>
          docs'[m] \in {docs[m], Gone} /\ saved'[m] \in {saved[m], docs[m], Gone}
     /\ \A m \in Live(docs') : \/ m \in Live(docs) /\ docs'[m].born = docs[m].born
                               \/ docs'[m].born \notin onlyRows'
     /\ \A m \in Live(saved') : \/ m \in Live(saved) /\ saved'[m].born = saved[m].born
                                \/ m \in Live(docs) /\ saved'[m].born = docs[m].born
                                \/ saved'[m].born \notin onlyRows'
     /\ \A j \in Id : rows[j] # None => rows'[j] # None
     /\ \A j \in I : rows[j] # None => rows'[j] \in {rows[j], Gone}
     /\ \A j \in Live(rows') : \/ j \in Live(rows) /\ rows'[j].born = rows[j].born
                               \/ rows'[j].born \notin N

LEMMA WritesKept ==
  ASSUME TypeOK, TypeOK', WriteInv, phase = "write" \/ phase' # "write",
         phase = "write" => WriteKeeps
  PROVE  WriteInv'
<1> SUFFICES ASSUME phase' = "write", phase = "write"
             PROVE  (OnlyDocsNew /\ PairsAlive /\ OnlyRowsNew /\ DoomedKnown)'
  BY DEF WriteInv
<1> DEFINE N == onlyDocs' \cup {p.doc : p \in pairs'}
           I == onlyRows' \cup {p.row : p \in pairs'}
<1>1. /\ pairs' \subseteq pairs /\ onlyDocs' \subseteq onlyDocs
      /\ onlyRows' \subseteq onlyRows /\ doomed' \subseteq doomed
      /\ \A m \in Name : docs[m] # None => docs'[m] # None
      /\ \A m \in Name : Deleted(m) => docs'[m] = Gone /\ saved'[m] = Gone
      /\ \A m \in N : docs[m] # None =>
           docs'[m] \in {docs[m], Gone} /\ saved'[m] \in {saved[m], docs[m], Gone}
      /\ \A m \in Live(docs') : \/ m \in Live(docs) /\ docs'[m].born = docs[m].born
                                \/ docs'[m].born \notin onlyRows'
      /\ \A m \in Live(saved') : \/ m \in Live(saved) /\ saved'[m].born = saved[m].born
                                 \/ m \in Live(docs) /\ saved'[m].born = docs[m].born
                                 \/ saved'[m].born \notin onlyRows'
      /\ \A j \in Id : rows[j] # None => rows'[j] # None
      /\ \A j \in I : rows[j] # None => rows'[j] \in {rows[j], Gone}
      /\ \A j \in Live(rows') : \/ j \in Live(rows) /\ rows'[j].born = rows[j].born
                                \/ rows'[j].born \notin N
  BY DEF WriteKeeps
<1>2. \A p \in pairs' : p.doc \in N /\ p.row \in I
  OBVIOUS
<1>3. /\ \A n \in onlyDocs' : n \in N
      /\ \A i \in onlyRows' : i \in I
  OBVIOUS
<1> HIDE DEF N, I
<1>4. /\ docs \in [Name -> Doc \cup {None, Gone}] /\ saved \in [Name -> Doc \cup {None, Gone}]
      /\ rows \in [Id -> Row \cup {None, Gone}]
      /\ docs' \in [Name -> Doc \cup {None, Gone}] /\ saved' \in [Name -> Doc \cup {None, Gone}]
      /\ rows' \in [Id -> Row \cup {None, Gone}]
      /\ onlyDocs \subseteq Name /\ onlyRows \subseteq Id
      /\ \A p \in pairs : p.doc \in Name /\ p.row \in Id
  BY DEF TypeOK, Pair
<1>5. /\ Live(docs) = {n \in Name : docs[n] \in Doc} /\ Live(docs') = {n \in Name : docs'[n] \in Doc}
      /\ Live(saved) = {n \in Name : saved[n] \in Doc}
      /\ Live(saved') = {n \in Name : saved'[n] \in Doc}
      /\ Live(rows) = {j \in Id : rows[j] \in Row} /\ Live(rows') = {j \in Id : rows'[j] \in Row}
  BY <1>4, LiveDocs, LiveRows
<1>6. OnlyDocsNew /\ PairsAlive /\ OnlyRowsNew /\ DoomedKnown
  BY DEF WriteInv
<1>7. OnlyDocsNew'
  <2> SUFFICES ASSUME NEW n \in onlyDocs'
               PROVE  /\ docs'[n] # None
                      /\ n \in Live(docs') => docs'[n].pid = None
                      /\ n \in Live(saved') => saved'[n].pid = None
                      /\ \A j \in Live(rows') : rows'[j].born # n
                      /\ \A p \in pairs' : p.doc # n
    BY DEF OnlyDocsNew
  <2>1. /\ n \in Name /\ n \in N /\ docs[n] # None
        /\ n \in Live(docs) => docs[n].pid = None
        /\ n \in Live(saved) => saved[n].pid = None
        /\ \A j \in Live(rows) : rows[j].born # n
        /\ \A p \in pairs : p.doc # n
    BY <1>1, <1>3, <1>4, <1>6 DEF OnlyDocsNew
  <2>2. docs'[n] # None /\ \A p \in pairs' : p.doc # n
    BY <1>1, <2>1
  <2>3. docs'[n] \in {docs[n], Gone} /\ saved'[n] \in {saved[n], docs[n], Gone}
    BY <1>1, <2>1
  <2>4. /\ n \in Live(docs') => docs'[n].pid = None
        /\ n \in Live(saved') => saved'[n].pid = None
    BY <1>5, <2>1, <2>3
  <2>5. \A j \in Live(rows') : rows'[j].born # n
    BY <1>1, <2>1
  <2>6. QED
    BY <2>2, <2>4, <2>5
<1>8. PairsAlive'
  <2> SUFFICES ASSUME NEW p \in pairs'
               PROVE  /\ docs'[p.doc] # None /\ rows'[p.row] # None
                      /\ AsRead(p, docs)' /\ AsRead(p, saved)'
                      /\ \A q \in pairs' \ {p} : q.doc # p.doc /\ q.row # p.row
    BY DEF PairsAlive
  <2>1. /\ p \in pairs /\ p.doc \in Name /\ p.row \in Id /\ p.doc \in N /\ p.row \in I
        /\ docs[p.doc] # None /\ rows[p.row] # None
        /\ AsRead(p, docs) /\ AsRead(p, saved)
        /\ \A q \in pairs \ {p} : q.doc # p.doc /\ q.row # p.row
    BY <1>1, <1>2, <1>4, <1>6 DEF PairsAlive
  <2>2. docs'[p.doc] \in {docs[p.doc], Gone} /\ saved'[p.doc] \in {saved[p.doc], docs[p.doc], Gone}
    BY <1>1, <2>1
  <2>3. rows'[p.row] \in {rows[p.row], Gone}
    BY <1>1, <2>1
  <2>4. \A j \in Live(rows') : rows'[j].born = p.doc => j = p.row
    BY <1>1, <2>1 DEF AsRead
  <2>5. p.row \in Live(rows') => rows'[p.row].fid = p.fid
    BY <1>5, <2>1, <2>3 DEF AsRead
  <2>6. AsRead(p, docs)'
    BY <1>5, <2>1, <2>2, <2>4, <2>5 DEF AsRead
  <2>7. AsRead(p, saved)'
    BY <1>5, <2>1, <2>2, <2>4, <2>5 DEF AsRead
  <2>8. QED
    BY <1>1, <2>1, <2>6, <2>7
<1>9. OnlyRowsNew'
  <2> DEFINE Del(m) == docs'[m] = Gone /\ saved'[m] = Gone
  <2> SUFFICES ASSUME NEW i \in onlyRows'
               PROVE  /\ rows'[i] # None
                      /\ \A m \in Live(docs') : docs'[m].born # i
                      /\ \A m \in Live(saved') : saved'[m].born # i
                      /\ i \in Live(rows') =>
                           rows'[i].born = None /\ (rows'[i].fid = None \/ Del(rows'[i].fid))
                      /\ \A p \in pairs' : p.row = i => Del(p.doc)
    BY DEF OnlyRowsNew, Deleted
  <2>1. /\ rows[i] # None /\ i \in Id /\ i \in I
        /\ \A m \in Live(docs) : docs[m].born # i
        /\ \A m \in Live(saved) : saved[m].born # i
        /\ i \in Live(rows) =>
             rows[i].born = None /\ (rows[i].fid = None \/ Deleted(rows[i].fid))
        /\ \A p \in pairs : p.row = i => Deleted(p.doc)
    BY <1>1, <1>3, <1>4, <1>6 DEF OnlyRowsNew
  <2>2. \A m \in Name : Deleted(m) => Del(m)
    BY <1>1
  <2> HIDE DEF Del
  <2>3. \A m \in Live(docs') : docs'[m].born # i
    BY <1>1, <2>1
  <2>4. \A m \in Live(saved') : saved'[m].born # i
    BY <1>1, <2>1
  <2>5. \A p \in pairs' : p.row = i => Del(p.doc)
    BY <1>1, <1>4, <2>1, <2>2
  <2>6. rows'[i] # None /\ rows'[i] \in {rows[i], Gone}
    BY <1>1, <2>1
  <2>7. ASSUME i \in Live(rows')
        PROVE  rows'[i].born = None /\ (rows'[i].fid = None \/ Del(rows'[i].fid))
    <3>1. i \in Live(rows) /\ rows'[i] = rows[i] /\ rows[i].fid \in Name \cup {None}
      BY <1>5, <2>1, <2>6, <2>7 DEF Row
    <3>2. QED
      BY <2>1, <2>2, <3>1
  <2>8. QED
    BY <2>3, <2>4, <2>5, <2>6, <2>7
<1>10. DoomedKnown'
  BY <1>1, <1>6 DEF DoomedKnown
<1>11. QED
  BY <1>7, <1>8, <1>9, <1>10

LEMMA DeleteOrphanWrites ==
  ASSUME TableInv, WriteInv, NEW x \in doomed, DeleteOrphan(x)
  PROVE  WriteInv'
<1>1. TypeOK /\ TypeOK'
  BY DeleteOrphanTables DEF TableInv, TypeInv
<1>2. /\ phase = "write" /\ pairs = {} /\ doomed' = doomed \ {x}
      /\ UNCHANGED <<config, lost, changes, phase, full, opDocs, knownDocs, opRows,
                     knownRows, todo, conflicted, pairs, onlyDocs, onlyRows, lastId>>
      /\ docs' \in [Name -> Doc \cup {None, Gone}]
      /\ rows' \in [Id -> Row \cup {None, Gone}]
      /\ saved' \in {saved, docs'} /\ faults' \in 0..MaxFaults
      /\ \/ UNCHANGED <<docs, rows>> /\ dirty' = TRUE
         \/ /\ x \in Name /\ docs' = [docs EXCEPT ![x] = Gone]
            /\ UNCHANGED <<rows, dirty>>
         \/ /\ x \in Id /\ rows' = [rows EXCEPT ![x] = Gone]
            /\ UNCHANGED <<docs, dirty>>
  BY <1>1, DeleteOrphanEffect
<1>3. /\ docs \in [Name -> Doc \cup {None, Gone}] /\ saved \in [Name -> Doc \cup {None, Gone}]
      /\ rows \in [Id -> Row \cup {None, Gone}]
      /\ saved' \in [Name -> Doc \cup {None, Gone}]
      /\ onlyDocs \subseteq Name /\ onlyRows \subseteq Id
  BY <1>1 DEF TypeOK
<1>4. \A m \in Name : docs'[m] \in {docs[m], Gone} /\ (docs[m] # None => docs'[m] # None)
  BY <1>2, <1>3 DEF WriteInv, DoomedKnown
<1>5. \A j \in Id : rows'[j] \in {rows[j], Gone} /\ (rows[j] # None => rows'[j] # None)
  BY <1>2, <1>3
<1>6. /\ Live(docs') \subseteq Live(docs) /\ \A m \in Live(docs') : docs'[m] = docs[m]
      /\ Live(rows') \subseteq Live(rows) /\ \A j \in Live(rows') : rows'[j] = rows[j]
  BY <1>2, <1>3, <1>4, <1>5, LiveDocs, LiveRows
<1>7. \A m \in Live(saved') : \/ m \in Live(saved) /\ saved'[m].born = saved[m].born
                              \/ m \in Live(docs) /\ saved'[m].born = docs[m].born
  BY <1>2, <1>6
<1>8. \A m \in Name : Deleted(m) => docs'[m] = Gone /\ saved'[m] = Gone
  BY <1>2, <1>4 DEF Deleted
<1>9. WriteKeeps
  BY <1>2, <1>3, <1>4, <1>5, <1>6, <1>7, <1>8 DEF WriteKeeps
<1>10. QED
  BY <1>1, <1>2, <1>9, WritesKept

LEMMA CreateRowWrites ==
  ASSUME TableInv, WriteInv, NEW n \in Name, CreateRow(n)
  PROVE  WriteInv'
<1>1. TypeOK /\ TypeOK' /\ RowInv /\ Behind
  BY CreateRowTables DEF TableInv, TypeInv
<1>2. /\ phase = "write" /\ pairs = {} /\ doomed = {} /\ n \in onlyDocs
      /\ onlyDocs' = onlyDocs \ {n}
      /\ UNCHANGED <<config, lost, changes, phase, full, opDocs, knownDocs, opRows,
                     knownRows, todo, conflicted, pairs, onlyRows, doomed>>
      /\ docs' \in [Name -> Doc \cup {None, Gone}]
      /\ rows' \in [Id -> Row \cup {None, Gone}] /\ lastId' \in 0..MaxId
      /\ saved' \in {saved, docs'} /\ faults' \in 0..MaxFaults
      /\ dirty' \in {dirty, TRUE}
      /\ \/ UNCHANGED <<docs, rows, lastId>> /\ dirty' = TRUE
         \/ /\ lastId + 1 \in Id /\ lastId' = lastId + 1
            /\ [fid |-> n, born |-> n] \in Row
            /\ rows' = [rows EXCEPT ![lastId + 1] = [fid |-> n, born |-> n]]
            /\ \/ docs' = docs
               \/ n \in Live(docs) /\ docs' = [docs EXCEPT ![n].pid = lastId + 1]
  BY <1>1, CreateRowEffect
<1>3. /\ docs \in [Name -> Doc \cup {None, Gone}] /\ saved \in [Name -> Doc \cup {None, Gone}]
      /\ rows \in [Id -> Row \cup {None, Gone}] /\ lastId \in 0..MaxId
      /\ onlyDocs \subseteq Name /\ onlyRows \subseteq Id
  BY <1>1 DEF TypeOK
<1>4. /\ Live(docs') = Live(docs)
      /\ \A m \in Name : docs[m] # None <=> docs'[m] # None
      /\ \A m \in Name : m # n => docs'[m] = docs[m]
      /\ \A m \in Live(docs) : docs'[m].born = docs[m].born
      /\ \A m \in Name : docs'[m] = Gone <=> docs[m] = Gone
  <2>1. CASE docs' = docs
    BY <2>1
  <2>2. CASE /\ lastId + 1 \in Id
             /\ n \in Live(docs) /\ docs' = [docs EXCEPT ![n].pid = lastId + 1]
    <3>1. docs' = Link(docs, n, lastId + 1)
      BY <2>2 DEF Link
    <3>2. /\ Live(docs') = Live(docs)
          /\ \A m \in Name : docs[m] # None <=> docs'[m] # None
          /\ \A m \in Name : m # n => docs'[m] = docs[m]
          /\ \A m \in Live(docs) : docs'[m].born = docs[m].born
      BY <1>1, <2>2, <3>1, LinkedViews
    <3>3. docs'[n] # Gone /\ docs[n] # Gone
      BY <2>2, <3>2 DEF Live
    <3>4. QED
      BY <3>2, <3>3
  <2>3. QED
    BY <1>2, <2>1, <2>2
<1>5. /\ \A j \in Id : rows[j] # None => rows'[j] = rows[j]
      /\ \A j \in Live(rows') : (j \in Live(rows) /\ rows'[j] = rows[j]) \/ rows'[j].born = n
  <2>1. CASE rows' = rows
    BY <2>1
  <2>2. CASE /\ lastId + 1 \in Id /\ [fid |-> n, born |-> n] \in Row
             /\ rows' = [rows EXCEPT ![lastId + 1] = [fid |-> n, born |-> n]]
    <3> DEFINE k == lastId + 1
               r == [fid |-> n, born |-> n]
    <3>1. r \in Row /\ r.born = n /\ k \in Id /\ rows' = Put(rows, k, r)
      BY <2>2 DEF Put
    <3>2. ~(k <= lastId)
      BY <1>3
    <3> HIDE DEF k, r
    <3>3. rows[k] = None
      BY <1>1, <3>1, <3>2 DEF RowInv, RowIds
    <3>4. /\ rows' \in [Id -> Row \cup {None, Gone}] /\ Live(rows') = Live(rows) \cup {k}
          /\ rows'[k] = r /\ \A j \in Id : j # k => rows'[j] = rows[j]
      BY <1>3, <3>1, RowInserted
    <3>5. Live(rows) \subseteq Id
      BY <1>3, LiveRows
    <3>6. QED
      BY <3>1, <3>3, <3>4, <3>5
  <2>3. QED
    BY <1>2, <2>1, <2>2
<1>6. \A m \in Live(saved') : \/ m \in Live(saved) /\ saved'[m].born = saved[m].born
                              \/ m \in Live(docs) /\ saved'[m].born = docs[m].born
  BY <1>2, <1>4
<1>7. \A m \in Name : Deleted(m) => docs'[m] = Gone /\ saved'[m] = Gone
  BY <1>2, <1>4 DEF Deleted
<1>8. WriteKeeps
  BY <1>2, <1>3, <1>4, <1>5, <1>6, <1>7 DEF WriteKeeps
<1>9. QED
  BY <1>1, <1>2, <1>8, WritesKept

LEMMA CreateDocWrites ==
  ASSUME TableInv, NewNames, WriteInv, NEW i \in Id, CreateDoc(i)
  PROVE  WriteInv'
<1>1. TypeOK /\ TypeOK' /\ RowInv
  BY CreateDocTables DEF TableInv, TypeInv
<1>2. /\ phase = "write" /\ pairs = {} /\ doomed = {} /\ onlyDocs = {}
      /\ i \in onlyRows /\ onlyRows' = onlyRows \ {i}
      /\ UNCHANGED <<config, lost, changes, phase, full, opDocs, knownDocs, opRows,
                     knownRows, todo, conflicted, pairs, onlyDocs, doomed>>
      /\ docs' \in [Name -> Doc \cup {None, Gone}]
      /\ rows' \in [Id -> Row \cup {None, Gone}] /\ lastId' \in 0..MaxId
      /\ saved' \in {saved, docs'} /\ faults' \in 0..MaxFaults
      /\ dirty' \in {dirty, TRUE}
      /\ \/ UNCHANGED <<docs, rows, lastId>> /\ dirty' = TRUE
         \/ \E n \in Name :
              /\ Unused(n) /\ [pid |-> i, born |-> i] \in Doc
              /\ docs' = [docs EXCEPT ![n] = [pid |-> i, born |-> i]]
              /\ \/ UNCHANGED <<rows, lastId>> /\ dirty' = TRUE
                 \/ /\ i \in Live(rows) /\ lastId' = lastId
                    /\ rows' = [rows EXCEPT ![i].fid = n]
                 \/ /\ i \notin Live(rows) /\ lastId + 1 \in Id
                    /\ lastId' = lastId + 1
                    /\ [fid |-> n, born |-> n] \in Row
                    /\ rows' = [rows EXCEPT ![lastId + 1] = [fid |-> n, born |-> n]]
  BY <1>1, CreateDocEffect
<1>3. /\ docs \in [Name -> Doc \cup {None, Gone}] /\ saved \in [Name -> Doc \cup {None, Gone}]
      /\ rows \in [Id -> Row \cup {None, Gone}] /\ lastId \in 0..MaxId
      /\ onlyDocs \subseteq Name /\ onlyRows \subseteq Id
  BY <1>1 DEF TypeOK
<1>4. /\ \A m \in Name : docs[m] # None => docs'[m] = docs[m]
      /\ \A m \in Live(docs') : (m \in Live(docs) /\ docs'[m] = docs[m]) \/ docs'[m].born = i
  <2>1. CASE docs' = docs
    BY <2>1
  <2>2. ASSUME NEW n \in Name, docs[n] = None, [pid |-> i, born |-> i] \in Doc,
               docs' = [docs EXCEPT ![n] = [pid |-> i, born |-> i]]
        PROVE  /\ \A m \in Name : docs[m] # None => docs'[m] = docs[m]
               /\ \A m \in Live(docs') :
                    (m \in Live(docs) /\ docs'[m] = docs[m]) \/ docs'[m].born = i
    <3> DEFINE d == [pid |-> i, born |-> i]
    <3>1. d \in Doc /\ d.born = i /\ docs' = Put(docs, n, d)
      BY <2>2 DEF Put
    <3> HIDE DEF d
    <3>2. /\ docs' \in [Name -> Doc \cup {None, Gone}] /\ Live(docs') = Live(docs) \cup {n}
          /\ docs'[n] = d /\ \A m \in Name : m # n => docs'[m] = docs[m]
      BY <1>3, <3>1, DocInserted
    <3>3. Live(docs) \subseteq Name
      BY <1>3, LiveDocs
    <3>4. QED
      BY <2>2, <3>1, <3>2, <3>3
  <2>3. QED
    BY <1>2, <2>1, <2>2 DEF Unused
<1> DEFINE Rows ==
      /\ \A j \in Id : rows[j] # None => rows'[j] # None
      /\ \A j \in Id : rows[j] # None /\ j # i => rows'[j] = rows[j]
      /\ \A j \in Live(rows') : \/ j \in Live(rows) /\ rows'[j].born = rows[j].born
                                \/ rows'[j].born \in Name
<1>5. Rows
  <2>1. CASE rows' = rows
    BY <2>1
  <2>2. ASSUME NEW n \in Name, i \in Live(rows), rows' = [rows EXCEPT ![i].fid = n]
        PROVE  Rows
    <3>1. rows' = Rename(rows, i, n) /\ i \in Live(rows)
      BY <2>2 DEF Rename
    <3>0. rows \in [Id -> Row \cup {None, Gone}]
      BY <1>3
    <3>2. /\ rows' \in [Id -> Row \cup {None, Gone}] /\ Live(rows') = Live(rows)
          /\ \A j \in Id : j # i => rows'[j] = rows[j]
          /\ \A j \in Live(rows) : /\ rows'[j].born = rows[j].born
                                   /\ rows'[j].fid = IF j = i THEN n ELSE rows[j].fid
      BY <3>0, <3>1, RowRenamed
    <3>3. rows'[i] # None
      BY <2>2, <3>2 DEF Live
    <3>4. QED
      BY <3>2, <3>3
  <2>3. ASSUME NEW n \in Name, lastId + 1 \in Id, [fid |-> n, born |-> n] \in Row,
               rows' = [rows EXCEPT ![lastId + 1] = [fid |-> n, born |-> n]]
        PROVE  Rows
    <3> DEFINE k == lastId + 1
               r == [fid |-> n, born |-> n]
    <3>1. r \in Row /\ r.born = n /\ k \in Id /\ rows' = Put(rows, k, r)
      BY <2>3 DEF Put
    <3>2. ~(k <= lastId)
      BY <1>3
    <3> HIDE DEF k, r
    <3>3. rows[k] = None
      BY <1>1, <3>1, <3>2 DEF RowInv, RowIds
    <3>4. /\ rows' \in [Id -> Row \cup {None, Gone}] /\ Live(rows') = Live(rows) \cup {k}
          /\ rows'[k] = r /\ \A j \in Id : j # k => rows'[j] = rows[j]
      BY <1>3, <3>1, RowInserted
    <3>5. Live(rows) \subseteq Id
      BY <1>3, LiveRows
    <3>6. QED
      BY <2>3, <3>1, <3>3, <3>4, <3>5
  <2>4. QED
    BY <1>2, <2>1, <2>2, <2>3
<1>6. \A m \in Live(saved') : \/ m \in Live(saved) /\ saved'[m].born = saved[m].born
                              \/ m \in Live(docs) /\ saved'[m].born = docs[m].born
                              \/ saved'[m].born = i
  BY <1>2, <1>4
<1>7. \A m \in Name : Deleted(m) => docs'[m] = Gone /\ saved'[m] = Gone
  BY <1>2, <1>4 DEF Deleted
<1>8. WriteKeeps
  BY <1>2, <1>3, <1>4, <1>5, <1>6, <1>7 DEF WriteKeeps
<1>9. QED
  BY <1>1, <1>2, <1>8, WritesKept

\* What users leave: they delete and insert, in both views alike.
UserLeaves ==
  /\ \A m \in Name : docs[m] # None => /\ docs'[m] \in {docs[m], Gone} /\ docs'[m] # None
                                       /\ saved'[m] \in {saved[m], Gone}
  /\ \A m \in Name : docs'[m] # docs[m] \/ saved'[m] # saved[m] => docs'[m] = saved'[m]
  /\ \A m \in Live(docs') :
       (m \in Live(docs) /\ docs'[m].born = docs[m].born) \/ docs'[m].born = None
  /\ \A m \in Live(saved') :
       (m \in Live(saved) /\ saved'[m].born = saved[m].born) \/ saved'[m].born = None
  /\ \A j \in Id : rows[j] # None => rows'[j] # None /\ rows'[j] \in {rows[j], Gone}
  /\ \A j \in Live(rows') :
       \/ j \in Live(rows) /\ rows'[j].born = rows[j].born
       \/ rows[j] = None /\ rows'[j].born = None

LEMMA UserShape ==
  ASSUME TypeOK, RowInv,
         \/ NewRow
         \/ \E n \in Name : NewDoc(n) \/ DeleteDoc(n)
         \/ \E i \in Id : DeleteRow(i)
  PROVE  UserMay /\ UserDid /\ UserLeaves
<1>1. UserMay /\ UserDid
  BY DEF NewRow, NewDoc, DeleteDoc, DeleteRow
<1>3. /\ docs \in [Name -> Doc \cup {None, Gone}] /\ saved \in [Name -> Doc \cup {None, Gone}]
      /\ rows \in [Id -> Row \cup {None, Gone}] /\ lastId \in 0..MaxId
  BY DEF TypeOK
<1>4. CASE NewRow
  <2>1. UNCHANGED <<docs, saved>>
    BY <1>4 DEF NewRow, siteVars
  <2>2. PICK f \in Name \cup {None} :
          /\ [fid |-> f, born |-> None] \in Row
          /\ lastId + 1 \in Id
          /\ rows' = [rows EXCEPT ![lastId + 1] = [fid |-> f, born |-> None]]
    BY <1>1, <1>4, NewRowType
  <2> DEFINE k == lastId + 1
             r == [fid |-> f, born |-> None]
  <2>3. r \in Row /\ r.born = None /\ k \in Id /\ rows' = Put(rows, k, r)
    BY <2>2 DEF Put
  <2>4. ~(k <= lastId)
    BY <1>3
  <2> HIDE DEF k, r
  <2>5. rows[k] = None
    BY <1>1, <2>3, <2>4 DEF RowInv, RowIds
  <2>6. /\ rows' \in [Id -> Row \cup {None, Gone}] /\ Live(rows') = Live(rows) \cup {k}
        /\ rows'[k] = r /\ \A j \in Id : j # k => rows'[j] = rows[j]
    BY <1>3, <2>3, RowInserted
  <2>7. Live(rows) \subseteq Id
    BY <1>3, LiveRows
  <2>8. /\ \A j \in Id : rows[j] # None => rows'[j] # None /\ rows'[j] \in {rows[j], Gone}
        /\ \A j \in Live(rows') :
             \/ j \in Live(rows) /\ rows'[j].born = rows[j].born
             \/ rows[j] = None /\ rows'[j].born = None
    BY <2>3, <2>5, <2>6, <2>7
  <2>9. /\ \A m \in Live(docs') : m \in Live(docs) /\ docs'[m].born = docs[m].born
        /\ \A m \in Live(saved') : m \in Live(saved) /\ saved'[m].born = saved[m].born
    BY <2>1
  <2>10. QED
    BY <1>1, <2>1, <2>8, <2>9 DEF UserLeaves
<1>5. ASSUME NEW n \in Name, NewDoc(n) PROVE UserLeaves
  <2>1. rows' = rows /\ docs[n] = None
    BY <1>5 DEF NewDoc, partnerVars, Unused
  <2>2. PICK p \in Id \cup {None} :
          /\ [pid |-> p, born |-> None] \in Doc
          /\ docs' = [docs EXCEPT ![n] = [pid |-> p, born |-> None]]
          /\ saved' = [saved EXCEPT ![n] = [pid |-> p, born |-> None]]
    BY <1>1, <1>5, NewDocType
  <2> DEFINE d == [pid |-> p, born |-> None]
  <2>3. d \in Doc /\ d.born = None /\ docs' = Put(docs, n, d) /\ saved' = Put(saved, n, d)
    BY <2>2 DEF Put
  <2> HIDE DEF d
  <2>4. /\ docs' \in [Name -> Doc \cup {None, Gone}] /\ Live(docs') = Live(docs) \cup {n}
        /\ docs'[n] = d /\ \A m \in Name : m # n => docs'[m] = docs[m]
    BY <1>3, <2>3, DocInserted
  <2>5. /\ saved' \in [Name -> Doc \cup {None, Gone}] /\ Live(saved') = Live(saved) \cup {n}
        /\ saved'[n] = d /\ \A m \in Name : m # n => saved'[m] = saved[m]
    BY <1>3, <2>3, DocInserted
  <2>6. Live(docs) \subseteq Name /\ Live(saved) \subseteq Name
    BY <1>3, LiveDocs
  <2>7. QED
    BY <1>3, <2>1, <2>3, <2>4, <2>5, <2>6 DEF UserLeaves
<1>6. ASSUME NEW n \in Name, DeleteDoc(n) PROVE UserLeaves
  <2>1. rows' = rows /\ docs' = Put(docs, n, Gone) /\ saved' = Put(saved, n, Gone)
    BY <1>6 DEF DeleteDoc, SetDoc, Put, partnerVars
  <2>2. /\ docs' \in [Name -> Doc \cup {None, Gone}] /\ Live(docs') = Live(docs) \ {n}
        /\ docs'[n] = Gone /\ \A m \in Name : m # n => docs'[m] = docs[m]
    BY <1>3, <2>1, DocDeleted
  <2>3. /\ saved' \in [Name -> Doc \cup {None, Gone}] /\ Live(saved') = Live(saved) \ {n}
        /\ saved'[n] = Gone /\ \A m \in Name : m # n => saved'[m] = saved[m]
    BY <1>3, <2>1, DocDeleted
  <2>4. Live(docs) \subseteq Name /\ Live(saved) \subseteq Name
    BY <1>3, LiveDocs
  <2>5. QED
    BY <1>3, <2>1, <2>2, <2>3, <2>4 DEF UserLeaves
<1>7. ASSUME NEW i \in Id, DeleteRow(i) PROVE UserLeaves
  <2>1. UNCHANGED <<docs, saved>> /\ rows' = Put(rows, i, Gone)
    BY <1>7 DEF DeleteRow, siteVars, Put
  <2>2. /\ rows' \in [Id -> Row \cup {None, Gone}] /\ Live(rows') = Live(rows) \ {i}
        /\ rows'[i] = Gone /\ \A j \in Id : j # i => rows'[j] = rows[j]
    BY <1>3, <2>1, RowDeleted
  <2>3. Live(rows) \subseteq Id
    BY <1>3, LiveRows
  <2>4. QED
    BY <1>3, <2>1, <2>2, <2>3 DEF UserLeaves
<1>8. QED
  BY <1>1, <1>4, <1>5, <1>6, <1>7

LEMMA UserWrites ==
  ASSUME TableInv, TableInv', WriteInv,
         \/ NewRow
         \/ \E n \in Name : NewDoc(n) \/ DeleteDoc(n)
         \/ \E i \in Id : DeleteRow(i)
  PROVE  WriteInv'
<1>1. TypeOK /\ TypeOK' /\ UserMay /\ UserDid /\ UserLeaves
  BY UserShape DEF TableInv, TypeInv
<1>2. UNCHANGED <<phase, pairs, onlyDocs, onlyRows, doomed>>
  BY <1>1, UserEffect
<1>3. /\ onlyDocs \subseteq Name /\ onlyRows \subseteq Id
      /\ \A p \in pairs : p.doc \in Name /\ p.row \in Id
  BY <1>1 DEF TypeOK, Pair
<1>4. \A m \in Name : Deleted(m) => docs'[m] = Gone /\ saved'[m] = Gone
  BY <1>1 DEF Deleted, UserLeaves
<1>5. WriteKeeps
  BY <1>1, <1>2, <1>3, <1>4 DEF WriteKeeps, UserLeaves
<1>6. QED
  BY <1>1, <1>2, <1>5, WritesKept

-----------------------------------------------------------------------------
(* The reads *)

\* What was read of a document is what is stored, or the document was deleted.
DocsRead ==
  \A n \in Name :
    /\ opDocs[n] # None => docs[n] \in {opDocs[n], Gone}
    /\ knownDocs[n] # None => docs[n] \in {knownDocs[n], Gone}
    /\ opDocs[n] # None /\ knownDocs[n] # None => opDocs[n] = knownDocs[n]

\* A listed document that stores the same identity as another one is not deleted
\* between the two reads (see Alone).
Twins(D) ==
  \A m \in Live(opDocs) :
    /\ opDocs[m].pid # None
    /\ \/ \E n \in Live(opDocs) : n # m /\ opDocs[n].pid = opDocs[m].pid
       \/ \E n \in Live(D) : n # m /\ D[n].pid = opDocs[m].pid
    => m \in Live(D)

Looked == phase \in {"lookup", "partner", "resolve"}

TwinsRead ==
  /\ phase = "frappe" => ~full /\ Twins(docs)
  /\ Looked => Twins(knownDocs)

\* The rows that the run may know.
RowsSeen == IF phase = "lookup" THEN Live(rows) ELSE Live(opRows)

\* The lookup has every document that was listed and is still there, and every one
\* that was inserted for a row; its links are as good as those that are stored.
DocCover ==
  Looked =>
    /\ full => knownDocs = opDocs
    /\ \A m \in Live(opDocs) : m \in Live(docs) => m \in Live(knownDocs)
    /\ \A m \in Live(docs) : docs[m].born # None => m \in Live(knownDocs)
    /\ PidsGiven(knownDocs, lastId)
    /\ BornRows(knownDocs, rows, RowsSeen) /\ BornDocs(knownDocs, RowsSeen)

\* What was read of a row is what is stored, or the row was deleted.
RowsRead ==
  \A i \in Id :
    /\ opRows[i] # None => rows[i] \in {opRows[i], Gone}
    /\ knownRows[i] # None => rows[i] \in {knownRows[i], Gone}
    /\ phase = "partner" /\ ~full /\ opRows[i] # None => rows[i] = opRows[i]
    /\ phase = "resolve" /\ opRows[i] # None => knownRows[i] = opRows[i]

\* The run knows every row that was inserted for a document.
RowCover ==
  \A i \in Live(rows) :
    rows[i].born # None =>
      /\ phase = "partner" /\ full => i \in Live(opRows)
      /\ phase = "resolve" => i \in Live(knownRows)

ReadInv == DocsRead /\ TwinsRead /\ DocCover /\ RowsRead /\ RowCover

LEMMA NewDocReads ==
  ASSUME TableInv, ReadInv, NEW n \in Name, NewDoc(n)
  PROVE  ReadInv'
<1> USE DEF ReadInv
<1>1. TypeOK /\ UserMay /\ UserDid /\ UNCHANGED <<rows, lastId>> /\ docs[n] = None
  BY DEF TableInv, TypeInv, NewDoc, partnerVars, Unused
<1>2. UNCHANGED <<phase, full, opDocs, knownDocs, opRows, knownRows>>
  BY <1>1, UserEffect
<1>3. PICK p \in Id \cup {None} :
        /\ p # None => \E m \in Live(saved) : saved[m].pid = p
        /\ [pid |-> p, born |-> None] \in Doc
        /\ docs' = [docs EXCEPT ![n] = [pid |-> p, born |-> None]]
  BY <1>1, NewDocType
<1> DEFINE d == [pid |-> p, born |-> None]
<1>4. d \in Doc /\ d.pid = p /\ d.born = None /\ docs' = Put(docs, n, d)
  BY <1>3 DEF Put
<1> HIDE DEF d
<1>5. docs \in [Name -> Doc \cup {None, Gone}]
  BY <1>1 DEF TypeOK
<1>6. /\ docs' \in [Name -> Doc \cup {None, Gone}] /\ Live(docs') = Live(docs) \cup {n}
      /\ docs'[n] = d /\ \A m \in Name : m # n => docs'[m] = docs[m]
  BY <1>4, <1>5, DocInserted
<1>7. opDocs[n] = None /\ knownDocs[n] = None
  BY <1>1 DEF DocsRead
<1>8. Live(opDocs) \subseteq Name /\ Live(docs) \subseteq Name /\ n \notin Live(opDocs)
  BY <1>1, <1>7, LiveSets
<1>9. DocsRead'
  BY <1>2, <1>6, <1>7 DEF DocsRead
<1>10. TwinsRead'
  <2>1. ASSUME phase = "frappe" PROVE Twins(docs)'
    <3>1. Twins(docs) /\ docs = saved
      BY <2>1 DEF TwinsRead, TableInv, Synced
    <3>2. SUFFICES ASSUME NEW m \in Live(opDocs), opDocs[m].pid # None,
                          \/ \E k \in Live(opDocs) : k # m /\ opDocs[k].pid = opDocs[m].pid
                          \/ \E k \in Live(docs') : k # m /\ docs'[k].pid = opDocs[m].pid
                   PROVE  m \in Live(docs')
      BY <1>2 DEF Twins
    <3>3. CASE \E k \in Live(opDocs) : k # m /\ opDocs[k].pid = opDocs[m].pid
      BY <1>6, <3>1, <3>2, <3>3 DEF Twins
    <3>4. ASSUME NEW k \in Live(docs'), k # m, docs'[k].pid = opDocs[m].pid
          PROVE  m \in Live(docs')
      <4>1. CASE k = n
        <5>1. PICK c \in Live(docs) : docs[c].pid = opDocs[m].pid
          BY <1>3, <1>4, <1>6, <3>1, <3>2, <3>4, <4>1
        <5>2. CASE c = m
          BY <1>6, <5>2
        <5>3. CASE c # m
          BY <1>6, <3>1, <3>2, <5>1, <5>3 DEF Twins
        <5>4. QED
          BY <5>2, <5>3
      <4>2. CASE k # n
        BY <1>6, <1>8, <3>1, <3>2, <3>4, <4>2 DEF Twins
      <4>3. QED
        BY <4>1, <4>2
    <3>5. QED
      BY <3>2, <3>3, <3>4
  <2>2. Looked => Twins(knownDocs)'
    BY <1>2 DEF TwinsRead, Twins
  <2>3. QED
    BY <1>2, <2>1, <2>2 DEF TwinsRead, Looked
<1>11. DocCover'
  <2> DEFINE Born == \A m \in Live(docs) : docs[m].born # None => m \in Live(knownDocs)
             Kept == \A m \in Live(opDocs) : m \in Live(docs) => m \in Live(knownDocs)
  <2>1. Born => Born'
    BY <1>2, <1>4, <1>6, <1>8
  <2>2. Kept => Kept'
    BY <1>2, <1>6, <1>8
  <2>3. QED
    BY <1>1, <1>2, <2>1, <2>2 DEF DocCover, Looked, RowsSeen
<1>12. RowsRead' /\ RowCover'
  BY <1>1, <1>2 DEF RowsRead, RowCover
<1>13. QED
  BY <1>9, <1>10, <1>11, <1>12

LEMMA DeleteDocReads ==
  ASSUME TableInv, ReadInv, ~Unruly, NEW n \in Name, DeleteDoc(n)
  PROVE  ReadInv'
<1> USE DEF ReadInv
<1>1. TypeOK /\ UserMay /\ UserDid /\ UNCHANGED <<rows, lastId>> /\ n \in Live(docs)
  BY DEF TableInv, TypeInv, DeleteDoc, partnerVars
<1>2. UNCHANGED <<phase, full, opDocs, knownDocs, opRows, knownRows>>
  BY <1>1, UserEffect
<1>3. docs' = Put(docs, n, Gone)
  BY DEF DeleteDoc, SetDoc, Put
<1>4. docs \in [Name -> Doc \cup {None, Gone}]
  BY <1>1 DEF TypeOK
<1>5. /\ docs' \in [Name -> Doc \cup {None, Gone}] /\ Live(docs') = Live(docs) \ {n}
      /\ docs'[n] = Gone /\ \A m \in Name : m # n => docs'[m] = docs[m]
  BY <1>3, <1>4, DocDeleted
<1>6. /\ Live(opDocs) \subseteq Name /\ Live(docs) \subseteq Name
      /\ \A m \in Live(opDocs) : opDocs[m] # None
      /\ \A m \in Live(docs) : docs[m] # Gone
  BY <1>1, LiveSets
<1>7. DocsRead'
  BY <1>2, <1>5 DEF DocsRead
<1>8. TwinsRead'
  <2>1. ASSUME phase = "frappe" PROVE Twins(docs)'
    <3>1. Twins(docs) /\ docs = saved
      BY <2>1 DEF TwinsRead, TableInv, Synced
    <3>2. \A y \in Live(docs) \ {n} : docs[y].pid # docs[n].pid \/ docs[n].pid = None
      BY <1>1, <2>1, <3>1 DEF DeleteDoc, Alone, Pids
    <3>3. SUFFICES ASSUME NEW m \in Live(opDocs), opDocs[m].pid # None,
                          \/ \E k \in Live(opDocs) : k # m /\ opDocs[k].pid = opDocs[m].pid
                          \/ \E k \in Live(docs') : k # m /\ docs'[k].pid = opDocs[m].pid
                   PROVE  m \in Live(docs')
      BY <1>2 DEF Twins
    <3>4. m \in Live(docs)
      BY <1>5, <1>6, <3>1, <3>3 DEF Twins
    <3>5. docs[m] = opDocs[m]
      BY <1>6, <3>4 DEF DocsRead
    <3>6. \A k \in Live(opDocs) :
            k # m /\ opDocs[k].pid = opDocs[m].pid => k \in Live(docs) /\ docs[k].pid = docs[m].pid
      <4> SUFFICES ASSUME NEW k \in Live(opDocs), k # m, opDocs[k].pid = opDocs[m].pid
                   PROVE  k \in Live(docs) /\ docs[k].pid = docs[m].pid
        OBVIOUS
      <4>1. k \in Live(docs)
        BY <3>1, <3>3 DEF Twins
      <4>2. docs[k] = opDocs[k]
        BY <1>6, <4>1 DEF DocsRead
      <4>3. QED
        BY <3>5, <4>1, <4>2
    <3>7. \E k \in Live(docs) : k # m /\ docs[k].pid = docs[m].pid
      BY <1>5, <1>6, <3>3, <3>5, <3>6
    <3>8. m # n
      BY <3>2, <3>3, <3>5, <3>7
    <3>9. QED
      BY <1>5, <3>4, <3>8
  <2>2. Looked => Twins(knownDocs)'
    BY <1>2 DEF TwinsRead, Twins
  <2>3. QED
    BY <1>2, <2>1, <2>2 DEF TwinsRead, Looked
<1>9. DocCover'
  <2> DEFINE Born == \A m \in Live(docs) : docs[m].born # None => m \in Live(knownDocs)
             Kept == \A m \in Live(opDocs) : m \in Live(docs) => m \in Live(knownDocs)
  <2>1. Born => Born'
    BY <1>2, <1>5, <1>6
  <2>2. Kept => Kept'
    BY <1>2, <1>5
  <2>3. QED
    BY <1>1, <1>2, <2>1, <2>2 DEF DocCover, Looked, RowsSeen
<1>10. RowsRead' /\ RowCover'
  BY <1>1, <1>2 DEF RowsRead, RowCover
<1>11. QED
  BY <1>7, <1>8, <1>9, <1>10

LEMMA NewRowReads ==
  ASSUME TableInv, ReadInv, NewRow
  PROVE  ReadInv'
<1> USE DEF ReadInv
<1>1. TypeOK /\ RowInv /\ UserMay /\ UserDid /\ UNCHANGED docs
  BY DEF TableInv, TypeInv, NewRow, siteVars
<1>2. UNCHANGED <<phase, full, opDocs, knownDocs, opRows, knownRows>>
  BY <1>1, UserEffect
<1>3. PICK f \in Name \cup {None} :
        /\ [fid |-> f, born |-> None] \in Row
        /\ lastId + 1 \in Id /\ lastId' = lastId + 1
        /\ rows' = [rows EXCEPT ![lastId + 1] = [fid |-> f, born |-> None]]
  BY <1>1, NewRowType
<1> DEFINE k == lastId + 1
           r == [fid |-> f, born |-> None]
<1>4. r \in Row /\ r.born = None /\ k \in Id /\ rows' = Put(rows, k, r)
  BY <1>3 DEF Put
<1>5. /\ rows \in [Id -> Row \cup {None, Gone}] /\ lastId \in 0..MaxId
      /\ ~(k <= lastId) /\ lastId' = k
      /\ knownDocs \in [Name -> Doc \cup {None, Gone}]
  BY <1>1, <1>3 DEF TypeOK
<1>6. \A p \in Id : p <= lastId => p <= k /\ p # k
  BY <1>5 DEF Id
<1> HIDE DEF k, r
<1>7. rows[k] = None
  BY <1>1, <1>4, <1>5 DEF RowInv, RowIds
<1>8. /\ rows' \in [Id -> Row \cup {None, Gone}] /\ Live(rows') = Live(rows) \cup {k}
      /\ rows'[k] = r /\ \A j \in Id : j # k => rows'[j] = rows[j]
  BY <1>4, <1>5, RowInserted
<1>9. opRows[k] = None /\ knownRows[k] = None
  BY <1>4, <1>7 DEF RowsRead
<1>10. Live(rows) \subseteq Id /\ k \notin Live(rows)
  BY <1>5, <1>7, LiveRows
<1>11. DocsRead' /\ TwinsRead'
  BY <1>1, <1>2 DEF DocsRead, TwinsRead, Twins, Looked
<1>12. DocCover'
  <2>1. SUFFICES ASSUME Looked
                 PROVE  /\ PidsGiven(knownDocs, lastId)'
                        /\ BornRows(knownDocs, rows, RowsSeen)'
                        /\ BornDocs(knownDocs, RowsSeen)'
    BY <1>1, <1>2 DEF DocCover, Looked
  <2>2. /\ PidsGiven(knownDocs, lastId)
        /\ BornRows(knownDocs, rows, RowsSeen) /\ BornDocs(knownDocs, RowsSeen)
    BY <2>1 DEF DocCover
  <2>3. \A n \in Live(knownDocs) : /\ n \in Name
                                   /\ knownDocs[n].pid \in Id \cup {None}
                                   /\ knownDocs[n].born \in Id \cup {None}
    BY <1>5, LiveDocs DEF Doc
  <2>4. \A n \in Live(knownDocs) : knownDocs[n].pid # k /\ knownDocs[n].born # k
    BY <1>4, <1>6, <2>2, <2>3 DEF PidsGiven
  <2>5. PidsGiven(knownDocs, k)
    BY <1>6, <2>2, <2>3 DEF PidsGiven
  <2>6. RowsSeen' \subseteq RowsSeen \cup {k}
    BY <1>2, <1>8 DEF RowsSeen
  <2>7. BornRows(knownDocs, rows', RowsSeen')
    BY <1>4, <1>8, <1>10, <2>2, <2>3, <2>4, <2>6 DEF BornRows
  <2>8. BornDocs(knownDocs, RowsSeen')
    BY <2>2, <2>4, <2>6 DEF BornDocs
  <2>9. QED
    BY <1>2, <1>5, <2>5, <2>7, <2>8
<1>13. RowsRead'
  BY <1>2, <1>8, <1>9 DEF RowsRead
<1>14. RowCover'
  BY <1>2, <1>4, <1>8, <1>10 DEF RowCover
<1>15. QED
  BY <1>11, <1>12, <1>13, <1>14

LEMMA DeleteRowReads ==
  ASSUME TableInv, ReadInv, ~Unruly, NEW i \in Id, DeleteRow(i)
  PROVE  ReadInv'
<1> USE DEF ReadInv
<1>1. /\ TypeOK /\ UserMay /\ UserDid /\ UNCHANGED <<docs, lastId>>
      /\ full \/ phase # "partner"
  BY DEF TableInv, TypeInv, DeleteRow, siteVars
<1>2. UNCHANGED <<phase, full, opDocs, knownDocs, opRows, knownRows>> /\ phase # "resolve"
  BY <1>1, UserEffect
<1>3. rows' = Put(rows, i, Gone)
  BY DEF DeleteRow, Put
<1>4. rows \in [Id -> Row \cup {None, Gone}]
  BY <1>1 DEF TypeOK
<1>5. /\ rows' \in [Id -> Row \cup {None, Gone}] /\ Live(rows') = Live(rows) \ {i}
      /\ rows'[i] = Gone /\ \A j \in Id : j # i => rows'[j] = rows[j]
  BY <1>3, <1>4, RowDeleted
<1>6. Live(rows) \subseteq Id
  BY <1>4, LiveRows
<1>7. DocsRead' /\ TwinsRead'
  BY <1>1, <1>2 DEF DocsRead, TwinsRead, Twins, Looked
<1>8. DocCover'
  <2>1. SUFFICES ASSUME Looked
                 PROVE  /\ BornRows(knownDocs, rows, RowsSeen)'
                        /\ BornDocs(knownDocs, RowsSeen)'
    BY <1>1, <1>2 DEF DocCover, Looked
  <2>2. BornRows(knownDocs, rows, RowsSeen) /\ BornDocs(knownDocs, RowsSeen)
    BY <2>1 DEF DocCover
  <2>3. RowsSeen' \subseteq RowsSeen
    BY <1>2, <1>5 DEF RowsSeen
  <2>4. BornRows(knownDocs, rows', RowsSeen')
    BY <1>5, <1>6, <2>2, <2>3 DEF BornRows
  <2>5. BornDocs(knownDocs, RowsSeen')
    BY <2>2, <2>3 DEF BornDocs
  <2>6. QED
    BY <1>2, <2>4, <2>5
<1>9. RowsRead'
  BY <1>1, <1>2, <1>5 DEF RowsRead
<1>10. RowCover'
  BY <1>2, <1>5, <1>6 DEF RowCover
<1>11. QED
  BY <1>7, <1>8, <1>9, <1>10

\* The steps between two runs and those that only read or compute.
LEMMA SameTables ==
  ASSUME TableInv, TypeInv', phase # "write", UNCHANGED <<docs, saved, lost, rows, lastId>>
  PROVE  TableInv'
<1> USE DEF TableInv
<1>1. docs = saved
  BY DEF Synced
<1>2. \A m \in Name : Used(m) => Used(m)'
  BY DEF Used
<1>3. RowInv'
  BY <1>2, RowInvSame DEF TypeInv
<1>4. Behind' /\ Synced' /\ Older'
  BY <1>1 DEF Behind, Synced, Older
<1>5. QED
  BY <1>3, <1>4

\* What was read is part of what is stored.
LEMMA PartStored ==
  ASSUME NEW D, NEW E, NEW R, NEW S, NEW T, NEW L,
         \A n \in Live(D) : n \in Live(E) /\ D[n] = E[n], S \subseteq T
  PROVE  /\ PidsGiven(E, L) => PidsGiven(D, L)
         /\ BornRows(E, R, T) => BornRows(D, R, S)
         /\ BornDocs(E, T) => BornDocs(D, S)
BY DEF PidsGiven, BornRows, BornDocs

LEMMA DocsDelta ==
  ASSUME TypeOK, NEW S \in SUBSET Live(docs)
  PROVE  /\ Live(Delta(docs, S)) = S
         /\ \A n \in Name : Delta(docs, S)[n] = IF n \in S THEN docs[n] ELSE None
<1>1. docs \in [Name -> Doc \cup {None, Gone}] /\ DOMAIN docs = Name
  BY DEF TypeOK
<1>2. \A n \in Name : Delta(docs, S)[n] = IF n \in S THEN docs[n] ELSE None
  BY <1>1 DEF Delta
<1>3. DOMAIN Delta(docs, S) = Name
  BY <1>1 DEF Delta
<1>4. QED
  BY <1>1, <1>2, <1>3, LiveDocs DEF Live

LEMMA RowsDelta ==
  ASSUME TypeOK, NEW S \in SUBSET Live(rows)
  PROVE  /\ Live(Delta(rows, S)) = S
         /\ \A i \in Id : Delta(rows, S)[i] = IF i \in S THEN rows[i] ELSE None
<1>1. rows \in [Id -> Row \cup {None, Gone}] /\ DOMAIN rows = Id
  BY DEF TypeOK
<1>2. \A i \in Id : Delta(rows, S)[i] = IF i \in S THEN rows[i] ELSE None
  BY <1>1 DEF Delta
<1>3. DOMAIN Delta(rows, S) = Id
  BY <1>1 DEF Delta
<1>4. QED
  BY <1>1, <1>2, <1>3, LiveRows DEF Live

LEMMA ListedAsDelta ==
  ASSUME TypeOK
  PROVE  Listed(docs) = Delta(docs, Live(docs)) /\ Listed(rows) = Delta(rows, Live(rows))
BY DEF Listed, Delta

LEMMA StartReads ==
  ASSUME TableInv, Start
  PROVE  TableInv' /\ ReadInv'
<1>1. /\ TypeOK /\ TypeInv' /\ phase = "idle" /\ docs = saved
      /\ UNCHANGED <<docs, saved, lost, rows, lastId, opRows, knownRows>>
  BY ReadType DEF TableInv, TypeInv, Synced, Start, siteVars, partnerVars
<1>2. TableInv'
  BY <1>1, SameTables
<1>3. PICK S \in SUBSET Live(docs) :
        (full' => S = Live(docs)) /\ opDocs' = Delta(docs, S)
  BY DEF Start
<1>4. /\ Live(opDocs') = S
      /\ \A n \in Name : opDocs'[n] = IF n \in S THEN docs[n] ELSE None
  BY <1>1, <1>3, DocsDelta
<1>5. \/ full' /\ phase' = "lookup" /\ knownDocs' = opDocs'
      \/ ~full' /\ phase' = "frappe" /\ knownDocs' = knownDocs
  BY <1>1, <1>3 DEF Start, TypeOK
<1>6. /\ \A n \in Name : knownDocs[n] = None
      /\ \A i \in Id : opRows'[i] = None /\ knownRows'[i] = None
  BY <1>1 DEF TableInv, TypeInv, NoLeftovers, Nothing
<1>7. Live(docs) \subseteq Name
  BY <1>1, LiveSets
<1>8. DocsRead'
  BY <1>1, <1>3, <1>4, <1>5, <1>6 DEF DocsRead
<1>9. TwinsRead'
  BY <1>1, <1>3, <1>4, <1>5 DEF TwinsRead, Twins, Looked
<1>10. DocCover'
  <2>1. SUFFICES ASSUME full', phase' = "lookup", knownDocs' = opDocs'
                 PROVE  DocCover'
    BY <1>5 DEF DocCover, Looked
  <2>2. \A n \in Live(knownDocs') : n \in Live(docs) /\ knownDocs'[n] = docs[n]
    BY <1>3, <1>4, <1>7, <2>1
  <2>3. PidsGiven(docs, lastId) /\ BornRows(docs, rows, Live(rows)) /\ BornDocs(docs, Live(rows))
    BY DEF TableInv, Stored
  <2>4. /\ PidsGiven(knownDocs', lastId) /\ BornRows(knownDocs', rows, Live(rows))
        /\ BornDocs(knownDocs', Live(rows))
    BY <2>2, <2>3, PartStored
  <2>5. RowsSeen' = Live(rows')
    BY <2>1 DEF RowsSeen
  <2>6. QED
    BY <1>1, <1>3, <1>4, <2>1, <2>4, <2>5 DEF DocCover
<1>11. RowsRead' /\ RowCover'
  BY <1>5, <1>6 DEF RowsRead, RowCover
<1>12. QED
  BY <1>2, <1>8, <1>9, <1>10, <1>11 DEF ReadInv

LEMMA LookupReads ==
  ASSUME TableInv, ReadInv, ReadLookup
  PROVE  TableInv' /\ ReadInv'
<1>1. /\ TypeOK /\ TypeInv' /\ phase = "frappe" /\ phase' = "lookup" /\ docs = saved
      /\ UNCHANGED <<docs, saved, lost, rows, lastId, full, opDocs, opRows, knownRows>>
      /\ knownDocs' = Delta(docs, Live(docs))
  BY ReadType, ListedAsDelta DEF TableInv, TypeInv, Synced, ReadLookup, siteVars, partnerVars
<1>2. TableInv'
  BY <1>1, SameTables
<1>3. /\ Live(knownDocs') = Live(docs)
      /\ \A n \in Name : knownDocs'[n] = IF n \in Live(docs) THEN docs[n] ELSE None
  BY <1>1, DocsDelta
<1>4. /\ Live(docs) \subseteq Name /\ \A n \in Live(docs) : docs[n] # Gone
      /\ \A i \in Id : opRows'[i] = None /\ knownRows'[i] = None
  BY <1>1, LiveSets DEF TableInv, TypeInv, NoLeftovers, Nothing
<1>5. DocsRead'
  BY <1>1, <1>3, <1>4 DEF DocsRead, ReadInv
<1>6. TwinsRead'
  <2>1. Twins(docs)
    BY <1>1 DEF ReadInv, TwinsRead
  <2>2. Twins(knownDocs)'
    BY <1>1, <1>3, <1>4, <2>1 DEF Twins
  <2>3. QED
    BY <1>1, <2>2 DEF TwinsRead
<1>7. DocCover'
  <2>1. ~full
    BY <1>1 DEF ReadInv, TwinsRead
  <2>2. \A n \in Live(knownDocs') : n \in Live(docs) /\ knownDocs'[n] = docs[n]
    BY <1>3, <1>4
  <2>3. PidsGiven(docs, lastId) /\ BornRows(docs, rows, Live(rows)) /\ BornDocs(docs, Live(rows))
    BY DEF TableInv, Stored
  <2>4. /\ PidsGiven(knownDocs', lastId) /\ BornRows(knownDocs', rows, Live(rows))
        /\ BornDocs(knownDocs', Live(rows))
    BY <2>2, <2>3, PartStored
  <2>5. RowsSeen' = Live(rows')
    BY <1>1 DEF RowsSeen
  <2>6. QED
    BY <1>1, <1>3, <2>1, <2>4, <2>5 DEF DocCover
<1>8. RowsRead' /\ RowCover'
  BY <1>1, <1>4 DEF RowsRead, RowCover
<1>9. QED
  BY <1>2, <1>5, <1>6, <1>7, <1>8 DEF ReadInv

LEMMA PartnerReads ==
  ASSUME TableInv, ReadInv, ReadPartner
  PROVE  TableInv' /\ ReadInv'
<1>1. /\ TypeOK /\ TypeInv' /\ phase = "lookup" /\ phase' = "partner"
      /\ UNCHANGED <<docs, saved, lost, rows, lastId, full, opDocs, knownDocs, knownRows>>
  BY ReadType DEF TableInv, TypeInv, ReadPartner, siteVars, partnerVars
<1>2. TableInv'
  BY <1>1, SameTables
<1>3. PICK S \in SUBSET Live(rows) :
        (full => S = Live(rows)) /\ opRows' = Delta(rows, S)
  BY DEF ReadPartner
<1>4. /\ Live(opRows') = S
      /\ \A i \in Id : opRows'[i] = IF i \in S THEN rows[i] ELSE None
  BY <1>1, <1>3, RowsDelta
<1>5. \A i \in Id : knownRows'[i] = None
  BY <1>1 DEF TableInv, TypeInv, NoLeftovers, Nothing
<1>6. DocsRead' /\ TwinsRead'
  BY <1>1 DEF ReadInv, DocsRead, TwinsRead, Twins, Looked
<1>7. DocCover'
  <2>1. RowsSeen' \subseteq RowsSeen
    BY <1>1, <1>3, <1>4 DEF RowsSeen
  <2>2. BornRows(knownDocs, rows, RowsSeen) /\ BornDocs(knownDocs, RowsSeen)
    BY <1>1 DEF ReadInv, DocCover, Looked
  <2>3. BornRows(knownDocs, rows, RowsSeen') /\ BornDocs(knownDocs, RowsSeen')
    BY <2>1, <2>2, PartStored
  <2>4. QED
    BY <1>1, <2>3 DEF ReadInv, DocCover, Looked
<1>8. RowsRead'
  BY <1>1, <1>4, <1>5 DEF RowsRead
<1>9. RowCover'
  BY <1>1, <1>3, <1>4 DEF RowCover
<1>10. QED
  BY <1>2, <1>6, <1>7, <1>8, <1>9 DEF ReadInv

LEMMA IndexReads ==
  ASSUME TableInv, ReadInv, Index
  PROVE  TableInv' /\ ReadInv'
<1>1. /\ TypeOK /\ TypeInv' /\ phase = "partner" /\ phase' = "resolve"
      /\ UNCHANGED <<docs, saved, lost, rows, lastId, full, opDocs, knownDocs, opRows>>
      /\ knownRows' = IF full THEN opRows ELSE Delta(rows, Live(rows))
  BY IndexType, ListedAsDelta DEF TableInv, TypeInv, Index
<1>2. TableInv'
  BY <1>1, SameTables
<1>3. /\ Live(Delta(rows, Live(rows))) = Live(rows)
      /\ \A i \in Id : Delta(rows, Live(rows))[i] = IF i \in Live(rows) THEN rows[i] ELSE None
  BY <1>1, RowsDelta
<1>4. \A i \in Id : opRows[i] # None => i \in Live(rows) \/ rows[i] = Gone
  BY <1>1, LiveSets DEF ReadInv, RowsRead, TypeOK
<1>5. \A i \in Id : opRows[i] # Gone
  BY <1>1 DEF TypeOK
<1>6. DocsRead' /\ TwinsRead'
  BY <1>1 DEF ReadInv, DocsRead, TwinsRead, Twins, Looked
<1>7. DocCover'
  BY <1>1 DEF ReadInv, DocCover, Looked, RowsSeen
<1>8. RowsRead'
  <2>1. CASE full
    BY <1>1, <2>1 DEF ReadInv, RowsRead
  <2>2. CASE ~full
    <3>1. \A i \in Id : knownRows'[i] = IF i \in Live(rows) THEN rows[i] ELSE None
      BY <1>1, <1>3, <2>2
    <3>2. \A i \in Id : opRows[i] # None => rows[i] = opRows[i]
      BY <1>1, <2>2 DEF ReadInv, RowsRead
    <3>3. QED
      BY <1>1, <1>4, <1>5, <3>1, <3>2 DEF RowsRead
  <2>3. QED
    BY <2>1, <2>2
<1>9. RowCover'
  <2>1. CASE full
    BY <1>1, <2>1 DEF ReadInv, RowCover
  <2>2. CASE ~full
    BY <1>1, <1>3, <2>2 DEF RowCover
  <2>3. QED
    BY <2>1, <2>2
<1>10. QED
  BY <1>2, <1>6, <1>7, <1>8, <1>9 DEF ReadInv

LEMMA SameReads ==
  ASSUME ReadInv,
         UNCHANGED <<docs, rows, lastId, phase, full, opDocs, knownDocs, opRows, knownRows>>
  PROVE  ReadInv'
<1>1. DocsRead' /\ TwinsRead' /\ RowsRead' /\ RowCover'
  BY DEF ReadInv, DocsRead, TwinsRead, Twins, Looked, RowsRead, RowCover
<1>2. DocCover'
  BY DEF ReadInv, DocCover, Looked, RowsSeen
<1>3. QED
  BY <1>1, <1>2 DEF ReadInv

\* Nothing is kept of what was read once the writes begin.
LEMMA NoReads ==
  ASSUME TypeInv', phase' \in {"idle", "write", "end"}
  PROVE  ReadInv'
<1>1. /\ opDocs' = Nothing(Name) /\ knownDocs' = Nothing(Name)
      /\ opRows' = Nothing(Id) /\ knownRows' = Nothing(Id)
  BY DEF TypeInv, NoLeftovers
<1>2. DocsRead' /\ RowsRead'
  BY <1>1 DEF DocsRead, RowsRead, Nothing
<1>3. TwinsRead' /\ DocCover' /\ RowCover'
  BY DEF TwinsRead, DocCover, Looked, RowCover
<1>4. QED
  BY <1>2, <1>3 DEF ReadInv

-----------------------------------------------------------------------------
(* The resolution *)

\* No row was found for a document without a row, no document for a row without a
\* document.
OnlyDocOk(n) == n \in Live(opDocs) /\ RowsOf(n, opDocs[n]) = {}
OnlyRowOk(i) ==
  /\ i \in Live(opRows) /\ Sole(DocsClaiming(i)) = {}
  /\ opRows[i].fid \notin Live(knownDocs)

\* A pair was found from its document or from its row, and keeps what was read.
FromDoc(p) ==
  /\ p.doc \in Live(opDocs) /\ p.pid = opDocs[p.doc].pid
  /\ p.row \in RowsOf(p.doc, opDocs[p.doc])
  /\ Sole(RowsClaiming(p.doc)) \in {{}, {p.row}}
FromRow(p) ==
  /\ p.doc \in Live(knownDocs) /\ p.pid = knownDocs[p.doc].pid
  /\ p.row \in Live(opRows)
  /\ \/ Sole(DocsClaiming(p.row)) = {p.doc}
     \/ Sole(DocsClaiming(p.row)) = {} /\ p.fid = p.doc
PairOk(p) ==
  /\ p.pid \in {None, p.row} /\ p.fid \in {None, p.doc}
  /\ p.row \in Live(knownRows) /\ knownRows[p.row].fid = p.fid
  /\ FromDoc(p) \/ FromRow(p)

ResolveInv ==
  phase = "resolve" =>
    /\ Duplicates(knownRows) \subseteq conflicted
    /\ \A n \in onlyDocs : OnlyDocOk(n)
    /\ \A i \in onlyRows : OnlyRowOk(i)
    /\ \A p \in pairs : PairOk(p)

\* A contradiction that is found later adds to those found before.
LEMMA SameResolved ==
  ASSUME ResolveInv, UNCHANGED <<opDocs, knownDocs, opRows, knownRows>>,
         phase = "resolve", conflicted \subseteq conflicted'
  PROVE  /\ Duplicates(knownRows)' \subseteq conflicted'
         /\ \A n \in onlyDocs : OnlyDocOk(n)'
         /\ \A i \in onlyRows : OnlyRowOk(i)'
         /\ \A p \in pairs : PairOk(p)'
<1>1. Duplicates(knownRows)' = Duplicates(knownRows)
  BY DEF Duplicates
<1>2. \A n \in onlyDocs : OnlyDocOk(n)'
  BY DEF ResolveInv, OnlyDocOk, RowsOf, RowsClaiming
<1>3. \A i \in onlyRows : OnlyRowOk(i)'
  BY DEF ResolveInv, OnlyRowOk, DocsClaiming
<1>4. \A p \in pairs : PairOk(p)'
  BY DEF ResolveInv, PairOk, FromDoc, FromRow, RowsOf, RowsClaiming, DocsClaiming
<1>5. QED
  BY <1>1, <1>2, <1>3, <1>4 DEF ResolveInv

LEMMA IndexResolves ==
  ASSUME TypeInv, Index
  PROVE  ResolveInv'
<1>1. /\ phase = "partner" /\ conflicted' = Duplicates(knownRows') /\ knownDocs' = knownDocs
      /\ UNCHANGED <<pairs, onlyDocs, onlyRows>>
  BY IndexType DEF Index
<1>2. pairs = {} /\ onlyDocs = {} /\ onlyRows = {}
  BY <1>1 DEF TypeInv, NoLeftovers
<1>3. Duplicates(knownRows') = Duplicates(knownRows)'
  BY <1>1 DEF Duplicates
<1>4. QED
  BY <1>1, <1>2, <1>3 DEF ResolveInv

LEMMA DocResolves ==
  ASSUME TypeInv, ResolveInv, NEW n \in Name, ResolveDoc(n)
  PROVE  ResolveInv'
<1>1. /\ phase = "resolve" /\ n \in todo
      /\ UNCHANGED <<phase, opDocs, knownDocs, opRows, knownRows, onlyRows>>
      /\ opDocs[n] \in Doc /\ conflicted \subseteq conflicted'
      /\ \/ UNCHANGED <<pairs, onlyDocs>>
         \/ /\ RowsOf(n, opDocs[n]) = {}
            /\ onlyDocs' = onlyDocs \cup {n} /\ UNCHANGED pairs
         \/ \E i \in RowsOf(n, opDocs[n]) :
              /\ i \in Live(knownRows)
              /\ Sole(RowsClaiming(n)) \in {{}, {i}}
              /\ opDocs[n].pid \in {None, i} /\ knownRows[i].fid \in {None, n}
              /\ pairs' = pairs \cup {[doc |-> n, row |-> i, pid |-> opDocs[n].pid,
                                       fid |-> knownRows[i].fid]}
              /\ UNCHANGED onlyDocs
  BY ResolveDocEffect
<1>2. /\ Duplicates(knownRows)' \subseteq conflicted'
      /\ \A m \in onlyDocs : OnlyDocOk(m)'
      /\ \A i \in onlyRows : OnlyRowOk(i)'
      /\ \A p \in pairs : PairOk(p)'
  BY <1>1, SameResolved
<1>3. n \in Live(opDocs)
  BY <1>1, LiveSets DEF TypeInv
<1>4. RowsOf(n, opDocs[n]) = {} => OnlyDocOk(n)'
  BY <1>1, <1>3 DEF OnlyDocOk, RowsOf, RowsClaiming
<1>5. ASSUME NEW i \in RowsOf(n, opDocs[n]), i \in Live(knownRows),
             Sole(RowsClaiming(n)) \in {{}, {i}},
             opDocs[n].pid \in {None, i}, knownRows[i].fid \in {None, n},
             pairs' = pairs \cup {[doc |-> n, row |-> i, pid |-> opDocs[n].pid,
                                   fid |-> knownRows[i].fid]},
             UNCHANGED onlyDocs
      PROVE  ResolveInv'
  <2>0. PICK q : q = [doc |-> n, row |-> i, pid |-> opDocs[n].pid, fid |-> knownRows[i].fid]
    OBVIOUS
  <2>1. /\ q.doc = n /\ q.row = i /\ q.pid = opDocs[n].pid /\ q.fid = knownRows[i].fid
        /\ pairs' = pairs \cup {q}
    BY <1>5, <2>0
  <2>2. PairOk(q)
    BY <1>3, <1>5, <2>1 DEF PairOk, FromDoc
  <2>3. PairOk(q)'
    BY <1>1, <2>2 DEF PairOk, FromDoc, FromRow, RowsOf, RowsClaiming, DocsClaiming
  <2>4. QED
    BY <1>1, <1>2, <1>5, <2>1, <2>3 DEF ResolveInv
<1>6. CASE UNCHANGED <<pairs, onlyDocs>>
  BY <1>1, <1>2, <1>6 DEF ResolveInv
<1>7. CASE /\ RowsOf(n, opDocs[n]) = {}
           /\ onlyDocs' = onlyDocs \cup {n} /\ UNCHANGED pairs
  BY <1>1, <1>2, <1>4, <1>7 DEF ResolveInv
<1>8. QED
  BY <1>1, <1>5, <1>6, <1>7

LEMMA RowResolves ==
  ASSUME TypeInv, ReadInv, ResolveInv, NEW i \in Id, ResolveRow(i)
  PROVE  ResolveInv'
<1>1. /\ phase = "resolve" /\ i \in todo
      /\ UNCHANGED <<phase, opDocs, knownDocs, opRows, knownRows, onlyDocs>>
      /\ opRows[i] \in Row /\ conflicted \subseteq conflicted'
      /\ \/ UNCHANGED <<pairs, onlyRows>>
         \/ /\ Sole(DocsClaiming(i)) = {} /\ opRows[i].fid \notin Live(knownDocs)
            /\ onlyRows' = onlyRows \cup {i} /\ UNCHANGED pairs
         \/ \E n \in Live(knownDocs) :
              /\ \/ Sole(DocsClaiming(i)) = {n}
                 \/ Sole(DocsClaiming(i)) = {} /\ opRows[i].fid = n
              /\ knownDocs[n].pid \in {None, i} /\ opRows[i].fid \in {None, n}
              /\ pairs' = {p \in pairs : <<p.doc, p.row>> # <<n, i>>}
                            \cup {[doc |-> n, row |-> i, pid |-> knownDocs[n].pid,
                                   fid |-> opRows[i].fid]}
              /\ UNCHANGED onlyRows
  BY ResolveRowEffect
<1>2. /\ Duplicates(knownRows)' \subseteq conflicted'
      /\ \A m \in onlyDocs : OnlyDocOk(m)'
      /\ \A j \in onlyRows : OnlyRowOk(j)'
      /\ \A p \in pairs : PairOk(p)'
  BY <1>1, SameResolved
<1>3. i \in Live(opRows)
  BY <1>1, LiveSets DEF TypeInv
<1>4. knownRows[i] = opRows[i] /\ i \in Live(knownRows)
  BY <1>1, LiveSets DEF ReadInv, RowsRead, TypeInv
<1>5. Sole(DocsClaiming(i)) = {} /\ opRows[i].fid \notin Live(knownDocs) => OnlyRowOk(i)'
  BY <1>1, <1>3 DEF OnlyRowOk, DocsClaiming
<1>6. ASSUME NEW n \in Live(knownDocs),
             \/ Sole(DocsClaiming(i)) = {n}
             \/ Sole(DocsClaiming(i)) = {} /\ opRows[i].fid = n,
             knownDocs[n].pid \in {None, i}, opRows[i].fid \in {None, n},
             pairs' = {p \in pairs : <<p.doc, p.row>> # <<n, i>>}
                        \cup {[doc |-> n, row |-> i, pid |-> knownDocs[n].pid,
                               fid |-> opRows[i].fid]},
             UNCHANGED onlyRows
      PROVE  ResolveInv'
  <2>0. PICK q : q = [doc |-> n, row |-> i, pid |-> knownDocs[n].pid, fid |-> opRows[i].fid]
    OBVIOUS
  <2>1. /\ q.doc = n /\ q.row = i /\ q.pid = knownDocs[n].pid /\ q.fid = opRows[i].fid
        /\ pairs' \subseteq pairs \cup {q}
    BY <1>6, <2>0
  <2>2. PairOk(q)
    BY <1>3, <1>4, <1>6, <2>1 DEF PairOk, FromRow
  <2>3. PairOk(q)'
    BY <1>1, <2>2 DEF PairOk, FromDoc, FromRow, RowsOf, RowsClaiming, DocsClaiming
  <2>4. QED
    BY <1>1, <1>2, <1>6, <2>1, <2>3 DEF ResolveInv
<1>7. CASE UNCHANGED <<pairs, onlyRows>>
  BY <1>1, <1>2, <1>7 DEF ResolveInv
<1>8. CASE /\ Sole(DocsClaiming(i)) = {} /\ opRows[i].fid \notin Live(knownDocs)
           /\ onlyRows' = onlyRows \cup {i} /\ UNCHANGED pairs
  BY <1>1, <1>2, <1>5, <1>8 DEF ResolveInv
<1>9. QED
  BY <1>1, <1>6, <1>7, <1>8

-----------------------------------------------------------------------------
(* The plan *)

\* What the plan keeps is in no contradiction.
LEMMA PlanEffect ==
  ASSUME TypeInv, Plan
  PROVE  /\ phase = "resolve" /\ phase' = "write"
         /\ UNCHANGED <<config, docs, saved, lost, rows, lastId, full, conflicted, dirty>>
         /\ \A p \in pairs' : p \in pairs /\ p.doc \notin conflicted /\ p.row \notin conflicted
         /\ \A n \in onlyDocs' : n \in onlyDocs /\ n \notin conflicted /\ opDocs[n].pid = None
         /\ \A i \in onlyRows' : i \in onlyRows /\ i \notin conflicted /\ opRows[i].fid = None
         /\ doomed' = IF config.delete /\ full THEN Orphans ELSE {}
<1>1. /\ phase = "resolve" /\ phase' = "write"
      /\ UNCHANGED <<config, docs, saved, lost, rows, lastId, full, conflicted, dirty>>
      /\ pairs' = {p \in pairs : {p.doc, p.row, p.pid, p.fid} \cap conflicted = {}}
      /\ onlyDocs' = {n \in onlyDocs : DocKeys(n, opDocs[n]) \cap conflicted = {}
                                         /\ opDocs[n].pid = None}
      /\ onlyRows' = {i \in onlyRows : RowKeys(i, opRows[i]) \cap conflicted = {}
                                         /\ opRows[i].fid = None}
      /\ doomed' = IF config.delete /\ full THEN Orphans ELSE {}
  BY DEF Plan, siteVars, partnerVars
<1>2. onlyDocs \subseteq Name /\ onlyRows \subseteq Id
  BY DEF TypeInv, TypeOK
<1>3. /\ \A n \in onlyDocs : n \in DocKeys(n, opDocs[n])
      /\ \A i \in onlyRows : i \in RowKeys(i, opRows[i])
  BY <1>2 DEF DocKeys, RowKeys
<1>4. \A p \in pairs' : p \in pairs /\ p.doc \notin conflicted /\ p.row \notin conflicted
  BY <1>1
<1>5. \A n \in onlyDocs' : n \in onlyDocs /\ n \notin conflicted /\ opDocs[n].pid = None
  BY <1>1, <1>3
<1>6. \A i \in onlyRows' : i \in onlyRows /\ i \notin conflicted /\ opRows[i].fid = None
  BY <1>1, <1>3
<1>7. QED
  BY <1>1, <1>4, <1>5, <1>6

\* A name or an identity outside of the contradictions is stored at most once.
LEMMA OneClaim ==
  ASSUME TypeOK, Duplicates(knownRows) \subseteq conflicted
  PROVE  /\ \A n \in Name \ conflicted : \A i, j \in RowsClaiming(n) : i = j
         /\ \A i \in Id \ conflicted : \A m, n \in DocsClaiming(i) : m = n
<1>1. ASSUME NEW n \in Name \ conflicted, NEW i \in RowsClaiming(n), NEW j \in RowsClaiming(n),
             i # j
      PROVE  FALSE
  <2>1. /\ i \in Live(knownRows) /\ j \in Live(knownRows)
        /\ knownRows[i].fid = n /\ knownRows[j].fid = n /\ n # None
    BY DEF RowsClaiming
  <2>2. n \in RowKeys(i, knownRows[i])
    BY <2>1 DEF RowKeys
  <2>3. n \in Duplicates(knownRows)
    BY <1>1, <2>1, <2>2, InDuplicates
  <2>4. QED
    BY <2>3
<1>2. ASSUME NEW i \in Id \ conflicted, NEW m \in DocsClaiming(i), NEW n \in DocsClaiming(i),
             m # n
      PROVE  FALSE
  <2>1. /\ m \in Live(knownDocs) /\ n \in Live(knownDocs)
        /\ knownDocs[m].pid = i /\ knownDocs[n].pid = i /\ i # None
    BY DEF DocsClaiming
  <2>2. i \in DocKeys(n, knownDocs[n])
    BY <2>1 DEF DocKeys
  <2>3. i \in Duplicates(knownRows)
    BY <1>2, <2>1, <2>2, InDuplicates
  <2>4. QED
    BY <2>3
<1>3. QED
  BY <1>1, <1>2

LEMMA SoleIs ==
  /\ \A S : Sole(S) = {} => \A x \in S : \E y \in S : y # x
  /\ \A S, x : Sole(S) = {x} => S = {x}
BY DEF Sole

\* What a pair in no contradiction says of the tables.
LEMMA PlanPair ==
  ASSUME TypeInv, ReadInv, phase = "resolve", Duplicates(knownRows) \subseteq conflicted,
         NEW p \in pairs, PairOk(p), p.doc \notin conflicted, p.row \notin conflicted
  PROVE  /\ p.doc \in Name /\ p.row \in Id
         /\ p.pid \in {None, p.row} /\ p.fid \in {None, p.doc}
         /\ ~(p.pid = None /\ p.fid = None)
         /\ p.row \in Live(knownRows) /\ knownRows[p.row].fid = p.fid
         /\ \/ p.doc \in Live(opDocs) /\ p.pid = opDocs[p.doc].pid
            \/ p.doc \in Live(knownDocs) /\ p.pid = knownDocs[p.doc].pid
<1>1. p.doc \in Name /\ p.row \in Id
  BY DEF TypeInv, TypeOK, Pair
<1>2. /\ p.pid \in {None, p.row} /\ p.fid \in {None, p.doc}
      /\ p.row \in Live(knownRows) /\ knownRows[p.row].fid = p.fid
      /\ FromDoc(p) \/ FromRow(p)
  BY DEF PairOk
<1>3. ASSUME FromDoc(p), p.pid = None PROVE p.fid # None
  <2>1. p.row \in Sole(RowsClaiming(p.doc))
    BY <1>1, <1>3, LiveSets DEF FromDoc, RowsOf, TypeInv
  <2>2. p.row \in RowsClaiming(p.doc)
    BY <2>1 DEF Sole
  <2>3. QED
    BY <1>1, <1>2, <2>2 DEF RowsClaiming
<1>4. ASSUME FromRow(p), p.pid = None PROVE p.fid # None
  <2>1. CASE Sole(DocsClaiming(p.row)) = {p.doc}
    <3>1. p.doc \in DocsClaiming(p.row)
      BY <2>1 DEF Sole
    <3>2. QED
      BY <1>1, <1>4, <3>1 DEF DocsClaiming, FromRow
  <2>2. QED
    BY <1>1, <1>4, <2>1 DEF FromRow
<1>5. \/ p.doc \in Live(opDocs) /\ p.pid = opDocs[p.doc].pid
      \/ p.doc \in Live(knownDocs) /\ p.pid = knownDocs[p.doc].pid
  BY <1>2 DEF FromDoc, FromRow
<1>6. QED
  BY <1>1, <1>2, <1>3, <1>4, <1>5

\* Two pairs of one document, or of one row, are the same pair.
LEMMA PlanApart ==
  ASSUME TypeInv, ReadInv, phase = "resolve", Duplicates(knownRows) \subseteq conflicted,
         NEW p \in pairs, PairOk(p), p.doc \notin conflicted, p.row \notin conflicted,
         NEW q \in pairs, PairOk(q), q.doc \notin conflicted, q.row \notin conflicted,
         p.doc = q.doc \/ p.row = q.row
  PROVE  p = q
<1> DEFINE Good(r) ==
      /\ r.doc \in Name /\ r.row \in Id
      /\ r.pid \in {None, r.row} /\ r.fid \in {None, r.doc}
      /\ ~(r.pid = None /\ r.fid = None)
      /\ r.row \in Live(knownRows) /\ knownRows[r.row].fid = r.fid
      /\ \/ r.doc \in Live(opDocs) /\ r.pid = opDocs[r.doc].pid
         \/ r.doc \in Live(knownDocs) /\ r.pid = knownDocs[r.doc].pid
<1>1. Good(p) /\ Good(q)
  BY PlanPair
<1>2. /\ \A n \in Name \ conflicted : \A i, j \in RowsClaiming(n) : i = j
      /\ \A i \in Id \ conflicted : \A m, n \in DocsClaiming(i) : m = n
  BY OneClaim DEF TypeInv
<1>3. \A m \in Live(opDocs) : m \in Live(knownDocs) => opDocs[m] = knownDocs[m]
  BY LiveSets DEF TypeInv, ReadInv, DocsRead
<1>4. /\ p.doc = q.doc => p.pid = q.pid
      /\ p.row = q.row => p.fid = q.fid
  BY <1>1, <1>3
<1>5. ASSUME p.doc = q.doc PROVE p.row = q.row
  <2>1. CASE p.pid # None
    BY <1>1, <1>4, <1>5, <2>1
  <2>2. CASE p.pid = None
    <3>1. p.row \in RowsClaiming(p.doc) /\ q.row \in RowsClaiming(p.doc)
      BY <1>1, <1>4, <1>5, <2>2 DEF RowsClaiming
    <3>2. QED
      BY <1>1, <1>2, <3>1
  <2>3. QED
    BY <2>1, <2>2
<1>6. ASSUME p.row = q.row PROVE p.doc = q.doc
  <2>1. CASE p.fid # None
    BY <1>1, <1>4, <1>6, <2>1
  <2>2. ASSUME p.fid = None, p.doc # q.doc PROVE FALSE
    <3>1. p.pid = p.row /\ q.pid = p.row /\ p.row # None
      BY <1>1, <1>4, <1>6, <2>2
    <3>2. Twins(knownDocs)
      BY DEF ReadInv, TwinsRead, Looked
    <3>3. p.doc \in Live(knownDocs) /\ knownDocs[p.doc].pid = p.row
      BY <1>1, <1>3, <2>2, <3>1, <3>2 DEF Twins
    <3>4. q.doc \in Live(knownDocs) /\ knownDocs[q.doc].pid = p.row
      BY <1>1, <1>3, <2>2, <3>1, <3>2 DEF Twins
    <3>5. p.doc \in DocsClaiming(p.row) /\ q.doc \in DocsClaiming(p.row)
      BY <3>3, <3>4 DEF DocsClaiming
    <3>6. QED
      BY <1>1, <1>2, <2>2, <3>5
  <2>3. QED
    BY <2>1, <2>2
<1>7. p \in Pair /\ q \in Pair
  BY DEF TypeInv, TypeOK
<1>8. QED
  BY <1>4, <1>5, <1>6, <1>7 DEF Pair

\* The row inserted for the document of a pair is the row of the pair.
LEMMA PlanBorn ==
  ASSUME TableInv, ReadInv, phase = "resolve", Duplicates(knownRows) \subseteq conflicted,
         NEW p \in pairs, PairOk(p), p.doc \notin conflicted, p.row \notin conflicted,
         NEW j \in Live(rows), rows[j].born = p.doc
  PROVE  j = p.row
<1>1. /\ p.doc \in Name /\ p.row \in Id
      /\ p.row \in Live(knownRows) /\ knownRows[p.row].fid = p.fid
      /\ p.fid \in {None, p.doc}
  BY PlanPair DEF TableInv
<1>2. j \in Live(knownRows) /\ rows[j] = knownRows[j] /\ rows[j].fid = p.doc
  <2>1. j \in Live(knownRows)
    BY <1>1 DEF ReadInv, RowCover
  <2>2. rows[j] = knownRows[j]
    BY <2>1, LiveSets DEF ReadInv, RowsRead, TableInv, TypeInv
  <2>3. rows[j].fid = p.doc
    BY <1>1 DEF TableInv, RowInv, KeepName
  <2>4. QED
    BY <2>1, <2>2, <2>3
<1>3. j \in RowsClaiming(p.doc) /\ j \in Id
  BY <1>2, LiveSets DEF RowsClaiming, TableInv, TypeInv
<1>4. \A i, k \in RowsClaiming(p.doc) : i = k
  BY <1>1, OneClaim DEF TableInv, TypeInv
<1>5. CASE FromDoc(p)
  <2>1. Sole(RowsClaiming(p.doc)) = {j}
    BY <1>3, <1>4 DEF Sole
  <2>2. QED
    BY <1>5, <2>1 DEF FromDoc
<1>6. CASE FromRow(p)
  <2>1. CASE p.fid = p.doc
    BY <1>1, <1>3, <1>4, <2>1 DEF RowsClaiming
  <2>2. ASSUME p.fid = None, j # p.row PROVE FALSE
    <3>1. Sole(DocsClaiming(p.row)) = {p.doc}
      BY <1>1, <1>6, <2>2 DEF FromRow
    <3>2. p.doc \in Live(knownDocs) /\ knownDocs[p.doc].pid = p.row
      BY <3>1 DEF Sole, DocsClaiming
    <3>3. BornRows(knownDocs, rows, Live(opRows)) /\ p.row \in Live(opRows)
      BY <1>6 DEF ReadInv, DocCover, Looked, RowsSeen, FromRow
    <3>4. QED
      BY <1>1, <2>2, <3>2, <3>3 DEF BornRows
  <2>3. QED
    BY <1>1, <2>1, <2>2
<1>7. QED
  BY <1>5, <1>6 DEF PairOk

LEMMA PlanWrites ==
  ASSUME TableInv, ReadInv, ResolveInv, Plan
  PROVE  TableInv' /\ WriteInv'
<1>1. /\ phase = "resolve" /\ phase' = "write"
      /\ UNCHANGED <<docs, saved, lost, rows, lastId>>
      /\ \A p \in pairs' : p \in pairs /\ p.doc \notin conflicted /\ p.row \notin conflicted
      /\ \A n \in onlyDocs' : n \in onlyDocs /\ n \notin conflicted /\ opDocs[n].pid = None
      /\ \A i \in onlyRows' : i \in onlyRows /\ i \notin conflicted /\ opRows[i].fid = None
      /\ doomed' = IF config.delete /\ full THEN Orphans ELSE {}
  BY PlanEffect DEF TableInv
<1>2. TypeInv /\ TypeOK /\ TypeInv' /\ docs = saved
  BY <1>1, ResolveType DEF TableInv, Synced, TypeInv
<1>3. TableInv'
  BY <1>1, <1>2, SameTables
<1>4. /\ Duplicates(knownRows) \subseteq conflicted
      /\ \A n \in onlyDocs : OnlyDocOk(n)
      /\ \A i \in onlyRows : OnlyRowOk(i)
      /\ \A p \in pairs : PairOk(p)
  BY <1>1 DEF ResolveInv
<1>5. /\ \A n \in Name \ conflicted : \A i, j \in RowsClaiming(n) : i = j
      /\ \A i \in Id \ conflicted : \A m, n \in DocsClaiming(i) : m = n
  BY <1>2, <1>4, OneClaim
<1>6. /\ \A n \in Live(opDocs) : n \in Name /\ docs[n] \in {opDocs[n], Gone} /\ docs[n] # None
      /\ \A n \in Live(knownDocs) : n \in Name /\ docs[n] \in {knownDocs[n], Gone} /\ docs[n] # None
      /\ \A i \in Live(opRows) : i \in Id /\ rows[i] \in {opRows[i], Gone} /\ rows[i] # None
      /\ \A i \in Live(knownRows) : i \in Id /\ rows[i] \in {knownRows[i], Gone} /\ rows[i] # None
      /\ \A n \in Live(docs) : docs[n] # Gone /\ n \in Name
      /\ \A i \in Live(rows) : rows[i] # Gone /\ i \in Id
  BY <1>2, LiveSets DEF ReadInv, DocsRead, RowsRead
<1>7. \A j \in Live(rows) :
        rows[j].born # None => j \in Live(knownRows) /\ knownRows[j] = rows[j]
  BY <1>1, <1>6 DEF ReadInv, RowCover
<1>8. /\ \A m \in Live(opDocs) : m \in Live(knownDocs) => opDocs[m] = knownDocs[m]
      /\ \A i \in Live(opRows) : knownRows[i] = opRows[i]
  BY <1>1, <1>2, LiveSets DEF ReadInv, DocsRead, RowsRead
<1>9. \A p \in pairs' :
        /\ p \in pairs /\ p.doc \in Name /\ p.row \in Id
        /\ p.pid \in {None, p.row} /\ p.fid \in {None, p.doc}
        /\ ~(p.pid = None /\ p.fid = None)
        /\ p.row \in Live(knownRows) /\ knownRows[p.row].fid = p.fid
        /\ \/ p.doc \in Live(opDocs) /\ p.pid = opDocs[p.doc].pid
           \/ p.doc \in Live(knownDocs) /\ p.pid = knownDocs[p.doc].pid
  BY <1>1, <1>2, <1>4, PlanPair
<1>10. PairsAlive'
  <2>1. ASSUME NEW p \in pairs'
        PROVE  docs[p.doc] # None /\ rows[p.row] # None /\ AsRead(p, docs)
    <3>1. p \in pairs /\ p.doc \notin conflicted /\ p.row \notin conflicted /\ PairOk(p)
      BY <1>1, <1>4, <2>1
    <3>2. docs[p.doc] # None /\ rows[p.row] # None
      BY <1>6, <1>9
    <3>3. p.doc \in Live(docs) => docs[p.doc].pid = p.pid
      BY <1>6, <1>9
    <3>4. p.row \in Live(rows) => rows[p.row].fid = p.fid
      BY <1>6, <1>9
    <3>5. \A j \in Live(rows) : rows[j].born = p.doc => j = p.row
      BY <1>1, <1>4, <3>1, PlanBorn
    <3>6. QED
      BY <1>9, <3>2, <3>3, <3>4, <3>5 DEF AsRead
  <2>2. \A p \in pairs' : \A q \in pairs' \ {p} : q.doc # p.doc /\ q.row # p.row
    BY <1>1, <1>2, <1>4, PlanApart
  <2>3. \A p \in pairs' : AsRead(p, docs)' /\ AsRead(p, saved)'
    BY <1>1, <1>2, <2>1 DEF AsRead
  <2>4. QED
    BY <1>1, <2>1, <2>2, <2>3 DEF PairsAlive
<1>11. OnlyDocsNew'
  <2>1. ASSUME NEW n \in onlyDocs'
        PROVE  /\ docs[n] # None
               /\ n \in Live(docs) => docs[n].pid = None
               /\ \A j \in Live(rows) : rows[j].born # n
               /\ \A p \in pairs' : p.doc # n
    <3>1. /\ n \in Live(opDocs) /\ RowsOf(n, opDocs[n]) = {} /\ opDocs[n].pid = None
          /\ n \in Name \ conflicted
      BY <1>1, <1>4, <1>6, <2>1 DEF OnlyDocOk
    <3>2. Sole(RowsClaiming(n)) = {}
      BY <1>2, <3>1, LiveSets DEF RowsOf
    <3>3. RowsClaiming(n) = {}
      BY <1>5, <3>1, <3>2, SoleIs
    <3>4. ASSUME NEW j \in Live(rows), rows[j].born = n PROVE FALSE
      <4>1. j \in Live(knownRows) /\ knownRows[j].fid = n
        BY <1>7, <3>1, <3>4 DEF TableInv, RowInv, KeepName
      <4>2. QED
        BY <3>3, <4>1 DEF RowsClaiming
    <3>5. ASSUME NEW p \in pairs', p.doc = n PROVE FALSE
      <4>1. p.pid = None
        BY <1>8, <1>9, <3>1, <3>5
      <4>2. p.row \in Live(knownRows) /\ knownRows[p.row].fid = n
        BY <1>9, <3>5, <4>1
      <4>3. QED
        BY <3>3, <4>2 DEF RowsClaiming
    <3>6. QED
      BY <1>6, <3>1, <3>4, <3>5
  <2>2. QED
    BY <1>1, <1>2, <2>1 DEF OnlyDocsNew
<1>12. OnlyRowsNew'
  <2>1. ASSUME NEW i \in onlyRows'
        PROVE  /\ rows[i] # None
               /\ \A m \in Live(docs) : docs[m].born # i
               /\ i \in Live(rows) => rows[i].born = None /\ rows[i].fid = None
               /\ \A p \in pairs' : p.row = i => docs[p.doc] = Gone
    <3>1. /\ i \in Live(opRows) /\ Sole(DocsClaiming(i)) = {} /\ opRows[i].fid = None
          /\ i \in Id \ conflicted
      BY <1>1, <1>4, <1>6, <2>1 DEF OnlyRowOk
    <3>2. DocsClaiming(i) = {}
      BY <1>5, <3>1, SoleIs
    <3>3. ASSUME NEW m \in Live(docs), docs[m].born = i PROVE FALSE
      <4>1. m \in Live(knownDocs) /\ BornDocs(knownDocs, Live(opRows))
        BY <1>1, <3>1, <3>3 DEF ReadInv, DocCover, Looked, RowsSeen
      <4>2. knownDocs[m] = docs[m]
        BY <1>6, <3>3, <4>1
      <4>3. knownDocs[m].pid = i
        BY <3>1, <3>3, <4>1, <4>2 DEF BornDocs
      <4>4. QED
        BY <3>2, <4>1, <4>3 DEF DocsClaiming
    <3>4. i \in Live(rows) => rows[i].born = None /\ rows[i].fid = None
      BY <1>6, <3>1 DEF TableInv, RowInv, KeepName
    <3>5. ASSUME NEW p \in pairs', p.row = i PROVE docs[p.doc] = Gone
      <4>1. p.fid = None /\ p.pid = i
        BY <1>8, <1>9, <3>1, <3>5
      <4>2. p.doc \notin Live(knownDocs) \/ knownDocs[p.doc].pid # i
        BY <3>2 DEF DocsClaiming
      <4>3. p.doc \in Live(opDocs) /\ p.doc \notin Live(knownDocs)
        BY <1>8, <1>9, <4>1, <4>2
      <4>4. p.doc \notin Live(docs)
        BY <1>1, <4>3 DEF ReadInv, DocCover, Looked
      <4>5. docs[p.doc] \in Doc \cup {None, Gone}
        BY <1>2, <1>9 DEF TypeOK
      <4>6. QED
        BY <1>2, <1>6, <1>9, <4>3, <4>4, <4>5, LiveSets
    <3>6. QED
      BY <1>6, <3>1, <3>3, <3>4, <3>5
  <2>2. QED
    BY <1>1, <1>2, <2>1 DEF OnlyRowsNew, Deleted
<1>13. DoomedKnown'
  <2>1. \A x \in doomed' : x \in Live(knownDocs) \/ x \in Live(knownRows)
    BY <1>1 DEF Orphans
  <2>2. QED
    BY <1>1, <1>6, <2>1 DEF DoomedKnown
<1>14. QED
  BY <1>3, <1>10, <1>11, <1>12, <1>13 DEF WriteInv

-----------------------------------------------------------------------------
(* Theorems *)

\* A run commits what it wrote at its end, and a killed one loses the rest; the rows
\* it wrote stay, and with them names that no document has.
LEMMA EndTables ==
  ASSUME TableInv, EndRun \/ Finish \/ Crash
  PROVE  TableInv'
<1> USE DEF TableInv
<1>0. TypeInv' /\ TypeOK
  BY EndType DEF TypeInv
<1>1. CASE EndRun
  <2>1. /\ phase = "write" /\ phase' = "end" /\ saved' = docs
        /\ UNCHANGED <<docs, lost, rows, lastId>>
    BY <1>1 DEF EndRun, partnerVars
  <2>2. \A m \in Name : Used(m) => Used(m)'
    BY <2>1 DEF Used
  <2>3. RowInv'
    BY <1>0, <2>1, <2>2, RowInvSame
  <2>4. Stored(docs, rows, lastId)' /\ Stored(saved, rows, lastId)'
    BY <2>1
  <2>5. Behind' /\ Synced' /\ Older'
    BY <2>1 DEF Behind, Synced, Older
  <2>6. QED
    BY <1>0, <2>3, <2>4, <2>5
<1>2. CASE Finish
  BY <1>0, <1>2, SameTables DEF Finish, siteVars, partnerVars
<1>3. CASE Crash
  <2>1. /\ docs' = saved /\ saved' = saved /\ UNCHANGED <<rows, lastId>>
        /\ lost' = lost \cup (Live(docs) \cap {n \in Name : saved[n] = None})
        /\ phase' = "idle"
    BY <1>3, ResetType DEF Crash, partnerVars
  <2>2. \A m \in Name : Used(m) => Used(m)'
    <3>1. ASSUME NEW m \in Name, Used(m) PROVE Used(m)'
      <4>1. CASE m \in lost
        BY <2>1, <4>1 DEF Used
      <4>2. CASE docs[m] = Gone
        BY <2>1, <4>2 DEF Used, Behind
      <4>3. CASE m \in Live(docs)
        BY <2>1, <4>3 DEF Used
      <4>4. docs[m] \in {None, Gone} \/ m \in Live(docs)
        BY <1>0, LiveSets DEF TypeOK
      <4>5. QED
        BY <3>1, <4>1, <4>2, <4>3, <4>4 DEF Used
    <3>2. QED
      BY <3>1
  <2>3. RowInv'
    BY <1>0, <2>1, <2>2, RowInvSame
  <2>4. Stored(docs, rows, lastId)' /\ Stored(saved, rows, lastId)'
    BY <2>1
  <2>5. Behind' /\ Synced' /\ Older'
    BY <2>1 DEF Behind, Synced, Older
  <2>6. QED
    BY <1>0, <2>3, <2>4, <2>5
<1>4. QED
  BY <1>1, <1>2, <1>3

LinkInv == TableInv /\ ReadInv /\ ResolveInv /\ WriteInv

LEMMA InitLinks == Init => LinkInv
<1> SUFFICES ASSUME Init PROVE LinkInv
  OBVIOUS
<1>1. TypeInv /\ TypeOK /\ phase = "idle"
  BY InitTypeInv DEF TypeInv, Init
<1>2. /\ docs = Nothing(Name) /\ saved = docs /\ rows = Nothing(Id) /\ lastId = 0
  BY DEF Init
<1>3. Live(docs) = {} /\ Live(saved) = {} /\ Live(rows) = {}
  BY <1>1, <1>2, LiveSets DEF Nothing
<1>4. Stored(docs, rows, lastId) /\ Stored(saved, rows, lastId)
  BY <1>3 DEF Stored, PidsGiven, OneDoc, BornRows, BornDocs, HalfRow, HalfDoc
<1>5. RowInv
  <2>1. RowIds
    BY <1>2 DEF RowIds, Nothing, Id
  <2>2. FidsUsed /\ KeepName /\ OneRow
    BY <1>3 DEF FidsUsed, KeepName, OneRow
  <2>3. QED
    BY <2>1, <2>2 DEF RowInv
<1>6. Behind /\ Synced /\ Older
  BY <1>1, <1>2, <1>3 DEF Behind, Synced, Older, Nothing
<1>7. TableInv
  BY <1>1, <1>4, <1>5, <1>6 DEF TableInv
<1>8. /\ opDocs = Nothing(Name) /\ knownDocs = Nothing(Name)
      /\ opRows = Nothing(Id) /\ knownRows = Nothing(Id)
  BY DEF Init
<1>9. DocsRead /\ RowsRead
  BY <1>8 DEF DocsRead, RowsRead, Nothing
<1>10. TwinsRead /\ DocCover /\ RowCover
  BY <1>1 DEF TwinsRead, DocCover, Looked, RowCover
<1>11. QED
  BY <1>1, <1>7, <1>9, <1>10 DEF LinkInv, ReadInv, ResolveInv, WriteInv

LEMMA NextLinks ==
  ASSUME LinkInv, NewNames, ~Unruly, [Next]_vars
  PROVE  LinkInv'
<1> USE DEF LinkInv
<1>1. TypeInv /\ TypeInv' /\ TypeOK'
  BY NextTypeInv DEF TableInv, TypeInv
<1>2. ASSUME ReadInv', phase \notin {"resolve", "write"}, phase' = phase PROVE ResolveInv' /\ WriteInv'
  BY <1>2 DEF ResolveInv, WriteInv
<1>3. CASE UNCHANGED vars
  <2>1. /\ UNCHANGED <<docs, saved, lost, rows, lastId, phase, full, opDocs, knownDocs,
                       opRows, knownRows, conflicted, pairs, onlyDocs, onlyRows, doomed>>
    BY <1>3 DEF vars, siteVars, partnerVars, runVars, readVars, planVars
  <2>2. ReadInv'
    BY <2>1, SameReads
  <2>3. TableInv'
    BY <1>1, <2>1 DEF TableInv, RowInv, RowIds, FidsUsed, KeepName, OneRow, Used, Behind,
       Synced, Older
  <2>4. ResolveInv'
    BY <2>1, SameResolved DEF ResolveInv
  <2>5. WriteInv'
    BY <2>1 DEF WriteInv, OnlyDocsNew, PairsAlive, AsRead, OnlyRowsNew, DoomedKnown, Deleted
  <2>6. QED
    BY <2>2, <2>3, <2>4, <2>5
<1>4. CASE \/ NewRow
           \/ \E n \in Name : NewDoc(n) \/ DeleteDoc(n)
           \/ \E i \in Id : DeleteRow(i)
  <2>1. TableInv' /\ ReadInv'
    BY <1>4, NewRowTables, NewDocTables, DeleteDocTables, DeleteRowTables,
       NewRowReads, NewDocReads, DeleteDocReads, DeleteRowReads
  <2>2. phase' = phase /\ phase # "resolve"
    BY <1>4, UserEffect DEF TableInv, TypeInv, NewRow, NewDoc, DeleteDoc, DeleteRow
  <2>3. WriteInv'
    BY <1>4, <2>1, UserWrites
  <2>4. QED
    BY <2>1, <2>2, <2>3 DEF ResolveInv
<1>5. CASE Start
  BY <1>5, StartReads DEF Start, ResolveInv, WriteInv
<1>6. CASE ReadLookup
  BY <1>6, LookupReads DEF ReadLookup, ResolveInv, WriteInv
<1>7. CASE ReadPartner
  BY <1>7, PartnerReads DEF ReadPartner, ResolveInv, WriteInv
<1>8. CASE Index
  BY <1>1, <1>8, IndexReads, IndexResolves DEF Index, WriteInv
<1>9. ASSUME NEW n \in Name, ResolveDoc(n) PROVE LinkInv'
  <2>1. /\ phase = "resolve"
        /\ UNCHANGED <<docs, saved, lost, rows, lastId, phase, full, opDocs, knownDocs,
                       opRows, knownRows>>
    BY <1>1, <1>9, ResolveDocEffect
  <2>2. TableInv' /\ ReadInv'
    BY <1>1, <2>1, SameTables, SameReads
  <2>3. ResolveInv'
    BY <1>1, <1>9, DocResolves
  <2>4. QED
    BY <2>1, <2>2, <2>3 DEF WriteInv
<1>10. ASSUME NEW i \in Id, ResolveRow(i) PROVE LinkInv'
  <2>1. /\ phase = "resolve"
        /\ UNCHANGED <<docs, saved, lost, rows, lastId, phase, full, opDocs, knownDocs,
                       opRows, knownRows>>
    BY <1>1, <1>10, ResolveRowEffect
  <2>2. TableInv' /\ ReadInv'
    BY <1>1, <2>1, SameTables, SameReads
  <2>3. ResolveInv'
    BY <1>1, <1>10, RowResolves
  <2>4. QED
    BY <2>1, <2>2, <2>3 DEF WriteInv
<1>11. CASE Plan
  <2>1. TableInv' /\ WriteInv'
    BY <1>11, PlanWrites
  <2>2. phase' = "write"
    BY <1>11 DEF Plan
  <2>3. ReadInv'
    BY <1>1, <2>2, NoReads
  <2>4. QED
    BY <2>1, <2>2, <2>3 DEF ResolveInv
<1>12. CASE \/ \E p \in pairs : SyncPair(p)
            \/ \E x \in doomed : DeleteOrphan(x)
            \/ \E n \in Name : CreateRow(n)
            \/ \E i \in Id : CreateDoc(i)
  <2>1. TableInv'
    BY <1>12, SyncPairTables, DeleteOrphanTables, CreateRowTables, CreateDocTables
  <2>2. WriteInv'
    BY <1>12, SyncPairWrites, DeleteOrphanWrites, CreateRowWrites, CreateDocWrites
  <2>3. phase' = "write"
    BY <1>12 DEF SyncPair, DeleteOrphan, CreateRow, CreateDoc, Writing
  <2>4. ReadInv'
    BY <1>1, <2>3, NoReads
  <2>5. QED
    BY <2>1, <2>2, <2>3, <2>4 DEF ResolveInv
<1>13. CASE EndRun \/ Finish \/ Crash
  <2>1. TableInv'
    BY <1>13, EndTables
  <2>2. phase' \in {"idle", "end"}
    BY <1>13, ResetType DEF EndRun, Finish, Crash
  <2>3. ReadInv'
    BY <1>1, <2>2, NoReads
  <2>4. QED
    BY <2>1, <2>2, <2>3 DEF ResolveInv, WriteInv
<1>14. QED
  BY <1>3, <1>4, <1>5, <1>6, <1>7, <1>8, <1>9, <1>10, <1>11, <1>12, <1>13 DEF Next

\* If users delete neither what was copied nor a copy while a run is at work, and no
\* name is given twice, then no run ever inserts a second row for a document or a
\* second document for a row: however often it is killed, and wherever its two
\* reads, the links it finds and the changes of users fall.
THEOREM OneEach ==
  ASSUME NewNames, ~Unruly
  PROVE  Spec => []OneCounterpart
<1>1. LinkInv => OneCounterpart
  BY DEF LinkInv, TableInv, RowInv, OneRow, Stored, OneDoc, OneCounterpart
<1>2. LinkInv /\ [Next]_vars => LinkInv'
  BY NextLinks
<1>3. QED
  BY <1>1, <1>2, InitLinks, PTL DEF Spec

-----------------------------------------------------------------------------
(* What was read while nothing changed *)

\* Until something changes, what was read is what is stored.
Fresh ==
  ~dirty =>
    /\ \A n \in Name : opDocs[n] # None => docs[n] = opDocs[n]
    /\ Looked => \A n \in Name : knownDocs[n] = IF n \in Live(docs) THEN docs[n] ELSE None
    /\ \A i \in Id : opRows[i] # None => rows[i] = opRows[i]
    /\ phase = "partner" /\ full => Live(opRows) = Live(rows)
    /\ phase = "resolve" =>
         \A i \in Id : knownRows[i] = IF i \in Live(rows) THEN rows[i] ELSE None

LEMMA NoReadsFresh ==
  ASSUME TypeInv', phase' \in {"idle", "write", "end"}
  PROVE  Fresh'
<1>1. /\ opDocs' = Nothing(Name) /\ opRows' = Nothing(Id)
  BY DEF TypeInv, NoLeftovers
<1>2. QED
  BY <1>1 DEF Fresh, Looked, Nothing

LEMMA ReadsFresh ==
  ASSUME TypeInv, Fresh, Start \/ ReadLookup \/ ReadPartner \/ Index
  PROVE  Fresh'
<1>1. TypeOK /\ UNCHANGED <<docs, rows, dirty>>
  BY DEF TypeInv, Start, ReadLookup, ReadPartner, Index, siteVars, partnerVars
<1>2. CASE Start
  <2>1. PICK S \in SUBSET Live(docs) :
          (full' => S = Live(docs)) /\ opDocs' = Delta(docs, S)
    BY <1>2 DEF Start
  <2>2. \A n \in Name : opDocs'[n] = IF n \in S THEN docs[n] ELSE None
    BY <1>1, <2>1, DocsDelta
  <2>3. \/ full' /\ phase' = "lookup" /\ knownDocs' = opDocs'
        \/ phase' = "frappe"
    BY <1>2, <2>1 DEF Start
  <2>4. \A i \in Id : opRows'[i] = None
    BY <1>2 DEF TypeInv, NoLeftovers, Start, Nothing
  <2>5. QED
    BY <1>1, <2>1, <2>2, <2>3, <2>4 DEF Fresh, Looked
<1>3. CASE ReadLookup
  <2>1. /\ phase' = "lookup" /\ knownDocs' = Delta(docs, Live(docs))
        /\ UNCHANGED <<opDocs, opRows>>
    BY <1>1, <1>3, ListedAsDelta DEF ReadLookup
  <2>2. \A n \in Name : knownDocs'[n] = IF n \in Live(docs) THEN docs[n] ELSE None
    BY <1>1, <2>1, DocsDelta
  <2>3. QED
    BY <1>1, <2>1, <2>2 DEF Fresh
<1>4. CASE ReadPartner
  <2>1. PICK S \in SUBSET Live(rows) :
          (full => S = Live(rows)) /\ opRows' = Delta(rows, S)
    BY <1>4 DEF ReadPartner
  <2>2. /\ Live(opRows') = S
        /\ \A i \in Id : opRows'[i] = IF i \in S THEN rows[i] ELSE None
    BY <1>1, <2>1, RowsDelta
  <2>3. phase = "lookup" /\ phase' = "partner" /\ UNCHANGED <<full, opDocs, knownDocs>>
    BY <1>4 DEF ReadPartner
  <2>4. QED
    BY <1>1, <2>1, <2>2, <2>3 DEF Fresh, Looked
<1>5. CASE Index
  <2>1. /\ phase = "partner" /\ phase' = "resolve" /\ UNCHANGED <<full, opDocs, knownDocs, opRows>>
        /\ knownRows' = IF full THEN opRows ELSE Delta(rows, Live(rows))
    BY <1>1, <1>5, ListedAsDelta DEF Index
  <2>2. \A i \in Id : Delta(rows, Live(rows))[i] = IF i \in Live(rows) THEN rows[i] ELSE None
    BY <1>1, RowsDelta
  <2>3. \A i \in Id : i \in Live(opRows) <=> opRows[i] # None
    BY <1>1, LiveSets DEF TypeOK
  <2>4. ~dirty => \A i \in Id : knownRows'[i] = IF i \in Live(rows) THEN rows[i] ELSE None
    BY <2>1, <2>2, <2>3 DEF Fresh
  <2>5. QED
    BY <1>1, <2>1, <2>4 DEF Fresh, Looked
<1>6. QED
  BY <1>2, <1>3, <1>4, <1>5

LEMMA NextFresh ==
  ASSUME TypeInv, Fresh, [Next]_vars
  PROVE  Fresh'
<1>1. TypeOK /\ TypeInv'
  BY NextTypeInv DEF TypeInv
<1>2. ASSUME UserMay, UserDid PROVE Fresh'
  <2>1. phase' = phase /\ dirty' = (phase # "idle")
    BY <1>1, <1>2, UserEffect
  <2>2. CASE phase = "idle"
    BY <1>1, <2>1, <2>2, NoReadsFresh
  <2>3. QED
    BY <2>1, <2>2 DEF Fresh
<1>3. ASSUME UNCHANGED <<docs, rows, dirty, phase, full, opDocs, knownDocs, opRows, knownRows>>
      PROVE  Fresh'
  BY <1>3 DEF Fresh, Looked
<1>4. CASE UNCHANGED vars
  BY <1>3, <1>4 DEF vars, siteVars, partnerVars, runVars, readVars
<1>5. CASE \/ NewRow
           \/ \E n \in Name : NewDoc(n) \/ DeleteDoc(n)
           \/ \E i \in Id : DeleteRow(i)
  BY <1>2, <1>5 DEF NewRow, NewDoc, DeleteDoc, DeleteRow
<1>6. CASE \/ \E n \in Name : ResolveDoc(n)
           \/ \E i \in Id : ResolveRow(i)
  BY <1>1, <1>3, <1>6, ResolveDocEffect, ResolveRowEffect DEF TypeInv
<1>7. CASE \/ \E p \in pairs : SyncPair(p)
           \/ \E x \in doomed : DeleteOrphan(x)
           \/ \E n \in Name : CreateRow(n)
           \/ \E i \in Id : CreateDoc(i)
           \/ Plan \/ EndRun \/ Finish \/ Crash
  <2>1. phase' \in {"idle", "write", "end"}
    BY <1>7, ResetType DEF SyncPair, DeleteOrphan, CreateRow, CreateDoc, Writing, Plan,
       EndRun, Finish, Crash
  <2>2. QED
    BY <1>1, <2>1, NoReadsFresh
<1>8. QED
  BY <1>4, <1>5, <1>6, <1>7, ReadsFresh DEF Next

\* While nothing changed, the pairs of a plan are the only ones that claim each
\* other, what has no counterpart is claimed by none, and what is to be deleted is
\* claimed by none and claims its counterpart alone.
LEMMA PlanClaims ==
  ASSUME TableInv, ReadInv, ResolveInv, Fresh, Plan, ~dirty
  PROVE  /\ \A p \in pairs' : /\ DocsClaiming(p.row) \subseteq {p.doc}
                              /\ RowsClaiming(p.doc) \subseteq {p.row}
                              /\ knownDocs[p.doc].pid \in {None, p.row}
                              /\ knownRows[p.row].fid \in {None, p.doc}
         /\ \A n \in onlyDocs' : RowsClaiming(n) = {}
         /\ \A i \in onlyRows' : DocsClaiming(i) = {}
         /\ \A n \in doomed' \cap Name :
              RowsClaiming(n) = {} /\ DocsClaiming(knownDocs[n].pid) = {n}
         /\ \A i \in doomed' \cap Id :
              DocsClaiming(i) = {} /\ RowsClaiming(knownRows[i].fid) = {i}
<1>1. /\ phase = "resolve" /\ TypeInv /\ TypeOK
      /\ \A p \in pairs' : p \in pairs /\ p.doc \notin conflicted /\ p.row \notin conflicted
      /\ \A n \in onlyDocs' : n \in onlyDocs /\ n \notin conflicted /\ opDocs[n].pid = None
      /\ \A i \in onlyRows' : i \in onlyRows /\ i \notin conflicted /\ opRows[i].fid = None
  BY PlanEffect DEF TableInv, TypeInv
<1>2. /\ Duplicates(knownRows) \subseteq conflicted
      /\ \A n \in onlyDocs : OnlyDocOk(n)
      /\ \A i \in onlyRows : OnlyRowOk(i)
      /\ \A p \in pairs : PairOk(p)
  BY <1>1 DEF ResolveInv
<1>3. /\ \A n \in Name \ conflicted : \A i, j \in RowsClaiming(n) : i = j
      /\ \A i \in Id \ conflicted : \A m, n \in DocsClaiming(i) : m = n
  BY <1>1, <1>2, OneClaim
<1>4. /\ \A n \in Name : knownDocs[n] = IF n \in Live(docs) THEN docs[n] ELSE None
      /\ \A n \in Name : opDocs[n] # None => docs[n] = opDocs[n]
      /\ \A i \in Id : knownRows[i] = IF i \in Live(rows) THEN rows[i] ELSE None
  BY <1>1 DEF Fresh, Looked
<1>5. /\ \A n \in Live(knownDocs) : n \in Live(docs) /\ knownDocs[n] = docs[n]
      /\ \A n \in Live(opDocs) : n \in Live(knownDocs) /\ knownDocs[n] = opDocs[n]
      /\ \A i \in Live(knownRows) : i \in Live(rows) /\ knownRows[i] = rows[i]
  BY <1>1, <1>4, LiveSets
<1>6. ASSUME NEW p \in pairs'
      PROVE  /\ DocsClaiming(p.row) \subseteq {p.doc}
             /\ RowsClaiming(p.doc) \subseteq {p.row}
             /\ knownDocs[p.doc].pid \in {None, p.row}
             /\ knownRows[p.row].fid \in {None, p.doc}
  <2>1. /\ p.doc \in Name \ conflicted /\ p.row \in Id \ conflicted
        /\ p.pid \in {None, p.row} /\ p.fid \in {None, p.doc}
        /\ ~(p.pid = None /\ p.fid = None)
        /\ p.row \in Live(knownRows) /\ knownRows[p.row].fid = p.fid
        /\ \/ p.doc \in Live(opDocs) /\ p.pid = opDocs[p.doc].pid
           \/ p.doc \in Live(knownDocs) /\ p.pid = knownDocs[p.doc].pid
    BY <1>1, <1>2, PlanPair
  <2>2. p.doc \in Live(knownDocs) /\ p.pid = knownDocs[p.doc].pid
    BY <1>5, <2>1
  <2>3. DocsClaiming(p.row) \subseteq {p.doc}
    <3>1. CASE p.pid = p.row
      BY <1>3, <2>1, <2>2, <3>1 DEF DocsClaiming
    <3>2. CASE p.pid = None
      <4>1. HalfDoc(docs, rows)
        BY DEF TableInv, Stored
      <4>2. docs[p.doc].pid = None /\ rows[p.row].fid = p.doc
        BY <1>5, <2>1, <2>2, <3>2
      <4>3. \A m \in Live(docs) : docs[m].pid # p.row
        BY <1>5, <2>1, <2>2, <4>1, <4>2 DEF HalfDoc
      <4>4. QED
        BY <1>5, <4>3 DEF DocsClaiming
    <3>3. QED
      BY <2>1, <3>1, <3>2
  <2>4. RowsClaiming(p.doc) \subseteq {p.row}
    <3>1. CASE p.fid = p.doc
      BY <1>3, <2>1, <3>1 DEF RowsClaiming
    <3>2. CASE p.fid = None
      <4>1. HalfRow(docs, rows)
        BY DEF TableInv, Stored
      <4>2. docs[p.doc].pid = p.row /\ rows[p.row].fid = None
        BY <1>5, <2>1, <2>2, <3>2
      <4>3. \A j \in Live(rows) : rows[j].fid # p.doc
        BY <1>5, <2>1, <2>2, <4>1, <4>2 DEF HalfRow
      <4>4. QED
        BY <1>5, <4>3 DEF RowsClaiming
    <3>3. QED
      BY <2>1, <3>1, <3>2
  <2>5. QED
    BY <2>1, <2>2, <2>3, <2>4
<1>7. ASSUME NEW n \in onlyDocs' PROVE RowsClaiming(n) = {}
  <2>1. /\ RowsOf(n, opDocs[n]) = {} /\ opDocs[n].pid = None /\ n \in Name \ conflicted
    BY <1>1, <1>2, <1>7 DEF OnlyDocOk, TypeOK
  <2>2. Sole(RowsClaiming(n)) = {}
    BY <1>1, <2>1, LiveSets DEF RowsOf
  <2>3. QED
    BY <1>3, <2>1, <2>2, SoleIs
<1>8. ASSUME NEW i \in onlyRows' PROVE DocsClaiming(i) = {}
  <2>1. Sole(DocsClaiming(i)) = {} /\ i \in Id \ conflicted
    BY <1>1, <1>2, <1>8 DEF OnlyRowOk, TypeOK
  <2>2. QED
    BY <1>3, <2>1, SoleIs
<1>9. \A x \in doomed' : x \in Orphans
  BY PlanEffect DEF TableInv
<1>10. Live(knownDocs) \subseteq Name /\ Live(knownRows) \subseteq Id
  BY <1>1, LiveSets
<1>11. ASSUME NEW n \in doomed' \cap Name
       PROVE  RowsClaiming(n) = {} /\ DocsClaiming(knownDocs[n].pid) = {n}
  <2>1. /\ n \in Live(knownDocs) /\ knownDocs[n].pid # None
        /\ Sole(RowsClaiming(n)) = {}
        /\ DocKeys(n, knownDocs[n]) \cap conflicted = {}
    BY <1>9, <1>10, <1>11 DEF Orphans
  <2>2. n \notin conflicted
    BY <1>11, <2>1 DEF DocKeys
  <2>3. RowsClaiming(n) = {}
    BY <1>3, <1>11, <2>1, <2>2, SoleIs
  <2>4. ASSUME NEW m \in Live(knownDocs), knownDocs[m].pid = knownDocs[n].pid, m # n
        PROVE  FALSE
    <3>1. n \in Duplicates(knownRows)
      BY <1>11, <2>1, <2>4 DEF Duplicates, DocKeys
    <3>2. QED
      BY <1>2, <2>2, <3>1
  <2>5. DocsClaiming(knownDocs[n].pid) = {n}
    BY <2>1, <2>4 DEF DocsClaiming
  <2>6. QED
    BY <2>3, <2>5
<1>12. ASSUME NEW i \in doomed' \cap Id
       PROVE  DocsClaiming(i) = {} /\ RowsClaiming(knownRows[i].fid) = {i}
  <2>1. /\ i \in Live(knownRows) /\ knownRows[i].fid # None
        /\ Sole(DocsClaiming(i)) = {}
        /\ RowKeys(i, knownRows[i]) \cap conflicted = {}
    BY <1>9, <1>10, <1>12 DEF Orphans
  <2>2. i \notin conflicted
    BY <1>12, <2>1 DEF RowKeys
  <2>3. DocsClaiming(i) = {}
    BY <1>3, <1>12, <2>1, <2>2, SoleIs
  <2>4. ASSUME NEW j \in Live(knownRows), knownRows[j].fid = knownRows[i].fid, j # i
        PROVE  FALSE
    <3>1. i \in Duplicates(knownRows)
      BY <1>12, <2>1, <2>4 DEF Duplicates, RowKeys
    <3>2. QED
      BY <1>2, <2>2, <3>1
  <2>5. RowsClaiming(knownRows[i].fid) = {i}
    BY <2>1, <2>4 DEF RowsClaiming
  <2>6. QED
    BY <2>3, <2>5
<1>13. QED
  BY <1>6, <1>7, <1>8, <1>11, <1>12

\* A run in which nothing changed plans writes for the only records that claim each
\* other: a record in a contradiction is neither written, created again nor deleted.
THEOREM PairsAreUnambiguous ==
  ASSUME NewNames, ~Unruly
  PROVE  Spec => UnambiguousPairs
<1> DEFINE Step ==
      phase = "resolve" /\ phase' = "write" /\ ~dirty =>
        /\ \A p \in pairs' : /\ DocsClaiming(p.row) \subseteq {p.doc}
                             /\ RowsClaiming(p.doc) \subseteq {p.row}
                             /\ knownDocs[p.doc].pid \in {None, p.row}
                             /\ knownRows[p.row].fid \in {None, p.doc}
        /\ \A n \in onlyDocs' : RowsClaiming(n) = {}
        /\ \A i \in onlyRows' : DocsClaiming(i) = {}
        /\ \A n \in doomed' \cap Name :
             RowsClaiming(n) = {} /\ DocsClaiming(knownDocs[n].pid) = {n}
        /\ \A i \in doomed' \cap Id :
             DocsClaiming(i) = {} /\ RowsClaiming(knownRows[i].fid) = {i}
<1>1. Init => Fresh
  BY DEF Init, Fresh, Looked, Nothing
<1>2. LinkInv /\ Fresh /\ [Next]_vars => LinkInv' /\ Fresh'
  BY NextLinks, NextFresh DEF LinkInv, TableInv
<1>3. LinkInv /\ Fresh /\ [Next]_vars => [Step]_vars
  <2> SUFFICES ASSUME LinkInv, Fresh, Next, phase = "resolve", phase' = "write", ~dirty
               PROVE  Step
    BY DEF Step
  <2>1. TypeInv
    BY DEF LinkInv, TableInv
  <2>2. CASE Plan
    BY <2>2, PlanClaims DEF LinkInv
  <2>3. Plan
    <3>1. ~(\E n \in Name : ResolveDoc(n)) /\ ~(\E i \in Id : ResolveRow(i))
      BY <2>1, ResolveDocEffect, ResolveRowEffect
    <3>2. QED
      BY <3>1, ResetType DEF Next, NewDoc, DeleteDoc, NewRow, DeleteRow, UserMay, Start,
         ReadLookup, ReadPartner, Index, SyncPair, DeleteOrphan, CreateRow, CreateDoc,
         Writing, EndRun, Finish, Crash
  <2>4. QED
    BY <2>2, <2>3
<1>4. [][Step]_vars => UnambiguousPairs
  BY DEF UnambiguousPairs, Step
<1>5. QED
  BY <1>1, <1>2, <1>3, <1>4, InitLinks, PTL DEF Spec

-----------------------------------------------------------------------------
(* What a run deletes *)

\* A full sync knows every document a row names and has every row a document stores,
\* as far as they exist.
FullCover ==
  Looked /\ full =>
    /\ \A i \in Live(rows) : rows[i].fid \in Live(docs) => rows[i].fid \in Live(knownDocs)
    /\ phase # "lookup" =>
         \A n \in Live(knownDocs) : knownDocs[n].pid \in Live(rows) => knownDocs[n].pid \in Live(opRows)
    /\ phase = "resolve" => knownRows = opRows

LEMMA UserCover ==
  ASSUME TableInv, ReadInv, FullCover, NewNames,
         \/ NewRow
         \/ \E n \in Name : NewDoc(n) \/ DeleteDoc(n)
         \/ \E i \in Id : DeleteRow(i)
  PROVE  FullCover'
<1>1. TypeOK /\ RowInv /\ UserMay /\ UserDid
  BY DEF TableInv, TypeInv, NewRow, NewDoc, DeleteDoc, DeleteRow
<1>2. UNCHANGED <<phase, full, knownDocs, opRows, knownRows>> /\ phase # "resolve"
  BY <1>1, UserEffect
<1>3. SUFFICES ASSUME Looked, full
               PROVE  /\ \A i \in Live(rows') :
                           rows'[i].fid \in Live(docs') => rows'[i].fid \in Live(knownDocs)
                      /\ phase # "lookup" =>
                           \A n \in Live(knownDocs) :
                             knownDocs[n].pid \in Live(rows') => knownDocs[n].pid \in Live(opRows)
  BY <1>2 DEF FullCover, Looked
<1>4. /\ \A i \in Live(rows) : rows[i].fid \in Live(docs) => rows[i].fid \in Live(knownDocs)
      /\ phase # "lookup" =>
           \A n \in Live(knownDocs) :
             knownDocs[n].pid \in Live(rows) => knownDocs[n].pid \in Live(opRows)
  BY <1>3 DEF FullCover
<1>5. /\ docs \in [Name -> Doc \cup {None, Gone}] /\ saved \in [Name -> Doc \cup {None, Gone}]
      /\ rows \in [Id -> Row \cup {None, Gone}] /\ lastId \in 0..MaxId
      /\ Live(rows) \subseteq Id /\ Live(docs) \subseteq Name
  BY <1>1, LiveSets DEF TypeOK
<1>6. CASE NewRow
  <2>1. docs' = docs
    BY <1>6 DEF NewRow, siteVars
  <2>2. PICK f \in Name \cup {None} :
          /\ f # None => \E j \in Live(rows) : rows[j].fid = f
          /\ [fid |-> f, born |-> None] \in Row
          /\ lastId + 1 \in Id
          /\ rows' = [rows EXCEPT ![lastId + 1] = [fid |-> f, born |-> None]]
    BY <1>1, <1>6, NewRowType
  <2> DEFINE k == lastId + 1
             r == [fid |-> f, born |-> None]
  <2>3. r \in Row /\ r.fid = f /\ k \in Id /\ rows' = Put(rows, k, r)
    BY <2>2 DEF Put
  <2>4. ~(k <= lastId)
    BY <1>5
  <2> HIDE DEF k, r
  <2>5. /\ Live(rows') = Live(rows) \cup {k}
        /\ rows'[k] = r /\ \A j \in Id : j # k => rows'[j] = rows[j]
    BY <1>5, <2>3, RowInserted
  <2>6. None \notin Live(docs)
    BY <1>5
  <2>7. \A i \in Live(rows') : rows'[i].fid \in Live(docs) => rows'[i].fid \in Live(knownDocs)
    BY <1>4, <1>5, <2>2, <2>3, <2>5, <2>6
  <2>8. \A n \in Live(knownDocs) : knownDocs[n].pid # k
    <3>1. PidsGiven(knownDocs, lastId)
      BY <1>3 DEF ReadInv, DocCover
    <3>2. k # None
      BY <2>3
    <3>3. QED
      BY <2>4, <3>1, <3>2 DEF PidsGiven
  <2>9. QED
    BY <1>4, <2>1, <2>5, <2>7, <2>8
<1>7. ASSUME NEW n \in Name, NewDoc(n) PROVE FullCover'
  <2>1. rows' = rows /\ Unused(n)
    BY <1>7 DEF NewDoc, partnerVars
  <2>2. \A j \in Live(rows) : rows[j].fid # n
    BY <1>1, <2>1, UnusedFree
  <2>3. PICK p \in Id \cup {None} :
          /\ [pid |-> p, born |-> None] \in Doc
          /\ docs' = [docs EXCEPT ![n] = [pid |-> p, born |-> None]]
    BY <1>1, <1>7, NewDocType
  <2> DEFINE d == [pid |-> p, born |-> None]
  <2>4. d \in Doc /\ docs' = Put(docs, n, d)
    BY <2>3 DEF Put
  <2> HIDE DEF d
  <2>5. Live(docs') = Live(docs) \cup {n}
    BY <1>5, <2>4, DocInserted
  <2>6. QED
    BY <1>2, <1>4, <2>1, <2>2, <2>5 DEF FullCover
<1>8. ASSUME NEW n \in Name, DeleteDoc(n) PROVE FullCover'
  <2>1. rows' = rows /\ docs' = Put(docs, n, Gone)
    BY <1>8 DEF DeleteDoc, SetDoc, Put, partnerVars
  <2>2. Live(docs') = Live(docs) \ {n}
    BY <1>5, <2>1, DocDeleted
  <2>3. QED
    BY <1>2, <1>4, <2>1, <2>2 DEF FullCover
<1>9. ASSUME NEW i \in Id, DeleteRow(i) PROVE FullCover'
  <2>1. docs' = docs /\ rows' = Put(rows, i, Gone)
    BY <1>9 DEF DeleteRow, siteVars, Put
  <2>2. /\ Live(rows') = Live(rows) \ {i}
        /\ \A j \in Id : j # i => rows'[j] = rows[j]
    BY <1>5, <2>1, RowDeleted
  <2>3. QED
    BY <1>2, <1>4, <1>5, <2>1, <2>2 DEF FullCover
<1>10. QED
  BY <1>2, <1>3, <1>6, <1>7, <1>8, <1>9 DEF FullCover, Looked

LEMMA NextCover ==
  ASSUME TableInv, ReadInv, FullCover, NewNames, [Next]_vars
  PROVE  FullCover'
<1>1. TypeInv /\ TypeOK /\ TypeInv'
  BY NextTypeInv DEF TableInv, TypeInv
<1>2. ASSUME UNCHANGED <<docs, rows, phase, full, knownDocs, opRows, knownRows>>
      PROVE  FullCover'
  BY <1>2 DEF FullCover, Looked
<1>3. CASE UNCHANGED vars
  BY <1>2, <1>3 DEF vars, siteVars, partnerVars, runVars, readVars
<1>4. CASE \/ NewRow
           \/ \E n \in Name : NewDoc(n) \/ DeleteDoc(n)
           \/ \E i \in Id : DeleteRow(i)
  BY <1>4, UserCover
<1>5. CASE Start
  <2>1. PICK S \in SUBSET Live(docs) :
          (full' => S = Live(docs)) /\ opDocs' = Delta(docs, S)
    BY <1>5 DEF Start
  <2>2. Live(opDocs') = S
    BY <1>1, <2>1, DocsDelta
  <2>3. \/ full' /\ phase' = "lookup" /\ knownDocs' = opDocs'
        \/ phase' = "frappe"
    BY <1>5, <2>1 DEF Start
  <2>4. UNCHANGED <<docs, rows>>
    BY <1>5 DEF Start, siteVars, partnerVars
  <2>5. QED
    BY <2>1, <2>2, <2>3, <2>4 DEF FullCover, Looked
<1>6. CASE ReadLookup
  <2>1. ~full /\ full' = full
    BY <1>6 DEF ReadLookup, ReadInv, TwinsRead
  <2>2. QED
    BY <2>1 DEF FullCover
<1>7. CASE ReadPartner
  <2>1. PICK S \in SUBSET Live(rows) :
          (full => S = Live(rows)) /\ opRows' = Delta(rows, S)
    BY <1>7 DEF ReadPartner
  <2>2. Live(opRows') = S
    BY <1>1, <2>1, RowsDelta
  <2>3. /\ phase = "lookup" /\ phase' = "partner"
        /\ UNCHANGED <<docs, rows, full, knownDocs>>
    BY <1>7 DEF ReadPartner, siteVars, partnerVars
  <2>4. QED
    BY <2>1, <2>2, <2>3 DEF FullCover, Looked
<1>8. CASE Index
  <2>1. /\ phase = "partner" /\ phase' = "resolve"
        /\ UNCHANGED <<docs, rows, full, knownDocs, opRows>>
        /\ full => knownRows' = opRows
    BY <1>8 DEF Index, siteVars, partnerVars
  <2>2. QED
    BY <2>1 DEF FullCover, Looked
<1>9. CASE \/ \E n \in Name : ResolveDoc(n)
           \/ \E i \in Id : ResolveRow(i)
  BY <1>1, <1>2, <1>9, ResolveDocEffect, ResolveRowEffect
<1>10. CASE \/ \E p \in pairs : SyncPair(p)
            \/ \E x \in doomed : DeleteOrphan(x)
            \/ \E n \in Name : CreateRow(n)
            \/ \E i \in Id : CreateDoc(i)
            \/ Plan \/ EndRun \/ Finish \/ Crash
  <2>1. phase' \in {"idle", "write", "end"}
    BY <1>10, ResetType DEF SyncPair, DeleteOrphan, CreateRow, CreateDoc, Writing, Plan,
       EndRun, Finish, Crash
  <2>2. QED
    BY <2>1 DEF FullCover, Looked
<1>11. QED
  BY <1>3, <1>4, <1>5, <1>6, <1>7, <1>8, <1>9, <1>10 DEF Next

\* What is committed as deleted is deleted.
GoneBehind == \A n \in Name : saved[n] = Gone => docs[n] = Gone

LEMMA GoneStays ==
  ASSUME TableInv, WriteInv,
         \/ \E p \in pairs : SyncPair(p)
         \/ \E x \in doomed : DeleteOrphan(x)
         \/ \E n \in Name : CreateRow(n)
         \/ \E i \in Id : CreateDoc(i)
  PROVE  saved' \in {saved, docs'} /\ \A n \in Name : docs[n] = Gone => docs'[n] = Gone
<1>1. TypeOK /\ docs \in [Name -> Doc \cup {None, Gone}] /\ Behind
  BY DEF TableInv, TypeInv, TypeOK
<1>2. ASSUME NEW p \in pairs, SyncPair(p)
      PROVE  saved' \in {saved, docs'} /\ \A n \in Name : docs[n] = Gone => docs'[n] = Gone
  <2>1. /\ p.doc \in Name /\ saved' \in {saved, docs'} /\ Live(docs') = Live(docs)
        /\ \A m \in Name : docs[m] # None <=> docs'[m] # None
    BY <1>2, SyncPairLeaves
  <2>2. docs' \in [Name -> Doc \cup {None, Gone}]
    BY <1>1, <1>2, SyncPairEffect
  <2>3. QED
    BY <1>1, <2>1, <2>2, LiveDocs
<1>3. ASSUME NEW x \in doomed, DeleteOrphan(x)
      PROVE  saved' \in {saved, docs'} /\ \A n \in Name : docs[n] = Gone => docs'[n] = Gone
  <2>1. /\ saved' \in {saved, docs'}
        /\ \/ docs' = docs
           \/ x \in Name /\ docs' = [docs EXCEPT ![x] = Gone]
    BY <1>1, <1>3, DeleteOrphanEffect
  <2>2. QED
    BY <1>1, <2>1
<1>4. ASSUME NEW n \in Name, CreateRow(n)
      PROVE  saved' \in {saved, docs'} /\ \A m \in Name : docs[m] = Gone => docs'[m] = Gone
  <2>1. /\ saved' \in {saved, docs'}
        /\ \/ docs' = docs
           \/ n \in Live(docs) /\ docs' = [docs EXCEPT ![n].pid = lastId + 1]
    BY <1>1, <1>4, CreateRowEffect
  <2>2. n \in Live(docs) => docs[n] # Gone
    BY DEF Live
  <2>3. QED
    BY <1>1, <2>1, <2>2
<1>5. ASSUME NEW i \in Id, CreateDoc(i)
      PROVE  saved' \in {saved, docs'} /\ \A m \in Name : docs[m] = Gone => docs'[m] = Gone
  <2>1. /\ saved' \in {saved, docs'}
        /\ \/ docs' = docs
           \/ \E n \in Name : Unused(n) /\ docs' = [docs EXCEPT ![n] = [pid |-> i, born |-> i]]
    BY <1>1, <1>5, CreateDocEffect
  <2>2. \A n \in Name : Unused(n) => docs[n] # Gone
    BY DEF Unused
  <2>3. QED
    BY <1>1, <2>1, <2>2
<1>6. QED
  BY <1>2, <1>3, <1>4, <1>5

LEMMA NextGone ==
  ASSUME TableInv, WriteInv, GoneBehind, [Next]_vars
  PROVE  GoneBehind'
<1>1. TypeInv /\ TypeOK /\ RowInv
  BY DEF TableInv, TypeInv
<1>2. ASSUME UNCHANGED <<docs, saved>> PROVE GoneBehind'
  BY <1>2 DEF GoneBehind
<1>3. CASE UNCHANGED vars
  BY <1>2, <1>3 DEF vars, siteVars
<1>4. CASE \/ NewRow
           \/ \E n \in Name : NewDoc(n) \/ DeleteDoc(n)
           \/ \E i \in Id : DeleteRow(i)
  <2>1. UserLeaves
    BY <1>1, <1>4, UserShape
  <2>2. \A m \in Name : docs'[m] # docs[m] \/ saved'[m] # saved[m] => docs'[m] = saved'[m]
    BY <2>1 DEF UserLeaves
  <2>3. QED
    BY <2>2 DEF GoneBehind
<1>5. CASE Start \/ ReadLookup \/ ReadPartner \/ Index \/ Plan \/ Finish
  BY <1>2, <1>5 DEF Start, ReadLookup, ReadPartner, Index, Plan, Finish, siteVars
<1>6. CASE \/ \E n \in Name : ResolveDoc(n)
           \/ \E i \in Id : ResolveRow(i)
  BY <1>1, <1>2, <1>6, ResolveDocEffect, ResolveRowEffect
<1>7. CASE \/ \E p \in pairs : SyncPair(p)
           \/ \E x \in doomed : DeleteOrphan(x)
           \/ \E n \in Name : CreateRow(n)
           \/ \E i \in Id : CreateDoc(i)
  BY <1>7, GoneStays DEF GoneBehind
<1>8. CASE EndRun \/ Crash
  BY <1>8 DEF EndRun, Crash, GoneBehind
<1>9. QED
  BY <1>3, <1>4, <1>5, <1>6, <1>7, <1>8 DEF Next

\* What is to be deleted is in no pair.  The row such a document stores is gone,
\* unless the run has inserted it again, after the partner deleted the row of a pair;
\* the document such a row names was deleted, or its insert was rolled back.
Missing(x) ==
  /\ x \in Live(docs) /\ docs[x].pid \in Live(rows) => dirty /\ rows[docs[x].pid].born = x
  /\ x \in Live(rows) => rows[x].fid \in lost \cup {n \in Name : docs[n] = Gone}

DoomedInv ==
  phase = "write" =>
    /\ \A p \in pairs : p.doc \notin doomed /\ p.row \notin doomed
    /\ \A p \in pairs : p.row \in Live(rows) \/ dirty
    /\ \A x \in doomed : Missing(x)

LEMMA PlanDoomed ==
  ASSUME TableInv, ReadInv, ResolveInv, FullCover, Fresh, Plan
  PROVE  DoomedInv'
<1>1. /\ phase = "resolve" /\ phase' = "write"
      /\ UNCHANGED <<docs, saved, lost, rows, lastId, dirty>>
      /\ \A p \in pairs' : p \in pairs /\ p.doc \notin conflicted /\ p.row \notin conflicted
      /\ doomed' = IF config.delete /\ full THEN Orphans ELSE {}
  BY PlanEffect DEF TableInv
<1>2. TypeInv /\ TypeOK /\ docs = saved
  BY <1>1 DEF TableInv, Synced, TypeInv
<1>3. /\ Duplicates(knownRows) \subseteq conflicted
      /\ \A p \in pairs : PairOk(p)
  BY <1>1 DEF ResolveInv
<1>4. \A p \in pairs' :
        /\ p.doc \in Name /\ p.row \in Id
        /\ p.pid \in {None, p.row} /\ p.fid \in {None, p.doc}
        /\ ~(p.pid = None /\ p.fid = None)
        /\ p.row \in Live(knownRows) /\ knownRows[p.row].fid = p.fid
        /\ \/ p.doc \in Live(opDocs) /\ p.pid = opDocs[p.doc].pid
           \/ p.doc \in Live(knownDocs) /\ p.pid = knownDocs[p.doc].pid
  BY <1>1, <1>2, <1>3, PlanPair
<1>5. doomed' # {} => /\ knownDocs = opDocs
                      /\ \A i \in Live(rows) : rows[i].fid \in Live(docs) =>
                                                 rows[i].fid \in Live(knownDocs)
                      /\ \A n \in Live(knownDocs) : knownDocs[n].pid \in Live(rows) =>
                                                      knownDocs[n].pid \in Live(knownRows)
  BY <1>1 DEF ReadInv, DocCover, FullCover, Looked
<1>6. \A x \in doomed' :
        \/ /\ x \in Live(knownDocs)
           /\ knownDocs[x].pid # None /\ knownDocs[x].pid \notin Live(knownRows)
        \/ /\ x \in Live(knownRows)
           /\ knownRows[x].fid # None /\ knownRows[x].fid \notin Live(knownDocs)
  BY <1>1 DEF Orphans
<1>7. /\ \A n \in Live(knownDocs) : n \in Name /\ docs[n] \in {knownDocs[n], Gone}
      /\ \A i \in Live(knownRows) : i \in Id /\ rows[i] \in {knownRows[i], Gone}
      /\ Live(docs) = {n \in Name : docs[n] \in Doc} /\ Live(rows) = {i \in Id : rows[i] \in Row}
  BY <1>2, LiveSets DEF ReadInv, DocsRead, RowsRead
<1>8. ASSUME NEW p \in pairs' PROVE p.doc \notin doomed' /\ p.row \notin doomed'
  <2>1. ASSUME p.doc \in doomed' PROVE FALSE
    <3>1. p.doc \notin Live(knownRows)
      BY <1>4, <1>7
    <3>2. /\ p.doc \in Live(knownDocs) /\ knownDocs[p.doc].pid # None
          /\ knownDocs[p.doc].pid \notin Live(knownRows)
      BY <1>6, <2>1, <3>1
    <3>3. p.pid = knownDocs[p.doc].pid
      BY <1>4, <1>5, <2>1
    <3>4. QED
      BY <1>4, <3>2, <3>3
  <2>2. ASSUME p.row \in doomed' PROVE FALSE
    <3>1. p.row \notin Live(knownDocs)
      BY <1>4, <1>7
    <3>2. knownRows[p.row].fid # None /\ knownRows[p.row].fid \notin Live(knownDocs)
      BY <1>6, <2>2, <3>1
    <3>3. p.doc \in Live(knownDocs)
      BY <1>4, <1>5, <2>2
    <3>4. QED
      BY <1>4, <3>2, <3>3
  <2>3. QED
    BY <2>1, <2>2
<1>9. ASSUME NEW p \in pairs' PROVE p.row \in Live(rows) \/ dirty
  <2>1. p.row \in Live(knownRows) /\ p.row \in Id
    BY <1>4
  <2>2. knownRows[p.row] # None
    BY <2>1 DEF Live
  <2>3. ~dirty => \A i \in Id : knownRows[i] = IF i \in Live(rows) THEN rows[i] ELSE None
    BY <1>1 DEF Fresh
  <2>4. QED
    BY <2>1, <2>2, <2>3
<1>10. ASSUME NEW x \in doomed' PROVE Missing(x)
  <2>1. ASSUME x \in Live(docs), docs[x].pid \in Live(rows) PROVE FALSE
    <3>1. x \in Name /\ docs[x] # Gone
      BY <1>7, <2>1
    <3>2. x \notin Live(knownRows)
      BY <1>7, <3>1
    <3>3. x \in Live(knownDocs) /\ knownDocs[x].pid \notin Live(knownRows)
      BY <1>6, <3>2
    <3>4. docs[x] = knownDocs[x]
      BY <1>7, <3>1, <3>3
    <3>5. QED
      BY <1>5, <2>1, <3>3, <3>4
  <2>2. ASSUME x \in Live(rows) PROVE rows[x].fid \in lost \cup {n \in Name : docs[n] = Gone}
    <3>1. x \in Id /\ rows[x] # Gone /\ rows[x] \in Row
      BY <1>7, <2>2
    <3>2. x \notin Live(knownDocs)
      BY <1>7, <3>1
    <3>3. /\ x \in Live(knownRows)
          /\ knownRows[x].fid # None /\ knownRows[x].fid \notin Live(knownDocs)
      BY <1>6, <3>2
    <3>4. rows[x] = knownRows[x]
      BY <1>7, <3>1, <3>3
    <3>5. rows[x].fid \in Name /\ rows[x].fid \notin Live(docs)
      BY <1>5, <2>2, <3>1, <3>3, <3>4 DEF Row
    <3>6. docs[rows[x].fid] # None \/ rows[x].fid \in lost
      BY <2>2, <3>3, <3>4 DEF TableInv, RowInv, FidsUsed, Used
    <3>7. docs[rows[x].fid] \in Doc \cup {None, Gone}
      BY <1>2, <3>5 DEF TypeOK
    <3>8. QED
      BY <1>7, <3>5, <3>6, <3>7
  <2>3. QED
    BY <2>1, <2>2 DEF Missing
<1>11. QED
  BY <1>1, <1>8, <1>9, <1>10 DEF DoomedInv, Missing

\* A write that leaves a record alone, or deletes it, leaves it missing.
LEMMA StaysMissing ==
  ASSUME TableInv, TypeOK', NEW x \in doomed, Missing(x), lost' = lost, dirty => dirty',
         \A n \in Name : docs[n] = Gone => docs'[n] = Gone,
         x \in Live(docs') => x \in Live(docs) /\ docs'[x] = docs[x],
         x \in Live(rows') => x \in Live(rows) /\ rows'[x] = rows[x],
         \A j \in Live(rows') : \/ j \in Live(rows) /\ rows'[j].born = rows[j].born
                                \/ rows[j] = None
  PROVE  Missing(x)'
<1>1. TypeOK /\ RowIds /\ PidsGiven(docs, lastId)
  BY DEF TableInv, TypeInv, RowInv, Stored
<1>2. /\ \A n \in Live(docs) : n \in Name /\ docs[n].pid \in Id \cup {None}
      /\ \A i \in Id : rows[i] = None => ~(i <= lastId)
  BY <1>1, LiveSets DEF Doc, RowIds
<1>3. ASSUME x \in Live(docs'), docs'[x].pid \in Live(rows')
      PROVE  dirty' /\ rows'[docs'[x].pid].born = x
  <2>1. x \in Live(docs) /\ docs'[x] = docs[x] /\ docs[x].pid \in Live(rows')
    BY <1>3
  <2>2. docs[x].pid \in Live(rows) /\ rows'[docs[x].pid].born = rows[docs[x].pid].born
    <3>1. CASE docs[x].pid = None
      <4>1. None \notin Live(rows')
        BY LiveRows DEF TypeOK
      <4>2. QED
        BY <2>1, <3>1, <4>1
    <3>2. CASE docs[x].pid # None
      BY <1>1, <1>2, <2>1, <3>2 DEF PidsGiven
    <3>3. QED
      BY <3>1, <3>2
  <2>3. QED
    BY <2>1, <2>2 DEF Missing
<1>4. ASSUME x \in Live(rows') PROVE rows'[x].fid \in lost' \cup {n \in Name : docs'[n] = Gone}
  BY <1>4 DEF Missing
<1>5. QED
  BY <1>3, <1>4 DEF Missing

LEMMA UserDoomed ==
  ASSUME TableInv, TypeOK', WriteInv, DoomedInv,
         \/ NewRow
         \/ \E n \in Name : NewDoc(n) \/ DeleteDoc(n)
         \/ \E i \in Id : DeleteRow(i)
  PROVE  DoomedInv'
<1>1. TypeOK /\ UserMay /\ UserDid /\ UserLeaves
  BY UserShape DEF TableInv, TypeInv
<1>2. /\ UNCHANGED <<phase, pairs, doomed>> /\ dirty' = (phase # "idle")
      /\ lost' = lost
  BY <1>1, UserEffect DEF NewRow, NewDoc, DeleteDoc, DeleteRow, siteVars
<1>3. SUFFICES ASSUME phase = "write", NEW x \in doomed PROVE Missing(x)'
  BY <1>2 DEF DoomedInv
<1>4. Missing(x) /\ DoomedKnown /\ dirty'
  BY <1>2, <1>3 DEF DoomedInv, WriteInv
<1>5. /\ \A n \in Name : docs[n] = Gone => docs'[n] = Gone
      /\ \A j \in Live(rows') : \/ j \in Live(rows) /\ rows'[j].born = rows[j].born
                                \/ rows[j] = None
  BY <1>1 DEF UserLeaves
<1>6. x \in Live(docs') => x \in Live(docs) /\ docs'[x] = docs[x]
  <2>1. ASSUME x \in Live(docs') PROVE x \in Live(docs) /\ docs'[x] = docs[x]
    <3>1. x \in Name /\ docs'[x] # Gone
      BY <1>1, <2>1, LiveDocs DEF TypeOK
    <3>2. docs[x] # None
      BY <1>4, <3>1 DEF DoomedKnown
    <3>3. docs'[x] = docs[x]
      BY <1>1, <3>1, <3>2 DEF UserLeaves
    <3>4. QED
      BY <1>1, <2>1, <3>3, LiveDocs DEF TypeOK
  <2>2. QED
    BY <2>1
<1>7. x \in Live(rows') => x \in Live(rows) /\ rows'[x] = rows[x]
  <2>1. ASSUME x \in Live(rows') PROVE x \in Live(rows) /\ rows'[x] = rows[x]
    <3>1. x \in Id /\ rows'[x] # Gone
      BY <1>1, <2>1, LiveRows DEF TypeOK
    <3>2. rows[x] # None
      BY <1>4, <3>1 DEF DoomedKnown
    <3>3. rows'[x] = rows[x]
      BY <1>1, <3>1, <3>2 DEF UserLeaves
    <3>4. QED
      BY <1>1, <2>1, <3>3, LiveRows DEF TypeOK
  <2>2. QED
    BY <2>1
<1>8. QED
  BY <1>2, <1>4, <1>5, <1>6, <1>7, StaysMissing

LEMMA SyncPairDoomed ==
  ASSUME TableInv, TypeOK', WriteInv, DoomedInv, NEW p \in pairs, SyncPair(p)
  PROVE  DoomedInv'
<1>1. TypeOK
  BY DEF TableInv, TypeInv
<1>2. /\ phase = "write" /\ phase' = "write" /\ pairs' = pairs \ {p}
      /\ UNCHANGED <<onlyDocs, onlyRows>> /\ saved' \in {saved, docs'}
      /\ p.doc \in Name /\ p.row \in Id /\ doomed' \subseteq doomed \cup {p.doc}
      /\ Live(docs') = Live(docs)
      /\ \A m \in Name : docs[m] # None <=> docs'[m] # None
      /\ \A m \in Name : m # p.doc => docs'[m] = docs[m]
      /\ \A m \in Live(docs) : docs'[m].born = docs[m].born
      /\ \A j \in Id : rows[j] # None => rows'[j] # None
      /\ \A j \in Id : j # p.row /\ rows[j] # None => rows'[j] = rows[j]
      /\ p.row \in Live(rows') =>
           p.row \in Live(rows) /\ rows'[p.row].fid \in {rows[p.row].fid, p.doc}
      /\ \A j \in Live(rows') : \/ j \in Live(rows) /\ rows'[j].born = rows[j].born
                                \/ rows[j] = None /\ rows'[j].born = p.doc
  BY SyncPairLeaves
<1>3. /\ lost' = lost /\ dirty' \in {dirty, TRUE}
      /\ \/ doomed' = doomed
         \/ /\ p.row \notin Live(rows) /\ lastId + 1 \in Id
            /\ [fid |-> p.doc, born |-> p.doc] \in Row
            /\ rows' = [rows EXCEPT ![lastId + 1] = [fid |-> p.doc, born |-> p.doc]]
            /\ p.doc \in Live(docs) /\ docs' = [docs EXCEPT ![p.doc].pid = lastId + 1]
  BY <1>1, SyncPairEffect
<1>13. dirty => dirty'
  BY <1>3, Zenon
<1>4. /\ \A q \in pairs : q.doc \notin doomed /\ q.row \notin doomed
      /\ \A q \in pairs : q.row \in Live(rows) \/ dirty
      /\ \A x \in doomed : Missing(x)
      /\ DoomedKnown /\ PairsAlive
  BY <1>2 DEF DoomedInv, WriteInv
<1>5. /\ Live(rows) = {j \in Id : rows[j] \in Row} /\ Live(rows') = {j \in Id : rows'[j] \in Row}
      /\ Live(docs) = {m \in Name : docs[m] \in Doc}
      /\ Live(docs') = {m \in Name : docs'[m] \in Doc}
      /\ \A q \in pairs : q.doc \in Name /\ q.row \in Id
  BY <1>1, LiveRows, LiveDocs DEF TypeOK, Pair
<1>6. \A q \in pairs \ {p} : q.doc # p.doc /\ q.row # p.row /\ rows[q.row] # None
  BY <1>4 DEF PairsAlive
<1>7. \A q \in pairs' : q.doc \notin doomed' /\ q.row \notin doomed'
  BY <1>2, <1>4, <1>5, <1>6
<1>8. \A q \in pairs' : q.row \in Live(rows') \/ dirty'
  BY <1>2, <1>4, <1>5, <1>6, <1>13
<1>9. \A n \in Name : docs[n] = Gone => docs'[n] = Gone
  BY <1>1, <1>2, <1>5 DEF TypeOK
<1>10. ASSUME NEW x \in doomed PROVE Missing(x)'
  <2>1. x # p.doc /\ x # p.row /\ Missing(x)
    BY <1>4
  <2>2. x \in Live(docs') => x \in Live(docs) /\ docs'[x] = docs[x]
    BY <1>2, <1>5, <2>1
  <2>3. x \in Live(rows') => x \in Live(rows) /\ rows'[x] = rows[x]
    BY <1>2, <1>4, <1>5, <2>1 DEF DoomedKnown
  <2>4. QED
    BY <1>2, <1>3, <1>9, <1>13, <2>1, <2>2, <2>3, StaysMissing
<1>11. ASSUME doomed' # doomed PROVE Missing(p.doc)'
  <2> DEFINE k == lastId + 1
             r == [fid |-> p.doc, born |-> p.doc]
  <2>1. /\ r \in Row /\ r.born = p.doc /\ k \in Id /\ rows' = Put(rows, k, r)
        /\ p.doc \in Live(docs) /\ docs' = Link(docs, p.doc, k) /\ p.row \notin Live(rows)
    BY <1>3, <1>11 DEF Put, Link
  <2> HIDE DEF k, r
  <2>2. /\ docs \in [Name -> Doc \cup {None, Gone}] /\ rows \in [Id -> Row \cup {None, Gone}]
    BY <1>1 DEF TypeOK
  <2>3. docs'[p.doc].pid = k
    BY <2>1, <2>2, DocLinked
  <2>4. rows'[k] = r
    BY <2>1, <2>2, RowInserted
  <2>5. dirty'
    <3>1. dirty
      BY <1>4, <2>1
    <3>2. QED
      BY <1>13, <3>1
  <2>6. p.doc \notin Live(rows')
    BY <1>2, <1>5
  <2>7. QED
    BY <2>1, <2>3, <2>4, <2>5, <2>6 DEF Missing
<1>12. QED
  BY <1>2, <1>7, <1>8, <1>10, <1>11 DEF DoomedInv

LEMMA DeleteOrphanDoomed ==
  ASSUME TableInv, TypeOK', WriteInv, DoomedInv, NEW y \in doomed, DeleteOrphan(y)
  PROVE  DoomedInv'
<1>1. TypeOK
  BY DEF TableInv, TypeInv
<1>2. /\ phase = "write" /\ pairs' = {} /\ doomed' = doomed \ {y} /\ UNCHANGED lost
      /\ dirty => dirty'
      /\ \/ UNCHANGED <<docs, rows>>
         \/ y \in Name /\ docs' = Put(docs, y, Gone) /\ rows' = rows
         \/ y \in Id /\ rows' = Put(rows, y, Gone) /\ docs' = docs
  BY <1>1, DeleteOrphanEffect DEF Put
<1>3. docs \in [Name -> Doc \cup {None, Gone}] /\ rows \in [Id -> Row \cup {None, Gone}]
  BY <1>1 DEF TypeOK
<1>4. Live(docs) \subseteq Name /\ Live(rows) \subseteq Id
  BY <1>1, LiveSets
<1>5. /\ \A n \in Name : docs[n] = Gone => docs'[n] = Gone
      /\ \A n \in Live(docs') : n \in Live(docs) /\ (n # y => docs'[n] = docs[n])
  <2>1. CASE docs' = docs
    BY <2>1
  <2>2. CASE y \in Name /\ docs' = Put(docs, y, Gone)
    <3>1. /\ Live(docs') = Live(docs) \ {y} /\ docs'[y] = Gone
          /\ \A m \in Name : m # y => docs'[m] = docs[m]
      BY <1>3, <2>2, DocDeleted
    <3>2. QED
      BY <1>4, <3>1
  <2>3. QED
    BY <1>2, <2>1, <2>2
<1>6. \A j \in Live(rows') : j \in Live(rows) /\ rows'[j] = rows[j]
  <2>1. CASE rows' = rows
    BY <2>1
  <2>2. CASE y \in Id /\ rows' = Put(rows, y, Gone)
    <3>1. /\ Live(rows') = Live(rows) \ {y}
          /\ \A j \in Id : j # y => rows'[j] = rows[j]
      BY <1>3, <2>2, RowDeleted
    <3>2. QED
      BY <1>4, <3>1
  <2>3. QED
    BY <1>2, <2>1, <2>2
<1>7. ASSUME NEW x \in doomed' PROVE Missing(x)'
  <2>1. x \in doomed /\ x # y /\ Missing(x)
    BY <1>2 DEF DoomedInv
  <2>2. QED
    BY <1>2, <1>5, <1>6, <2>1, StaysMissing
<1>8. QED
  BY <1>2, <1>7 DEF DoomedInv

LEMMA NextDoomed ==
  ASSUME LinkInv, LinkInv', FullCover, Fresh, DoomedInv, [Next]_vars
  PROVE  DoomedInv'
<1>1. TableInv /\ TypeInv /\ TypeOK /\ TypeOK' /\ WriteInv
  BY DEF LinkInv, TableInv, TypeInv
<1>2. CASE UNCHANGED vars
  BY <1>2 DEF vars, siteVars, partnerVars, runVars, planVars, DoomedInv, Missing
<1>3. CASE \/ NewRow
           \/ \E n \in Name : NewDoc(n) \/ DeleteDoc(n)
           \/ \E i \in Id : DeleteRow(i)
  BY <1>1, <1>3, UserDoomed
<1>4. CASE Plan
  BY <1>4, PlanDoomed DEF LinkInv
<1>5. CASE \E p \in pairs : SyncPair(p)
  BY <1>1, <1>5, SyncPairDoomed
<1>6. CASE \E x \in doomed : DeleteOrphan(x)
  BY <1>1, <1>6, DeleteOrphanDoomed
<1>7. CASE \/ \E n \in Name : CreateRow(n)
           \/ \E i \in Id : CreateDoc(i)
  <2>1. pairs' = {} /\ doomed' = {}
    BY <1>1, <1>7, CreateRowEffect, CreateDocEffect
  <2>2. QED
    BY <2>1 DEF DoomedInv
<1>8. CASE \/ \E n \in Name : ResolveDoc(n)
           \/ \E i \in Id : ResolveRow(i)
  <2>1. phase' # "write"
    BY <1>1, <1>8, ResolveDocEffect, ResolveRowEffect
  <2>2. QED
    BY <2>1 DEF DoomedInv
<1>9. CASE Start \/ ReadLookup \/ ReadPartner \/ Index \/ EndRun \/ Finish \/ Crash
  <2>1. phase' # "write"
    BY <1>9, ResetType DEF Start, ReadLookup, ReadPartner, Index, EndRun, Finish, Crash
  <2>2. QED
    BY <2>1 DEF DoomedInv
<1>10. QED
  BY <1>2, <1>3, <1>4, <1>5, <1>6, <1>7, <1>8, <1>9 DEF Next

\* The writes of a pair delete nothing.
LEMMA SyncPairKeeps ==
  ASSUME TypeOK, RowInv, NEW p \in pairs, SyncPair(p), NEW i \in Live(rows)
  PROVE  rows'[i] # Gone
<1>1. /\ p.doc \in Name
      /\ \/ rows' = rows
         \/ p.row \in Live(rows) /\ rows' = [rows EXCEPT ![p.row].fid = p.doc]
         \/ /\ lastId + 1 \in Id /\ [fid |-> p.doc, born |-> p.doc] \in Row
            /\ rows' = [rows EXCEPT ![lastId + 1] = [fid |-> p.doc, born |-> p.doc]]
  BY SyncPairEffect DEF Pair
<1>2. rows \in [Id -> Row \cup {None, Gone}] /\ i \in Id /\ rows[i] \in Row
  BY LiveSets DEF TypeOK
<1>3. CASE rows' = rows
  BY <1>2, <1>3
<1>4. CASE p.row \in Live(rows) /\ rows' = [rows EXCEPT ![p.row].fid = p.doc]
  <2>1. p.row \in Live(rows) /\ rows' = Rename(rows, p.row, p.doc)
    BY <1>4 DEF Rename
  <2>2. Live(rows') = Live(rows)
    BY <1>1, <1>2, <2>1, RowRenamed
  <2>3. QED
    BY <2>2 DEF Live
<1>5. CASE /\ lastId + 1 \in Id /\ [fid |-> p.doc, born |-> p.doc] \in Row
           /\ rows' = [rows EXCEPT ![lastId + 1] = [fid |-> p.doc, born |-> p.doc]]
  <2> DEFINE k == lastId + 1
             r == [fid |-> p.doc, born |-> p.doc]
  <2>1. r \in Row /\ k \in Id /\ rows' = Put(rows, k, r)
    BY <1>5 DEF Put
  <2> HIDE DEF k, r
  <2>2. rows'[k] = r /\ \A j \in Id : j # k => rows'[j] = rows[j]
    BY <1>2, <2>1, RowInserted
  <2>3. QED
    BY <1>2, <2>1, <2>2
<1>6. QED
  BY <1>1, <1>3, <1>4, <1>5

\* delete_missing deletes only what it must: a document whose row is gone, or was
\* inserted again by this very run, and a row whose document was deleted or never
\* committed, however late the reads are and whatever users and crashes do meanwhile.
THEOREM OnlyOrphansAreDeleted ==
  ASSUME NewNames, ~Unruly
  PROVE  Spec => DeletesOnlyOrphans
<1> DEFINE Inv == LinkInv /\ FullCover /\ Fresh /\ GoneBehind /\ DoomedInv
           Step ==
             phase = "write" /\ doomed' # doomed =>
               /\ \A n \in Live(docs) : docs'[n] = Gone /\ docs[n].pid \in Live(rows) =>
                    dirty /\ rows[docs[n].pid].born = n
               /\ \A i \in Live(rows) : rows'[i] = Gone =>
                    rows[i].fid \in lost \cup {n \in Name : docs[n] = Gone}
<1>1. Init => Inv
  <2>1. Init => Fresh
    BY DEF Init, Fresh, Looked, Nothing
  <2>2. Init => FullCover /\ DoomedInv
    BY DEF Init, FullCover, DoomedInv
  <2>3. Init => GoneBehind
    BY DEF Init, GoneBehind
  <2>4. QED
    BY <2>1, <2>2, <2>3, InitLinks
<1>2. Inv /\ [Next]_vars => Inv'
  <2> SUFFICES ASSUME Inv, [Next]_vars PROVE Inv'
    OBVIOUS
  <2>1. LinkInv'
    BY NextLinks
  <2>2. FullCover' /\ Fresh' /\ GoneBehind'
    BY NextCover, NextFresh, NextGone DEF LinkInv, TableInv
  <2>3. DoomedInv'
    BY <2>1, NextDoomed
  <2>4. QED
    BY <2>1, <2>2, <2>3
<1>3. Inv /\ [Next]_vars => [Step]_vars
  <2> SUFFICES ASSUME Inv, Next, phase = "write", doomed' # doomed
               PROVE  Step
    OBVIOUS
  <2>1. /\ TableInv /\ WriteInv /\ TypeInv /\ TypeOK /\ \A x \in doomed : Missing(x)
        /\ Live(docs) = {n \in Name : docs[n] \in Doc} /\ Live(rows) = {i \in Id : rows[i] \in Row}
    BY LiveSets DEF LinkInv, TableInv, TypeInv, DoomedInv
  <2>2. CASE \E p \in pairs : SyncPair(p)
    <3>1. Live(docs') = Live(docs)
      BY <2>1, <2>2, SyncPairLeaves
    <3>2. \A i \in Live(rows) : rows'[i] # Gone
      BY <2>1, <2>2, SyncPairKeeps DEF TableInv
    <3>3. QED
      BY <3>1, <3>2 DEF Live
  <2>3. ASSUME NEW x \in doomed, DeleteOrphan(x) PROVE Step
    <3>1. \/ UNCHANGED <<docs, rows>>
          \/ x \in Name /\ docs' = Put(docs, x, Gone) /\ rows' = rows
          \/ x \in Id /\ rows' = Put(rows, x, Gone) /\ docs' = docs
      BY <2>1, <2>3, DeleteOrphanEffect DEF Put
    <3>2. docs \in [Name -> Doc \cup {None, Gone}] /\ rows \in [Id -> Row \cup {None, Gone}]
      BY <2>1 DEF TypeOK
    <3>3. \A n \in Live(docs) : docs'[n] = Gone => n = x
      BY <2>1, <3>1, <3>2, DocDeleted
    <3>4. \A i \in Live(rows) : rows'[i] = Gone => i = x
      BY <2>1, <3>1, <3>2, RowDeleted
    <3>5. QED
      BY <2>1, <3>3, <3>4 DEF Missing
  <2>4. CASE Crash
    <3>1. docs' = saved /\ rows' = rows
      BY <2>4 DEF Crash, partnerVars
    <3>2. \A n \in Live(docs) : docs'[n] # Gone
      BY <2>1, <3>1 DEF GoneBehind
    <3>3. \A i \in Live(rows) : rows'[i] # Gone
      BY <2>1, <3>1
    <3>4. QED
      BY <3>2, <3>3
  <2>5. ~(\E n \in Name : CreateRow(n)) /\ ~(\E i \in Id : CreateDoc(i))
    BY <2>1, CreateRowEffect, CreateDocEffect
  <2>6. ~(\E n \in Name : ResolveDoc(n)) /\ ~(\E i \in Id : ResolveRow(i))
    BY <2>1, ResolveDocEffect, ResolveRowEffect
  <2>7. ~(NewRow \/ (\E n \in Name : NewDoc(n) \/ DeleteDoc(n)) \/ (\E i \in Id : DeleteRow(i)))
    BY <2>1, UserEffect DEF NewRow, NewDoc, DeleteDoc, DeleteRow
  <2>8. ~(Start \/ ReadLookup \/ ReadPartner \/ Index \/ Plan \/ EndRun \/ Finish)
    BY DEF Start, ReadLookup, ReadPartner, Index, Plan, EndRun, Finish, planVars
  <2>9. QED
    BY <2>2, <2>3, <2>4, <2>5, <2>6, <2>7, <2>8 DEF Next
<1>4. [][Step]_vars => DeletesOnlyOrphans
  BY DEF DeletesOnlyOrphans, Step
<1>5. QED
  BY <1>1, <1>2, <1>3, <1>4, PTL DEF Spec

-----------------------------------------------------------------------------
(* What a run leaves behind *)

\* Without contradictions every record that was listed is resolved, or will be.
TodoInv ==
  phase = "resolve" /\ conflicted = {} =>
    /\ \A n \in Live(opDocs) : n \in todo \cup onlyDocs \/ \E p \in pairs : p.doc = n
    /\ \A i \in Live(opRows) : i \in todo \cup onlyRows \/ \E p \in pairs : p.row = i

LEMMA NextTodo ==
  ASSUME TypeInv, TodoInv, [Next]_vars
  PROVE  TodoInv'
<1>1. TypeOK
  BY DEF TypeInv
<1>2. CASE UNCHANGED vars
  BY <1>2 DEF vars, runVars, readVars, planVars, TodoInv
<1>3. CASE Index
  <2>1. todo' = Live(opDocs) \cup Live(opRows) /\ UNCHANGED <<opDocs, opRows>>
    BY <1>3 DEF Index
  <2>2. QED
    BY <2>1 DEF TodoInv
<1>4. ASSUME NEW n \in Name, ResolveDoc(n) PROVE TodoInv'
  <2>1. /\ phase = "resolve" /\ todo' = todo \ {n}
        /\ UNCHANGED <<phase, opDocs, opRows, onlyRows>> /\ conflicted \subseteq conflicted'
        /\ \/ conflicted' # {} /\ UNCHANGED <<pairs, onlyDocs>>
           \/ onlyDocs' = onlyDocs \cup {n} /\ UNCHANGED pairs
           \/ \E q : q.doc = n /\ pairs' = pairs \cup {q} /\ UNCHANGED onlyDocs
    BY <1>4, ResolveDocEffect
  <2>2. n \notin Live(opRows)
    BY <1>1, LiveSets
  <2>3. QED
    BY <2>1, <2>2 DEF TodoInv
<1>5. ASSUME NEW i \in Id, ResolveRow(i) PROVE TodoInv'
  <2>1. /\ phase = "resolve" /\ todo' = todo \ {i}
        /\ UNCHANGED <<phase, opDocs, opRows, onlyDocs>> /\ conflicted \subseteq conflicted'
        /\ \/ conflicted' # {} /\ UNCHANGED <<pairs, onlyRows>>
           \/ onlyRows' = onlyRows \cup {i} /\ UNCHANGED pairs
           \/ \E n \in Live(knownDocs) :
                /\ pairs' = {p \in pairs : <<p.doc, p.row>> # <<n, i>>}
                              \cup {[doc |-> n, row |-> i, pid |-> knownDocs[n].pid,
                                     fid |-> opRows[i].fid]}
                /\ UNCHANGED onlyRows
    BY <1>5, ResolveRowEffect
  <2>2. i \notin Live(opDocs)
    BY <1>1, LiveSets
  <2>3. CASE UNCHANGED pairs
    BY <2>1, <2>2, <2>3 DEF TodoInv
  <2>4. ASSUME NEW n, NEW q, q.doc = n, q.row = i, UNCHANGED onlyRows,
               pairs' = {p \in pairs : <<p.doc, p.row>> # <<n, i>>} \cup {q}
        PROVE  TodoInv'
    <3>1. \A p \in pairs : p \in pairs' \/ (p.doc = q.doc /\ p.row = q.row)
      BY <2>4
    <3>2. q \in pairs' /\ q.row = i
      BY <2>4
    <3>3. QED
      BY <2>1, <2>2, <2>4, <3>1, <3>2 DEF TodoInv
  <2>5. QED
    BY <2>1, <2>3, <2>4
<1>6. CASE \/ NewRow
           \/ \E n \in Name : NewDoc(n) \/ DeleteDoc(n)
           \/ \E i \in Id : DeleteRow(i)
  <2>1. phase' = phase /\ phase # "resolve"
    BY <1>1, <1>6, UserEffect DEF NewRow, NewDoc, DeleteDoc, DeleteRow
  <2>2. QED
    BY <2>1 DEF TodoInv
<1>7. CASE \/ \E p \in pairs : SyncPair(p)
           \/ \E x \in doomed : DeleteOrphan(x)
           \/ \E n \in Name : CreateRow(n)
           \/ \E i \in Id : CreateDoc(i)
           \/ Start \/ ReadLookup \/ ReadPartner \/ Plan \/ EndRun \/ Finish \/ Crash
  <2>1. phase' # "resolve"
    BY <1>7, ResetType DEF SyncPair, DeleteOrphan, CreateRow, CreateDoc, Writing, Start,
       ReadLookup, ReadPartner, Plan, EndRun, Finish, Crash
  <2>2. QED
    BY <2>1 DEF TodoInv
<1>8. QED
  BY <1>2, <1>3, <1>4, <1>5, <1>6, <1>7 DEF Next

Linked(n, i) == docs[n].pid = i \/ rows[i].fid = n

\* Until something changes, what is to be written exists, and what is to be deleted
\* has no counterpart.
Quiet ==
  phase = "write" /\ ~dirty =>
    /\ \A p \in pairs : p.doc \in Live(docs) /\ p.row \in Live(rows)
    /\ onlyDocs \subseteq Live(docs) /\ onlyRows \subseteq Live(rows)
    /\ \A x \in doomed :
         /\ x \notin onlyDocs \cup onlyRows
         /\ \A n \in Live(docs), i \in Live(rows) : Linked(n, i) => x \notin {n, i}

\* A record without a counterpart is still to be deleted or to be given one.
Accounted ==
  /\ \A n \in Live(docs) : n \in doomed \cup onlyDocs \/ \E i \in Live(rows) : Linked(n, i)
  /\ \A i \in Live(rows) : i \in doomed \cup onlyRows \/ \E n \in Live(docs) : Linked(n, i)

Complete ==
  phase \in {"write", "end"} /\ full /\ ~dirty /\ conflicted = {} /\ config.delete =>
    Accounted

\* A whole listing has the records that are there.
LEMMA ListedLive ==
  ASSUME TypeOK
  PROVE  /\ Live(docs) \subseteq Name /\ Live(rows) \subseteq Id
         /\ (\A n \in Name : knownDocs[n] = IF n \in Live(docs) THEN docs[n] ELSE None) =>
              Live(knownDocs) = Live(docs) /\ \A n \in Live(docs) : knownDocs[n] = docs[n]
         /\ (\A i \in Id : knownRows[i] = IF i \in Live(rows) THEN rows[i] ELSE None) =>
              Live(knownRows) = Live(rows) /\ \A i \in Live(rows) : knownRows[i] = rows[i]
<1>1. /\ Live(docs) = {n \in Name : docs[n] \in Doc} /\ Live(rows) = {i \in Id : rows[i] \in Row}
      /\ Live(knownDocs) = {n \in Name : knownDocs[n] \in Doc}
      /\ Live(knownRows) = {i \in Id : knownRows[i] \in Row}
  BY LiveSets
<1>2. ASSUME \A n \in Name : knownDocs[n] = IF n \in Live(docs) THEN docs[n] ELSE None
      PROVE  Live(knownDocs) = Live(docs) /\ \A n \in Live(docs) : knownDocs[n] = docs[n]
  <2>1. \A n \in Name : n \in Live(knownDocs) <=> n \in Live(docs)
    BY <1>1, <1>2
  <2>2. QED
    BY <1>1, <1>2, <2>1
<1>3. ASSUME \A i \in Id : knownRows[i] = IF i \in Live(rows) THEN rows[i] ELSE None
      PROVE  Live(knownRows) = Live(rows) /\ \A i \in Live(rows) : knownRows[i] = rows[i]
  <2>1. \A i \in Id : i \in Live(knownRows) <=> i \in Live(rows)
    BY <1>1, <1>3
  <2>2. QED
    BY <1>1, <1>3, <2>1
<1>4. QED
  BY <1>1, <1>2, <1>3

LEMMA PlanQuiet ==
  ASSUME TableInv, ReadInv, ResolveInv, Fresh, Plan
  PROVE  Quiet'
<1>1. /\ phase = "resolve" /\ phase' = "write"
      /\ UNCHANGED <<docs, saved, lost, rows, lastId, dirty>>
      /\ \A p \in pairs' : p \in pairs /\ p.doc \notin conflicted /\ p.row \notin conflicted
      /\ \A n \in onlyDocs' : n \in onlyDocs /\ opDocs[n].pid = None
      /\ \A i \in onlyRows' : i \in onlyRows /\ opRows[i].fid = None
      /\ doomed' = IF config.delete /\ full THEN Orphans ELSE {}
  BY PlanEffect DEF TableInv
<1>2. TypeInv /\ TypeOK
  BY DEF TableInv, TypeInv
<1>3. /\ Duplicates(knownRows) \subseteq conflicted
      /\ \A n \in onlyDocs : n \in Live(opDocs)
      /\ \A i \in onlyRows : i \in Live(opRows)
      /\ \A p \in pairs : PairOk(p)
  BY <1>1 DEF ResolveInv, OnlyDocOk, OnlyRowOk
<1>4. /\ \A n \in Name \ conflicted : \A i, j \in RowsClaiming(n) : i = j
      /\ \A i \in Id \ conflicted : \A m, n \in DocsClaiming(i) : m = n
  BY <1>2, <1>3, OneClaim
<1> SUFFICES ASSUME ~dirty PROVE Quiet'
  BY <1>1 DEF Quiet
<1>5. /\ \A n \in Name : knownDocs[n] = IF n \in Live(docs) THEN docs[n] ELSE None
      /\ \A n \in Name : opDocs[n] # None => docs[n] = opDocs[n]
      /\ \A i \in Id : opRows[i] # None => rows[i] = opRows[i]
      /\ \A i \in Id : knownRows[i] = IF i \in Live(rows) THEN rows[i] ELSE None
  BY <1>1 DEF Fresh, Looked
<1>6. /\ Live(knownDocs) = Live(docs) /\ \A n \in Live(docs) : knownDocs[n] = docs[n]
      /\ Live(knownRows) = Live(rows) /\ \A i \in Live(rows) : knownRows[i] = rows[i]
      /\ Live(docs) \subseteq Name /\ Live(rows) \subseteq Id
  BY <1>2, <1>5, ListedLive
<1>11. /\ \A n \in Live(opDocs) : n \in Live(docs) /\ opDocs[n] = docs[n]
       /\ \A i \in Live(opRows) : i \in Live(rows) /\ opRows[i] = rows[i]
  BY <1>2, <1>5, LiveSets
<1>7. ASSUME NEW p \in pairs' PROVE p.doc \in Live(docs) /\ p.row \in Live(rows)
  <2>1. /\ p.row \in Live(knownRows)
        /\ \/ p.doc \in Live(opDocs) /\ p.pid = opDocs[p.doc].pid
           \/ p.doc \in Live(knownDocs) /\ p.pid = knownDocs[p.doc].pid
    BY <1>1, <1>2, <1>3, PlanPair
  <2>2. QED
    BY <1>6, <1>11, <2>1
<1>8. onlyDocs' \subseteq Live(docs) /\ onlyRows' \subseteq Live(rows)
  BY <1>1, <1>3, <1>11
<1>9. ASSUME NEW x \in doomed'
      PROVE  /\ x \notin onlyDocs' \cup onlyRows'
             /\ \A n \in Live(docs), i \in Live(rows) : Linked(n, i) => x \notin {n, i}
  <2>1. CASE /\ x \in Live(docs) /\ docs[x].pid # None /\ docs[x].pid \notin Live(rows)
             /\ Sole(RowsClaiming(x)) = {} /\ x \notin conflicted
    <3>1. RowsClaiming(x) = {}
      BY <1>4, <1>6, <2>1, SoleIs
    <3>2. \A i \in Live(rows) : rows[i].fid # x
      BY <1>6, <3>1 DEF RowsClaiming
    <3>3. x \notin Live(rows) /\ x \notin onlyDocs' \cup onlyRows'
      BY <1>1, <1>3, <1>6, <1>8, <1>11, <2>1
    <3>4. QED
      BY <2>1, <3>2, <3>3 DEF Linked
  <2>2. CASE /\ x \in Live(rows) /\ rows[x].fid # None /\ rows[x].fid \notin Live(docs)
             /\ Sole(DocsClaiming(x)) = {} /\ x \notin conflicted
    <3>1. DocsClaiming(x) = {}
      BY <1>4, <1>6, <2>2, SoleIs
    <3>2. \A n \in Live(docs) : docs[n].pid # x
      BY <1>6, <3>1 DEF DocsClaiming
    <3>3. x \notin Live(docs) /\ x \notin onlyDocs' \cup onlyRows'
      BY <1>1, <1>3, <1>6, <1>8, <1>11, <2>2
    <3>4. QED
      BY <2>2, <3>2, <3>3 DEF Linked
  <2>3. QED
    BY <1>1, <1>6, <2>1, <2>2 DEF Orphans, DocKeys, RowKeys
<1>10. QED
  BY <1>1, <1>7, <1>8, <1>9 DEF Quiet, Linked

LEMMA PlanComplete ==
  ASSUME TableInv, ReadInv, ResolveInv, FullCover, Fresh, TodoInv, Plan
  PROVE  Complete'
<1>1. /\ phase = "resolve" /\ todo = {} /\ phase' = "write"
      /\ UNCHANGED <<config, docs, saved, lost, rows, lastId, full, conflicted, dirty>>
      /\ \A p \in pairs' : p \in pairs /\ p.doc \notin conflicted /\ p.row \notin conflicted
      /\ doomed' = IF config.delete /\ full THEN Orphans ELSE {}
  BY PlanEffect DEF TableInv, Plan
<1>2. TypeInv /\ TypeOK
  BY DEF TableInv, TypeInv
<1> SUFFICES ASSUME full, ~dirty, conflicted = {}, config.delete PROVE Accounted'
  BY <1>1 DEF Complete
<1>3. /\ Duplicates(knownRows) \subseteq conflicted
      /\ \A n \in onlyDocs : OnlyDocOk(n)
      /\ \A i \in onlyRows : OnlyRowOk(i)
      /\ \A p \in pairs : PairOk(p)
  BY <1>1 DEF ResolveInv
<1>4. /\ \A n \in Name : knownDocs[n] = IF n \in Live(docs) THEN docs[n] ELSE None
      /\ \A i \in Id : knownRows[i] = IF i \in Live(rows) THEN rows[i] ELSE None
      /\ knownDocs = opDocs /\ knownRows = opRows
  BY <1>1 DEF Fresh, Looked, FullCover, ReadInv, DocCover
<1>5. /\ Live(opDocs) = Live(docs) /\ \A n \in Live(docs) : opDocs[n] = docs[n]
      /\ Live(opRows) = Live(rows) /\ \A i \in Live(rows) : opRows[i] = rows[i]
      /\ Live(docs) \subseteq Name /\ Live(rows) \subseteq Id
  BY <1>2, <1>4, ListedLive
<1>6. /\ pairs' = pairs
      /\ onlyDocs' = {n \in onlyDocs : opDocs[n].pid = None}
      /\ onlyRows' = {i \in onlyRows : opRows[i].fid = None}
  BY DEF Plan
<1>7. ASSUME NEW p \in pairs PROVE p.doc \in Live(docs) /\ p.row \in Live(rows) /\ Linked(p.doc, p.row)
  <2>1. /\ p.pid \in {None, p.row} /\ p.fid \in {None, p.doc}
        /\ ~(p.pid = None /\ p.fid = None)
        /\ p.row \in Live(knownRows) /\ knownRows[p.row].fid = p.fid
        /\ \/ p.doc \in Live(opDocs) /\ p.pid = opDocs[p.doc].pid
           \/ p.doc \in Live(knownDocs) /\ p.pid = knownDocs[p.doc].pid
    BY <1>1, <1>2, <1>3, PlanPair
  <2>2. QED
    BY <1>4, <1>5, <2>1 DEF Linked
<1>8. ASSUME NEW n \in Live(docs)
      PROVE  n \in doomed' \cup onlyDocs' \/ \E i \in Live(rows) : Linked(n, i)
  <2>1. n \in onlyDocs \/ \E p \in pairs : p.doc = n
    BY <1>1, <1>5 DEF TodoInv
  <2>2. ASSUME n \in onlyDocs, n \notin onlyDocs' PROVE n \in doomed'
    <3>1. RowsOf(n, opDocs[n]) = {} /\ opDocs[n].pid # None
      BY <1>3, <1>6, <2>2 DEF OnlyDocOk
    <3>2. opDocs[n].pid \notin Live(knownRows) /\ Sole(RowsClaiming(n)) = {}
      BY <3>1 DEF RowsOf
    <3>3. n \in Orphans
      BY <1>4, <1>5, <3>1, <3>2 DEF Orphans
    <3>4. QED
      BY <1>1, <3>3
  <2>3. QED
    BY <1>7, <2>1, <2>2
<1>9. ASSUME NEW i \in Live(rows)
      PROVE  i \in doomed' \cup onlyRows' \/ \E n \in Live(docs) : Linked(n, i)
  <2>1. i \in onlyRows \/ \E p \in pairs : p.row = i
    BY <1>1, <1>5 DEF TodoInv
  <2>2. ASSUME i \in onlyRows, i \notin onlyRows' PROVE i \in doomed'
    <3>1. /\ Sole(DocsClaiming(i)) = {} /\ opRows[i].fid # None
          /\ opRows[i].fid \notin Live(knownDocs)
      BY <1>3, <1>6, <2>2 DEF OnlyRowOk
    <3>2. i \in Orphans
      BY <1>4, <1>5, <3>1 DEF Orphans
    <3>3. QED
      BY <1>1, <3>2
  <2>3. QED
    BY <1>7, <2>1, <2>2
<1>10. QED
  BY <1>1, <1>8, <1>9 DEF Accounted, Linked

\* A pair that is written without failure is linked then, and nothing else is changed.
LEMMA SyncPairQuiet ==
  ASSUME TableInv, WriteInv, Quiet, NEW p \in pairs, SyncPair(p), ~dirty'
  PROVE  /\ ~dirty /\ phase = "write" /\ phase' = "write" /\ pairs' = pairs \ {p}
         /\ UNCHANGED <<config, full, conflicted, onlyDocs, onlyRows, doomed>>
         /\ Live(docs') = Live(docs) /\ Live(rows') = Live(rows)
         /\ p.doc \in Live(docs) /\ p.row \in Live(rows)
         /\ \A n \in Live(docs), i \in Live(rows) :
              Linked(n, i)' <=> Linked(n, i) \/ (n = p.doc /\ i = p.row)
<1>1. TypeOK
  BY DEF TableInv, TypeInv
<1>2. /\ phase = "write" /\ pairs' = pairs \ {p}
      /\ UNCHANGED <<config, lost, changes, phase, full, opDocs, knownDocs, opRows,
                     knownRows, todo, conflicted, onlyDocs, onlyRows>>
      /\ docs' \in [Name -> Doc \cup {None, Gone}]
      /\ rows' \in [Id -> Row \cup {None, Gone}] /\ lastId' \in 0..MaxId
      /\ saved' \in {saved, docs'} /\ faults' \in 0..MaxFaults
      /\ dirty' \in {dirty, TRUE}
      /\ p \in Pair /\ doomed' \in {doomed, doomed \cup {p.doc}}
      /\ \/ /\ UNCHANGED <<docs, rows, lastId, doomed>>
            /\ dirty' = TRUE \/ (p.pid = p.row /\ p.fid = p.doc)
         \/ /\ p.row \in Live(rows) /\ UNCHANGED <<lastId, doomed>>
            /\ rows' = [rows EXCEPT ![p.row].fid = p.doc]
            /\ \/ docs' = docs
               \/ p.doc \in Live(docs) /\ docs' = [docs EXCEPT ![p.doc].pid = p.row]
         \/ /\ p.row \notin Live(rows) /\ lastId + 1 \in Id /\ lastId' = lastId + 1
            /\ [fid |-> p.doc, born |-> p.doc] \in Row
            /\ rows' = [rows EXCEPT ![lastId + 1] = [fid |-> p.doc, born |-> p.doc]]
            /\ \/ docs' = docs /\ doomed' = doomed
               \/ /\ p.doc \in Live(docs) /\ doomed' = doomed
                  /\ docs' = [docs EXCEPT ![p.doc].pid = p.row]
               \/ /\ p.doc \in Live(docs) /\ doomed' \in {doomed, doomed \cup {p.doc}}
                  /\ docs' = [docs EXCEPT ![p.doc].pid = lastId + 1]
         \/ /\ p.doc \in Live(docs) /\ UNCHANGED <<rows, lastId, doomed>>
            /\ docs' = [docs EXCEPT ![p.doc].pid = p.row]
  BY <1>1, SyncPairEffect
<1>14. dirty' \in {dirty, TRUE}
  BY <1>2
<1>15. ~dirty
  BY <1>14, Zenon
<1>16. dirty' # TRUE
  BY Zenon
<1>3. ~dirty /\ dirty' # TRUE
  BY <1>15, <1>16, Zenon
<1>4. p.doc \in Live(docs) /\ p.row \in Live(rows)
  BY <1>2, <1>3 DEF Quiet
<1>5. /\ doomed' = doomed
      /\ \/ docs' = docs /\ rows' = rows /\ p.pid = p.row
         \/ rows' = Rename(rows, p.row, p.doc) /\ docs' \in {docs, Link(docs, p.doc, p.row)}
         \/ rows' = rows /\ docs' = Link(docs, p.doc, p.row)
  BY <1>2, <1>3, <1>4 DEF Rename, Link
<1>6. /\ docs \in [Name -> Doc \cup {None, Gone}] /\ rows \in [Id -> Row \cup {None, Gone}]
      /\ p.doc \in Name /\ p.row \in Id /\ Live(docs) \subseteq Name /\ Live(rows) \subseteq Id
  BY <1>1, <1>2, LiveSets DEF TypeOK, Pair
<1>7. docs[p.doc].pid = p.pid /\ rows[p.row].fid = p.fid
  BY <1>2, <1>4 DEF WriteInv, PairsAlive, AsRead
<1>8. p.pid \in {None, p.row} /\ p.fid \in {None, p.doc}
  BY <1>2 DEF WriteInv, PairsAlive, AsRead
<1>9. /\ Live(Rename(rows, p.row, p.doc)) = Live(rows)
      /\ \A j \in Live(rows) :
           Rename(rows, p.row, p.doc)[j].fid = IF j = p.row THEN p.doc ELSE rows[j].fid
  BY <1>4, <1>6, RowRenamed
<1>10. /\ Live(Link(docs, p.doc, p.row)) = Live(docs)
       /\ \A m \in Live(docs) :
            Link(docs, p.doc, p.row)[m].pid = IF m = p.doc THEN p.row ELSE docs[m].pid
  BY <1>4, <1>6, DocLinked
<1>11. Live(docs') = Live(docs) /\ Live(rows') = Live(rows)
  BY <1>5, <1>9, <1>10
<1>12. ASSUME NEW n \in Live(docs), NEW i \in Live(rows)
       PROVE  Linked(n, i)' <=> Linked(n, i) \/ (n = p.doc /\ i = p.row)
  <2>1. /\ n # p.doc => docs'[n].pid = docs[n].pid
        /\ i # p.row => rows'[i].fid = rows[i].fid
        /\ docs'[p.doc].pid \in {p.pid, p.row} /\ rows'[p.row].fid \in {p.fid, p.doc}
        /\ docs'[p.doc].pid = p.row \/ rows'[p.row].fid = p.doc
    BY <1>4, <1>5, <1>7, <1>9, <1>10
  <2>2. i # None /\ n # None
    BY <1>6
  <2>3. QED
    BY <1>7, <1>8, <2>1, <2>2 DEF Linked
<1>13. QED
  BY <1>2, <1>3, <1>4, <1>5, <1>11, <1>12

\* Records that are linked stay so, and whatever is neither new nor dealt with is
\* accounted for as before.
LEMMA StaysAccounted ==
  ASSUME Accounted,
         \A n \in Live(docs) \cap Live(docs'), i \in Live(rows) \cap Live(rows') :
           Linked(n, i) => Linked(n, i)',
         \A n \in Live(docs), i \in Live(rows) :
           Linked(n, i) => (n \in Live(docs') <=> i \in Live(rows')),
         \A n \in Live(docs') : \/ \E i \in Live(rows') : Linked(n, i)'
                                \/ /\ n \in Live(docs)
                                   /\ n \in doomed \cup onlyDocs => n \in doomed' \cup onlyDocs',
         \A i \in Live(rows') : \/ \E n \in Live(docs') : Linked(n, i)'
                                \/ /\ i \in Live(rows)
                                   /\ i \in doomed \cup onlyRows => i \in doomed' \cup onlyRows'
  PROVE  Accounted'
<1> DEFINE After(n, i) == Linked(n, i)'
<1>1. \A n \in Live(docs) \cap Live(docs'), i \in Live(rows) : Linked(n, i) =>
        i \in Live(rows') /\ After(n, i)
  OBVIOUS
<1>2. \A i \in Live(rows) \cap Live(rows'), n \in Live(docs) : Linked(n, i) =>
        n \in Live(docs') /\ After(n, i)
  OBVIOUS
<1>3. ASSUME NEW n \in Live(docs')
      PROVE  n \in doomed' \cup onlyDocs' \/ \E i \in Live(rows') : After(n, i)
  <2>1. CASE \E i \in Live(rows') : After(n, i)
    BY <2>1
  <2>2. CASE n \in Live(docs) /\ (n \in doomed \cup onlyDocs => n \in doomed' \cup onlyDocs')
    <3>1. n \in doomed \cup onlyDocs \/ \E i \in Live(rows) : Linked(n, i)
      BY <2>2 DEF Accounted
    <3> HIDE DEF After
    <3>2. QED
      BY <1>1, <1>3, <2>2, <3>1
  <2>3. QED
    BY <2>1, <2>2
<1>4. ASSUME NEW i \in Live(rows')
      PROVE  i \in doomed' \cup onlyRows' \/ \E n \in Live(docs') : After(n, i)
  <2>1. CASE \E n \in Live(docs') : After(n, i)
    BY <2>1
  <2>2. CASE i \in Live(rows) /\ (i \in doomed \cup onlyRows => i \in doomed' \cup onlyRows')
    <3>1. i \in doomed \cup onlyRows \/ \E n \in Live(docs) : Linked(n, i)
      BY <2>2 DEF Accounted
    <3> HIDE DEF After
    <3>2. QED
      BY <1>2, <1>4, <2>2, <3>1
  <2>3. QED
    BY <2>1, <2>2
<1>5. QED
  BY <1>3, <1>4 DEF Accounted
LEMMA SyncPairCompletes ==
  ASSUME TableInv, WriteInv, DoomedInv, Quiet, Complete, NEW p \in pairs, SyncPair(p)
  PROVE  Quiet' /\ Complete'
<1> SUFFICES ASSUME ~dirty' PROVE Quiet' /\ Complete'
  BY DEF Quiet, Complete
<1>1. /\ ~dirty /\ phase = "write" /\ phase' = "write" /\ pairs' = pairs \ {p}
      /\ UNCHANGED <<config, full, conflicted, onlyDocs, onlyRows, doomed>>
      /\ Live(docs') = Live(docs) /\ Live(rows') = Live(rows)
      /\ p.doc \in Live(docs) /\ p.row \in Live(rows)
      /\ \A n \in Live(docs), i \in Live(rows) :
           Linked(n, i)' <=> Linked(n, i) \/ (n = p.doc /\ i = p.row)
  BY SyncPairQuiet
<1>2. p.doc \notin doomed /\ p.row \notin doomed
  BY <1>1 DEF DoomedInv
<1>3. Quiet'
  BY <1>1, <1>2 DEF Quiet
<1>4. Complete'
  <2> SUFFICES ASSUME full, conflicted = {}, config.delete PROVE Accounted'
    BY <1>1 DEF Complete
  <2>1. Accounted
    BY <1>1 DEF Complete
  <2>2. QED
    BY <1>1, <2>1, StaysAccounted
<1>5. QED
  BY <1>3, <1>4

LEMMA DeleteOrphanCompletes ==
  ASSUME TableInv, Quiet, Complete, NEW x \in doomed, DeleteOrphan(x)
  PROVE  Quiet' /\ Complete'
<1> SUFFICES ASSUME ~dirty' PROVE Quiet' /\ Complete'
  BY DEF Quiet, Complete
<1>1. TypeOK
  BY DEF TableInv, TypeInv
<1>2. /\ phase = "write" /\ phase' = "write" /\ pairs = {} /\ doomed' = doomed \ {x}
      /\ UNCHANGED <<config, full, conflicted, pairs, onlyDocs, onlyRows>>
      /\ \/ UNCHANGED <<docs, rows>> /\ dirty' = TRUE
         \/ x \in Name /\ docs' = Put(docs, x, Gone) /\ UNCHANGED <<rows, dirty>>
         \/ x \in Id /\ rows' = Put(rows, x, Gone) /\ UNCHANGED <<docs, dirty>>
  BY <1>1, DeleteOrphanEffect DEF Put
<1>3. /\ docs \in [Name -> Doc \cup {None, Gone}] /\ rows \in [Id -> Row \cup {None, Gone}]
      /\ Live(docs) \subseteq Name /\ Live(rows) \subseteq Id
  BY <1>1, LiveSets DEF TypeOK
<1>4. ~dirty
  BY <1>2, Zenon
<1>5. /\ Live(docs') = Live(docs) \ {x} /\ Live(rows') = Live(rows) \ {x}
      /\ \A n \in Live(docs) \ {x} : docs'[n] = docs[n]
      /\ \A i \in Live(rows) \ {x} : rows'[i] = rows[i]
  <2>1. CASE x \in Name /\ docs' = Put(docs, x, Gone) /\ rows' = rows
    <3>1. /\ Live(docs') = Live(docs) \ {x}
          /\ \A m \in Name : m # x => docs'[m] = docs[m]
      BY <1>3, <2>1, DocDeleted
    <3>2. x \notin Live(rows)
      BY <1>3, <2>1
    <3>3. QED
      BY <1>3, <2>1, <3>1, <3>2
  <2>2. CASE x \in Id /\ rows' = Put(rows, x, Gone) /\ docs' = docs
    <3>1. /\ Live(rows') = Live(rows) \ {x}
          /\ \A j \in Id : j # x => rows'[j] = rows[j]
      BY <1>3, <2>2, RowDeleted
    <3>2. x \notin Live(docs)
      BY <1>3, <2>2
    <3>3. QED
      BY <1>3, <2>2, <3>1, <3>2
  <2>3. QED
    BY <1>2, <2>1, <2>2, Zenon
<1>6. /\ x \notin onlyDocs \cup onlyRows
      /\ \A n \in Live(docs), i \in Live(rows) : Linked(n, i) => x \notin {n, i}
      /\ onlyDocs \subseteq Live(docs) /\ onlyRows \subseteq Live(rows)
  BY <1>2, <1>4 DEF Quiet
<1>7. \A n \in Live(docs) \ {x}, i \in Live(rows) \ {x} : Linked(n, i)' <=> Linked(n, i)
  BY <1>5 DEF Linked
<1>8. Quiet'
  BY <1>2, <1>4, <1>5, <1>6, <1>7 DEF Quiet
<1>9. Complete'
  <2> SUFFICES ASSUME full, conflicted = {}, config.delete PROVE Accounted'
    BY <1>2 DEF Complete
  <2>1. Accounted
    BY <1>2, <1>4 DEF Complete
  <2>2. QED
    BY <1>2, <1>5, <1>6, <1>7, <2>1, StaysAccounted
<1>10. QED
  BY <1>8, <1>9

LEMMA CreateRowCompletes ==
  ASSUME TableInv, WriteInv, Quiet, Complete, NEW n \in Name, CreateRow(n)
  PROVE  Quiet' /\ Complete'
<1> SUFFICES ASSUME ~dirty' PROVE Quiet' /\ Complete'
  BY DEF Quiet, Complete
<1> DEFINE k == lastId + 1
           r == [fid |-> n, born |-> n]
<1>1. TypeOK /\ RowIds
  BY DEF TableInv, TypeInv, RowInv
<1>2. /\ phase = "write" /\ phase' = "write" /\ pairs = {} /\ doomed = {} /\ n \in onlyDocs
      /\ onlyDocs' = onlyDocs \ {n} /\ dirty' \in {dirty, TRUE}
      /\ UNCHANGED <<config, full, conflicted, pairs, onlyRows, doomed>>
      /\ \/ dirty' = TRUE
         \/ /\ k \in Id /\ r \in Row /\ rows' = Put(rows, k, r)
            /\ \/ docs' = docs
               \/ n \in Live(docs) /\ docs' = Link(docs, n, k)
  BY <1>1, CreateRowEffect DEF Put, Link
<1>3. /\ docs \in [Name -> Doc \cup {None, Gone}] /\ rows \in [Id -> Row \cup {None, Gone}]
      /\ lastId \in 0..MaxId /\ Live(docs) \subseteq Name /\ Live(rows) \subseteq Id
  BY <1>1, LiveSets DEF TypeOK
<1>4. k \notin Live(rows)
  <2>1. ~(k <= lastId)
    BY <1>3
  <2>2. \A i \in Live(rows) : i <= lastId
    BY <1>1, <1>3 DEF RowIds, Live
  <2>3. QED
    BY <2>1, <2>2
<1>5. r.fid = n
  OBVIOUS
<1> HIDE DEF k, r
<1>6. ~dirty
  BY <1>2, Zenon
<1>7. dirty' # TRUE
  BY Zenon
<1>8. k \in Id /\ r \in Row /\ rows' = Put(rows, k, r) /\ docs' \in {docs, Link(docs, n, k)}
  BY <1>2, <1>7
<1>9. /\ onlyDocs \subseteq Live(docs) /\ onlyRows \subseteq Live(rows) /\ n \in Live(docs)
      /\ docs[n].pid = None
  BY <1>2, <1>6 DEF Quiet, WriteInv, OnlyDocsNew
<1>10. /\ Live(rows') = Live(rows) \cup {k}
       /\ rows'[k] = r /\ \A j \in Id : j # k => rows'[j] = rows[j]
  BY <1>3, <1>8, RowInserted
<1>11. /\ Live(docs') = Live(docs)
       /\ \A m \in Live(docs) : m # n => docs'[m].pid = docs[m].pid
  <2>1. /\ Live(Link(docs, n, k)) = Live(docs)
        /\ \A m \in Live(docs) : Link(docs, n, k)[m].pid = IF m = n THEN k ELSE docs[m].pid
    BY <1>3, <1>8, <1>9, DocLinked
  <2>2. QED
    BY <1>8, <2>1
<1>12. rows'[k].fid = n
  BY <1>5, <1>10
<1>13. \A m \in Live(docs), i \in Live(rows) : Linked(m, i) => Linked(m, i)'
  <2>1. \A i \in Live(rows) : rows'[i] = rows[i] /\ i # None
    BY <1>3, <1>4, <1>10
  <2>2. QED
    BY <1>9, <1>11, <2>1 DEF Linked
<1>14. Quiet'
  BY <1>2, <1>9, <1>10, <1>11 DEF Quiet
<1>15. Complete'
  <2> SUFFICES ASSUME full, conflicted = {}, config.delete PROVE Accounted'
    BY <1>2 DEF Complete
  <2>1. Accounted
    BY <1>2, <1>6 DEF Complete
  <2> DEFINE After(m, i) == docs'[m].pid = i \/ rows'[i].fid = m
  <2>2. /\ After(n, k) /\ k \in Live(rows') /\ n \in Live(docs')
        /\ \A m \in Live(docs), i \in Live(rows) : Linked(m, i) => After(m, i)
    BY <1>9, <1>10, <1>11, <1>12, <1>13 DEF Linked
  <2> HIDE DEF After
  <2>3. \A m \in Live(docs') : \/ \E i \in Live(rows') : After(m, i)
                               \/ /\ m \in Live(docs)
                                  /\ m \in doomed \cup onlyDocs => m \in doomed' \cup onlyDocs'
    BY <1>2, <1>11, <2>2
  <2>4. \A i \in Live(rows') : \/ \E m \in Live(docs') : After(m, i)
                               \/ /\ i \in Live(rows)
                                  /\ i \in doomed \cup onlyRows => i \in doomed' \cup onlyRows'
    BY <1>2, <1>10, <2>2
  <2> USE DEF After
  <2>5. \A m \in Live(docs), i \in Live(rows) :
          Linked(m, i) => (m \in Live(docs') <=> i \in Live(rows'))
    BY <1>10, <1>11
  <2>6. QED
    BY <1>13, <2>1, <2>3, <2>4, <2>5, StaysAccounted DEF Linked
<1>16. QED
  BY <1>14, <1>15

LEMMA CreateDocCompletes ==
  ASSUME TableInv, WriteInv, Quiet, Complete, NEW i \in Id, CreateDoc(i)
  PROVE  Quiet' /\ Complete'
<1> SUFFICES ASSUME ~dirty' PROVE Quiet' /\ Complete'
  BY DEF Quiet, Complete
<1>1. TypeOK
  BY DEF TableInv, TypeInv
<1>2. /\ phase = "write" /\ phase' = "write" /\ pairs = {} /\ doomed = {} /\ i \in onlyRows
      /\ onlyRows' = onlyRows \ {i} /\ onlyDocs = {} /\ dirty' \in {dirty, TRUE}
      /\ UNCHANGED <<config, full, conflicted, pairs, onlyDocs, doomed>>
  BY <1>1, CreateDocEffect
<1>3. ~dirty
  BY <1>2, Zenon
<1>4. onlyRows \subseteq Live(rows)
  BY <1>2, <1>3 DEF Quiet
<1>5. dirty' # TRUE
  BY Zenon
<1>6. PICK n \in Name :
        /\ Unused(n) /\ [pid |-> i, born |-> i] \in Doc
        /\ docs' = Put(docs, n, [pid |-> i, born |-> i]) /\ rows' = Rename(rows, i, n)
  BY <1>1, <1>2, <1>4, <1>5, CreateDocEffect DEF Put, Rename
<1> DEFINE d == [pid |-> i, born |-> i]
<1>7. d \in Doc /\ d.pid = i /\ docs' = Put(docs, n, d)
  BY <1>6
<1> HIDE DEF d
<1>8. /\ docs \in [Name -> Doc \cup {None, Gone}] /\ rows \in [Id -> Row \cup {None, Gone}]
      /\ Live(docs) \subseteq Name /\ Live(rows) \subseteq Id /\ i \in Live(rows)
      /\ n \notin Live(docs)
  BY <1>1, <1>2, <1>4, <1>6, LiveSets DEF TypeOK, Unused, Live
<1>9. /\ Live(docs') = Live(docs) \cup {n}
      /\ docs'[n] = d /\ \A m \in Name : m # n => docs'[m] = docs[m]
  BY <1>7, <1>8, DocInserted
<1>10. /\ Live(rows') = Live(rows)
       /\ \A j \in Live(rows) : rows'[j].fid = IF j = i THEN n ELSE rows[j].fid
  BY <1>6, <1>8, RowRenamed
<1>11. rows[i].fid \notin Live(docs)
  <2>1. rows[i].fid = None \/ Deleted(rows[i].fid)
    BY <1>2, <1>8 DEF WriteInv, OnlyRowsNew
  <2>2. None \notin Live(docs) /\ \A m : Deleted(m) => m \notin Live(docs)
    BY <1>8 DEF Deleted, Live
  <2>3. QED
    BY <2>1, <2>2
<1>12. Linked(n, i)'
  BY <1>7, <1>9 DEF Linked
<1>13. \A m \in Live(docs), j \in Live(rows) : Linked(m, j) => Linked(m, j)'
  BY <1>8, <1>9, <1>10, <1>11 DEF Linked
<1>14. Quiet'
  BY <1>2, <1>4, <1>9, <1>10 DEF Quiet
<1>15. Complete'
  <2> SUFFICES ASSUME full, conflicted = {}, config.delete PROVE Accounted'
    BY <1>2 DEF Complete
  <2>1. Accounted
    BY <1>2, <1>3 DEF Complete
  <2> DEFINE After(m, j) == Linked(m, j)'
  <2>2. /\ After(n, i) /\ i \in Live(rows') /\ n \in Live(docs')
        /\ \A m \in Live(docs), j \in Live(rows) : Linked(m, j) => After(m, j)
    BY <1>8, <1>9, <1>10, <1>12, <1>13
  <2> HIDE DEF After
  <2>3. \A m \in Live(docs') : \/ \E j \in Live(rows') : After(m, j)
                               \/ /\ m \in Live(docs)
                                  /\ m \in doomed \cup onlyDocs => m \in doomed' \cup onlyDocs'
    BY <1>2, <1>9, <2>2
  <2>4. \A j \in Live(rows') : \/ \E m \in Live(docs') : After(m, j)
                               \/ /\ j \in Live(rows)
                                  /\ j \in doomed \cup onlyRows => j \in doomed' \cup onlyRows'
    BY <1>2, <1>10, <2>2
  <2> USE DEF After
  <2>5. \A m \in Live(docs), j \in Live(rows) :
          Linked(m, j) => (m \in Live(docs') <=> j \in Live(rows'))
    BY <1>9, <1>10
  <2>6. QED
    BY <1>13, <2>1, <2>3, <2>4, <2>5, StaysAccounted
<1>16. QED
  BY <1>14, <1>15

LEMMA NextComplete ==
  ASSUME LinkInv, FullCover, Fresh, DoomedInv, TodoInv, Quiet, Complete, [Next]_vars
  PROVE  Quiet' /\ Complete'
<1>1. TableInv /\ TypeInv /\ TypeOK /\ WriteInv /\ ReadInv /\ ResolveInv
  BY DEF LinkInv, TableInv, TypeInv
<1>2. CASE UNCHANGED vars
  <2>1. UNCHANGED <<config, docs, rows, phase, full, conflicted, pairs, onlyDocs, onlyRows,
                    doomed, dirty>>
    BY <1>2 DEF vars, siteVars, partnerVars, runVars, readVars, planVars
  <2>2. Quiet'
    BY <2>1 DEF Quiet, Linked
  <2>3. Complete'
    BY <2>1 DEF Complete, Accounted, Linked
  <2>4. QED
    BY <2>2, <2>3
<1>3. CASE \/ NewRow
           \/ \E n \in Name : NewDoc(n) \/ DeleteDoc(n)
           \/ \E i \in Id : DeleteRow(i)
  <2>1. phase' = phase /\ dirty' = (phase # "idle")
    BY <1>1, <1>3, UserEffect DEF NewRow, NewDoc, DeleteDoc, DeleteRow
  <2>2. QED
    BY <2>1 DEF Quiet, Complete
<1>4. CASE Plan
  BY <1>1, <1>4, PlanQuiet, PlanComplete
<1>5. CASE \/ \E p \in pairs : SyncPair(p)
           \/ \E x \in doomed : DeleteOrphan(x)
           \/ \E n \in Name : CreateRow(n)
           \/ \E i \in Id : CreateDoc(i)
  BY <1>1, <1>5, SyncPairCompletes, DeleteOrphanCompletes, CreateRowCompletes,
     CreateDocCompletes
<1>6. CASE EndRun
  <2>1. /\ phase = "write" /\ phase' = "end"
        /\ UNCHANGED <<config, docs, rows, full, conflicted, onlyDocs, onlyRows, doomed, dirty>>
    BY <1>6 DEF EndRun, partnerVars, readVars, planVars
  <2>2. Complete'
    BY <2>1 DEF Complete, Accounted, Linked
  <2>3. QED
    BY <2>1, <2>2 DEF Quiet
<1>7. CASE \/ \E n \in Name : ResolveDoc(n)
           \/ \E i \in Id : ResolveRow(i)
           \/ Start \/ ReadLookup \/ ReadPartner \/ Index \/ Finish \/ Crash
  <2>1. phase' \notin {"write", "end"}
    BY <1>1, <1>7, ResolveDocEffect, ResolveRowEffect, ResetType
       DEF Start, ReadLookup, ReadPartner, Index, Finish, Crash
  <2>2. QED
    BY <2>1 DEF Quiet, Complete
<1>8. QED
  BY <1>2, <1>3, <1>4, <1>5, <1>6, <1>7 DEF Next

\* A full sync that deletes what is missing, in which nothing failed or changed and
\* no links contradict each other, leaves every document with a row and every row with
\* a document: nothing that was read is forgotten on the way from the lists over the
\* plan to the writes, and no later write of the run cuts a link an earlier one made.
THEOREM FullSyncLinksAll ==
  ASSUME NewNames, ~Unruly
  PROVE  Spec => []Completes
<1> DEFINE Inv == /\ LinkInv /\ FullCover /\ Fresh /\ DoomedInv
                  /\ TodoInv /\ Quiet /\ Complete
<1>1. Init => Inv
  <2>1. Init => Fresh
    BY DEF Init, Fresh, Looked, Nothing
  <2>2. Init => FullCover /\ DoomedInv /\ TodoInv /\ Quiet /\ Complete
    BY DEF Init, FullCover, DoomedInv, TodoInv, Quiet, Complete
  <2>3. QED
    BY <2>1, <2>2, InitLinks
<1>2. Inv /\ [Next]_vars => Inv'
  <2> SUFFICES ASSUME Inv, [Next]_vars PROVE Inv'
    OBVIOUS
  <2>1. LinkInv'
    BY NextLinks
  <2>2. FullCover' /\ Fresh' /\ TodoInv'
    BY NextCover, NextFresh, NextTodo DEF LinkInv, TableInv
  <2>3. DoomedInv'
    BY <2>1, NextDoomed
  <2>4. Quiet' /\ Complete'
    BY NextComplete
  <2>5. QED
    BY <2>1, <2>2, <2>3, <2>4
<1>3. Inv => Completes
  <2> SUFFICES ASSUME Inv, phase = "end", full, ~dirty, conflicted = {}, config.delete
               PROVE  /\ \A n \in Live(docs) : \E i \in Live(rows) : docs[n].pid = i \/ rows[i].fid = n
                      /\ \A i \in Live(rows) : \E n \in Live(docs) : docs[n].pid = i \/ rows[i].fid = n
    BY DEF Completes
  <2>1. doomed = {} /\ onlyDocs = {} /\ onlyRows = {}
    BY DEF LinkInv, TableInv, TypeInv, NoLeftovers
  <2>2. Accounted
    BY DEF Complete
  <2>3. QED
    BY <2>1, <2>2 DEF Accounted, Linked
<1>4. QED
  BY <1>1, <1>2, <1>3, PTL DEF Spec

=============================================================================
