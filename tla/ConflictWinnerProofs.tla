------------------------ MODULE ConflictWinnerProofs ------------------------
(***************************************************************************)
(* Theorems about ConflictWinner for every number of edits, instants and   *)
(* faults and for all definitions.                                         *)
(*                                                                         *)
(* WinnerInv, the inductive invariant:                                     *)
(*   StampInv   what stamps say of the edits they belong to: a value newer *)
(*              than the run has a stamp not before its start              *)
(*   LinkedInv  in match_fields mode with identities all documents are     *)
(*              linked, so that a document and its row are always compared *)
(*   SeenInv    DivergenceIsSeen, of what is committed as well             *)
(*   ItemInv    an open item is a tie, or dead: one of the two values it   *)
(*              shows will never be seen again, or they became one         *)
(*   ReadInv    between what was read and what the sides are now lies an   *)
(*              edit, a resolution that made them equal, or nothing        *)
(*   WriteInv   what is to be written is still there, and a run to which   *)
(*              nothing is left to write has left the sides Rested         *)
(* The last gives SeenInv its baseline: it becomes the start of a run that *)
(* ends with the sides equal or with one changed since, hence stamped at   *)
(* or after it.                                                            *)
(*                                                                         *)
(* NewestInv, for NewestWins, speaks of edits and of stamps:               *)
(*   TimeInv    a stamp is the time of its edit, or a later one that was   *)
(*              put on the document when its link was saved                *)
(*   HonestInv  what carries a later stamp may replace the other side all  *)
(*              the same, or the other side is newer even than that stamp  *)
(*   LaterInv   what was edited after it was read is visibly newer         *)
(*   FairInv    the winner of what was read may replace what is there now  *)
(*                                                                         *)
(* Assumptions: "adopt" and "late" are not among the Breaches, and for     *)
(* NewestStays "race" is not.  Edits in the moment a link is saved may win *)
(* or lose wrongly, but a difference they leave is seen.                   *)
(***************************************************************************)
EXTENDS ConflictWinner, TLAPS

USE ConfigAssumption, NoneAssumption, BoundAssumption

-----------------------------------------------------------------------------
(* What an action changes, with the tuples of variables spelled out *)

LEMMA TickFrame ==
  ASSUME Tick
  PROVE  /\ clock < MaxTime /\ clock' = clock + 1
         /\ UNCHANGED <<config, edits, at, doc, saved, row, bumped, faults, baseline, phase, start,
                       before, outcome, opDoc, knownDoc, opRow, knownRow, push, pull, items>>
BY DEF Tick, sideVars, runVars, readVars

LEMMA EditFrame ==
  ASSUME TypeOK, NewEdit
  PROVE  /\ edits' = edits + 1 /\ edits \in Nat /\ edits' \in Edit
         /\ at' \in [Edit -> Time] /\ clock \in Time
         /\ UNCHANGED <<config, clock, bumped, faults, baseline, phase, start, before, outcome,
                       opDoc, knownDoc, opRow, knownRow, push, pull, items>>
<1>1. edits \in Edit /\ clock \in Time /\ at \in [Edit -> Time]
  BY Zenon DEF TypeOK
<1>2. edits' = edits + 1 /\ edits < MaxEdits /\ at' = [at EXCEPT ![edits + 1] = clock]
  BY Zenon DEF NewEdit
<1>3. edits \in Nat /\ edits' \in Edit
  BY <1>1, <1>2 DEF Edit
<1>4. at' \in [Edit -> Time]
  BY <1>1, <1>2
<1>5. UNCHANGED <<config, clock, bumped, faults, baseline, phase, start, before, outcome,
                  opDoc, knownDoc, opRow, knownRow, push, pull, items>>
  BY DEF NewEdit, runVars, readVars
<1> QED
  BY <1>1, <1>2, <1>3, <1>4, <1>5

LEMMA EditDocFrame ==
  ASSUME TypeOK, EditDoc
  PROVE  /\ doc = saved /\ saved' = doc' /\ row' = row
         /\ doc' \in Doc /\ doc'.val = edits + 1 /\ doc'.mod = clock /\ doc'.linked = doc.linked
<1>1. NewEdit /\ doc = saved /\ doc' = [doc EXCEPT !.val = edits + 1, !.mod = clock]
      /\ saved' = doc' /\ row' = row
  BY Zenon DEF EditDoc
<1>2. doc \in Doc /\ edits + 1 \in Edit /\ clock \in Time
  BY <1>1, EditFrame DEF TypeOK
<1> QED
  BY <1>1, <1>2 DEF Doc

LEMMA EditRowFrame ==
  ASSUME TypeOK, EditRow
  PROVE  /\ UNCHANGED <<doc, saved>>
         /\ row' \in Row /\ row'.val = edits + 1 /\ row'.mod = clock
<1>1. NewEdit /\ row' = [val |-> edits + 1, mod |-> clock] /\ doc' = doc /\ saved' = saved
  BY DEF EditRow
<1>2. edits + 1 \in Edit /\ clock \in Time
  BY <1>1, EditFrame
<1> QED
  BY <1>1, <1>2 DEF Row

LEMMA ReadFrame ==
  ASSUME Start \/ ReadLookup \/ ReadPartner
  PROVE  UNCHANGED <<config, clock, edits, at, doc, saved, row, bumped, faults, baseline, items, push, pull>>
BY DEF Start, ReadLookup, ReadPartner, userVars, sideVars

LEMMA DecideFrame ==
  ASSUME Decide
  PROVE  /\ phase = "rows" /\ phase' = "push" /\ knownRow' = IF IsDelta THEN row ELSE opRow
         /\ UNCHANGED <<config, clock, edits, at, doc, saved, row, bumped, faults, baseline, start,
                       before, opDoc, knownDoc, opRow>>
BY DEF Decide, userVars, sideVars

LEMMA WriteFrame ==
  ASSUME Push \/ Link \/ Pull
  PROVE  /\ UNCHANGED <<config, clock, edits, at, baseline, start, before, opDoc, knownDoc, opRow,
                       knownRow, items>>
         /\ saved' \in {saved, doc'}
BY DEF Push, Link, Pull, Writing, Log, userVars, readVars

LEMMA ResetFrame ==
  ASSUME Finish \/ Crash
  PROVE  /\ Reset
         /\ UNCHANGED <<config, clock, edits, at, row, bumped, items>>
BY DEF Finish, Crash, userVars

LEMMA AcceptFrame ==
  ASSUME NEW it \in items, AcceptRow(it) \/ AcceptDoc(it) \/ ResolutionFails(it)
  PROVE  /\ config.update /\ items' \in {items, items \ {it}}
         /\ UNCHANGED <<config, clock, edits, at, bumped, baseline, phase, start, before, outcome,
                       opDoc, knownDoc, opRow, knownRow, push, pull>>
BY DEF AcceptRow, AcceptDoc, ResolutionFails, Close, userVars, sideVars, runVars, readVars

LEMMA AcceptRowFrame ==
  ASSUME TypeOK, NEW it \in items, AcceptRow(it)
  PROVE  /\ doc = saved /\ Current(it) /\ saved' = doc' /\ UNCHANGED <<row, faults>>
         /\ doc' \in Doc /\ doc'.val = it.row.val /\ doc'.mod = it.row.mod
         /\ doc.linked => doc'.linked
<1>1. /\ doc = saved /\ Current(it) /\ saved' = doc' /\ row' = row /\ faults' = faults
      /\ doc' = [val |-> it.row.val, mod |-> it.row.mod,
                 linked |-> doc.linked \/ config.mode = "identity_fields"]
  BY Zenon DEF AcceptRow
<1>2. it.row \in Row
  BY DEF TypeOK, Item
<1>3. (doc.linked \/ config.mode = "identity_fields") \in BOOLEAN
  OBVIOUS
<1> QED
  BY <1>1, <1>2, <1>3 DEF Doc, Row

LEMMA AcceptDocFrame ==
  ASSUME TypeOK, NEW it \in items, AcceptDoc(it)
  PROVE  /\ Current(it) /\ UNCHANGED <<doc, saved, faults>>
         /\ row' \in Row /\ row'.val = it.doc.val /\ row'.mod = it.doc.mod
<1>1. /\ Current(it) /\ UNCHANGED <<doc, saved, faults>>
      /\ row' = [val |-> it.doc.val, mod |-> it.doc.mod]
  BY DEF AcceptDoc, Pushed
<1>2. it.doc \in Doc
  BY DEF TypeOK, Item
<1> QED
  BY <1>1, <1>2 DEF Doc, Row

-----------------------------------------------------------------------------
(* Type correctness *)

Reading == phase \in {"lookup", "partner", "rows"}

\* What a phase has read and what it has not decided yet.
PhaseInv ==
  /\ Reading => outcome = "Success" /\ push = None /\ pull = None
  /\ push # None => phase \in {"push", "link"}
  /\ pull # None => phase \in {"push", "link", "pull"}
  /\ phase = "link" => push # None
  /\ phase = "idle" => opDoc = None /\ knownDoc = None /\ opRow = None /\ knownRow = None
  /\ Reading /\ ~IsDelta => opDoc # None /\ knownDoc = opDoc
  /\ phase \in {"partner", "rows"} => knownDoc # None
  /\ phase = "rows" /\ ~IsDelta => opRow # None
  /\ phase \notin {"pull", "end"} => saved = doc

TypeInv == TypeOK /\ PhaseInv

LEMMA TypeInit == Init => TypeInv
<1> SUFFICES ASSUME Init PROVE TypeInv
  OBVIOUS
<1>1. TypeOK
  BY DEF Init, TypeOK, Edit, Time, Doc, Row, Config
<1>2. PhaseInv
  BY DEF Init, PhaseInv, Reading
<1> QED
  BY <1>1, <1>2 DEF TypeInv

\* The fields of the definition at hand.
LEMMA ConfigFields ==
  ASSUME TypeOK
  PROVE  /\ config \in Configs
         /\ config.mode \in {"match_fields", "identity_fields"}
         /\ config.ids \in BOOLEAN /\ config.delta \in BOOLEAN /\ config.update \in BOOLEAN
         /\ config.buffer \in 0..1
         /\ config.tie \in {"manual", "frappe_wins", "partner_wins"}
BY DEF TypeOK, Config

LEMMA PairDecision ==
  ASSUME TypeOK, NEW d \in Doc, NEW r \in Row, DecidePair(d, r)
  PROVE  /\ push' \in {d, None} /\ pull' \in {r, None} /\ (push' = None \/ pull' = None)
         /\ \/ items' = items \cup {[doc |-> d, row |-> r]} /\ outcome' = "Needs Review"
               /\ push' = None /\ pull' = None
            \/ items' = items /\ outcome' = outcome
<1> DEFINE differ == d.val # r.val \/ (config.mode = "identity_fields" /\ ~d.linked)
           winner == IF differ /\ config.update THEN Winner(d, r) ELSE "none"
<1>1. /\ push' = IF winner = "frappe" THEN d ELSE None
      /\ pull' = IF winner = "partner" THEN r ELSE None
      /\ IF winner = "manual"
         THEN items' = items \cup {[doc |-> d, row |-> r]} /\ outcome' = "Needs Review"
         ELSE items' = items /\ outcome' = outcome
  BY DEF DecidePair
<1> HIDE DEF winner
<1> QED
  BY <1>1


LEMMA TypeOfUsers ==
  ASSUME TypeInv, Tick \/ EditDoc \/ EditRow
  PROVE  TypeInv'
<1> USE DEF TypeInv
<1>1. CASE Tick
  <2>1. clock \in Time
    BY Zenon DEF TypeOK
  <2>2. clock' \in Time
    BY <1>1, <2>1, TickFrame DEF Time
  <2>3. TypeOK'
    BY <1>1, <2>2, TickFrame, Zenon DEF TypeOK
  <2>4. PhaseInv'
    BY <1>1, TickFrame DEF PhaseInv, Reading, IsDelta
  <2> QED
    BY <2>3, <2>4
<1>2. CASE EditDoc
  <2>1. NewEdit
    BY <1>2 DEF EditDoc
  <2>2. TypeOK'
    BY <1>2, <2>1, EditFrame, EditDocFrame, Zenon DEF TypeOK
  <2>3. PhaseInv'
    BY <1>2, <2>1, EditFrame, EditDocFrame DEF PhaseInv, Reading, IsDelta
  <2> QED
    BY <2>2, <2>3
<1>3. CASE EditRow
  <2>1. NewEdit
    BY <1>3 DEF EditRow
  <2>2. TypeOK'
    BY <1>3, <2>1, EditFrame, EditRowFrame, Zenon DEF TypeOK
  <2>3. PhaseInv'
    BY <1>3, <2>1, EditFrame, EditRowFrame DEF PhaseInv, Reading, IsDelta
  <2> QED
    BY <2>2, <2>3
<1> QED
  BY <1>1, <1>2, <1>3

LEMMA TypeOfReads ==
  ASSUME TypeInv, Start \/ ReadLookup \/ ReadPartner
  PROVE  TypeInv'
<1> USE DEF TypeInv
<1>1. Listed(doc) \in Doc \cup {None} /\ Listed(row) \in Row \cup {None}
      /\ doc \in Doc /\ row \in Row /\ doc # None /\ row # None
  BY DEF Listed, TypeOK
<1>2. (~IsDelta => Listed(doc) = doc /\ Listed(row) = row) /\ (IsDelta <=> IsDelta')
  BY ReadFrame DEF Listed, IsDelta
<1>3. CASE Start
  <2>1. /\ phase = "idle" /\ phase' = "lookup" /\ start' = clock /\ before' = edits /\ outcome' = "Success"
        /\ opDoc' = Listed(doc) /\ knownDoc' = IF IsDelta THEN None ELSE opDoc'
        /\ UNCHANGED <<opRow, knownRow>>
    BY <1>3 DEF Start
  <2>2. TypeOK'
    BY <1>1, <2>1, ReadFrame DEF TypeOK
  <2>3. PhaseInv'
    BY <1>1, <1>2, <2>1, ReadFrame DEF PhaseInv, Reading
  <2> QED
    BY <2>2, <2>3
<1>4. CASE ReadLookup
  <2>1. /\ phase = "lookup" /\ phase' = "partner" /\ knownDoc' = IF IsDelta THEN doc ELSE knownDoc
        /\ UNCHANGED <<start, before, outcome, opDoc, opRow, knownRow>>
    BY <1>4 DEF ReadLookup
  <2>2. TypeOK'
    BY <1>1, <2>1, ReadFrame DEF TypeOK
  <2>3. PhaseInv'
    BY <1>1, <1>2, <2>1, ReadFrame DEF PhaseInv, Reading
  <2> QED
    BY <2>2, <2>3
<1>5. CASE ReadPartner
  <2>1. /\ phase = "partner" /\ phase' = "rows" /\ opRow' = Listed(row)
        /\ knownRow' = IF IsDelta THEN None ELSE opRow'
        /\ UNCHANGED <<start, before, outcome, opDoc, knownDoc>>
    BY <1>5 DEF ReadPartner
  <2>2. TypeOK'
    BY <1>1, <2>1, ReadFrame DEF TypeOK
  <2>3. PhaseInv'
    BY <1>1, <1>2, <2>1, ReadFrame DEF PhaseInv, Reading
  <2> QED
    BY <2>2, <2>3
<1> QED
  BY <1>3, <1>4, <1>5

LEMMA TypeOfDecision ==
  ASSUME TypeInv, Decide
  PROVE  TypeInv'
<1> USE DEF TypeInv
<1>1. /\ UNCHANGED <<config, clock, edits, at, doc, saved, row, bumped, faults, baseline, start, before,
                     opDoc, knownDoc, opRow>>
      /\ phase = "rows" /\ phase' = "push"
      /\ knownRow' = IF IsDelta THEN row ELSE opRow
  BY DEF Decide, userVars, sideVars
<1>2. outcome = "Success" /\ knownDoc \in Doc /\ (~IsDelta => opDoc # None /\ opRow # None) /\ saved = doc
      /\ row \in Row
  BY <1>1 DEF PhaseInv, TypeOK, Reading
<1>3. knownRow' \in Row /\ opRow \in Row \cup {None} /\ opDoc \in Doc \cup {None}
  BY <1>1, <1>2 DEF TypeOK
<1>4. /\ push' \in {opDoc, knownDoc, None} /\ pull' \in {opRow, knownRow', None}
      /\ items' \in SUBSET Item /\ outcome' \in {"Success", "Needs Review"}
  <2>0. items \in SUBSET Item
    BY DEF TypeOK
  <2>1. ASSUME NEW d \in Doc, NEW r \in Row, DecidePair(d, r), d \in {opDoc, knownDoc}, r \in {opRow, knownRow'}
        PROVE  /\ push' \in {opDoc, knownDoc, None} /\ pull' \in {opRow, knownRow', None}
               /\ items' \in SUBSET Item /\ outcome' \in {"Success", "Needs Review"}
    <3>1. [doc |-> d, row |-> r] \in Item
      BY DEF Item
    <3>2. /\ push' \in {opDoc, knownDoc, None} /\ pull' \in {opRow, knownRow', None}
          /\ \/ items' = items \cup {[doc |-> d, row |-> r]} /\ outcome' = "Needs Review"
             \/ items' = items /\ outcome' = outcome
      BY <2>1, PairDecision, Zenon
    <3> QED
      BY <1>2, <2>0, <3>1, <3>2
  <2>2. CASE opDoc = None /\ opRow = None
    BY <1>1, <1>2, <2>0, <2>2 DEF Decide
  <2>3. CASE DecideAlone
    BY <1>2, <2>0, <2>3 DEF DecideAlone
  <2>4. CASE opDoc # None /\ DecidePair(opDoc, knownRow')
    BY <1>3, <2>1, <2>4
  <2>5. CASE opRow # None /\ DecidePair(knownDoc, opRow)
    BY <1>2, <1>3, <2>1, <2>5
  <2>6. CASE opRow # None /\ opDoc # None /\ DecidePair(opDoc, opRow)
    BY <1>3, <2>1, <2>6
  <2> QED
    BY <2>2, <2>3, <2>4, <2>5, <2>6 DEF Decide
<1>5. TypeOK'
  BY <1>1, <1>2, <1>3, <1>4 DEF TypeOK
<1>6. PhaseInv'
  BY <1>1, <1>2, <1>4 DEF PhaseInv, Reading
<1> QED
  BY <1>5, <1>6

LEMMA FaultTypes ==
  ASSUME TypeOK, Fails \/ (faults < MaxFaults /\ faults' = faults + 1)
  PROVE  faults' \in 0..MaxFaults /\ (Fails => outcome' = "Partial Error")
<1>1. faults \in 0..MaxFaults
  BY Zenon DEF TypeOK
<1>2. faults < MaxFaults /\ faults' = faults + 1
  BY Zenon DEF Fails
<1>3. faults' \in 0..MaxFaults
  BY <1>1, <1>2
<1>4. Fails => outcome' = "Partial Error"
  BY Zenon DEF Fails
<1> QED
  BY <1>3, <1>4, Zenon

LEMMA TypeOfWrites ==
  ASSUME TypeInv, Push \/ Link \/ Pull
  PROVE  TypeInv'
<1> USE DEF TypeInv
<1>1. (IsDelta <=> IsDelta') /\ clock \in Time
  BY WriteFrame, Zenon DEF IsDelta, TypeOK
<1>2. Fails => faults' \in 0..MaxFaults /\ outcome' = "Partial Error"
  <2>1. SUFFICES ASSUME Fails PROVE faults' \in 0..MaxFaults /\ outcome' = "Partial Error"
    BY Zenon
  <2>2. Fails \/ (faults < MaxFaults /\ faults' = faults + 1)
    BY <2>1, Zenon
  <2> QED
    BY <2>1, <2>2, FaultTypes, Zenon
<1>3. CASE Push
  <2>1. /\ phase = "push" /\ phase' \in {"link", "pull"} /\ push' \in {push, None}
        /\ phase' = "link" <=> push' # None
        /\ UNCHANGED <<doc, bumped, pull>>
    BY <1>3 DEF Push
  <2>2. saved' = doc' /\ saved = doc /\ doc \in Doc
    BY <2>1, <1>3, WriteFrame DEF PhaseInv, TypeOK
  <2>3. row' \in Row
    <3>1. CASE push = None
      BY <1>3, <3>1 DEF Push, TypeOK
    <3>2. CASE push # None
      <4>1. Pushed(push) \in Row
        BY <3>2 DEF Pushed, TypeOK, Doc, Row
      <4> QED
        BY <1>3, <3>2, <4>1 DEF Push, TypeOK
    <3> QED
      BY <3>1, <3>2
  <2>4. faults' \in 0..MaxFaults /\ outcome' \in {"Success", "Needs Review", "Partial Error"}
    BY <1>2, <1>3 DEF Push, TypeOK
  <2>5. TypeOK'
    BY <1>3, <2>1, <2>2, <2>3, <2>4, WriteFrame DEF TypeOK
  <2>6. PhaseInv'
    BY <1>3, <2>1, <2>2, WriteFrame DEF PhaseInv, Reading
  <2> QED
    BY <2>5, <2>6
<1>4. CASE Link
  <2>1. phase = "link" /\ phase' = "pull" /\ push' = None /\ UNCHANGED <<row, pull>>
    BY <1>4 DEF Link
  <2>2. doc' \in Doc /\ bumped' \in Time \cup {None}
    <3>1. doc \in Doc /\ bumped \in Time \cup {None} /\ [doc EXCEPT !.linked = TRUE, !.mod = clock] \in Doc
      BY <1>1 DEF TypeOK, Doc
    <3> QED
      BY <1>1, <1>4, <3>1 DEF Link
  <2>3. saved' \in Doc
    BY <1>4, <2>2, WriteFrame DEF TypeOK
  <2>4. faults' \in 0..MaxFaults /\ outcome' \in {"Success", "Needs Review", "Partial Error"}
    BY <1>2, <1>4 DEF Link, TypeOK
  <2>5. TypeOK'
    BY <1>4, <2>1, <2>2, <2>3, <2>4, WriteFrame DEF TypeOK
  <2>6. PhaseInv'
    BY <1>4, <2>1, WriteFrame DEF PhaseInv, Reading
  <2> QED
    BY <2>5, <2>6
<1>5. CASE Pull
  <2>1. phase = "pull" /\ phase' = "end" /\ pull' = None /\ UNCHANGED <<row, bumped, push>>
    BY <1>5 DEF Pull
  <2>2. doc' \in Doc
    <3>1. CASE pull = None
      BY <1>5, <3>1 DEF Pull, TypeOK
    <3>2. CASE pull # None
      <4>1. pull \in Row /\ config.ids \in BOOLEAN
        BY <3>2, ConfigFields DEF TypeOK
      <4>2. Pulled(pull) \in Doc
        BY <4>1 DEF Pulled, Doc, Row
      <4> QED
        BY <1>5, <3>2, <4>2 DEF Pull, TypeOK
    <3> QED
      BY <3>1, <3>2
  <2>3. saved' \in Doc
    BY <1>5, <2>2, WriteFrame DEF TypeOK
  <2>4. faults' \in 0..MaxFaults /\ outcome' \in {"Success", "Needs Review", "Partial Error"}
    BY <1>2, <1>5 DEF Pull, TypeOK
  <2>5. TypeOK'
    BY <1>5, <2>1, <2>2, <2>3, <2>4, WriteFrame DEF TypeOK
  <2>6. PhaseInv'
    BY <1>5, <2>1, WriteFrame DEF PhaseInv, Reading
  <2> QED
    BY <2>5, <2>6
<1> QED
  BY <1>3, <1>4, <1>5

LEMMA TypeOfEnds ==
  ASSUME TypeInv, Finish \/ Crash
  PROVE  TypeInv'
<1> USE DEF TypeInv
<1>1. /\ phase' = "idle" /\ start' = 0 /\ before' = 0 /\ outcome' = "Success"
      /\ opDoc' = None /\ knownDoc' = None /\ opRow' = None /\ knownRow' = None
      /\ push' = None /\ pull' = None
      /\ UNCHANGED <<config, clock, edits, at, row, bumped, items>>
  BY ResetFrame DEF Reset
<1>2. saved' = doc' /\ doc' \in Doc
  BY DEF Finish, Crash, TypeOK
<1>3. faults' \in 0..MaxFaults
  <2>1. faults' = faults \/ (faults < MaxFaults /\ faults' = faults + 1)
    BY Zenon DEF Finish, Crash
  <2>2. faults \in 0..MaxFaults
    BY Zenon DEF TypeOK
  <2> QED
    BY <2>1, <2>2, FaultTypes, Zenon
<1>4. baseline' \in Time \cup {None} /\ 0 \in Time /\ 0 \in Edit
  <2>1. baseline' \in {baseline, start}
    BY DEF Finish, Crash, SyncStamp
  <2>2. start \in Time /\ baseline \in Time \cup {None}
    BY Zenon DEF TypeOK
  <2>3. 0 \in Time /\ 0 \in Edit
    BY DEF Time, Edit
  <2> QED
    BY <2>1, <2>2, <2>3
<1>5. TypeOK'
  BY <1>1, <1>2, <1>3, <1>4 DEF TypeOK
<1>6. PhaseInv'
  BY <1>1, <1>2 DEF PhaseInv, Reading
<1> QED
  BY <1>5, <1>6

LEMMA TypeOfResolutions ==
  ASSUME TypeInv, NEW it \in items, AcceptRow(it) \/ AcceptDoc(it) \/ ResolutionFails(it)
  PROVE  TypeInv'
<1> USE DEF TypeInv
<1>1. IsDelta <=> IsDelta'
  BY AcceptFrame DEF IsDelta
<1>2. items' \subseteq Item
  BY AcceptFrame DEF TypeOK
<1>3. /\ doc' \in Doc /\ saved' \in Doc /\ row' \in Row /\ faults' \in 0..MaxFaults
      /\ saved = doc => saved' = doc'
  <2>1. CASE AcceptRow(it)
    BY <2>1, AcceptRowFrame, Zenon DEF TypeOK
  <2>2. CASE AcceptDoc(it)
    BY <2>2, AcceptDocFrame, Zenon DEF TypeOK
  <2>3. CASE ResolutionFails(it)
    <3>1. UNCHANGED <<doc, saved, row>> /\ faults < MaxFaults /\ faults' = faults + 1
      BY <2>3 DEF ResolutionFails, sideVars
    <3>2. doc \in Doc /\ saved \in Doc /\ row \in Row
      BY Zenon DEF TypeOK
    <3> QED
      BY <3>1, <3>2, FaultTypes, Zenon
  <2> QED
    BY <2>1, <2>2, <2>3
<1>4. TypeOK'
  BY <1>2, <1>3, AcceptFrame, Zenon DEF TypeOK
<1>5. PhaseInv'
  BY <1>1, <1>3, AcceptFrame DEF PhaseInv, Reading
<1> QED
  BY <1>4, <1>5

LEMMA TypeStep == TypeInv /\ [Next]_vars => TypeInv'
<1> SUFFICES ASSUME TypeInv, [Next]_vars PROVE TypeInv'
  OBVIOUS
<1>1. CASE UNCHANGED vars
  <2>1. UNCHANGED <<config, clock, edits, at, doc, saved, row, bumped, faults, baseline, phase, start,
                    before, outcome, opDoc, knownDoc, opRow, knownRow, push, pull, items>>
    BY <1>1 DEF vars, userVars, sideVars, runVars, readVars
  <2>2. TypeOK'
    BY <2>1, ZenonT(60) DEF TypeInv, TypeOK
  <2>3. PhaseInv'
    BY <2>1 DEF TypeInv, PhaseInv, Reading, IsDelta
  <2> QED
    BY <2>2, <2>3 DEF TypeInv
<1> QED
  BY <1>1, TypeOfUsers, TypeOfReads, TypeOfDecision, TypeOfWrites, TypeOfEnds, TypeOfResolutions
  DEF Next, Run

\* What the documents, rows, items and reads are, whatever happens.
THEOREM TypeCorrect == Spec => []TypeOK
<1>1. Spec => []TypeInv
  BY TypeInit, TypeStep, PTL DEF Spec
<1> QED
  BY <1>1, PTL DEF TypeInv

-----------------------------------------------------------------------------
(* Stamps and the edits they belong to *)

\* Every copy of a side that is still about.
Copies == {doc, saved, row, opDoc, knownDoc, opRow, knownRow, push, pull} \ {None}
Around(v) == \E x \in Copies : x.val = v

\* Made since the run began.
New(v) == v > before

Stamped(x) == x.val <= edits /\ x.mod <= clock /\ (New(x.val) => x.mod >= start)

StampInv ==
  /\ start <= clock /\ before <= edits
  /\ baseline # None => baseline <= clock /\ (phase # "idle" => baseline <= start)
  /\ \A x \in Copies : Stamped(x)
  /\ \A it \in items : it.doc.val <= edits /\ it.row.val <= edits
  /\ phase # "idle" /\ outcome = "Success" =>
       \A it \in items : it.doc.val <= before /\ it.row.val <= before

LEMMA RecordNumbers ==
  /\ \A x \in Doc \cup Row : x.val \in Nat /\ x.mod \in Nat /\ x # None
  /\ \A it \in Item : it.doc \in Doc /\ it.row \in Row
<1>1. \A n \in Time \cup Edit : n \in Nat
  BY DEF Time, Edit
<1>2. \A x \in Doc \cup Row : x.val \in Edit /\ x.mod \in Time /\ x # None
  BY DEF Doc, Row
<1>3. \A it \in Item : it.doc \in Doc /\ it.row \in Row
  BY DEF Item
<1> QED
  BY <1>1, <1>2, <1>3

LEMMA Numbers ==
  ASSUME TypeOK
  PROVE  /\ clock \in Nat /\ edits \in Nat /\ start \in Nat /\ before \in Nat
         /\ baseline # None => baseline \in Nat
         /\ config.buffer \in Nat
         /\ \A x \in Doc \cup Row : x.val \in Nat /\ x.mod \in Nat /\ x # None
         /\ \A it \in items : it.doc \in Doc /\ it.row \in Row
         /\ Copies \subseteq Doc \cup Row /\ doc \in Doc /\ row \in Row
<1>1. \A n \in Time \cup Edit : n \in Nat
  BY DEF Time, Edit
<1>2. clock \in Time /\ edits \in Edit /\ start \in Time /\ before \in Edit /\ baseline \in Time \cup {None}
      /\ config \in Configs
  BY Zenon DEF TypeOK
<1>3. config.buffer \in Nat
  BY <1>2 DEF Config
<1>4. \A x \in Doc \cup Row : x.val \in Nat /\ x.mod \in Nat /\ x # None
  BY RecordNumbers
<1>5. \A it \in items : it.doc \in Doc /\ it.row \in Row
  BY RecordNumbers DEF TypeOK
<1>6. Copies \subseteq Doc \cup Row /\ doc \in Doc /\ row \in Row
  BY DEF TypeOK, Copies
<1> QED
  BY <1>1, <1>2, <1>3, <1>4, <1>5, <1>6

\* A copy is taken from another, or an edit has been made, or the document has been
\* stamped anew.
LEMMA CopiesStep ==
  ASSUME TypeInv, "late" \notin Breaches, [Next]_vars, NEW x \in Copies'
  PROVE  \/ \E y \in Copies :
              x.val = y.val /\ (x.mod = y.mod \/ (x.mod = clock /\ bumped' = clock))
         \/ x.val = edits + 1 /\ edits' = edits + 1 /\ x.mod = clock
<1> DEFINE Copied ==
             \E y \in Copies :
               x.val = y.val /\ (x.mod = y.mod \/ (x.mod = clock /\ bumped' = clock))
<1>0. /\ x # None
      /\ \/ x = doc' \/ x = saved' \/ x = row' \/ x = opDoc' \/ x = knownDoc' \/ x = opRow'
         \/ x = knownRow' \/ x = push' \/ x = pull'
  BY DEF Copies
<1>1. TypeOK /\ doc # None /\ saved # None /\ row # None
  BY DEF TypeInv, TypeOK
<1>2. /\ doc \in Copies /\ saved \in Copies /\ row \in Copies
      /\ \A y \in {opDoc, knownDoc, opRow, knownRow, push, pull} : y # None => y \in Copies
  BY <1>1 DEF Copies
<1>3. x \in Copies => Copied
  OBVIOUS
<1>4. CASE UNCHANGED vars
  <2>1. x \in Copies
    BY <1>0, <1>2, <1>4 DEF vars, sideVars, runVars, readVars
  <2> QED
    BY <1>3, <2>1
<1>5. CASE Tick
  BY <1>0, <1>2, <1>3, <1>5, TickFrame
<1>6. CASE EditDoc
  BY <1>0, <1>1, <1>2, <1>3, <1>6, EditFrame, EditDocFrame DEF EditDoc
<1>7. CASE EditRow
  BY <1>0, <1>1, <1>2, <1>3, <1>7, EditFrame, EditRowFrame DEF EditRow
<1>8. CASE Start \/ ReadLookup \/ ReadPartner
  <2>1. x \in Copies
    BY <1>0, <1>2, <1>8, ReadFrame DEF Start, ReadLookup, ReadPartner, Listed
  <2> QED
    BY <1>3, <2>1
<1>9. CASE Decide
  <2>0. knownRow' \in Copies /\ knownDoc \in Copies /\ opRow \in Row \cup {None} /\ knownRow' \in Row
        /\ knownDoc \in Doc /\ opDoc \in Doc \cup {None}
    BY <1>1, <1>2, <1>9, DecideFrame DEF TypeInv, PhaseInv, Reading, TypeOK
  <2>1. push' \in {opDoc, knownDoc, None} /\ pull' \in {opRow, knownRow', None}
    <3>1. CASE DecideAlone
      BY <3>1 DEF DecideAlone
    <3>2. CASE opDoc # None /\ DecidePair(opDoc, knownRow')
      BY <1>1, <2>0, <3>2, PairDecision
    <3>3. CASE opRow # None /\ DecidePair(knownDoc, opRow)
      BY <1>1, <2>0, <3>3, PairDecision
    <3>4. CASE opRow # None /\ opDoc # None /\ DecidePair(opDoc, opRow)
      BY <1>1, <2>0, <3>4, PairDecision
    <3> QED
      BY <1>9, <3>1, <3>2, <3>3, <3>4 DEF Decide
  <2>2. x \in Copies
    BY <1>0, <1>2, <1>9, <2>0, <2>1, DecideFrame
  <2> QED
    BY <1>3, <2>2
<1>10. CASE Push
  <2>1. /\ UNCHANGED doc /\ push' \in {push, None} /\ UNCHANGED pull
        /\ row' = row \/ (push # None /\ row' = [val |-> push.val, mod |-> push.mod])
    BY <1>10 DEF Push, Pushed
  <2>2. x \in Copies \/ (push # None /\ x.val = push.val /\ x.mod = push.mod)
    BY <1>0, <1>2, <1>10, <2>1, WriteFrame
  <2> QED
    BY <1>2, <1>3, <2>2
<1>11. CASE Link
  <2>1. /\ UNCHANGED row /\ push' \in {push, None} /\ UNCHANGED pull
        /\ \/ doc' = doc
           \/ doc' = [doc EXCEPT !.linked = TRUE, !.mod = clock] /\ bumped' = clock
    BY <1>11 DEF Link
  <2>2. [doc EXCEPT !.linked = TRUE, !.mod = clock].val = doc.val
        /\ [doc EXCEPT !.linked = TRUE, !.mod = clock].mod = clock
    BY <1>1 DEF TypeOK, Doc
  <2>3. x \in Copies \/ (x.val = doc.val /\ x.mod = clock /\ bumped' = clock)
    <3>1. CASE doc' = doc
      BY <1>0, <1>2, <1>11, <2>1, <3>1, WriteFrame
    <3>2. CASE doc' = [doc EXCEPT !.linked = TRUE, !.mod = clock] /\ bumped' = clock
      <4>1. doc'.val = doc.val /\ doc'.mod = clock
        BY <2>2, <3>2
      <4>2. x \in Copies \/ x = doc'
        BY <1>0, <1>2, <1>11, <2>1, WriteFrame
      <4> QED
        BY <3>2, <4>1, <4>2
    <3> QED
      BY <2>1, <3>1, <3>2
  <2> QED
    BY <1>2, <1>3, <2>3
<1>12. CASE Pull
  <2>1. /\ UNCHANGED row /\ UNCHANGED push /\ pull' = None
        /\ doc' = doc \/ (pull # None /\ doc' = [val |-> pull.val, mod |-> pull.mod, linked |-> config.ids])
    BY <1>12 DEF Pull, Pulled
  <2>2. x \in Copies \/ (pull # None /\ x.val = pull.val /\ x.mod = pull.mod)
    BY <1>0, <1>2, <1>12, <2>1, WriteFrame
  <2> QED
    BY <1>2, <1>3, <2>2
<1>13. CASE Finish \/ Crash
  <2>1. x \in Copies
    BY <1>0, <1>2, <1>13, ResetFrame DEF Reset, Finish, Crash
  <2> QED
    BY <1>3, <2>1
<1>14. ASSUME NEW it \in items, AcceptRow(it) \/ AcceptDoc(it) \/ ResolutionFails(it)
       PROVE  Copied
  <2>1. Current(it) => it.doc = doc /\ it.row = row
    BY DEF Current
  <2>2. CASE AcceptRow(it)
    <3>1. x \in Copies \/ (x.val = row.val /\ x.mod = row.mod)
      BY <1>0, <1>1, <1>2, <2>1, <2>2, AcceptFrame, AcceptRowFrame
    <3> QED
      BY <1>2, <1>3, <3>1
  <2>3. CASE AcceptDoc(it)
    <3>1. x \in Copies \/ (x.val = doc.val /\ x.mod = doc.mod)
      BY <1>0, <1>1, <1>2, <2>1, <2>3, AcceptFrame, AcceptDocFrame
    <3> QED
      BY <1>2, <1>3, <3>1
  <2>4. CASE ResolutionFails(it)
    <3>1. x \in Copies
      BY <1>0, <1>2, <2>4, AcceptFrame DEF ResolutionFails, sideVars
    <3> QED
      BY <1>3, <3>1
  <2> QED
    BY <1>14, <2>2, <2>3, <2>4
<1> QED
  BY <1>4, <1>5, <1>6, <1>7, <1>8, <1>9, <1>10, <1>11, <1>12, <1>13, <1>14 DEF Next, Run

\* How time and the run's own times go on.
LEMMA ClockStep ==
  ASSUME TypeInv, [Next]_vars
  PROVE  /\ clock' \in {clock, clock + 1} /\ edits' \in {edits, edits + 1}
         /\ \/ /\ start' = start /\ before' = before /\ baseline' = baseline
               /\ phase' # "idle" <=> phase # "idle"
               /\ outcome' = "Success" => outcome = "Success"
            \/ /\ start' = clock /\ before' = edits /\ baseline' = baseline /\ phase = "idle"
               /\ clock' = clock /\ edits' = edits /\ items' = items
            \/ /\ start' = 0 /\ before' = 0 /\ phase' = "idle" /\ baseline' \in {baseline, start}
               /\ phase # "idle"
<1>0. TypeOK
  BY DEF TypeInv
<1>1. CASE UNCHANGED vars
  BY <1>1 DEF vars, userVars, runVars
<1>2. CASE Tick
  BY <1>2, TickFrame
<1>3. CASE EditDoc \/ EditRow
  BY <1>0, <1>3, EditFrame DEF EditDoc, EditRow
<1>4. CASE Start
  BY <1>4, ReadFrame DEF Start
<1>5. CASE ReadLookup \/ ReadPartner
  BY <1>5, ReadFrame DEF ReadLookup, ReadPartner
<1>6. CASE Decide
  <2>1. outcome = "Success"
    BY <1>6, DecideFrame DEF TypeInv, PhaseInv, Reading
  <2> QED
    BY <1>6, <2>1, DecideFrame
<1>7. CASE Push \/ Link \/ Pull
  <2>1. phase # "idle" /\ phase' # "idle" /\ (outcome' = outcome \/ outcome' = "Partial Error")
    BY <1>7 DEF Push, Link, Pull, Fails
  <2> QED
    BY <1>7, <2>1, WriteFrame
<1>8. CASE Finish \/ Crash
  <2>1. phase # "idle" /\ baseline' \in {baseline, start}
    BY <1>8 DEF Finish, Crash, SyncStamp
  <2> QED
    BY <1>8, <2>1, ResetFrame DEF Reset
<1>9. ASSUME NEW it \in items, AcceptRow(it) \/ AcceptDoc(it) \/ ResolutionFails(it)
      PROVE  /\ clock' = clock /\ edits' = edits
             /\ start' = start /\ before' = before /\ baseline' = baseline
             /\ phase' = phase /\ outcome' = outcome
  BY <1>9, AcceptFrame
<1> QED
  BY <1>1, <1>2, <1>3, <1>4, <1>5, <1>6, <1>7, <1>8, <1>9 DEF Next, Run

\* Items are added by a decision, of records that were read.
LEMMA ItemsStep ==
  ASSUME TypeInv, [Next]_vars
  PROVE  \/ items' \subseteq items
         \/ /\ Decide /\ phase' # "idle" /\ outcome' # "Success"
            /\ \E d \in Copies \cap Doc, r \in Copies \cap Row :
                 DecidePair(d, r) /\ items' = items \cup {[doc |-> d, row |-> r]}
<1>0. TypeOK
  BY DEF TypeInv
<1>1. CASE UNCHANGED vars
  BY <1>1 DEF vars
<1>2. CASE Tick
  BY <1>2, TickFrame
<1>3. CASE EditDoc \/ EditRow
  BY <1>0, <1>3, EditFrame DEF EditDoc, EditRow
<1>4. CASE Start \/ ReadLookup \/ ReadPartner
  BY <1>4, ReadFrame
<1>5. CASE Decide
  <2>1. /\ knownDoc \in Copies \cap Doc /\ knownRow' \in Copies \cap Row
        /\ opDoc # None => opDoc \in Copies \cap Doc
        /\ opRow # None => opRow \in Copies \cap Row
    BY <1>0, <1>5, DecideFrame DEF TypeInv, PhaseInv, Reading, TypeOK, Copies
  <2>2. ASSUME NEW d \in Copies \cap Doc, NEW r \in Copies \cap Row, DecidePair(d, r)
        PROVE  \/ items' \subseteq items
               \/ outcome' # "Success" /\ items' = items \cup {[doc |-> d, row |-> r]}
    BY <1>0, <2>2, PairDecision
  <2>3. CASE UNCHANGED items
    BY <2>3
  <2>4. CASE opDoc # None /\ DecidePair(opDoc, knownRow')
    BY <1>5, <2>1, <2>2, <2>4, DecideFrame
  <2>5. CASE opRow # None /\ DecidePair(knownDoc, opRow)
    BY <1>5, <2>1, <2>2, <2>5, DecideFrame
  <2>6. CASE opRow # None /\ opDoc # None /\ DecidePair(opDoc, opRow)
    BY <1>5, <2>1, <2>2, <2>6, DecideFrame
  <2> QED
    BY <1>5, <2>3, <2>4, <2>5, <2>6 DEF Decide, DecideAlone
<1>6. CASE Push \/ Link \/ Pull
  BY <1>6, WriteFrame
<1>7. CASE Finish \/ Crash
  BY <1>7, ResetFrame
<1>8. ASSUME NEW it \in items, AcceptRow(it) \/ AcceptDoc(it) \/ ResolutionFails(it)
      PROVE  items' \subseteq items
  BY <1>8, AcceptFrame
<1> QED
  BY <1>1, <1>2, <1>3, <1>4, <1>5, <1>6, <1>7, <1>8 DEF Next, Run

LEMMA StampInit == Init => StampInv
<1> SUFFICES ASSUME Init PROVE StampInv
  OBVIOUS
<1>1. \A x \in Copies : x.val = 0 /\ x.mod = 0
  BY DEF Init, Copies
<1>2. start = 0 /\ clock = 0 /\ before = 0 /\ edits = 0 /\ baseline = None /\ items = {} /\ phase = "idle"
  BY DEF Init
<1> QED
  BY <1>1, <1>2 DEF StampInv, Stamped, New

LEMMA StampStep ==
  ASSUME TypeInv, TypeInv', StampInv, "late" \notin Breaches, [Next]_vars
  PROVE  StampInv'
<1>1. TypeOK /\ TypeOK'
  BY DEF TypeInv
<1>2. /\ clock \in Nat /\ edits \in Nat /\ start \in Nat /\ before \in Nat
      /\ baseline # None => baseline \in Nat
      /\ \A x \in Copies : x.val \in Nat /\ x.mod \in Nat
  BY <1>1, Numbers
<1>3. \A x \in Copies' : x.val \in Nat /\ x.mod \in Nat
  <2>1. Copies' \subseteq Doc \cup Row
    BY <1>1 DEF TypeOK, Copies
  <2> QED
    BY <2>1, RecordNumbers
<1>4. /\ start <= clock /\ before <= edits
      /\ baseline # None => baseline <= clock /\ (phase # "idle" => baseline <= start)
      /\ \A x \in Copies : Stamped(x)
      /\ \A it \in items : it.doc.val <= edits /\ it.row.val <= edits
      /\ phase # "idle" /\ outcome = "Success" =>
           \A it \in items : it.doc.val <= before /\ it.row.val <= before
  BY DEF StampInv
<1>5. clock' \in {clock, clock + 1} /\ edits' \in {edits, edits + 1}
  BY ClockStep
<1>6. \/ /\ start' = start /\ before' = before /\ baseline' = baseline
         /\ phase' # "idle" <=> phase # "idle"
         /\ outcome' = "Success" => outcome = "Success"
      \/ /\ start' = clock /\ before' = edits /\ baseline' = baseline /\ phase = "idle"
         /\ clock' = clock /\ edits' = edits /\ items' = items
      \/ /\ start' = 0 /\ before' = 0 /\ phase' = "idle" /\ baseline' \in {baseline, start}
         /\ phase # "idle"
  BY ClockStep, Zenon
<1>7. start' <= clock' /\ before' <= edits'
  BY <1>2, <1>4, <1>5, <1>6
<1>8. baseline' # None => baseline' <= clock' /\ (phase' # "idle" => baseline' <= start')
  <2>1. baseline # None => baseline \in Nat /\ baseline <= clock /\ (phase # "idle" => baseline <= start)
    BY <1>2, <1>4
  <2>2. CASE start' = start /\ baseline' = baseline /\ (phase' # "idle" <=> phase # "idle")
    BY <1>2, <1>5, <2>1, <2>2
  <2>3. CASE start' = clock /\ baseline' = baseline /\ clock' = clock
    BY <1>2, <2>1, <2>3
  <2>4. CASE phase' = "idle" /\ baseline' \in {baseline, start}
    BY <1>2, <1>4, <1>5, <2>1, <2>4
  <2> QED
    BY <1>6, <2>2, <2>3, <2>4
<1>9. ASSUME NEW x \in Copies' PROVE Stamped(x)'
  <2>1. \/ \E y \in Copies : x.val = y.val /\ (x.mod = y.mod \/ x.mod = clock)
        \/ x.val = edits + 1 /\ edits' = edits + 1 /\ x.mod = clock
    BY CopiesStep
  <2> QED
    BY <1>2, <1>3, <1>4, <1>5, <1>6, <2>1 DEF Stamped, New
<1>10. \A it \in items' : it.doc.val \in Nat /\ it.row.val \in Nat
  <2>1. items' \subseteq Item
    BY <1>1, Zenon DEF TypeOK
  <2> QED
    BY <2>1, RecordNumbers
<1>11. ASSUME NEW it \in items'
       PROVE  it \in items \/ (/\ phase' # "idle" /\ outcome' # "Success"
                               /\ it.doc.val <= edits /\ it.row.val <= edits)
  <2>1. CASE items' \subseteq items
    BY <2>1
  <2>2. CASE /\ Decide /\ phase' # "idle" /\ outcome' # "Success"
             /\ \E d \in Copies \cap Doc, r \in Copies \cap Row :
                  DecidePair(d, r) /\ items' = items \cup {[doc |-> d, row |-> r]}
    BY <1>4, <2>2 DEF Stamped
  <2> QED
    BY <2>1, <2>2, ItemsStep
<1>12. \A it \in items' : it.doc.val <= edits' /\ it.row.val <= edits'
  BY <1>2, <1>4, <1>5, <1>10, <1>11
<1>13. phase' # "idle" /\ outcome' = "Success" =>
         \A it \in items' : it.doc.val <= before' /\ it.row.val <= before'
  BY <1>4, <1>6, <1>11
<1> QED
  BY <1>7, <1>8, <1>9, <1>12, <1>13 DEF StampInv

-----------------------------------------------------------------------------
(* The decision *)

LEMMA WinnerKept ==
  ASSUME UNCHANGED <<config, baseline>>, NEW d, NEW r
  PROVE  Winner(d, r)' = Winner(d, r)
BY DEF Winner, Compare, ChangedSince

\* What the winner says of the two stamps.
LEMMA WinnerFacts ==
  ASSUME TypeOK, NEW d \in Doc, NEW r \in Row
  PROVE  /\ Winner(d, r) \in {"frappe", "partner", "manual"}
         /\ Winner(d, r) = "manual" => config.tie = "manual"
         /\ Winner(d, r) = "manual" => (ChangedSince(d) <=> ChangedSince(r))
         /\ ChangedSince(d) /\ ~ChangedSince(r) => Winner(d, r) = "frappe"
         /\ ~ChangedSince(d) /\ ChangedSince(r) => Winner(d, r) = "partner"
         /\ ChangedSince(d) /\ d.mod >= r.mod /\ config.tie = "manual" => Winner(d, r) # "partner"
         /\ ChangedSince(r) /\ r.mod >= d.mod /\ config.tie = "manual" => Winner(d, r) # "frappe"
<1>1. d.mod \in Nat /\ r.mod \in Nat /\ config.buffer \in Nat
      /\ config.tie \in {"manual", "frappe_wins", "partner_wins"}
  BY Numbers, ConfigFields
<1>2. /\ Compare(d, r) \in {"tie", "partner", "frappe"}
      /\ Compare(d, r) = "partner" => r.mod > d.mod
      /\ Compare(d, r) = "frappe" => d.mod > r.mod
  BY <1>1 DEF Compare
<1>3. /\ ChangedSince(d) /\ ~ChangedSince(r) => Winner(d, r) = "frappe"
      /\ ~ChangedSince(d) /\ ChangedSince(r) => Winner(d, r) = "partner"
  BY DEF Winner, ChangedSince
<1>4. (ChangedSince(d) <=> ChangedSince(r)) =>
        \/ Compare(d, r) # "tie" /\ Winner(d, r) = Compare(d, r)
        \/ config.tie = "partner_wins" /\ Winner(d, r) = "partner"
        \/ config.tie = "frappe_wins" /\ Winner(d, r) = "frappe"
        \/ config.tie = "manual" /\ Winner(d, r) = "manual"
  BY <1>1 DEF Winner, ChangedSince
<1> HIDE DEF ChangedSince
<1>5. CASE ChangedSince(d) <=> ChangedSince(r)
  BY <1>1, <1>2, <1>4, <1>5
<1>6. CASE ~(ChangedSince(d) <=> ChangedSince(r))
  BY <1>3, <1>6
<1> QED
  BY <1>5, <1>6

\* The winner depends on the stamps alone.
LEMMA WinnerByStamps ==
  ASSUME NEW d, NEW r, NEW e, NEW s, d.mod = e.mod, r.mod = s.mod
  PROVE  Winner(d, r) = Winner(e, s)
BY DEF Winner, Compare, ChangedSince

-----------------------------------------------------------------------------
(* Open conflict items *)

Dead(it) == it.doc.val = it.row.val \/ ~Around(it.doc.val) \/ ~Around(it.row.val)

ItemInv ==
  /\ items # {} => config.update /\ config.tie = "manual"
  /\ \A it \in items : Winner(it.doc, it.row) = "manual" \/ Dead(it)

LEMMA DeadStays ==
  ASSUME TypeInv, StampInv, "late" \notin Breaches, [Next]_vars, NEW it \in items, Dead(it)
  PROVE  Dead(it)'
<1>1. TypeOK /\ it.doc.val <= edits /\ it.row.val <= edits
  BY DEF StampInv, TypeInv
<1>2. edits \in Nat /\ it.doc.val \in Nat /\ it.row.val \in Nat
  BY <1>1, Numbers
<1>3. ASSUME NEW v \in Nat, v <= edits, Around(v)' PROVE Around(v)
  <2>1. PICK x \in Copies' : x.val = v
    BY <1>3 DEF Around
  <2>2. x.val # edits + 1
    BY <1>2, <1>3, <2>1
  <2>3. \E y \in Copies : y.val = v
    BY <2>1, <2>2, CopiesStep
  <2> QED
    BY <2>3 DEF Around
<1> QED
  BY <1>1, <1>2, <1>3 DEF Dead

\* What an item that is accepted says of the two sides.
LEMMA AcceptSettles ==
  ASSUME TypeInv, ItemInv, "late" \notin Breaches, NEW it \in items, AcceptRow(it) \/ AcceptDoc(it)
  PROVE  /\ doc = saved /\ doc = it.doc /\ row = it.row
         /\ config.update /\ config.tie = "manual"
         /\ doc.val = row.val \/ Winner(doc, row) = "manual"
         /\ doc' \in Doc /\ row' \in Row /\ saved' = doc' /\ doc'.val = row'.val /\ doc'.mod = row'.mod
         /\ (UNCHANGED row /\ doc'.val = row.val /\ doc'.mod = row.mod) \/ (UNCHANGED doc /\ row'.val = doc.val)
<1>1. TypeOK /\ doc \in Doc /\ row \in Row
  BY DEF TypeInv, TypeOK
<1>2. Current(it)
  BY <1>1, AcceptRowFrame, AcceptDocFrame, Zenon
<1>3. doc = saved /\ doc = it.doc /\ row = it.row
  BY <1>2 DEF Current
<1>4. config.update /\ config.tie = "manual" /\ (Winner(it.doc, it.row) = "manual" \/ Dead(it))
  BY DEF ItemInv
<1>5. Dead(it) => doc.val = row.val
  <2>1. doc \in Copies /\ row \in Copies
    BY <1>1, RecordNumbers DEF Copies
  <2> QED
    BY <1>3, <2>1 DEF Dead, Around
<1>6. CASE AcceptRow(it)
  <2>1. doc' \in Doc /\ saved' = doc' /\ row' = row /\ doc'.val = row.val /\ doc'.mod = row.mod
    BY <1>1, <1>3, <1>6, AcceptRowFrame
  <2> QED
    BY <1>1, <1>3, <1>4, <1>5, <2>1
<1>7. CASE AcceptDoc(it)
  <2>1. row' \in Row /\ UNCHANGED <<doc, saved>> /\ row'.val = doc.val /\ row'.mod = doc.mod
    BY <1>1, <1>3, <1>7, AcceptDocFrame
  <2> QED
    BY <1>1, <1>3, <1>4, <1>5, <2>1
<1> QED
  BY <1>6, <1>7

-----------------------------------------------------------------------------
(* The invariant *)

DocReads == {doc, opDoc, knownDoc} \ {None}
RowReads == {row, opRow, knownRow} \ {None}

\* Where tokens are compared, every document is linked.
LinkedInv ==
  config.mode = "match_fields" /\ config.ids =>
    saved.linked /\ \A x \in DocReads : x.linked

\* The sides agree, or one has changed since the run began.
Rested == New(doc.val) \/ New(row.val) \/ doc.val = row.val

\* A value read of a side is its value still, or the side has changed since.
DocOk(x) == New(doc.val) \/ doc.val = x.val
RowOk(y) == New(row.val) \/ row.val = y.val

\* Between what is read and what the sides are now lie an edit, nothing, or a
\* resolution that made them equal.
PairRead(x, y) ==
  \/ New(doc.val) \/ New(row.val)
  \/ x = doc /\ y = row
  \/ doc.val = row.val /\ doc.mod = row.mod

\* A side resolved since does not win as it was read.
NotLost(x, y) ==
  /\ DocOk(x) \/ (config.tie = "manual" /\ Winner(x, y) # "frappe")
  /\ RowOk(y) \/ (config.tie = "manual" /\ Winner(x, y) # "partner")

Older(x) == baseline # None /\ x.mod < baseline

\* What is listed has changed since the baseline, and what is not has not.
ReadInv ==
  config.update /\ Reading =>
    /\ \A x \in DocReads, y \in RowReads : PairRead(x, y) /\ NotLost(x, y)
    /\ IsDelta /\ opDoc # None => opDoc.mod >= baseline
    /\ IsDelta /\ opDoc = None => Rested \/ Older(doc)
    /\ phase = "rows" =>
         /\ IsDelta /\ opRow # None => opRow.mod >= baseline
         /\ opRow = None => Rested \/ Older(row)
         /\ opRow = None /\ opDoc # None => DocOk(opDoc)
         /\ opRow = None /\ opDoc = None => Rested
         /\ opDoc = None /\ opRow # None => RowOk(opRow)

\* No item can take back what a write is about to do.
Undisputed == Rested \/ Winner(doc, row) # "manual"

WriteInv ==
  /\ push = None \/ pull = None
  /\ phase = "push" /\ push # None => DocOk(push) /\ Undisputed
  /\ pull # None => RowOk(pull) /\ Undisputed /\ saved = doc
  /\ push # None \/ pull # None => outcome = "Success"
  /\ /\ phase \in {"push", "link", "pull", "end"} /\ config.update /\ outcome = "Success"
     /\ push = None \/ phase = "link"
     /\ pull = None
     => Rested

Seen(d) ==
  config.update /\ baseline # None /\ d.val # row.val =>
    d.mod >= baseline \/ row.mod >= baseline

SeenInv == Seen(doc) /\ Seen(saved)

WinnerInv ==
  TypeInv /\ StampInv /\ LinkedInv /\ SeenInv /\ ItemInv /\ ReadInv /\ WriteInv

LEMMA ConfigStep == [Next]_vars => config' = config
<1> SUFFICES ASSUME [Next]_vars PROVE config' = config
  OBVIOUS
<1>1. CASE UNCHANGED vars
  BY <1>1 DEF vars
<1>2. CASE Tick
  BY <1>2, TickFrame
<1>3. CASE EditDoc \/ EditRow
  BY <1>3 DEF EditDoc, EditRow, NewEdit
<1>4. ASSUME NEW it \in items, AcceptRow(it) \/ AcceptDoc(it) \/ ResolutionFails(it)
      PROVE  config' = config
  BY <1>4, AcceptFrame
<1> QED
  BY <1>1, <1>2, <1>3, <1>4, ReadFrame, DecideFrame, WriteFrame, ResetFrame DEF Next, Run

LEMMA WinnerInit == Init /\ "adopt" \notin Breaches => WinnerInv
<1> SUFFICES ASSUME Init, "adopt" \notin Breaches PROVE WinnerInv
  OBVIOUS
<1>1. TypeInv /\ StampInv
  BY TypeInit, StampInit
<1>2. LinkedInv
  BY DEF Init, LinkedInv, DocReads
<1>3. SeenInv /\ ItemInv /\ ReadInv
  BY DEF Init, SeenInv, Seen, ItemInv, ReadInv, Reading
<1>4. WriteInv
  BY DEF Init, WriteInv
<1> QED
  BY <1>1, <1>2, <1>3, <1>4 DEF WinnerInv

LEMMA LinkedStep ==
  ASSUME TypeInv, LinkedInv, "late" \notin Breaches, [Next]_vars
  PROVE  LinkedInv'
<1> SUFFICES ASSUME config'.mode = "match_fields", config'.ids
             PROVE  saved'.linked /\ \A x \in DocReads' : x.linked
  BY Zenon DEF LinkedInv
<1>1. TypeOK /\ doc \in Doc /\ row \in Row /\ config' = config
  BY ConfigStep DEF TypeInv, TypeOK
<1>2. saved.linked /\ doc.linked /\ \A x \in DocReads : x.linked
  BY <1>1, RecordNumbers DEF LinkedInv, DocReads
<1> DEFINE D == {doc', opDoc', knownDoc'} \ {None}
<1>3. DocReads' = D
  BY DEF DocReads
<1>4. CASE UNCHANGED vars
  BY <1>2, <1>4 DEF DocReads, vars, sideVars, runVars, readVars
<1>5. CASE Tick
  BY <1>2, <1>5, TickFrame DEF DocReads
<1>6. CASE EditDoc
  BY <1>1, <1>2, <1>6, EditFrame, EditDocFrame DEF DocReads, EditDoc
<1>7. CASE EditRow
  BY <1>1, <1>2, <1>7, EditFrame, EditRowFrame DEF DocReads, EditRow
<1>8. CASE Start \/ ReadLookup \/ ReadPartner
  BY <1>2, <1>8, ReadFrame DEF DocReads, Start, ReadLookup, ReadPartner, Listed
<1>9. CASE Decide
  BY <1>2, <1>9, DecideFrame DEF DocReads
<1>10. CASE Push
  BY <1>2, <1>10, WriteFrame DEF DocReads, Push
<1>11. CASE Link
  <2>1. doc'.linked
    <3>1. [doc EXCEPT !.linked = TRUE, !.mod = clock].linked
      BY <1>1 DEF Doc
    <3> QED
      BY <1>2, <1>11, <3>1 DEF Link
  <2> QED
    BY <1>2, <1>11, <2>1, WriteFrame DEF DocReads
<1>12. CASE Pull
  <2>1. doc'.linked
    <3>1. \A r : Pulled(r).linked <=> config.ids
      BY DEF Pulled
    <3> QED
      BY <1>1, <1>2, <1>12, <3>1 DEF Pull
  <2> QED
    BY <1>2, <1>12, <2>1, WriteFrame DEF DocReads
<1>13. CASE Finish \/ Crash
  BY <1>2, <1>13, ResetFrame DEF DocReads, Reset, Finish, Crash
<1>14. ASSUME NEW it \in items, AcceptRow(it) \/ AcceptDoc(it) \/ ResolutionFails(it)
       PROVE  saved'.linked /\ \A x \in DocReads' : x.linked
  <2>1. saved'.linked /\ doc'.linked
    BY <1>1, <1>2, <1>14, AcceptRowFrame, AcceptDocFrame, Zenon DEF ResolutionFails, sideVars
  <2> QED
    BY <1>2, <1>14, <2>1, AcceptFrame DEF DocReads
<1> QED
  BY <1>4, <1>5, <1>6, <1>7, <1>8, <1>9, <1>10, <1>11, <1>12, <1>13, <1>14 DEF Next, Run

LEMMA BaselineStep == [Next]_vars /\ ~Finish => baseline' = baseline
<1> SUFFICES ASSUME [Next]_vars, ~Finish PROVE baseline' = baseline
  OBVIOUS
<1>1. CASE UNCHANGED vars
  BY <1>1 DEF vars
<1>2. CASE Tick
  BY <1>2, TickFrame
<1>3. CASE EditDoc \/ EditRow
  BY <1>3 DEF EditDoc, EditRow, NewEdit
<1>4. CASE Crash
  BY <1>4 DEF Crash
<1>5. ASSUME NEW it \in items, AcceptRow(it) \/ AcceptDoc(it) \/ ResolutionFails(it)
      PROVE  baseline' = baseline
  BY <1>5, AcceptFrame
<1> QED
  BY <1>1, <1>2, <1>3, <1>4, <1>5, ReadFrame, DecideFrame, WriteFrame DEF Next, Run

\* A run that leaves a baseline leaves no item that could still be accepted with
\* effect: one of the two values it shows is gone.
LEMMA ItemsAreDead ==
  ASSUME WinnerInv, Finish, outcome = "Success", NEW it \in items
  PROVE  Dead(it)'
<1>1. /\ TypeOK /\ phase = "end" /\ phase # "idle" /\ config.update
      /\ it.doc.val <= before /\ it.row.val <= before
  BY DEF WinnerInv, TypeInv, StampInv, ItemInv, Finish
<1>2. Rested
  BY <1>1 DEF WinnerInv, TypeInv, PhaseInv, WriteInv
<1>3. /\ doc' = doc /\ row' = row /\ saved' = doc
      /\ opDoc' = None /\ knownDoc' = None /\ opRow' = None /\ knownRow' = None
      /\ push' = None /\ pull' = None
  BY DEF Finish, Reset
<1>4. \A v : Around(v)' => v = doc.val \/ v = row.val
  BY <1>3 DEF Around, Copies
<1>5. /\ doc.val \in Nat /\ row.val \in Nat /\ before \in Nat
      /\ it.doc.val \in Nat /\ it.row.val \in Nat
  BY <1>1, Numbers
<1> QED
  BY <1>1, <1>2, <1>4, <1>5 DEF Rested, New, Dead

LEMMA ItemStep ==
  ASSUME WinnerInv, "late" \notin Breaches, [Next]_vars
  PROVE  ItemInv'
<1>1. TypeInv /\ StampInv /\ ItemInv /\ TypeOK
  BY DEF WinnerInv, TypeInv
<1>2. config' = config
  BY ConfigStep
<1>3. \A it \in items : Winner(it.doc, it.row) = "manual" \/ Dead(it)
  BY <1>1 DEF ItemInv
<1>4. ASSUME NEW it \in items PROVE (Winner(it.doc, it.row) = "manual" \/ Dead(it))'
  <2>1. CASE baseline' = baseline
    <3>1. Winner(it.doc, it.row)' = Winner(it.doc, it.row)
      BY <1>2, <2>1, WinnerKept
    <3>2. Dead(it) => Dead(it)'
      BY <1>1, DeadStays
    <3> QED
      BY <1>3, <3>1, <3>2
  <2>2. CASE baseline' # baseline
    <3>1. Finish /\ outcome = "Success"
      BY <2>2, BaselineStep DEF Finish, SyncStamp
    <3> QED
      BY <3>1, ItemsAreDead
  <2> QED
    BY <2>1, <2>2
<1>5. CASE items' \subseteq items
  <2>1. items' # {} => config'.update /\ config'.tie = "manual"
    BY <1>1, <1>2, <1>5 DEF ItemInv
  <2> QED
    BY <1>4, <1>5, <2>1 DEF ItemInv
<1>6. CASE Decide /\ \E d \in Copies \cap Doc, r \in Copies \cap Row :
                       DecidePair(d, r) /\ items' = items \cup {[doc |-> d, row |-> r]}
  <2>1. PICK d \in Doc, r \in Row : DecidePair(d, r) /\ items' = items \cup {[doc |-> d, row |-> r]}
    BY <1>6
  <2> DEFINE differ == d.val # r.val \/ (config.mode = "identity_fields" /\ ~d.linked)
             winner == IF differ /\ config.update THEN Winner(d, r) ELSE "none"
             new == [doc |-> d, row |-> r]
  <2>2. winner = "manual" => config.update /\ config.tie = "manual" /\ Winner(d, r) = "manual"
    BY <1>1, WinnerFacts
  <2>3. winner = "manual" \/ items' = items
    BY <2>1 DEF DecidePair
  <2>4. CASE items' = items
    BY <1>5, <2>4
  <2>5. CASE winner = "manual"
    <3> HIDE DEF winner
    <3>1. Winner(d, r)' = Winner(d, r)
      BY <1>2, <1>6, DecideFrame, WinnerKept
    <3>2. (Winner(new.doc, new.row) = "manual" \/ Dead(new))'
      BY <2>2, <2>5, <3>1
    <3>3. config'.update /\ config'.tie = "manual"
      BY <1>2, <2>2, <2>5
    <3>4. \A it \in items' : it \in items \/ it = new
      BY <2>1
    <3> QED
      BY <1>4, <3>2, <3>3, <3>4 DEF ItemInv
  <2> QED
    BY <2>3, <2>4, <2>5
<1> QED
  BY <1>1, <1>5, <1>6, ItemsStep

\* A copy made since the run began has a stamp not before its baseline.
LEMMA NewIsSeen ==
  ASSUME TypeOK, StampInv, phase # "idle", baseline # None, NEW x \in Copies, New(x.val)
  PROVE  x.mod >= baseline /\ x.mod >= start
<1>1. /\ start \in Nat /\ baseline \in Nat /\ x.mod \in Nat
  BY Numbers
<1>2. baseline <= start /\ Stamped(x)
  BY DEF StampInv
<1> QED
  BY <1>1, <1>2 DEF Stamped

LEMMA SeenStep ==
  ASSUME WinnerInv, "late" \notin Breaches, [Next]_vars
  PROVE  SeenInv'
<1>1. /\ TypeInv /\ TypeOK /\ PhaseInv /\ StampInv /\ ItemInv /\ WriteInv /\ Seen(doc) /\ Seen(saved)
  BY DEF WinnerInv, TypeInv, SeenInv
<1>2. config' = config
  BY ConfigStep
<1>3. SUFFICES ASSUME config.update, baseline' # None
               PROVE  /\ doc'.val # row'.val => doc'.mod >= baseline' \/ row'.mod >= baseline'
                      /\ saved'.val # row'.val => saved'.mod >= baseline' \/ row'.mod >= baseline'
  BY <1>2, Zenon DEF SeenInv, Seen
<1>4. /\ clock \in Nat /\ doc.mod \in Nat /\ row.mod \in Nat
      /\ baseline # None => baseline \in Nat /\ baseline <= clock
      /\ doc \in Copies /\ row \in Copies
  BY <1>1, Numbers, RecordNumbers DEF StampInv, Copies
<1>5. baseline # None =>
        /\ doc.val # row.val => doc.mod >= baseline \/ row.mod >= baseline
        /\ saved.val # row.val => saved.mod >= baseline \/ row.mod >= baseline
  BY <1>1, <1>3 DEF Seen
<1>6. CASE UNCHANGED vars
  BY <1>3, <1>5, <1>6 DEF vars, sideVars
<1>7. CASE Tick
  BY <1>3, <1>5, <1>7, TickFrame
<1>8. CASE EditDoc
  BY <1>1, <1>3, <1>4, <1>8, EditFrame, EditDocFrame DEF EditDoc
<1>9. CASE EditRow
  BY <1>1, <1>3, <1>4, <1>9, EditFrame, EditRowFrame DEF EditRow
<1>10. CASE Start \/ ReadLookup \/ ReadPartner
  BY <1>3, <1>5, <1>10, ReadFrame
<1>11. CASE Decide
  BY <1>3, <1>5, <1>11, DecideFrame
<1>12. CASE Push
  <2>1. phase = "push" /\ baseline' = baseline /\ doc' = doc /\ saved = doc /\ saved' = doc
    BY <1>1, <1>12, WriteFrame DEF Push, PhaseInv
  <2>2. CASE row' = row
    BY <1>3, <1>5, <2>1, <2>2
  <2>3. CASE push # None /\ row' = Pushed(push)
    <3>1. row'.val = push.val /\ DocOk(push)
      BY <1>1, <2>1, <2>3 DEF Pushed, WriteInv
    <3>2. CASE New(doc.val)
      BY <1>1, <1>3, <1>4, <2>1, <3>2, NewIsSeen
    <3>3. CASE doc.val = push.val
      BY <2>1, <3>1, <3>3
    <3> QED
      BY <3>1, <3>2, <3>3 DEF DocOk
  <2> QED
    BY <1>12, <2>2, <2>3 DEF Push
<1>13. CASE Link
  <2>1. phase = "link" /\ baseline' = baseline /\ row' = row /\ saved = doc
    BY <1>1, <1>13, WriteFrame DEF Link, PhaseInv
  <2>2. doc' = doc \/ doc'.mod = clock
    <3>1. [doc EXCEPT !.linked = TRUE, !.mod = clock].mod = clock
      BY <1>1 DEF TypeOK, Doc
    <3> QED
      BY <1>13, <3>1 DEF Link
  <2>3. saved' = doc \/ saved' = doc'
    BY <1>13, <2>1, WriteFrame
  <2>4. doc'.val # row'.val => doc'.mod >= baseline' \/ row'.mod >= baseline'
    BY <1>3, <1>4, <1>5, <2>1, <2>2
  <2> QED
    BY <1>3, <1>5, <2>1, <2>3, <2>4
<1>14. CASE Pull
  <2>1. phase = "pull" /\ baseline' = baseline /\ row' = row /\ saved' \in {saved, doc'}
    BY <1>14, WriteFrame DEF Pull
  <2>2. CASE doc' = doc
    BY <1>3, <1>5, <2>1, <2>2
  <2>3. CASE pull # None /\ doc' = Pulled(pull)
    <3>1. doc'.val = pull.val /\ RowOk(pull)
      BY <1>1, <2>3 DEF Pulled, WriteInv
    <3>2. doc'.val # row'.val => row'.mod >= baseline'
      BY <1>1, <1>3, <1>4, <2>1, <3>1, NewIsSeen DEF RowOk
    <3> QED
      BY <1>3, <1>5, <2>1, <3>2
  <2> QED
    BY <1>14, <2>2, <2>3 DEF Pull
<1>15. CASE Finish
  <2>1. /\ phase = "end" /\ doc' = doc /\ saved' = doc /\ row' = row
        /\ baseline' = IF outcome = "Success" THEN start ELSE baseline
    BY <1>15 DEF Finish, SyncStamp
  <2>2. CASE outcome = "Success"
    <3>1. Rested
      BY <1>1, <1>3, <2>1, <2>2 DEF WriteInv, PhaseInv
    <3>2. baseline' = start
      BY <2>1, <2>2
    <3>3. \A x \in Copies : New(x.val) => x.mod >= start
      BY <1>1 DEF StampInv, Stamped
    <3> QED
      BY <1>4, <2>1, <3>1, <3>2, <3>3 DEF Rested
  <2>3. CASE outcome # "Success"
    BY <1>3, <1>5, <2>1, <2>3
  <2> QED
    BY <2>2, <2>3
<1>16. CASE Crash
  <2>1. doc' = saved /\ saved' = saved /\ row' = row /\ baseline' = baseline
    BY <1>16 DEF Crash
  <2> QED
    BY <1>3, <1>5, <2>1
<1>17. ASSUME NEW it \in items, AcceptRow(it) \/ AcceptDoc(it)
       PROVE  doc'.val = row'.val /\ saved' = doc'
  BY <1>1, <1>17, AcceptSettles
<1>18. ASSUME NEW it \in items, ResolutionFails(it)
       PROVE  UNCHANGED <<doc, saved, row, baseline>>
  BY <1>18 DEF ResolutionFails, sideVars
<1> QED
  BY <1>3, <1>5, <1>6, <1>7, <1>8, <1>9, <1>10, <1>11, <1>12, <1>13, <1>14, <1>15, <1>16, <1>17, <1>18
  DEF Next, Run

LEMMA ReadsAreCopies ==
  ASSUME TypeOK
  PROVE  /\ DocReads \subseteq Doc /\ DocReads \subseteq Copies /\ doc \in DocReads
         /\ RowReads \subseteq Row /\ RowReads \subseteq Copies /\ row \in RowReads
BY RecordNumbers DEF TypeOK, DocReads, RowReads, Copies

LEMMA ReadKept ==
  ASSUME ReadInv,
         UNCHANGED <<config, baseline, phase, before, doc, row, opDoc, knownDoc, opRow, knownRow>>
  PROVE  ReadInv'
<1> SUFFICES ASSUME config'.update, Reading'
             PROVE  ReadInv'
  BY Zenon DEF ReadInv
<1>1. config.update /\ Reading
  BY DEF Reading
<1>2. \A x \in DocReads, y \in RowReads : PairRead(x, y) /\ NotLost(x, y)
  BY <1>1 DEF ReadInv
<1>3. ASSUME NEW x \in DocReads', NEW y \in RowReads' PROVE (PairRead(x, y) /\ NotLost(x, y))'
  <2>1. x \in DocReads /\ y \in RowReads
    BY DEF DocReads, RowReads
  <2>2. Winner(x, y)' = Winner(x, y)
    BY WinnerKept
  <2> QED
    BY <1>2, <2>1, <2>2 DEF PairRead, NotLost, DocOk, RowOk, New
<1>4. /\ IsDelta /\ opDoc # None => opDoc.mod >= baseline
      /\ IsDelta /\ opDoc = None => Rested \/ Older(doc)
      /\ phase = "rows" =>
           /\ IsDelta /\ opRow # None => opRow.mod >= baseline
           /\ opRow = None => Rested \/ Older(row)
           /\ opRow = None /\ opDoc # None => DocOk(opDoc)
           /\ opRow = None /\ opDoc = None => Rested
           /\ opDoc = None /\ opRow # None => RowOk(opRow)
  BY <1>1 DEF ReadInv
<1>6. /\ IsDelta' /\ opDoc' # None => opDoc'.mod >= baseline'
      /\ IsDelta' /\ opDoc' = None => Rested' \/ Older(doc)'
      /\ phase' = "rows" =>
           /\ IsDelta' /\ opRow' # None => opRow'.mod >= baseline'
           /\ opRow' = None => Rested' \/ Older(row)'
           /\ opRow' = None /\ opDoc' # None => DocOk(opDoc)'
           /\ opRow' = None /\ opDoc' = None => Rested'
           /\ opDoc' = None /\ opRow' # None => RowOk(opRow)'
  BY <1>4 DEF IsDelta, Rested, Older, DocOk, RowOk, New
<1> QED
  BY <1>3, <1>6 DEF ReadInv

\* A user has edited a side: it is new, and stamped with a time no other exceeds.
LEMMA ReadAfterEdit ==
  ASSUME WinnerInv, EditDoc \/ EditRow
  PROVE  ReadInv'
<1>1. TypeOK /\ StampInv /\ ReadInv /\ NewEdit
  BY DEF WinnerInv, TypeInv, EditDoc, EditRow
<1>2. /\ edits' = edits + 1
      /\ UNCHANGED <<config, clock, baseline, phase, before, outcome, opDoc, knownDoc, opRow, knownRow>>
  BY <1>1, EditFrame
<1> SUFFICES ASSUME config'.update, Reading'
             PROVE  ReadInv'
  BY Zenon DEF ReadInv
<1>3. config.update /\ Reading
  BY <1>2 DEF Reading
<1>4. \A x \in DocReads, y \in RowReads : PairRead(x, y) /\ NotLost(x, y)
  BY <1>3, <1>1 DEF ReadInv
<1>5. /\ clock \in Nat /\ edits \in Nat /\ before \in Nat /\ before <= edits
      /\ baseline # None => baseline \in Nat /\ baseline <= clock
      /\ \A x \in Copies : x.mod \in Nat /\ x.mod <= clock
  BY <1>1, Numbers DEF StampInv, Stamped
<1>6. \A z \in Doc \cup Row : z.mod = clock => ChangedSince(z)
  BY <1>5 DEF ChangedSince
<1>7. \A x, y : Winner(x, y)' = Winner(x, y)
  BY <1>2, WinnerKept
<1>8. /\ IsDelta /\ opDoc # None => opDoc.mod >= baseline
      /\ phase = "rows" =>
           /\ IsDelta /\ opRow # None => opRow.mod >= baseline
           /\ opRow = None /\ opDoc # None => DocOk(opDoc)
           /\ opDoc = None /\ opRow # None => RowOk(opRow)
  BY <1>1, <1>3 DEF ReadInv
<1>9. IsDelta' <=> IsDelta
  BY <1>2 DEF IsDelta
<1>10. CASE EditDoc
  <2>1. /\ doc' \in Doc /\ doc'.val = edits + 1 /\ doc'.mod = clock /\ row' = row
    BY <1>1, <1>10, EditDocFrame
  <2>2. New(doc.val)' /\ Rested'
    BY <1>2, <1>5, <2>1 DEF New, Rested
  <2>3. ASSUME NEW x \in DocReads', NEW y \in RowReads' PROVE (PairRead(x, y) /\ NotLost(x, y))'
    <3>1. y \in RowReads /\ y \in Row /\ y \in Copies /\ (x \in DocReads \/ x = doc') /\ doc \in DocReads
      BY <1>1, <1>2, <2>1, ReadsAreCopies DEF DocReads, RowReads
    <3>2. RowOk(y)' <=> RowOk(y)
      BY <1>2, <2>1 DEF RowOk, New
    <3>3. RowOk(y) \/ (config.tie = "manual" /\ \A d \in DocReads : Winner(d, y) # "partner")
      BY <1>4, <3>1 DEF NotLost
    <3>4. config.tie = "manual" => Winner(doc', y) # "partner"
      BY <1>1, <1>5, <1>6, <2>1, <3>1, WinnerFacts
    <3>5. config'.tie = config.tie
      BY <1>2
    <3> QED
      BY <1>7, <2>2, <3>1, <3>2, <3>3, <3>4, <3>5 DEF PairRead, NotLost, DocOk
  <2>4. RowOk(opRow)' <=> RowOk(opRow)
    BY <1>2, <2>1 DEF RowOk, New
  <2>5. DocOk(opDoc)'
    BY <2>2 DEF DocOk
  <2>6. /\ IsDelta' /\ opDoc' # None => opDoc'.mod >= baseline'
        /\ phase' = "rows" =>
             /\ IsDelta' /\ opRow' # None => opRow'.mod >= baseline'
             /\ opRow' = None /\ opDoc' # None => DocOk(opDoc)'
             /\ opDoc' = None /\ opRow' # None => RowOk(opRow)'
    BY <1>2, <1>8, <1>9, <2>4, <2>5
  <2> QED
    BY <2>2, <2>3, <2>6, Zenon DEF ReadInv
<1>11. CASE EditRow
  <2>1. /\ row' \in Row /\ row'.val = edits + 1 /\ row'.mod = clock /\ doc' = doc
    BY <1>1, <1>11, EditRowFrame
  <2>2. New(row.val)' /\ Rested'
    BY <1>2, <1>5, <2>1 DEF New, Rested
  <2>3. ASSUME NEW x \in DocReads', NEW y \in RowReads' PROVE (PairRead(x, y) /\ NotLost(x, y))'
    <3>1. x \in DocReads /\ x \in Doc /\ x \in Copies /\ (y \in RowReads \/ y = row') /\ row \in RowReads
      BY <1>1, <1>2, <2>1, ReadsAreCopies DEF DocReads, RowReads
    <3>2. DocOk(x)' <=> DocOk(x)
      BY <1>2, <2>1 DEF DocOk, New
    <3>3. DocOk(x) \/ (config.tie = "manual" /\ \A r \in RowReads : Winner(x, r) # "frappe")
      BY <1>4, <3>1 DEF NotLost
    <3>4. config.tie = "manual" => Winner(x, row') # "frappe"
      BY <1>1, <1>5, <1>6, <2>1, <3>1, WinnerFacts
    <3>5. config'.tie = config.tie
      BY <1>2
    <3> QED
      BY <1>7, <2>2, <3>1, <3>2, <3>3, <3>4, <3>5 DEF PairRead, NotLost, RowOk
  <2>4. DocOk(opDoc)' <=> DocOk(opDoc)
    BY <1>2, <2>1 DEF DocOk, New
  <2>5. RowOk(opRow)'
    BY <2>2 DEF RowOk
  <2>6. /\ IsDelta' /\ opDoc' # None => opDoc'.mod >= baseline'
        /\ phase' = "rows" =>
             /\ IsDelta' /\ opRow' # None => opRow'.mod >= baseline'
             /\ opRow' = None /\ opDoc' # None => DocOk(opDoc)'
             /\ opDoc' = None /\ opRow' # None => RowOk(opRow)'
    BY <1>2, <1>8, <1>9, <2>4, <2>5
  <2> QED
    BY <2>2, <2>3, <2>6, Zenon DEF ReadInv
<1> QED
  BY <1>10, <1>11

\* A resolution makes the sides equal; it can take back a listed change only where
\* that change would not win.
LEMMA ReadAfterAccept ==
  ASSUME WinnerInv, "late" \notin Breaches, NEW it \in items, AcceptRow(it) \/ AcceptDoc(it)
  PROVE  ReadInv'
<1>1. TypeInv /\ TypeOK /\ PhaseInv /\ StampInv /\ ReadInv /\ ItemInv
  BY DEF WinnerInv, TypeInv
<1>2. /\ UNCHANGED <<config, baseline, phase, before, outcome, opDoc, knownDoc, opRow, knownRow>>
  BY AcceptFrame
<1> SUFFICES ASSUME config'.update, Reading'
             PROVE  ReadInv'
  BY Zenon DEF ReadInv
<1>3. config.update /\ Reading
  BY <1>2 DEF Reading
<1>4. \A x \in DocReads, y \in RowReads : PairRead(x, y) /\ NotLost(x, y)
  BY <1>3, <1>1 DEF ReadInv
<1>5. /\ doc = it.doc /\ row = it.row
      /\ config.tie = "manual"
      /\ doc.val = row.val \/ Winner(doc, row) = "manual"
      /\ doc' \in Doc /\ row' \in Row /\ doc'.val = row'.val /\ doc'.mod = row'.mod
      /\ (row' = row /\ doc'.val = row.val /\ doc'.mod = row.mod) \/ (doc' = doc /\ row'.val = doc.val)
  BY <1>1, AcceptSettles
<1>6. ~New(doc.val) /\ ~New(row.val)
  <2>1. doc.val <= before /\ row.val <= before
    BY <1>1, <1>3, <1>5 DEF StampInv, PhaseInv, Reading
  <2>2. doc.val \in Nat /\ row.val \in Nat /\ before \in Nat
    BY <1>1, Numbers
  <2> QED
    BY <2>1, <2>2 DEF New
<1>7. \A x, y : Winner(x, y)' = Winner(x, y)
  BY <1>2, WinnerKept
<1>8. /\ doc \in DocReads /\ row \in RowReads /\ doc \in Doc /\ row \in Row
      /\ \A x \in DocReads' : x \in DocReads \/ x = doc'
      /\ \A y \in RowReads' : y \in RowReads \/ y = row'
      /\ opDoc # None => opDoc \in DocReads
      /\ opRow # None => opRow \in RowReads
  BY <1>1, <1>2, ReadsAreCopies DEF DocReads, RowReads
<1>9. ASSUME NEW x \in DocReads, NEW y \in RowReads
      PROVE  (x = doc /\ y = row) \/ (doc.val = row.val /\ doc.mod = row.mod)
  BY <1>4, <1>6 DEF PairRead
<1>10. ASSUME NEW x, NEW y
       PROVE  /\ doc'.val = x.val => DocOk(x)'
              /\ row'.val = y.val => RowOk(y)'
  BY DEF DocOk, RowOk
<1>11. ASSUME NEW x \in DocReads', NEW y \in RowReads' PROVE (PairRead(x, y) /\ NotLost(x, y))'
  <2>1. PairRead(x, y)'
    BY <1>5 DEF PairRead
  <2>2. x \in DocReads \/ x = doc'
    BY <1>8
  <2>3. y \in RowReads \/ y = row'
    BY <1>8
  <2>4. DocOk(x)' \/ Winner(x, y) # "frappe"
    <3>1. CASE x = doc' \/ doc'.val = x.val
      BY <1>10, <3>1
    <3>2. CASE x \in DocReads /\ doc'.val # x.val /\ doc.val = row.val
      <4>1. doc.val # x.val
        BY <1>5, <3>2
      <4>2. x # doc /\ ~DocOk(x)
        BY <1>6, <4>1 DEF DocOk
      <4>3. doc.mod = row.mod /\ Winner(x, row) # "frappe"
        BY <1>4, <1>8, <1>9, <3>2, <4>2 DEF NotLost
      <4>4. CASE y \in RowReads
        BY <1>4, <3>2, <4>2, <4>4 DEF NotLost
      <4>5. CASE y = row'
        <5>1. y.mod = row.mod
          BY <1>5, <4>3, <4>5
        <5> QED
          BY <4>3, <5>1, WinnerByStamps
      <4> QED
        BY <2>3, <4>4, <4>5
    <3>3. CASE x \in DocReads /\ doc'.val # x.val /\ doc.val # row.val
      <4>1. x = doc /\ row' = row /\ (y \in RowReads => y = row)
        BY <1>5, <1>8, <1>9, <3>3
      <4> QED
        BY <1>5, <2>3, <3>3, <4>1
    <3> QED
      BY <2>2, <3>1, <3>2, <3>3
  <2>5. RowOk(y)' \/ Winner(x, y) # "partner"
    <3>1. CASE y = row' \/ row'.val = y.val
      BY <1>10, <3>1
    <3>2. CASE y \in RowReads /\ row'.val # y.val /\ doc.val = row.val
      <4>1. row.val # y.val
        BY <1>5, <3>2
      <4>2. y # row /\ ~RowOk(y)
        BY <1>6, <4>1 DEF RowOk
      <4>3. doc.mod = row.mod /\ Winner(doc, y) # "partner"
        BY <1>4, <1>8, <1>9, <3>2, <4>2 DEF NotLost
      <4>4. CASE x \in DocReads
        BY <1>4, <3>2, <4>2, <4>4 DEF NotLost
      <4>5. CASE x = doc'
        <5>1. x.mod = doc.mod
          BY <1>5, <4>3, <4>5
        <5> QED
          BY <4>3, <5>1, WinnerByStamps
      <4> QED
        BY <2>2, <4>4, <4>5
    <3>3. CASE y \in RowReads /\ row'.val # y.val /\ doc.val # row.val
      <4>1. y = row /\ doc' = doc /\ (x \in DocReads => x = doc)
        BY <1>5, <1>8, <1>9, <3>3
      <4> QED
        BY <1>5, <2>2, <3>3, <4>1
    <3> QED
      BY <2>3, <3>1, <3>2, <3>3
  <2>6. config'.tie = "manual"
    BY <1>2, <1>5
  <2> QED
    BY <1>7, <2>1, <2>4, <2>5, <2>6 DEF NotLost
<1>12. Rested'
  BY <1>5 DEF Rested
<1>13. /\ IsDelta /\ opDoc # None => opDoc.mod >= baseline
       /\ IsDelta /\ opDoc = None => Rested \/ Older(doc)
       /\ phase = "rows" =>
            /\ IsDelta /\ opRow # None => opRow.mod >= baseline
            /\ opRow = None => Rested \/ Older(row)
            /\ opRow = None /\ opDoc # None => DocOk(opDoc)
            /\ opDoc = None /\ opRow # None => RowOk(opRow)
  BY <1>1, <1>3 DEF ReadInv
<1>14. (IsDelta' <=> IsDelta) /\ (IsDelta => baseline # None)
  BY <1>2 DEF IsDelta
<1>15. doc.val # row.val => (ChangedSince(doc) <=> ChangedSince(row))
  BY <1>1, <1>5, <1>8, WinnerFacts
<1>16. /\ doc.mod \in Nat /\ row.mod \in Nat /\ (baseline # None => baseline \in Nat)
  BY <1>1, Numbers
<1>17. ASSUME phase = "rows", opRow = None, opDoc # None PROVE DocOk(opDoc)'
  <2>0. IsDelta
    BY <1>1, <1>3, <1>17, Zenon DEF PhaseInv
  <2>1. IsDelta /\ opDoc.mod >= baseline /\ (Rested \/ Older(row)) /\ DocOk(opDoc)
    BY <1>13, <1>17, <2>0, Zenon
  <2>2. CASE doc.val = row.val
    BY <1>2, <1>5, <1>6, <2>1, <2>2 DEF DocOk
  <2>3. CASE doc.val # row.val
    <3>1. opDoc = doc
      BY <1>8, <1>9, <1>17, <2>3
    <3>2. Older(row)
      BY <1>6, <2>1, <2>3 DEF Rested
    <3> QED
      BY <1>14, <1>15, <1>16, <2>1, <2>3, <3>1, <3>2 DEF Older, ChangedSince
  <2> QED
    BY <2>2, <2>3
<1>18. ASSUME phase = "rows", opDoc = None, opRow # None PROVE RowOk(opRow)'
  <2>0. IsDelta
    BY <1>1, <1>3, <1>18, Zenon DEF PhaseInv
  <2>1. IsDelta /\ opRow.mod >= baseline /\ (Rested \/ Older(doc)) /\ RowOk(opRow)
    BY <1>13, <1>18, <2>0, Zenon
  <2>2. CASE doc.val = row.val
    BY <1>2, <1>5, <1>6, <2>1, <2>2 DEF RowOk
  <2>3. CASE doc.val # row.val
    <3>1. opRow = row
      BY <1>8, <1>9, <1>18, <2>3
    <3>2. Older(doc)
      BY <1>6, <2>1, <2>3 DEF Rested
    <3> QED
      BY <1>14, <1>15, <1>16, <2>1, <2>3, <3>1, <3>2 DEF Older, ChangedSince
  <2> QED
    BY <2>2, <2>3
<1>19. /\ IsDelta' /\ opDoc' # None => opDoc'.mod >= baseline'
       /\ phase' = "rows" =>
            /\ IsDelta' /\ opRow' # None => opRow'.mod >= baseline'
            /\ opRow' = None /\ opDoc' # None => DocOk(opDoc)'
            /\ opDoc' = None /\ opRow' # None => RowOk(opRow)'
  BY <1>2, <1>13, <1>14, <1>17, <1>18
<1> QED
  BY <1>11, <1>12, <1>19, Zenon DEF ReadInv

LEMMA ReadAfterStart ==
  ASSUME TypeInv, Start
  PROVE  ReadInv'
<1>1. TypeOK /\ PhaseInv /\ doc \in Doc /\ row \in Row /\ doc # None /\ row # None
  BY RecordNumbers DEF TypeInv, TypeOK
<1>2. /\ UNCHANGED <<config, doc, row, baseline, opRow, knownRow>>
      /\ phase = "idle" /\ phase' = "lookup"
      /\ opDoc' = Listed(doc) /\ knownDoc' \in {None, opDoc'}
  BY ReadFrame DEF Start
<1>3. opRow = None /\ knownRow = None
  BY <1>1, <1>2 DEF PhaseInv
<1>4. IsDelta' <=> IsDelta
  BY <1>2 DEF IsDelta
<1>5. /\ opDoc' = doc \/ (opDoc' = None /\ IsDelta /\ ~ChangedSince(doc))
      /\ IsDelta /\ opDoc' = doc => ChangedSince(doc)
  BY <1>1, <1>2 DEF Listed
<1>6. /\ doc.mod \in Nat /\ (baseline # None => baseline \in Nat) /\ (IsDelta => baseline # None)
  BY <1>1, Numbers DEF IsDelta
<1>7. ASSUME NEW x \in DocReads', NEW y \in RowReads' PROVE (PairRead(x, y) /\ NotLost(x, y))'
  <2>1. x = doc' /\ y = row'
    BY <1>2, <1>3, <1>5 DEF DocReads, RowReads
  <2> QED
    BY <2>1 DEF PairRead, NotLost, DocOk, RowOk
<1>8. IsDelta' /\ opDoc' # None => opDoc'.mod >= baseline'
  BY <1>2, <1>4, <1>5, <1>6 DEF ChangedSince
<1>9. IsDelta' /\ opDoc' = None => Older(doc)'
  BY <1>1, <1>2, <1>4, <1>5, <1>6 DEF ChangedSince, Older
<1>10. phase' # "rows"
  BY <1>2
<1> QED
  BY <1>7, <1>8, <1>9, <1>10, Zenon DEF ReadInv

LEMMA ReadAfterLookup ==
  ASSUME TypeInv, ReadInv, ReadLookup
  PROVE  ReadInv'
<1>1. TypeOK /\ doc \in Doc /\ doc # None
  BY RecordNumbers DEF TypeInv, TypeOK
<1>2. /\ UNCHANGED <<config, doc, row, baseline, before, opDoc, opRow, knownRow>>
      /\ phase = "lookup" /\ phase' = "partner" /\ knownDoc' \in {doc, knownDoc}
  BY ReadFrame DEF ReadLookup
<1> SUFFICES ASSUME config'.update PROVE ReadInv'
  BY Zenon DEF ReadInv
<1>3. config.update /\ Reading
  BY <1>2 DEF Reading
<1>4. \A x \in DocReads, y \in RowReads : PairRead(x, y) /\ NotLost(x, y)
  BY <1>3 DEF ReadInv
<1>5. ASSUME NEW x \in DocReads', NEW y \in RowReads' PROVE (PairRead(x, y) /\ NotLost(x, y))'
  <2>1. x \in DocReads /\ y \in RowReads
    BY <1>1, <1>2 DEF DocReads, RowReads
  <2>2. Winner(x, y)' = Winner(x, y)
    BY <1>2, WinnerKept
  <2> QED
    BY <1>2, <1>4, <2>1, <2>2 DEF PairRead, NotLost, DocOk, RowOk, New
<1>6. /\ IsDelta /\ opDoc # None => opDoc.mod >= baseline
      /\ IsDelta /\ opDoc = None => Rested \/ Older(doc)
  BY <1>3 DEF ReadInv
<1>7. /\ IsDelta' /\ opDoc' # None => opDoc'.mod >= baseline'
      /\ IsDelta' /\ opDoc' = None => Rested' \/ Older(doc)'
  BY <1>2, <1>6 DEF IsDelta, Rested, New, Older
<1>8. phase' # "rows"
  BY <1>2
<1> QED
  BY <1>5, <1>7, <1>8, Zenon DEF ReadInv

\* Where a side is not listed, what is known of the other one decides.
LEMMA ReadAfterPartner ==
  ASSUME WinnerInv, ReadPartner
  PROVE  ReadInv'
<1>1. TypeInv /\ TypeOK /\ PhaseInv /\ ReadInv /\ Seen(doc) /\ doc \in Doc /\ row \in Row /\ row # None
  BY RecordNumbers DEF WinnerInv, TypeInv, TypeOK, SeenInv
<1>2. /\ UNCHANGED <<config, doc, row, baseline, before, opDoc, knownDoc>>
      /\ phase = "partner" /\ phase' = "rows" /\ opRow' = Listed(row) /\ knownRow' \in {None, opRow'}
  BY ReadFrame DEF ReadPartner
<1> SUFFICES ASSUME config'.update PROVE ReadInv'
  BY Zenon DEF ReadInv
<1>3. config.update /\ Reading
  BY <1>2 DEF Reading
<1>4. \A x \in DocReads, y \in RowReads : PairRead(x, y) /\ NotLost(x, y)
  BY <1>1, <1>3 DEF ReadInv
<1>5. IsDelta' <=> IsDelta
  BY <1>2 DEF IsDelta
<1>6. /\ opRow' = row \/ (opRow' = None /\ IsDelta /\ ~ChangedSince(row))
      /\ IsDelta /\ opRow' = row => ChangedSince(row)
  BY <1>1, <1>2 DEF Listed
<1>7. /\ row.mod \in Nat /\ doc.mod \in Nat
      /\ (baseline # None => baseline \in Nat) /\ (IsDelta => baseline # None)
      /\ row \in RowReads
  BY <1>1, Numbers, RecordNumbers, ReadsAreCopies DEF IsDelta
<1>8. ASSUME NEW x \in DocReads', NEW y \in RowReads' PROVE (PairRead(x, y) /\ NotLost(x, y))'
  <2>1. x \in DocReads /\ y \in RowReads
    BY <1>1, <1>2, <1>6 DEF DocReads, RowReads
  <2>2. Winner(x, y)' = Winner(x, y)
    BY <1>2, WinnerKept
  <2> QED
    BY <1>2, <1>4, <2>1, <2>2 DEF PairRead, NotLost, DocOk, RowOk, New
<1>9. /\ IsDelta /\ opDoc # None => opDoc.mod >= baseline
      /\ IsDelta /\ opDoc = None => Rested \/ Older(doc)
  BY <1>1, <1>3 DEF ReadInv
<1>10. /\ IsDelta' /\ opDoc' # None => opDoc'.mod >= baseline'
       /\ IsDelta' /\ opDoc' = None => Rested' \/ Older(doc)'
  BY <1>2, <1>9 DEF IsDelta, Rested, New, Older
<1>11. IsDelta' /\ opRow' # None => opRow'.mod >= baseline'
  BY <1>1, <1>2, <1>5, <1>6, <1>7 DEF ChangedSince
<1>12. opRow' = None => Older(row)'
  BY <1>1, <1>2, <1>6, <1>7 DEF ChangedSince, Older
<1>13. opRow' # None => RowOk(opRow)'
  BY <1>2, <1>6 DEF RowOk
<1>14. ASSUME opRow' = None, opDoc # None PROVE DocOk(opDoc)
  <2>1. opDoc \in DocReads /\ opDoc \in Doc
    BY <1>1, <1>14 DEF DocReads, TypeOK
  <2>2. IsDelta /\ ~ChangedSince(row)
    BY <1>1, <1>6, <1>14
  <2>3. opDoc.mod >= baseline
    BY <1>9, <1>14, <2>2, Zenon
  <2>4. ChangedSince(opDoc)
    BY <2>3 DEF ChangedSince
  <2>5. Winner(opDoc, row) = "frappe"
    BY <1>1, <2>1, <2>2, <2>4, WinnerFacts
  <2> QED
    BY <1>4, <1>7, <2>1, <2>5 DEF NotLost
<1>15. ASSUME opRow' = None, opDoc = None PROVE Rested
  <2>1. IsDelta /\ ~ChangedSince(row)
    BY <1>1, <1>6, <1>15
  <2>2. Rested \/ Older(doc)
    BY <1>9, <1>15, <2>1, Zenon
  <2>3. CASE Older(doc)
    <3>1. ~(doc.mod >= baseline) /\ ~(row.mod >= baseline) /\ baseline # None
      BY <1>7, <2>1, <2>3 DEF Older, ChangedSince
    <3>2. doc.val = row.val
      BY <1>1, <1>3, <3>1 DEF Seen
    <3> QED
      BY <3>2 DEF Rested
  <2> QED
    BY <2>2, <2>3
<1>16. (Rested => Rested') /\ (DocOk(opDoc) => DocOk(opDoc)')
  BY <1>2 DEF Rested, New, DocOk
<1>17. /\ IsDelta' /\ opRow' # None => opRow'.mod >= baseline'
       /\ opRow' = None => Rested' \/ Older(row)'
       /\ opRow' = None /\ opDoc' # None => DocOk(opDoc)'
       /\ opRow' = None /\ opDoc' = None => Rested'
       /\ opDoc' = None /\ opRow' # None => RowOk(opRow)'
  BY <1>2, <1>11, <1>12, <1>13, <1>14, <1>15, <1>16
<1> QED
  BY <1>8, <1>10, <1>17, Zenon DEF ReadInv

LEMMA ReadStep ==
  ASSUME WinnerInv, "late" \notin Breaches, [Next]_vars
  PROVE  ReadInv'
<1>1. TypeInv /\ ReadInv
  BY DEF WinnerInv
<1>2. CASE UNCHANGED vars
  BY <1>1, <1>2, ReadKept DEF vars, sideVars, runVars, readVars
<1>3. CASE Tick
  BY <1>1, <1>3, ReadKept, TickFrame
<1>4. CASE Decide \/ Push \/ Link \/ Pull \/ Finish \/ Crash
  <2>1. ~Reading'
    BY <1>4 DEF Decide, Push, Link, Pull, Finish, Crash, Reset, Reading
  <2> QED
    BY <2>1, Zenon DEF ReadInv
<1>5. ASSUME NEW it \in items, ResolutionFails(it) PROVE ReadInv'
  <2>1. UNCHANGED <<doc, row>>
    BY <1>5 DEF ResolutionFails, sideVars
  <2> QED
    BY <1>1, <1>5, <2>1, AcceptFrame, ReadKept
<1> QED
  BY <1>1, <1>2, <1>3, <1>4, <1>5, ReadAfterEdit, ReadAfterAccept, ReadAfterStart, ReadAfterLookup,
     ReadAfterPartner
  DEF Next, Run

LEMMA WriteKept ==
  ASSUME WriteInv,
         UNCHANGED <<config, baseline, phase, before, outcome, doc, saved, row, push, pull>>
  PROVE  WriteInv'
<1>1. Winner(doc, row)' = Winner(doc, row)
  BY DEF Winner, Compare, ChangedSince
<1> QED
  BY <1>1 DEF WriteInv, DocOk, RowOk, Rested, Undisputed, New

\* Nothing is to be written.
LEMMA NothingToWrite ==
  ASSUME push' = None, pull' = None, phase' \notin {"push", "link", "pull", "end"}
  PROVE  WriteInv'
BY DEF WriteInv

\* A decision on a pair writes only what is still so.
LEMMA PairIsDecided ==
  ASSUME TypeOK, ReadInv, Reading, outcome = "Success",
         NEW d \in DocReads, NEW r \in RowReads, DecidePair(d, r)
  PROVE  /\ push' = None \/ pull' = None
         /\ push' # None => push' = d /\ DocOk(d)
         /\ pull' # None => pull' = r /\ RowOk(r)
         /\ push' # None \/ pull' # None => Undisputed /\ outcome' = "Success"
         /\ config.update /\ push' = None /\ pull' = None /\ outcome' = "Success" => Rested
<1> DEFINE differ == d.val # r.val \/ (config.mode = "identity_fields" /\ ~d.linked)
           winner == IF differ /\ config.update THEN Winner(d, r) ELSE "none"
<1>1. /\ push' = IF winner = "frappe" THEN d ELSE None
      /\ pull' = IF winner = "partner" THEN r ELSE None
      /\ IF winner = "manual"
         THEN items' = items \cup {[doc |-> d, row |-> r]} /\ outcome' = "Needs Review"
         ELSE items' = items /\ outcome' = outcome
  BY DEF DecidePair
<1>2. d \in Doc /\ r \in Row /\ d # None /\ r # None
  BY ReadsAreCopies, RecordNumbers
<1>3. Winner(d, r) \in {"frappe", "partner", "manual"}
  BY <1>2, WinnerFacts
<1>4. /\ winner = "none" \/ (config.update /\ winner = Winner(d, r))
      /\ winner = "none" /\ config.update => d.val = r.val
  BY <1>3
<1> HIDE DEF winner
<1>5. config.update => PairRead(d, r) /\ NotLost(d, r)
  BY DEF ReadInv
<1>6. winner = Winner(d, r) /\ config.update /\ winner # "manual" => Undisputed
  BY <1>5 DEF PairRead, Undisputed, Rested
<1>7. winner = "frappe" => DocOk(d)
  BY <1>4, <1>5 DEF NotLost
<1>8. winner = "partner" => RowOk(r)
  BY <1>4, <1>5 DEF NotLost
<1>9. winner = "none" /\ config.update => Rested
  BY <1>4, <1>5 DEF PairRead, Rested
<1>10. winner \in {"none", "frappe", "partner", "manual"}
  BY <1>3, <1>4
<1>11. CASE winner = "none"
  BY <1>1, <1>9, <1>11
<1>12. CASE winner = "frappe"
  BY <1>1, <1>2, <1>4, <1>6, <1>7, <1>12
<1>13. CASE winner = "partner"
  BY <1>1, <1>2, <1>4, <1>6, <1>8, <1>13
<1>14. CASE winner = "manual"
  BY <1>1, <1>14
<1> QED
  BY <1>10, <1>11, <1>12, <1>13, <1>14

\* So does the decision on a side that is listed alone.
LEMMA AloneIsDecided ==
  ASSUME TypeInv, ReadInv, phase = "rows", outcome = "Success",
         knownRow' = IF IsDelta THEN row ELSE opRow,
         opDoc # None \/ opRow # None, opDoc = None \/ opRow = None, DecideAlone
  PROVE  /\ push' = None \/ pull' = None
         /\ push' # None => DocOk(push') /\ Undisputed
         /\ pull' # None => RowOk(pull') /\ Undisputed
         /\ outcome' = "Success"
         /\ config.update /\ push' = None /\ pull' = None => Rested
<1>1. /\ push' = IF opDoc # None /\ config.update /\ opDoc.val # knownRow'.val THEN opDoc ELSE None
      /\ outcome' = "Success"
      /\ pull' = None \/ (pull' = opRow /\ opRow # None /\ config.update)
      /\ opRow # None /\ config.update /\ opRow.val # knownDoc.val => pull' = opRow
  BY DEF DecideAlone
<1>2. TypeOK /\ PhaseInv /\ Reading
  BY DEF TypeInv, Reading
<1>3. IsDelta /\ baseline # None /\ knownDoc # None
  BY <1>2 DEF PhaseInv, IsDelta
<1>4. knownRow' = row
  BY <1>3
<1>5. /\ doc \in Doc /\ row \in Row /\ row \in RowReads /\ doc \in DocReads /\ knownDoc \in DocReads
      /\ opDoc # None => opDoc \in DocReads /\ opDoc \in Doc
      /\ opRow # None => opRow \in RowReads /\ opRow \in Row
  BY <1>2, <1>3, ReadsAreCopies DEF DocReads, RowReads, TypeOK
<1>6. doc.mod \in Nat /\ row.mod \in Nat /\ baseline \in Nat
  BY <1>2, <1>3, Numbers
<1>7. CASE ~config.update
  BY <1>1, <1>7
<1>8. ASSUME config.update
      PROVE  /\ \A x \in DocReads, y \in RowReads : PairRead(x, y) /\ NotLost(x, y)
             /\ opDoc # None => opDoc.mod >= baseline
             /\ opDoc = None => Rested \/ Older(doc)
             /\ opRow # None => opRow.mod >= baseline
             /\ opRow = None => Rested \/ Older(row)
             /\ opRow = None /\ opDoc # None => DocOk(opDoc)
             /\ opDoc = None /\ opRow # None => RowOk(opRow)
  BY <1>2, <1>3, <1>8 DEF ReadInv
<1>9. CASE config.update /\ opDoc # None /\ opRow = None
  <2>1. DocOk(opDoc) /\ PairRead(opDoc, row) /\ opDoc.mod >= baseline /\ (Rested \/ Older(row))
    BY <1>5, <1>8, <1>9
  <2>2. Undisputed
    <3>1. CASE Rested
      BY <3>1 DEF Undisputed
    <3>2. CASE ~Rested
      <4>1. opDoc = doc
        BY <2>1, <3>2 DEF PairRead, Rested
      <4>2. ChangedSince(doc) /\ ~ChangedSince(row)
        BY <1>3, <1>6, <2>1, <3>2, <4>1 DEF ChangedSince, Older
      <4>3. Winner(doc, row) = "frappe"
        BY <1>2, <1>5, <4>2, WinnerFacts
      <4> QED
        BY <4>3 DEF Undisputed
    <3> QED
      BY <3>1, <3>2
  <2>3. opDoc.val = row.val => Rested
    BY <2>1 DEF DocOk, Rested
  <2> QED
    BY <1>1, <1>4, <1>9, <2>1, <2>2, <2>3
<1>10. CASE config.update /\ opDoc = None /\ opRow # None
  <2>1. RowOk(opRow) /\ PairRead(doc, opRow) /\ PairRead(knownDoc, opRow)
        /\ opRow.mod >= baseline /\ (Rested \/ Older(doc))
    BY <1>5, <1>8, <1>10
  <2>2. Undisputed
    <3>1. CASE Rested
      BY <3>1 DEF Undisputed
    <3>2. CASE ~Rested
      <4>1. opRow = row
        BY <2>1, <3>2 DEF PairRead, Rested
      <4>2. ChangedSince(row) /\ ~ChangedSince(doc)
        BY <1>3, <1>6, <2>1, <3>2, <4>1 DEF ChangedSince, Older
      <4>3. Winner(doc, row) = "partner"
        BY <1>2, <1>5, <4>2, WinnerFacts
      <4> QED
        BY <4>3 DEF Undisputed
    <3> QED
      BY <3>1, <3>2
  <2>3. opRow.val = knownDoc.val => Rested
    BY <2>1 DEF PairRead, Rested
  <2>4. push' = None
    BY <1>1, <1>10
  <2> QED
    BY <1>1, <1>10, <2>1, <2>2, <2>3, <2>4
<1> QED
  BY <1>7, <1>9, <1>10

\* What is decided on: a pair that was read, or one side alone.
LEMMA Decisions ==
  ASSUME WinnerInv, Decide
  PROVE  /\ Reading /\ phase = "rows" /\ outcome = "Success"
         /\ knownRow' = IF IsDelta THEN row ELSE opRow
         /\ \/ opDoc = None /\ opRow = None /\ push' = None /\ pull' = None
            \/ \E d \in DocReads, r \in RowReads : DecidePair(d, r)
            \/ (opDoc # None \/ opRow # None) /\ (opDoc = None \/ opRow = None) /\ DecideAlone
<1>1. /\ TypeInv /\ TypeOK /\ PhaseInv /\ LinkedInv
      /\ phase = "rows" /\ knownRow' = IF IsDelta THEN row ELSE opRow
  BY DecideFrame DEF WinnerInv, TypeInv
<1>2. Reading /\ outcome = "Success" /\ knownDoc # None /\ (~IsDelta => opDoc # None /\ opRow # None)
  BY <1>1 DEF PhaseInv, Reading
<1>3. /\ knownDoc \in DocReads /\ knownRow' \in RowReads
      /\ opDoc # None => opDoc \in DocReads
      /\ opRow # None => opRow \in RowReads
  BY <1>1, <1>2, ReadsAreCopies DEF DocReads, RowReads
<1>4. CASE opDoc = None /\ opRow = None
  BY <1>1, <1>2, <1>4 DEF Decide
<1>5. CASE opRow = None /\ opDoc # None /\ DecidePair(opDoc, knownRow')
  BY <1>1, <1>2, <1>3, <1>5
<1>6. CASE opRow # None /\ DecidePair(knownDoc, opRow)
  BY <1>1, <1>2, <1>3, <1>6
<1>7. CASE opDoc # None /\ opRow # None /\ DecidePair(opDoc, opRow)
  BY <1>1, <1>2, <1>3, <1>7
<1>8. CASE /\ opDoc # None \/ opRow # None
           /\ config.mode # "identity_fields" /\ DecideAlone
           /\ ~(opDoc # None /\ opRow # None /\ SameToken(opDoc))
  <2>1. config.mode = "match_fields"
    BY <1>1, <1>8, ConfigFields
  <2>2. opDoc # None => SameToken(opDoc)
    BY <1>1, <1>3, <2>1 DEF LinkedInv, SameToken
  <2> QED
    BY <1>1, <1>2, <1>8, <2>2
<1> QED
  BY <1>4, <1>5, <1>6, <1>7, <1>8 DEF Decide

LEMMA WriteAfterDecide ==
  ASSUME WinnerInv, Decide
  PROVE  WriteInv'
<1>1. /\ TypeInv /\ TypeOK /\ PhaseInv /\ ReadInv
      /\ UNCHANGED <<config, baseline, before, doc, saved, row>>
      /\ phase = "rows" /\ phase' = "push"
  BY DecideFrame DEF WinnerInv, TypeInv
<1>2. /\ Reading /\ outcome = "Success" /\ saved = doc
      /\ knownRow' = IF IsDelta THEN row ELSE opRow
      /\ ~IsDelta => opDoc # None /\ opRow # None
  BY <1>1, Decisions DEF PhaseInv
<1>3. /\ push' = None \/ pull' = None
      /\ push' # None => DocOk(push') /\ Undisputed
      /\ pull' # None => RowOk(pull') /\ Undisputed
      /\ push' # None \/ pull' # None => outcome' = "Success"
      /\ config.update /\ push' = None /\ pull' = None /\ outcome' = "Success" => Rested
  <2>1. ASSUME NEW d \in DocReads, NEW r \in RowReads, DecidePair(d, r)
        PROVE  /\ push' = None \/ pull' = None
               /\ push' # None => DocOk(push') /\ Undisputed
               /\ pull' # None => RowOk(pull') /\ Undisputed
               /\ push' # None \/ pull' # None => outcome' = "Success"
               /\ config.update /\ push' = None /\ pull' = None /\ outcome' = "Success" => Rested
    BY <1>1, <1>2, <2>1, PairIsDecided
  <2>2. CASE opDoc = None /\ opRow = None
    <3>1. push' = None /\ pull' = None
      BY <2>2 DEF Decide
    <3>2. config.update => Rested
      BY <1>1, <1>2, <2>2 DEF ReadInv
    <3> QED
      BY <3>1, <3>2
  <2>3. CASE (opDoc # None \/ opRow # None) /\ (opDoc = None \/ opRow = None) /\ DecideAlone
    BY <1>1, <1>2, <2>3, AloneIsDecided
  <2> QED
    BY <2>1, <2>2, <2>3, Decisions
<1>4. Winner(doc, row)' = Winner(doc, row)
  BY <1>1 DEF Winner, Compare, ChangedSince
<1> QED
  BY <1>1, <1>2, <1>3, <1>4 DEF WriteInv, DocOk, RowOk, Rested, Undisputed, New

LEMMA WriteAfterEdit ==
  ASSUME WinnerInv, EditDoc \/ EditRow
  PROVE  WriteInv'
<1>1. TypeOK /\ StampInv /\ WriteInv /\ NewEdit
  BY DEF WinnerInv, TypeInv, EditDoc, EditRow
<1>2. /\ UNCHANGED <<config, baseline, phase, before, outcome, push, pull>>
  BY <1>1, EditFrame
<1>3. edits \in Nat /\ before \in Nat /\ before <= edits
  BY <1>1, Numbers DEF StampInv
<1>4. edits + 1 > before
  BY <1>3
<1>5. CASE EditDoc
  <2>1. doc'.val = edits + 1 /\ saved' = doc' /\ row' = row
    BY <1>1, <1>5, EditDocFrame
  <2>2. New(doc.val)'
    BY <1>2, <1>4, <2>1 DEF New
  <2> QED
    BY <1>1, <1>2, <2>1, <2>2 DEF WriteInv, DocOk, RowOk, Rested, Undisputed, New
<1>6. CASE EditRow
  <2>1. row'.val = edits + 1 /\ UNCHANGED <<doc, saved>>
    BY <1>1, <1>6, EditRowFrame
  <2>2. New(row.val)'
    BY <1>2, <1>4, <2>1 DEF New
  <2> QED
    BY <1>1, <1>2, <2>1, <2>2 DEF WriteInv, DocOk, RowOk, Rested, Undisputed, New
<1> QED
  BY <1>5, <1>6

\* While a write is to come, an item that is accepted changes no value.
LEMMA WriteAfterAccept ==
  ASSUME WinnerInv, "late" \notin Breaches, NEW it \in items, AcceptRow(it) \/ AcceptDoc(it)
  PROVE  WriteInv'
<1>1. TypeInv /\ TypeOK /\ PhaseInv /\ StampInv /\ WriteInv /\ ItemInv
  BY DEF WinnerInv, TypeInv
<1>2. UNCHANGED <<config, baseline, phase, before, outcome, push, pull>>
  BY AcceptFrame
<1>3. /\ doc = saved /\ doc = it.doc /\ row = it.row
      /\ doc.val = row.val \/ Winner(doc, row) = "manual"
      /\ saved' = doc' /\ doc'.val = row'.val
      /\ (row' = row /\ doc'.val = row.val) \/ (doc' = doc /\ row'.val = doc.val)
  BY <1>1, AcceptSettles
<1>4. Rested'
  BY <1>3 DEF Rested
<1>5. ASSUME push # None \/ pull # None, Undisputed
      PROVE  doc'.val = doc.val /\ row'.val = row.val
  <2>1. outcome = "Success" /\ phase # "idle"
    BY <1>1, <1>5 DEF WriteInv, PhaseInv
  <2>2. doc.val <= before /\ row.val <= before
    BY <1>1, <1>3, <2>1 DEF StampInv
  <2>3. doc.val \in Nat /\ row.val \in Nat /\ before \in Nat
    BY <1>1, Numbers
  <2>4. doc.val = row.val
    BY <1>3, <1>5, <2>2, <2>3 DEF Undisputed, Rested, New
  <2> QED
    BY <1>3, <2>4
<1>6. phase' = "push" /\ push' # None => DocOk(push)' /\ Undisputed'
  BY <1>1, <1>2, <1>4, <1>5 DEF WriteInv, DocOk, New, Undisputed
<1>7. pull' # None => RowOk(pull)' /\ Undisputed' /\ saved' = doc'
  BY <1>1, <1>2, <1>3, <1>4, <1>5 DEF WriteInv, RowOk, New, Undisputed
<1> QED
  BY <1>1, <1>2, <1>4, <1>6, <1>7 DEF WriteInv

LEMMA WriteAfterPush ==
  ASSUME WinnerInv, Push
  PROVE  WriteInv'
<1>1. /\ TypeOK /\ PhaseInv /\ WriteInv
      /\ UNCHANGED <<config, baseline, before, doc, pull>> /\ saved' \in {saved, doc'}
      /\ phase = "push"
  BY WriteFrame DEF WinnerInv, TypeInv, Push
<1>2. saved' = doc /\ saved = doc
  BY <1>1 DEF PhaseInv
<1>3. CASE push = None /\ phase' = "pull" /\ UNCHANGED <<row, faults, outcome, push>>
  <2>1. Winner(doc, row)' = Winner(doc, row)
    BY <1>1, <1>3 DEF Winner, Compare, ChangedSince
  <2> QED
    BY <1>1, <1>2, <1>3, <2>1 DEF WriteInv, RowOk, Rested, Undisputed, New
<1>4. CASE /\ push # None /\ row' = Pushed(push)
           /\ phase' = IF config.ids /\ ~push.linked THEN "link" ELSE "pull"
           /\ push' = IF config.ids /\ ~push.linked THEN push ELSE None
           /\ UNCHANGED <<faults, outcome>>
  <2>1. pull' = None /\ outcome' = "Success" /\ DocOk(push)
    BY <1>1, <1>4 DEF WriteInv
  <2>2. Rested'
    BY <1>1, <1>4, <2>1 DEF Pushed, DocOk, Rested, New
  <2>3. phase' # "push"
    BY <1>4
  <2> QED
    BY <2>1, <2>2, <2>3 DEF WriteInv
<1>5. CASE push # None /\ Fails /\ phase' = "pull" /\ push' = None /\ UNCHANGED row
  <2>1. pull' = None /\ outcome' = "Partial Error"
    BY <1>1, <1>5 DEF WriteInv, Fails
  <2> QED
    BY <1>5, <2>1 DEF WriteInv
<1> QED
  BY <1>3, <1>4, <1>5 DEF Push

LEMMA WriteAfterLink ==
  ASSUME WinnerInv, Link
  PROVE  WriteInv'
<1>1. /\ TypeOK /\ PhaseInv /\ WriteInv
      /\ UNCHANGED <<config, baseline, before, row, pull>>
      /\ phase = "link" /\ phase' = "pull" /\ push' = None
  BY WriteFrame DEF WinnerInv, TypeInv, Link
<1>2. push # None /\ pull = None
  BY <1>1 DEF PhaseInv, WriteInv
<1>3. CASE doc' = [doc EXCEPT !.linked = TRUE, !.mod = clock] /\ UNCHANGED outcome
  <2>1. doc'.val = doc.val
    BY <1>1, <1>3 DEF TypeOK, Doc
  <2> QED
    BY <1>1, <1>2, <1>3, <2>1 DEF WriteInv, Rested, New
<1>4. CASE Fails
  <2>1. outcome' = "Partial Error"
    BY <1>4 DEF Fails
  <2> QED
    BY <1>1, <1>2, <2>1 DEF WriteInv
<1> QED
  BY <1>3, <1>4 DEF Link

LEMMA WriteAfterPull ==
  ASSUME WinnerInv, Pull
  PROVE  WriteInv'
<1>1. /\ TypeOK /\ PhaseInv /\ WriteInv
      /\ UNCHANGED <<config, baseline, before, row, push>>
      /\ phase = "pull" /\ phase' = "end" /\ pull' = None
  BY WriteFrame DEF WinnerInv, TypeInv, Pull
<1>2. push' = None
  BY <1>1 DEF PhaseInv
<1>3. CASE pull = None /\ UNCHANGED <<doc, faults, outcome>>
  BY <1>1, <1>2, <1>3 DEF WriteInv, Rested, New
<1>4. CASE pull # None /\ doc' = Pulled(pull)
  <2>1. Rested'
    BY <1>1, <1>4 DEF WriteInv, Pulled, RowOk, Rested, New
  <2> QED
    BY <1>1, <1>2, <2>1 DEF WriteInv
<1>5. CASE Fails
  <2>1. outcome' = "Partial Error"
    BY <1>5 DEF Fails
  <2> QED
    BY <1>1, <1>2, <2>1 DEF WriteInv
<1> QED
  BY <1>3, <1>4, <1>5 DEF Pull

LEMMA WriteStep ==
  ASSUME WinnerInv, "late" \notin Breaches, [Next]_vars
  PROVE  WriteInv'
<1>1. WriteInv /\ TypeInv /\ PhaseInv
  BY DEF WinnerInv, TypeInv
<1>2. CASE UNCHANGED vars
  BY <1>1, <1>2, WriteKept DEF vars, sideVars, runVars, readVars
<1>3. CASE Tick
  BY <1>1, <1>3, WriteKept, TickFrame
<1>4. CASE Start \/ ReadLookup \/ ReadPartner
  <2>1. push = None /\ pull = None
    BY <1>1, <1>4 DEF PhaseInv, Reading, Start, ReadLookup, ReadPartner
  <2>2. push' = None /\ pull' = None /\ phase' \notin {"push", "link", "pull", "end"}
    BY <1>4, <2>1, ReadFrame DEF Start, ReadLookup, ReadPartner
  <2> QED
    BY <2>2, NothingToWrite
<1>5. CASE Finish \/ Crash
  <2>1. push' = None /\ pull' = None /\ phase' = "idle"
    BY <1>5, ResetFrame DEF Reset
  <2> QED
    BY <2>1, NothingToWrite
<1>6. ASSUME NEW it \in items, ResolutionFails(it) PROVE WriteInv'
  <2>1. UNCHANGED <<doc, saved, row>>
    BY <1>6 DEF ResolutionFails, sideVars
  <2> QED
    BY <1>1, <1>6, <2>1, AcceptFrame, WriteKept
<1> QED
  BY <1>1, <1>2, <1>3, <1>4, <1>5, <1>6, WriteAfterDecide, WriteAfterEdit, WriteAfterAccept,
     WriteAfterPush, WriteAfterLink, WriteAfterPull
  DEF Next, Run

LEMMA WinnerStep == "late" \notin Breaches => (WinnerInv /\ [Next]_vars => WinnerInv')
<1> SUFFICES ASSUME "late" \notin Breaches, WinnerInv, [Next]_vars PROVE WinnerInv'
  OBVIOUS
<1>1. TypeInv'
  BY TypeStep DEF WinnerInv
<1>2. StampInv'
  BY <1>1, StampStep DEF WinnerInv
<1>3. LinkedInv'
  BY LinkedStep DEF WinnerInv
<1> QED
  BY <1>1, <1>2, <1>3, SeenStep, ItemStep, ReadStep, WriteStep DEF WinnerInv

\* If documents are linked where tokens are compared and items are resolved only
\* while they are current, no edit, failure, crash or resolution leaves a difference
\* that delta syncs do not see.
THEOREM DivergenceStaysSeen ==
  ASSUME "adopt" \notin Breaches, "late" \notin Breaches
  PROVE  Spec => []DivergenceIsSeen
<1>1. Init => WinnerInv
  BY WinnerInit
<1>2. WinnerInv /\ [Next]_vars => WinnerInv'
  BY WinnerStep
<1>3. WinnerInv => DivergenceIsSeen
  BY DEF WinnerInv, SeenInv, Seen, DivergenceIsSeen
<1> QED
  BY <1>1, <1>2, <1>3, PTL DEF Spec

-----------------------------------------------------------------------------
(* The newest edit wins *)

\* A value may replace another: it is that value, or not older by more than the buffer.
MayReplace(v, w) == v = w \/ at[v] + config.buffer >= at[w]

\* A stamp is the time of the edit, or a later one up to the last save of a link.
TrueStamp(x) ==
  x.mod = at[x.val] \/ (bumped # None /\ at[x.val] <= x.mod /\ x.mod <= bumped)

TimeInv ==
  /\ \A e, f \in 0..edits : e <= f => at[e] <= at[f]
  /\ \A e \in 0..edits : at[e] <= clock
  /\ bumped # None => bumped <= clock
  /\ \A x \in Copies : TrueStamp(x)

\* Edit v looks newer than x does.
Outdates(v, x) == x.mod = at[x.val] \/ at[v] > x.mod + config.buffer

\* If x was stamped anew it may replace the value v all the same, or v is newer
\* even than that stamp.
Honest(x, v) == MayReplace(x.val, v) \/ Outdates(v, x)

HonestInv ==
  /\ \A d \in {doc, saved} : Honest(d, row.val) /\ Honest(row, d.val)
  /\ phase = "link" => MayReplace(doc.val, row.val)

\* An edit made since x was read.
EditedSince(v, x) == New(v) /\ v # x.val => v > x.val /\ Outdates(v, x)

LaterInv ==
  /\ Reading => /\ \A x \in DocReads : EditedSince(doc.val, x)
                /\ \A y \in RowReads : EditedSince(row.val, y)
  /\ push # None => EditedSince(doc.val, push)
  /\ pull # None => EditedSince(row.val, pull)

\* What a run may do to the other side.
PushFair(x) == New(row.val) \/ MayReplace(x.val, row.val)
PullFair(y) == New(doc.val) \/ MayReplace(y.val, doc.val)

FairInv ==
  /\ config.update /\ Reading =>
       /\ \A x \in DocReads, y \in RowReads :
            /\ Winner(x, y) = "frappe" => PushFair(x)
            /\ Winner(x, y) = "partner" => PullFair(y)
       /\ phase = "rows" /\ opRow = None /\ opDoc # None => PushFair(opDoc)
       /\ phase = "rows" /\ opDoc = None /\ opRow # None => PullFair(opRow)
  /\ phase = "push" /\ push # None => PushFair(push)
  /\ pull # None => PullFair(pull)

NewestInv == TimeInv /\ HonestInv /\ LaterInv /\ FairInv

\* How the history goes on: an edit is added to it, or the document is stamped anew.
LEMMA HistoryStep ==
  ASSUME TypeOK, [Next]_vars
  PROVE  /\ config' = config
         /\ \A e \in 0..edits : at'[e] = at[e]
         /\ \/ edits' = edits /\ at' = at
            \/ edits' = edits + 1 /\ at'[edits + 1] = clock /\ clock' = clock
         /\ bumped' = bumped \/ (bumped' = clock /\ clock' = clock)
<1>1. config' = config
  BY ConfigStep
<1>2. CASE NewEdit
  <2>1. /\ edits' = edits + 1 /\ edits' \in Edit /\ edits \in Nat
        /\ at' = [at EXCEPT ![edits + 1] = clock] /\ clock' = clock /\ bumped' = bumped
    BY <1>2, EditFrame, Zenon DEF NewEdit
  <2>2. at \in [Edit -> Time]
    BY Zenon DEF TypeOK
  <2>3. \A e \in 0..edits : e \in Edit /\ e # edits + 1
    BY <2>1 DEF Edit
  <2> QED
    BY <1>1, <2>1, <2>2, <2>3
<1>3. CASE at' = at /\ edits' = edits /\ bumped' = bumped
  BY <1>1, <1>3
<1>4. CASE Link
  BY <1>1, <1>4, WriteFrame DEF Link
<1>5. CASE Push \/ Pull
  BY <1>3, <1>5, WriteFrame DEF Push, Pull
<1>6. CASE UNCHANGED vars
  BY <1>3, <1>6 DEF vars, userVars, sideVars
<1>7. ASSUME NEW it \in items, AcceptRow(it) \/ AcceptDoc(it) \/ ResolutionFails(it)
      PROVE  at' = at /\ edits' = edits /\ bumped' = bumped
  BY <1>7, AcceptFrame
<1> QED
  BY <1>2, <1>3, <1>4, <1>5, <1>6, <1>7, TickFrame, ReadFrame, DecideFrame, ResetFrame
  DEF Next, Run, EditDoc, EditRow

LEMMA TimeInit == Init => TimeInv
<1> SUFFICES ASSUME Init PROVE TimeInv
  OBVIOUS
<1>1. /\ edits = 0 /\ clock = 0 /\ at = [e \in Edit |-> 0] /\ bumped = None
      /\ saved = doc /\ doc.val = 0 /\ doc.mod = 0 /\ row.val = 0 /\ row.mod = 0
      /\ opDoc = None /\ knownDoc = None /\ opRow = None /\ knownRow = None
      /\ push = None /\ pull = None
  BY DEF Init
<1>2. 0 \in Edit
  BY DEF Edit
<1>3. \A e \in 0..edits : at[e] = 0
  BY <1>1, <1>2
<1>4. \A x \in Copies : x.val = 0 /\ x.mod = 0
  BY <1>1 DEF Copies
<1> QED
  BY <1>1, <1>3, <1>4 DEF TimeInv, TrueStamp

LEMMA TimeNumbers ==
  ASSUME TypeOK, StampInv
  PROVE  /\ \A e \in 0..edits : at[e] \in Nat
         /\ bumped # None => bumped \in Nat
         /\ clock \in Nat /\ clock # None /\ edits \in Nat /\ config.buffer \in Nat
         /\ \A x \in Copies : x.val \in 0..edits /\ x.mod \in Nat
<1>1. /\ edits \in Edit /\ at \in [Edit -> Time] /\ clock \in Time /\ bumped \in Time \cup {None}
  BY Zenon DEF TypeOK
<1>2. \A e \in 0..edits : e \in Edit
  BY <1>1 DEF Edit
<1>3. \A n \in Time : n \in Nat /\ n # None
  BY DEF Time
<1>4. \A x \in Copies : x.val \in Nat /\ x.mod \in Nat /\ x.val <= edits
  BY Numbers DEF StampInv, Stamped
<1> QED
  BY <1>1, <1>2, <1>3, <1>4, Numbers

LEMMA TimeStep ==
  ASSUME WinnerInv, TimeInv, "late" \notin Breaches, [Next]_vars
  PROVE  TimeInv'
<1>1. TypeInv /\ TypeOK /\ StampInv
  BY DEF WinnerInv, TypeInv
<1>2. /\ \A e \in 0..edits : at'[e] = at[e]
      /\ \/ edits' = edits /\ at' = at
         \/ edits' = edits + 1 /\ at'[edits + 1] = clock /\ clock' = clock
      /\ bumped' = bumped \/ (bumped' = clock /\ clock' = clock)
  BY <1>1, HistoryStep
<1>3. /\ \A e \in 0..edits : at[e] \in Nat
      /\ bumped # None => bumped \in Nat
      /\ clock \in Nat /\ clock # None /\ edits \in Nat
      /\ \A x \in Copies : x.val \in 0..edits /\ x.mod \in Nat
  BY <1>1, TimeNumbers
<1>4. clock' \in {clock, clock + 1} /\ clock' \in Nat /\ clock' >= clock
  BY <1>1, <1>3, ClockStep
<1>5. \A e \in 0..edits' : e \in 0..edits \/ (e = edits + 1 /\ edits' = edits + 1)
  BY <1>2, <1>3
<1>6. ASSUME NEW e \in 0..edits', NEW f \in 0..edits', e <= f PROVE at'[e] <= at'[f]
  BY <1>2, <1>3, <1>5, <1>6 DEF TimeInv
<1>7. ASSUME NEW e \in 0..edits' PROVE at'[e] <= clock'
  BY <1>2, <1>3, <1>4, <1>5 DEF TimeInv
<1>8. bumped' # None => bumped' <= clock'
  BY <1>2, <1>3, <1>4 DEF TimeInv
<1>9. ASSUME NEW x \in Copies' PROVE TrueStamp(x)'
  <2>1. CASE \E y \in Copies : x.val = y.val /\ (x.mod = y.mod \/ (x.mod = clock /\ bumped' = clock))
    <3> PICK y \in Copies : x.val = y.val /\ (x.mod = y.mod \/ (x.mod = clock /\ bumped' = clock))
      BY <2>1
    <3>1. /\ y.val \in 0..edits /\ at'[y.val] = at[y.val] /\ at[y.val] \in Nat /\ at[y.val] <= clock
          /\ y.mod = at[y.val] \/ (bumped # None /\ at[y.val] <= y.mod /\ y.mod <= bumped)
          /\ y.mod \in Nat
      BY <1>2, <1>3 DEF TimeInv, TrueStamp
    <3>2. /\ x.mod = at'[x.val]
             \/ (bumped' # None /\ at'[x.val] <= x.mod /\ x.mod <= bumped')
      BY <1>2, <1>3, <3>1 DEF TimeInv
    <3> QED
      BY <3>2 DEF TrueStamp
  <2>2. CASE x.val = edits + 1 /\ edits' = edits + 1 /\ x.mod = clock
    <3>1. at'[edits + 1] = clock
      BY <1>2, <1>3, <2>2
    <3> QED
      BY <2>2, <3>1 DEF TrueStamp
  <2> QED
    BY <1>1, <2>1, <2>2, CopiesStep
<1> QED
  BY <1>6, <1>7, <1>8, <1>9 DEF TimeInv

\* What values and stamps say of each other changes only with the history.
LEMMA HonestKept ==
  ASSUME config' = config, \A e \in 0..edits : at'[e] = at[e],
         NEW x, NEW v \in 0..edits, x.val \in 0..edits
  PROVE  /\ MayReplace(x.val, v)' <=> MayReplace(x.val, v)
         /\ MayReplace(v, x.val)' <=> MayReplace(v, x.val)
         /\ Outdates(v, x)' <=> Outdates(v, x)
         /\ Honest(x, v)' <=> Honest(x, v)
BY DEF MayReplace, Outdates, Honest

\* An edit may replace everything, and looks newer than everything there is.
LEMMA AfterEdit ==
  ASSUME TypeOK, StampInv, TimeInv, "race" \notin Breaches, EditDoc \/ EditRow,
         NEW n, n = edits + 1
  PROVE  /\ edits' = n /\ edits \in Nat /\ clock \in Nat
         /\ UNCHANGED <<config, before, phase, baseline, opDoc, knownDoc, opRow, knownRow, push, pull>>
         /\ \A e \in 0..edits : at'[e] = at[e]
         /\ \A e \in 0..edits : n > e /\ MayReplace(n, e)'
         /\ \A x \in Copies : x.val \in 0..edits /\ Outdates(n, x)'
         /\ New(n)'
<1>1. NewEdit /\ ~LooksNewer
  BY DEF EditDoc, EditRow
<1>2. /\ edits' = edits + 1 /\ edits' \in Edit /\ clock' = clock
      /\ UNCHANGED <<config, before, phase, baseline, opDoc, knownDoc, opRow, knownRow, push, pull>>
  BY <1>1, EditFrame
<1>3. /\ \A e \in 0..edits : at'[e] = at[e]
      /\ at'[n] = clock
  <2>1. at \in [Edit -> Time] /\ at' = [at EXCEPT ![edits + 1] = clock]
    BY <1>1, Zenon DEF TypeOK, NewEdit
  <2>2. \A e \in 0..edits : e \in Edit /\ e # edits + 1
    BY <1>2, TimeNumbers DEF Edit
  <2> QED
    BY <1>2, <2>1, <2>2
<1>4. /\ \A e \in 0..edits : at[e] \in Nat /\ at[e] <= clock
      /\ bumped # None => bumped \in Nat
      /\ clock \in Nat /\ edits \in Nat /\ config.buffer \in Nat
      /\ \A x \in Copies : x.val \in 0..edits /\ x.mod \in Nat
  BY TimeNumbers DEF TimeInv
<1>5. ASSUME NEW e \in 0..edits PROVE n > e /\ MayReplace(n, e)'
  <2>1. at'[n] + config.buffer >= at'[e]
    BY <1>3, <1>4
  <2> QED
    BY <1>2, <1>4, <2>1 DEF MayReplace
<1>6. ASSUME NEW x \in Copies PROVE x.val \in 0..edits /\ Outdates(n, x)'
  <2>1. TrueStamp(x)
    BY DEF TimeInv
  <2>2. x.mod = at[x.val] \/ clock > x.mod + config.buffer
    BY <1>1, <1>4, <2>1 DEF TrueStamp, LooksNewer
  <2>3. x.mod = at'[x.val] \/ at'[n] > x.mod + config'.buffer
    BY <1>2, <1>3, <1>4, <2>2
  <2> QED
    BY <1>4, <2>3 DEF Outdates
<1>7. New(n)'
  <2>1. before \in Nat /\ before <= edits
    BY Numbers DEF StampInv
  <2> QED
    BY <1>2, <1>4, <2>1 DEF New
<1> QED
  BY <1>2, <1>3, <1>4, <1>5, <1>6, <1>7

LEMMA HonestAfterEdit ==
  ASSUME TypeInv, StampInv, TimeInv, HonestInv, "race" \notin Breaches, EditDoc \/ EditRow
  PROVE  HonestInv'
<1>1. TypeOK
  BY DEF TypeInv
<1> PICK n : n = edits + 1
  OBVIOUS
<1>2. /\ \A e \in 0..edits : MayReplace(n, e)'
      /\ \A x \in Copies : x.val \in 0..edits /\ Outdates(n, x)'
      /\ config' = config /\ phase' = phase /\ \A e \in 0..edits : at'[e] = at[e]
  BY <1>1, AfterEdit
<1>3. doc \in Copies /\ saved \in Copies /\ row \in Copies
  BY <1>1, RecordNumbers DEF TypeOK, Copies
<1>4. CASE EditDoc
  <2>1. doc'.val = n /\ saved' = doc' /\ row' = row
    BY <1>1, <1>4, EditDocFrame
  <2>2. MayReplace(doc.val, row.val)'
    BY <1>2, <1>3, <2>1 DEF MayReplace
  <2>3. Honest(row, doc.val)'
    BY <1>2, <1>3, <2>1 DEF Honest, MayReplace, Outdates
  <2> QED
    BY <2>1, <2>2, <2>3 DEF HonestInv, Honest
<1>5. CASE EditRow
  <2>1. row'.val = n /\ doc' = doc /\ saved' = saved /\ phase # "link"
    BY <1>1, <1>5, EditRowFrame DEF EditRow
  <2>2. ASSUME NEW d \in {doc, saved} PROVE Honest(d, row.val)' /\ Honest(row, d.val)'
    BY <1>2, <1>3, <2>1 DEF Honest, MayReplace, Outdates
  <2> QED
    BY <1>2, <2>1, <2>2 DEF HonestInv
<1> QED
  BY <1>4, <1>5

LEMMA HonestUntouched ==
  ASSUME HonestInv, UNCHANGED <<config, at, row>>, doc' \in {doc, saved}, saved' \in {doc, saved},
         phase' = "link" => phase = "link" /\ doc' = doc
  PROVE  HonestInv'
<1>1. ASSUME NEW d \in {doc', saved'} PROVE Honest(d, row.val)' /\ Honest(row, d.val)'
  <2>1. Honest(d, row.val) /\ Honest(row, d.val)
    BY DEF HonestInv
  <2> QED
    BY <2>1 DEF Honest, MayReplace, Outdates
<1>2. phase' = "link" => MayReplace(doc.val, row.val)'
  BY DEF HonestInv, MayReplace
<1> QED
  BY <1>1, <1>2 DEF HonestInv, Honest, MayReplace, Outdates

\* An accepted item makes the values equal.
LEMMA HonestAfterAccept ==
  ASSUME WinnerInv, "late" \notin Breaches, NEW it \in items, AcceptRow(it) \/ AcceptDoc(it)
  PROVE  HonestInv'
<1>1. TypeInv /\ TypeOK /\ PhaseInv /\ StampInv /\ ItemInv
  BY DEF WinnerInv, TypeInv
<1>2. doc'.val = row'.val /\ saved' = doc'
  BY <1>1, AcceptSettles
<1> QED
  BY <1>2 DEF HonestInv, Honest, MayReplace

\* The row takes the value and the stamp of the document, or an older value that
\* the document has outdated.
LEMMA HonestAfterPush ==
  ASSUME WinnerInv, TimeInv, HonestInv, LaterInv, Push
  PROVE  HonestInv'
<1>1. /\ TypeOK /\ PhaseInv /\ StampInv /\ WriteInv
      /\ UNCHANGED <<config, at, edits, doc>> /\ saved' \in {saved, doc'} /\ phase = "push"
  BY WriteFrame DEF WinnerInv, TypeInv, Push
<1>2. saved = doc
  BY <1>1 DEF PhaseInv
<1>3. CASE UNCHANGED row /\ phase' = "pull"
  BY <1>1, <1>2, <1>3, HonestUntouched
<1>4. CASE push # None /\ row' = Pushed(push)
  <2>1. row'.val = push.val /\ row'.mod = push.mod /\ saved' = doc'
    BY <1>1, <1>2, <1>4 DEF Pushed
  <2>2. DocOk(push) /\ EditedSince(doc.val, push)
    BY <1>1, <1>4 DEF WriteInv, LaterInv
  <2>3. push \in Copies /\ doc \in Copies
    BY <1>1, <1>4, ReadsAreCopies DEF Copies, DocReads
  <2>4. /\ push.val \in 0..edits /\ doc.val \in 0..edits /\ config.buffer \in Nat
        /\ at[push.val] \in Nat /\ at[doc.val] \in Nat
    BY <1>1, <2>3, TimeNumbers
  <2>5. doc.val = push.val \/ (doc.val > push.val /\ Outdates(doc.val, push))
    BY <2>2 DEF DocOk, EditedSince
  <2>6. doc.val > push.val => at[doc.val] + config.buffer >= at[push.val]
    BY <1>1, <2>4 DEF TimeInv
  <2>7. MayReplace(doc.val, row.val)'
    BY <1>1, <2>1, <2>5, <2>6 DEF MayReplace
  <2>8. Honest(row, doc.val)'
    BY <1>1, <2>1, <2>5 DEF Honest, MayReplace, Outdates
  <2> QED
    BY <2>1, <2>7, <2>8 DEF HonestInv, Honest
<1> QED
  BY <1>3, <1>4 DEF Push

\* What is stamped anew may replace the row.
LEMMA HonestAfterLink ==
  ASSUME WinnerInv, HonestInv, Link
  PROVE  HonestInv'
<1>1. /\ TypeOK /\ UNCHANGED <<config, at, row>> /\ saved' \in {saved, doc'}
      /\ phase = "link" /\ phase' = "pull"
  BY WriteFrame DEF WinnerInv, TypeInv, Link
<1>2. doc'.val = doc.val
  BY <1>1 DEF Link, TypeOK, Doc
<1>3. MayReplace(doc.val, row.val)'
  BY <1>1, <1>2 DEF HonestInv, MayReplace
<1>4. Honest(doc, row.val)' /\ Honest(row, doc.val)'
  BY <1>1, <1>2, <1>3 DEF HonestInv, Honest, MayReplace, Outdates
<1>5. Honest(saved, row.val)' /\ Honest(row, saved.val)'
  BY <1>1, <1>4 DEF HonestInv, Honest, MayReplace, Outdates
<1> QED
  BY <1>1, <1>4, <1>5 DEF HonestInv, Honest, MayReplace, Outdates

LEMMA HonestAfterPull ==
  ASSUME WinnerInv, TimeInv, HonestInv, LaterInv, Pull
  PROVE  HonestInv'
<1>1. /\ TypeOK /\ PhaseInv /\ StampInv /\ WriteInv
      /\ UNCHANGED <<config, at, edits, row>> /\ saved' \in {saved, doc'} /\ phase' = "end"
  BY WriteFrame DEF WinnerInv, TypeInv, Pull
<1>2. CASE UNCHANGED doc
  BY <1>1, <1>2, HonestUntouched
<1>3. CASE pull # None /\ doc' = Pulled(pull)
  <2>1. doc'.val = pull.val /\ doc'.mod = pull.mod
    BY <1>3 DEF Pulled
  <2>2. RowOk(pull) /\ EditedSince(row.val, pull)
    BY <1>1, <1>3 DEF WriteInv, LaterInv
  <2>3. pull \in Copies /\ row \in Copies
    BY <1>1, <1>3, ReadsAreCopies DEF Copies, RowReads
  <2>4. /\ pull.val \in 0..edits /\ row.val \in 0..edits /\ config.buffer \in Nat
        /\ at[pull.val] \in Nat /\ at[row.val] \in Nat
    BY <1>1, <2>3, TimeNumbers
  <2>5. row.val = pull.val \/ (row.val > pull.val /\ Outdates(row.val, pull))
    BY <2>2 DEF RowOk, EditedSince
  <2>6. row.val > pull.val => at[row.val] + config.buffer >= at[pull.val]
    BY <1>1, <2>4 DEF TimeInv
  <2>7. Honest(row, doc.val)'
    BY <1>1, <2>1, <2>5, <2>6 DEF Honest, MayReplace
  <2>8. Honest(doc, row.val)'
    BY <1>1, <2>1, <2>5 DEF Honest, MayReplace, Outdates
  <2>9. Honest(saved, row.val)' /\ Honest(row, saved.val)'
    <3>1. CASE saved' = doc'
      BY <2>7, <2>8, <3>1 DEF Honest, MayReplace, Outdates
    <3>2. CASE saved' = saved
      BY <1>1, <3>2 DEF HonestInv, Honest, MayReplace, Outdates
    <3> QED
      BY <1>1, <3>1, <3>2
  <2> QED
    BY <1>1, <2>7, <2>8, <2>9 DEF HonestInv, Honest, MayReplace, Outdates
<1> QED
  BY <1>2, <1>3 DEF Pull

LEMMA HonestStep ==
  ASSUME WinnerInv, TimeInv, HonestInv, LaterInv, [Next]_vars,
         "late" \notin Breaches, "race" \notin Breaches
  PROVE  HonestInv'
<1>1. TypeInv /\ StampInv
  BY DEF WinnerInv
<1>2. CASE UNCHANGED vars
  BY <1>2, HonestUntouched DEF vars, userVars, sideVars, runVars
<1>3. CASE Tick
  BY <1>3, TickFrame, HonestUntouched
<1>4. CASE Start \/ ReadLookup \/ ReadPartner
  BY <1>4, ReadFrame, HonestUntouched DEF Start, ReadLookup, ReadPartner
<1>5. CASE Decide
  BY <1>5, DecideFrame, HonestUntouched
<1>6. CASE Finish \/ Crash
  BY <1>6, ResetFrame, HonestUntouched DEF Reset, Finish, Crash
<1>7. ASSUME NEW it \in items, ResolutionFails(it) PROVE HonestInv'
  BY <1>7, AcceptFrame, HonestUntouched DEF ResolutionFails, sideVars
<1> QED
  BY <1>1, <1>2, <1>3, <1>4, <1>5, <1>6, <1>7, HonestAfterEdit, HonestAfterAccept, HonestAfterPush,
     HonestAfterLink, HonestAfterPull
  DEF Next, Run

\* What is written is what was read.
LEMMA DecidedReads ==
  ASSUME WinnerInv, Decide
  PROVE  /\ push' # None => push' \in DocReads
         /\ pull' # None => pull' \in RowReads
<1>1. /\ Reading /\ TypeOK /\ knownRow' = IF IsDelta THEN row ELSE opRow
      /\ \/ push' = None /\ pull' = None
         \/ \E d \in DocReads, r \in RowReads : DecidePair(d, r)
         \/ DecideAlone
  BY Decisions DEF WinnerInv, TypeInv
<1>2. CASE \E d \in DocReads, r \in RowReads : DecidePair(d, r)
  BY <1>2 DEF DecidePair
<1>3. CASE DecideAlone
  BY <1>3 DEF DecideAlone, DocReads, RowReads
<1> QED
  BY <1>1, <1>2, <1>3

LEMMA LaterKept ==
  ASSUME LaterInv, UNCHANGED <<config, at, before>>,
         Reading' => /\ Reading /\ doc' = doc /\ row' = row
                     /\ DocReads' \subseteq DocReads /\ RowReads' \subseteq RowReads,
         push' # None => doc'.val = doc.val /\ (push' = push \/ (Reading /\ push' \in DocReads)),
         pull' # None => row'.val = row.val /\ (pull' = pull \/ (Reading /\ pull' \in RowReads))
  PROVE  LaterInv'
<1>1. ASSUME NEW v, NEW x, EditedSince(v, x) PROVE EditedSince(v, x)'
  BY <1>1 DEF EditedSince, Outdates, New
<1>2. ASSUME Reading' PROVE /\ \A x \in DocReads' : EditedSince(doc.val, x)'
                            /\ \A y \in RowReads' : EditedSince(row.val, y)'
  <2>1. /\ \A x \in DocReads : EditedSince(doc.val, x)
        /\ \A y \in RowReads : EditedSince(row.val, y)
    BY <1>2 DEF LaterInv
  <2> QED
    BY <1>2, <2>1 DEF EditedSince, Outdates, New
<1>3. push' # None => EditedSince(doc.val, push)'
  BY DEF LaterInv, EditedSince, Outdates, New
<1>4. pull' # None => EditedSince(row.val, pull)'
  BY DEF LaterInv, EditedSince, Outdates, New
<1> QED
  BY <1>2, <1>3, <1>4 DEF LaterInv

\* Neither value is new.
LEMMA LaterIfOld ==
  ASSUME ~New(doc.val)', ~New(row.val)'
  PROVE  LaterInv'
BY DEF LaterInv, EditedSince, New

LEMMA LaterAfterEdit ==
  ASSUME TypeInv, StampInv, TimeInv, LaterInv, "race" \notin Breaches, EditDoc \/ EditRow
  PROVE  LaterInv'
<1>1. TypeOK
  BY DEF TypeInv
<1> PICK n : n = edits + 1
  OBVIOUS
<1>2. /\ UNCHANGED <<config, before, phase, opDoc, knownDoc, opRow, knownRow, push, pull>>
      /\ \A e \in 0..edits : at'[e] = at[e]
      /\ \A e \in 0..edits : n > e
      /\ \A x \in Copies : x.val \in 0..edits /\ Outdates(n, x)'
  BY <1>1, AfterEdit
<1>3. Reading' <=> Reading
  BY <1>2 DEF Reading
<1>4. ASSUME NEW x \in Copies PROVE n > x.val /\ (x.mod = at'[x.val] \/ at'[n] > x.mod + config'.buffer)
  BY <1>2 DEF Outdates
<1>5. ASSUME NEW x \in Copies, NEW v \in 0..edits, EditedSince(v, x)
      PROVE  v > before' /\ v # x.val =>
               v > x.val /\ (x.mod = at'[x.val] \/ at'[v] > x.mod + config'.buffer)
  BY <1>2, <1>5 DEF EditedSince, New, Outdates
<1>6. /\ DocReads \subseteq Copies /\ RowReads \subseteq Copies
      /\ push # None => push \in Copies
      /\ pull # None => pull \in Copies
      /\ doc.val \in 0..edits /\ row.val \in 0..edits
  BY <1>1, <1>2, ReadsAreCopies DEF Copies
<1>7. CASE EditDoc
  <2>1. doc'.val = n /\ row' = row
    BY <1>1, <1>7, EditDocFrame
  <2>2. \A x \in DocReads' : x \in Copies \/ x = doc'
    BY <1>2, <1>6 DEF DocReads
  <2>3. RowReads' = RowReads
    BY <1>2, <2>1 DEF RowReads
  <2>4. ASSUME NEW x, x \in Copies \/ x = doc' PROVE EditedSince(doc.val, x)'
    BY <1>4, <2>1, <2>4 DEF EditedSince, Outdates
  <2>5. ASSUME NEW y \in Copies, EditedSince(row.val, y) PROVE EditedSince(row.val, y)'
    BY <1>5, <1>6, <2>1, <2>5 DEF EditedSince, Outdates, New
  <2>6. push' # None => EditedSince(doc.val, push)'
    BY <1>2, <1>6, <2>4 DEF EditedSince, Outdates
  <2>7. pull' # None => EditedSince(row.val, pull)'
    BY <1>2, <1>6, <2>5 DEF LaterInv, EditedSince, Outdates, New
  <2>8. Reading' => /\ \A x \in DocReads' : EditedSince(doc.val, x)'
                    /\ \A y \in RowReads' : EditedSince(row.val, y)'
    BY <1>3, <1>6, <2>2, <2>3, <2>4, <2>5 DEF LaterInv
  <2> QED
    BY <2>6, <2>7, <2>8 DEF LaterInv
<1>8. CASE EditRow
  <2>1. row'.val = n /\ doc' = doc
    BY <1>1, <1>8, EditRowFrame
  <2>2. \A y \in RowReads' : y \in Copies \/ y = row'
    BY <1>2, <1>6 DEF RowReads
  <2>3. DocReads' = DocReads
    BY <1>2, <2>1 DEF DocReads
  <2>4. ASSUME NEW y, y \in Copies \/ y = row' PROVE EditedSince(row.val, y)'
    BY <1>4, <2>1, <2>4 DEF EditedSince, Outdates
  <2>5. ASSUME NEW x \in Copies, EditedSince(doc.val, x) PROVE EditedSince(doc.val, x)'
    BY <1>5, <1>6, <2>1, <2>5 DEF EditedSince, Outdates, New
  <2>6. push' # None => EditedSince(doc.val, push)'
    BY <1>2, <1>6, <2>5 DEF LaterInv, EditedSince, Outdates, New
  <2>7. pull' # None => EditedSince(row.val, pull)'
    BY <1>2, <1>6, <2>4 DEF EditedSince, Outdates
  <2>8. Reading' => /\ \A x \in DocReads' : EditedSince(doc.val, x)'
                    /\ \A y \in RowReads' : EditedSince(row.val, y)'
    BY <1>3, <1>6, <2>2, <2>3, <2>4, <2>5 DEF LaterInv
  <2> QED
    BY <2>6, <2>7, <2>8 DEF LaterInv
<1> QED
  BY <1>7, <1>8

\* While something is read or to be written, items are older than the run, and one
\* that is accepted brings back nothing new.
LEMMA AcceptIsOld ==
  ASSUME WinnerInv, "late" \notin Breaches, NEW it \in items, AcceptRow(it) \/ AcceptDoc(it),
         Reading \/ push # None \/ pull # None
  PROVE  ~New(doc.val)' /\ ~New(row.val)' /\ ~New(doc.val) /\ ~New(row.val)
<1>1. TypeInv /\ TypeOK /\ PhaseInv /\ StampInv /\ ItemInv /\ WriteInv
  BY DEF WinnerInv, TypeInv
<1>2. outcome = "Success" /\ phase # "idle"
  BY <1>1 DEF PhaseInv, Reading, WriteInv
<1>3. /\ doc = it.doc /\ row = it.row /\ doc'.val = row'.val /\ row'.val \in {row.val, doc.val}
      /\ before' = before
  BY <1>1, AcceptSettles, AcceptFrame
<1>4. doc.val <= before /\ row.val <= before
  BY <1>1, <1>2, <1>3 DEF StampInv
<1>5. doc.val \in Nat /\ row.val \in Nat /\ before \in Nat
  BY <1>1, Numbers
<1> QED
  BY <1>3, <1>4, <1>5 DEF New

LEMMA LaterStep ==
  ASSUME WinnerInv, TimeInv, LaterInv, [Next]_vars,
         "late" \notin Breaches, "race" \notin Breaches
  PROVE  LaterInv'
<1>1. TypeInv /\ TypeOK /\ PhaseInv /\ StampInv /\ WriteInv
  BY DEF WinnerInv, TypeInv
<1>2. CASE UNCHANGED vars
  BY <1>2, LaterKept DEF vars, userVars, sideVars, runVars, readVars, Reading, DocReads, RowReads
<1>3. CASE Tick
  BY <1>3, TickFrame, LaterKept DEF Reading, DocReads, RowReads
<1>4. CASE Start
  <2>1. doc' = doc /\ row' = row /\ before' = edits
    BY <1>4, ReadFrame DEF Start
  <2>2. doc.val <= edits /\ row.val <= edits /\ doc.val \in Nat /\ row.val \in Nat /\ edits \in Nat
    BY <1>1, Numbers, ReadsAreCopies DEF StampInv, Stamped
  <2> QED
    BY <2>1, <2>2, LaterIfOld DEF New
<1>5. CASE ReadLookup \/ ReadPartner
  <2>1. UNCHANGED <<config, at, before, doc, row, push, pull>> /\ Reading
    BY <1>5, ReadFrame DEF ReadLookup, ReadPartner, Reading
  <2>2. DocReads' \subseteq DocReads /\ RowReads' \subseteq RowReads
    BY <1>1, <1>5, <2>1, RecordNumbers
    DEF ReadLookup, ReadPartner, DocReads, RowReads, Listed, TypeOK
  <2> QED
    BY <2>1, <2>2, LaterKept
<1>6. CASE Decide
  <2>1. UNCHANGED <<config, at, before, doc, row>> /\ Reading /\ ~Reading'
    BY <1>6, DecideFrame DEF Reading
  <2> QED
    BY <1>6, <2>1, DecidedReads, LaterKept
<1>7. CASE Push
  <2>1. /\ UNCHANGED <<config, at, before, doc, pull>> /\ phase = "push" /\ ~Reading'
        /\ push' \in {push, None}
    BY <1>7, WriteFrame DEF Push, Reading
  <2>2. pull # None => row' = row
    BY <1>1, <1>7, <2>1 DEF WriteInv, Push
  <2> QED
    BY <2>1, <2>2, LaterKept
<1>8. CASE Link
  <2>1. UNCHANGED <<config, at, before, row, pull>> /\ ~Reading' /\ push' = None
    BY <1>8, WriteFrame DEF Link, Reading
  <2> QED
    BY <2>1, LaterKept
<1>9. CASE Pull
  <2>1. UNCHANGED <<config, at, before, push>> /\ ~Reading' /\ push = None /\ pull' = None
    BY <1>1, <1>9, WriteFrame DEF Pull, Reading, PhaseInv
  <2> QED
    BY <2>1, LaterKept
<1>10. CASE Finish \/ Crash
  <2>1. push' = None /\ pull' = None /\ ~Reading'
    BY <1>10, ResetFrame DEF Reset, Reading
  <2> QED
    BY <2>1 DEF LaterInv
<1>11. ASSUME NEW it \in items, AcceptRow(it) \/ AcceptDoc(it) PROVE LaterInv'
  <2>1. UNCHANGED <<phase, push, pull>>
    BY <1>11, AcceptFrame
  <2>2. CASE Reading \/ push # None \/ pull # None
    BY <1>11, <2>2, AcceptIsOld, LaterIfOld
  <2>3. CASE ~(Reading \/ push # None \/ pull # None)
    BY <2>1, <2>3 DEF LaterInv, Reading
  <2> QED
    BY <2>2, <2>3
<1>12. ASSUME NEW it \in items, ResolutionFails(it) PROVE LaterInv'
  <2>1. UNCHANGED <<config, at, before, doc, row, push, pull, phase, opDoc, knownDoc, opRow, knownRow>>
    BY <1>12, AcceptFrame DEF ResolutionFails, sideVars
  <2> QED
    BY <2>1, LaterKept DEF Reading, DocReads, RowReads
<1> QED
  BY <1>1, <1>2, <1>3, <1>4, <1>5, <1>6, <1>7, <1>8, <1>9, <1>10, <1>11, <1>12, LaterAfterEdit
  DEF Next, Run

\* The winner's stamp is not older by more than the buffer.
LEMMA WinnerGap ==
  ASSUME TypeOK, NEW d \in Doc, NEW r \in Row
  PROVE  /\ Winner(d, r) = "frappe" => r.mod <= d.mod + config.buffer
         /\ Winner(d, r) = "partner" => d.mod <= r.mod + config.buffer
<1>1. /\ d.mod \in Nat /\ r.mod \in Nat /\ config.buffer \in Nat
      /\ baseline # None => baseline \in Nat
      /\ config.tie \in {"manual", "frappe_wins", "partner_wins"}
  BY Numbers, ConfigFields
<1>2. CASE ChangedSince(d) # ChangedSince(r)
  BY <1>1, <1>2 DEF Winner, ChangedSince
<1>3. CASE ChangedSince(d) = ChangedSince(r)
  BY <1>1, <1>3 DEF Winner, Compare
<1> QED
  BY <1>2, <1>3

\* So the winner may replace the other side, if both are honest.
LEMMA WinnerIsFair ==
  ASSUME TypeOK, StampInv, TimeInv, NEW d \in Doc, NEW r \in Row, d \in Copies, r \in Copies,
         Honest(d, r.val), Honest(r, d.val)
  PROVE  /\ Winner(d, r) = "frappe" => MayReplace(d.val, r.val)
         /\ Winner(d, r) = "partner" => MayReplace(r.val, d.val)
<1>1. /\ d.mod \in Nat /\ r.mod \in Nat /\ config.buffer \in Nat
      /\ at[d.val] \in Nat /\ at[r.val] \in Nat
  BY TimeNumbers
<1>2. at[d.val] <= d.mod /\ at[r.val] <= r.mod
  BY <1>1 DEF TimeInv, TrueStamp
<1>3. /\ Winner(d, r) = "frappe" => r.mod <= d.mod + config.buffer
      /\ Winner(d, r) = "partner" => d.mod <= r.mod + config.buffer
  BY WinnerGap
<1> HIDE DEF Winner
<1> QED
  BY <1>1, <1>2, <1>3 DEF Honest, MayReplace, Outdates

LEMMA FairKept ==
  ASSUME FairInv, UNCHANGED <<config, at, before, baseline>>,
         Reading' => /\ Reading /\ doc' = doc /\ row' = row
                     /\ DocReads' \subseteq DocReads /\ RowReads' \subseteq RowReads,
         phase' = "rows" => phase = "rows" /\ opDoc' = opDoc /\ opRow' = opRow,
         phase' = "push" /\ push' # None => phase = "push" /\ push' = push /\ row'.val = row.val,
         pull' # None => pull' = pull /\ doc'.val = doc.val
  PROVE  FairInv'
<1>1. ASSUME config'.update, Reading'
      PROVE  /\ \A x \in DocReads', y \in RowReads' :
                  /\ Winner(x, y)' = "frappe" => PushFair(x)'
                  /\ Winner(x, y)' = "partner" => PullFair(y)'
             /\ phase' = "rows" /\ opRow' = None /\ opDoc' # None => PushFair(opDoc)'
             /\ phase' = "rows" /\ opDoc' = None /\ opRow' # None => PullFair(opRow)'
  <2>1. /\ \A x \in DocReads, y \in RowReads :
             /\ Winner(x, y) = "frappe" => PushFair(x)
             /\ Winner(x, y) = "partner" => PullFair(y)
        /\ phase = "rows" /\ opRow = None /\ opDoc # None => PushFair(opDoc)
        /\ phase = "rows" /\ opDoc = None /\ opRow # None => PullFair(opRow)
    BY <1>1 DEF FairInv
  <2>2. ASSUME NEW x, NEW y PROVE Winner(x, y)' = Winner(x, y)
    BY WinnerKept
  <2> QED
    BY <1>1, <2>1, <2>2 DEF PushFair, PullFair, MayReplace, New
<1>2. phase' = "push" /\ push' # None => PushFair(push)'
  BY DEF FairInv, PushFair, MayReplace, New
<1>3. pull' # None => PullFair(pull)'
  BY DEF FairInv, PullFair, MayReplace, New
<1> QED
  BY <1>1, <1>2, <1>3 DEF FairInv

LEMMA FairAfterStart ==
  ASSUME TypeInv, StampInv, TimeInv, HonestInv, Start
  PROVE  FairInv'
<1>1. TypeOK /\ PhaseInv /\ doc \in Doc /\ row \in Row /\ doc \in Copies /\ row \in Copies
  BY ReadsAreCopies DEF TypeInv, TypeOK
<1>2. /\ UNCHANGED <<config, at, doc, row, baseline, opRow, knownRow, push, pull>>
      /\ phase = "idle" /\ phase' = "lookup"
      /\ opDoc' = Listed(doc) /\ knownDoc' \in {None, opDoc'}
  BY ReadFrame DEF Start
<1>3. opRow = None /\ knownRow = None /\ push = None /\ pull = None
  BY <1>1, <1>2 DEF PhaseInv
<1>4. /\ \A x \in DocReads' : x = doc
      /\ \A y \in RowReads' : y = row
  BY <1>2, <1>3 DEF DocReads, RowReads, Listed
<1>5. Winner(doc, row) = "frappe" => MayReplace(doc.val, row.val)
  BY <1>1, WinnerIsFair DEF HonestInv
<1>6. Winner(doc, row) = "partner" => MayReplace(row.val, doc.val)
  BY <1>1, WinnerIsFair DEF HonestInv
<1>7. ASSUME NEW x \in DocReads', NEW y \in RowReads'
      PROVE  /\ Winner(x, y)' = "frappe" => PushFair(x)'
             /\ Winner(x, y)' = "partner" => PullFair(y)'
  <2>1. x = doc /\ y = row
    BY <1>4
  <2>2. Winner(x, y)' = Winner(x, y)
    BY <1>2, WinnerKept
  <2> QED
    BY <1>2, <1>5, <1>6, <2>1, <2>2 DEF PushFair, PullFair, MayReplace
<1> QED
  BY <1>2, <1>3, <1>7 DEF FairInv

\* A side that is not listed is older than one that is.
LEMMA FairAfterPartner ==
  ASSUME WinnerInv, TimeInv, FairInv, ReadPartner
  PROVE  FairInv'
<1>1. TypeInv /\ TypeOK /\ PhaseInv /\ StampInv /\ ReadInv /\ doc \in Doc /\ row \in Row /\ row # None
  BY RecordNumbers DEF WinnerInv, TypeInv, TypeOK
<1>2. /\ UNCHANGED <<config, at, doc, row, baseline, before, opDoc, knownDoc, push, pull>>
      /\ phase = "partner" /\ phase' = "rows" /\ opRow' = Listed(row) /\ knownRow' \in {None, opRow'}
  BY ReadFrame DEF ReadPartner
<1>3. Reading /\ push = None /\ pull = None /\ (~IsDelta => opDoc # None)
  BY <1>1, <1>2 DEF Reading, PhaseInv
<1> SUFFICES ASSUME config.update PROVE FairInv'
  BY <1>2, <1>3 DEF FairInv
<1>4. \A x \in DocReads, y \in RowReads :
        /\ Winner(x, y) = "frappe" => PushFair(x)
        /\ Winner(x, y) = "partner" => PullFair(y)
  BY <1>3 DEF FairInv
<1>5. /\ opRow' = row \/ (opRow' = None /\ IsDelta /\ ~ChangedSince(row))
      /\ IsDelta /\ opRow' = row => ChangedSince(row)
  BY <1>1, <1>2 DEF Listed
<1>6. /\ row.mod \in Nat /\ doc.mod \in Nat
      /\ (baseline # None => baseline \in Nat) /\ (IsDelta => baseline # None)
      /\ row \in RowReads /\ doc \in DocReads
      /\ opDoc # None => opDoc \in DocReads /\ opDoc \in Doc
  BY <1>1, Numbers, ReadsAreCopies DEF IsDelta, DocReads, TypeOK
<1>7. /\ IsDelta /\ opDoc # None => opDoc.mod >= baseline
      /\ IsDelta /\ opDoc = None => Rested \/ Older(doc)
  BY <1>1, <1>3 DEF ReadInv
<1>8. ASSUME NEW x \in DocReads', NEW y \in RowReads'
      PROVE  /\ Winner(x, y)' = "frappe" => PushFair(x)'
             /\ Winner(x, y)' = "partner" => PullFair(y)'
  <2>1. x \in DocReads /\ y \in RowReads
    BY <1>1, <1>2, <1>5 DEF DocReads, RowReads
  <2>2. Winner(x, y)' = Winner(x, y)
    BY <1>2, WinnerKept
  <2> QED
    BY <1>2, <1>4, <2>1, <2>2 DEF PushFair, PullFair, MayReplace, New
<1>9. ASSUME opRow' = None, opDoc # None PROVE PushFair(opDoc)
  <2>1. ChangedSince(opDoc) /\ ~ChangedSince(row)
    BY <1>1, <1>5, <1>7, <1>9 DEF ChangedSince
  <2>2. Winner(opDoc, row) = "frappe"
    BY <1>1, <1>6, <1>9, <2>1, WinnerFacts
  <2> QED
    BY <1>4, <1>6, <1>9, <2>2
<1>10. ASSUME opRow' # None, opDoc = None PROVE PullFair(row)
  <2>1. IsDelta /\ opRow' = row /\ ChangedSince(row) /\ (Rested \/ Older(doc))
    BY <1>3, <1>5, <1>7, <1>10
  <2>2. CASE Older(doc)
    <3>1. ~ChangedSince(doc)
      BY <1>6, <2>2 DEF Older, ChangedSince
    <3>2. Winner(doc, row) = "partner"
      BY <1>1, <2>1, <3>1, WinnerFacts
    <3> QED
      BY <1>4, <1>6, <3>2
  <2>3. CASE New(doc.val) \/ doc.val = row.val
    BY <2>3 DEF PullFair, MayReplace
  <2>4. CASE New(row.val) /\ ~New(doc.val)
    <3>1. doc \in Copies /\ row \in Copies
      BY <1>1, ReadsAreCopies
    <3>2. /\ doc.val \in 0..edits /\ row.val \in 0..edits /\ config.buffer \in Nat /\ before \in Nat
          /\ at[doc.val] \in Nat /\ at[row.val] \in Nat
      BY <1>1, <3>1, TimeNumbers, Numbers
    <3>3. doc.val <= row.val
      BY <2>4, <3>2 DEF New
    <3>4. at[row.val] + config.buffer >= at[doc.val]
      BY <3>2, <3>3 DEF TimeInv
    <3> QED
      BY <3>4 DEF PullFair, MayReplace
  <2> QED
    BY <2>1, <2>2, <2>3, <2>4 DEF Rested
<1>11. opRow' = None /\ opDoc' # None => PushFair(opDoc)'
  BY <1>2, <1>9 DEF PushFair, MayReplace, New
<1>12. opDoc' = None /\ opRow' # None => PullFair(opRow)'
  BY <1>2, <1>5, <1>10 DEF PullFair, MayReplace, New
<1> QED
  BY <1>2, <1>3, <1>8, <1>11, <1>12 DEF FairInv

LEMMA FairAfterDecide ==
  ASSUME WinnerInv, FairInv, Decide
  PROVE  FairInv'
<1>1. /\ TypeOK /\ UNCHANGED <<config, at, before, doc, row>> /\ phase' = "push" /\ phase = "rows"
      /\ Reading /\ ~Reading' /\ outcome = "Success"
  BY Decisions, DecideFrame DEF WinnerInv, TypeInv, Reading
<1>2. /\ push' # None => PushFair(push')
      /\ pull' # None => PullFair(pull')
  <2>1. CASE push' = None /\ pull' = None
    BY <2>1
  <2>2. ASSUME NEW d \in DocReads, NEW r \in RowReads, DecidePair(d, r)
        PROVE  /\ push' # None => PushFair(push')
               /\ pull' # None => PullFair(pull')
    <3>1. /\ push' # None => push' = d /\ config.update /\ Winner(d, r) = "frappe"
          /\ pull' # None => pull' = r /\ config.update /\ Winner(d, r) = "partner"
      BY <2>2 DEF DecidePair
    <3> QED
      BY <1>1, <3>1 DEF FairInv
  <2>3. CASE (opDoc # None \/ opRow # None) /\ (opDoc = None \/ opRow = None) /\ DecideAlone
    <3>1. /\ push' # None => push' = opDoc /\ opDoc # None /\ config.update
          /\ pull' # None => pull' = opRow /\ opRow # None /\ config.update
      BY <2>3 DEF DecideAlone
    <3> QED
      BY <1>1, <2>3, <3>1 DEF FairInv
  <2> QED
    BY <2>1, <2>2, <2>3, Decisions
<1> QED
  BY <1>1, <1>2 DEF FairInv, PushFair, PullFair, MayReplace, New

LEMMA FairAfterEdit ==
  ASSUME WinnerInv, TimeInv, FairInv, "race" \notin Breaches, EditDoc \/ EditRow
  PROVE  FairInv'
<1>1. TypeOK /\ StampInv
  BY DEF WinnerInv, TypeInv
<1> PICK n : n = edits + 1
  OBVIOUS
<1>2. /\ UNCHANGED <<config, baseline, before, phase, opDoc, knownDoc, opRow, knownRow, push, pull>>
      /\ \A e \in 0..edits : at'[e] = at[e]
      /\ \A e \in 0..edits : MayReplace(n, e)'
      /\ \A x \in Copies : x.val \in 0..edits
      /\ New(n)'
  BY <1>1, AfterEdit
<1>3. Reading' <=> Reading
  BY <1>2 DEF Reading
<1>4. /\ DocReads \subseteq Copies /\ RowReads \subseteq Copies /\ doc \in Copies /\ row \in Copies
      /\ push # None => push \in Copies
      /\ pull # None => pull \in Copies
      /\ opDoc # None => opDoc \in DocReads
      /\ opRow # None => opRow \in RowReads
  BY <1>1, ReadsAreCopies DEF Copies, DocReads, RowReads
<1>5. ASSUME NEW v \in 0..edits, NEW w \in 0..edits
      PROVE  v = w \/ at[v] + config.buffer >= at[w] <=> v = w \/ at'[v] + config'.buffer >= at'[w]
  BY <1>2
<1>6. ASSUME NEW x, NEW y PROVE Winner(x, y)' = Winner(x, y)
  BY <1>2, WinnerKept
<1>7. config.update /\ Reading =>
        /\ \A x \in DocReads, y \in RowReads :
             /\ Winner(x, y) = "frappe" => PushFair(x)
             /\ Winner(x, y) = "partner" => PullFair(y)
        /\ phase = "rows" /\ opRow = None /\ opDoc # None => PushFair(opDoc)
        /\ phase = "rows" /\ opDoc = None /\ opRow # None => PullFair(opRow)
  BY DEF FairInv
<1>8. CASE EditDoc
  <2>1. doc'.val = n /\ row' = row
    BY <1>1, <1>8, EditDocFrame
  <2>2. ASSUME NEW y PROVE PullFair(y)'
    BY <1>2, <2>1 DEF PullFair, New
  <2>3. ASSUME NEW x \in Copies, PushFair(x) PROVE PushFair(x)'
    BY <1>2, <1>4, <1>5, <2>1, <2>3 DEF PushFair, MayReplace, New
  <2>4. ASSUME NEW x, x = doc' PROVE PushFair(x)'
    BY <1>2, <1>4, <2>1, <2>4 DEF PushFair, MayReplace
  <2>5. ASSUME config'.update, Reading', NEW x \in DocReads', NEW y \in RowReads', Winner(x, y)' = "frappe"
        PROVE  PushFair(x)'
    <3>1. (x = doc' \/ x \in DocReads) /\ y \in RowReads
      BY <1>2, <2>1 DEF DocReads, RowReads
    <3>2. x \in DocReads => PushFair(x)
      BY <1>2, <1>3, <1>6, <1>7, <2>5, <3>1
    <3> QED
      BY <1>4, <2>3, <2>4, <3>1, <3>2
  <2>6. config'.update /\ Reading' /\ phase' = "rows" /\ opRow' = None /\ opDoc' # None => PushFair(opDoc)'
    <3>1. config'.update /\ Reading' /\ phase' = "rows" /\ opRow' = None /\ opDoc' # None => PushFair(opDoc)
      BY <1>2, <1>3, <1>7
    <3> QED
      BY <1>2, <1>4, <2>3, <3>1 DEF PushFair, MayReplace, New
  <2>7. phase' = "push" /\ push' # None => PushFair(push)'
    BY <1>2, <1>4, <2>3 DEF FairInv, PushFair, MayReplace, New
  <2>8. PullFair(opRow)' /\ PullFair(pull)'
    BY <1>2, <2>1 DEF PullFair, New
  <2> QED
    BY <2>2, <2>5, <2>6, <2>7, <2>8 DEF FairInv
<1>9. CASE EditRow
  <2>1. row'.val = n /\ doc' = doc
    BY <1>1, <1>9, EditRowFrame
  <2>2. ASSUME NEW x PROVE PushFair(x)'
    BY <1>2, <2>1 DEF PushFair, New
  <2>3. ASSUME NEW y \in Copies, PullFair(y) PROVE PullFair(y)'
    BY <1>2, <1>4, <1>5, <2>1, <2>3 DEF PullFair, MayReplace, New
  <2>4. ASSUME NEW y, y = row' PROVE PullFair(y)'
    BY <1>2, <1>4, <2>1, <2>4 DEF PullFair, MayReplace
  <2>5. ASSUME config'.update, Reading', NEW x \in DocReads', NEW y \in RowReads', Winner(x, y)' = "partner"
        PROVE  PullFair(y)'
    <3>1. (y = row' \/ y \in RowReads) /\ x \in DocReads
      BY <1>2, <2>1 DEF DocReads, RowReads
    <3>2. y \in RowReads => PullFair(y)
      BY <1>2, <1>3, <1>6, <1>7, <2>5, <3>1
    <3> QED
      BY <1>4, <2>3, <2>4, <3>1, <3>2
  <2>6. config'.update /\ Reading' /\ phase' = "rows" /\ opDoc' = None /\ opRow' # None => PullFair(opRow)'
    <3>1. config'.update /\ Reading' /\ phase' = "rows" /\ opDoc' = None /\ opRow' # None => PullFair(opRow)
      BY <1>2, <1>3, <1>7
    <3> QED
      BY <1>2, <1>4, <2>3, <3>1 DEF PullFair, MayReplace, New
  <2>7. pull' # None => PullFair(pull)'
    BY <1>2, <1>4, <2>3 DEF FairInv, PullFair, MayReplace, New
  <2>8. PushFair(opDoc)' /\ PushFair(push)'
    BY <1>2, <2>1 DEF PushFair, New
  <2> QED
    BY <2>2, <2>5, <2>6, <2>7, <2>8 DEF FairInv
<1> QED
  BY <1>8, <1>9

\* After a resolution the sides are equal, and what is to be written is one of them.
LEMMA FairAfterAccept ==
  ASSUME WinnerInv, FairInv, "late" \notin Breaches, NEW it \in items, AcceptRow(it) \/ AcceptDoc(it)
  PROVE  FairInv'
<1>1. ReadInv' /\ WriteInv'
  BY WinnerStep DEF WinnerInv, Next
<1>2. doc'.val = row'.val
  BY AcceptSettles DEF WinnerInv
<1>3. ASSUME NEW x, DocOk(x)' PROVE PushFair(x)'
  BY <1>2, <1>3 DEF DocOk, PushFair, MayReplace, New
<1>4. ASSUME NEW y, RowOk(y)' PROVE PullFair(y)'
  BY <1>2, <1>4 DEF RowOk, PullFair, MayReplace, New
<1>5. ASSUME config'.update, Reading'
      PROVE  /\ \A x \in DocReads', y \in RowReads' :
                  /\ Winner(x, y)' = "frappe" => PushFair(x)'
                  /\ Winner(x, y)' = "partner" => PullFair(y)'
             /\ phase' = "rows" /\ opRow' = None /\ opDoc' # None => PushFair(opDoc)'
             /\ phase' = "rows" /\ opDoc' = None /\ opRow' # None => PullFair(opRow)'
  <2>1. /\ \A x \in DocReads', y \in RowReads' : NotLost(x, y)'
        /\ phase' = "rows" =>
             /\ opRow' = None /\ opDoc' # None => DocOk(opDoc)'
             /\ opDoc' = None /\ opRow' # None => RowOk(opRow)'
    BY <1>1, <1>5 DEF ReadInv
  <2>2. \A x \in DocReads', y \in RowReads' :
          /\ Winner(x, y)' = "frappe" => DocOk(x)'
          /\ Winner(x, y)' = "partner" => RowOk(y)'
    BY <2>1 DEF NotLost
  <2>3. phase' = "rows" /\ opRow' = None /\ opDoc' # None => PushFair(opDoc)'
    BY <1>2, <2>1 DEF DocOk, PushFair, MayReplace, New
  <2>4. phase' = "rows" /\ opDoc' = None /\ opRow' # None => PullFair(opRow)'
    BY <1>2, <2>1 DEF RowOk, PullFair, MayReplace, New
  <2> QED
    BY <1>3, <1>4, <2>2, <2>3, <2>4
<1>6. phase' = "push" /\ push' # None => PushFair(push)'
  BY <1>1, <1>2 DEF WriteInv, DocOk, PushFair, MayReplace, New
<1>7. pull' # None => PullFair(pull)'
  BY <1>1, <1>2 DEF WriteInv, RowOk, PullFair, MayReplace, New
<1> QED
  BY <1>5, <1>6, <1>7 DEF FairInv

LEMMA FairStep ==
  ASSUME WinnerInv, TimeInv, HonestInv, FairInv, [Next]_vars,
         "late" \notin Breaches, "race" \notin Breaches
  PROVE  FairInv'
<1>1. TypeInv /\ TypeOK /\ PhaseInv /\ StampInv /\ WriteInv
  BY DEF WinnerInv, TypeInv
<1>2. CASE UNCHANGED vars
  BY <1>2, FairKept DEF vars, userVars, sideVars, runVars, readVars, Reading, DocReads, RowReads
<1>3. CASE Tick
  BY <1>3, TickFrame, FairKept DEF Reading, DocReads, RowReads
<1>4. CASE ReadLookup
  <2>1. /\ UNCHANGED <<config, at, before, baseline, doc, row, push, pull, opDoc, opRow, knownRow>>
        /\ phase = "lookup" /\ phase' = "partner" /\ knownDoc' \in {doc, knownDoc}
    BY <1>4, ReadFrame DEF ReadLookup
  <2>2. DocReads' \subseteq DocReads /\ RowReads' \subseteq RowReads
    BY <1>1, <2>1, RecordNumbers DEF DocReads, RowReads, TypeOK
  <2>3. Reading /\ push = None /\ pull = None
    BY <1>1, <2>1 DEF PhaseInv, Reading
  <2> QED
    BY <2>1, <2>2, <2>3, FairKept
<1>5. CASE Push
  <2>1. /\ UNCHANGED <<config, at, before, baseline, doc, pull>> /\ phase' \notin {"push", "rows"} /\ ~Reading'
    BY <1>5, WriteFrame DEF Push, Reading
  <2> QED
    BY <2>1, FairKept
<1>6. CASE Link
  <2>1. /\ UNCHANGED <<config, at, before, baseline, row, pull>> /\ ~Reading' /\ phase' = "pull"
        /\ doc' = doc \/ doc' = [doc EXCEPT !.linked = TRUE, !.mod = clock]
    BY <1>6, WriteFrame DEF Link, Reading
  <2>2. doc'.val = doc.val
    BY <1>1, <2>1 DEF TypeOK, Doc
  <2> QED
    BY <2>1, <2>2, FairKept
<1>7. CASE Pull
  <2>1. UNCHANGED <<config, at, before, baseline>> /\ ~Reading' /\ phase' = "end" /\ pull' = None
    BY <1>7, WriteFrame DEF Pull, Reading
  <2> QED
    BY <2>1, FairKept
<1>8. CASE Finish \/ Crash
  <2>1. push' = None /\ pull' = None /\ ~Reading' /\ phase' = "idle"
    BY <1>8, ResetFrame DEF Reset, Reading
  <2> QED
    BY <2>1 DEF FairInv
<1>9. ASSUME NEW it \in items, ResolutionFails(it) PROVE FairInv'
  <2>1. UNCHANGED <<config, at, before, baseline, doc, row, push, pull, phase, opDoc, knownDoc, opRow,
                    knownRow>>
    BY <1>9, AcceptFrame DEF ResolutionFails, sideVars
  <2> QED
    BY <2>1, FairKept DEF Reading, DocReads, RowReads
<1> QED
  BY <1>1, <1>2, <1>3, <1>4, <1>5, <1>6, <1>7, <1>8, <1>9, FairAfterEdit, FairAfterStart,
     FairAfterPartner, FairAfterDecide, FairAfterAccept
  DEF Next, Run

LEMMA NewestInit == Init => NewestInv
<1> SUFFICES ASSUME Init PROVE NewestInv
  OBVIOUS
<1>1. /\ saved = doc /\ doc.val = 0 /\ row.val = 0 /\ phase = "idle" /\ push = None /\ pull = None
  BY DEF Init
<1> QED
  BY <1>1, TimeInit DEF NewestInv, HonestInv, Honest, MayReplace, LaterInv, FairInv, Reading

LEMMA NewestStep ==
  ASSUME "late" \notin Breaches, "race" \notin Breaches
  PROVE  WinnerInv /\ NewestInv /\ [Next]_vars => NewestInv'
BY TimeStep, HonestStep, LaterStep, FairStep DEF NewestInv

\* If documents are linked where tokens are compared, items are resolved only while
\* they are current, and nobody edits in the moment a link is saved, no write of a run
\* replaces a value that was there when it began by one that is older by more than the
\* buffer.
THEOREM NewestStays ==
  ASSUME "adopt" \notin Breaches, "late" \notin Breaches, "race" \notin Breaches
  PROVE  Spec => NewestWins
<1> DEFINE Inv == WinnerInv /\ NewestInv
           Step ==
             /\ (phase = "push" /\ phase' \in {"link", "pull"} /\ row.val <= before) =>
                  (row'.val = row.val \/ at[row'.val] + config.buffer >= at[row.val])
             /\ (phase = "pull" /\ phase' = "end" /\ doc.val <= before) =>
                  (doc'.val = doc.val \/ at[doc'.val] + config.buffer >= at[doc.val])
<1>1. Init => Inv
  BY WinnerInit, NewestInit
<1>2. Inv /\ [Next]_vars => Inv'
  BY WinnerStep, NewestStep
<1>3. Inv /\ [Next]_vars => [Step]_vars
  <2> SUFFICES ASSUME Inv, Next PROVE Step
    OBVIOUS
  <2>1. TypeInv /\ TypeOK /\ FairInv /\ doc \in Doc /\ row \in Row
    BY DEF WinnerInv, TypeInv, NewestInv, TypeOK
  <2>2. doc.val \in Nat /\ row.val \in Nat /\ before \in Nat
    BY <2>1, Numbers
  <2>3. CASE Push
    <3>1. phase = "push" /\ doc' = doc
      BY <2>3 DEF Push
    <3>2. CASE push # None /\ row' = Pushed(push)
      <4>1. row'.val = push.val /\ PushFair(push)
        BY <2>1, <3>1, <3>2 DEF Pushed, FairInv
      <4> QED
        BY <2>2, <3>1, <4>1 DEF PushFair, MayReplace, New
    <3>3. CASE row' = row
      BY <3>1, <3>3
    <3> QED
      BY <2>3, <3>2, <3>3 DEF Push
  <2>4. CASE Pull
    <3>1. phase = "pull" /\ row' = row
      BY <2>4 DEF Pull
    <3>2. CASE pull # None /\ doc' = Pulled(pull)
      <4>1. doc'.val = pull.val /\ PullFair(pull)
        BY <2>1, <3>2 DEF Pulled, FairInv
      <4> QED
        BY <2>2, <3>1, <4>1 DEF PullFair, MayReplace, New
    <3>3. CASE doc' = doc
      BY <3>1, <3>3
    <3> QED
      BY <2>4, <3>2, <3>3 DEF Pull
  <2>5. CASE phase' = phase
    BY <2>5
  <2>6. CASE Start \/ ReadLookup \/ ReadPartner \/ Decide \/ Link \/ Finish
    BY <2>6 DEF Start, ReadLookup, ReadPartner, Decide, Link, Finish
  <2>7. CASE Crash
    BY <2>7, ResetFrame DEF Reset
  <2>8. ASSUME NEW it \in items, AcceptRow(it) \/ AcceptDoc(it) \/ ResolutionFails(it) PROVE Step
    BY <2>5, <2>8, AcceptFrame
  <2> QED
    BY <2>1, <2>3, <2>4, <2>5, <2>6, <2>7, <2>8, TickFrame, EditFrame DEF Next, Run, EditDoc, EditRow
<1>4. Spec => [][Step]_vars
  BY <1>1, <1>2, <1>3, PTL DEF Spec
<1> QED
  BY <1>4 DEF NewestWins

=============================================================================
