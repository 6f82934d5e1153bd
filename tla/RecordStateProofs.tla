------------------------- MODULE RecordStateProofs -------------------------
(***************************************************************************)
(* Proofs about RecordState, for every number of groups, documents, runs,  *)
(* changes of users and crashes.  The argument: during a batch the states  *)
(* of the groups still to be planned are those the batch was loaded with,  *)
(* since groups share no key and only the engine writes states (Cached);   *)
(* documents move on in a few ways only (Follows); and what is committed   *)
(* differs from what the transaction sees by the steps of users alone      *)
(* (Behind).                                                               *)
(***************************************************************************)
EXTENDS RecordState, TLAPS

IsGroup(g) == /\ g.key \in Key /\ g.aliases \subseteq Key /\ g.version \in Version
              /\ g.key \notin g.aliases

Owned(T, d) == \E k \in Key : d \in T.states[k].documents

\* A row without a revision says nothing, a name without a document neither.
Blank(T) ==
  /\ \A k \in Key : T.states[k].revision = 0 => T.states[k] = Unwritten
  /\ \A d \in Document : T.docs[d].status = "free" => T.docs[d] = Absent

AbsorbedOwnNothing(T) ==
  \A k \in Key : T.states[k].alias_of # None => T.states[k].documents = {}

SoleOwner(T) ==
  \A j, k \in Key : \A d \in Document :
    d \in T.states[j].documents /\ d \in T.states[k].documents => j = k

\* A document that has an owner cannot be matched any more: its key has a state.
OwnedKeyed(T) ==
  \A k \in Key : \A d \in Document : d \in T.states[k].documents =>
    /\ T.docs[d].status # "free" /\ T.docs[d].key \in Key
    /\ T.states[T.docs[d].key].revision # 0

InsertedOwned(T) ==
  \A d \in Document : T.docs[d].by = "sync" /\ ~T.docs[d].reversed => Owned(T, d)

TableInv(T) ==
  Blank(T) /\ AbsorbedOwnNothing(T) /\ SoleOwner(T) /\ OwnedKeyed(T) /\ InsertedOwned(T)

\* What may have become of a document since it was seen.
Follows(old, new) ==
  old.status # "free" =>
    /\ new.status # "free" /\ new.key = old.key /\ new.by = old.by
    /\ old.modified <= new.modified
    /\ old.modified = new.modified /\ old.status = "submitted" => new.status = "submitted"

\* The committed tables C and what the transaction makes of them, T.
AliasesKept(C, T) ==
  \A k \in Key : C.states[k].alias_of # None => T.states[k].alias_of = C.states[k].alias_of

ReleasedReversed(C, T) ==
  \A d \in Document : Owned(C, d) /\ ~Owned(T, d) => T.docs[d].reversed

UsersWent(C, T) ==
  \A d \in Document :
    \/ C.docs[d].status = "free"
    \/ /\ Follows(T.docs[d], C.docs[d])
       /\ C.docs[d].reversed => T.docs[d].reversed
       /\ T.docs[d].status = "free" => C.docs[d].by = "user"

Behind(C, T) == AliasesKept(C, T) /\ ReleasedReversed(C, T) /\ UsersWent(C, T)

\* The batch against what the transaction sees.
CachedFor(B, T) ==
  B # {} =>
    /\ \A g \in B : \A k \in Keys(g) : T.states[k] = cache.states[k]
    /\ \A d \in Document : Follows(cache.docs[d], T.docs[d])

\* The bounds: a run writes the state of a key once.
Counted(T) ==
  /\ \A d \in Document : T.docs[d].modified <= outside
  /\ \A k \in Key :
       /\ T.states[k].revision <= runs
       /\ phase \in {"read", "verify"} => T.states[k].revision < runs
       /\ \A g \in todo \cup batch : k \in Keys(g) => T.states[k].revision < runs

Quiet == phase # "batches" => todo = {} /\ batch = {}

Inv ==
  /\ TypeOK /\ Quiet
  /\ TableInv(Committed) /\ TableInv(Seen)
  /\ Behind(Committed, Seen) /\ CachedFor(batch, Seen)
  /\ Counted(Committed) /\ Counted(Seen)

-----------------------------------------------------------------------------
\* What a source script emits are groups that share no key.
LEMMA EmittedGroups ==
  ASSUME NEW R \in Emitted
  PROVE  /\ \A g \in R : IsGroup(g)
         /\ \A g, h \in R : g # h => Keys(g) \cap Keys(h) = {}
<1>1. PICK of \in {f \in [Key -> Key \cup {None}] : \A k \in Key : f[k] # None => f[f[k]] = f[k]},
           says \in [Key -> Version] :
        R = {[key |-> k, aliases |-> {a \in Key \ {k} : of[a] = k}, version |-> says[k]] :
               k \in {h \in Key : of[h] = h}}
  BY DEF Emitted
<1> DEFINE Group(k) ==
             [key |-> k, aliases |-> {a \in Key \ {k} : of[a] = k}, version |-> says[k]]
<1>2. \A g \in R : g.key \in Key /\ of[g.key] = g.key /\ g = Group(g.key)
  BY <1>1
<1>3. \A g \in R : IsGroup(g)
  BY <1>1, <1>2 DEF IsGroup
<1>4. \A g \in R : \A k \in Keys(g) : of[k] = g.key
  BY <1>2 DEF Keys
<1>5. \A g, h \in R : g.key = h.key => g = h
  <2> HIDE DEF Group
  <2>1. QED
    BY <1>2
<1>6. QED
  BY <1>3, <1>4, <1>5

\* A source without records.
LEMMA NothingEmitted == {} \in Emitted
<1>1. PICK v : v \in Version
  BY VersionAssumption
<1> DEFINE of == [k \in Key |-> None]
           says == [k \in Key |-> v]
<1>2. /\ of \in {f \in [Key -> Key \cup {None}] : \A k \in Key : f[k] # None => f[f[k]] = f[k]}
      /\ says \in [Key -> Version]
  BY <1>1
<1>3. {h \in Key : of[h] = h} = {}
  BY NoneAssumption
<1>4. {} = {[key |-> k, aliases |-> {a \in Key \ {k} : of[a] = k}, version |-> says[k]] :
              k \in {h \in Key : of[h] = h}}
  BY <1>3
<1> HIDE DEF of, says
<1>5. QED
  BY <1>2, <1>4 DEF Emitted

\* What the transaction sees is a pair of tables.
LEMMA SeenTables ==
  ASSUME TypeOK
  PROVE  /\ Committed \in Tables /\ Seen \in Tables /\ Seen # None
         /\ Committed.docs = docs /\ Committed.states = states
BY TablesAssumption DEF TypeOK, Seen, Committed, Tables

LEMMA FollowsTransitive ==
  ASSUME NEW x \in Doc, NEW y \in Doc, NEW z \in Doc, Follows(x, y), Follows(y, z)
  PROVE  Follows(x, z)
BY BoundAssumption DEF Follows, Doc

LEMMA SameBehind ==
  ASSUME NEW T \in Tables PROVE Behind(T, T)
<1>1. \A d \in Document : T.docs[d] \in Doc
  BY DEF Tables
<1>2. \A d \in Document : Follows(T.docs[d], T.docs[d])
  BY <1>1, BoundAssumption DEF Follows, Doc
<1>4. UsersWent(T, T)
  BY <1>2 DEF UsersWent
<1>5. QED
  BY <1>4 DEF Behind, AliasesKept, ReleasedReversed

-----------------------------------------------------------------------------
(* A commit. *)

\* What is committed is what the transaction sees, and what users did meanwhile.
LEMMA Merged ==
  ASSUME Inv, NEW M, M = [docs |-> Merge(Seen), states |-> Seen.states]
  PROVE  /\ M \in Tables /\ M.docs = Merge(Seen) /\ M.states = Seen.states
         /\ \A d \in Document : /\ M.docs[d].reversed = Seen.docs[d].reversed
                               /\ Follows(Seen.docs[d], M.docs[d])
                               /\ M.docs[d].modified <= outside
         /\ TableInv(M)
<1>1. /\ Committed \in Tables /\ Seen \in Tables
      /\ Committed.docs = docs /\ Committed.states = states
  BY SeenTables DEF Inv
<1>2. /\ \A d \in Document : docs[d] \in Doc /\ Seen.docs[d] \in Doc
      /\ Seen.states \in [Key -> State]
  BY <1>1 DEF Tables
<1>3. M.docs = Merge(Seen) /\ M.states = Seen.states
  OBVIOUS
<1>4. \A d \in Document : M.docs[d] = IF docs[d].status = "free" THEN Seen.docs[d]
                                     ELSE [docs[d] EXCEPT !.reversed = Seen.docs[d].reversed]
  BY <1>3 DEF Merge
<1>5. \A d \in Document : M.docs[d] \in Doc
  <2>1. SUFFICES ASSUME NEW d \in Document PROVE M.docs[d] \in Doc
    OBVIOUS
  <2>2. docs[d] \in Doc /\ Seen.docs[d] \in Doc /\ Seen.docs[d].reversed \in BOOLEAN
    BY <1>2 DEF Doc
  <2>3. QED
    BY <2>2, <1>4 DEF Doc
<1>6. M \in Tables
  <2>1. M.docs \in [Document -> Doc]
    BY <1>3, <1>5 DEF Merge
  <2>2. QED
    BY <2>1, <1>2, <1>3 DEF Tables
<1>7. \A d \in Document :
        /\ M.docs[d].reversed = Seen.docs[d].reversed
        /\ docs[d].status = "free" => M.docs[d] = Seen.docs[d]
        /\ docs[d].status # "free" =>
             /\ M.docs[d].status = docs[d].status /\ M.docs[d].key = docs[d].key
             /\ M.docs[d].by = docs[d].by /\ M.docs[d].modified = docs[d].modified
  <2>1. SUFFICES ASSUME NEW d \in Document
                 PROVE  /\ M.docs[d].reversed = Seen.docs[d].reversed
                        /\ docs[d].status = "free" => M.docs[d] = Seen.docs[d]
                        /\ docs[d].status # "free" =>
                             /\ M.docs[d].status = docs[d].status /\ M.docs[d].key = docs[d].key
                             /\ M.docs[d].by = docs[d].by /\ M.docs[d].modified = docs[d].modified
    OBVIOUS
  <2>2. docs[d] \in Doc
    BY <1>2
  <2>3. QED
    BY <2>2, <1>4 DEF Doc
<1>8. UsersWent(Committed, Seen) /\ TableInv(Seen)
  BY DEF Inv, Behind
<1>9. \A d \in Document : Follows(Seen.docs[d], M.docs[d])
  <2>1. SUFFICES ASSUME NEW d \in Document PROVE Follows(Seen.docs[d], M.docs[d])
    OBVIOUS
  <2>2. CASE docs[d].status = "free"
    BY <2>2, <1>2, <1>7, BoundAssumption DEF Follows, Doc
  <2>3. CASE docs[d].status # "free"
    <3>1. Follows(Seen.docs[d], docs[d])
      BY <2>3, <1>1, <1>8 DEF UsersWent
    <3>2. QED
      BY <3>1, <2>3, <1>7 DEF Follows
  <2>4. QED
    BY <2>2, <2>3
<1>10. \A d \in Document : M.docs[d].modified <= outside
  <2>1. \A d \in Document : docs[d].modified <= outside /\ Seen.docs[d].modified <= outside
    BY <1>1 DEF Inv, Counted
  <2>2. QED
    BY <2>1, <1>7
<1>11. \A d \in Document : M.docs[d].status = "free" => M.docs[d] = Absent
  BY <1>7, <1>8 DEF TableInv, Blank
<1>12. Blank(M)
  BY <1>3, <1>8, <1>11 DEF TableInv, Blank
<1>13. AbsorbedOwnNothing(M) /\ SoleOwner(M)
  BY <1>3, <1>8 DEF TableInv, AbsorbedOwnNothing, SoleOwner
<1>14. OwnedKeyed(M)
  BY <1>3, <1>8, <1>9 DEF TableInv, OwnedKeyed, Follows
<1>15. InsertedOwned(M)
  <2>1. SUFFICES ASSUME NEW d \in Document, M.docs[d].by = "sync", ~M.docs[d].reversed
                 PROVE  Owned(Seen, d)
    BY <1>3 DEF InsertedOwned, Owned
  <2>2. Seen.docs[d].by = "sync"
    <3>1. CASE docs[d].status = "free"
      BY <3>1, <2>1, <1>7
    <3>2. CASE docs[d].status # "free"
      <4>1. docs[d].by = "sync"
        BY <3>2, <2>1, <1>7
      <4>2. Seen.docs[d].status # "free" /\ Follows(Seen.docs[d], docs[d])
        BY <4>1, <3>2, <1>1, <1>8 DEF UsersWent
      <4>3. QED
        BY <4>1, <4>2 DEF Follows
    <3>3. QED
      BY <3>1, <3>2
  <2>3. QED
    BY <2>1, <2>2, <1>7, <1>8 DEF TableInv, InsertedOwned
<1>16. QED
  BY <1>3, <1>6, <1>7, <1>9, <1>10, <1>12, <1>13, <1>14, <1>15 DEF TableInv

-----------------------------------------------------------------------------
(* A plan that is applied.                                                 *)

\* Two groups that are still to be planned share no key.
LEMMA Disjoint ==
  ASSUME TypeOK
  PROVE  /\ \A g \in todo \cup batch : IsGroup(g)
         /\ \A g, h \in todo \cup batch : g # h => Keys(g) \cap Keys(h) = {}
<1>1. todo \cup batch \subseteq staged /\ staged \in Emitted
  BY DEF TypeOK
<1>2. QED
  BY <1>1, EmittedGroups

\* What is known of a group whose keys are all its own and whose documents are sound.
Known(g, held) ==
  /\ IsGroup(g) /\ held \subseteq Document
  /\ \A k \in Keys(g) : k \in Key /\ Seen.states[k] = cache.states[k]
  /\ \A d \in held :
       /\ Seen.docs[d].status # "free" /\ Seen.docs[d].key \in Key
       /\ Seen.docs[d].key \in Keys(g) \/ Seen.states[Seen.docs[d].key].revision # 0
       /\ \A k \in Key : d \in Seen.states[k].documents => k \in Keys(g)
  /\ \A k \in Keys(g) : Seen.states[k].documents \subseteq held

LEMMA PlannedGroup ==
  ASSUME Inv, NEW g \in batch
  PROVE  Known(g, Documents(g))
<1>1. /\ Seen \in Tables /\ cache \in Tables
      /\ TableInv(Seen) /\ CachedFor(batch, Seen)
  <2>1. cache \in Tables
    BY DEF Inv, TypeOK
  <2>2. QED
    BY <2>1, SeenTables DEF Inv
<1>2. IsGroup(g)
  BY Disjoint DEF Inv
<1>3. \A k \in Keys(g) : k \in Key /\ Seen.states[k] = cache.states[k]
  BY <1>1, <1>2 DEF CachedFor, IsGroup, Keys
<1>4. \A k \in Key : cache.states[k] \in State /\ Seen.states[k] \in State
  BY <1>1 DEF Tables
<1>5. \A k \in Keys(g) : Holdings(cache, k) \subseteq Document
  BY <1>3, <1>4 DEF Holdings, Matched, Last, State
<1>6. \A d \in Document : Follows(cache.docs[d], Seen.docs[d])
  BY <1>1 DEF CachedFor
<1>7. ASSUME NEW d \in Documents(g)
      PROVE  /\ d \in Document /\ Seen.docs[d].status # "free" /\ Seen.docs[d].key \in Key
             /\ Seen.docs[d].key \in Keys(g) \/ Seen.states[Seen.docs[d].key].revision # 0
             /\ \A k \in Key : d \in Seen.states[k].documents => k \in Keys(g)
  <2>1. PICK j \in Keys(g) : d \in Holdings(cache, j)
    BY <1>7 DEF Documents
  <2>2. d \in Document /\ j \in Key /\ Seen.states[j] = cache.states[j]
    BY <2>1, <1>3, <1>5
  <2>3. CASE cache.states[j].revision = 0
    <3>1. cache.docs[d].key = j /\ cache.docs[d].status # "free"
      BY <2>1, <2>3 DEF Holdings, Matched, Last
    <3>2. Seen.docs[d].key = j /\ Seen.docs[d].status # "free"
      BY <3>1, <2>2, <1>6 DEF Follows
    <3>3. \A k \in Key : d \notin Seen.states[k].documents
      BY <3>2, <2>2, <2>3, <1>1 DEF TableInv, OwnedKeyed
    <3>4. QED
      BY <3>2, <3>3, <2>1, <2>2
  <2>4. CASE cache.states[j].revision # 0
    <3>1. d \in Seen.states[j].documents
      BY <2>1, <2>2, <2>4 DEF Holdings
    <3>2. QED
      BY <3>1, <2>1, <2>2, <1>1 DEF TableInv, OwnedKeyed, SoleOwner
  <2>5. QED
    BY <2>3, <2>4
<1>8. ASSUME NEW k \in Keys(g) PROVE Seen.states[k].documents \subseteq Documents(g)
  <2>1. k \in Key /\ Seen.states[k] = cache.states[k]
    BY <1>3
  <2>2. Seen.states[k].documents \subseteq Holdings(cache, k)
    <3>1. CASE Seen.states[k].revision = 0
      BY <3>1, <2>1, <1>1 DEF TableInv, Blank, Unwritten
    <3>2. CASE Seen.states[k].revision # 0
      BY <3>2, <2>1 DEF Holdings
    <3>3. QED
      BY <3>1, <3>2
  <2>3. QED
    BY <2>2 DEF Documents
<1>9. QED
  BY <1>2, <1>3, <1>7, <1>8 DEF Known

\* The preconditions of Process for a plan that is applied.
Plan(g, action, held, new, status) ==
  /\ g \in batch /\ action \in Actions /\ held = Documents(g)
  /\ Separate(g) /\ Sound(held) /\ Allowed(held, action) /\ Current(g, held)
  /\ action \in {"reverse", "replace"} => Unreversed(held)
  /\ new \in IF action \in {"create", "replace"} THEN First(Unnamed) ELSE {None}
  /\ status \in {"draft", "submitted"}

Inserts(action) == action \in {"create", "replace"}
Reverses(action) == action \in {"reverse", "replace"}

\* The states a plan leaves: the group has its documents, its aliases have none.
LEMMA PlannedStates ==
  ASSUME Inv, NEW g, NEW action, NEW held, NEW new, NEW status,
         Plan(g, action, held, new, status), NEW S, S = AppliedStates(g, held, action, new)
  PROVE  /\ S \in [Key -> State]
         /\ S[g.key].documents = Kept(held, action, new)
         /\ S[g.key].alias_of = None /\ S[g.key].revision # 0
         /\ \A k \in g.aliases : /\ S[k].documents = {} /\ S[k].alias_of = g.key
                                 /\ S[k].revision # 0
         /\ \A k \in Key \ Keys(g) : S[k] = Seen.states[k]
         /\ \A k \in Key : S[k].revision <= runs
<1>1. Known(g, held) /\ Seen \in Tables /\ TableInv(Seen)
  BY PlannedGroup, SeenTables DEF Plan, Inv
<1>2. /\ IsGroup(g) /\ g.key \in Keys(g) /\ g.aliases \subseteq Keys(g)
      /\ \A k \in Keys(g) : k \in Key /\ Seen.states[k] = cache.states[k]
  BY <1>1 DEF Known, Keys, IsGroup
<1>3. \A k \in Key : Seen.states[k] \in State
  BY <1>1 DEF Tables
<1>4. \A k \in Keys(g) : Seen.states[k].revision < runs
  BY <1>2 DEF Inv, Counted, Plan
<1>5. \A k \in Key : Seen.states[k].revision <= runs
  BY DEF Inv, Counted
<1>6. runs \in 0..MaxRuns /\ MaxRuns \in Nat
  BY BoundAssumption DEF Inv, TypeOK
<1>7. Kept(held, action, new) \subseteq Document
  BY <1>1 DEF Known, Kept, Plan, First, Unnamed, Actions
<1>8. \A k \in Key : Seen.states[k].revision = 0 =>
                       Seen.states[k].version = None /\ Seen.states[k].alias_of = None
  BY <1>1 DEF TableInv, Blank, Unwritten
<1>9. /\ S[g.key] \in State /\ S[g.key].documents = Kept(held, action, new)
      /\ S[g.key].alias_of = None /\ S[g.key].revision # 0 /\ S[g.key].revision <= runs
  <2> DEFINE old == Seen.states[g.key]
  <2>1. old \in State /\ g.key \in Key /\ old.revision < runs
    BY <1>2, <1>3, <1>4
  <2>2. g.version \in Version
    BY <1>2 DEF IsGroup
  <2>3. old.alias_of = None
    BY <1>2 DEF Plan, Separate
  <2>4. g.key \notin g.aliases
    BY <1>2 DEF IsGroup
  <2>5. S[g.key] = IF old.version = g.version /\ old.documents = Kept(held, action, new)
                   THEN old
                   ELSE [revision |-> old.revision + 1, version |-> g.version,
                         alias_of |-> None, documents |-> Kept(held, action, new)]
    BY <2>1, <2>4 DEF AppliedStates
  <2>6. CASE old.version = g.version /\ old.documents = Kept(held, action, new)
    <3>1. old.revision # 0
      BY <2>1, <2>2, <2>6, <1>8, NoneAssumption
    <3>2. QED
      BY <3>1, <2>1, <2>3, <2>5, <2>6, <1>6 DEF State
  <2>7. CASE ~(old.version = g.version /\ old.documents = Kept(held, action, new))
    <3> DEFINE row == [revision |-> old.revision + 1, version |-> g.version,
                       alias_of |-> None, documents |-> Kept(held, action, new)]
    <3>1. S[g.key] = row
      BY <2>5, <2>7, <2>5
    <3>2. old.revision \in 0..MaxRuns
      BY <2>1 DEF State
    <3>3. row.revision \in 0..MaxRuns /\ row.revision # 0 /\ row.revision <= runs
      BY <3>2, <2>1, <1>6
    <3>4. row \in State
      BY <3>3, <2>2, <1>7 DEF State
    <3>5. QED
      BY <3>1, <3>3, <3>4
  <2>8. QED
    BY <2>6, <2>7
<1>10. ASSUME NEW k \in g.aliases
       PROVE  /\ S[k] \in State /\ S[k].documents = {} /\ S[k].alias_of = g.key
              /\ S[k].revision # 0 /\ S[k].revision <= runs
  <2> DEFINE old == Seen.states[k]
  <2>1. /\ old \in State /\ k \in Key /\ k # g.key /\ g.key \in Key
        /\ old.revision < runs /\ old = cache.states[k]
    BY <1>2, <1>3, <1>4 DEF IsGroup
  <2>2. S[k] = IF Holdings(cache, k) = {} /\ old.alias_of = g.key
               THEN old
               ELSE [revision |-> cache.states[k].revision + 1, version |-> None,
                     alias_of |-> g.key, documents |-> {}]
    BY <2>1 DEF AppliedStates
  <2>3. CASE Holdings(cache, k) = {} /\ old.alias_of = g.key
    <3>1. g.key # None
      BY <2>1, NoneAssumption
    <3>2. old.revision # 0 /\ old.documents = {}
      BY <3>1, <2>1, <2>3, <1>1, <1>8 DEF TableInv, AbsorbedOwnNothing
    <3>3. QED
      BY <3>2, <2>1, <2>2, <2>3, <1>6 DEF State
  <2>4. CASE ~(Holdings(cache, k) = {} /\ old.alias_of = g.key)
    <3> DEFINE row == [revision |-> old.revision + 1, version |-> None,
                       alias_of |-> g.key, documents |-> {}]
    <3>1. S[k] = row
      BY <2>1, <2>2, <2>4
    <3>2. old.revision \in 0..MaxRuns
      BY <2>1 DEF State
    <3>3. row.revision \in 0..MaxRuns /\ row.revision # 0 /\ row.revision <= runs
      BY <3>2, <2>1, <1>6
    <3>4. row \in State
      BY <3>3, <2>1 DEF State
    <3>5. QED
      BY <3>1, <3>3, <3>4
  <2>5. QED
    BY <2>3, <2>4
<1>11. \A k \in Key \ Keys(g) : S[k] = Seen.states[k]
  BY DEF AppliedStates, Keys
<1>12. \A k \in Key : S[k] \in State /\ S[k].revision <= runs
  BY <1>3, <1>5, <1>9, <1>10, <1>11 DEF Keys
<1>13. S \in [Key -> State]
  BY <1>12 DEF AppliedStates
<1>14. QED
  BY <1>9, <1>10, <1>11, <1>12, <1>13

\* The documents a plan leaves: the reversed ones, and the one it inserted.
LEMMA PlannedDocs ==
  ASSUME Inv, NEW g, NEW action, NEW held, NEW new, NEW status,
         Plan(g, action, held, new, status), NEW D, D = AppliedDocs(g, held, action, new, status)
  PROVE  /\ D \in [Document -> Doc]
         /\ Inserts(action) =>
              /\ new \in Document /\ docs[new].status = "free" /\ Seen.docs[new] = Absent
              /\ D[new].key = g.key /\ D[new].status # "free" /\ D[new].by = "sync"
              /\ D[new].modified = 0 /\ ~D[new].reversed
         /\ \A d \in Document : ~(Inserts(action) /\ d = new) =>
              /\ D[d].key = Seen.docs[d].key /\ D[d].status = Seen.docs[d].status
              /\ D[d].by = Seen.docs[d].by /\ D[d].modified = Seen.docs[d].modified
              /\ D[d].reversed <=> Seen.docs[d].reversed \/ (Reverses(action) /\ d \in held)
              /\ ~(Reverses(action) /\ d \in held) => D[d] = Seen.docs[d]
<1>1. Known(g, held) /\ Seen \in Tables /\ TableInv(Seen)
  BY PlannedGroup, SeenTables DEF Plan, Inv
<1>2. \A d \in Document : Seen.docs[d] \in Doc
  BY <1>1 DEF Tables
<1>3. Inserts(action) =>
        /\ new \in Document /\ docs[new].status = "free" /\ Seen.docs[new] = Absent
        /\ D[new] = [Absent EXCEPT !.key = g.key, !.status = status, !.by = "sync"]
  <2>1. SUFFICES ASSUME Inserts(action)
                 PROVE  /\ new \in Document /\ docs[new].status = "free"
                        /\ Seen.docs[new] = Absent
                        /\ D[new] = [Absent EXCEPT !.key = g.key, !.status = status, !.by = "sync"]
    OBVIOUS
  <2>2. new \in Document /\ docs[new].status = "free" /\ Seen.docs[new].status = "free"
    BY <2>1 DEF Plan, Inserts, First, Unnamed
  <2>3. Seen.docs[new] = Absent
    BY <2>2, <1>1 DEF TableInv, Blank
  <2>4. QED
    BY <2>1, <2>2, <2>3 DEF AppliedDocs, Inserts
<1>4. Inserts(action) =>
        /\ D[new].key = g.key /\ D[new].status = status /\ D[new].by = "sync"
        /\ D[new].modified = 0 /\ ~D[new].outside /\ ~D[new].reversed /\ D[new] \in Doc
  <2> DEFINE fresh == [key |-> g.key, status |-> status, by |-> "sync",
                       modified |-> 0, outside |-> FALSE, reversed |-> FALSE]
  <2>1. g.key \in Key /\ status \in {"draft", "submitted"}
    BY <1>1 DEF Known, IsGroup, Plan
  <2>2. Inserts(action) => D[new] = fresh
    BY <1>3 DEF Absent
  <2>3. fresh \in Doc
    BY <2>1, BoundAssumption DEF Doc
  <2>4. QED
    BY <2>2, <2>3
<1>5. ASSUME NEW d \in Document, ~(Inserts(action) /\ d = new)
      PROVE  /\ D[d].key = Seen.docs[d].key /\ D[d].status = Seen.docs[d].status
             /\ D[d].by = Seen.docs[d].by /\ D[d].modified = Seen.docs[d].modified
             /\ D[d].reversed <=> Seen.docs[d].reversed \/ (Reverses(action) /\ d \in held)
             /\ ~(Reverses(action) /\ d \in held) => D[d] = Seen.docs[d]
             /\ D[d] \in Doc
  <2>1. Seen.docs[d] \in Doc /\ Seen.docs[d].reversed \in BOOLEAN
    BY <1>2 DEF Doc
  <2>2. D[d] = [Seen.docs[d] EXCEPT !.reversed = @ \/ d \in Reversing(g, held, action)]
    BY <1>5 DEF AppliedDocs, Inserts
  <2>3. d \in Reversing(g, held, action) <=> Reverses(action) /\ d \in held
    BY DEF Reversing, Reverses
  <2>4. CASE d \in Reversing(g, held, action)
    BY <2>1, <2>2, <2>3, <2>4 DEF Doc
  <2>5. CASE d \notin Reversing(g, held, action)
    <3>1. D[d] = [Seen.docs[d] EXCEPT !.reversed = Seen.docs[d].reversed]
      BY <2>1, <2>2, <2>5
    <3>2. D[d] = Seen.docs[d]
      BY <3>1, <2>1 DEF Doc
    <3>3. QED
      BY <3>2, <2>1, <2>3, <2>5
  <2>6. QED
    BY <2>4, <2>5
<1>6. \A d \in Document : D[d] \in Doc
  BY <1>4, <1>5
<1>7. D \in [Document -> Doc]
  BY <1>6 DEF AppliedDocs
<1>8. QED
  BY <1>3, <1>4, <1>5, <1>7 DEF Plan

\* The tables a plan leaves keep the relations among groups and documents.
LEMMA Applied ==
  ASSUME Inv, NEW g, NEW action, NEW held, NEW new, NEW status,
         Plan(g, action, held, new, status), NEW T,
         T = [docs |-> AppliedDocs(g, held, action, new, status),
              states |-> AppliedStates(g, held, action, new)]
  PROVE  /\ T \in Tables /\ TableInv(T)
         /\ Behind(Committed, T) /\ CachedFor(batch \ {g}, T)
         /\ \A d \in Document : T.docs[d].modified <= outside
         /\ \A k \in Key : T.states[k].revision <= runs
         /\ \A k \in Key \ Keys(g) : T.states[k] = Seen.states[k]
         /\ \A d \in Document : T.docs[d].reversed /\ ~Seen.docs[d].reversed =>
              Reverses(action) /\ d \in held
<1> DEFINE S == AppliedStates(g, held, action, new)
           D == AppliedDocs(g, held, action, new, status)
<1>1. T.docs = D /\ T.states = S
  OBVIOUS
<1>2. /\ S \in [Key -> State]
      /\ S[g.key].documents = Kept(held, action, new)
      /\ S[g.key].alias_of = None /\ S[g.key].revision # 0
      /\ \A k \in g.aliases : S[k].documents = {} /\ S[k].alias_of = g.key /\ S[k].revision # 0
      /\ \A k \in Key \ Keys(g) : S[k] = Seen.states[k]
      /\ \A k \in Key : S[k].revision <= runs
  BY PlannedStates
<1>3. /\ D \in [Document -> Doc]
      /\ Inserts(action) =>
           /\ new \in Document /\ docs[new].status = "free" /\ Seen.docs[new] = Absent
           /\ D[new].key = g.key /\ D[new].status # "free" /\ D[new].by = "sync"
           /\ D[new].modified = 0 /\ ~D[new].reversed
      /\ \A d \in Document : ~(Inserts(action) /\ d = new) =>
           /\ D[d].key = Seen.docs[d].key /\ D[d].status = Seen.docs[d].status
           /\ D[d].by = Seen.docs[d].by /\ D[d].modified = Seen.docs[d].modified
           /\ D[d].reversed <=> Seen.docs[d].reversed \/ (Reverses(action) /\ d \in held)
           /\ ~(Reverses(action) /\ d \in held) => D[d] = Seen.docs[d]
  BY PlannedDocs
<1> HIDE DEF S, D
<1>4. /\ Known(g, held) /\ Seen \in Tables /\ Committed \in Tables /\ TableInv(Seen)
      /\ Behind(Committed, Seen) /\ CachedFor(batch, Seen)
      /\ Committed.docs = docs /\ Committed.states = states
  BY PlannedGroup, SeenTables DEF Plan, Inv
<1>5. /\ Keys(g) = {g.key} \cup g.aliases /\ g.key \in Key /\ g.aliases \subseteq Key
      /\ g.key \notin g.aliases
  BY <1>4 DEF Known, IsGroup, Keys
<1>6. \/ action = "create" /\ Inserts(action) /\ ~Reverses(action) /\ held = {}
      \/ action = "replace" /\ Inserts(action) /\ Reverses(action)
      \/ action = "reverse" /\ ~Inserts(action) /\ Reverses(action)
      \/ action = "skip" /\ ~Inserts(action) /\ ~Reverses(action)
  BY DEF Plan, Actions, Allowed, Inserts, Reverses
<1>7. /\ Inserts(action) => Kept(held, action, new) = {new}
      /\ action = "skip" => Kept(held, action, new) = held
      /\ action = "reverse" => Kept(held, action, new) = {}
  BY <1>6 DEF Kept
\* The document that is inserted is nobody's and not among those held.
<1>8. Inserts(action) => /\ Absent.status = "free" /\ ~Absent.reversed
                         /\ new \notin held /\ \A k \in Key : new \notin Seen.states[k].documents
  <2>1. Absent.status = "free" /\ ~Absent.reversed
    BY DEF Absent
  <2>2. QED
    BY <2>1, <1>3, <1>4 DEF Known, TableInv, OwnedKeyed
<1>9. T \in Tables
  BY <1>1, <1>2, <1>3 DEF Tables
<1>10. \A k \in Key : S[k].revision = 0 => k \notin Keys(g) /\ S[k] = Seen.states[k]
  BY <1>2, <1>5
<1>11. Blank(T)
  BY <1>1, <1>3, <1>4, <1>8, <1>10 DEF TableInv, Blank, Known
<1>12. AbsorbedOwnNothing(T)
  BY <1>1, <1>2, <1>4, <1>5 DEF TableInv, AbsorbedOwnNothing
\* What the group is left with belongs to no other group.
<1>13. \A k \in Key \ Keys(g) : \A d \in Kept(held, action, new) : d \notin Seen.states[k].documents
  BY <1>4, <1>6, <1>7, <1>8 DEF Known
<1>14. SoleOwner(T)
  <2>1. \A k \in Key : \A d \in S[k].documents :
          k = g.key \/ (k \in Key \ Keys(g) /\ d \in Seen.states[k].documents)
    BY <1>2, <1>5
  <2>2. QED
    BY <2>1, <1>1, <1>2, <1>4, <1>13 DEF TableInv, SoleOwner
<1>15. OwnedKeyed(T)
  <2>1. SUFFICES ASSUME NEW k \in Key, NEW d \in S[k].documents
                 PROVE  /\ D[d].status # "free" /\ D[d].key \in Key
                        /\ S[D[d].key].revision # 0
    BY <1>1, <1>2 DEF OwnedKeyed, State
  <2>2. CASE k = g.key
    <3>1. CASE Inserts(action)
      BY <3>1, <2>1, <2>2, <1>2, <1>3, <1>5, <1>7
    <3>2. CASE ~Inserts(action)
      <4>1. d \in held
        BY <3>2, <2>1, <2>2, <1>2, <1>6, <1>7
      <4>2. /\ d \in Document /\ Seen.docs[d].status # "free" /\ Seen.docs[d].key \in Key
            /\ Seen.docs[d].key \in Keys(g) \/ Seen.states[Seen.docs[d].key].revision # 0
        BY <4>1, <1>4 DEF Known
      <4>3. D[d].key = Seen.docs[d].key /\ D[d].status = Seen.docs[d].status
        BY <4>2, <3>2, <1>3
      <4>4. QED
        BY <4>2, <4>3, <1>10
    <3>3. QED
      BY <3>1, <3>2
  <2>3. CASE k \in g.aliases
    BY <2>1, <2>3, <1>2
  <2>4. CASE k \in Key \ Keys(g)
    <3>1. d \in Seen.states[k].documents /\ Seen.states[k] \in State
      BY <2>1, <2>4, <1>2, <1>4 DEF Tables
    <3>2. /\ d \in Document /\ Seen.docs[d].status # "free" /\ Seen.docs[d].key \in Key
          /\ Seen.states[Seen.docs[d].key].revision # 0
      BY <3>1, <1>4 DEF TableInv, OwnedKeyed, State
    <3>3. D[d].key = Seen.docs[d].key /\ D[d].status = Seen.docs[d].status
      BY <3>1, <3>2, <1>3, <1>8
    <3>4. QED
      BY <3>2, <3>3, <1>10
  <2>5. QED
    BY <2>2, <2>3, <2>4, <1>5
\* Whoever owned a document owns it still, or it has passed to the group, or is reversed.
<1>16. \A d \in Document : Owned(Seen, d) =>
         ~(Inserts(action) /\ d = new) /\ (Owned(T, d) \/ (Reverses(action) /\ d \in held))
  <2>1. SUFFICES ASSUME NEW d \in Document, NEW k \in Key, d \in Seen.states[k].documents
                 PROVE  /\ ~(Inserts(action) /\ d = new)
                        /\ Owned(T, d) \/ (Reverses(action) /\ d \in held)
    BY DEF Owned
  <2>2. CASE k \in Keys(g)
    <3>1. d \in held
      BY <2>1, <2>2, <1>4 DEF Known
    <3>2. action = "skip" => d \in S[g.key].documents
      BY <3>1, <1>2, <1>7
    <3>3. QED
      BY <3>1, <3>2, <1>1, <1>5, <1>6, <1>8 DEF Owned
  <2>3. CASE k \notin Keys(g)
    BY <2>1, <2>3, <1>1, <1>2, <1>8 DEF Owned
  <2>4. QED
    BY <2>2, <2>3
<1>17. InsertedOwned(T)
  <2>1. SUFFICES ASSUME NEW d \in Document, D[d].by = "sync", ~D[d].reversed
                 PROVE  Owned(T, d)
    BY <1>1 DEF InsertedOwned
  <2>2. CASE Inserts(action) /\ d = new
    BY <2>2, <1>1, <1>2, <1>5, <1>7 DEF Owned
  <2>3. CASE ~(Inserts(action) /\ d = new)
    <3>1. /\ Seen.docs[d].by = "sync" /\ ~Seen.docs[d].reversed
          /\ ~(Reverses(action) /\ d \in held)
      BY <2>1, <2>3, <1>3
    <3>2. Owned(Seen, d)
      BY <3>1, <1>4 DEF TableInv, InsertedOwned
    <3>3. QED
      BY <3>1, <3>2, <1>16
  <2>4. QED
    BY <2>2, <2>3
<1>18. AliasesKept(Committed, T)
  <2>1. SUFFICES ASSUME NEW k \in Key, states[k].alias_of # None
                 PROVE  S[k].alias_of = states[k].alias_of
    BY <1>1, <1>4 DEF AliasesKept
  <2>2. Seen.states[k].alias_of = states[k].alias_of
    BY <2>1, <1>4 DEF Behind, AliasesKept
  <2>3. CASE k \in Keys(g)
    <3>1. Seen.states[k].alias_of = cache.states[k].alias_of
      BY <2>3, <1>4 DEF Known
    <3>2. k # g.key /\ k \in g.aliases /\ cache.states[k].alias_of = g.key
      BY <3>1, <2>1, <2>2, <2>3, <1>5 DEF Plan, Separate
    <3>3. QED
      BY <3>1, <3>2, <2>2, <1>2
  <2>4. CASE k \notin Keys(g)
    BY <2>2, <2>4, <1>2
  <2>5. QED
    BY <2>3, <2>4
<1>19. ReleasedReversed(Committed, T)
  <2>1. SUFFICES ASSUME NEW d \in Document, Owned(Committed, d), ~Owned(T, d)
                 PROVE  D[d].reversed
    BY <1>1 DEF ReleasedReversed
  <2>2. CASE Owned(Seen, d)
    BY <2>1, <2>2, <1>3, <1>16
  <2>3. CASE ~Owned(Seen, d)
    <3>1. Seen.docs[d].reversed
      BY <2>1, <2>3, <1>4 DEF Behind, ReleasedReversed
    <3>2. QED
      BY <3>1, <1>3, <1>8
  <2>4. QED
    BY <2>2, <2>3
<1>20. UsersWent(Committed, T)
  <2>1. SUFFICES ASSUME NEW d \in Document, docs[d].status # "free"
                 PROVE  /\ Follows(D[d], docs[d])
                        /\ docs[d].reversed => D[d].reversed
                        /\ D[d].status = "free" => docs[d].by = "user"
    BY <1>1, <1>4 DEF UsersWent
  <2>2. ~(Inserts(action) /\ d = new)
    BY <2>1, <1>3
  <2>3. /\ Follows(Seen.docs[d], docs[d])
        /\ docs[d].reversed => Seen.docs[d].reversed
        /\ Seen.docs[d].status = "free" => docs[d].by = "user"
    BY <2>1, <1>4 DEF Behind, UsersWent
  <2>4. QED
    BY <2>2, <2>3, <1>3 DEF Follows
<1>21. CachedFor(batch \ {g}, T)
  <2>1. SUFFICES ASSUME batch # {}
                 PROVE  /\ \A h \in batch \ {g} : \A k \in Keys(h) : S[k] = cache.states[k]
                        /\ \A d \in Document : Follows(cache.docs[d], D[d])
    BY <1>1 DEF CachedFor
  <2>2. ASSUME NEW h \in batch \ {g}, NEW k \in Keys(h) PROVE S[k] = cache.states[k]
    <3>1. g \in batch /\ IsGroup(h) /\ Keys(g) \cap Keys(h) = {}
      BY <2>2, Disjoint DEF Inv, Plan
    <3>2. k \in Key \ Keys(g)
      BY <3>1, <2>2 DEF IsGroup, Keys
    <3>3. QED
      BY <3>2, <2>2, <1>2, <1>4 DEF CachedFor
  <2>3. ASSUME NEW d \in Document PROVE Follows(cache.docs[d], D[d])
    <3>1. Follows(cache.docs[d], Seen.docs[d])
      BY <2>1, <1>4 DEF CachedFor
    <3>2. CASE Inserts(action) /\ d = new
      BY <3>1, <3>2, <1>3, <1>8 DEF Follows
    <3>3. CASE ~(Inserts(action) /\ d = new)
      BY <3>1, <3>3, <1>3 DEF Follows
    <3>4. QED
      BY <3>2, <3>3
  <2>4. QED
    BY <2>2, <2>3
<1>22. \A d \in Document : D[d].modified <= outside
  <2>1. outside \in Nat /\ \A d \in Document : Seen.docs[d].modified <= outside
    BY BoundAssumption DEF Inv, TypeOK, Counted
  <2>2. QED
    BY <2>1, <1>3
<1>23. \A d \in Document : D[d].reversed /\ ~Seen.docs[d].reversed =>
         Reverses(action) /\ d \in held
  BY <1>3
<1>24. QED
  BY <1>1, <1>2, <1>9, <1>11, <1>12, <1>14, <1>15, <1>17, <1>18, <1>19, <1>20, <1>21,
     <1>22, <1>23 DEF TableInv, Behind

-----------------------------------------------------------------------------
(* The steps of users.                                                     *)

\* What a user may do to a document, as far as the run is concerned.
Meanwhile(d, new) ==
  /\ Follows(docs[d], new)
  /\ new.status # "free" /\ new.reversed = docs[d].reversed /\ new.modified <= outside + 1
  /\ docs[d].status = "free" => Seen.docs[d].status = "free" /\ new.by = "user" /\ ~new.reversed

LEMMA UserStep ==
  ASSUME Inv, NEW d \in Document, NEW new \in Doc, UserDid(d, new), Meanwhile(d, new)
  PROVE  Inv'
<1>1. /\ Committed \in Tables /\ Seen \in Tables
      /\ Committed.docs = docs /\ Committed.states = states
  BY SeenTables DEF Inv
<1>2. /\ flags' = flags /\ states' = states /\ view' = view /\ staged' = staged /\ todo' = todo
      /\ batch' = batch /\ cache' = cache /\ phase' = phase /\ attempts' = attempts
      /\ runs' = runs /\ faults' = faults /\ outside' = outside + 1 /\ outside < MaxOutside
  BY DEF UserDid, progress
<1>3. outside \in Nat /\ outside' \in 0..MaxOutside /\ outside <= outside'
  BY <1>2, BoundAssumption DEF Inv, TypeOK
<1>4. /\ docs \in [Document -> Doc] /\ docs' \in [Document -> Doc]
      /\ docs'[d] = new /\ \A e \in Document \ {d} : docs'[e] = docs[e]
  BY DEF Inv, TypeOK, UserDid
<1>5. TypeOK'
  BY <1>2, <1>3, <1>4 DEF Inv, TypeOK
<1> DEFINE C == Committed'
<1>6. C.docs = docs' /\ C.states = states /\ C \in Tables
  BY <1>2, <1>4 DEF Committed, Tables, Inv, TypeOK
<1>7. \/ view = None /\ Seen = Committed /\ Seen' = C
      \/ view # None /\ Seen' = Seen
  BY <1>2 DEF Seen
<1> HIDE DEF C
<1>8. \A e \in Document : Follows(docs[e], docs'[e])
  BY <1>4, <1>1, SameBehind, BoundAssumption DEF Meanwhile, Follows, Doc
<1>9. TableInv(Committed) /\ TableInv(Seen) /\ Behind(Committed, Seen)
  BY DEF Inv
<1>10. TableInv(C)
  <2>1. Blank(C)
    BY <1>1, <1>4, <1>6, <1>9 DEF TableInv, Blank, Meanwhile
  <2>2. AbsorbedOwnNothing(C) /\ SoleOwner(C)
    BY <1>1, <1>6, <1>9 DEF TableInv, AbsorbedOwnNothing, SoleOwner
  <2>3. OwnedKeyed(C)
    BY <1>1, <1>6, <1>8, <1>9 DEF TableInv, OwnedKeyed, Follows
  <2>4. InsertedOwned(C)
    <3>1. SUFFICES ASSUME NEW e \in Document, docs'[e].by = "sync", ~docs'[e].reversed
                   PROVE  Owned(C, e)
      BY <1>6 DEF InsertedOwned
    <3>2. docs[e].by = "sync" /\ ~docs[e].reversed
      BY <3>1, <1>4 DEF Meanwhile, Follows
    <3>3. QED
      BY <3>2, <1>1, <1>6, <1>9 DEF TableInv, InsertedOwned, Owned
  <2>5. QED
    BY <2>1, <2>2, <2>3, <2>4 DEF TableInv
<1>11. TableInv(Seen')
  BY <1>7, <1>9, <1>10
<1>12. Behind(C, Seen')
  <2>1. CASE Seen' = C
    BY <2>1, <1>6, SameBehind
  <2>2. CASE Seen' = Seen
    <3>1. AliasesKept(C, Seen) /\ ReleasedReversed(C, Seen)
      BY <1>1, <1>6, <1>9 DEF Behind, AliasesKept, ReleasedReversed, Owned
    <3>2. SUFFICES ASSUME NEW e \in Document
                   PROVE  \/ docs'[e].status = "free"
                          \/ /\ Follows(Seen.docs[e], docs'[e])
                             /\ docs'[e].reversed => Seen.docs[e].reversed
                             /\ Seen.docs[e].status = "free" => docs'[e].by = "user"
      BY <2>2, <3>1, <1>6 DEF Behind, UsersWent
    <3>3. CASE docs[e].status = "free"
      BY <3>3, <1>4 DEF Meanwhile, Follows
    <3>4. CASE docs[e].status # "free"
      <4>1. /\ Follows(Seen.docs[e], docs[e])
            /\ docs[e].reversed => Seen.docs[e].reversed
            /\ Seen.docs[e].status = "free" => docs[e].by = "user"
        BY <3>4, <1>1, <1>9 DEF Behind, UsersWent
      <4>2. /\ Follows(docs[e], docs'[e])
            /\ docs[e] \in Doc /\ docs'[e] \in Doc /\ Seen.docs[e] \in Doc
        BY <1>1, <1>4, <1>8 DEF Tables
      <4>3. Follows(Seen.docs[e], docs'[e])
        BY <4>1, <4>2, FollowsTransitive
      <4>4. QED
        BY <4>1, <4>2, <4>3, <3>4, <1>4 DEF Meanwhile, Follows
    <3>5. QED
      BY <3>3, <3>4
  <2>3. QED
    BY <2>1, <2>2, <1>7
<1>13. CachedFor(batch, Seen)'
  <2>1. SUFFICES ASSUME batch # {}
                 PROVE  /\ \A g \in batch : \A k \in Keys(g) : Seen'.states[k] = cache.states[k]
                        /\ \A e \in Document : Follows(cache.docs[e], Seen'.docs[e])
    BY <1>2 DEF CachedFor
  <2>2. /\ \A g \in batch : \A k \in Keys(g) : Seen.states[k] = cache.states[k]
        /\ \A e \in Document : Follows(cache.docs[e], Seen.docs[e])
    BY <2>1 DEF Inv, CachedFor
  <2>3. CASE Seen' = Seen
    BY <2>2, <2>3
  <2>4. CASE Seen = Committed /\ Seen' = C
    <3>1. cache \in Tables
      BY <2>1 DEF Inv, TypeOK
    <3>2. ASSUME NEW e \in Document PROVE Follows(cache.docs[e], docs'[e])
      <4>1. cache.docs[e] \in Doc /\ docs[e] \in Doc /\ docs'[e] \in Doc
        BY <3>1, <1>4 DEF Tables
      <4>2. QED
        BY <4>1, <2>2, <2>4, <1>1, <1>8, FollowsTransitive
    <3>3. QED
      BY <3>2, <2>2, <2>4, <1>1, <1>6
  <2>5. QED
    BY <2>3, <2>4, <1>7
<1>14. Counted(Committed)' /\ Counted(Seen)'
  <2>1. /\ \A e \in Document : docs[e].modified \in Nat /\ docs'[e].modified \in Nat
                              /\ docs[e].modified <= outside
        /\ \A e \in Document : Seen.docs[e].modified \in Nat /\ Seen.docs[e].modified <= outside
    BY <1>1, <1>4, BoundAssumption DEF Inv, Counted, Tables, Doc
  <2>2. \A e \in Document : docs'[e].modified <= outside'
    BY <2>1, <1>2, <1>3, <1>4 DEF Meanwhile
  <2>3. \A e \in Document : Seen.docs[e].modified <= outside'
    BY <2>1, <1>2, <1>3
  <2>4. Counted(Committed)'
    BY <2>2, <1>1, <1>2, <1>6 DEF Inv, Counted, C
  <2>5. ASSUME Seen' = C PROVE Counted(Seen)'
    BY <2>2, <2>5, <1>1, <1>2, <1>6 DEF Inv, Counted
  <2>6. ASSUME Seen' = Seen PROVE Counted(Seen)'
    BY <2>3, <2>6, <1>2 DEF Inv, Counted
  <2>7. QED
    BY <2>4, <2>5, <2>6, <1>7
<1>15. Quiet'
  BY <1>2 DEF Inv, Quiet
<1>16. QED
  BY <1>5, <1>10, <1>11, <1>12, <1>13, <1>14, <1>15 DEF Inv, C

LEMMA UserKeeps ==
  ASSUME Inv, User
  PROVE  Inv'
<1>1. /\ Committed \in Tables /\ Seen \in Tables /\ Committed.docs = docs
      /\ TableInv(Committed)
  BY SeenTables DEF Inv
<1>2. \A d \in Document : docs[d] \in Doc /\ docs[d].modified \in Nat /\ docs[d].modified <= outside
  BY <1>1, BoundAssumption DEF Tables, Doc, Inv, Counted
<1>3. outside \in Nat
  BY BoundAssumption DEF Inv, TypeOK
<1>4. ASSUME NEW k \in Key, UserInserts(k) PROVE Inv'
  <2>1. PICK d \in First(Unnamed) : UserDid(d, [Absent EXCEPT !.key = k, !.status = "submitted"])
    BY <1>4 DEF UserInserts
  <2> DEFINE new == [Absent EXCEPT !.key = k, !.status = "submitted"]
  <2>2. UserDid(d, new)
    BY <2>1
  <2>3. d \in Document /\ docs[d].status = "free" /\ Seen.docs[d].status = "free"
    BY DEF First, Unnamed
  <2>4. docs[d] = Absent
    BY <2>3, <1>1 DEF TableInv, Blank
  <2>5. /\ Absent \in Doc /\ Absent.by = "user" /\ Absent.modified = 0
        /\ Absent.reversed = FALSE
    BY BoundAssumption DEF Absent, Doc
  <2>6. /\ new \in Doc /\ new.status # "free" /\ new.by = "user" /\ new.modified = 0
        /\ new.reversed = FALSE
    BY <2>5 DEF Doc
  <2> HIDE DEF new
  <2>7. Meanwhile(d, new)
    <3>1. Follows(docs[d], new) /\ new.reversed = docs[d].reversed
      BY <2>3, <2>4, <2>5, <2>6 DEF Follows
    <3>2. new.modified <= outside + 1
      BY <2>6, <1>3
    <3>3. QED
      BY <3>1, <3>2, <2>3, <2>6 DEF Meanwhile
  <2>8. QED
    BY <2>2, <2>3, <2>6, <2>7, UserStep
<1>5. ASSUME NEW d \in Document, NEW new \in Doc, UserDid(d, new),
             docs[d].status # "free", new.status # "free", new.key = docs[d].key,
             new.by = docs[d].by, new.reversed = docs[d].reversed,
             \/ new.modified = docs[d].modified + 1
             \/ new.modified = docs[d].modified /\
                (docs[d].status = "submitted" => new.status = "submitted")
      PROVE  Inv'
  <2>1. /\ docs[d].modified <= new.modified /\ new.modified <= outside + 1
        /\ docs[d].modified = new.modified /\ docs[d].status = "submitted" =>
             new.status = "submitted"
    BY <1>2, <1>3, <1>5
  <2>2. Meanwhile(d, new)
    BY <2>1, <1>5 DEF Meanwhile, Follows
  <2>3. QED
    BY <2>2, <1>5, UserStep
<1>6. \A d \in Document : docs[d].modified <= outside /\ (outside < MaxOutside =>
                            docs[d].modified + 1 \in 0..MaxOutside)
  BY <1>2, <1>3, BoundAssumption
<1>7. ASSUME NEW d \in Document,
             UserEdits(d) \/ UserSubmits(d) \/ UserReverses(d) \/ UserCancels(d) \/ UserDeletes(d)
      PROVE  Inv'
  <2>1. docs[d] \in Doc
    BY <1>2
  <2>2. CASE UserEdits(d)
    <3> DEFINE new == [docs[d] EXCEPT !.modified = docs[d].modified + 1]
    <3>1. UserDid(d, new) /\ docs[d].status # "free" /\ outside < MaxOutside
      BY <2>2 DEF UserEdits, UserDid
    <3>2. /\ new \in Doc /\ new.key = docs[d].key /\ new.status = docs[d].status
          /\ new.by = docs[d].by /\ new.reversed = docs[d].reversed
          /\ new.modified = docs[d].modified + 1
      BY <3>1, <2>1, <1>6 DEF Doc
    <3> HIDE DEF new
    <3>3. QED
      BY <3>1, <3>2, <1>5
  <2>3. CASE UserSubmits(d)
    <3> DEFINE new == [docs[d] EXCEPT !.status = "submitted", !.modified = docs[d].modified + 1]
    <3>1. UserDid(d, new) /\ docs[d].status # "free" /\ outside < MaxOutside
      BY <2>3 DEF UserSubmits, UserDid
    <3>2. /\ new \in Doc /\ new.key = docs[d].key /\ new.status = "submitted"
          /\ new.by = docs[d].by /\ new.reversed = docs[d].reversed
          /\ new.modified = docs[d].modified + 1
      BY <3>1, <2>1, <1>6 DEF Doc
    <3> HIDE DEF new
    <3>3. QED
      BY <3>1, <3>2, <1>5
  <2>4. CASE UserReverses(d)
    <3> DEFINE new == [docs[d] EXCEPT !.outside = TRUE]
    <3>1. UserDid(d, new) /\ docs[d].status # "free"
      BY <2>4 DEF UserReverses
    <3>2. /\ new \in Doc /\ new.key = docs[d].key /\ new.status = docs[d].status
          /\ new.by = docs[d].by /\ new.reversed = docs[d].reversed
          /\ new.modified = docs[d].modified
      BY <2>1 DEF Doc
    <3> HIDE DEF new
    <3>3. QED
      BY <3>1, <3>2, <1>5
  <2>5. CASE UserCancels(d)
    <3> DEFINE new == [docs[d] EXCEPT !.status = "cancelled", !.modified = docs[d].modified + 1]
    <3>1. UserDid(d, new) /\ docs[d].status # "free" /\ outside < MaxOutside
      BY <2>5 DEF UserCancels, UserDid
    <3>2. /\ new \in Doc /\ new.key = docs[d].key /\ new.status = "cancelled"
          /\ new.by = docs[d].by /\ new.reversed = docs[d].reversed
          /\ new.modified = docs[d].modified + 1
      BY <3>1, <2>1, <1>6 DEF Doc
    <3> HIDE DEF new
    <3>3. QED
      BY <3>1, <3>2, <1>5
  <2>6. CASE UserDeletes(d)
    <3> DEFINE new == [docs[d] EXCEPT !.status = "deleted"]
    <3>1. UserDid(d, new) /\ docs[d].status = "draft"
      BY <2>6 DEF UserDeletes
    <3>2. /\ new \in Doc /\ new.key = docs[d].key /\ new.status = "deleted"
          /\ new.by = docs[d].by /\ new.reversed = docs[d].reversed
          /\ new.modified = docs[d].modified
      BY <2>1 DEF Doc
    <3> HIDE DEF new
    <3>3. QED
      BY <3>1, <3>2, <1>5
  <2>7. QED
    BY <2>2, <2>3, <2>4, <2>5, <2>6, <1>7
<1>8. QED
  BY <1>4, <1>7 DEF User

-----------------------------------------------------------------------------
(* The steps of the engine.                                                *)

\* A step that changes neither the tables nor what the batch was read from.
LEMMA StagingKeeps ==
  ASSUME Inv, Start \/ Read \/ Verified \/ Changed
  PROVE  Inv'
<1>1. /\ flags' = flags /\ docs' = docs /\ states' = states /\ view' = view
      /\ batch' = batch /\ cache' = cache /\ outside' = outside /\ faults' = faults
  BY DEF Start, Read, Verified, Changed, tables
<1>2. Committed' = Committed /\ Seen' = Seen
  BY <1>1 DEF Committed, Seen
<1>3. todo = {} /\ batch = {}
  BY DEF Inv, Quiet, Start, Read, Verified, Changed
<1>4. staged' \in Emitted /\ todo' \subseteq staged'
  BY <1>3, NothingEmitted DEF Inv, TypeOK, Start, Read, Verified, Changed
<1>5. /\ phase' \in {"idle", "read", "verify", "batches"} /\ attempts' \in 0..2
      /\ runs' \in 0..MaxRuns /\ runs <= runs' /\ runs \in Nat
      /\ phase' # "batches" => todo' = {}
      /\ phase' \in {"read", "verify"} => phase \in {"read", "verify"} \/ runs < runs'
      /\ todo' # {} => phase \in {"read", "verify"}
  BY <1>3, BoundAssumption DEF Inv, TypeOK, Start, Read, Verified, Changed
<1>6. TypeOK'
  BY <1>1, <1>3, <1>4, <1>5 DEF Inv, TypeOK
<1>7. Quiet'
  BY <1>1, <1>3, <1>5 DEF Quiet
<1>8. ASSUME NEW T \in Tables, Counted(T) PROVE Counted(T)'
  <2>1. \A k \in Key : T.states[k].revision \in Nat
    BY BoundAssumption DEF Tables, State
  <2>2. QED
    BY <2>1, <1>1, <1>3, <1>5, <1>8 DEF Counted
<1>9. Counted(Committed)' /\ Counted(Seen)'
  BY <1>2, <1>8, SeenTables DEF Inv
<1>10. QED
  BY <1>1, <1>2, <1>3, <1>6, <1>7, <1>9 DEF Inv, CachedFor

\* A commit, between two records or at the end.
LEMMA CommitKeeps ==
  ASSUME Inv, Flush \/ Finish
  PROVE  Inv'
<1> DEFINE M == [docs |-> Merge(Seen), states |-> Seen.states]
<1>1. /\ M \in Tables /\ TableInv(M) /\ M.states = Seen.states
      /\ \A d \in Document : Follows(Seen.docs[d], M.docs[d]) /\ M.docs[d].modified <= outside
  BY Merged
<1>2. /\ docs' = M.docs /\ states' = M.states /\ view' = None /\ todo' = todo /\ batch' = batch
      /\ cache' = cache /\ flags' = flags /\ attempts' = attempts /\ runs' = runs
      /\ outside' = outside /\ faults' = faults
      /\ phase = "batches" /\ phase' \in {"batches", "idle"}
  BY DEF Flush, Finish, Commit, progress
<1>3. \/ staged' = staged /\ phase' = "batches"
      \/ staged' = {} /\ todo = {} /\ batch = {}
  BY DEF Flush, Finish, Commit, progress
<1>4. Committed' = M /\ Seen' = M
  BY <1>2 DEF Committed, Seen, Merge
<1> HIDE DEF M
<1>5. TypeOK'
  <2>1. docs' \in [Document -> Doc] /\ states' \in [Key -> State]
    BY <1>1, <1>2 DEF Tables
  <2>2. staged' \in Emitted /\ todo' \subseteq staged' /\ batch' \subseteq staged'
    BY <1>2, <1>3, NothingEmitted DEF Inv, TypeOK
  <2>3. QED
    BY <2>1, <2>2, <1>2 DEF Inv, TypeOK
<1>6. Quiet'
  BY <1>2, <1>3 DEF Quiet
<1>7. Behind(M, M)
  BY <1>1, SameBehind
<1>8. CachedFor(batch, Seen)'
  <2>1. SUFFICES ASSUME batch # {}
                 PROVE  /\ \A g \in batch : \A k \in Keys(g) : M.states[k] = cache.states[k]
                        /\ \A d \in Document : Follows(cache.docs[d], M.docs[d])
    BY <1>2, <1>4 DEF CachedFor
  <2>2. /\ \A g \in batch : \A k \in Keys(g) : Seen.states[k] = cache.states[k]
        /\ \A d \in Document : Follows(cache.docs[d], Seen.docs[d])
    BY <2>1 DEF Inv, CachedFor
  <2>3. cache \in Tables /\ Seen \in Tables
    BY <2>1, SeenTables DEF Inv, TypeOK
  <2>4. \A d \in Document : cache.docs[d] \in Doc /\ Seen.docs[d] \in Doc /\ M.docs[d] \in Doc
    BY <2>3, <1>1 DEF Tables
  <2>5. QED
    BY <2>2, <2>4, <1>1, FollowsTransitive
<1>9. \A k \in Key :
        /\ M.states[k].revision <= runs
        /\ \A g \in todo \cup batch : k \in Keys(g) => M.states[k].revision < runs
  BY <1>1 DEF Inv, Counted
<1>10. Counted(Committed)' /\ Counted(Seen)'
  BY <1>1, <1>2, <1>4, <1>9 DEF Counted
<1>11. QED
  BY <1>1, <1>4, <1>5, <1>6, <1>7, <1>8, <1>10 DEF Inv

LEMMA LoadKeeps ==
  ASSUME Inv, LoadBatch
  PROVE  Inv'
<1>1. /\ Seen \in Tables /\ Committed \in Tables /\ Seen # None
  BY SeenTables DEF Inv
<1>2. /\ flags' = flags /\ docs' = docs /\ states' = states /\ staged' = staged
      /\ phase' = phase /\ attempts' = attempts /\ runs' = runs /\ outside' = outside
      /\ faults' = faults /\ view' = Seen /\ cache' = Seen
      /\ phase = "batches" /\ batch' # {} /\ batch' \subseteq todo /\ todo' = todo \ batch'
  BY DEF LoadBatch
<1>3. Committed' = Committed /\ Seen' = Seen
  BY <1>1, <1>2 DEF Committed, Seen
<1>4. TypeOK'
  BY <1>1, <1>2 DEF Inv, TypeOK
<1>5. Quiet'
  BY <1>2 DEF Quiet
<1>6. \A d \in Document : Follows(Seen.docs[d], Seen.docs[d])
  <2>1. \A d \in Document : Seen.docs[d] \in Doc
    BY <1>1 DEF Tables
  <2>2. QED
    BY <2>1, BoundAssumption DEF Follows, Doc
<1>7. CachedFor(batch, Seen)'
  BY <1>2, <1>3, <1>6 DEF CachedFor
<1>8. Counted(Committed)' /\ Counted(Seen)'
  BY <1>2, <1>3 DEF Inv, Counted
<1>9. QED
  BY <1>3, <1>4, <1>5, <1>7, <1>8 DEF Inv

\* A group that leaves the batch, with the tables T for the rest of it.
LEMMA PlannedKeeps ==
  ASSUME Inv, NEW g \in batch, phase = "batches", Planned(g), NEW T \in Tables, view' = T,
         UNCHANGED <<flags, docs, states, staged, todo, phase, attempts, runs, outside, faults>>,
         TableInv(T), Behind(Committed, T), CachedFor(batch \ {g}, T),
         \A d \in Document : T.docs[d].modified <= outside,
         \A k \in Key : T.states[k].revision <= runs,
         \A h \in (todo \cup batch) \ {g} : \A k \in Keys(h) : T.states[k].revision < runs
  PROVE  Inv' /\ Seen' = T /\ Committed' = Committed
<1>1. Committed' = Committed /\ Seen' = T
  BY TablesAssumption DEF Committed, Seen
<1>2. /\ batch' = batch \ {g} /\ cache' = IF batch' = {} THEN None ELSE cache
  BY DEF Planned
<1>3. TypeOK'
  BY <1>2, TablesAssumption DEF Inv, TypeOK
<1>4. Quiet'
  BY DEF Quiet
<1>5. CachedFor(batch, Seen)'
  BY <1>1, <1>2 DEF CachedFor
<1>6. g \notin todo
  BY DEF Inv, TypeOK
<1>7. Counted(Committed)'
  BY <1>1, <1>2 DEF Inv, Counted
<1>8. Counted(Seen)'
  BY <1>1, <1>2, <1>6 DEF Counted
<1>9. QED
  BY <1>1, <1>3, <1>4, <1>5, <1>7, <1>8 DEF Inv

LEMMA RejectKeeps ==
  ASSUME Inv, NEW g \in batch, phase = "batches", Planned(g), view' = Seen,
         UNCHANGED <<flags, docs, states, staged, todo, phase, attempts, runs, outside, faults>>
  PROVE  Inv' /\ Seen' = Seen /\ Committed' = Committed
<1>1. Seen \in Tables
  BY SeenTables DEF Inv
<1>2. CachedFor(batch \ {g}, Seen)
  BY DEF Inv, CachedFor
<1>3. /\ \A d \in Document : Seen.docs[d].modified <= outside
      /\ \A k \in Key : Seen.states[k].revision <= runs
      /\ \A h \in (todo \cup batch) \ {g} : \A k \in Keys(h) : Seen.states[k].revision < runs
  BY Disjoint DEF Inv, Counted, IsGroup, Keys
<1>4. QED
  BY <1>1, <1>2, <1>3, PlannedKeeps DEF Inv

\* What a step that plans a group does: nothing, or what Applied says.
LEMMA ProcessKeeps ==
  ASSUME Inv, NEW g \in batch, NEW action \in Actions, Process(g, action)
  PROVE  /\ Inv' /\ Committed' = Committed
         /\ \A d \in Document : Seen'.docs[d].reversed /\ ~Seen.docs[d].reversed =>
              /\ d \in Documents(g) /\ Reverses(action) /\ Allowed(Documents(g), action)
              /\ Sound(Documents(g)) /\ Current(g, Documents(g)) /\ Unreversed(Documents(g))
<1> DEFINE held == Documents(g)
<1>1. /\ Planned(g) /\ phase = "batches" /\ Separate(g) /\ Sound(held) /\ Allowed(held, action)
      /\ UNCHANGED <<flags, docs, states, staged, todo, phase, attempts, runs, outside, faults>>
  BY DEF Process
<1>2. CASE view' = Seen
  <2>1. Inv' /\ Seen' = Seen /\ Committed' = Committed
    BY <1>1, <1>2, RejectKeeps
  <2>2. QED
    BY <2>1
<1>3. CASE view' # Seen
  <2>1. PICK new \in IF action \in {"create", "replace"} THEN First(Unnamed) ELSE {None},
             status \in {"draft", "submitted"} :
          view' = [docs |-> AppliedDocs(g, held, action, new, status),
                   states |-> AppliedStates(g, held, action, new)]
    BY <1>3 DEF Process
  <2>2. Current(g, held) /\ (action \in {"reverse", "replace"} => Unreversed(held))
    BY <1>3 DEF Process
  <2>3. Plan(g, action, held, new, status)
    BY <1>1, <2>2 DEF Plan
  <2> DEFINE T == [docs |-> AppliedDocs(g, held, action, new, status),
                   states |-> AppliedStates(g, held, action, new)]
  <2>4. /\ T \in Tables /\ TableInv(T)
        /\ Behind(Committed, T) /\ CachedFor(batch \ {g}, T)
        /\ \A d \in Document : T.docs[d].modified <= outside
        /\ \A k \in Key : T.states[k].revision <= runs
        /\ \A k \in Key \ Keys(g) : T.states[k] = Seen.states[k]
        /\ \A d \in Document : T.docs[d].reversed /\ ~Seen.docs[d].reversed =>
             Reverses(action) /\ d \in held
    BY <2>3, Applied
  <2> HIDE DEF T
  <2>5. ASSUME NEW h \in (todo \cup batch) \ {g}, NEW k \in Keys(h)
        PROVE  T.states[k].revision < runs
    <3>1. k \in Key \ Keys(g)
      BY Disjoint DEF Inv, IsGroup, Keys
    <3>2. QED
      BY <3>1, <2>4 DEF Inv, Counted
  <2>6. view' = T
    BY <2>1 DEF T
  <2>7. Inv' /\ Seen' = T /\ Committed' = Committed
    BY <1>1, <2>4, <2>5, <2>6, PlannedKeeps
  <2>8. QED
    BY <1>1, <2>2, <2>4, <2>7 DEF Reverses
<1>4. QED
  BY <1>2, <1>3

LEMMA CrashKeeps ==
  ASSUME Inv, Crash
  PROVE  Inv'
<1>1. /\ flags' = flags /\ docs' = docs /\ states' = states /\ view' = None /\ cache' = None
      /\ staged' = {} /\ todo' = {} /\ batch' = {} /\ attempts' = 0 /\ phase' = "idle"
      /\ runs' = runs /\ outside' = outside /\ faults' \in 0..MaxFaults
  BY BoundAssumption DEF Crash, Inv, TypeOK
<1>2. Committed' = Committed /\ Seen' = Committed
  BY <1>1 DEF Committed, Seen
<1>3. TypeOK'
  BY <1>1, NothingEmitted DEF Inv, TypeOK
<1>4. Behind(Committed, Committed)
  BY SeenTables, SameBehind DEF Inv
<1>5. Counted(Committed)' /\ Counted(Seen)'
  BY <1>1, <1>2 DEF Inv, Counted
<1>6. QED
  BY <1>1, <1>2, <1>3, <1>4, <1>5 DEF Inv, Quiet, CachedFor

-----------------------------------------------------------------------------
(* The invariant, and what follows from it.                                *)

LEMMA Initially ==
  ASSUME Init
  PROVE  Inv
<1>1. Committed = [docs |-> docs, states |-> states] /\ Seen = Committed
  BY DEF Init, Committed, Seen
<1>2. /\ \A d \in Document : docs[d] = Absent
      /\ \A k \in Key : states[k] = Unwritten
      /\ docs \in [Document -> Doc] /\ states \in [Key -> State]
  BY BoundAssumption DEF Init, Absent, Unwritten, Doc, State
<1>3. TypeOK
  BY <1>2, NothingEmitted, BoundAssumption DEF Init, TypeOK
<1>4. /\ Absent.by = "user" /\ Absent.modified = 0
      /\ Unwritten.revision = 0 /\ Unwritten.alias_of = None /\ Unwritten.documents = {}
  BY DEF Absent, Unwritten
<1>5. TableInv(Committed)
  BY <1>1, <1>2, <1>4 DEF TableInv, Blank, AbsorbedOwnNothing, SoleOwner, OwnedKeyed, InsertedOwned
<1>6. Behind(Committed, Committed)
  BY <1>3, SeenTables, SameBehind
<1>7. Counted(Committed)
  BY <1>1, <1>2, <1>4 DEF Init, Counted
<1>8. QED
  BY <1>1, <1>3, <1>5, <1>6, <1>7 DEF Init, Inv, Quiet, CachedFor

LEMMA Inductive ==
  ASSUME Inv, [Next]_vars
  PROVE  Inv'
<1>1. CASE User
  BY <1>1, UserKeeps
<1>2. CASE Start \/ Read \/ Verified \/ Changed
  BY <1>2, StagingKeeps
<1>3. CASE Flush \/ Finish
  BY <1>3, CommitKeeps
<1>4. CASE LoadBatch
  BY <1>4, LoadKeeps
<1>5. CASE Crash
  BY <1>5, CrashKeeps
<1>6. ASSUME NEW g \in batch, Reject(g) PROVE Inv'
  BY <1>6, RejectKeeps DEF Reject
<1>7. ASSUME NEW g \in batch, NEW action \in Actions, Process(g, action) PROVE Inv'
  BY <1>7, ProcessKeeps
<1>8. CASE UNCHANGED vars
  <2>1. /\ Committed' = Committed /\ Seen' = Seen
        /\ todo' = todo /\ batch' = batch /\ cache' = cache /\ phase' = phase
        /\ runs' = runs /\ outside' = outside
    BY <1>8 DEF vars, Committed, Seen
  <2>2. TypeOK' /\ Quiet'
    BY <1>8 DEF Inv, vars, TypeOK, Quiet
  <2>3. CachedFor(batch, Seen)' /\ Counted(Committed)' /\ Counted(Seen)'
    BY <2>1 DEF Inv, CachedFor, Counted
  <2>4. QED
    BY <2>1, <2>2, <2>3 DEF Inv
<1>9. QED
  BY <1>1, <1>2, <1>3, <1>4, <1>5, <1>6, <1>7, <1>8 DEF Next, Engine

LEMMA InvHolds == Spec => []Inv
BY Initially, Inductive, PTL DEF Spec

\* Every value of the model is one the program can hold, and the bounds are kept.
THEOREM TypeCorrect == Spec => []TypeOK
<1>1. Inv => TypeOK
  BY DEF Inv
<1>2. QED
  BY <1>1, InvHolds, PTL

\* No document belongs to two groups, a document the runtime inserted always to
\* one, and none to a group that was absorbed.
THEOREM OneOwnerEver == Spec => []OneOwner
<1>1. ASSUME Inv PROVE OneOwner
  <2>1. /\ TableInv(Committed) /\ Committed.docs = docs /\ Committed.states = states
    BY <1>1, SeenTables DEF Inv
  <2>2. \A d \in Document : \A j, k \in Owners(d) : j = k
    BY <2>1 DEF Owners, TableInv, SoleOwner
  <2>3. \A d \in Document : docs[d].by = "sync" /\ ~docs[d].reversed => Owners(d) # {}
    BY <2>1 DEF Owners, Owned, TableInv, InsertedOwned
  <2>4. \A k \in Key : states[k].alias_of # None => states[k].documents = {}
    BY <2>1 DEF TableInv, AbsorbedOwnNothing
  <2>5. QED
    BY <2>2, <2>3, <2>4 DEF OneOwner
<1>2. QED
  BY <1>1, InvHolds, PTL

\* The states that are committed change in a commit only.
LEMMA OnlyCommits ==
  ASSUME Inv, [Next]_vars
  PROVE  \/ states' = states
         \/ /\ states' = Seen.states
            /\ \A d \in Document : docs'[d].reversed = Seen.docs[d].reversed
<1>1. CASE Flush \/ Finish
  <2>1. docs' = Merge(Seen) /\ states' = Seen.states
    BY <1>1 DEF Flush, Finish, Commit
  <2>2. QED
    BY <2>1, Merged
<1>2. CASE User
  BY <1>2 DEF User, UserInserts, UserEdits, UserSubmits, UserReverses, UserCancels, UserDeletes,
              UserDid
<1>3. CASE UNCHANGED vars
  BY <1>3 DEF vars
<1>4. CASE \/ Start \/ Read \/ Verified \/ Changed \/ LoadBatch \/ Crash
           \/ \E g \in batch : Reject(g) \/ \E action \in Actions : Process(g, action)
  BY <1>4 DEF Start, Read, Verified, Changed, LoadBatch, Crash, Reject, Process, tables
<1>5. QED
  BY <1>1, <1>2, <1>3, <1>4 DEF Next, Engine

\* A document a group owns stops being anybody's only by a reversal that is
\* committed with it.
THEOREM NothingLetGoEver == Spec => NothingLetGo
<1>1. ASSUME Inv, [Next]_vars, NEW d \in Document, Owners(d) # {}, Owners(d)' = {}
      PROVE  docs'[d].reversed
  <2>1. Committed.states = states /\ ReleasedReversed(Committed, Seen)
    BY <1>1, SeenTables DEF Inv, Behind
  <2>2. \/ states' = states
        \/ states' = Seen.states /\ docs'[d].reversed = Seen.docs[d].reversed
    BY <1>1, OnlyCommits
  <2>3. states' = Seen.states /\ docs'[d].reversed = Seen.docs[d].reversed
    BY <2>2, <1>1 DEF Owners
  <2>4. Owned(Committed, d) /\ ~Owned(Seen, d)
    BY <2>1, <2>3, <1>1 DEF Owners, Owned
  <2>5. QED
    BY <2>1, <2>3, <2>4 DEF ReleasedReversed
<1>2. Inv /\ [Next]_vars =>
        [\A d \in Document : Owners(d) # {} /\ Owners(d)' = {} => docs'[d].reversed]_vars
  BY <1>1
<1>3. QED
  BY <1>2, InvHolds, PTL DEF Spec, NothingLetGo

\* A group that was absorbed stays with the group that absorbed it.
THEOREM AbsorbedStay == Spec => AbsorbedForGood
<1>1. ASSUME Inv, [Next]_vars, NEW k \in Key, states[k].alias_of # None
      PROVE  states'[k].alias_of = states[k].alias_of
  <2>1. Committed.states = states /\ AliasesKept(Committed, Seen)
    BY <1>1, SeenTables DEF Inv, Behind
  <2>2. states' = states \/ states' = Seen.states
    BY <1>1, OnlyCommits
  <2>3. QED
    BY <2>1, <2>2, <1>1 DEF AliasesKept
<1>2. Inv /\ [Next]_vars =>
        [\A k \in Key : states[k].alias_of # None => states'[k].alias_of = states[k].alias_of]_vars
  BY <1>1
<1>3. QED
  BY <1>2, InvHolds, PTL DEF Spec, AbsorbedForGood

\* What a transaction reverses is, as it sees it, what the script was shown.
THEOREM ReversesOnlyShown == Spec => ReversesWhatWasShown
<1>1. ASSUME Inv, [Next]_vars, NEW d \in Document,
             view' # None, view'.docs[d].reversed, ~Seen.docs[d].reversed
      PROVE  /\ Seen.docs[d] = cache.docs[d]
             /\ Seen.docs[d].status = "submitted" /\ ~Seen.docs[d].outside
  <2>1. PICK g \in batch, action \in Actions : Process(g, action)
    <3>1. Seen' = view' /\ Seen' # Seen
      BY <1>1 DEF Seen
    <3>2. view' # view /\ view' # Seen
      BY <3>1, <1>1 DEF Seen
    <3>3. ~User
      BY <3>2 DEF User, UserInserts, UserEdits, UserSubmits, UserReverses, UserCancels,
                  UserDeletes, UserDid
    <3>4. ~Start /\ ~Read /\ ~Verified /\ ~Changed /\ ~LoadBatch /\ ~Flush /\ ~Finish /\ ~Crash
      BY <3>2, <1>1 DEF Start, Read, Verified, Changed, LoadBatch, Flush, Finish, Crash, Commit,
                        tables
    <3>5. ~ \E g \in batch : Reject(g)
      BY <3>2 DEF Reject
    <3>6. vars' # vars
      BY <3>2 DEF vars
    <3>7. QED
      BY <3>3, <3>4, <3>5, <3>6, <1>1 DEF Next, Engine
  <2> DEFINE held == Documents(g)
  <2>2. /\ d \in held /\ Reverses(action) /\ Allowed(held, action)
        /\ Sound(held) /\ Current(g, held) /\ Unreversed(held)
    <3>1. Seen'.docs[d].reversed
      BY <1>1 DEF Seen
    <3>2. QED
      BY <3>1, <2>1, <1>1, ProcessKeeps
  <2>3. /\ cache.docs[d].status = "submitted" /\ ~cache.docs[d].outside /\ ~cache.docs[d].reversed
        /\ Seen.docs[d].modified = cache.docs[d].modified
        /\ ~Seen.docs[d].outside /\ ~Seen.docs[d].reversed
    BY <2>2 DEF Reverses, Allowed, Sound, Current, Unreversed
  <2>4. Follows(cache.docs[d], Seen.docs[d])
    BY <2>1, <1>1 DEF Inv, CachedFor
  <2>5. /\ Seen.docs[d].status = "submitted"
        /\ Seen.docs[d].key = cache.docs[d].key /\ Seen.docs[d].by = cache.docs[d].by
    BY <2>3, <2>4 DEF Follows
  <2>6. Seen.docs[d] \in Doc /\ cache.docs[d] \in Doc
    <3>1. Seen \in Tables /\ cache \in Tables
      BY <2>1, <1>1, SeenTables DEF Inv, TypeOK
    <3>2. QED
      BY <3>1 DEF Tables
  <2>7. QED
    BY <2>3, <2>5, <2>6 DEF Doc
<1>2. Inv /\ [Next]_vars =>
        [\A d \in Document :
           view' # None /\ view'.docs[d].reversed /\ ~Seen.docs[d].reversed =>
             /\ Seen.docs[d] = cache.docs[d]
             /\ Seen.docs[d].status = "submitted" /\ ~Seen.docs[d].outside]_vars
  BY <1>1
<1>3. QED
  BY <1>2, InvHolds, PTL DEF Spec, ReversesWhatWasShown
=============================================================================
