------------------------- MODULE ArtifactStore_proofs -------------------------
(***************************************************************************)
(* Theorems about ArtifactStore, for any uploads and contents: the         *)
(* inductive invariant, what it gives, and what the inspection guarantees  *)
(* about archives of any size.                                             *)
(***************************************************************************)
EXTENDS ArtifactStore, FiniteSetTheorems, WellFoundedInduction, TLAPS

(* A request names a content and a kind. *)
LEMMA Asked ==
  ASSUME TypeOK, NEW u \in Uploads
  PROVE  Content(u) \in Contents /\ Kind(u) \in Kinds /\ Kind(u) # NoKind
  BY ConstantsAssumption DEF TypeOK, Content, Kind

LEMMA InitIndInv == Init => IndInv
<1> SUFFICES ASSUME Init PROVE IndInv
  OBVIOUS
<1>1. TypeOK
  BY ConstantsAssumption DEF Init, TypeOK
<1>2. SourceKept /\ RowHasBlob /\ RowWasInspected
  BY DEF Init, SourceKept, RowHasBlob, RowWasInspected
<1>3. Placed /\ Inspected /\ Found
  BY DEF Init, Placed, Inspected, Found
<1>4. WriterInserted /\ WriterIsFirst /\ Tidy
  BY ConstantsAssumption DEF Init, WriterInserted, WriterIsFirst, Tidy
<1> QED
  BY <1>1, <1>2, <1>3, <1>4 DEF IndInv

(* An upload that works on its temporary file changes nothing it shares. *)
LEMMA OwnFile ==
  ASSUME IndInv, NEW u \in Uploads,
         \/ Begin(u) \/ Refuse(u) \/ Read(u) \/ ReadFails(u) \/ Inspect(u) \/ Reject(u)
         \/ Absent(u) \/ PlaceFails(u)
  PROVE  IndInv'
<1> USE DEF Begin, Refuse, Read, ReadFails, Inspect, Reject, Absent, PlaceFails, Goto, Temporary
<1>1. TypeOK'
  BY DEF IndInv, TypeOK, Working, Ended, Raised
<1>2. (RowHasBlob /\ RowWasInspected /\ SourceKept)'
  BY DEF IndInv, RowHasBlob, RowWasInspected, SourceKept, Content
<1>3. Placed' /\ Found'
  BY DEF IndInv, TypeOK, Placed, Found, Content
<1>4. Inspected'
  BY DEF IndInv, TypeOK, Inspected, Acceptable, Content, Kind
<1>5. WriterInserted' /\ WriterIsFirst'
  BY DEF IndInv, TypeOK, WriterInserted, WriterIsFirst, Content
<1>6. Tidy'
  BY DEF IndInv, TypeOK, Tidy, Raised
<1> QED
  BY <1>1, <1>2, <1>3, <1>4, <1>5, <1>6 DEF IndInv

(* The bytes are in the store before the row is looked for. *)
LEMMA ToTheStore ==
  ASSUME IndInv, NEW u \in Uploads, Reuse(u) \/ Replace(u)
  PROVE  IndInv'
<1> USE DEF Reuse, Replace, Goto, Temporary
<1>0. Content(u) \in Contents
  BY Asked DEF IndInv
<1>1. TypeOK'
  BY <1>0 DEF IndInv, TypeOK, Working
<1>2. (RowHasBlob /\ RowWasInspected /\ SourceKept)'
  BY DEF IndInv, RowHasBlob, RowWasInspected, SourceKept, Content
<1>3. Placed' /\ Found'
  BY DEF IndInv, TypeOK, Placed, Found, Content
<1>4. Inspected'
  BY DEF IndInv, TypeOK, Inspected, Acceptable, Content, Kind
<1>5. WriterInserted' /\ WriterIsFirst'
  BY DEF IndInv, TypeOK, WriterInserted, WriterIsFirst, Content
<1>6. Tidy'
  BY DEF IndInv, TypeOK, Tidy, Raised
<1> QED
  BY <1>1, <1>2, <1>3, <1>4, <1>5, <1>6 DEF IndInv

(* Looking for the row, and giving up, leave the store as it was. *)
LEMMA Looking ==
  ASSUME IndInv, NEW u \in Uploads,
         Find(u) \/ Miss(u) \/ Conflict(u) \/ Locked(u)
  PROVE  IndInv'
<1> USE DEF Find, Miss, Conflict, Locked, Goto
<1>1. TypeOK'
  BY DEF IndInv, TypeOK, Working, Ended, Raised
<1>2. (RowHasBlob /\ RowWasInspected /\ SourceKept)'
  BY DEF IndInv, RowHasBlob, RowWasInspected, SourceKept, Content
<1>3. Placed' /\ Found'
  BY DEF IndInv, TypeOK, Placed, Found, Content, Recorded
<1>4. Inspected'
  BY DEF IndInv, TypeOK, Inspected, Acceptable, Content, Kind
<1>5. WriterInserted' /\ WriterIsFirst'
  BY DEF IndInv, TypeOK, WriterInserted, WriterIsFirst, Content
<1>6. Tidy'
  BY DEF IndInv, TypeOK, Tidy, Raised
<1> QED
  BY <1>1, <1>2, <1>3, <1>4, <1>5, <1>6 DEF IndInv

(* The write lock: taken with the insert, given back with the rollback.    *)
LEMMA Writing ==
  ASSUME IndInv, NEW u \in Uploads, Insert(u) \/ Rollback(u)
  PROVE  IndInv'
<1> USE DEF Insert, Rollback, Goto
<1>1. TypeOK'
  BY DEF IndInv, TypeOK, Working, Ended, Raised
<1>2. (RowHasBlob /\ RowWasInspected /\ SourceKept)'
  BY DEF IndInv, RowHasBlob, RowWasInspected, SourceKept, Content
<1>3. Placed' /\ Found'
  BY DEF IndInv, TypeOK, Placed, Found, Content
<1>4. Inspected'
  BY DEF IndInv, TypeOK, Inspected, Acceptable, Content, Kind
<1>5. WriterInserted' /\ WriterIsFirst'
  BY ConstantsAssumption DEF IndInv, TypeOK, WriterInserted, WriterIsFirst, Content
<1>6. Tidy'
  BY DEF IndInv, TypeOK, Tidy, Raised
<1> QED
  BY <1>1, <1>2, <1>3, <1>4, <1>5, <1>6 DEF IndInv

(* The slicer's file goes when its bytes are known to be in the store. *)
LEMMA Unlinking ==
  ASSUME IndInv, NEW u \in Uploads, Unlink(u)
  PROVE  IndInv'
<1> USE DEF Unlink
<1>1. Content(u) \in blobs
  BY DEF IndInv, Placed
<1>2. SourceKept'
  BY <1>1 DEF IndInv, SourceKept, Content
<1>3. TypeOK' /\ Tidy'
  BY DEF IndInv, TypeOK, Tidy
<1>4. (RowHasBlob /\ RowWasInspected /\ Placed /\ Inspected /\ Found)'
  BY DEF IndInv, RowHasBlob, RowWasInspected, Placed, Inspected, Found, Acceptable, Content, Kind
<1>5. WriterInserted' /\ WriterIsFirst'
  BY DEF IndInv, WriterInserted, WriterIsFirst, Content
<1> QED
  BY <1>2, <1>3, <1>4, <1>5 DEF IndInv

(* The commit publishes a row whose bytes were inspected and are placed.   *)
LEMMA Committing ==
  ASSUME IndInv, NEW u \in Uploads, Commit(u)
  PROVE  IndInv'
<1>1. CASE pc[u] = "found"
  <2> USE <1>1 DEF Commit, Goto
  <2>1. TypeOK' /\ Tidy'
    BY DEF IndInv, TypeOK, Tidy, Ended, Raised
  <2>2. (RowHasBlob /\ RowWasInspected /\ SourceKept)'
    BY DEF IndInv, RowHasBlob, RowWasInspected, SourceKept, Content
  <2>3. Placed' /\ Found'
    BY DEF IndInv, TypeOK, Placed, Found, Content
  <2>4. Inspected'
    BY DEF IndInv, TypeOK, Inspected, Acceptable, Content, Kind
  <2>5. WriterInserted' /\ WriterIsFirst'
    BY DEF IndInv, TypeOK, WriterInserted, WriterIsFirst, Content
  <2> QED
    BY <2>1, <2>2, <2>3, <2>4, <2>5 DEF IndInv
<1>2. CASE pc[u] = "inserted"
  <2> USE <1>2 DEF Commit, Goto
  <2>0. /\ Content(u) \in Contents /\ Kind(u) \in Kinds /\ Kind(u) # NoKind
        /\ Content(u) \in blobs /\ <<Content(u), Kind(u)>> \in Valid
    BY Asked DEF IndInv, Placed, Inspected, Acceptable
  <2>1. TypeOK' /\ Tidy'
    BY <2>0 DEF IndInv, TypeOK, Tidy, Ended, Raised
  <2>2. (RowHasBlob /\ RowWasInspected /\ SourceKept)'
    BY <2>0 DEF IndInv, TypeOK, RowHasBlob, RowWasInspected, SourceKept, Content
  <2>3. row' = [row EXCEPT ![Content(u)] = Kind(u)] /\ pc' = [pc EXCEPT ![u] = "stored"]
        /\ request' = request /\ blobs' = blobs
    BY DEF Commit
  <2>4. Placed'
    BY <2>0, <2>3 DEF IndInv, TypeOK, Placed, Content
  <2>5. Found'
    <3> SUFFICES ASSUME NEW v \in Uploads, pc'[v] \in {"found", "stored"}
                 PROVE  row'[Content(v)] # NoKind
      BY <2>3 DEF Found, Content
    <3>1. Content(v) \in Contents
      BY Asked DEF IndInv
    <3>2. v = u \/ row[Content(v)] # NoKind
      BY <2>3 DEF IndInv, TypeOK, Found
    <3> QED
      BY <2>0, <2>3, <3>1, <3>2 DEF IndInv, TypeOK
  <2>6. Inspected'
    BY <2>3 DEF IndInv, TypeOK, Inspected, Acceptable, Content, Kind
  <2>7. WriterInserted' /\ WriterIsFirst'
    BY ConstantsAssumption DEF IndInv, TypeOK, WriterInserted, WriterIsFirst, Content
  <2> QED
    BY <2>1, <2>2, <2>4, <2>5, <2>6, <2>7 DEF IndInv
<1> QED
  BY <1>1, <1>2 DEF Commit, Goto

(* A crash frees the lock and leaves every promise kept. *)
LEMMA Crashing ==
  ASSUME IndInv, Crash
  PROVE  IndInv'
<1> USE DEF Crash
<1>1. TypeOK'
  BY DEF IndInv, TypeOK, Working, Ended, Raised
<1>2. (RowHasBlob /\ RowWasInspected /\ SourceKept)'
  BY DEF IndInv, RowHasBlob, RowWasInspected, SourceKept, Content
<1>3. Placed' /\ Found'
  BY DEF IndInv, Placed, Found, Content, Working
<1>4. Inspected'
  BY DEF IndInv, Inspected, Working
<1>5. WriterInserted' /\ WriterIsFirst'
  BY ConstantsAssumption DEF WriterInserted, WriterIsFirst, Working
<1>6. Tidy'
  BY DEF IndInv, Tidy, Working, Raised
<1> QED
  BY <1>1, <1>2, <1>3, <1>4, <1>5, <1>6 DEF IndInv

LEMMA NextIndInv == IndInv /\ [Next]_vars => IndInv'
<1> SUFFICES ASSUME IndInv, [Next]_vars PROVE IndInv'
  OBVIOUS
<1>1. CASE Crash
  BY <1>1, Crashing
<1>2. ASSUME NEW u \in Uploads, Step(u) PROVE IndInv'
  BY <1>2, OwnFile, ToTheStore, Looking, Writing, Unlinking, Committing DEF Step
<1>3. CASE UNCHANGED vars
  BY <1>3 DEF vars, IndInv, TypeOK, RowHasBlob, RowWasInspected, SourceKept, Placed, Inspected,
     Found, WriterInserted, WriterIsFirst, Tidy, Acceptable, Content, Kind
<1> QED
  BY <1>1, <1>2, <1>3 DEF Next

(* Whatever races or crashes, the store keeps its inductive invariant.     *)
THEOREM Inductive == Spec => []IndInv
<1> QED
  BY InitIndInv, NextIndInv, PTL DEF Spec

(* A committed row has its file: artifacts.py moves the bytes in place     *)
(* before it looks for or adds the row.                                    *)
THEOREM BlobBeforeRow == Spec => []RowHasBlob
<1>1. IndInv => RowHasBlob
  BY DEF IndInv
<1> QED
  BY <1>1, Inductive, PTL

(* The kind in a row is one its bytes were inspected as, however many      *)
(* uploads of other kinds shared the file.                                 *)
THEOREM KindIsValid == Spec => []RowWasInspected
<1>1. IndInv => RowWasInspected
  BY DEF IndInv
<1> QED
  BY <1>1, Inductive, PTL

(* An upload that was answered has its row and its file for good.          *)
THEOREM Stored == Spec => []StoredForGood
<1>1. IndInv => StoredForGood
  BY DEF IndInv, StoredForGood, Found, Placed
<1> QED
  BY <1>1, Inductive, PTL

(* However many uploads race, each removes its temporary file, unless the  *)
(* process is killed or the file system refuses to move it to its place.   *)
THEOREM TemporaryRemoved == Spec => []NoTemporaryLeft
<1>1. IndInv => NoTemporaryLeft
  BY DEF IndInv, Tidy, NoTemporaryLeft, Ended, Raised
<1> QED
  BY <1>1, Inductive, PTL

(* ingest_existing_file removes a file only when the store has its bytes.  *)
THEOREM SourceIsKept == Spec => []SourceKept
<1>1. IndInv => SourceKept
  BY DEF IndInv
<1> QED
  BY <1>1, Inductive, PTL

(* No upload, no crash and no race changes a committed row.                *)
THEOREM Immutable == Spec => RowsAreImmutable
<1>1. ASSUME IndInv, [Next]_vars, NEW c \in Contents, row[c] # NoKind
      PROVE  row'[c] = row[c]
  <2>1. CASE Crash \/ UNCHANGED vars
    BY <1>1, <2>1 DEF Crash, vars
  <2>2. ASSUME NEW u \in Uploads, Step(u) PROVE row'[c] = row[c]
    <3>1. CASE Commit(u)
      <4>1. pc[u] = "inserted" => Content(u) # c
        BY <1>1, <3>1, ConstantsAssumption DEF IndInv, TypeOK, WriterInserted, WriterIsFirst
      <4> QED
        BY <1>1, <3>1, <4>1 DEF Commit, Goto, IndInv, TypeOK
    <3>2. CASE ~Commit(u)
      BY <2>2, <3>2 DEF Step, Begin, Refuse, Read, ReadFails, Inspect, Reject, Reuse, Absent, Replace,
         PlaceFails, Find, Miss, Insert, Conflict, Locked, Unlink, Rollback
    <3> QED
      BY <3>1, <3>2
  <2> QED
    BY <1>1, <2>1, <2>2 DEF Next
<1>2. IndInv /\ [Next]_vars => [\A c \in Contents : row[c] # NoKind => row'[c] = row[c]]_vars
  BY <1>1
<1> QED
  BY <1>2, Inductive, PTL DEF Spec, RowsAreImmutable
-----------------------------------------------------------------------------
(* Sums of sizes.  The folds of the community modules are recursive        *)
(* functions on sets; a smallest counterexample refutes what is claimed of *)
(* all finite sets, so no induction theorem is needed.                     *)
LEMMA Smallest ==
  ASSUME NEW D, IsFiniteSet(D), NEW T, T \subseteq SUBSET D, T # {}
  PROVE  \E s \in T : \A t \in T : t \subseteq s => t = s
<1>1. IsWellFoundedOn(StrictSubsetOrdering(D), SUBSET D)
  BY FS_StrictSubsetOrderingWellFounded, FS_FiniteSubsetsOfFinite
<1>2. PICK s \in T : \A t \in T : <<t, s>> \notin StrictSubsetOrdering(D)
  BY <1>1, WFMin
<1>3. ASSUME NEW t \in T, t \subseteq s, t # s PROVE FALSE
  <2>1. <<t, s>> \in StrictSubsetOrdering(D)
    BY <1>3 DEF StrictSubsetOrdering
  <2> QED BY <1>2, <2>1
<1> QED BY <1>3

(* total is the sum of f over every subset of D: what it adds is an        *)
(* element's value, whichever element is left out.                         *)
IsSum(total, f, D) ==
  /\ total \in [SUBSET D -> Nat]
  /\ total[{}] = 0
  /\ \A s \in SUBSET D : \A x \in s : total[s] = f[x] + total[s \ {x}]

LEMMA SumExists ==
  ASSUME NEW D, IsFiniteSet(D), NEW f \in [D -> Nat]
  PROVE  \E total : IsSum(total, f, D)
<1> DEFINE T == {s \in SUBSET D : ~\E total : IsSum(total, f, s)}
<1> SUFFICES ASSUME T # {} PROVE FALSE
  OBVIOUS
<1>1. PICK s \in T : \A t \in T : t \subseteq s => t = s
  <2>1. T \subseteq SUBSET D
    OBVIOUS
  <2> HIDE DEF T
  <2> QED BY <2>1, Smallest
<1>2. CASE s = {}
  <2> DEFINE zero == [t \in SUBSET s |-> 0]
  <2>1. IsSum(zero, f, s)
    BY <1>2 DEF IsSum
  <2> QED BY <2>1
<1>3. CASE s # {}
  <2>1. PICK e \in s : TRUE
    BY <1>3
  <2>2. PICK rest : IsSum(rest, f, s \ {e})
    <3>1. s \ {e} \notin T
      <4> HIDE DEF T
      <4> QED BY <1>1, <2>1
    <3> QED BY <3>1
  <2> DEFINE total == [t \in SUBSET s |-> rest[t \ {e}] + IF e \in t THEN f[e] ELSE 0]
  <2>3. f[e] \in Nat /\ \A t \in SUBSET s : rest[t \ {e}] \in Nat
    BY <2>2 DEF IsSum
  <2>4. total \in [SUBSET s -> Nat]
    BY <2>3
  <2>5. total[{}] = 0
    <3>1. {} \ {e} = {}
      OBVIOUS
    <3> QED BY <2>2, <3>1 DEF IsSum
  <2>6. ASSUME NEW t \in SUBSET s, NEW x \in t
        PROVE  total[t] = f[x] + total[t \ {x}]
    <3>1. t \ {x} \in SUBSET s /\ f[x] \in Nat
      OBVIOUS
    <3>2. CASE x = e
      <4>1. (t \ {x}) \ {e} = t \ {e} /\ e \notin t \ {x}
        BY <3>2
      <4>2. total[t \ {x}] = rest[t \ {e}] + 0
        BY <3>1, <4>1
      <4>3. total[t] = rest[t \ {e}] + f[e]
        BY <3>2
      <4> HIDE DEF total
      <4> QED BY <2>3, <3>2, <4>2, <4>3
    <3>3. CASE x # e
      <4>1. (t \ {x}) \ {e} = (t \ {e}) \ {x} /\ (e \in t \ {x} <=> e \in t)
        BY <3>3
      <4>2. rest[t \ {e}] = f[x] + rest[(t \ {e}) \ {x}]
        BY <2>2, <3>3 DEF IsSum
      <4>3. total[t \ {x}] = rest[(t \ {e}) \ {x}] + IF e \in t THEN f[e] ELSE 0
        BY <3>1, <4>1
      <4>4. rest[(t \ {e}) \ {x}] \in Nat
        BY <2>2 DEF IsSum
      <4>5. total[t] = rest[t \ {e}] + IF e \in t THEN f[e] ELSE 0
        OBVIOUS
      <4> HIDE DEF total
      <4> QED BY <2>3, <3>1, <4>2, <4>3, <4>4, <4>5
    <3> QED BY <3>2, <3>3
  <2>7. IsSum(total, f, s)
    <3> HIDE DEF total
    <3> QED BY <2>4, <2>5, <2>6 DEF IsSum
  <2> QED BY <2>7
<1> QED BY <1>2, <1>3

(* A fold that takes the elements in any order ends with the sum.          *)
LEMMA FoldIsSum ==
  ASSUME NEW D, IsFiniteSet(D), NEW f \in [D -> Nat], NEW total, IsSum(total, f, D),
         NEW fold, fold[{}] = 0,
         \A s \in SUBSET D : s # {} =>
           \E x \in s : fold[s \ {x}] \in Nat => fold[s] = f[x] + fold[s \ {x}]
  PROVE  fold[D] = total[D]
<1> DEFINE T == {s \in SUBSET D : fold[s] # total[s]}
<1> SUFFICES ASSUME T # {} PROVE FALSE
  OBVIOUS
<1>1. PICK s \in T : \A t \in T : t \subseteq s => t = s
  <2>1. T \subseteq SUBSET D
    OBVIOUS
  <2> HIDE DEF T
  <2> QED BY <2>1, Smallest
<1>2. s # {}
  BY DEF IsSum
<1>3. PICK x \in s : fold[s \ {x}] \in Nat => fold[s] = f[x] + fold[s \ {x}]
  BY <1>2
<1>4. fold[s \ {x}] = total[s \ {x}]
  BY <1>1
<1>5. total[s \ {x}] \in Nat /\ total[s] = f[x] + total[s \ {x}]
  BY DEF IsSum
<1> QED BY <1>3, <1>4, <1>5

(* The fold over a sequence takes the largest index first.                 *)
LEMMA MaxIn ==
  ASSUME NEW D, IsFiniteSet(D), \A x \in D : x \in Nat, NEW s \in SUBSET D, s # {}
  PROVE  Max(s) \in s
<1> DEFINE Largest(t) == \E x \in t : \A y \in t : x >= y
           T == {t \in SUBSET D : t # {} /\ ~Largest(t)}
<1>1. ASSUME T # {} PROVE FALSE
  <2>1. T \subseteq SUBSET D
    OBVIOUS
  <2>2. \E t \in T : \A u \in T : u \subseteq t => u = t
    <3> HIDE DEF T
    <3> QED BY <1>1, <2>1, Smallest
  <2>3. PICK t \in T : \A u \in T : u \subseteq t => u = t
    BY <2>2
  <2>4. t \in SUBSET D /\ t # {} /\ ~Largest(t)
    OBVIOUS
  <2>5. PICK x \in t : TRUE
    BY <2>4
  <2>6. t \ {x} # {}
    BY <2>4, <2>5
  <2>7. Largest(t \ {x})
    <3>1. t \ {x} \notin T
      <4> HIDE DEF T
      <4> QED BY <2>3, <2>5
    <3> HIDE DEF Largest
    <3> QED BY <2>4, <2>6, <3>1
  <2>8. PICK y \in t \ {x} : \A z \in t \ {x} : y >= z
    BY <2>7
  <2>9. x \in Nat /\ y \in Nat /\ t \subseteq Nat
    BY <2>4
  <2> QED BY <2>4, <2>8, <2>9
<1>2. Largest(s)
  <2> HIDE DEF Largest
  <2> QED BY <1>1
<1> QED BY <1>2 DEF Max

(* The loop's total after the last entry is the sum of all sizes.          *)
LEMMA TotalIsSum ==
  ASSUME NEW entries \in Seq(Entries), Len(entries) > 0
  PROVE  /\ Uncompressed(entries, Len(entries)) =
              FoldFunction(+, 0, [i \in DOMAIN entries |-> entries[i].file_size])
         /\ Uncompressed(entries, Len(entries)) \in Nat
<1> DEFINE D == DOMAIN entries
           f == [i \in D |-> entries[i].file_size]
           First(s) == CHOOSE x \in s : TRUE
           LoopOf(it) == it = [s \in SUBSET D |-> IF s = {} THEN 0
                               ELSE it[s \ {Max(s)}] + entries[Max(s)].file_size]
           FoldOf(it) == it = [s \in SUBSET D |-> IF s = {} THEN 0
                               ELSE f[First(s)] + it[s \ {First(s)}]]
<1>1. D = 1..Len(entries) /\ Len(entries) \in Nat
  OBVIOUS
<1>2. IsFiniteSet(D) /\ \A x \in D : x \in Nat
  BY <1>1, FS_Interval
<1>3. f \in [D -> Nat] /\ \A i \in D : f[i] = entries[i].file_size
  <2>1. \A i \in D : entries[i] \in Entries
    OBVIOUS
  <2>2. \A e \in Entries : e.file_size \in Nat
    BY DEF Entries
  <2> HIDE DEF D
  <2> QED BY <2>1, <2>2
<1>4. PICK total : IsSum(total, f, D)
  <2> HIDE DEF D, f
  <2> QED BY <1>2, <1>3, SumExists
<1>5. (CHOOSE it : LoopOf(it))[D] = total[D]
  <2> DEFINE it == CHOOSE it : LoopOf(it)
  <2>1. \A s \in SUBSET D : s # {} => Max(s) \in s
    <3> HIDE DEF D
    <3> QED BY <1>2, MaxIn
  <2>2. LoopOf(total)
    <3>1. total = [s \in SUBSET D |-> total[s]]
      BY <1>4 DEF IsSum
    <3>2. ASSUME NEW s \in SUBSET D
          PROVE  total[s] = IF s = {} THEN 0 ELSE total[s \ {Max(s)}] + entries[Max(s)].file_size
      <4>1. CASE s = {}
        BY <1>4, <4>1 DEF IsSum
      <4>2. CASE s # {}
        <5>1. Max(s) \in s /\ Max(s) \in D
          BY <2>1, <4>2
        <5>2. total[s] = f[Max(s)] + total[s \ {Max(s)}]
          BY <1>4, <5>1 DEF IsSum
        <5>3. total[s \ {Max(s)}] \in Nat /\ f[Max(s)] \in Nat
          BY <1>3, <1>4, <5>1 DEF IsSum
        <5>4. f[Max(s)] = entries[Max(s)].file_size
          BY <1>3, <5>1
        <5> HIDE DEF f, D
        <5> QED BY <4>2, <5>2, <5>3, <5>4
      <4> QED BY <4>1, <4>2
    <3> HIDE DEF D, f
    <3> QED BY <3>1, <3>2
  <2>3. LoopOf(it)
    <3> HIDE DEF LoopOf
    <3> QED BY <2>2
  <2> HIDE DEF it
  <2>4. it[{}] = 0
    BY <2>3
  <2>5. ASSUME NEW s \in SUBSET D, s # {}
        PROVE  \E x \in s : it[s \ {x}] \in Nat => it[s] = f[x] + it[s \ {x}]
    <3>1. Max(s) \in s /\ Max(s) \in D
      BY <2>1, <2>5
    <3>2. it[s] = it[s \ {Max(s)}] + entries[Max(s)].file_size
      BY <2>3, <2>5
    <3>3. f[Max(s)] \in Nat /\ f[Max(s)] = entries[Max(s)].file_size
      BY <1>3, <3>1
    <3>4. it[s \ {Max(s)}] \in Nat => it[s] = f[Max(s)] + it[s \ {Max(s)}]
      <4> HIDE DEF f, D
      <4> QED BY <3>2, <3>3
    <3> QED BY <3>1, <3>4
  <2>6. it[D] = total[D]
    <3> HIDE DEF D, f
    <3> QED BY <1>2, <1>3, <1>4, <2>4, <2>5, FoldIsSum
  <2> QED BY <2>6 DEF it
<1>6. (CHOOSE it : FoldOf(it))[D] = total[D]
  <2> DEFINE it == CHOOSE it : FoldOf(it)
  <2>1. \A s \in SUBSET D : s # {} => First(s) \in s
    OBVIOUS
  <2> HIDE DEF First
  <2>2. FoldOf(total)
    <3>1. total = [s \in SUBSET D |-> total[s]]
      BY <1>4 DEF IsSum
    <3>2. ASSUME NEW s \in SUBSET D
          PROVE  total[s] = IF s = {} THEN 0 ELSE f[First(s)] + total[s \ {First(s)}]
      BY <1>4, <2>1 DEF IsSum
    <3> HIDE DEF D, f
    <3> QED BY <3>1, <3>2
  <2>3. FoldOf(it)
    <3> HIDE DEF FoldOf
    <3> QED BY <2>2
  <2> HIDE DEF it
  <2>4. it[{}] = 0
    BY <2>3
  <2>5. ASSUME NEW s \in SUBSET D, s # {}
        PROVE  \E x \in s : it[s \ {x}] \in Nat => it[s] = f[x] + it[s \ {x}]
    <3>1. First(s) \in s
      BY <2>1, <2>5
    <3>2. it[s] = f[First(s)] + it[s \ {First(s)}]
      BY <2>3, <2>5
    <3> QED BY <3>1, <3>2
  <2>6. it[D] = total[D]
    <3> HIDE DEF D, f
    <3> QED BY <1>2, <1>3, <1>4, <2>4, <2>5, FoldIsSum
  <2> QED BY <2>6 DEF it
<1>7. Uncompressed(entries, Len(entries)) = (CHOOSE it : LoopOf(it))[D]
  <2>1. SubSeq(entries, 1, Len(entries)) = entries
    OBVIOUS
  <2> QED BY <2>1 DEF Uncompressed, FoldLeft, MapThenFoldSet
<1>8. FoldFunction(+, 0, f) = (CHOOSE it : FoldOf(it))[D]
  BY DEF FoldFunction, FoldFunctionOnSet, MapThenFoldSet
<1>9. total[D] \in Nat
  BY <1>4 DEF IsSum
<1> QED BY <1>5, <1>6, <1>7, <1>8, <1>9
(* What inspect_path accepts can be used as what it was accepted as.       *)
LEMMA AcceptedArchive ==
  ASSUME NEW bytes \in [archive : Seq(Entries)], NEW kind \in {"3mf", "gcode-3mf"},
         validate(bytes.archive, kind = "gcode-3mf")
  PROVE  Usable(bytes, kind)
<1> DEFINE entries == bytes.archive
<1>1. /\ entries \in Seq(Entries) /\ Len(entries) \in Nat /\ Len(entries) > 0
      /\ DOMAIN entries = 1..Len(entries)
      /\ \A i \in DOMAIN entries : Admitted(entries, i)
      /\ IF kind = "gcode-3mf" THEN \E e \in ToSet(entries) : Part(e) = "gcode"
                               ELSE \E e \in ToSet(entries) : Part(e) = "model"
  <2>1. entries \in Seq(Entries)
    OBVIOUS
  <2>2. Len(entries) \in 1..MaxEntries /\ MaxEntries \in Nat
    BY LimitsAssumption DEF validate
  <2>3. \A i \in DOMAIN entries : Admitted(entries, i)
    BY DEF validate
  <2>4. IF kind = "gcode-3mf" THEN \E e \in ToSet(entries) : Part(e) = "gcode"
                             ELSE \E e \in ToSet(entries) : Part(e) = "model"
    BY DEF validate
  <2> HIDE DEF entries
  <2> QED BY <2>1, <2>2, <2>3, <2>4
<1>2. Files(bytes) = ToSet(entries)
  BY DEF Files, ToSet
<1> HIDE DEF entries
<1>3. ASSUME NEW e \in ToSet(entries)
      PROVE  e.confined /\ ~e.link /\ e.file_size \in 0..(MaxRatio * e.compress_size)
  <2>1. PICK i \in DOMAIN entries : e = entries[i]
    BY <1>3 DEF ToSet
  <2>2. e.confined /\ ~e.link /\ Expandable(e)
    BY <1>1, <2>1 DEF Admitted
  <2>3. e \in Entries
    BY <1>1, <2>1
  <2>4. e.file_size \in Nat /\ e.compress_size \in Nat /\ MaxRatio \in Nat
    BY <2>3, LimitsAssumption DEF Entries
  <2>5. e.file_size \in 0..(MaxRatio * e.compress_size)
    <3> DEFINE size == e.file_size
               packed == e.compress_size
    <3>1. /\ size \in Nat /\ packed \in Nat /\ MaxRatio \in Nat
          /\ packed = 0 => size = 0
          /\ packed # 0 => size <= MaxRatio * packed
      BY <2>2, <2>4 DEF Expandable
    <3> HIDE DEF size, packed
    <3>2. size \in 0..(MaxRatio * packed)
      BY <3>1
    <3> QED BY <3>2 DEF size, packed
  <2> QED BY <2>2, <2>5
<1>4. FoldFunction(+, 0, [i \in DOMAIN entries |-> entries[i].file_size]) \in 0..MaxUncompressed
  <2>1. Len(entries) \in DOMAIN entries
    BY <1>1
  <2>2. Uncompressed(entries, Len(entries)) <= MaxUncompressed
    BY <1>1, <2>1 DEF Admitted
  <2>3. MaxUncompressed \in Nat
    BY LimitsAssumption
  <2> DEFINE sum == FoldFunction(+, 0, [i \in DOMAIN entries |-> entries[i].file_size])
  <2>4. sum \in Nat /\ sum <= MaxUncompressed
    BY <1>1, <2>2, TotalIsSum
  <2> HIDE DEF sum
  <2>5. sum \in 0..MaxUncompressed
    BY <2>3, <2>4
  <2> QED BY <2>5 DEF sum
<1>5. ASSUME NEW i \in DOMAIN entries, NEW k \in DOMAIN entries,
             entries[i].name = entries[k].name
      PROVE  i = k
  <2>1. ~(i < k) /\ ~(k < i)
    BY <1>1, <1>5 DEF Admitted
  <2> QED BY <1>1, <2>1
<1>6. \E e \in ToSet(entries) : Part(e) = IF kind = "3mf" THEN "model" ELSE "gcode"
  BY <1>1
<1> QED BY <1>2, <1>3, <1>4, <1>5, <1>6 DEF Usable, entries

LEMMA Accepted ==
  ASSUME NEW bytes \in Bytes, NEW kind \in Kinds, inspect_path(bytes, kind)
  PROVE  Usable(bytes, kind)
<1>1. CASE kind \in {"3mf", "gcode-3mf"}
  <2>1. "archive" \in DOMAIN bytes /\ validate(bytes.archive, kind = "gcode-3mf")
    BY <1>1 DEF inspect_path
  <2>2. bytes \in [archive : Seq(Entries)]
    BY <2>1 DEF Bytes
  <2> QED BY <1>1, <2>1, <2>2, AcceptedArchive
<1>2. CASE kind = "stl"
  <2>1. "faces" \in DOMAIN bytes /\ bytes.faces # 0
    BY <1>2 DEF inspect_path
  <2>2. bytes.faces \in Nat
    BY <2>1 DEF Bytes
  <2>3. bytes.faces > 0
    BY <2>1, <2>2
  <2>4. kind \notin {"3mf", "gcode-3mf"}
    BY <1>2
  <2> QED BY <2>3, <2>4, Zenon DEF Usable
<1>3. CASE kind = "snapshot"
  BY <1>3 DEF Usable
<1> QED BY <1>1, <1>2, <1>3 DEF Kinds

(* Whatever was uploaded under whatever names, the bytes of an artifact    *)
(* that has a row are fit for what its kind is used for: the running total *)
(* of the sizes bounds their sum, whatever the number of entries.          *)
THEOREM Fit == Spec => []RowsAreUsable
<1>1. IndInv => RowsAreUsable
  <2> SUFFICES ASSUME IndInv, NEW c \in Contents, row[c] # NoKind
               PROVE  Usable(BytesOf[c], row[c])
    BY DEF RowsAreUsable
  <2>1. <<c, row[c]>> \in Valid
    BY DEF IndInv, RowWasInspected
  <2>2. row[c] \in Kinds /\ inspect_path(BytesOf[c], row[c])
    BY <2>1 DEF Valid
  <2>3. BytesOf[c] \in Bytes
    BY ConstantsAssumption
  <2> QED BY <2>2, <2>3, Accepted
<1> QED
  BY <1>1, Inductive, PTL
=============================================================================
