-------------------------- MODULE AssetLibraryProofs --------------------------
(***************************************************************************)
(* Theorems about AssetLibrary for any finite set of jobs, any number of   *)
(* results and any set of sessions.                                        *)
(*                                                                         *)
(* The argument.  A request counts under a view older than its lock on the *)
(* plan.  Rows are never deleted, so its count is at most that of the rows *)
(* now, and if it is smaller the unique constraint refuses the first of    *)
(* its numbers (Counted).  The same growth makes a page with a current     *)
(* lock version a current page.  As to the files of a job that is not      *)
(* contested: one session at a time stores them, what it stored stays      *)
(* sound unless the storage loses it, and what it is going to delete when  *)
(* it fails was absent when it looked, so that a row that says the file is *)
(* available says so of a lost one (Expendable).                           *)
(***************************************************************************)
EXTENDS AssetLibrary, FiniteSetTheorems, TLAPS

(***************************************************************************)
(* The inductive invariant.                                                *)
(***************************************************************************)

EnteredAssets == {a \in Jobs \X Indexes : Entered(a[1], a[2])}

Count == Cardinality(EnteredAssets)

RowSound(row) ==
    \/ row = AbsentAsset
    \/ /\ row.content \in Contents
       /\ row.file_status # "none" /\ row.review_status # "none"
       /\ row.version_no >= 1 /\ row.lock_version >= 1

RowsSound == \A j \in Jobs, i \in Indexes : RowSound(asset[j][i])

Storing(s) == s.at \in {"preparing", "putting"}

(* A session has not stored more results than the job has.                  *)
InRange(s) ==
    Storing(s) =>
        /\ Len(s.prepared) <= ResultCount
        /\ s.at = "putting" => Len(s.prepared) < ResultCount

(* A view shows fewer rows than there are now, with the same contents.      *)
ViewOld(s) ==
    Storing(s) =>
        /\ s.view.version <= Count
        /\ \A i \in Indexes :
            \/ s.view.rows[i].content = NoContent
            \/ s.view.rows[i].content = asset[s.job][i].content

(* A page shows the row at a lock version it has now or had before.         *)
PageOld(s) ==
    s.at = "reviewing" =>
        LET row == asset[s.job][s.index] IN
        /\ Entered(s.job, s.index)
        /\ s.page.lock_version <= row.lock_version
        /\ s.page.lock_version = row.lock_version => s.page.review_status = row.review_status

Rows ==
    /\ TypeOK
    /\ RowsSound
    /\ VersionsConsecutive
    /\ \A q \in Sessions :
        InRange(session[q]) /\ ViewOld(session[q]) /\ PageOld(session[q])

(* A session that is the only one to touch the files of its job.            *)
Watched(s) == Storing(s) /\ s.job \notin contested

Exclusive ==
    \A p, q \in Sessions :
        Watched(session[p]) /\ Storing(session[q]) /\ session[p].job = session[q].job => p = q

Kept(k) == file[k] = "sound" \/ k \in lost

(* No row says the file is there, unless it was lost.                       *)
Expendable(k) ==
    \A j \in Jobs, i \in Indexes :
        asset[j][i].file_status = "available" /\ AssetKey(j, i) = k => k \in lost

PreparedKey(s, n) == Key(s.job, n, s.prepared[n].content)

NextKey(s) == Key(s.job, Len(s.prepared) + 1, s.content)

StoredKept(s) == Watched(s) => \A n \in DOMAIN s.prepared : Kept(PreparedKey(s, n))

CreatedExpendable(s) ==
    Watched(s) =>
        /\ \A n \in DOMAIN s.prepared : s.prepared[n].created => Expendable(PreparedKey(s, n))
        /\ s.at = "putting" /\ ~s.existed => Expendable(NextKey(s))

IInv ==
    /\ Rows
    /\ Exclusive
    /\ \A q \in Sessions : StoredKept(session[q]) /\ CreatedExpendable(session[q])
    /\ UncontestedFilesKept

(***************************************************************************)
(* Numbers.                                                                *)
(***************************************************************************)

LEMMA IndexesFinite == ResultCount \in Nat /\ IsFiniteSet(Indexes) /\ Cardinality(Indexes) = ResultCount
<1>1. ResultCount \in Nat /\ ResultCount >= 1
  BY CountAssumption
<1> QED
  BY <1>1, FS_Interval DEF Indexes

LEMMA CountBounds == IsFiniteSet(EnteredAssets) /\ Count \in Nat /\ Count <= MaxAssets
<1>1. IsFiniteSet(Jobs \X Indexes) /\ Cardinality(Jobs \X Indexes) = MaxAssets
  BY JobsAssumption, IndexesFinite, FS_Product DEF MaxAssets
<1>2. EnteredAssets \in SUBSET (Jobs \X Indexes)
  BY DEF EnteredAssets
<1>3. IsFiniteSet(EnteredAssets) /\ Cardinality(EnteredAssets) <= MaxAssets
  BY <1>1, <1>2, FS_Subset
<1> QED
  BY <1>3, FS_CardinalityType DEF Count

LEMMA MaxAssetsNat == MaxAssets \in Nat
<1>1. IsFiniteSet(Jobs \X Indexes) /\ Cardinality(Jobs \X Indexes) = MaxAssets
  BY JobsAssumption, IndexesFinite, FS_Product DEF MaxAssets
<1> QED
  BY <1>1, FS_CardinalityType

LEMMA HighestOfInterval == ASSUME NEW n \in Nat PROVE Max(0..n) = n
<1>1. n \in 0..n /\ \A y \in 0..n : n >= y
  OBVIOUS
<1>2. \A x \in 0..n : (\A y \in 0..n : x >= y) => x = n
  OBVIOUS
<1> QED
  BY <1>1, <1>2 DEF Max

LEMMA HighestVersion ==
    ASSUME VersionsConsecutive
    PROVE  Max(Versions \cup {0}) = Count
<1>1. Versions = 1..Count
  BY DEF VersionsConsecutive, Count, EnteredAssets
<1>2. Count \in Nat
  BY CountBounds
<1>3. Versions \cup {0} = 0..Count
  BY <1>1, <1>2
<1> QED
  BY <1>2, <1>3, HighestOfInterval

(* Counting the members of a set up to each of them gives each number once. *)
LEMMA Ranks ==
    ASSUME NEW S \in SUBSET Indexes
    PROVE  /\ IsFiniteSet(S) /\ Cardinality(S) \in Nat
           /\ {Cardinality({n \in S : n <= i}) : i \in S} = 1..Cardinality(S)
<1> DEFINE UpTo(i) == {n \in S : n <= i}
           rank == [i \in S |-> Cardinality(UpTo(i))]
           T == 1..Cardinality(S)
<1>1. IsFiniteSet(S) /\ Cardinality(S) \in Nat
  BY IndexesFinite, FS_Subset, FS_CardinalityType
<1>2. \A i \in S : i \in Nat
  BY IndexesFinite DEF Indexes
<1>3. ASSUME NEW i \in S
      PROVE  /\ IsFiniteSet(UpTo(i))
             /\ Cardinality(UpTo(i)) \in 1..Cardinality(S)
  <2>1. UpTo(i) \in SUBSET S /\ i \in UpTo(i)
    BY <1>2
  <2>2. IsFiniteSet(UpTo(i)) /\ Cardinality(UpTo(i)) <= Cardinality(S)
    BY <1>1, <2>1, FS_Subset
  <2>3. Cardinality(UpTo(i)) \in Nat /\ Cardinality(UpTo(i)) # 0
    BY <2>1, <2>2, FS_CardinalityType, FS_EmptySet
  <2> QED
    BY <1>1, <2>2, <2>3
<1>4. ASSUME NEW i \in S, NEW j \in S, i < j
      PROVE  Cardinality(UpTo(i)) # Cardinality(UpTo(j))
  <2>1. UpTo(i) \in SUBSET UpTo(j) /\ j \in UpTo(j) /\ j \notin UpTo(i)
    BY <1>2, <1>4
  <2> QED
    BY <1>3, <2>1, FS_Subset
<1> HIDE DEF UpTo
<1>5. rank \in [S -> T]
  BY <1>3
<1>6. \A i, j \in S : rank[i] = rank[j] => i = j
  <2> SUFFICES ASSUME NEW i \in S, NEW j \in S, i # j PROVE rank[i] # rank[j]
    OBVIOUS
  <2>1. i < j \/ j < i
    BY <1>2
  <2> QED
    BY <1>4, <2>1
<1>7. rank \in Injection(S, T)
  BY <1>5, <1>6 DEF Injection, IsInjective
<1>8. IsFiniteSet(T) /\ Cardinality(T) = Cardinality(S)
  BY <1>1, FS_Interval
<1>9. rank \in Surjection(S, T)
  <2> HIDE DEF rank, T
  <2> QED
    BY <1>7, <1>8, FS_Injection
<1>10. \A t \in T : \E i \in S : rank[i] = t
  BY <1>9 DEF Surjection
<1>11. {Cardinality(UpTo(i)) : i \in S} = T
  BY <1>3, <1>10
<1> QED
  BY <1>1, <1>11 DEF UpTo

(***************************************************************************)
(* Sessions and rows.                                                      *)
(***************************************************************************)

LEMMA SessionShape ==
    ASSUME NEW s \in SessionStates
    PROVE  /\ Storing(s) => /\ s.kind \in Kinds /\ s.job \in Jobs /\ s.view \in Views
                            /\ s.prepared \in Seq(Prepared)
           /\ s.at = "putting" => s.content \in Contents /\ s.existed \in BOOLEAN
           /\ s.at = "reviewing" => s.job \in Jobs /\ s.index \in Indexes /\ s.page \in Pages
<1>1. CASE s = Idle
  BY <1>1 DEF Idle, Storing
<1>2. CASE s \in [at: {"preparing"}, kind: Kinds, job: Jobs, view: Views, prepared: Seq(Prepared)]
  BY <1>2 DEF Storing
<1>3. CASE s \in [at: {"putting"}, kind: Kinds, job: Jobs, view: Views, prepared: Seq(Prepared),
                  content: Contents, existed: BOOLEAN]
  BY <1>3 DEF Storing
<1>4. CASE s \in [at: {"reviewing"}, job: Jobs, index: Indexes, page: Pages]
  BY <1>4 DEF Storing
<1> QED
  BY <1>1, <1>2, <1>3, <1>4 DEF SessionStates

LEMMA RowTypes ==
    ASSUME RowsSound, TypeOK, NEW j \in Jobs, NEW i \in Indexes
    PROVE  /\ asset[j][i] \in AssetRows
           /\ Entered(j, i) <=> asset[j][i].content \in Contents
           /\ Entered(j, i) <=> asset[j][i].content # NoContent
           /\ Entered(j, i) <=> asset[j][i].version_no # 0
           /\ Entered(j, i) =>
                /\ asset[j][i].review_status # "none" /\ asset[j][i].file_status # "none"
                /\ asset[j][i].lock_version \in 1..MaxLock
<1>1. asset[j][i] \in AssetRows /\ RowSound(asset[j][i])
  BY DEF RowsSound, TypeOK
<1> QED
  BY <1>1, NullAssumption, CountAssumption DEF RowSound, AssetRows, AbsentAsset, Entered

(* Rows are never deleted, contents never change, and each review has a     *)
(* lock version of its own.                                                 *)
Grows ==
    /\ Count' \in Nat /\ Count <= Count'
    /\ \A j \in Jobs, i \in Indexes : asset[j][i] # AbsentAsset =>
        /\ asset'[j][i] # AbsentAsset
        /\ asset'[j][i].content = asset[j][i].content
        /\ asset[j][i].lock_version <= asset'[j][i].lock_version
        /\ asset'[j][i].lock_version = asset[j][i].lock_version =>
            asset'[j][i].review_status = asset[j][i].review_status

LEMMA PagesStay ==
    ASSUME Rows, TypeOK', Grows, NEW s \in SessionStates, ViewOld(s), PageOld(s)
    PROVE  ViewOld(s)' /\ PageOld(s)'
<1>1. TypeOK /\ RowsSound
  BY DEF Rows
<1>2. ViewOld(s)'
  <2> SUFFICES ASSUME Storing(s)
               PROVE  /\ s.view.version <= Count'
                      /\ \A i \in Indexes :
                            \/ s.view.rows[i].content = NoContent
                            \/ s.view.rows[i].content = asset'[s.job][i].content
    BY DEF ViewOld
  <2>1. s.job \in Jobs /\ s.view.version \in Nat
    BY SessionShape, MaxAssetsNat DEF Views
  <2>2. s.view.version <= Count'
    BY <2>1, CountBounds DEF ViewOld, Grows, Count
  <2>3. ASSUME NEW i \in Indexes, s.view.rows[i].content # NoContent
        PROVE  s.view.rows[i].content = asset'[s.job][i].content
    <3>1. asset[s.job][i].content = s.view.rows[i].content
      BY <2>3 DEF ViewOld
    <3>2. Entered(s.job, i)
      BY <1>1, <2>1, <2>3, <3>1, RowTypes
    <3> QED
      BY <2>1, <3>1, <3>2 DEF Grows, Entered
  <2> QED
    BY <2>2, <2>3
<1>3. PageOld(s)'
  <2> SUFFICES ASSUME s.at = "reviewing"
               PROVE  LET row == asset'[s.job][s.index] IN
                      /\ row # AbsentAsset
                      /\ s.page.lock_version <= row.lock_version
                      /\ s.page.lock_version = row.lock_version =>
                            s.page.review_status = row.review_status
    BY DEF PageOld, Entered
  <2>1. s.job \in Jobs /\ s.index \in Indexes /\ s.page.lock_version \in Nat
    BY SessionShape DEF Pages
  <2>2. asset[s.job][s.index].lock_version \in Nat /\ asset'[s.job][s.index].lock_version \in Nat
    BY <1>1, <2>1 DEF TypeOK, AssetRows
  <2> QED
    BY <2>1, <2>2 DEF PageOld, Grows, Entered
<1> QED
  BY <1>2, <1>3

LEMMA SessionsKeep ==
    ASSUME Rows, TypeOK', RowsSound', VersionsConsecutive', Grows,
           \A p \in Sessions :
            \/ session'[p] = session[p]
            \/ InRange(session'[p]) /\ ViewOld(session[p])' /\ PageOld(session[p])'
    PROVE  Rows'
<1>1. ASSUME NEW p \in Sessions, session'[p] = session[p]
      PROVE  InRange(session[p])' /\ ViewOld(session[p])' /\ PageOld(session[p])'
  <2>1. PICK s : s = session[p] /\ s = session'[p]
    BY <1>1
  <2>2. s \in SessionStates /\ InRange(s) /\ ViewOld(s) /\ PageOld(s)
    BY <2>1 DEF Rows, TypeOK
  <2>3. ViewOld(s)' /\ PageOld(s)'
    BY <2>2, PagesStay
  <2> QED
    BY <2>1, <2>2, <2>3 DEF InRange, ViewOld, PageOld, Entered, Storing
<1> QED
  BY <1>1 DEF Rows, InRange, Storing

(* No asset changes.                                                        *)
LEMMA SameAssets ==
    ASSUME Rows, UNCHANGED asset
    PROVE  asset' \in [Jobs -> [Indexes -> AssetRows]] /\ RowsSound' /\ VersionsConsecutive' /\ Grows
<1>1. EnteredAssets' = EnteredAssets /\ Versions' = Versions
  BY DEF EnteredAssets, Entered, Versions
<1>2. RowsSound'
  BY DEF Rows, RowsSound, RowSound
<1>3. VersionsConsecutive'
  BY <1>1 DEF Rows, VersionsConsecutive, EnteredAssets
<1>4. Grows
  <2>1. \A j \in Jobs, i \in Indexes : asset[j][i].lock_version \in Nat
    BY DEF Rows, TypeOK, AssetRows
  <2>2. Count \in Nat /\ Count' = Count
    BY <1>1, CountBounds DEF Count
  <2> QED
    BY <2>1, <2>2 DEF Grows
<1> QED
  BY <1>2, <1>3, <1>4 DEF Rows, TypeOK

(* One asset is edited, checked or reviewed.                                *)
LEMMA OneAsset ==
    ASSUME Rows, NEW j \in Jobs, NEW i \in Indexes, Entered(j, i), NEW n \in AssetRows,
           asset' = [asset EXCEPT ![j][i] = n], RowSound(n),
           n.content = asset[j][i].content, n.version_no = asset[j][i].version_no,
           asset[j][i].lock_version <= n.lock_version,
           n.lock_version = asset[j][i].lock_version =>
                n.review_status = asset[j][i].review_status
    PROVE  asset' \in [Jobs -> [Indexes -> AssetRows]] /\ RowsSound' /\ VersionsConsecutive' /\ Grows
<1>1. TypeOK /\ RowsSound
  BY DEF Rows
<1>2. asset'[j][i] = n
  BY <1>1 DEF TypeOK
<1>3. \A k \in Jobs, h \in Indexes : k # j \/ h # i => asset'[k][h] = asset[k][h]
  BY <1>1 DEF TypeOK
<1>4. n # AbsentAsset
  BY <1>1, RowTypes, NullAssumption DEF AbsentAsset
<1>5. asset' \in [Jobs -> [Indexes -> AssetRows]]
  BY <1>1 DEF TypeOK
<1>6. RowsSound'
  <2>1. \A k \in Jobs, h \in Indexes : RowSound(asset'[k][h])
    BY <1>1, <1>2, <1>3 DEF RowsSound
  <2> QED
    BY <2>1 DEF RowsSound, RowSound
<1>7. EnteredAssets' = EnteredAssets
  BY <1>2, <1>3, <1>4 DEF EnteredAssets, Entered
<1>8. \A k \in Jobs, h \in Indexes : asset'[k][h].version_no = asset[k][h].version_no
  BY <1>2, <1>3
<1>9. Versions' = Versions
  BY <1>8 DEF Versions
<1>10. VersionsConsecutive'
  BY <1>7, <1>9 DEF Rows, VersionsConsecutive, EnteredAssets
<1>11. Grows
  <2>1. \A k \in Jobs, h \in Indexes : asset[k][h].lock_version \in Nat
    BY <1>1 DEF TypeOK, AssetRows
  <2>2. Count \in Nat /\ Count' = Count
    BY <1>7, CountBounds DEF Count
  <2> QED
    BY <1>2, <1>3, <1>4, <2>1, <2>2 DEF Grows
<1> QED
  BY <1>5, <1>6, <1>10, <1>11

(***************************************************************************)
(* Entering results.                                                       *)
(***************************************************************************)

LEMMA ViewTypes ==
    ASSUME Rows, NEW j \in Jobs
    PROVE  /\ View(j) \in Views
           /\ View(j).version = Count
           /\ \A i \in Indexes :
                /\ View(j).rows[i].content = asset[j][i].content
                /\ View(j).rows[i].file_status = asset[j][i].file_status
<1>1. Max(Versions \cup {0}) = Count
  BY HighestVersion DEF Rows
<1>2. Count \in 0..MaxAssets
  BY CountBounds, MaxAssetsNat
<1>3. \A i \in Indexes : asset[j][i].content \in Contents \cup {NoContent}
                      /\ asset[j][i].file_status \in {"none", "available", "missing", "invalid"}
  BY DEF Rows, TypeOK, AssetRows
<1> QED
  BY <1>1, <1>2, <1>3 DEF View, Views

(* Whichever view entering reads under, it knows less than there is.        *)
LEMMA PersistViewOld ==
    ASSUME Rows, NEW q \in Sessions, session[q].at = "preparing"
    PROVE  /\ session[q].job \in Jobs
           /\ PersistView(q) \in Views
           /\ PersistView(q).version <= Count
           /\ \A i \in Indexes \ NewIndexes(q) :
                PersistView(q).rows[i].content = asset[session[q].job][i].content
<1> DEFINE s == session[q]
<1>1. s \in SessionStates /\ ViewOld(s) /\ Storing(s)
  BY DEF Rows, TypeOK, Storing
<1>2. s.job \in Jobs /\ s.view \in Views
  BY <1>1, SessionShape
<1>3. CASE s.kind = "worker"
  BY <1>2, <1>3, ViewTypes, CountBounds DEF PersistView, NewIndexes
<1>4. CASE s.kind # "worker"
  BY <1>1, <1>2, <1>4 DEF PersistView, NewIndexes, ViewOld
<1> QED
  BY <1>2, <1>3, <1>4

(* Numbers that the unique constraint lets pass go on from the highest.     *)
LEMMA Counted ==
    ASSUME Rows, NEW q \in Sessions, session[q].at = "preparing", KeysUnique(q),
           NewIndexes(q) # {}
    PROVE  PersistView(q).version = Count
<1> DEFINE S == NewIndexes(q)
           v == PersistView(q).version
           rank(i) == Cardinality({n \in S : n <= i})
<1>1. S \in SUBSET Indexes
  BY DEF NewIndexes
<1>2. IsFiniteSet(S) /\ Cardinality(S) \in Nat /\ {rank(i) : i \in S} = 1..Cardinality(S)
  BY <1>1, Ranks
<1>3. Cardinality(S) # 0
  BY <1>2, FS_EmptySet
<1>4. 1 \in 1..Cardinality(S)
  BY <1>2, <1>3
<1>5. PICK i \in S : rank(i) = 1
  BY <1>2, <1>4
<1>6. v \in Nat /\ v <= Count /\ Count \in Nat
  BY PersistViewOld, CountBounds, MaxAssetsNat DEF Views
<1>7. VersionOf(q, i) = v + 1
  BY <1>5 DEF VersionOf
<1>8. v + 1 \notin 1..Count
  BY <1>5, <1>7 DEF KeysUnique, Rows, VersionsConsecutive, Count, EnteredAssets
<1> QED
  BY <1>6, <1>8

LEMMA NewNumbers ==
    ASSUME Rows, NEW q \in Sessions, session[q].at = "preparing", KeysUnique(q)
    PROVE  /\ {VersionOf(q, i) : i \in NewIndexes(q)} = Count + 1 .. Count + Cardinality(NewIndexes(q))
           /\ IsFiniteSet(NewIndexes(q)) /\ Cardinality(NewIndexes(q)) \in Nat
           /\ \A i \in NewIndexes(q) : VersionOf(q, i) \in Nat /\ VersionOf(q, i) >= 1
<1> DEFINE S == NewIndexes(q)
           rank(i) == Cardinality({n \in S : n <= i})
<1>1. S \in SUBSET Indexes
  BY DEF NewIndexes
<1>2. IsFiniteSet(S) /\ Cardinality(S) \in Nat /\ {rank(i) : i \in S} = 1..Cardinality(S)
  BY <1>1, Ranks
<1>3. \A i \in S : VersionOf(q, i) = Count + rank(i) /\ rank(i) \in 1..Cardinality(S)
  BY <1>2, Counted DEF VersionOf
<1>4. Count \in Nat
  BY CountBounds
<1>5. ASSUME NEW v \in Count + 1 .. Count + Cardinality(S)
      PROVE  \E i \in S : VersionOf(q, i) = v
  <2>1. v - Count \in 1..Cardinality(S)
    BY <1>2, <1>4
  <2>2. PICK i \in S : rank(i) = v - Count
    BY <1>2, <2>1
  <2> QED
    BY <1>3, <1>4, <2>2
<1> HIDE DEF rank
<1>6. \A i \in S : VersionOf(q, i) \in Count + 1 .. Count + Cardinality(S)
  BY <1>2, <1>3, <1>4
<1> HIDE DEF S
<1>7. {VersionOf(q, i) : i \in S} = Count + 1 .. Count + Cardinality(S)
  BY <1>5, <1>6
<1>8. \A i \in S : VersionOf(q, i) \in Nat /\ VersionOf(q, i) >= 1
  BY <1>4, <1>6
<1> QED
  BY <1>2, <1>7, <1>8 DEF S

(* The pairs of one job with a set of indexes are as many as the indexes.   *)
LEMMA PairsCount ==
    ASSUME NEW j \in Jobs, NEW S \in SUBSET Indexes
    PROVE  IsFiniteSet({j} \X S) /\ Cardinality({j} \X S) = Cardinality(S)
<1>1. IsFiniteSet(S) /\ Cardinality(S) \in Nat
  BY Ranks
<1>2. IsFiniteSet({j}) /\ Cardinality({j}) = 1
  BY FS_Singleton
<1>3. IsFiniteSet({j} \X S) /\ Cardinality({j} \X S) = 1 * Cardinality(S)
  BY <1>1, <1>2, FS_Product
<1> QED
  BY <1>1, <1>3

LEMMA NewAssetRow ==
    ASSUME NEW content, NEW version
    PROVE  /\ NewAsset(content, version) # AbsentAsset
           /\ NewAsset(content, version).version_no = version
           /\ content \in Contents /\ version \in 1..MaxAssets =>
                NewAsset(content, version) \in AssetRows /\ RowSound(NewAsset(content, version))
<1>1. NewAsset(content, version).file_status = "available" /\ AbsentAsset.file_status = "none"
  BY DEF NewAsset, AbsentAsset
<1>2. "available" # "none"
  OBVIOUS
<1>3. NewAsset(content, version) # AbsentAsset
  BY <1>1, <1>2
<1>4. ASSUME content \in Contents, version \in 1..MaxAssets
      PROVE  NewAsset(content, version) \in AssetRows /\ RowSound(NewAsset(content, version))
  <2>1. version \in 0..MaxAssets /\ version >= 1 /\ 1 \in 0..MaxLock
    BY <1>4, MaxAssetsNat, CountAssumption
  <2> QED
    BY <1>4, <2>1 DEF NewAsset, AssetRows, RowSound
<1> QED
  BY <1>3, <1>4 DEF NewAsset

LEMMA StoredAgainRow ==
    ASSUME NEW row \in AssetRows, row.file_status # "none", NEW read
    PROVE  /\ StoredAgain(row, read) \in AssetRows
           /\ StoredAgain(row, read).content = row.content
           /\ StoredAgain(row, read).version_no = row.version_no
           /\ StoredAgain(row, read).lock_version = row.lock_version
           /\ StoredAgain(row, read).review_status = row.review_status
           /\ StoredAgain(row, read).file_status \in {"available", row.file_status}
           /\ StoredAgain(row, read).file_status # "none"
<1>1. PICK status : status = Assigned(read.file_status, "available", row.file_status)
  OBVIOUS
<1>2. status \in {"available", row.file_status}
  BY <1>1 DEF Assigned
<1>3. StoredAgain(row, read) = [row EXCEPT !.file_status = status]
  BY <1>1 DEF StoredAgain
<1> QED
  BY <1>2, <1>3 DEF AssetRows

LEMMA PersistRows ==
    ASSUME Rows, NEW q \in Sessions, Persist(q)
    PROVE  asset' \in [Jobs -> [Indexes -> AssetRows]] /\ RowsSound' /\ VersionsConsecutive' /\ Grows
<1> DEFINE j == session[q].job
           S == NewIndexes(q)
<1>1. TypeOK /\ RowsSound
  BY DEF Rows
<1>2. session[q].at = "preparing" /\ KeysUnique(q) /\ S \in SUBSET Indexes /\ j \in Jobs
  BY PersistViewOld DEF Persist, NewIndexes
<1>3. \A i \in S : session[q].prepared[i].content \in Contents
  <2>1. session[q].prepared \in Seq(Prepared) /\ Len(session[q].prepared) >= ResultCount
    BY <1>1, <1>2, SessionShape, IndexesFinite DEF TypeOK, Storing, Persist, NextIndex, Indexes
  <2>2. S \subseteq DOMAIN session[q].prepared
    BY <1>2, <2>1, IndexesFinite DEF Indexes
  <2>3. PICK p \in Seq(Prepared) : p = session[q].prepared
    BY <2>1
  <2>4. \A i \in DOMAIN p : p[i] \in Prepared
    OBVIOUS
  <2> HIDE DEF S
  <2> QED
    BY <2>2, <2>3, <2>4 DEF Prepared
<1>4. \A i \in S : asset'[j][i] = NewAsset(session[q].prepared[i].content, VersionOf(q, i))
  BY <1>1, <1>2 DEF Persist, TypeOK
<1>5. \A i \in Indexes \ S :
        asset'[j][i] = StoredAgain(asset[j][i], PersistView(q).rows[i])
  BY <1>1, <1>2 DEF Persist, TypeOK
<1>6. \A k \in Jobs \ {j} : asset'[k] = asset[k]
  BY <1>1, <1>2 DEF Persist, TypeOK
<1>7. \A i \in S : ~Entered(j, i)
  BY <1>2 DEF KeysUnique
<1>8. \A i \in Indexes \ S : Entered(j, i)
  <2> SUFFICES ASSUME NEW i \in Indexes \ S PROVE Entered(j, i)
    OBVIOUS
  <2>1. asset[j][i].content # NoContent
    BY <1>2, PersistViewOld DEF NewIndexes
  <2> QED
    BY <1>1, <1>2, <2>1, RowTypes
<1> HIDE DEF j, S
<1>9. ASSUME NEW i \in Indexes \ S
      PROVE  /\ asset'[j][i] \in AssetRows
             /\ asset'[j][i].content = asset[j][i].content
             /\ asset'[j][i].version_no = asset[j][i].version_no
             /\ asset'[j][i].lock_version = asset[j][i].lock_version
             /\ asset'[j][i].review_status = asset[j][i].review_status
             /\ asset'[j][i].file_status # "none"
  BY <1>1, <1>2, <1>5, <1>8, RowTypes, StoredAgainRow
<1>10. EnteredAssets' = EnteredAssets \cup ({j} \X S)
  <2>1. \A i \in Indexes : asset'[j][i] # AbsentAsset
    <3> SUFFICES ASSUME NEW i \in Indexes PROVE asset'[j][i] # AbsentAsset
      OBVIOUS
    <3>1. CASE i \in S
      BY <1>4, <3>1, NewAssetRow
    <3>2. CASE i \notin S
      BY <1>9, <3>2 DEF AbsentAsset
    <3> QED
      BY <3>1, <3>2
  <2> QED
    BY <1>2, <1>6, <1>8, <2>1 DEF EnteredAssets, Entered
<1>11. EnteredAssets \cap ({j} \X S) = {}
  BY <1>7 DEF EnteredAssets
<1>12. Count' = Count + Cardinality(S) /\ Cardinality(S) \in Nat /\ Count \in Nat
  <2>1. IsFiniteSet(EnteredAssets) /\ Count \in Nat
    BY CountBounds
  <2>2. IsFiniteSet({j} \X S) /\ Cardinality({j} \X S) = Cardinality(S) /\ Cardinality(S) \in Nat
    BY <1>2, PairsCount, Ranks
  <2>3. Cardinality(EnteredAssets \cup ({j} \X S)) = Count + Cardinality(S) - 0
    <3> DEFINE A == EnteredAssets
               B == {j} \X S
    <3>1. IsFiniteSet(A) /\ IsFiniteSet(B) /\ A \cap B = {}
      BY <1>11, <2>1, <2>2
    <3> HIDE DEF A, B
    <3>2. Cardinality(A \cup B) = Cardinality(A) + Cardinality(B) - Cardinality(A \cap B)
      BY <3>1, FS_Union
    <3>3. Cardinality(A \cap B) = 0
      BY <3>1, FS_EmptySet
    <3> QED
      BY <2>2, <3>2, <3>3 DEF Count, A, B
  <2> QED
    BY <1>10, <2>1, <2>2, <2>3 DEF Count
<1>13. /\ {VersionOf(q, i) : i \in S} = Count + 1 .. Count + Cardinality(S)
       /\ \A i \in S : VersionOf(q, i) \in Nat /\ VersionOf(q, i) >= 1
  BY <1>2, NewNumbers DEF S
<1>14. Count' <= MaxAssets
  <2>1. EnteredAssets' \in SUBSET (Jobs \X Indexes)
    BY DEF EnteredAssets
  <2>2. IsFiniteSet(Jobs \X Indexes) /\ Cardinality(Jobs \X Indexes) = MaxAssets
    BY JobsAssumption, IndexesFinite, FS_Product DEF MaxAssets
  <2> QED
    BY <2>1, <2>2, FS_Subset DEF Count
<1>15. \A i \in S : VersionOf(q, i) \in 1..MaxAssets
  BY <1>12, <1>13, <1>14, MaxAssetsNat
<1>16. \A i \in S : asset'[j][i] \in AssetRows /\ RowSound(asset'[j][i])
                 /\ asset'[j][i].version_no = VersionOf(q, i)
  BY <1>3, <1>4, <1>15, NewAssetRow
<1>17. \A i \in Indexes : asset'[j][i] \in AssetRows /\ RowSound(asset'[j][i])
  <2> SUFFICES ASSUME NEW i \in Indexes \ S PROVE RowSound(asset'[j][i])
    BY <1>9, <1>16
  <2> QED
    BY <1>1, <1>2, <1>8, <1>9 DEF RowsSound, RowSound, Entered
<1>18. asset' \in [Jobs -> [Indexes -> AssetRows]]
  <2>1. asset' = [asset EXCEPT ![j] = asset'[j]] /\ DOMAIN asset'[j] = Indexes
    BY <1>1, <1>2 DEF Persist, TypeOK, j
  <2>2. asset'[j] \in [Indexes -> AssetRows]
    <3>1. asset'[j] = [i \in Indexes |-> asset'[j][i]]
      BY <1>1, <1>2 DEF Persist, TypeOK, j
    <3> QED
      BY <1>17, <3>1
  <2> QED
    BY <1>1, <1>2, <2>1, <2>2 DEF TypeOK
<1>19. RowsSound'
  <2>1. \A k \in Jobs, i \in Indexes : RowSound(asset'[k][i])
    BY <1>1, <1>6, <1>17 DEF RowsSound
  <2> QED
    BY <2>1 DEF RowsSound, RowSound
<1>20. Versions = 1..Count
  BY DEF Rows, VersionsConsecutive, Count, EnteredAssets
<1>21. ASSUME NEW n, n # 0
       PROVE  n \in Versions' <=> n \in Versions \/ n \in {VersionOf(q, i) : i \in S}
  <2>1. n \in Versions => \E k \in Jobs, i \in Indexes :
                            asset[k][i].version_no = n /\ (k # j \/ i \notin S)
    BY <1>7, <1>21 DEF Versions, Entered, AbsentAsset
  <2>2. n \in Versions => n \in Versions'
    BY <1>6, <1>9, <1>21, <2>1 DEF Versions
  <2>3. n \in {VersionOf(q, i) : i \in S} => n \in Versions'
    BY <1>2, <1>16, <1>21 DEF Versions
  <2>4. n \in Versions' => n \in Versions \/ n \in {VersionOf(q, i) : i \in S}
    <3> SUFFICES ASSUME NEW k \in Jobs, NEW i \in Indexes, asset'[k][i].version_no = n
                 PROVE  n \in Versions \/ n \in {VersionOf(q, h) : h \in S}
      BY DEF Versions
    <3>1. CASE k = j /\ i \in S
      BY <1>16, <3>1
    <3>2. CASE ~(k = j /\ i \in S)
      BY <1>6, <1>9, <1>21, <3>2 DEF Versions
    <3> QED
      BY <3>1, <3>2
  <2> QED
    BY <2>2, <2>3, <2>4
<1>22. Versions' = 1..Count'
  <2>1. 0 \notin Versions'
    BY DEF Versions
  <2>2. \A n : n \in Versions' <=> n # 0 /\ (n \in 1..Count \/ n \in Count + 1 .. Count + Cardinality(S))
    BY <1>13, <1>20, <1>21, <2>1
  <2>3. \A n : n \in Versions' <=> n \in 1..Count'
    BY <1>12, <2>2
  <2> QED
    BY <2>3
<1>23. VersionsConsecutive'
  BY <1>22 DEF VersionsConsecutive, Count, EnteredAssets
<1>24. Grows
  <2>1. Count' \in Nat /\ Count <= Count'
    BY <1>12
  <2>2. \A k \in Jobs, i \in Indexes : asset[k][i].lock_version \in Nat
    BY <1>1 DEF TypeOK, AssetRows
  <2>3. ASSUME NEW k \in Jobs, NEW i \in Indexes, asset[k][i] # AbsentAsset
        PROVE  k # j \/ i \notin S
    BY <1>7, <2>3 DEF Entered
  <2>4. ASSUME NEW i \in Indexes \ S PROVE asset'[j][i] # AbsentAsset
    BY <1>9, <2>4 DEF AbsentAsset
  <2> QED
    BY <1>6, <1>9, <2>1, <2>2, <2>3, <2>4 DEF Grows
<1> QED
  BY <1>18, <1>19, <1>23, <1>24

(***************************************************************************)
(* Rows are kept by each action.                                           *)
(***************************************************************************)

Statuses == {"available", "missing", "invalid"}

LEMMA WithStatusRow ==
    ASSUME NEW row \in AssetRows, RowSound(row), row # AbsentAsset, row.lock_version < MaxLock,
           NEW status \in Statuses
    PROVE  LET n == WithStatus(row, status) IN
           /\ n \in AssetRows /\ RowSound(n)
           /\ n.content = row.content /\ n.version_no = row.version_no
           /\ row.lock_version <= n.lock_version /\ n.review_status = row.review_status
           /\ n.file_status = status
<1>1. row.lock_version \in Nat /\ row.lock_version + 1 \in 0..MaxLock
  BY CountAssumption DEF AssetRows
<1>2. CASE row.file_status = status
  BY <1>1, <1>2 DEF WithStatus
<1>3. CASE row.file_status # status
  <2>1. WithStatus(row, status) =
            [row EXCEPT !.file_status = status, !.lock_version = row.lock_version + 1]
    BY <1>3 DEF WithStatus
  <2>2. PICK n : n = WithStatus(row, status)
    OBVIOUS
  <2>3. /\ n \in AssetRows
        /\ n.content = row.content /\ n.version_no = row.version_no
        /\ n.review_status = row.review_status
        /\ n.file_status = status /\ n.lock_version = row.lock_version + 1
    BY <1>1, <2>1, <2>2 DEF AssetRows, Statuses
  <2>4. status # "none" /\ n.lock_version >= 1
    BY <1>1, <2>3 DEF Statuses
  <2>5. RowSound(n)
    BY <2>3, <2>4 DEF RowSound
  <2> QED
    BY <1>1, <2>2, <2>3, <2>5
<1> QED
  BY <1>2, <1>3

LEMMA ReviewedRow ==
    ASSUME NEW row \in AssetRows, RowSound(row), row # AbsentAsset, row.lock_version < MaxLock,
           NEW status \in {"pending", "approved", "rejected"}
    PROVE  LET n == Reviewed(row, status) IN
           /\ n \in AssetRows /\ RowSound(n)
           /\ n.content = row.content /\ n.version_no = row.version_no
           /\ n.lock_version = row.lock_version + 1
           /\ n.file_status = row.file_status
<1>1. row.lock_version \in Nat /\ row.lock_version + 1 \in 0..MaxLock
  BY CountAssumption DEF AssetRows
<1>2. Reviewed(row, status) =
        [row EXCEPT !.review_status = status, !.lock_version = row.lock_version + 1]
  BY DEF Reviewed
<1>3. PICK n : n = Reviewed(row, status)
  OBVIOUS
<1>4. /\ n \in AssetRows
      /\ n.content = row.content /\ n.version_no = row.version_no
      /\ n.review_status = status
      /\ n.file_status = row.file_status /\ n.lock_version = row.lock_version + 1
  BY <1>1, <1>2, <1>3 DEF AssetRows
<1>5. status # "none" /\ n.lock_version >= 1
  BY <1>1, <1>4
<1>6. RowSound(n)
  BY <1>4, <1>5 DEF RowSound
<1> QED
  BY <1>3, <1>4, <1>6

LEMMA DetectedStatus ==
    ASSUME Rows, NEW j \in Jobs, NEW i \in Indexes, Entered(j, i)
    PROVE  /\ AssetKey(j, i) \in Keys /\ AssetKey(j, i).job = j
           /\ Detected(j, i) \in Statuses
           /\ Detected(j, i) = "available" <=> file[AssetKey(j, i)] = "sound"
<1>1. asset[j][i].content \in Contents
  BY RowTypes DEF Rows
<1>2. AssetKey(j, i) \in Keys /\ AssetKey(j, i).job = j
  BY <1>1 DEF AssetKey, Key, Keys
<1>3. file[AssetKey(j, i)] \in FileStates
  BY <1>2 DEF Rows, TypeOK
<1>4. CASE file[AssetKey(j, i)] = "absent"
  BY <1>2, <1>4 DEF Detected, Statuses
<1>5. CASE file[AssetKey(j, i)] = "damaged"
  BY <1>2, <1>5 DEF Detected, Statuses
<1>6. CASE file[AssetKey(j, i)] = "sound"
  BY <1>2, <1>6 DEF Detected, Statuses
<1> QED
  BY <1>2, <1>3, <1>4, <1>5, <1>6 DEF FileStates

LEMMA CleanedTypes ==
    ASSUME NEW q, NEW files \in [Keys -> FileStates]
    PROVE  Cleaned(q, files) \in [Keys -> FileStates]
  BY DEF Cleaned, FileStates

LEMMA MovesRows ==
    ASSUME Rows, job' \in [Jobs -> {"running", "succeeded"}], file' \in [Keys -> FileStates],
           lost' \subseteq Keys, contested' \subseteq Jobs,
           asset' \in [Jobs -> [Indexes -> AssetRows]], RowsSound', VersionsConsecutive', Grows,
           NEW q \in Sessions, NEW s \in SessionStates, Goto(q, s),
           InRange(s), ViewOld(s), PageOld(s)
    PROVE  Rows'
<1>1. session \in [Sessions -> SessionStates]
  BY DEF Rows, TypeOK
<1>2. session'[q] = s /\ \A p \in Sessions \ {q} : session'[p] = session[p]
  BY <1>1 DEF Goto
<1>3. TypeOK'
  BY <1>1 DEF TypeOK, Goto
<1>4. ViewOld(s)' /\ PageOld(s)'
  BY <1>3, PagesStay
<1>5. InRange(session'[q]) /\ ViewOld(session[q])' /\ PageOld(session[q])'
  <2>1. PICK x : x = session'[q] /\ x = s
    BY <1>2
  <2> QED
    BY <1>4, <2>1 DEF ViewOld, PageOld, Storing, Entered
<1> QED
  BY <1>2, <1>3, <1>5, SessionsKeep

LEMMA IdleFits == Idle \in SessionStates /\ InRange(Idle) /\ ViewOld(Idle) /\ PageOld(Idle)
                  /\ ~Storing(Idle)
  BY DEF Idle, SessionStates, InRange, ViewOld, PageOld, Storing

(* A session ends, and no asset changes.                                    *)
LEMMA EndsRows ==
    ASSUME Rows, UNCHANGED <<job, asset, lost, contested>>, file' \in [Keys -> FileStates],
           NEW q \in Sessions, Goto(q, Idle)
    PROVE  Rows'
  BY MovesRows, SameAssets, IdleFits DEF Rows, TypeOK

(* What a session that stores results has.                                  *)
LEMMA StoringFacts ==
    ASSUME Rows, NEW q \in Sessions, Storing(session[q])
    PROVE  /\ session[q].kind \in Kinds /\ session[q].job \in Jobs /\ session[q].view \in Views
           /\ session[q].prepared \in Seq(Prepared)
           /\ Len(session[q].prepared) \in 0..ResultCount
           /\ session[q].at = "putting" =>
                /\ session[q].content \in Contents /\ session[q].existed \in BOOLEAN
                /\ Len(session[q].prepared) < ResultCount
<1>1. session[q] \in SessionStates /\ InRange(session[q])
  BY DEF Rows, TypeOK
<1> QED
  BY <1>1, SessionShape, IndexesFinite DEF InRange

LEMMA BeginRows ==
    ASSUME Rows, NEW q \in Sessions, NEW kind \in Kinds, NEW j \in Jobs, BeginPrepare(q, kind, j)
    PROVE  Rows'
<1>1. PICK s : s = [at |-> "preparing", kind |-> kind, job |-> j, view |-> View(j), prepared |-> <<>>]
  OBVIOUS
<1>2. s \in [at: {"preparing"}, kind: Kinds, job: Jobs, view: Views, prepared: Seq(Prepared)]
  BY <1>1, ViewTypes
<1>3. s \in SessionStates
  BY <1>2 DEF SessionStates
<1>4. InRange(s) /\ PageOld(s)
  BY <1>1, IndexesFinite DEF InRange, PageOld
<1>5. ViewOld(s)
  BY <1>1, ViewTypes, CountBounds DEF ViewOld
<1>6. Goto(q, s)
  BY <1>1 DEF BeginPrepare
<1> QED
  BY <1>3, <1>4, <1>5, <1>6, SameAssets, MovesRows DEF BeginPrepare, Contest, Rows, TypeOK

LEMMA LookForFileRows ==
    ASSUME Rows, NEW q \in Sessions, NEW content \in Contents, LookForFile(q, content)
    PROVE  Rows'
<1>1. PICK o : o = session[q]
  OBVIOUS
<1>2. PICK s : s = [at |-> "putting", kind |-> o.kind, job |-> o.job, view |-> o.view,
                    prepared |-> o.prepared, content |-> content,
                    existed |-> file[Key(o.job, NextIndex(q), content)] # "absent"]
  OBVIOUS
<1>3. Goto(q, s) /\ o.at = "preparing" /\ Len(o.prepared) + 1 \in Indexes
  BY <1>1, <1>2 DEF LookForFile, NextIndex
<1>4. /\ o.kind \in Kinds /\ o.job \in Jobs /\ o.view \in Views /\ o.prepared \in Seq(Prepared)
      /\ Len(o.prepared) \in 0..ResultCount
  BY <1>1, <1>3, StoringFacts DEF Storing
<1>5. s \in [at: {"putting"}, kind: Kinds, job: Jobs, view: Views, prepared: Seq(Prepared),
             content: Contents, existed: BOOLEAN]
  BY <1>2, <1>4
<1>6. s \in SessionStates
  BY <1>5 DEF SessionStates
<1>7. InRange(s) /\ PageOld(s)
  BY <1>2, <1>3, <1>4, IndexesFinite DEF InRange, PageOld, Indexes
<1>8. ViewOld(s)
  <2>1. ViewOld(o)
    BY <1>1 DEF Rows
  <2> QED
    BY <1>2, <1>3, <2>1 DEF ViewOld, Storing
<1> QED
  BY <1>3, <1>6, <1>7, <1>8, SameAssets, MovesRows DEF LookForFile, Rows, TypeOK

LEMMA ReplaceFileRows ==
    ASSUME Rows, NEW q \in Sessions, ReplaceFile(q)
    PROVE  Rows'
<1>1. PICK o : o = session[q]
  OBVIOUS
<1>2. PICK new : new = [content |-> o.content, created |-> ~o.existed]
  OBVIOUS
<1>3. PICK s : s = [at |-> "preparing", kind |-> o.kind, job |-> o.job, view |-> o.view,
                    prepared |-> Append(o.prepared, new)]
  OBVIOUS
<1>4. Goto(q, s) /\ o.at = "putting"
  BY <1>1, <1>2, <1>3 DEF ReplaceFile
<1>5. /\ o.kind \in Kinds /\ o.job \in Jobs /\ o.view \in Views /\ o.prepared \in Seq(Prepared)
      /\ Len(o.prepared) \in 0..ResultCount /\ Len(o.prepared) < ResultCount
      /\ o.content \in Contents
  BY <1>1, <1>4, StoringFacts DEF Storing
<1>6. new \in Prepared
  BY <1>2, <1>5 DEF Prepared
<1>7. Append(o.prepared, new) \in Seq(Prepared) /\ Len(Append(o.prepared, new)) = Len(o.prepared) + 1
  BY <1>5, <1>6
<1>8. s \in [at: {"preparing"}, kind: Kinds, job: Jobs, view: Views, prepared: Seq(Prepared)]
  BY <1>3, <1>5, <1>7
<1>9. s \in SessionStates
  BY <1>8 DEF SessionStates
<1>10. InRange(s) /\ PageOld(s)
  BY <1>3, <1>5, <1>7, IndexesFinite DEF InRange, PageOld
<1>11. ViewOld(s)
  <2>1. ViewOld(o)
    BY <1>1 DEF Rows
  <2> QED
    BY <1>3, <1>4, <2>1 DEF ViewOld, Storing
<1>12. file' \in [Keys -> FileStates]
  BY DEF ReplaceFile, Rows, TypeOK, FileStates
<1> QED
  BY <1>4, <1>9, <1>10, <1>11, <1>12, SameAssets, MovesRows DEF ReplaceFile, Rows, TypeOK

LEMMA LookAtRows ==
    ASSUME Rows, NEW q \in Sessions, NEW j \in Jobs, NEW i \in Indexes, LookAtAsset(q, j, i)
    PROVE  Rows'
<1>1. PICK s : s = [at |-> "reviewing", job |-> j, index |-> i,
                    page |-> [review_status |-> asset[j][i].review_status,
                              lock_version |-> asset[j][i].lock_version]]
  OBVIOUS
<1>2. Goto(q, s) /\ Entered(j, i)
  BY <1>1 DEF LookAtAsset
<1>3. /\ asset[j][i] \in AssetRows
      /\ asset[j][i].review_status # "none" /\ asset[j][i].lock_version \in 1..MaxLock
  BY <1>2, RowTypes DEF Rows
<1>4. asset[j][i].review_status \in {"pending", "approved", "rejected"}
  BY <1>3 DEF AssetRows
<1>5. s \in [at: {"reviewing"}, job: Jobs, index: Indexes, page: Pages]
  BY <1>1, <1>3, <1>4 DEF Pages
<1>6. s \in SessionStates
  BY <1>5 DEF SessionStates
<1>7. InRange(s) /\ ViewOld(s) /\ PageOld(s)
  BY <1>1, <1>2, <1>3 DEF InRange, ViewOld, PageOld, Storing
<1> QED
  BY <1>2, <1>6, <1>7, SameAssets, MovesRows DEF LookAtAsset, Rows, TypeOK

(* A row is edited, checked or reviewed; afterwards it says its file is     *)
(* available only if it said so before or the file was found.               *)
Touches(j, i, n) ==
    /\ Entered(j, i)
    /\ n \in AssetRows /\ RowSound(n)
    /\ n.content = asset[j][i].content /\ n.version_no = asset[j][i].version_no
    /\ asset[j][i].lock_version <= n.lock_version
    /\ n.lock_version = asset[j][i].lock_version => n.review_status = asset[j][i].review_status
    /\ n.file_status = "available" =>
        asset[j][i].file_status = "available" \/ Detected(j, i) = "available"
    /\ asset' = [asset EXCEPT ![j][i] = n]

LEMMA TouchesRows ==
    ASSUME Rows, NEW j \in Jobs, NEW i \in Indexes, NEW n, Touches(j, i, n)
    PROVE  asset' \in [Jobs -> [Indexes -> AssetRows]] /\ RowsSound' /\ VersionsConsecutive' /\ Grows
  BY OneAsset DEF Touches

LEMMA FoundTypes ==
    ASSUME Rows, NEW j \in Jobs, NEW i \in Indexes
    PROVE  Found(j, i) \subseteq Keys
  BY DEF Found, Rows, TypeOK

LEMMA CheckFileTouches ==
    ASSUME Rows, NEW j \in Jobs, NEW i \in Indexes, CheckFile(j, i)
    PROVE  \E n : Touches(j, i, n)
<1> DEFINE row == asset[j][i]
<1>1. row \in AssetRows /\ RowSound(row) /\ row # AbsentAsset /\ row.lock_version < MaxLock
  BY DEF CheckFile, Entered, Rows, TypeOK, RowsSound
<1>2. Detected(j, i) \in Statuses
  BY DetectedStatus DEF CheckFile
<1>3. PICK n : n = WithStatus(row, Detected(j, i))
  OBVIOUS
<1>4. asset' = [asset EXCEPT ![j][i] = n]
  BY <1>3 DEF CheckFile
<1> QED
  BY <1>1, <1>2, <1>3, <1>4, WithStatusRow DEF Touches, Entered

LEMMA CheckFileRows ==
    ASSUME Rows, NEW j \in Jobs, NEW i \in Indexes, CheckFile(j, i)
    PROVE  Rows'
<1>1. asset' \in [Jobs -> [Indexes -> AssetRows]] /\ RowsSound' /\ VersionsConsecutive' /\ Grows
  BY CheckFileTouches, TouchesRows
<1>2. TypeOK'
  BY <1>1, FoundTypes DEF CheckFile, Contest, Rows, TypeOK
<1> QED
  BY <1>1, <1>2, SessionsKeep DEF CheckFile

LEMMA StorageFailsRows ==
    ASSUME Rows, NEW k \in Keys, NEW state \in {"absent", "damaged"}, StorageFails(k, state)
    PROVE  Rows'
<1>1. TypeOK'
  BY DEF StorageFails, Rows, TypeOK, FileStates
<1> QED
  BY <1>1, SameAssets, SessionsKeep DEF StorageFails

LEMMA AsSeenFacts ==
    ASSUME Rows, NEW q \in Sessions, AsSeen(q)
    PROVE  LET row == asset[session[q].job][session[q].index] IN
           /\ session[q].job \in Jobs /\ session[q].index \in Indexes
           /\ Entered(session[q].job, session[q].index)
           /\ row \in AssetRows /\ RowSound(row) /\ row # AbsentAsset /\ row.lock_version < MaxLock
<1>1. session[q] \in SessionStates /\ PageOld(session[q]) /\ session[q].at = "reviewing"
  BY DEF Rows, TypeOK, AsSeen
<1>2. session[q].job \in Jobs /\ session[q].index \in Indexes
  BY <1>1, SessionShape
<1> QED
  BY <1>1, <1>2 DEF Rows, TypeOK, RowsSound, PageOld, AsSeen, Entered

LEMMA UpdateAssetTouches ==
    ASSUME Rows, NEW q \in Sessions, UpdateAsset(q)
    PROVE  \E n : /\ Touches(session[q].job, session[q].index, n)
                  /\ n.file_status = asset[session[q].job][session[q].index].file_status
<1> DEFINE j == session[q].job
           i == session[q].index
           row == asset[j][i]
<1>1. /\ j \in Jobs /\ i \in Indexes /\ Entered(j, i)
      /\ row \in AssetRows /\ RowSound(row) /\ row # AbsentAsset /\ row.lock_version < MaxLock
  BY AsSeenFacts DEF UpdateAsset
<1>2. row.review_status \in {"pending", "approved", "rejected"}
  BY <1>1 DEF AssetRows, RowSound
<1>3. PICK n : n = Reviewed(row, row.review_status)
  OBVIOUS
<1>4. n = [row EXCEPT !.lock_version = row.lock_version + 1]
  BY <1>1, <1>3 DEF Reviewed, AssetRows
<1>5. asset' = [asset EXCEPT ![j][i] = n]
  BY <1>1, <1>4 DEF UpdateAsset, Rows, TypeOK
<1>6. row.lock_version \in Nat
  BY <1>1 DEF AssetRows
<1>7. /\ n \in AssetRows /\ RowSound(n)
      /\ n.content = row.content /\ n.version_no = row.version_no
      /\ n.lock_version = row.lock_version + 1
      /\ n.file_status = row.file_status
  BY <1>1, <1>2, <1>3, ReviewedRow
<1> HIDE DEF j, i
<1>8. Touches(j, i, n)
  BY <1>1, <1>5, <1>6, <1>7 DEF Touches
<1> QED
  BY <1>7, <1>8 DEF j, i

LEMMA ReviewAssetTouches ==
    ASSUME Rows, NEW q \in Sessions, NEW status \in {"pending", "approved", "rejected"},
           ReviewAsset(q, status)
    PROVE  \E n : /\ Touches(session[q].job, session[q].index, n)
                  /\ status # "approved" =>
                        n.file_status = asset[session[q].job][session[q].index].file_status
<1> DEFINE j == session[q].job
           i == session[q].index
           row == asset[j][i]
<1>1. /\ j \in Jobs /\ i \in Indexes /\ Entered(j, i)
      /\ row \in AssetRows /\ RowSound(row) /\ row # AbsentAsset /\ row.lock_version < MaxLock
  BY AsSeenFacts DEF ReviewAsset
<1>2. Detected(j, i) \in Statuses
  BY <1>1, DetectedStatus
<1>3. row.lock_version \in Nat
  BY <1>1 DEF AssetRows
<1>4. CASE status = "approved" /\ Detected(j, i) # "available"
  <2>1. PICK n : n = WithStatus(row, Detected(j, i))
    OBVIOUS
  <2>2. asset' = [asset EXCEPT ![j][i] = n]
    BY <1>4, <2>1 DEF ReviewAsset
  <2>3. /\ n \in AssetRows /\ RowSound(n)
        /\ n.content = row.content /\ n.version_no = row.version_no
        /\ row.lock_version <= n.lock_version /\ n.review_status = row.review_status
        /\ n.file_status = Detected(j, i)
    BY <1>1, <1>2, <2>1, WithStatusRow
  <2> HIDE DEF j, i
  <2>4. Touches(j, i, n)
    BY <1>1, <1>4, <2>2, <2>3 DEF Touches
  <2> QED
    BY <1>4, <2>4 DEF j, i
<1>5. CASE ~(status = "approved" /\ Detected(j, i) # "available")
  <2>1. PICK n : n = Reviewed(row, status)
    OBVIOUS
  <2>2. asset' = [asset EXCEPT ![j][i] = n]
    BY <1>5, <2>1 DEF ReviewAsset
  <2>3. /\ n \in AssetRows /\ RowSound(n)
        /\ n.content = row.content /\ n.version_no = row.version_no
        /\ n.lock_version = row.lock_version + 1
        /\ n.file_status = row.file_status
    BY <1>1, <2>1, ReviewedRow
  <2> HIDE DEF j, i
  <2>4. Touches(j, i, n)
    BY <1>1, <1>3, <2>2, <2>3 DEF Touches
  <2> QED
    BY <2>3, <2>4 DEF j, i
<1> QED
  BY <1>4, <1>5

LEMMA ActsKeepsRows ==
    ASSUME Rows, NEW q \in Sessions, Acts(q)
    PROVE  Rows'
<1>1. TypeOK
  BY DEF Rows
<1>2. CASE PrepareFails(q)
  BY <1>1, <1>2, CleanedTypes, EndsRows DEF PrepareFails, TypeOK
<1>3. CASE DimensionsInvalid(q)
  <2>1. [file EXCEPT ![PuttingKey(q)] = "sound"] \in [Keys -> FileStates]
    BY <1>1 DEF TypeOK, FileStates
  <2> QED
    BY <1>3, <2>1, CleanedTypes, EndsRows DEF DimensionsInvalid
<1>4. CASE Breaks(q)
  BY <1>1, <1>4, EndsRows DEF Breaks, TypeOK
<1>5. CASE PersistFails(q)
  BY <1>1, <1>5, CleanedTypes, EndsRows DEF PersistFails, TypeOK
<1>6. CASE LeaveAsset(q)
  BY <1>1, <1>6, EndsRows DEF LeaveAsset, TypeOK
<1>7. CASE Persist(q)
  <2>1. job' \in [Jobs -> {"running", "succeeded"}] /\ lost' \subseteq Keys /\ contested' \subseteq Jobs
    BY <1>1, <1>7 DEF Persist, TypeOK
  <2>2. file' \in [Keys -> FileStates] /\ Goto(q, Idle)
    BY <1>1, <1>7 DEF Persist, TypeOK
  <2> QED
    BY <1>7, <2>1, <2>2, PersistRows, MovesRows, IdleFits
<1>8. CASE UpdateAsset(q)
  <2>1. asset' \in [Jobs -> [Indexes -> AssetRows]] /\ RowsSound' /\ VersionsConsecutive' /\ Grows
    BY <1>8, AsSeenFacts, UpdateAssetTouches, TouchesRows DEF UpdateAsset
  <2> QED
    BY <1>1, <1>8, <2>1, MovesRows, IdleFits DEF UpdateAsset, TypeOK
<1>9. ASSUME NEW status \in {"pending", "approved", "rejected"}, ReviewAsset(q, status) PROVE Rows'
  <2>1. session[q].job \in Jobs /\ session[q].index \in Indexes
    BY <1>9, AsSeenFacts DEF ReviewAsset
  <2>2. asset' \in [Jobs -> [Indexes -> AssetRows]] /\ RowsSound' /\ VersionsConsecutive' /\ Grows
    BY <1>9, <2>1, ReviewAssetTouches, TouchesRows
  <2>3. lost' \subseteq Keys /\ contested' \subseteq Jobs
    BY <1>1, <1>9, <2>1, FoundTypes DEF ReviewAsset, Contest, TypeOK
  <2> QED
    BY <1>1, <1>9, <2>2, <2>3, MovesRows, IdleFits DEF ReviewAsset, TypeOK
<1> QED
  BY <1>2, <1>3, <1>4, <1>5, <1>6, <1>7, <1>8, <1>9, BeginRows, LookForFileRows, ReplaceFileRows,
     LookAtRows DEF Acts

LEMMA NextRows == Rows /\ [Next]_vars => Rows'
<1> SUFFICES ASSUME Rows, [Next]_vars PROVE Rows'
  OBVIOUS
<1>1. CASE UNCHANGED vars
  <2>1. TypeOK'
    BY <1>1 DEF vars, Rows, TypeOK
  <2> QED
    BY <1>1, <2>1, SameAssets, SessionsKeep DEF vars
<1> QED
  BY <1>1, ActsKeepsRows, CheckFileRows, StorageFailsRows DEF Next

LEMMA InitRows == Init => Rows
<1> SUFFICES ASSUME Init PROVE Rows
  OBVIOUS
<1>1. \A j \in Jobs, i \in Indexes : asset[j][i] = AbsentAsset
  BY DEF Init
<1>2. AbsentAsset \in AssetRows
  BY MaxAssetsNat, CountAssumption DEF AbsentAsset, AssetRows
<1>3. TypeOK
  BY <1>2 DEF Init, TypeOK, FileStates, SessionStates
<1>4. RowsSound
  BY <1>1 DEF RowsSound, RowSound
<1>5. VersionsConsecutive
  <2>1. Versions = {}
    BY <1>1 DEF Versions, AbsentAsset
  <2>2. {a \in Jobs \X Indexes : Entered(a[1], a[2])} = {}
    BY <1>1 DEF Entered
  <2>3. 1..0 = {}
    OBVIOUS
  <2> QED
    BY <2>1, <2>2, <2>3, FS_EmptySet DEF VersionsConsecutive
<1>6. \A q \in Sessions : InRange(session[q]) /\ ViewOld(session[q]) /\ PageOld(session[q])
  BY IdleFits DEF Init
<1> QED
  BY <1>3, <1>4, <1>5, <1>6 DEF Rows

LEMMA RowsInductive == Spec => []Rows
<1> QED
  BY InitRows, NextRows, PTL DEF Spec

(***************************************************************************)
(* Files.                                                                  *)
(***************************************************************************)

(* What a step may not do to a file.                                        *)
KeepsFile(k) == Kept(k) => file'[k] = "sound" \/ k \in lost'

KeepsSpare(k) == Expendable(k) => Expendable(k)'

(* The state of one session, as far as files are concerned.                 *)
Sane(s) == StoredKept(s) /\ CreatedExpendable(s)

LEMMA PreparedKeys ==
    ASSUME NEW s \in SessionStates, InRange(s), Storing(s)
    PROVE  /\ \A n \in DOMAIN s.prepared :
                PreparedKey(s, n) \in Keys /\ PreparedKey(s, n).job = s.job
           /\ s.at = "putting" => NextKey(s) \in Keys /\ NextKey(s).job = s.job
<1>1. /\ s.job \in Jobs /\ s.prepared \in Seq(Prepared) /\ Len(s.prepared) \in 0..ResultCount
      /\ s.at = "putting" => s.content \in Contents /\ Len(s.prepared) < ResultCount
  BY SessionShape, IndexesFinite DEF InRange
<1>2. ASSUME NEW n \in DOMAIN s.prepared
      PROVE  n \in Indexes /\ s.prepared[n].content \in Contents
  <2>1. PICK p \in Seq(Prepared) : p = s.prepared
    BY <1>1
  <2>2. n \in 1..Len(p) /\ p[n] \in Prepared
    BY <2>1
  <2> QED
    BY <1>1, <2>1, <2>2, IndexesFinite DEF Indexes, Prepared
<1>3. s.at = "putting" => Len(s.prepared) + 1 \in Indexes
  BY <1>1, IndexesFinite DEF Indexes
<1> QED
  BY <1>1, <1>2, <1>3 DEF PreparedKey, NextKey, Key, Keys

LEMMA SaneStays ==
    ASSUME NEW s \in SessionStates, InRange(s), Sane(s), contested \subseteq contested',
           Storing(s) /\ s.job \notin contested' => \A k \in Keys : k.job = s.job => KeepsFile(k) /\ KeepsSpare(k)
    PROVE  Sane(s)'
<1>1. ASSUME Storing(s), s.job \notin contested', NEW n \in DOMAIN s.prepared
      PROVE  /\ Kept(PreparedKey(s, n))'
             /\ s.prepared[n].created => Expendable(PreparedKey(s, n))'
  <2>1. PICK k : k = PreparedKey(s, n)
    OBVIOUS
  <2>2. KeepsFile(k) /\ KeepsSpare(k)
    BY <1>1, <2>1, PreparedKeys
  <2>3. Kept(k) /\ (s.prepared[n].created => Expendable(k))
    BY <1>1, <2>1 DEF Sane, StoredKept, CreatedExpendable, Watched
  <2> QED
    BY <2>1, <2>2, <2>3 DEF KeepsFile, KeepsSpare, Kept
<1>2. ASSUME s.at = "putting", ~s.existed, s.job \notin contested'
      PROVE  Expendable(NextKey(s))'
  <2>1. PICK k : k = NextKey(s)
    OBVIOUS
  <2>2. Storing(s)
    BY <1>2 DEF Storing
  <2>3. KeepsSpare(k)
    BY <1>2, <2>1, <2>2, PreparedKeys
  <2>4. Expendable(k)
    BY <1>2, <2>1, <2>2 DEF Sane, CreatedExpendable, Watched
  <2> QED
    BY <2>1, <2>3, <2>4 DEF KeepsSpare
<1> QED
  BY <1>1, <1>2 DEF Sane, StoredKept, CreatedExpendable, Watched

LEMMA AllSane ==
    ASSUME Rows, \A q \in Sessions : Sane(session[q]), contested \subseteq contested',
           \A p \in Sessions :
            \/ /\ session'[p] = session[p]
               /\ Storing(session[p]) /\ session[p].job \notin contested' =>
                    \A k \in Keys : k.job = session[p].job => KeepsFile(k) /\ KeepsSpare(k)
            \/ Sane(session[p])'
    PROVE  \A p \in Sessions : Sane(session[p])'
<1> SUFFICES ASSUME NEW p \in Sessions, session'[p] = session[p],
                    Storing(session[p]) /\ session[p].job \notin contested' =>
                        \A k \in Keys : k.job = session[p].job => KeepsFile(k) /\ KeepsSpare(k)
             PROVE  Sane(session[p])'
  OBVIOUS
<1>1. PICK s : s = session[p] /\ s = session'[p]
  OBVIOUS
<1>2. s \in SessionStates /\ InRange(s) /\ Sane(s)
  BY <1>1 DEF Rows, TypeOK
<1>3. Sane(s)'
  BY <1>1, <1>2, SaneStays
<1> QED
  BY <1>1, <1>3
  DEF Sane, StoredKept, CreatedExpendable, Watched, Storing, PreparedKey, NextKey, Kept, Expendable

LEMMA SameSpare ==
    ASSUME UNCHANGED asset, lost \subseteq lost', NEW k
    PROVE  KeepsSpare(k)
  BY DEF KeepsSpare, Expendable, AssetKey

(* Nobody begins to store.                                                  *)
LEMMA SameStorers ==
    ASSUME Exclusive, contested \subseteq contested',
           \A p \in Sessions : Storing(session'[p]) =>
                Storing(session[p]) /\ session'[p].job = session[p].job
    PROVE  Exclusive'
  BY DEF Exclusive, Watched, Storing

(* Assets stay, and files are deleted only if they are expendable.          *)
LEMMA SameAvailable ==
    ASSUME Rows, UncontestedFilesKept, UNCHANGED asset, lost \subseteq lost',
           contested \subseteq contested',
           \A k \in Keys : k.job \notin contested => KeepsFile(k) \/ Expendable(k)
    PROVE  UncontestedFilesKept'
<1> SUFFICES ASSUME NEW j \in Jobs \ contested, NEW i \in Indexes, asset[j][i].file_status = "available"
             PROVE  file'[AssetKey(j, i)] = "sound" \/ AssetKey(j, i) \in lost'
  BY DEF UncontestedFilesKept, JobFilesKept, AssetKey
<1>1. Entered(j, i)
  BY DEF Entered, AbsentAsset
<1>2. AssetKey(j, i) \in Keys /\ AssetKey(j, i).job = j
  BY <1>1, DetectedStatus DEF AssetKey, Key
<1>3. Kept(AssetKey(j, i))
  BY DEF UncontestedFilesKept, JobFilesKept, Kept
<1>4. Expendable(AssetKey(j, i)) => AssetKey(j, i) \in lost
  BY DEF Expendable
<1> QED
  BY <1>2, <1>3, <1>4 DEF KeepsFile

LEMMA StepSane ==
    ASSUME IInv, NEW q \in Sessions, NEW s, Goto(q, s), Sane(s)', contested \subseteq contested',
           \A p \in Sessions \ {q} : Storing(session[p]) /\ session[p].job \notin contested' =>
                \A k \in Keys : k.job = session[p].job => KeepsFile(k) /\ KeepsSpare(k)
    PROVE  \A p \in Sessions : StoredKept(session[p])' /\ CreatedExpendable(session[p])'
<1>1. Rows /\ session \in [Sessions -> SessionStates]
  BY DEF IInv, Rows, TypeOK
<1>2. session'[q] = s /\ \A p \in Sessions \ {q} : session'[p] = session[p]
  BY <1>1 DEF Goto
<1>3. Sane(session[q])'
  <2>1. PICK x : x = session'[q] /\ x = s
    BY <1>2
  <2> QED
    BY <2>1
    DEF Sane, StoredKept, CreatedExpendable, Watched, Storing, PreparedKey, NextKey, Kept, Expendable
<1>4. \A p \in Sessions : Sane(session[p])
  BY DEF IInv, Sane
<1>5. \A p \in Sessions : Sane(session[p])'
  BY <1>1, <1>2, <1>3, <1>4, AllSane
<1> QED
  BY <1>5 DEF Sane

LEMMA StepExclusive ==
    ASSUME IInv, NEW q \in Sessions, NEW s, Goto(q, s), contested \subseteq contested',
           Storing(s) => Storing(session[q]) /\ s.job = session[q].job
    PROVE  Exclusive'
<1>1. session \in [Sessions -> SessionStates]
  BY DEF IInv, Rows, TypeOK
<1>2. session'[q] = s /\ \A p \in Sessions \ {q} : session'[p] = session[p]
  BY <1>1 DEF Goto
<1> QED
  BY <1>2, SameStorers DEF IInv

LEMMA IdleSane == ~Storing(Idle) /\ Sane(Idle)'
  BY DEF Idle, Storing, Watched, Sane, StoredKept, CreatedExpendable

(* Where nobody contests, sessions store for different jobs.                *)
LEMMA OtherJobs ==
    ASSUME IInv, NEW q \in Sessions, Storing(session[q]),
           NEW p \in Sessions \ {q}, Watched(session[p])
    PROVE  session[p].job # session[q].job
  BY DEF IInv, Exclusive

(* A session moves on, and assets, files and losses stay.                   *)
LEMMA QuietFiles ==
    ASSUME IInv, Rows', UNCHANGED <<asset, file, lost>>, contested \subseteq contested',
           NEW q \in Sessions, NEW s, Goto(q, s), Sane(s), Exclusive'
    PROVE  IInv'
<1>1. \A k : KeepsFile(k) /\ KeepsSpare(k)
  BY SameSpare DEF KeepsFile, Kept
<1>2. UncontestedFilesKept'
  BY <1>1, SameAvailable DEF IInv
<1>3. s \in SessionStates /\ InRange(s)
  <2>1. session'[q] = s
    BY DEF Goto, IInv, Rows, TypeOK
  <2> QED
    BY <2>1 DEF Rows, TypeOK, InRange, Storing
<1>4. Sane(s)'
  BY <1>1, <1>3, SaneStays
<1> QED
  BY <1>1, <1>2, <1>4, StepSane DEF IInv

LEMMA QuietEnd ==
    ASSUME IInv, Rows', UNCHANGED <<asset, file, lost, contested>>, NEW q \in Sessions, Goto(q, Idle)
    PROVE  IInv'
<1>1. Sane(Idle) /\ ~Storing(Idle)
  BY DEF Idle, Storing, Watched, Sane, StoredKept, CreatedExpendable
<1> QED
  BY <1>1, StepExclusive, QuietFiles

LEMMA CreatedKeyFacts ==
    ASSUME IInv, NEW q \in Sessions, Storing(session[q]), NEW k \in CreatedKeys(q)
    PROVE  k.job = session[q].job /\ (k.job \notin contested => Expendable(k))
<1>1. PICK n \in DOMAIN session[q].prepared :
        session[q].prepared[n].created /\ k = PreparedKey(session[q], n)
  BY DEF CreatedKeys, PreparedKey
<1> QED
  BY <1>1 DEF IInv, CreatedExpendable, Watched, PreparedKey, Key

(* A session that fails deletes what it created.                            *)
LEMMA CleanEnd ==
    ASSUME IInv, Rows', UNCHANGED <<asset, lost, contested>>, NEW q \in Sessions, Storing(session[q]),
           NEW files, \A k \in Keys : files[k] \in {file[k], "sound"},
           file' = Cleaned(q, files), Goto(q, Idle)
    PROVE  IInv'
<1>1. \A k \in Keys : k \notin CreatedKeys(q) => KeepsFile(k)
  BY DEF Cleaned, KeepsFile, Kept
<1>2. \A k \in CreatedKeys(q) : k.job = session[q].job /\ (k.job \notin contested => Expendable(k))
  BY CreatedKeyFacts
<1>3. UncontestedFilesKept'
  BY <1>1, <1>2, SameAvailable DEF IInv
<1>4. \A p \in Sessions \ {q} : Storing(session[p]) /\ session[p].job \notin contested' =>
        \A k \in Keys : k.job = session[p].job => KeepsFile(k) /\ KeepsSpare(k)
  BY <1>1, <1>2, OtherJobs, SameSpare DEF Watched
<1> QED
  BY <1>3, <1>4, IdleSane, StepSane, StepExclusive DEF IInv

LEMMA BeginFiles ==
    ASSUME IInv, Rows', NEW q \in Sessions, NEW kind \in Kinds, NEW j \in Jobs,
           BeginPrepare(q, kind, j)
    PROVE  IInv'
<1>1. PICK s : s = [at |-> "preparing", kind |-> kind, job |-> j, view |-> View(j), prepared |-> <<>>]
  OBVIOUS
<1>2. Goto(q, s)
  BY <1>1 DEF BeginPrepare
<1>3. /\ contested \subseteq contested'
      /\ j \notin contested' => \A p \in Sessions : ~(Storing(session[p]) /\ session[p].job = j)
  BY DEF BeginPrepare, Contest, Stores, Storing
<1>4. session'[q] = s /\ \A p \in Sessions \ {q} : session'[p] = session[p]
  BY <1>2 DEF IInv, Rows, TypeOK, Goto
<1>5. Exclusive'
  BY <1>1, <1>3, <1>4 DEF IInv, Exclusive, Watched, Storing
<1>6. Sane(s)
  BY <1>1 DEF Sane, StoredKept, CreatedExpendable
<1> QED
  BY <1>2, <1>3, <1>5, <1>6, QuietFiles DEF BeginPrepare

(* What was not there when a session looked is named by no row, unless it   *)
(* was lost.                                                                *)
LEMMA LookForFileFiles ==
    ASSUME IInv, Rows', NEW q \in Sessions, NEW content \in Contents, LookForFile(q, content)
    PROVE  IInv'
<1>1. PICK o : o = session[q]
  OBVIOUS
<1>2. PICK s : s = [at |-> "putting", kind |-> o.kind, job |-> o.job, view |-> o.view,
                    prepared |-> o.prepared, content |-> content,
                    existed |-> file[Key(o.job, NextIndex(q), content)] # "absent"]
  OBVIOUS
<1>3. Goto(q, s) /\ o.at = "preparing"
  BY <1>1, <1>2 DEF LookForFile
<1>4. Exclusive'
  BY <1>1, <1>2, <1>3, StepExclusive DEF Storing, LookForFile
<1>5. Sane(o)
  BY <1>1 DEF IInv, Sane
<1>6. NextKey(s) = Key(o.job, NextIndex(q), content)
  BY <1>1, <1>2 DEF NextKey, NextIndex
<1>7. ~s.existed /\ s.job \notin contested => Expendable(NextKey(s))
  <2> SUFFICES ASSUME ~s.existed, s.job \notin contested, NEW j \in Jobs, NEW i \in Indexes,
                      asset[j][i].file_status = "available", AssetKey(j, i) = NextKey(s)
               PROVE  NextKey(s) \in lost
    BY DEF Expendable
  <2>1. j = s.job
    BY <1>2, <1>6 DEF AssetKey, Key
  <2>2. file[NextKey(s)] # "sound"
    BY <1>2, <1>6
  <2> QED
    BY <2>1, <2>2 DEF IInv, UncontestedFilesKept, JobFilesKept
<1>8. Sane(s)
  BY <1>2, <1>3, <1>5, <1>7
  DEF Sane, StoredKept, CreatedExpendable, Watched, Storing, PreparedKey
<1> QED
  BY <1>3, <1>4, <1>8, QuietFiles DEF LookForFile

LEMMA ReplaceFileFiles ==
    ASSUME IInv, Rows', NEW q \in Sessions, ReplaceFile(q)
    PROVE  IInv'
<1>1. PICK o : o = session[q]
  OBVIOUS
<1>2. PICK new : new = [content |-> o.content, created |-> ~o.existed]
  OBVIOUS
<1>3. PICK s : s = [at |-> "preparing", kind |-> o.kind, job |-> o.job, view |-> o.view,
                    prepared |-> Append(o.prepared, new)]
  OBVIOUS
<1>4. Goto(q, s) /\ o.at = "putting"
  BY <1>1, <1>2, <1>3 DEF ReplaceFile
<1>5. PICK k : k = NextKey(o)
  OBVIOUS
<1>6. k \in Keys /\ file' = [file EXCEPT ![k] = "sound"]
  <2>1. o \in SessionStates /\ InRange(o) /\ Storing(o)
    BY <1>1, <1>4 DEF IInv, Rows, TypeOK, Storing
  <2>2. PuttingKey(q) = NextKey(o)
    BY <1>1 DEF PuttingKey, NextKey, NextIndex
  <2> QED
    BY <1>4, <1>5, <2>1, <2>2, PreparedKeys DEF ReplaceFile
<1>7. file'[k] = "sound" /\ \A h \in Keys \ {k} : file'[h] = file[h]
  BY <1>6 DEF IInv, Rows, TypeOK
<1>8. \A h \in Keys : KeepsFile(h) /\ KeepsSpare(h)
  BY <1>7, SameSpare DEF ReplaceFile, KeepsFile, Kept
<1>9. UncontestedFilesKept'
  BY <1>8, SameAvailable DEF IInv, ReplaceFile
<1>10. o.prepared \in Seq(Prepared)
  BY <1>1, <1>4, StoringFacts DEF IInv, Storing
<1>11. /\ Len(s.prepared) = Len(o.prepared) + 1
       /\ \A n \in 1..Len(o.prepared) : s.prepared[n] = o.prepared[n]
       /\ s.prepared[Len(o.prepared) + 1] = new
  BY <1>3, <1>10
<1>12. Sane(o) /\ Storing(o) /\ o \in SessionStates /\ InRange(o)
  BY <1>1, <1>4 DEF IInv, Sane, Storing, Rows, TypeOK
<1>13. Sane(o)'
  BY <1>8, <1>12, SaneStays DEF ReplaceFile
<1>14. Kept(k)' /\ (new.created /\ s.job \notin contested => Expendable(k)')
  <2>1. new.created => ~o.existed
    BY <1>2
  <2>2. new.created /\ s.job \notin contested => Expendable(NextKey(o))'
    BY <1>3, <1>4, <1>12, <1>13, <2>1 DEF Sane, CreatedExpendable, Watched, ReplaceFile, Storing
  <2> QED
    BY <1>5, <1>7, <2>2 DEF Kept, NextKey
<1>15. ASSUME NEW n \in DOMAIN s.prepared, s.job \notin contested
       PROVE  Kept(PreparedKey(s, n))' /\ (s.prepared[n].created => Expendable(PreparedKey(s, n))')
  <2>1. CASE n \in DOMAIN o.prepared
    <3>1. PreparedKey(s, n) = PreparedKey(o, n) /\ s.prepared[n] = o.prepared[n]
      BY <1>3, <1>10, <1>11, <2>1 DEF PreparedKey
    <3> QED
      BY <1>3, <1>12, <1>13, <1>15, <2>1, <3>1
      DEF Sane, StoredKept, CreatedExpendable, Watched, ReplaceFile, Storing
  <2>2. CASE n \notin DOMAIN o.prepared
    <3>1. n = Len(o.prepared) + 1
      <4>1. DOMAIN s.prepared = 1..Len(s.prepared) /\ DOMAIN o.prepared = 1..Len(o.prepared)
            /\ Len(o.prepared) \in Nat
        BY <1>3, <1>10
      <4> QED
        BY <1>11, <2>2, <4>1
    <3>2. PreparedKey(s, n) = k
      BY <1>2, <1>3, <1>5, <1>11, <3>1 DEF PreparedKey, NextKey
    <3> QED
      BY <1>11, <1>14, <1>15, <3>1, <3>2
  <2> QED
    BY <2>1, <2>2
<1>16. s.at = "preparing"
  BY <1>3
<1>17. Sane(s)'
  BY <1>15, <1>16 DEF Sane, StoredKept, CreatedExpendable, Watched, ReplaceFile
<1>18. Exclusive'
  BY <1>1, <1>3, <1>4, StepExclusive DEF Storing, ReplaceFile
<1> QED
  BY <1>4, <1>8, <1>9, <1>17, <1>18, StepSane DEF IInv, ReplaceFile

LEMMA PersistFiles ==
    ASSUME IInv, Rows', NEW q \in Sessions, Persist(q)
    PROVE  IInv'
<1> DEFINE j == session[q].job
<1>1. Rows /\ Storing(session[q]) /\ session[q].at = "preparing" /\ Goto(q, Idle)
  BY DEF IInv, Persist, Storing
<1>2. j \in Jobs /\ session[q].prepared \in Seq(Prepared)
      /\ Len(session[q].prepared) = ResultCount
  BY <1>1, StoringFacts, IndexesFinite DEF Persist, NextIndex, Indexes
<1>3. \A k \in StoredKeys(q) : k.job = j
  BY DEF StoredKeys, Key
<1>4. file' = file /\ lost' = lost \ {k \in StoredKeys(q) : file[k] = "sound"}
  BY DEF Persist
<1>5. \A k \in Keys : KeepsFile(k)
  BY <1>4 DEF KeepsFile, Kept
<1>6. \A h \in Jobs \ {j} : asset'[h] = asset[h]
  BY <1>1 DEF Persist, Rows, TypeOK
<1>7. ASSUME NEW k \in Keys, k.job # j PROVE KeepsSpare(k)
  <2> SUFFICES ASSUME Expendable(k), NEW h \in Jobs, NEW i \in Indexes,
                      asset'[h][i].file_status = "available",
                      Key(h, i, asset'[h][i].content) = k
               PROVE  k \in lost'
    BY DEF KeepsSpare, Expendable, AssetKey
  <2>1. h # j
    BY <1>7 DEF Key
  <2>2. asset'[h] = asset[h]
    BY <1>6, <2>1
  <2>3. k \in lost
    BY <2>2 DEF Expendable, AssetKey
  <2> QED
    BY <1>3, <1>4, <1>7, <2>3
<1>8. ASSUME NEW i \in Indexes
      PROVE  asset'[j][i].content = session[q].prepared[i].content
  <2>1. CASE i \in NewIndexes(q)
    <3>1. asset'[j][i] = NewAsset(session[q].prepared[i].content, VersionOf(q, i))
      BY <1>1, <1>2, <2>1 DEF Persist, Rows, TypeOK
    <3> QED
      BY <3>1 DEF NewAsset
  <2>2. CASE i \notin NewIndexes(q)
    <3>1. asset'[j][i] = StoredAgain(asset[j][i], PersistView(q).rows[i])
      BY <1>1, <1>2, <2>2 DEF Persist, Rows, TypeOK
    <3>2. asset'[j][i].content = asset[j][i].content
      BY <1>1, <1>2, <3>1 DEF StoredAgain, Rows, TypeOK, AssetRows
    <3>3. asset[j][i].content = PersistView(q).rows[i].content
      BY <1>1, <2>2, PersistViewOld
    <3> QED
      BY <2>2, <3>2, <3>3 DEF Persist, ContentsAgree
  <2> QED
    BY <2>1, <2>2
<1>9. j \notin contested => \A i \in Indexes : Kept(Key(j, i, session[q].prepared[i].content))
  <2>1. Indexes = DOMAIN session[q].prepared
    BY <1>2 DEF Indexes
  <2> QED
    BY <1>1, <2>1 DEF IInv, StoredKept, Watched, PreparedKey
<1>10. UncontestedFilesKept'
  <2> SUFFICES ASSUME NEW h \in Jobs \ contested, NEW i \in Indexes,
                      asset'[h][i].file_status = "available"
               PROVE  LET k == Key(h, i, asset'[h][i].content) IN
                      file'[k] = "sound" \/ k \in lost'
    BY DEF UncontestedFilesKept, JobFilesKept, AssetKey, Persist
  <2>1. PICK k : k = Key(h, i, asset'[h][i].content)
    OBVIOUS
  <2>2. Kept(k)
    <3>1. CASE h = j
      BY <1>8, <1>9, <2>1, <3>1
    <3>2. CASE h # j
      BY <1>6, <2>1, <3>2 DEF IInv, UncontestedFilesKept, JobFilesKept, AssetKey, Kept
    <3> QED
      BY <3>1, <3>2
  <2> QED
    BY <1>4, <2>1, <2>2 DEF Kept
<1>11. \A p \in Sessions \ {q} : Storing(session[p]) /\ session[p].job \notin contested' =>
        \A k \in Keys : k.job = session[p].job => KeepsFile(k) /\ KeepsSpare(k)
  BY <1>1, <1>5, <1>7, OtherJobs DEF Watched, Persist
<1> QED
  BY <1>1, <1>10, <1>11, IdleSane, StepSane, StepExclusive DEF IInv, Persist

(* A row is edited, checked or reviewed: what is found is what there is.    *)
LEMMA TouchesFiles ==
    ASSUME IInv, NEW j \in Jobs, NEW i \in Indexes, NEW n, Touches(j, i, n), file' = file,
           contested \subseteq contested', lost' = lost \/ lost' = Found(j, i)
    PROVE  /\ \A k \in Keys : KeepsFile(k)
           /\ \A k \in Keys : k.job # j => KeepsSpare(k)
           /\ UncontestedFilesKept'
<1>1. Rows /\ TypeOK
  BY DEF IInv, Rows
<1>2. /\ AssetKey(j, i) \in Keys /\ AssetKey(j, i).job = j
      /\ Detected(j, i) = "available" <=> file[AssetKey(j, i)] = "sound"
  BY <1>1, DetectedStatus DEF Touches
<1>3. \A k : k \in lost => k \in lost' \/ (k = AssetKey(j, i) /\ file[k] = "sound")
  BY <1>2 DEF Found
<1>4. \A k : KeepsFile(k)
  BY <1>3 DEF KeepsFile, Kept
<1>5. asset'[j][i] = n /\ \A h \in Jobs, m \in Indexes : h # j \/ m # i => asset'[h][m] = asset[h][m]
  BY <1>1 DEF Touches, TypeOK
<1>6. \A h \in Jobs, m \in Indexes : asset'[h][m].content = asset[h][m].content
  BY <1>5 DEF Touches
<1>7. ASSUME NEW k \in Keys, k.job # j PROVE KeepsSpare(k)
  <2> SUFFICES ASSUME Expendable(k), NEW h \in Jobs, NEW m \in Indexes,
                      asset'[h][m].file_status = "available",
                      Key(h, m, asset'[h][m].content) = k
               PROVE  k \in lost'
    BY DEF KeepsSpare, Expendable, AssetKey
  <2>1. h # j
    BY <1>7 DEF Key
  <2>2. k \in lost
    BY <1>5, <2>1 DEF Expendable, AssetKey
  <2> QED
    BY <1>2, <1>3, <1>7, <2>2
<1>8. UncontestedFilesKept'
  <2> SUFFICES ASSUME NEW h \in Jobs \ contested, NEW m \in Indexes,
                      asset'[h][m].file_status = "available"
               PROVE  LET k == Key(h, m, asset'[h][m].content) IN
                      file'[k] = "sound" \/ k \in lost'
    BY DEF UncontestedFilesKept, JobFilesKept, AssetKey
  <2>1. PICK k : k = Key(h, m, asset'[h][m].content)
    OBVIOUS
  <2>2. k = AssetKey(h, m)
    BY <1>6, <2>1 DEF AssetKey
  <2>3. Kept(k)
    <3>1. CASE asset[h][m].file_status = "available"
      BY <2>2, <3>1 DEF IInv, UncontestedFilesKept, JobFilesKept, Kept
    <3>2. CASE asset[h][m].file_status # "available"
      <4>1. h = j /\ m = i
        BY <1>5, <3>2
      <4>2. file[AssetKey(j, i)] = "sound"
        BY <1>2, <1>5, <3>2, <4>1 DEF Touches
      <4> QED
        BY <2>2, <4>1, <4>2 DEF Kept
    <3> QED
      BY <3>1, <3>2
  <2>4. KeepsFile(k)
    BY <1>4
  <2> QED
    BY <2>1, <2>3, <2>4 DEF KeepsFile
<1> QED
  BY <1>4, <1>7, <1>8

(* Nothing is lost or found, and no row says more than before.              *)
LEMMA SameStatusSpare ==
    ASSUME IInv, NEW j \in Jobs, NEW i \in Indexes, NEW n, Touches(j, i, n), lost' = lost,
           n.file_status = asset[j][i].file_status, NEW k
    PROVE  KeepsSpare(k)
<1>1. \A h \in Jobs, m \in Indexes :
        /\ asset'[h][m].content = asset[h][m].content
        /\ asset'[h][m].file_status = asset[h][m].file_status
  BY DEF IInv, Rows, TypeOK, Touches
<1> QED
  BY <1>1 DEF KeepsSpare, Expendable, AssetKey

LEMMA CheckFileFiles ==
    ASSUME IInv, Rows', NEW j \in Jobs, NEW i \in Indexes, CheckFile(j, i)
    PROVE  IInv'
<1>1. PICK n : Touches(j, i, n)
  BY CheckFileTouches DEF IInv
<1>3. /\ contested \subseteq contested'
      /\ j \notin contested' => \A p \in Sessions : ~(Storing(session[p]) /\ session[p].job = j)
  BY DEF CheckFile, Contest, Stores, Storing
<1>2. /\ \A k \in Keys : KeepsFile(k)
      /\ \A k \in Keys : k.job # j => KeepsSpare(k)
      /\ UncontestedFilesKept'
  BY <1>1, <1>3, TouchesFiles DEF CheckFile
<1>4. UNCHANGED session
  BY DEF CheckFile
<1>5. \A p \in Sessions : Sane(session[p])'
  <2>1. \A p \in Sessions : Sane(session[p])
    BY DEF IInv, Sane
  <2> QED
    BY <1>2, <1>3, <1>4, <2>1, AllSane DEF IInv
<1>6. Exclusive'
  BY <1>3, <1>4, SameStorers DEF IInv
<1> QED
  BY <1>2, <1>5, <1>6 DEF IInv, Sane

LEMMA StorageFailsFiles ==
    ASSUME IInv, Rows', NEW k \in Keys, NEW state \in {"absent", "damaged"}, StorageFails(k, state)
    PROVE  IInv'
<1>1. \A h \in Keys : KeepsFile(h) /\ KeepsSpare(h)
  <2>1. \A h \in Keys \ {k} : file'[h] = file[h]
    BY DEF StorageFails, IInv, Rows, TypeOK
  <2> QED
    BY <2>1, SameSpare DEF StorageFails, KeepsFile, Kept
<1>2. UncontestedFilesKept'
  BY <1>1, SameAvailable DEF StorageFails, IInv
<1>3. UNCHANGED session
  BY DEF StorageFails
<1>4. \A p \in Sessions : Sane(session[p])'
  <2>1. \A p \in Sessions : Sane(session[p])
    BY DEF IInv, Sane
  <2> QED
    BY <1>1, <1>3, <2>1, AllSane DEF IInv, StorageFails
<1>5. Exclusive'
  BY <1>3, SameStorers DEF IInv, StorageFails
<1> QED
  BY <1>2, <1>4, <1>5 DEF IInv, Sane

LEMMA UpdateAssetFiles ==
    ASSUME IInv, Rows', NEW q \in Sessions, UpdateAsset(q)
    PROVE  IInv'
<1> DEFINE j == session[q].job
           i == session[q].index
<1>1. j \in Jobs /\ i \in Indexes
  BY AsSeenFacts DEF IInv, UpdateAsset
<1>2. PICK n : Touches(j, i, n) /\ n.file_status = asset[j][i].file_status
  BY UpdateAssetTouches DEF IInv
<1> HIDE DEF j, i
<1>3. (\A k \in Keys : KeepsFile(k)) /\ UncontestedFilesKept'
  BY <1>1, <1>2, TouchesFiles DEF UpdateAsset
<1>4. \A k \in Keys : KeepsSpare(k)
  BY <1>1, <1>2, SameStatusSpare DEF UpdateAsset
<1> QED
  BY <1>3, <1>4, IdleSane, StepSane, StepExclusive DEF IInv, UpdateAsset

LEMMA ReviewAssetFiles ==
    ASSUME IInv, Rows', NEW q \in Sessions,
           NEW status \in {"pending", "approved", "rejected"}, ReviewAsset(q, status)
    PROVE  IInv'
<1> DEFINE j == session[q].job
           i == session[q].index
<1>1. j \in Jobs /\ i \in Indexes
  BY AsSeenFacts DEF IInv, ReviewAsset
<1>2. PICK n : /\ Touches(j, i, n)
               /\ status # "approved" => n.file_status = asset[j][i].file_status
  BY ReviewAssetTouches DEF IInv
<1>3. lost' = lost \/ lost' = Found(j, i)
  BY DEF ReviewAsset
<1>4. status # "approved" => lost' = lost
  BY DEF ReviewAsset
<1>5. /\ contested \subseteq contested'
      /\ status = "approved" /\ j \notin contested' =>
            \A p \in Sessions : ~(Storing(session[p]) /\ session[p].job = j)
  BY DEF ReviewAsset, Contest, Stores, Storing
<1> HIDE DEF j, i
<1>6. /\ \A k \in Keys : KeepsFile(k)
      /\ \A k \in Keys : k.job # j => KeepsSpare(k)
      /\ UncontestedFilesKept'
  BY <1>1, <1>2, <1>3, <1>5, TouchesFiles DEF ReviewAsset
<1>7. status # "approved" => \A k \in Keys : KeepsSpare(k)
  BY <1>1, <1>2, <1>4, SameStatusSpare
<1>8. \A p \in Sessions \ {q} : Storing(session[p]) /\ session[p].job \notin contested' =>
        \A k \in Keys : k.job = session[p].job => KeepsFile(k) /\ KeepsSpare(k)
  BY <1>5, <1>6, <1>7
<1> QED
  BY <1>5, <1>6, <1>8, IdleSane, StepSane, StepExclusive DEF IInv, ReviewAsset

LEMMA LookAtFiles ==
    ASSUME IInv, Rows', NEW q \in Sessions, NEW j \in Jobs, NEW i \in Indexes, LookAtAsset(q, j, i)
    PROVE  IInv'
<1>1. PICK s : s = [at |-> "reviewing", job |-> j, index |-> i,
                    page |-> [review_status |-> asset[j][i].review_status,
                              lock_version |-> asset[j][i].lock_version]]
  OBVIOUS
<1>2. Goto(q, s) /\ s.at = "reviewing"
  BY <1>1 DEF LookAtAsset
<1>3. ~Storing(s) /\ Sane(s)
  BY <1>2 DEF Storing, Watched, Sane, StoredKept, CreatedExpendable
<1>4. Exclusive'
  BY <1>2, <1>3, StepExclusive DEF LookAtAsset
<1> QED
  BY <1>2, <1>3, <1>4, QuietFiles DEF LookAtAsset

LEMMA ActsKeepsInv ==
    ASSUME IInv, NEW q \in Sessions, Acts(q)
    PROVE  IInv'
<1>1. Rows' /\ TypeOK
  BY ActsKeepsRows DEF IInv, Rows
<1>2. CASE PrepareFails(q)
  BY <1>1, <1>2, CleanEnd DEF PrepareFails, Storing
<1>3. CASE DimensionsInvalid(q)
  <2>1. \A k \in Keys : [file EXCEPT ![PuttingKey(q)] = "sound"][k] \in {file[k], "sound"}
    BY <1>1 DEF TypeOK
  <2> QED
    BY <1>1, <1>3, <2>1, CleanEnd DEF DimensionsInvalid, Storing
<1>4. CASE Breaks(q)
  BY <1>1, <1>4, QuietEnd DEF Breaks
<1>5. CASE PersistFails(q)
  BY <1>1, <1>5, CleanEnd DEF PersistFails, Storing
<1>6. CASE LeaveAsset(q)
  BY <1>1, <1>6, QuietEnd DEF LeaveAsset
<1> QED
  BY <1>1, <1>2, <1>3, <1>4, <1>5, <1>6, BeginFiles, LookForFileFiles, ReplaceFileFiles,
     PersistFiles, UpdateAssetFiles, ReviewAssetFiles, LookAtFiles DEF Acts

LEMMA NextInductive == IInv /\ [Next]_vars => IInv'
<1> SUFFICES ASSUME IInv, [Next]_vars PROVE IInv'
  OBVIOUS
<1>1. Rows'
  BY NextRows DEF IInv
<1>2. CASE UNCHANGED vars
  <2>1. \A k : KeepsFile(k) /\ KeepsSpare(k)
    BY <1>2, SameSpare DEF vars, KeepsFile, Kept
  <2>2. UncontestedFilesKept' /\ Exclusive'
    BY <1>2, <2>1, SameAvailable, SameStorers DEF vars, IInv
  <2>3. \A p \in Sessions : Sane(session[p])
    BY DEF IInv, Sane
  <2>4. \A p \in Sessions : Sane(session[p])'
    BY <1>2, <2>1, <2>3, AllSane DEF vars, IInv
  <2> QED
    BY <1>1, <2>2, <2>4 DEF IInv, Sane
<1> QED
  BY <1>1, <1>2, ActsKeepsInv, CheckFileFiles, StorageFailsFiles DEF Next

LEMMA InitInductive == Init => IInv
<1> SUFFICES ASSUME Init PROVE IInv
  OBVIOUS
<1>1. \A q \in Sessions : session[q] = Idle
  BY DEF Init
<1>2. ~Storing(Idle)
  BY DEF Idle, Storing
<1>3. Exclusive /\ \A q \in Sessions : StoredKept(session[q]) /\ CreatedExpendable(session[q])
  BY <1>1, <1>2 DEF Exclusive, Watched, StoredKept, CreatedExpendable
<1>4. UncontestedFilesKept
  BY DEF Init, UncontestedFilesKept, JobFilesKept, AbsentAsset
<1> QED
  BY <1>3, <1>4, InitRows DEF IInv

(***************************************************************************)
(* Theorems, for any finite set of jobs and any sessions.                  *)
(***************************************************************************)

(* Every variable keeps its type: no version number exceeds the number of   *)
(* results there can be.                                                    *)
THEOREM TypeCorrect == Spec => []TypeOK
<1>1. Rows => TypeOK
  BY DEF Rows
<1> QED
  BY <1>1, RowsInductive, PTL

(* The assets of a plan are numbered without gap or double, although a      *)
(* request that enters results counts under a view older than its lock.     *)
THEOREM NumbersConsecutive == Spec => []VersionsConsecutive
<1>1. Rows => VersionsConsecutive
  BY DEF Rows
<1> QED
  BY <1>1, RowsInductive, PTL

(* Whoever reviews an asset under its current lock version has seen its     *)
(* review as it is.                                                         *)
THEOREM ReviewersInformed == Spec => []CurrentLockShowsReview
<1>1. Rows => CurrentLockShowsReview
  BY DEF Rows, PageOld, CurrentLockShowsReview
<1> QED
  BY <1>1, RowsInductive, PTL

(* No failing request or worker deletes a file that a row says is there,    *)
(* unless two sessions met over the files of that job.                      *)
THEOREM FilesKept == Spec => []UncontestedFilesKept
<1>1. IInv => UncontestedFilesKept
  BY DEF IInv
<1> QED
  BY <1>1, NextInductive, InitInductive, PTL DEF Spec
===============================================================================
