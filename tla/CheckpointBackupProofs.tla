------------------------ MODULE CheckpointBackupProofs ------------------------
(***************************************************************************)
(* The index of the backup tells the truth, for any number of watchers,    *)
(* checkpoints, published files and faults; and as long as the clocks of   *)
(* the nodes agree, what a restore needs is there at every moment.         *)
(***************************************************************************)
EXTENDS CheckpointBackup, FiniteSetTheorems, TLAPS

\* These bytes were those of an inode when it had this signature.
Had(source, c) ==
    /\ source[1] \in 1..Len(file)
    /\ source[2] \in 1..Len(file[source[1]])
    /\ file[source[1]][source[2]] = c

FileType == file \in Seq(Seq(Checkpoints \cup {Torn}) \ {<<>>})
Phases == {"idle", "compare", "read", "rest", "keep", "index", "list", "prune"}

\* A copy is kept only with the signature its bytes had.
CopyTruthful ==
    /\ FileType
    /\ pc \in [Watchers -> Phases]
    /\ fd \in [Watchers -> Nat \X Nat]
    /\ DOMAIN copied = Watchers
    /\ \A w \in Watchers :
         /\ pc[w] # "idle" => fd[w][1] \in 1..Len(file)
         /\ pc[w] \in {"keep", "index"} => Had(fd[w], copied[w])
    /\ index # NoIndex => Had(index.source, index.sha256)

\* Nothing is backed up at the start.
LEMMA InitTruthful == Init => CopyTruthful
  BY DEF Init, CopyTruthful, FileType, Phases, NoFile, Had

\* Files only grow: what a file had at a signature stays.
LEMMA PublishKeeps ==
    ASSUME FileType, Publish
    PROVE  /\ FileType'
           /\ Len(file') = Len(file) + 1
           /\ \A source, c : Had(source, c) => Had(source, c)'
  <1>1. PICK c \in Checkpoints : file' = Append(file, <<c>>)
    BY DEF Publish
  <1>2. <<c>> \in Seq(Checkpoints \cup {Torn}) \ {<<>>}
    BY <1>1
  <1> QED
    BY <1>1, <1>2 DEF FileType, Had

\* A copy is what was copied.
LEMMA WriteKeeps ==
    ASSUME FileType, WriteInPlace
    PROVE  /\ FileType'
           /\ Len(file') = Len(file)
           /\ \A source, c : Had(source, c) => Had(source, c)'
  <1> DEFINE n == Len(file)
  <1>1. PICK c \in Checkpoints \cup {Torn} :
            file' = [file EXCEPT ![n] = Append(@, c)]
    BY DEF WriteInPlace
  <1>2. n \in 1..Len(file)
    BY DEF WriteInPlace, FileType
  <1>3. file[n] \in Seq(Checkpoints \cup {Torn})
    BY <1>2 DEF FileType
  <1>4. Append(file[n], c) \in Seq(Checkpoints \cup {Torn}) \ {<<>>}
    BY <1>3, <1>1
  <1>5. FileType' /\ Len(file') = Len(file)
    BY <1>1, <1>2, <1>4 DEF FileType
  <1>6. ASSUME NEW source, NEW b, Had(source, b)
        PROVE  Had(source, b)'
    <2>1. CASE source[1] = n
      <3>1. file'[n] = Append(file[n], c)
        BY <1>1, <1>2 DEF FileType
      <3>2. /\ Len(file'[n]) = Len(file[n]) + 1
            /\ \A i \in 1..Len(file[n]) : file'[n][i] = file[n][i]
        BY <1>3, <3>1
      <3> QED
        BY <1>3, <1>5, <1>6, <2>1, <3>2 DEF Had
    <2>2. CASE source[1] # n
      <3>1. file'[source[1]] = file[source[1]]
        BY <1>1, <1>6, <2>2 DEF Had, FileType
      <3> QED
        BY <1>5, <1>6, <3>1 DEF Had
    <2> QED
      BY <2>1, <2>2
  <1> QED
    BY <1>5, <1>6

\* The steps of the watchers leave the files alone.
LEMMA FileUnchanged ==
    ASSUME FileType, file' = file
    PROVE  FileType' /\ \A source, c : Had(source, c) => Had(source, c)'
  BY DEF FileType, Had

\* Every step keeps copies true.
LEMMA NextTruthful == CopyTruthful /\ [Next]_vars => CopyTruthful'
  <1> SUFFICES ASSUME CopyTruthful, [Next]_vars
               PROVE  CopyTruthful'
    OBVIOUS
  <1> USE DEF CopyTruthful, Phases
  <1>1. CASE Publish
    BY <1>1, PublishKeeps DEF Publish, watcherVars, archiveVars, FileType
  <1>2. CASE WriteInPlace
    BY <1>2, WriteKeeps DEF WriteInPlace, watcherVars, archiveVars
  <1>3. ASSUME NEW w \in Watchers, Open(w)
        PROVE  CopyTruthful'
    <2>1. signature(Len(file)) \in Nat \X Nat /\ Len(file) \in 1..Len(file)
      BY <1>3 DEF Open, signature, FileType
    <2> QED
      BY <1>3, <2>1, FileUnchanged DEF Open, go, archiveVars, signature
  <1>4. ASSUME NEW w \in Watchers, Leave(w), UNCHANGED <<file, index>>
        PROVE  CopyTruthful'
    BY <1>4, FileUnchanged DEF Leave, NoFile
  <1>5. ASSUME NEW w \in Watchers, Compare(w)
        PROVE  CopyTruthful'
    <2>1. CASE Leave(w)
      BY <1>5, <2>1, <1>4 DEF Compare, archiveVars
    <2>2. CASE go(w, "read") /\ UNCHANGED <<lock, fd, copied, doomed>>
      BY <1>5, <2>2, FileUnchanged DEF Compare, go, archiveVars
    <2> QED
      BY <1>5, <2>1, <2>2 DEF Compare
  <1>6. ASSUME NEW w \in Watchers, Read(w)
        PROVE  CopyTruthful'
    BY <1>6, FileUnchanged DEF Read, go, archiveVars
  <1>7. ASSUME NEW w \in Watchers, ReadRest(w)
        PROVE  CopyTruthful'
    <2>1. CASE Leave(w)
      BY <1>7, <2>1, <1>4 DEF ReadRest, archiveVars
    <2>2. CASE ~Leave(w)
      <3> DEFINE n == inode(w)
      <3>1. PICK whole \in joined(w) :
              /\ signature(n) = fd[w] /\ whole # Torn
              /\ copied' = [copied EXCEPT ![w] = whole]
              /\ go(w, "keep") /\ UNCHANGED <<lock, fd, doomed>>
        BY <1>7, <2>2 DEF ReadRest
      <3>2. whole = bytes(n)
        BY <3>1 DEF joined
      <3>3. n \in 1..Len(file) /\ file[n] \in Seq(Checkpoints \cup {Torn}) \ {<<>>}
        BY <1>7 DEF ReadRest, inode, FileType
      <3>4. /\ Len(file[n]) \in 1..Len(file[n])
            /\ bytes(n) = file[n][Len(file[n])]
        BY <3>3 DEF bytes, Last
      <3>5. Had(fd[w], whole)
        BY <3>1, <3>2, <3>3, <3>4 DEF signature, Had
      <3>6. UNCHANGED <<file, index>>
        BY <1>7 DEF ReadRest, archiveVars
      <3>7. /\ pc' = [pc EXCEPT ![w] = "keep"] /\ fd' = fd
            /\ copied'[w] = whole /\ DOMAIN copied' = Watchers
            /\ \A v \in Watchers \ {w} : copied'[v] = copied[v]
        BY <3>1 DEF go
      <3>8. FileType' /\ Had(fd[w], copied[w])'
        BY <3>5, <3>6, <3>7, FileUnchanged
      <3> HIDE DEF n
      <3>9. ASSUME NEW v \in Watchers
            PROVE  /\ pc'[v] # "idle" => fd'[v][1] \in 1..Len(file')
                   /\ pc'[v] \in {"keep", "index"} => Had(fd[v], copied[v])'
        <4>1. CASE v = w
          BY <3>3, <3>6, <3>7, <3>8, <4>1 DEF n, inode
        <4>2. CASE v # w
          <5>1. pc'[v] = pc[v] /\ fd'[v] = fd[v] /\ copied'[v] = copied[v]
            BY <3>7, <4>2
          <5> QED
            BY <3>6, <5>1, FileUnchanged
        <4> QED
          BY <4>1, <4>2
      <3>10. index' # NoIndex => Had(index.source, index.sha256)'
        BY <3>6, FileUnchanged
      <3> QED
        BY <3>7, <3>8, <3>9, <3>10
    <2> QED
      BY <2>1, <2>2
  <1>8. ASSUME NEW w \in Watchers, Keep(w)
        PROVE  CopyTruthful'
    <2>1. CASE copied[w] \in folders \ copies
      BY <1>8, <2>1, <1>4 DEF Keep
    <2>2. CASE copied[w] \notin folders \ copies
      BY <1>8, <2>2, FileUnchanged DEF Keep, go
    <2> QED
      BY <2>1, <2>2
  <1>9. ASSUME NEW w \in Watchers, WriteIndex(w)
        PROVE  CopyTruthful'
    BY <1>9, FileUnchanged DEF WriteIndex, go
  <1>10. ASSUME NEW w \in Watchers, List(w)
         PROVE  CopyTruthful'
    BY <1>10, FileUnchanged DEF List, go, archiveVars
  <1>11. ASSUME NEW w \in Watchers, Prune(w)
         PROVE  CopyTruthful'
    <2>1. CASE doomed[w] = {}
      BY <1>11, <2>1, <1>4 DEF Prune
    <2>2. CASE doomed[w] # {}
      <3>1. UNCHANGED <<lock, pc, fd, copied, file, index>>
        BY <1>11, <2>2 DEF Prune
      <3> QED
        BY <3>1, FileUnchanged
    <2> QED
      BY <2>1, <2>2
  <1>12. ASSUME NEW w \in Watchers, Crash(w)
         PROVE  CopyTruthful'
    BY <1>12, <1>4 DEF Crash, archiveVars
  <1>13. CASE UNCHANGED vars
    BY <1>13, FileUnchanged DEF vars, watcherVars, archiveVars
  <1> QED
    BY <1>1, <1>2, <1>3, <1>5, <1>6, <1>7, <1>8, <1>9, <1>10, <1>11, <1>12, <1>13
       DEF Next, Step

\* Every copy that is kept, and the index, carry the signature at which the file
\* had these bytes.
THEOREM CopiesTruthful == Spec => []CopyTruthful
  BY InitTruthful, NextTruthful, PTL DEF Spec

\* latest.json never names a file for bytes it did not have at that signature,
\* whatever training writes during the copy.
THEOREM IndexIsTruthful == Spec => []IndexTruthful
  <1>1. CopyTruthful => IndexTruthful
    BY DEF CopyTruthful, IndexTruthful, Had
  <1> QED
    BY <1>1, CopiesTruthful, PTL

-----------------------------------------------------------------------------
(* What a restore needs.                                                    *)

\* The clocks of the nodes differ by less than the time between two saves.
ClocksAgree == \A v, w \in Watchers : Skew[v] = Skew[w]

ArchiveType ==
    /\ receipts \in [Checkpoints -> Int]
    /\ history \in Seq(Checkpoints)
    /\ DOMAIN doomed = Watchers
    /\ \A w \in Watchers :
         /\ doomed[w] \subseteq Checkpoints
         /\ pc[w] \in {"keep", "index", "list", "prune"} => copied[w] \in Checkpoints

\* One watcher is inside copy_snapshot.
Exclusive == \A w \in Watchers : pc[w] # "idle" => lock = w

\* A receipt has the date of the last time its checkpoint was saved.
SavedLast(h, c, i) == h[i] = c /\ \A j \in (i + 1)..Len(h) : h[j] # c
Dated ==
    \A c \in Checkpoints : receipts[c] # NoReceipt =>
        \E i \in 1..Len(history) :
            SavedLast(history, c, i) /\ \A w \in Watchers : receipts[c] = (i - 1) + Skew[w]

\* Whoever has come so far has saved the newest checkpoint, then named it, and
\* removes none of the last.
Latest(c) == history # <<>> /\ c = history[Len(history)]
Placed(w) ==
    /\ pc[w] \in {"index", "list", "prune"} => Latest(copied[w])
    /\ pc[w] \in {"list", "prune"} => Latest(index.sha256)
    /\ doomed[w] \cap lastSaved = {}
    /\ pc[w] # "prune" => doomed[w] = {}

\* The last checkpoints, and what the index names, are whole generations.
Whole(c) == c \in copies /\ receipts[c] # NoReceipt
Kept ==
    /\ \A c \in lastSaved : Whole(c)
    /\ index # NoIndex => index.sha256 \in Checkpoints /\ Whole(index.sha256)

BackupInv ==
    /\ CopyTruthful /\ ArchiveType /\ Exclusive /\ Dated
    /\ \A w \in Watchers : Placed(w)
    /\ Kept

-----------------------------------------------------------------------------
(* The last checkpoints, and those that are outdated.                       *)

\* Finitely many checkpoints were saved.
LEMMA SavedFinite ==
    ASSUME NEW h \in Seq(Checkpoints), NEW i \in 1..Len(h)
    PROVE  LET saved == {h[j] : j \in i..Len(h)}
           IN  IsFiniteSet(saved) /\ Cardinality(saved) \in Nat
  <1> DEFINE saved == {h[j] : j \in i..Len(h)}
             f     == [j \in i..Len(h) |-> h[j]]
  <1>1. IsFiniteSet(i..Len(h))
    BY FS_Interval
  <1>2. f \in Surjection(i..Len(h), saved)
    BY DEF Surjection
  <1>3. IsFiniteSet(saved)
    BY <1>1, <1>2, FS_Surjection
  <1> QED
    BY <1>3, FS_CardinalityType

\* The newest checkpoint is one of the last.
LEMMA NewestIsLast ==
    ASSUME BackupAssumption, history \in Seq(Checkpoints), history # <<>>
    PROVE  history[Len(history)] \in lastSaved
  <1> DEFINE n == Len(history)
  <1>1. n \in 1..n /\ n..n = {n}
    OBVIOUS
  <1>2. savedFrom(n) = {history[n]}
    BY <1>1 DEF savedFrom
  <1>3. Cardinality(savedFrom(n)) = 1
    BY <1>2, FS_Singleton
  <1> QED
    BY <1>1, <1>3 DEF lastSaved, BackupAssumption

\* Saving one more leaves at most it and the earlier ones among the last.
LEMMA SavedOneMore ==
    ASSUME BackupAssumption, history \in Seq(Checkpoints), NEW c \in Checkpoints,
           history' = Append(history, c)
    PROVE  lastSaved' \subseteq lastSaved \cup {c}
  <1> SUFFICES ASSUME NEW d \in lastSaved', d # c
               PROVE  d \in lastSaved
    OBVIOUS
  <1>1. /\ Len(history') = Len(history) + 1 /\ history' \in Seq(Checkpoints)
        /\ history'[Len(history) + 1] = c
        /\ \A j \in 1..Len(history) : history'[j] = history[j]
    OBVIOUS
  <1>2. PICK i \in 1..Len(history') : history'[i] = d /\ Cardinality(savedFrom(i)') <= KEEP
    BY DEF lastSaved
  <1>3. i \in 1..Len(history) /\ history[i] = d
    BY <1>1, <1>2
  <1>4. savedFrom(i) \subseteq savedFrom(i)'
    BY <1>1, <1>3 DEF savedFrom
  <1>5. IsFiniteSet(savedFrom(i)') /\ Cardinality(savedFrom(i)') \in Nat
    BY <1>1, SavedFinite DEF savedFrom
  <1>6. Cardinality(savedFrom(i)) \in Nat
    BY <1>3, SavedFinite DEF savedFrom
  <1>7. Cardinality(savedFrom(i)) <= Cardinality(savedFrom(i)')
    BY <1>4, <1>5, FS_Subset
  <1> QED
    BY <1>2, <1>3, <1>5, <1>6, <1>7 DEF lastSaved, BackupAssumption

\* An outdated generation is none of the last: the KEEP newer ones were all
\* saved after it.
LEMMA OutdatedNotLast ==
    ASSUME BackupAssumption, ArchiveType, Dated, Watchers # {}
    PROVE  outdated \cap lastSaved = {}
  <1> SUFFICES ASSUME NEW c \in outdated, c \in lastSaved
               PROVE  FALSE
    OBVIOUS
  <1> DEFINE listed == {d \in Checkpoints : receipts[d] # NoReceipt}
             newer  == {d \in listed : receipts[d] > receipts[c]}
  <1>1. c \in listed /\ Cardinality(newer) >= KEEP
    BY DEF outdated
  <1>2. PICK i \in 1..Len(history) : history[i] = c /\ Cardinality(savedFrom(i)) <= KEEP
    BY DEF lastSaved
  <1>3. PICK w \in Watchers : TRUE
    OBVIOUS
  <1>4. Skew[w] \in Int
    BY DEF BackupAssumption
  <1>5. PICK k \in 1..Len(history) : SavedLast(history, c, k) /\ receipts[c] = (k - 1) + Skew[w]
    BY <1>1, <1>3 DEF Dated
  <1>6. i <= k
    BY <1>2, <1>5 DEF SavedLast, ArchiveType
  <1>7. ASSUME NEW d \in newer
        PROVE  d \in savedFrom(i)
    <2>1. PICK m \in 1..Len(history) : SavedLast(history, d, m) /\ receipts[d] = (m - 1) + Skew[w]
      BY <1>3 DEF Dated
    <2>2. m > k
      BY <2>1, <1>4, <1>5
    <2> QED
      BY <2>1, <2>2, <1>6 DEF savedFrom, SavedLast, ArchiveType
  <1>8. c \notin newer /\ c \in savedFrom(i)
    <2>1. receipts[c] \in Int
      BY <1>1 DEF ArchiveType
    <2> QED
      BY <2>1, <1>2 DEF savedFrom, ArchiveType
  <1> HIDE DEF newer, listed
  <1>9. IsFiniteSet(savedFrom(i)) /\ Cardinality(savedFrom(i)) \in Nat
    BY SavedFinite DEF ArchiveType, savedFrom
  <1>10. IsFiniteSet(newer) /\ newer \cup {c} \subseteq savedFrom(i)
    BY <1>7, <1>8, <1>9, FS_Subset
  <1>11. Cardinality(newer \cup {c}) = Cardinality(newer) + 1 /\ Cardinality(newer) \in Nat
    BY <1>8, <1>10, FS_AddElement, FS_CardinalityType
  <1>12. Cardinality(newer \cup {c}) <= Cardinality(savedFrom(i))
    BY <1>9, <1>10, FS_Subset
  <1> QED
    BY <1>1, <1>2, <1>9, <1>11, <1>12 DEF BackupAssumption

-----------------------------------------------------------------------------
(* Every step keeps what a restore needs.                                   *)

LEMMA InitBackup == BackupAssumption /\ Init => BackupInv
  <1> SUFFICES ASSUME BackupAssumption, Init
               PROVE  BackupInv
    OBVIOUS
  <1>1. CopyTruthful
    BY InitTruthful
  <1>2. ArchiveType
    BY DEF Init, ArchiveType, NoReceipt
  <1>3. lastSaved = {}
    BY DEF Init, lastSaved
  <1> QED
    BY <1>1, <1>2, <1>3 DEF Init, BackupInv, Exclusive, Dated, Placed, Kept

\* Steps that leave the archive alone, and do not go further than they may.
LEMMA ArchiveUnchanged ==
    ASSUME BackupInv, UNCHANGED <<archiveVars, history>>, CopyTruthful', ArchiveType', Exclusive',
           \A v \in Watchers : Placed(v)'
    PROVE  BackupInv'
  <1>1. /\ folders' = folders /\ receipts' = receipts /\ copies' = copies
        /\ index' = index /\ history' = history
    BY DEF archiveVars
  <1>2. lastSaved' = lastSaved
    BY <1>1 DEF lastSaved, savedFrom
  <1>3. Dated'
    BY <1>1 DEF BackupInv, Dated
  <1>4. Kept'
    BY <1>1, <1>2 DEF BackupInv, Kept, Whole
  <1> QED
    BY <1>3, <1>4 DEF BackupInv

\* A pass that ends lets go of everything.
LEMMA Left ==
    ASSUME BackupInv, NEW w \in Watchers, pc[w] # "idle", Leave(w),
           UNCHANGED <<archiveVars, history>>, CopyTruthful'
    PROVE  BackupInv'
  <1>1. ArchiveType'
    BY DEF BackupInv, ArchiveType, CopyTruthful, Leave, archiveVars
  <1>2. Exclusive'
    BY DEF BackupInv, Exclusive, CopyTruthful, Leave
  <1>3. ASSUME NEW v \in Watchers PROVE Placed(v)'
    <2>1. lastSaved' = lastSaved
      BY DEF lastSaved, savedFrom
    <2>2. CASE v = w
      BY <2>2 DEF BackupInv, Placed, CopyTruthful, ArchiveType, Leave
    <2>3. CASE v # w
      BY <2>1, <2>3 DEF BackupInv, Placed, Latest, CopyTruthful, ArchiveType, Leave, archiveVars
    <2> QED
      BY <2>2, <2>3
  <1> QED
    BY <1>1, <1>2, <1>3, ArchiveUnchanged

\* A pass that goes on, before it has saved anything.
LEMMA GoesOn ==
    ASSUME BackupInv, NEW w \in Watchers, NEW p \in {"compare", "read", "rest", "keep"}, go(w, p),
           pc[w] # "prune",
           pc[w] = "idle" => lock = Nobody /\ lock' = w,
           pc[w] # "idle" => lock' = lock,
           p = "keep" => copied'[w] \in Checkpoints,
           \A v \in Watchers \ {w} : copied'[v] = copied[v],
           UNCHANGED <<doomed, archiveVars, history>>, CopyTruthful', BackupAssumption
    PROVE  BackupInv'
  <1>1. /\ pc'[w] = p /\ \A v \in Watchers \ {w} : pc'[v] = pc[v]
    BY DEF BackupInv, CopyTruthful, go
  <1>2. ArchiveType'
    BY <1>1 DEF BackupInv, ArchiveType, archiveVars
  <1>3. Exclusive'
    BY <1>1 DEF BackupInv, Exclusive, BackupAssumption
  <1>4. ASSUME NEW v \in Watchers PROVE Placed(v)'
    <2>1. lastSaved' = lastSaved
      BY DEF lastSaved, savedFrom
    <2>2. index' = index /\ history' = history /\ doomed' = doomed
      BY DEF archiveVars
    <2>3. Placed(v)
      BY DEF BackupInv
    <2>4. CASE v = w
      BY <1>1, <2>1, <2>2, <2>3, <2>4 DEF Placed
    <2>5. CASE v # w
      BY <1>1, <2>1, <2>2, <2>3, <2>5 DEF Placed, Latest
    <2> QED
      BY <2>4, <2>5
  <1> QED
    BY <1>2, <1>3, <1>4, ArchiveUnchanged

\* Keep: the copy becomes the newest generation, whole and dated.
LEMMA KeepKeeps ==
    ASSUME BackupAssumption, ClocksAgree, BackupInv, NEW w \in Watchers, Keep(w), CopyTruthful'
    PROVE  BackupInv'
  <1> DEFINE c == copied[w]
  <1>1. CASE c \in folders \ copies
    BY <1>1, Left DEF Keep, archiveVars
  <1>2. CASE c \notin folders \ copies
    <2>1. /\ pc[w] = "keep" /\ pc' = [pc EXCEPT ![w] = "index"]
          /\ receipts' = [receipts EXCEPT ![c] = Len(history) + Skew[w]]
          /\ copies' = copies \cup {c} /\ history' = Append(history, c)
          /\ UNCHANGED <<lock, fd, copied, doomed, index>>
      BY <1>2 DEF Keep, go
    <2>2. /\ c \in Checkpoints /\ history \in Seq(Checkpoints)
          /\ receipts \in [Checkpoints -> Int] /\ pc \in [Watchers -> Phases]
          /\ Skew[w] \in Nat /\ \A v \in Watchers : Skew[v] = Skew[w]
      BY <2>1 DEF BackupInv, ArchiveType, CopyTruthful, BackupAssumption, ClocksAgree
    <2>3. \A v \in Watchers \ {w} : pc[v] = "idle"
      BY <2>1 DEF BackupInv, Exclusive
    <2>4. /\ pc'[w] = "index" /\ \A v \in Watchers \ {w} : pc'[v] = "idle"
      BY <2>1, <2>2, <2>3
    <2>5. /\ Len(history') = Len(history) + 1 /\ history' \in Seq(Checkpoints)
          /\ history'[Len(history) + 1] = c
          /\ \A j \in 1..Len(history) : history'[j] = history[j]
      BY <2>1, <2>2
    <2>6. /\ receipts'[c] = Len(history) + Skew[w] /\ receipts' \in [Checkpoints -> Int]
          /\ \A d \in Checkpoints \ {c} : receipts'[d] = receipts[d]
      BY <2>1, <2>2
    <2>7. receipts'[c] # NoReceipt
      BY <2>2, <2>6 DEF NoReceipt
    <2> HIDE DEF c
    <2>8. lastSaved' \subseteq lastSaved \cup {c}
      BY <2>1, <2>2, SavedOneMore
    <2>9. ArchiveType'
      <3>1. copied'[w] \in Checkpoints
        BY <2>1, <2>2 DEF c
      <3> QED
        BY <3>1, <2>1, <2>4, <2>5, <2>6 DEF BackupInv, ArchiveType
    <2>10. Exclusive'
      BY <2>1, <2>4 DEF BackupInv, Exclusive
    <2>11. Dated'
      <3> SUFFICES ASSUME NEW d \in Checkpoints, receipts'[d] # NoReceipt
                   PROVE  \E i \in 1..Len(history') :
                             /\ SavedLast(history', d, i)
                             /\ \A v \in Watchers : receipts'[d] = (i - 1) + Skew[v]
        BY DEF Dated
      <3>1. CASE d = c
        <4>1. SavedLast(history', c, Len(history) + 1)
          BY <2>2, <2>5 DEF SavedLast
        <4>2. Len(history) + 1 \in 1..Len(history')
          BY <2>2, <2>5
        <4>3. \A v \in Watchers : receipts'[c] = ((Len(history) + 1) - 1) + Skew[v]
          BY <2>2, <2>6
        <4> QED
          BY <3>1, <4>1, <4>2, <4>3
      <3>2. CASE d # c
        <4>1. receipts[d] = receipts'[d]
          BY <2>6, <3>2
        <4>2. PICK i \in 1..Len(history) :
                  SavedLast(history, d, i) /\ \A v \in Watchers : receipts[d] = (i - 1) + Skew[v]
          BY <4>1 DEF BackupInv, Dated
        <4>3. history'[i] = d
          BY <2>5, <4>2 DEF SavedLast
        <4>4. ASSUME NEW j \in (i + 1)..Len(history') PROVE history'[j] # d
          <5>1. CASE j = Len(history) + 1
            BY <2>5, <3>2, <5>1
          <5>2. CASE j # Len(history) + 1
            <6>1. i \in Int /\ i >= 1 /\ Len(history) \in Int
              BY <2>2
            <6>2. j \in (i + 1)..(Len(history) + 1)
              BY <2>5
            <6>3. j \in (i + 1)..Len(history) /\ j \in 1..Len(history)
              BY <5>2, <6>1, <6>2
            <6> QED
              BY <2>5, <4>2, <6>3 DEF SavedLast
          <5> QED
            BY <5>1, <5>2
        <4>5. SavedLast(history', d, i)
          BY <4>3, <4>4 DEF SavedLast
        <4>6. i \in 1..Len(history')
          BY <2>2, <2>5
        <4> QED
          BY <4>1, <4>2, <4>5, <4>6
      <3> QED
        BY <3>1, <3>2
    <2>12. ASSUME NEW v \in Watchers PROVE Placed(v)'
      <3>1. CASE v = w
        <4>1. doomed'[w] = {}
          BY <2>1 DEF BackupInv, Placed
        <4>2. Latest(copied[w])'
          BY <2>1, <2>2, <2>5 DEF Latest, c
        <4> QED
          BY <2>4, <3>1, <4>1, <4>2 DEF Placed
      <3>2. CASE v # w
        BY <2>1, <2>3, <2>4, <2>8, <3>2 DEF BackupInv, Placed
      <3> QED
        BY <3>1, <3>2
    <2>13. Kept'
      <3>1. \A d \in Checkpoints : Whole(d) \/ d = c => Whole(d)'
        BY <2>1, <2>2, <2>6, <2>7 DEF Whole
      <3>2. lastSaved \subseteq Checkpoints
        BY <2>2 DEF lastSaved
      <3> QED
        BY <2>1, <2>2, <2>8, <3>1, <3>2 DEF BackupInv, Kept
    <2> QED
      BY <2>9, <2>10, <2>11, <2>12, <2>13 DEF BackupInv
  <1> QED
    BY <1>1, <1>2
\* The index names the copy that was just kept.
LEMMA WriteIndexKeeps ==
    ASSUME BackupAssumption, BackupInv, NEW w \in Watchers, WriteIndex(w), CopyTruthful'
    PROVE  BackupInv'
  <1>1. /\ pc[w] = "index" /\ pc' = [pc EXCEPT ![w] = "list"]
        /\ index' = [sha256 |-> copied[w], source |-> fd[w]]
        /\ UNCHANGED <<lock, fd, copied, doomed, receipts, copies, history>>
    BY DEF WriteIndex, go
  <1>2. pc'[w] = "list" /\ \A v \in Watchers \ {w} : pc[v] = "idle" /\ pc'[v] = "idle"
    BY <1>1 DEF BackupInv, Exclusive, CopyTruthful
  <1>3. Latest(copied[w]) /\ copied[w] \in Checkpoints /\ history \in Seq(Checkpoints)
    BY <1>1 DEF BackupInv, Placed, ArchiveType
  <1>4. copied[w] \in lastSaved
    BY <1>3, NewestIsLast DEF Latest
  <1>5. lastSaved' = lastSaved
    BY <1>1 DEF lastSaved, savedFrom
  <1>6. ArchiveType'
    BY <1>1, <1>2, <1>3 DEF BackupInv, ArchiveType
  <1>7. Exclusive'
    BY <1>1, <1>2 DEF BackupInv, Exclusive
  <1>8. Dated'
    BY <1>1 DEF BackupInv, Dated
  <1>9. index'.sha256 = copied[w]
    BY <1>1
  <1>10. ASSUME NEW v \in Watchers PROVE Placed(v)'
    <2>1. Placed(v)
      BY DEF BackupInv
    <2>2. CASE v = w
      BY <1>1, <1>2, <1>3, <1>5, <1>9, <2>1, <2>2 DEF Placed, Latest
    <2>3. CASE v # w
      BY <1>1, <1>2, <1>5, <2>1, <2>3 DEF Placed
    <2> QED
      BY <2>2, <2>3
  <1>11. Kept'
    BY <1>1, <1>3, <1>4, <1>5, <1>9 DEF BackupInv, Kept, Whole
  <1> QED
    BY <1>6, <1>7, <1>8, <1>10, <1>11 DEF BackupInv

\* What is to be removed are none of the last.
LEMMA ListKeeps ==
    ASSUME BackupAssumption, BackupInv, NEW w \in Watchers, List(w), CopyTruthful'
    PROVE  BackupInv'
  <1>1. /\ pc[w] = "list" /\ pc' = [pc EXCEPT ![w] = "prune"]
        /\ doomed' = [doomed EXCEPT ![w] = outdated]
        /\ UNCHANGED <<lock, fd, copied, archiveVars, history>>
    BY DEF List, go
  <1>2. pc'[w] = "prune" /\ \A v \in Watchers \ {w} : pc[v] = "idle" /\ pc'[v] = "idle"
    BY <1>1 DEF BackupInv, Exclusive, CopyTruthful
  <1>3. doomed'[w] = outdated /\ \A v \in Watchers \ {w} : doomed'[v] = doomed[v]
    BY <1>1 DEF BackupInv, ArchiveType
  <1>4. outdated \cap lastSaved = {} /\ outdated \subseteq Checkpoints
    BY OutdatedNotLast DEF BackupInv, outdated
  <1>5. lastSaved' = lastSaved
    BY <1>1 DEF lastSaved, savedFrom
  <1>6. index' = index
    BY <1>1 DEF archiveVars
  <1>7. ArchiveType'
    BY <1>1, <1>2, <1>3, <1>4 DEF BackupInv, ArchiveType, archiveVars
  <1>8. Exclusive'
    BY <1>1, <1>2 DEF BackupInv, Exclusive
  <1>9. ASSUME NEW v \in Watchers PROVE Placed(v)'
    <2>1. Placed(v)
      BY DEF BackupInv
    <2>2. CASE v = w
      BY <1>1, <1>2, <1>3, <1>4, <1>5, <1>6, <2>1, <2>2 DEF Placed, Latest
    <2>3. CASE v # w
      BY <1>1, <1>2, <1>3, <1>5, <2>1, <2>3 DEF Placed
    <2> QED
      BY <2>2, <2>3
  <1> QED
    BY <1>1, <1>7, <1>8, <1>9, ArchiveUnchanged

\* Nothing of the last generations, nor of the one the index names, is removed.
LEMMA PruneKeeps ==
    ASSUME BackupAssumption, BackupInv, NEW w \in Watchers, Prune(w), CopyTruthful'
    PROVE  BackupInv'
  <1>1. CASE doomed[w] = {}
    BY <1>1, Left DEF Prune, archiveVars
  <1>2. CASE doomed[w] # {}
    <2>1. PICK c \in doomed[w] :
            /\ copies' = copies \ {c} \/ copies' = copies
            /\ receipts' = [receipts EXCEPT ![c] = NoReceipt] \/ receipts' = receipts
            /\ doomed' = [doomed EXCEPT ![w] = @ \ {c}] \/ doomed' = doomed
      BY <1>2 DEF Prune
    <2>2. pc[w] = "prune" /\ UNCHANGED <<lock, pc, fd, copied, index, history>>
      BY <1>2 DEF Prune
    <2>3. c \in Checkpoints /\ c \notin lastSaved
      BY DEF BackupInv, ArchiveType, Placed
    <2>4. index.sha256 \in lastSaved
      BY <2>2, NewestIsLast DEF BackupInv, ArchiveType, Placed, Latest
    <2>5. /\ receipts' \in [Checkpoints -> Int]
          /\ \A d \in Checkpoints \ {c} : receipts'[d] = receipts[d]
          /\ receipts'[c] \in {receipts[c], NoReceipt}
      BY <2>1, <2>3 DEF BackupInv, ArchiveType, NoReceipt
    <2>6. /\ DOMAIN doomed' = Watchers
          /\ \A v \in Watchers : doomed'[v] \subseteq doomed[v]
      BY <2>1 DEF BackupInv, ArchiveType
    <2>7. lastSaved' = lastSaved
      BY <2>2 DEF lastSaved, savedFrom
    <2>8. ArchiveType'
      BY <2>2, <2>5, <2>6 DEF BackupInv, ArchiveType
    <2>9. Exclusive'
      BY <2>2 DEF BackupInv, Exclusive
    <2>10. Dated'
      <3>1. \A d \in Checkpoints : receipts'[d] # NoReceipt => receipts'[d] = receipts[d]
        BY <2>5
      <3> QED
        BY <2>2, <3>1 DEF BackupInv, Dated
    <2>11. ASSUME NEW v \in Watchers PROVE Placed(v)'
      <3>1. Placed(v)
        BY DEF BackupInv
      <3> QED
        BY <2>2, <2>6, <2>7, <3>1 DEF Placed, Latest
    <2>12. Kept'
      <3>1. \A d \in Checkpoints \ {c} : Whole(d) => Whole(d)'
        BY <2>1, <2>5 DEF Whole
      <3>2. lastSaved \subseteq Checkpoints
        BY DEF BackupInv, ArchiveType, lastSaved
      <3> QED
        BY <2>2, <2>3, <2>4, <2>7, <3>1, <3>2 DEF BackupInv, Kept
    <2> QED
      BY <2>8, <2>9, <2>10, <2>11, <2>12 DEF BackupInv
  <1> QED
    BY <1>1, <1>2

\* Every step keeps what a restore needs.
LEMMA NextBackup ==
    BackupAssumption /\ ClocksAgree /\ BackupInv /\ [Next]_vars => BackupInv'
  <1> SUFFICES ASSUME BackupAssumption, ClocksAgree, BackupInv, [Next]_vars
               PROVE  BackupInv'
    OBVIOUS
  <1>1. CopyTruthful'
    BY NextTruthful DEF BackupInv
  <1>2. ASSUME UNCHANGED <<lock, watcherVars, archiveVars, history>>
        PROVE  BackupInv'
    <2>1. /\ lock' = lock /\ pc' = pc /\ copied' = copied /\ doomed' = doomed
          /\ receipts' = receipts /\ index' = index /\ history' = history
      BY <1>2 DEF watcherVars, archiveVars
    <2>2. lastSaved' = lastSaved
      BY <2>1 DEF lastSaved, savedFrom
    <2>3. ArchiveType' /\ Exclusive'
      BY <2>1 DEF BackupInv, ArchiveType, Exclusive
    <2>4. \A v \in Watchers : Placed(v)'
      BY <2>1, <2>2 DEF BackupInv, Placed, Latest
    <2> QED
      BY <1>1, <1>2, <2>3, <2>4, ArchiveUnchanged
  <1>3. CASE Publish \/ WriteInPlace
    BY <1>2, <1>3 DEF Publish, WriteInPlace
  <1>4. CASE UNCHANGED vars
    BY <1>2, <1>4 DEF vars
  <1>5. ASSUME NEW w \in Watchers, Open(w)
        PROVE  BackupInv'
    BY <1>1, <1>5, GoesOn DEF Open
  <1>6. ASSUME NEW w \in Watchers, Compare(w)
        PROVE  BackupInv'
    <2>1. CASE Leave(w)
      BY <1>1, <1>6, <2>1, Left DEF Compare
    <2>2. CASE ~Leave(w)
      BY <1>1, <1>6, <2>2, GoesOn DEF Compare
    <2> QED
      BY <2>1, <2>2
  <1>7. ASSUME NEW w \in Watchers, Read(w)
        PROVE  BackupInv'
    <2>1. \A v \in Watchers \ {w} : copied'[v] = copied[v]
      BY <1>7 DEF Read, BackupInv, CopyTruthful
    <2> QED
      BY <1>1, <1>7, <2>1, GoesOn DEF Read
  <1>8. ASSUME NEW w \in Watchers, ReadRest(w)
        PROVE  BackupInv'
    <2>1. CASE Leave(w)
      BY <1>1, <1>8, <2>1, Left DEF ReadRest
    <2>2. CASE ~Leave(w)
      <3>1. PICK whole \in joined(w) :
              /\ whole # Torn /\ copied' = [copied EXCEPT ![w] = whole]
              /\ go(w, "keep") /\ UNCHANGED <<lock, fd, doomed>>
        BY <1>8, <2>2 DEF ReadRest
      <3>2. whole = bytes(inode(w))
        BY <3>1 DEF joined
      <3>3. inode(w) \in 1..Len(file)
        BY <1>8 DEF ReadRest, BackupInv, CopyTruthful, inode
      <3>4. file[inode(w)] \in Seq(Checkpoints \cup {Torn}) \ {<<>>}
        BY <3>3 DEF BackupInv, CopyTruthful, FileType
      <3>5. bytes(inode(w)) \in Checkpoints \cup {Torn}
        BY <3>4 DEF bytes, Last
      <3>6. copied'[w] = whole /\ \A v \in Watchers \ {w} : copied'[v] = copied[v]
        BY <3>1 DEF BackupInv, CopyTruthful
      <3>7. pc[w] = "rest" /\ UNCHANGED <<archiveVars, history>>
        BY <1>8 DEF ReadRest
      <3> QED
        BY <1>1, <3>1, <3>2, <3>5, <3>6, <3>7, GoesOn
    <2> QED
      BY <2>1, <2>2
  <1>9. ASSUME NEW w \in Watchers, Crash(w)
        PROVE  BackupInv'
    BY <1>1, <1>9, Left DEF Crash
  <1> QED
    BY <1>1, <1>3, <1>4, <1>5, <1>6, <1>7, <1>8, <1>9, KeepKeeps, WriteIndexKeeps,
       ListKeeps, PruneKeeps
       DEF Next, Step

\* With clocks that agree, latest.json always names a generation that is there,
\* and the KEEP last checkpoints have their copies, wherever passes end.
THEOREM RestoreIsPossible == ClocksAgree => (Spec => []Recoverable)
  <1> SUFFICES ASSUME ClocksAgree PROVE Spec => []Recoverable
    OBVIOUS
  <1> USE BackupAssumption
  <1>1. Init => BackupInv
    BY InitBackup
  <1>2. BackupInv /\ [Next]_vars => BackupInv'
    BY NextBackup
  <1>3. BackupInv => Recoverable
    BY DEF BackupInv, Kept, Whole, Recoverable
  <1> QED
    BY <1>1, <1>2, <1>3, PTL DEF Spec
=============================================================================
