-------------------------- MODULE CacheHandoffProofs --------------------------
(***************************************************************************)
(* CacheHandoff for any number of workers, candidates, ranks and attempts: *)
(* HInv is inductive, and from it follow the exclusion of rank 0s, the     *)
(* immutability of receipts, the agreement of bundle, receipts, summary    *)
(* and seal, and the refinement of WriteOnce.                              *)
(***************************************************************************)
EXTENDS CacheHandoff, FiniteSetTheorems, TLAPS

-----------------------------------------------------------------------------
(* Facts about ranks, bundles and the sharing.                              *)

LEMMA RankZero == 0 \in Ranks
  BY ConstantsAssumption DEF Ranks

\* A bundle is not None, and has a receipt of every candidate.
LEMMA BundleFacts ==
    /\ None \notin Bundles
    /\ \A b \in Bundles : \A c \in Items : b[c] # 0
<1>1. Bundles \subseteq [1..Candidates -> 0..MaxAttempts]
  BY ConstantsAssumption DEF Bundles, Items, Attempts
<1>2. \A b \in Bundles : \A c \in Items : b[c] \in Attempts
  BY DEF Bundles
<1> QED BY <1>1, <1>2, ConstantsAssumption DEF Attempts

\* Receipts of all candidates make a bundle.
LEMMA CompleteReceipts ==
    ASSUME TypeOK, \A c \in Items : receipts[c] # 0
    PROVE  receipts \in Bundles
<1>1. receipts \in [Items -> 0..MaxAttempts]
  BY DEF TypeOK
<1>2. \A c \in Items : receipts[c] \in Attempts
  BY <1>1, ConstantsAssumption DEF Attempts
<1> QED BY <1>1, <1>2 DEF Bundles

\* Every candidate's place among the missing ones belongs to some rank.
LEMMA PlaceHasRank ==
    ASSUME NEW S, S \subseteq Items
    PROVE  Cardinality(S) % World \in Ranks
<1>1. IsFiniteSet(Items)
  BY FS_Interval, ConstantsAssumption DEF Items
<1>2. IsFiniteSet(S)
  BY <1>1, FS_Subset
<1>3. Cardinality(S) \in Nat
  BY <1>2, FS_CardinalityType
<1> QED BY <1>3, ConstantsAssumption DEF Ranks

-----------------------------------------------------------------------------
(* Types.                                                                   *)

LEMMA TypeInit == Init => TypeOK
  BY ConstantsAssumption DEF Init, TypeOK, Phases, Locked, Ranks

\* The processes of an attempt end, all of them or one.
LEMMA AliveType ==
    ASSUME TypeOK, NEW n \in Attempts, NEW r \in Ranks,
           \/ alive' = alive
           \/ alive' = [alive EXCEPT ![n] = [q \in Ranks |-> FALSE]]
           \/ alive' = [alive EXCEPT ![n][r] = FALSE]
    PROVE  /\ alive' \in [Attempts -> [Ranks -> BOOLEAN]]
           /\ \A i \in Attempts, j \in Ranks : alive'[i][j] => alive[i][j]
<1>1. CASE alive' = alive
  BY <1>1 DEF TypeOK
<1>2. CASE alive' = [alive EXCEPT ![n] = [q \in Ranks |-> FALSE]]
  BY <1>2 DEF TypeOK
<1>3. CASE alive' = [alive EXCEPT ![n][r] = FALSE]
  BY <1>3 DEF TypeOK
<1> QED BY <1>1, <1>2, <1>3

\* A rank that takes a candidate dies at its lock, skips it or holds it.
LEMMA TakeCases ==
    ASSUME TypeOK, NEW n \in Attempts, NEW r \in Ranks, Take(n, r)
    PROVE  \E c \in todo[n][r] :
              \/ alive' = [alive EXCEPT ![n][r] = FALSE] /\ UNCHANGED <<todo, writing>>
              \/ /\ receipts[c] # 0
                 /\ todo' = [todo EXCEPT ![n][r] = @ \ {c}]
                 /\ UNCHANGED <<alive, writing>>
              \/ /\ receipts[c] = 0 /\ ~itemLocked(c)
                 /\ todo' = [todo EXCEPT ![n][r] = @ \ {c}]
                 /\ writing' = [writing EXCEPT ![n][r] = c]
                 /\ UNCHANGED alive
  BY DEF Take

\* A rank's list without one candidate, and the lock a rank holds, point by point.
LEMMA TodoWithout ==
    ASSUME TypeOK, NEW n \in Attempts, NEW r \in Ranks, NEW c,
           todo' = [todo EXCEPT ![n][r] = @ \ {c}]
    PROVE  /\ todo' \in [Attempts -> [Ranks -> SUBSET Items]]
           /\ \A i \in Attempts, j \in Ranks : todo[i][j] \ {c} \subseteq todo'[i][j]
<1> DEFINE left == todo[n][r] \ {c}
<1>1. left \in SUBSET Items
  BY DEF TypeOK
<1>2. todo' = [todo EXCEPT ![n][r] = left]
  BY DEF TypeOK
<1>3. todo'[n][r] = left /\ \A i \in Attempts, j \in Ranks :
          i # n \/ j # r => todo'[i][j] = todo[i][j]
  <2> HIDE DEF left
  <2> QED BY <1>2 DEF TypeOK
<1>4. todo' \in [Attempts -> [Ranks -> SUBSET Items]]
  <2> HIDE DEF left
  <2> QED BY <1>1, <1>2 DEF TypeOK
<1> QED BY <1>3, <1>4

LEMMA WritingOne ==
    ASSUME TypeOK, NEW n \in Attempts, NEW r \in Ranks, NEW c \in 0..Candidates,
           writing' = [writing EXCEPT ![n][r] = c]
    PROVE  /\ writing' \in [Attempts -> [Ranks -> 0..Candidates]]
           /\ writing'[n][r] = c
           /\ \A i \in Attempts, j \in Ranks :
                 i # n \/ j # r => writing'[i][j] = writing[i][j]
  BY DEF TypeOK

LEMMA ListedItem ==
    ASSUME TypeOK, NEW n \in Attempts, NEW r \in Ranks, NEW c \in todo[n][r]
    PROVE  c \in Items /\ c \in 0..Candidates /\ c # 0
  BY ConstantsAssumption DEF TypeOK, Items

LEMMA TakeEffect ==
    ASSUME TypeOK, NEW n \in Attempts, NEW r \in Ranks, Take(n, r)
    PROVE  /\ alive' \in [Attempts -> [Ranks -> BOOLEAN]]
           /\ todo' \in [Attempts -> [Ranks -> SUBSET Items]]
           /\ writing' \in [Attempts -> [Ranks -> 0..Candidates]]
           /\ \A i \in Attempts, j \in Ranks : alive'[i][j] => alive[i][j]
           /\ \A i \in Attempts, j \in Ranks :
                 i # n \/ j # r => writing'[i][j] = writing[i][j]
<1>1. PICK c \in todo[n][r] :
          \/ alive' = [alive EXCEPT ![n][r] = FALSE] /\ UNCHANGED <<todo, writing>>
          \/ /\ receipts[c] # 0
             /\ todo' = [todo EXCEPT ![n][r] = @ \ {c}]
             /\ UNCHANGED <<alive, writing>>
          \/ /\ receipts[c] = 0 /\ ~itemLocked(c)
             /\ todo' = [todo EXCEPT ![n][r] = @ \ {c}]
             /\ writing' = [writing EXCEPT ![n][r] = c]
             /\ UNCHANGED alive
  BY TakeCases
<1>2. CASE alive' = [alive EXCEPT ![n][r] = FALSE] /\ UNCHANGED <<todo, writing>>
  <2>1. /\ alive' \in [Attempts -> [Ranks -> BOOLEAN]]
        /\ \A i \in Attempts, j \in Ranks : alive'[i][j] => alive[i][j]
    BY <1>2, AliveType
  <2> QED BY <1>2, <2>1 DEF TypeOK
<1>3. CASE todo' = [todo EXCEPT ![n][r] = @ \ {c}] /\ UNCHANGED <<alive, writing>>
  <2>1. todo' \in [Attempts -> [Ranks -> SUBSET Items]]
    BY <1>3, TodoWithout
  <2> QED BY <1>3, <2>1 DEF TypeOK
<1>4. CASE /\ todo' = [todo EXCEPT ![n][r] = @ \ {c}]
           /\ writing' = [writing EXCEPT ![n][r] = c]
           /\ UNCHANGED alive
  <2>1. todo' \in [Attempts -> [Ranks -> SUBSET Items]]
    BY <1>4, TodoWithout
  <2>2. /\ writing' \in [Attempts -> [Ranks -> 0..Candidates]]
        /\ \A i \in Attempts, j \in Ranks :
              i # n \/ j # r => writing'[i][j] = writing[i][j]
    <3>1. c \in 0..Candidates
      BY ListedItem
    <3> QED BY <1>4, <3>1 DEF TypeOK
  <2> QED BY <1>4, <2>1, <2>2 DEF TypeOK
<1> QED BY <1>1, <1>2, <1>3, <1>4

LEMMA TypeAttempt ==
    ASSUME TypeOK, NEW n \in Attempts, NEW r \in Ranks,
           Launch \/ Reap \/ Crash \/ PrimaryStep(n) \/ RankStep(n, r)
    PROVE  TypeOK'
<1> USE DEF diskVars, verifyVars
<1>1. CASE Launch
  <2>1. last' \in 0..MaxAttempts /\ launcher' \in 0..last'
    BY <1>1, ConstantsAssumption DEF TypeOK, Launch
  <2>2. phase' \in [Attempts -> Phases]
    BY <1>1 DEF TypeOK, Launch, Phases
  <2>3. alive' \in [Attempts -> [Ranks -> BOOLEAN]]
    BY <1>1 DEF TypeOK, Launch
  <2> QED BY <1>1, <2>1, <2>2, <2>3 DEF TypeOK, Launch
<1>2. CASE Reap
  <2>1. launcher' \in 0..last'
    BY <1>2, ConstantsAssumption DEF TypeOK, Reap
  <2> QED BY <1>2, <2>1 DEF TypeOK, Reap
<1>3. CASE Crash
  <2>1. alive' \in [Attempts -> [Ranks -> BOOLEAN]]
    BY <1>3, AliveType DEF TypeOK, Crash
  <2>2. launcher' \in 0..last' /\ crashes' \in 0..MaxCrashes
    BY <1>3, ConstantsAssumption DEF TypeOK, Crash
  <2> QED BY <1>3, <2>1, <2>2 DEF TypeOK, Crash
<1>4. CASE Lock(n)
  <2>1. phase' \in [Attempts -> Phases]
    <3>1. phase' = phase \/ phase' = [phase EXCEPT ![n] = "prepare"]
      BY <1>4 DEF Lock
    <3> QED BY <3>1 DEF TypeOK, Phases, Locked
  <2>2. alive' \in [Attempts -> [Ranks -> BOOLEAN]]
    BY <1>4, AliveType, RankZero DEF Lock
  <2> QED BY <1>4, <2>1, <2>2 DEF TypeOK, Lock
<1>5. CASE Prepare(n)
  <2>1. phase' \in [Attempts -> Phases]
    BY <1>5 DEF TypeOK, Prepare, Phases, Locked
  <2>2. alive' \in [Attempts -> [Ranks -> BOOLEAN]]
    BY <1>5, AliveType, RankZero DEF Prepare
  <2>3. summary' \in Bundles \cup {None}
    BY <1>5 DEF TypeOK, Prepare
  <2> QED BY <1>5, <2>1, <2>2, <2>3 DEF TypeOK, Prepare
<1>6. CASE Share(n)
  <2>1. todo' \in [Attempts -> [Ranks -> SUBSET Items]]
    BY <1>6 DEF TypeOK, Share
  <2>2. phase' \in [Attempts -> Phases]
    BY <1>6 DEF TypeOK, Share, Phases, Locked
  <2> QED BY <1>6, <2>1, <2>2 DEF TypeOK, Share
<1>7. CASE Barrier(n)
  BY <1>7 DEF TypeOK, Barrier, Phases, Locked
<1>8. CASE Export(n)
  <2>1. CASE \E c \in Items : receipts[c] = 0
    <3>1. alive' \in [Attempts -> [Ranks -> BOOLEAN]]
      BY <1>8, <2>1, AliveType, RankZero DEF Export
    <3> QED BY <1>8, <2>1, <3>1 DEF TypeOK, Export
  <2>2. CASE ~ \E c \in Items : receipts[c] = 0
    <3>1. bundle' \in Bundles
      BY <1>8, <2>2, CompleteReceipts DEF Export
    <3>2. phase' \in [Attempts -> Phases]
      <4>1. phase' = [phase EXCEPT ![n] = "summary"]
        BY <1>8, <2>2 DEF Export
      <4> QED BY <4>1 DEF TypeOK, Phases, Locked
    <3> QED BY <1>8, <2>2, <3>1, <3>2 DEF TypeOK, Export
  <2> QED BY <2>1, <2>2
<1>9. CASE Summarise(n)
  BY <1>9, RankZero DEF TypeOK, Summarise, Phases
<1>10. CASE Take(n, r)
  BY <1>10, TakeEffect DEF TypeOK, Take
<1>11. CASE Write(n, r)
  BY <1>11, ConstantsAssumption DEF TypeOK, Write, Items, Attempts
<1>12. CASE PeerLost(n, r)
  BY <1>12, AliveType DEF TypeOK, PeerLost
<1> QED BY <1>1, <1>2, <1>3, <1>4, <1>5, <1>6, <1>7, <1>8, <1>9, <1>10, <1>11, <1>12
        DEF PrimaryStep, RankStep

LEMMA TypeVerify ==
    ASSUME TypeOK, NEW w \in Workers, VerifyStep(w)
    PROVE  TypeOK'
<1> USE DEF TypeOK, diskVars, runVars
<1>1. CASE ReadBundle(w)
  BY <1>1 DEF ReadBundle
<1>2. CASE CheckSeal(w)
  BY <1>2 DEF CheckSeal
<1>3. CASE CheckSummary(w)
  BY <1>3 DEF CheckSummary
<1>4. CASE Seal(w)
  <2>1. seal' \in Bundles \cup {None}
    BY <1>4 DEF Seal
  <2>2. CASE seal \notin {None, snap[w]}
    BY <1>4, <2>2 DEF Seal
  <2>3. CASE seal \in {None, snap[w]}
    BY <1>4, <2>1, <2>3 DEF Seal
  <2> QED BY <2>2, <2>3
<1> QED BY <1>1, <1>2, <1>3, <1>4 DEF VerifyStep

-----------------------------------------------------------------------------
(* Processes that end release their locks and change nothing else.          *)

Fading ==
    /\ \A m \in Attempts, q \in Ranks : alive'[m][q] => alive[m][q]
    /\ UNCHANGED <<last, phase, todo, writing, diskVars, verifyVars>>

LEMMA ProcessesFade ==
    ASSUME TypeOK, NEW n \in Attempts, NEW r \in Ranks, Reap \/ Crash \/ PeerLost(n, r)
    PROVE  Fading
<1>1. CASE Reap
  BY <1>1 DEF Reap, Fading
<1>2. CASE Crash
  <2>1. \A m \in Attempts, q \in Ranks : alive'[m][q] => alive[m][q]
    BY <1>2, AliveType DEF Crash
  <2> QED BY <1>2, <2>1 DEF Crash, Fading
<1>3. CASE PeerLost(n, r)
  BY <1>3, AliveType DEF PeerLost, Fading, diskVars, verifyVars
<1> QED BY <1>1, <1>2, <1>3

\* What rank 0 does before and after the generation leaves locks and receipts alone.
LEMMA PrimaryQuiet ==
    ASSUME TypeOK, NEW n \in Attempts, PrimaryStep(n)
    PROVE  /\ \A m \in Attempts, q \in Ranks : alive'[m][q] => alive[m][q]
           /\ UNCHANGED <<last, writing, receipts, verifyVars>>
<1>1. CASE Lock(n)
  BY <1>1, AliveType, RankZero DEF Lock, diskVars
<1>2. CASE Prepare(n)
  BY <1>2, AliveType, RankZero DEF Prepare
<1>3. CASE Share(n) \/ Barrier(n)
  BY <1>3 DEF Share, Barrier, diskVars
<1>4. CASE Export(n)
  BY <1>4, AliveType, RankZero DEF Export
<1>5. CASE Summarise(n)
  BY <1>5, AliveType, RankZero DEF Summarise
<1> QED BY <1>1, <1>2, <1>3, <1>4, <1>5 DEF PrimaryStep

-----------------------------------------------------------------------------
(* One rank 0 in the locked phases, and no process before its launch.       *)

LEMMA ExecStep ==
    ASSUME HInv, NEW n \in Attempts, NEW r \in Ranks,
           Launch \/ Reap \/ Crash \/ PrimaryStep(n) \/ RankStep(n, r)
    PROVE  ExecExclusive'
<1> USE RankZero DEF HInv, TypeOK, ExecExclusive
<1>1. CASE Launch
  BY <1>1 DEF Launch, Locked
<1>2. CASE Reap \/ Crash \/ PeerLost(n, r)
  BY <1>2, ProcessesFade DEF Fading
<1>3. CASE Lock(n)
  BY <1>3 DEF Lock, execLocked
<1>4. CASE Prepare(n)
  <2>1. \A m \in Attempts : alive'[m][0] => alive[m][0]
    BY <1>4, PrimaryQuiet DEF PrimaryStep
  <2>2. \A m \in Attempts : phase'[m] \in Locked => phase[m] \in Locked
    BY <1>4 DEF Prepare, Locked
  <2> QED BY <2>1, <2>2
<1>5. CASE Share(n)
  BY <1>5 DEF Share, Locked, peerLost
<1>6. CASE Barrier(n)
  BY <1>6 DEF Barrier, Locked, peerLost
<1>7. CASE Export(n)
  BY <1>7 DEF Export, Locked
<1>8. CASE Summarise(n)
  BY <1>8 DEF Summarise, Locked
<1>9. CASE Take(n, r)
  <2>1. \A m \in Attempts, q \in Ranks : alive'[m][q] => alive[m][q]
    BY <1>9, TakeEffect
  <2> QED BY <1>9, <2>1 DEF Take
<1>10. CASE Write(n, r)
  BY <1>10 DEF Write
<1> QED BY <1>1, <1>2, <1>3, <1>4, <1>5, <1>6, <1>7, <1>8, <1>9, <1>10
        DEF PrimaryStep, RankStep

LEMMA NotLaunchedStep ==
    ASSUME HInv, NEW n \in Attempts, NEW r \in Ranks,
           Launch \/ Reap \/ Crash \/ PrimaryStep(n) \/ RankStep(n, r)
    PROVE  NotLaunched'
<1> USE DEF HInv, TypeOK, NotLaunched
<1>1. CASE Launch
  BY <1>1, ConstantsAssumption DEF Launch, Attempts
<1>2. CASE Reap \/ Crash \/ PeerLost(n, r)
  BY <1>2, ProcessesFade DEF Fading
<1>3. CASE PrimaryStep(n)
  BY <1>3, PrimaryQuiet
<1>4. CASE Take(n, r)
  <2>1. ~(n > last) /\ last' = last
    BY <1>4 DEF Take
  <2>2. \A m \in Attempts, q \in Ranks : alive'[m][q] => alive[m][q]
    BY <1>4, TakeEffect
  <2>3. \A m \in Attempts, q \in Ranks : m # n => writing'[m][q] = writing[m][q]
    BY <1>4, TakeEffect
  <2> QED BY <2>1, <2>2, <2>3
<1>5. CASE Write(n, r)
  BY <1>5, ConstantsAssumption DEF Write
<1> QED BY <1>1, <1>2, <1>3, <1>4, <1>5 DEF RankStep

-----------------------------------------------------------------------------
(* The candidates' locks.                                                   *)

LEMMA WriterStep ==
    ASSUME HInv, NEW n \in Attempts, NEW r \in Ranks,
           Launch \/ Reap \/ Crash \/ PrimaryStep(n) \/ RankStep(n, r)
    PROVE  WriterExclusive'
<1> USE DEF HInv
<1>1. CASE Launch
  <2>1. \A m \in Attempts, q \in Ranks :
            alive'[m][q] /\ writing[m][q] # 0 => alive[m][q]
    BY <1>1, ConstantsAssumption DEF Launch, TypeOK, NotLaunched, Attempts
  <2>2. UNCHANGED <<writing, receipts>>
    BY <1>1 DEF Launch, diskVars
  <2> QED BY <2>1, <2>2 DEF WriterExclusive
<1>2. CASE Reap \/ Crash \/ PeerLost(n, r)
  BY <1>2, ProcessesFade DEF Fading, diskVars, WriterExclusive
<1>3. CASE PrimaryStep(n)
  BY <1>3, PrimaryQuiet DEF WriterExclusive
<1>4. CASE Take(n, r)
  <2>1. \A m \in Attempts, q \in Ranks : alive'[m][q] => alive[m][q]
    BY <1>4, TakeEffect
  <2>2. receipts' = receipts
    BY <1>4 DEF Take, diskVars
  <2>3. CASE writing' = writing
    BY <2>1, <2>2, <2>3 DEF WriterExclusive
  <2>4. ASSUME NEW c \in todo[n][r], receipts[c] = 0, ~itemLocked(c),
               writing' = [writing EXCEPT ![n][r] = c]
        PROVE  WriterExclusive'
    <3>1. \A m \in Attempts, q \in Ranks : alive[m][q] => writing[m][q] # c
      BY <2>4 DEF itemLocked
    <3>2. /\ writing'[n][r] = c
          /\ \A i \in Attempts, j \in Ranks :
                i # n \/ j # r => writing'[i][j] = writing[i][j]
      <4>1. c \in 0..Candidates
        BY ListedItem
      <4> QED BY <2>4, <4>1 DEF TypeOK
    <3> QED BY <2>1, <2>2, <2>4, <3>1, <3>2 DEF WriterExclusive
  <2> QED BY <1>4, <2>3, <2>4, TakeCases
<1>5. CASE Write(n, r)
  <2> DEFINE c == writing[n][r]
  <2>1. alive[n][r] /\ c # 0 /\ c \in Items
    BY <1>5, ConstantsAssumption DEF Write, TypeOK, Items
  <2>2. \A i \in Attempts, j \in Ranks :
            alive[i][j] /\ writing[i][j] = c => i = n /\ j = r
    BY <2>1 DEF WriterExclusive
  <2>3. \A d \in Items : d # c => receipts'[d] = receipts[d]
    BY <1>5 DEF Write, TypeOK
  <2>4. /\ writing'[n][r] = 0
        /\ \A i \in Attempts, j \in Ranks :
              i # n \/ j # r => writing'[i][j] = writing[i][j]
    <3>1. 0 \in 0..Candidates
      BY ConstantsAssumption
    <3>2. writing' = [writing EXCEPT ![n][r] = 0]
      BY <1>5 DEF Write
    <3> QED BY <3>1, <3>2 DEF TypeOK
  <2>5. alive' = alive
    BY <1>5 DEF Write
  <2>6. \A i \in Attempts, j \in Ranks : writing[i][j] # 0 => writing[i][j] \in Items
    BY ConstantsAssumption DEF TypeOK, Items
  <2> HIDE DEF c
  <2> QED BY <2>2, <2>3, <2>4, <2>5, <2>6 DEF WriterExclusive
<1> QED BY <1>1, <1>2, <1>3, <1>4, <1>5 DEF RankStep

-----------------------------------------------------------------------------
(* The sharing.                                                             *)

LEMMA SharedStep ==
    ASSUME HInv, NEW n \in Attempts, NEW r \in Ranks,
           Launch \/ Reap \/ Crash \/ PrimaryStep(n) \/ RankStep(n, r)
    PROVE  SharedOut'
<1> USE DEF HInv
<1>1. CASE Launch
  BY <1>1 DEF Launch, diskVars, TypeOK, SharedOut
<1>2. CASE Reap \/ Crash \/ PeerLost(n, r)
  BY <1>2, ProcessesFade DEF Fading, diskVars, SharedOut
<1>3. CASE Lock(n)
  BY <1>3 DEF Lock, diskVars, TypeOK, SharedOut
<1>4. CASE Prepare(n)
  <2>1. \A m \in Attempts : phase'[m] \in {"gen", "export"} => phase'[m] = phase[m]
    BY <1>4 DEF Prepare, TypeOK
  <2>2. UNCHANGED <<todo, writing, receipts>>
    BY <1>4 DEF Prepare
  <2> QED BY <2>1, <2>2 DEF SharedOut
<1>5. CASE Share(n)
  <2> DEFINE missing  == {c \in Items : receipts[c] = 0}
             index(c) == Cardinality({d \in missing : d < c})
  <2>1. todo'[n] = [q \in Ranks |-> {c \in missing : index(c) % World = q}]
    BY <1>5 DEF Share, TypeOK
  <2>2. \A c \in Items : index(c) % World \in Ranks
    BY PlaceHasRank
  <2>3. \A c \in Items : receipts[c] = 0 => \E q \in Ranks : c \in todo'[n][q]
    BY <2>1, <2>2
  <2>4. \A m \in Attempts : m # n => todo'[m] = todo[m] /\ phase'[m] = phase[m]
    BY <1>5 DEF Share, TypeOK
  <2>5. phase'[n] = "gen" /\ UNCHANGED <<writing, receipts>>
    BY <1>5 DEF Share, TypeOK, diskVars
  <2> HIDE DEF missing, index
  <2> QED BY <2>3, <2>4, <2>5 DEF SharedOut
<1>6. CASE Barrier(n)
  <2>1. \A c \in Items : receipts[c] # 0
    <3>1. \A c \in Items, q \in Ranks : c \notin todo[n][q] /\ writing[n][q] # c
      BY <1>6, ConstantsAssumption DEF Barrier, generated, Items
    <3> QED BY <1>6, <3>1 DEF Barrier, SharedOut
  <2> QED BY <1>6, <2>1 DEF Barrier, diskVars, TypeOK, SharedOut
<1>7. CASE Export(n)
  BY <1>7 DEF Export, TypeOK, SharedOut
<1>8. CASE Summarise(n)
  BY <1>8 DEF Summarise, TypeOK, SharedOut
<1>9. CASE Take(n, r)
  <2>1. UNCHANGED <<phase, receipts>>
    BY <1>9 DEF Take, diskVars
  <2>2. CASE UNCHANGED <<todo, writing>>
    BY <2>1, <2>2 DEF SharedOut
  <2>3. ASSUME NEW c \in todo[n][r], todo' = [todo EXCEPT ![n][r] = @ \ {c}],
               receipts[c] # 0, writing' = writing
        PROVE  SharedOut'
    <3>1. \A i \in Attempts, j \in Ranks : todo[i][j] \ {c} \subseteq todo'[i][j]
      BY <2>3, TodoWithout
    <3> QED BY <2>1, <2>3, <3>1 DEF SharedOut
  <2>4. ASSUME NEW c \in todo[n][r], todo' = [todo EXCEPT ![n][r] = @ \ {c}],
               writing' = [writing EXCEPT ![n][r] = c]
        PROVE  SharedOut'
    <3>1. /\ writing'[n][r] = c /\ writing[n][r] = 0
          /\ \A i \in Attempts, j \in Ranks :
                i # n \/ j # r => writing'[i][j] = writing[i][j]
      <4>1. c \in 0..Candidates
        BY ListedItem
      <4>2. writing[n][r] = 0
        BY <1>9 DEF Take
      <4> QED BY <2>4, <4>1, <4>2 DEF TypeOK
    <3>2. \A i \in Attempts, j \in Ranks : todo[i][j] \ {c} \subseteq todo'[i][j]
      BY <2>4, TodoWithout
    <3>3. \A i \in Attempts, j \in Ranks : i # n \/ j # r => todo'[i][j] = todo[i][j]
      BY <2>4 DEF TypeOK
    <3>4. 0 \notin Items
      BY DEF Items
    <3> QED BY <2>1, <3>1, <3>2, <3>3, <3>4 DEF SharedOut
  <2> QED BY <1>9, <2>2, <2>3, <2>4, TakeCases
<1>10. CASE Write(n, r)
  <2> DEFINE c == writing[n][r]
  <2>1. /\ receipts'[c] # 0
        /\ \A d \in Items : d # c => receipts'[d] = receipts[d]
    BY <1>10, ConstantsAssumption DEF Write, TypeOK, Items, Attempts
  <2>2. \A i \in Attempts, j \in Ranks :
            i # n \/ j # r => writing'[i][j] = writing[i][j]
    BY <1>10, WritingOne, ConstantsAssumption DEF Write
  <2>3. UNCHANGED <<phase, todo>>
    BY <1>10 DEF Write
  <2> QED BY <2>1, <2>2, <2>3 DEF SharedOut
<1> QED BY <1>1, <1>2, <1>3, <1>4, <1>5, <1>6, <1>7, <1>8, <1>9, <1>10
        DEF PrimaryStep, RankStep

-----------------------------------------------------------------------------
(* The bundle, its summary and its seal.                                    *)

LEMMA WrittenAttempt ==
    ASSUME HInv, NEW n \in Attempts, NEW r \in Ranks,
           Launch \/ Reap \/ Crash \/ PrimaryStep(n) \/ RankStep(n, r)
    PROVE  /\ Written'
           /\ bundle # None => bundle' = bundle
           /\ bundle' # bundle => bundle' \in Bundles /\ bundle' = receipts
<1> USE DEF HInv
<1>1. CASE Launch
  BY <1>1 DEF Launch, diskVars, verifyVars, TypeOK, Written
<1>2. CASE Reap \/ Crash \/ PeerLost(n, r)
  BY <1>2, ProcessesFade DEF Fading, diskVars, verifyVars, Written
<1>3. CASE Lock(n)
  BY <1>3 DEF Lock, diskVars, verifyVars, TypeOK, Written
<1>4. CASE Prepare(n)
  BY <1>4 DEF Prepare, verifyVars, TypeOK, Written
<1>5. CASE Share(n) \/ Barrier(n)
  BY <1>5 DEF Share, Barrier, diskVars, verifyVars, TypeOK, Written
<1>6. CASE Export(n)
  <2>1. CASE \E c \in Items : receipts[c] = 0
    BY <1>6, <2>1 DEF Export, verifyVars, Written
  <2>2. CASE ~ \E c \in Items : receipts[c] = 0
    <3>1. receipts \in Bundles /\ receipts # None
      BY <2>2, CompleteReceipts, BundleFacts
    <3>2. bundle' = receipts /\ UNCHANGED <<receipts, summary, seal>>
      BY <1>6, <2>2 DEF Export, verifyVars
    <3>3. bundle # None => bundle' = bundle
      BY <3>2 DEF Written
    <3>4. bundle = None => summary = None /\ seal = None
      BY DEF Written
    <3> QED BY <3>1, <3>2, <3>3, <3>4 DEF Written
  <2> QED BY <2>1, <2>2
<1>7. CASE Summarise(n)
  BY <1>7 DEF Summarise, verifyVars, TypeOK, Written
<1>8. CASE Take(n, r)
  BY <1>8 DEF Take, diskVars, verifyVars, Written
<1>9. CASE Write(n, r)
  <2>1. bundle = None
    <3> SUFFICES ASSUME bundle # None PROVE FALSE
      OBVIOUS
    <3>1. writing[n][r] \in Items /\ receipts[writing[n][r]] = 0
      BY <1>9, ConstantsAssumption DEF Write, WriterExclusive, TypeOK, Items
    <3>2. bundle \in Bundles /\ bundle = receipts
      BY DEF TypeOK, Written
    <3> QED BY <3>1, <3>2, BundleFacts
  <2> QED BY <1>9, <2>1 DEF Write, verifyVars, Written
<1> QED BY <1>1, <1>2, <1>3, <1>4, <1>5, <1>6, <1>7, <1>8, <1>9
        DEF PrimaryStep, RankStep

LEMMA VerifiedAttempt ==
    ASSUME HInv, NEW n \in Attempts, NEW r \in Ranks,
           Launch \/ Reap \/ Crash \/ PrimaryStep(n) \/ RankStep(n, r)
    PROVE  Verified'
<1>1. UNCHANGED verifyVars
  BY DEF Launch, Reap, Crash, PrimaryStep, Lock, Prepare, Share, Barrier, Export, Summarise,
         RankStep, Take, Write, PeerLost
<1>2. bundle # None => bundle' = bundle
  BY WrittenAttempt
<1>3. Written'
  BY WrittenAttempt
<1>4. ASSUME NEW w \in Workers, vpc[w] = "sealing"
      PROVE  summary' = bundle'
  <2>1. bundle # None /\ summary = bundle
    BY <1>4 DEF HInv, Verified
  <2>2. summary' # None
    <3>1. summary' = summary \/ summary' = bundle
      BY DEF Launch, Reap, Crash, PrimaryStep, Lock, Prepare, Share, Barrier, Export,
             Summarise, RankStep, Take, Write, PeerLost, diskVars
    <3> QED BY <2>1, <3>1
  <2> QED BY <1>3, <2>2 DEF Written
<1> QED BY <1>1, <1>2, <1>4 DEF verifyVars, HInv, Verified

LEMMA VerifyStepInv ==
    ASSUME HInv, NEW w \in Workers, VerifyStep(w)
    PROVE  Written' /\ Verified'
<1> USE DEF HInv, TypeOK
<1>1. CASE ReadBundle(w)
  BY <1>1 DEF ReadBundle, runVars, diskVars, Written, Verified
<1>2. CASE CheckSeal(w)
  BY <1>2 DEF CheckSeal, runVars, diskVars, Written, Verified
<1>3. CASE CheckSummary(w)
  BY <1>3 DEF CheckSummary, runVars, diskVars, Written, Verified
<1>4. CASE Seal(w)
  BY <1>4 DEF Seal, runVars, diskVars, Written, Verified
<1> QED BY <1>1, <1>2, <1>3, <1>4 DEF VerifyStep

-----------------------------------------------------------------------------
(* The invariant is inductive.                                              *)

\* A launch or a crash takes an attempt to launch or to crash.
LEMMA SomeAttempt ==
    ASSUME TypeOK, Launch \/ Reap \/ Crash
    PROVE  1 \in Attempts
<1>1. MaxAttempts # 0
  BY ConstantsAssumption DEF Launch, Reap, Crash, TypeOK, Attempts
<1> QED BY <1>1, ConstantsAssumption DEF Attempts

\* A step is an attempt's, a worker's or none.
LEMMA StepCases ==
    ASSUME TypeOK, [Next]_vars
    PROVE  \/ \E n \in Attempts, r \in Ranks :
                 Launch \/ Reap \/ Crash \/ PrimaryStep(n) \/ RankStep(n, r)
           \/ \E w \in Workers : VerifyStep(w)
           \/ UNCHANGED vars
  BY SomeAttempt, RankZero DEF Next

LEMMA InitHInv == Init => HInv
<1> SUFFICES ASSUME Init PROVE HInv
  OBVIOUS
<1>1. TypeOK
  BY TypeInit
<1>2. ExecExclusive /\ NotLaunched /\ WriterExclusive
  BY RankZero DEF Init, ExecExclusive, NotLaunched, WriterExclusive
<1>3. SharedOut /\ Written /\ Verified
  BY DEF Init, SharedOut, Written, Verified
<1> QED BY <1>1, <1>2, <1>3 DEF HInv

LEMMA NextHInv == HInv /\ [Next]_vars => HInv'
<1> SUFFICES ASSUME HInv, [Next]_vars PROVE HInv'
  OBVIOUS
<1>1. ASSUME NEW n \in Attempts, NEW r \in Ranks,
             Launch \/ Reap \/ Crash \/ PrimaryStep(n) \/ RankStep(n, r)
      PROVE  HInv'
  <2>1. TypeOK'
    BY <1>1, TypeAttempt DEF HInv
  <2>2. ExecExclusive' /\ NotLaunched' /\ WriterExclusive'
    BY <1>1, ExecStep, NotLaunchedStep, WriterStep
  <2>3. SharedOut' /\ Written' /\ Verified'
    BY <1>1, SharedStep, WrittenAttempt, VerifiedAttempt
  <2> QED BY <2>1, <2>2, <2>3 DEF HInv
<1>2. ASSUME NEW w \in Workers, VerifyStep(w)
      PROVE  HInv'
  <2>1. TypeOK'
    BY <1>2, TypeVerify DEF HInv
  <2>2. UNCHANGED <<runVars, receipts>>
    BY <1>2 DEF VerifyStep, ReadBundle, CheckSeal, CheckSummary, Seal, diskVars
  <2>3. ExecExclusive' /\ NotLaunched' /\ WriterExclusive' /\ SharedOut'
    BY <2>2 DEF runVars, HInv, ExecExclusive, NotLaunched, WriterExclusive, SharedOut
  <2>4. Written' /\ Verified'
    BY <1>2, VerifyStepInv
  <2> QED BY <2>1, <2>3, <2>4 DEF HInv
<1>3. CASE UNCHANGED vars
  BY <1>3 DEF vars, HInv, TypeOK, ExecExclusive, NotLaunched, WriterExclusive, SharedOut,
              Written, Verified
<1>4. TypeOK
  BY DEF HInv
<1> QED BY <1>1, <1>2, <1>3, <1>4, StepCases

-----------------------------------------------------------------------------
(* Theorems.                                                                *)

\* What the exclusion and the order of the writes rest on holds for any number
\* of attempts, ranks, candidates, workers and crashes.
THEOREM HandoffInvariance == Spec => []HInv
<1> QED BY InitHInv, NextHInv, PTL DEF Spec

\* Attempts never prepare, share out or export beside each other, whatever
\* orphans earlier attempts left.
THEOREM AttemptsExclude == Spec => []ExecExclusive
<1>1. HInv => ExecExclusive
  BY DEF HInv
<1> QED BY <1>1, HandoffInvariance, PTL

\* A bundle that is there is built of the receipts that are there.
THEOREM BundleIsOfReceipts == Spec => []BundleOfReceipts
<1>1. HInv => BundleOfReceipts
  BY DEF HInv, Written, BundleOfReceipts
<1> QED BY <1>1, HandoffInvariance, PTL

\* After the barrier every candidate has a receipt.
THEOREM ExportIsComplete == Spec => []ExportComplete
<1>1. HInv => ExportComplete
  BY DEF HInv, SharedOut, ExportComplete
<1> QED BY <1>1, HandoffInvariance, PTL

\* A worker that believes in the cache believes in the sealed, summarised bundle.
THEOREM ReadyMeansSealed == Spec => []ReadyIsSealed
<1>1. HInv => ReadyIsSealed
  BY DEF HInv, Written, Verified, ReadyIsSealed
<1> QED BY <1>1, HandoffInvariance, PTL

\* No step replaces a receipt: one rank holds the candidate's lock, and looks for
\* the receipt under it.
LEMMA StepKeepsReceipts ==
    ASSUME HInv, [Next]_vars, NEW c \in Items, receipts[c] # 0
    PROVE  receipts'[c] = receipts[c]
<1>1. CASE \E n \in Attempts, r \in Ranks : Write(n, r)
  <2>1. PICK n \in Attempts, r \in Ranks : Write(n, r)
    BY <1>1
  <2>2. receipts[writing[n][r]] = 0
    BY <2>1 DEF Write, HInv, WriterExclusive
  <2> QED BY <2>1, <2>2 DEF Write, HInv, TypeOK
<1>2. CASE UNCHANGED receipts
  BY <1>2
<1>3. UNCHANGED receipts \/ \E n \in Attempts, r \in Ranks : Write(n, r)
  BY DEF Next, vars, Launch, Reap, Crash, PrimaryStep, Lock, Prepare, Share, Barrier, Export,
         Summarise, RankStep, Take, PeerLost, VerifyStep, ReadBundle, CheckSeal,
         CheckSummary, Seal, diskVars
<1> QED BY <1>1, <1>2, <1>3

THEOREM ReceiptsAreFinal == Spec => ReceiptsFinal
<1>1. HInv /\ [Next]_vars =>
          [\A c \in Items : receipts[c] # 0 => receipts'[c] = receipts[c]]_vars
  BY StepKeepsReceipts
<1> QED BY <1>1, HandoffInvariance, PTL DEF Spec, ReceiptsFinal

\* verify() never takes a bundle back from a worker that has it.
LEMMA VerifyReleases ==
    ASSUME HInv, NEW w \in Workers, VerifyStep(w)
    PROVE  /\ bundle' = bundle
           /\ \A v \in Workers : ready[v] => ready'[v]
           /\ \A v \in Workers : v # w => (ready'[v] <=> ready[v])
           /\ ready'[w] /\ ~ready[w] => bundle # None
<1> USE DEF HInv, TypeOK
<1>1. CASE ReadBundle(w)
  BY <1>1 DEF ReadBundle, diskVars
<1>2. CASE CheckSeal(w)
  <2>1. snap[w] = None /\ seal \in {None, snap[w]} => ~ready[w]
    BY DEF Verified
  <2> QED BY <1>2, <2>1 DEF CheckSeal, diskVars
<1>3. CASE CheckSummary(w)
  <2>1. summary # snap[w] => ~ready[w]
    BY <1>3 DEF CheckSummary, Verified, Written
  <2> QED BY <1>3, <2>1 DEF CheckSummary, diskVars
<1>4. CASE Seal(w)
  BY <1>4 DEF Seal, diskVars, Verified
<1> QED BY <1>1, <1>2, <1>3, <1>4 DEF VerifyStep

\* The handoff implements write-once: the bundle is written once, released after
\* it was written, and never taken back.
THEOREM HandoffRefinement == Spec => ImplementsHandoff
<1> DEFINE released == {w \in Workers : ready[w]}
<1>1. Init => Handoff!Init
  BY DEF Init, Handoff!Init
<1>2. HInv /\ [Next]_vars => [Handoff!Next]_(<<bundle, released>>)
  <2> SUFFICES ASSUME HInv, [Next]_vars
               PROVE  [Handoff!Next]_(<<bundle, released>>)
    OBVIOUS
  <2>1. ASSUME NEW n \in Attempts, NEW r \in Ranks,
               Launch \/ Reap \/ Crash \/ PrimaryStep(n) \/ RankStep(n, r)
        PROVE  [Handoff!Next]_(<<bundle, released>>)
    <3>1. UNCHANGED ready
      BY <2>1 DEF Launch, Reap, Crash, PrimaryStep, Lock, Prepare, Share, Barrier, Export,
                  Summarise, RankStep, Take, Write, PeerLost, verifyVars
    <3>2. bundle' = bundle \/ (bundle = None /\ bundle' \in Bundles)
      <4>1. bundle # None => bundle' = bundle
        BY <2>1, WrittenAttempt
      <4>2. bundle' # bundle => bundle' \in Bundles
        BY <2>1, WrittenAttempt
      <4> QED BY <4>1, <4>2
    <3> QED BY <3>1, <3>2 DEF Handoff!Next, Handoff!Write
  <2>2. ASSUME NEW w \in Workers, VerifyStep(w)
        PROVE  [Handoff!Next]_(<<bundle, released>>)
    <3>1. CASE ready'[w] /\ ~ready[w]
      <4>1. bundle # None /\ bundle' = bundle
        BY <2>2, <3>1, VerifyReleases
      <4>2. released' = released \cup {w}
        BY <2>2, <3>1, VerifyReleases
      <4> QED BY <4>1, <4>2 DEF Handoff!Next, Handoff!Release
    <3>2. CASE ~(ready'[w] /\ ~ready[w])
      <4>1. released' = released /\ bundle' = bundle
        BY <2>2, <3>2, VerifyReleases
      <4> QED BY <4>1
    <3> QED BY <3>1, <3>2
  <2>3. CASE UNCHANGED vars
    BY <2>3 DEF vars
  <2>4. TypeOK
    BY DEF HInv
  <2> QED BY <2>1, <2>2, <2>3, <2>4, StepCases
<1> QED BY <1>1, <1>2, HandoffInvariance, PTL
        DEF Spec, ImplementsHandoff, Handoff!Spec, Handoff!vars
=============================================================================
