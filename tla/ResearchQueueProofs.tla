------------------------- MODULE ResearchQueueProofs -------------------------
(***************************************************************************)
(* The safety properties of the study queue, for any nodes, stages,        *)
(* attempts, launches and faults.                                          *)
(***************************************************************************)
EXTENDS ResearchQueue, SequenceTheorems, TLAPS

Models == Seq(Launches)
Marks == {"unfinished", "waiting", "failed"}
RankPhases == {"none", "startup", "ok", "err"} \cup InLock
Working == InLock \ {"leave"}
AtTask == {"locked", "launch", "running"}

ProcType ==
    /\ rank \in [Conditions -> [Launches -> RankPhases]]
    /\ exec \in [Conditions -> 0..MaxLaunches]
    /\ mem \in [Conditions -> Models]

FileType ==
    /\ saved \in [Conditions -> Models]
    /\ anchor \in [StageSet -> Models \cup {None}]
    /\ released \in [StageSet -> Models \cup {None}]
    /\ endpoint \in [Conditions -> Models \cup {None}]

NodeType ==
    /\ pc \in [Nodes -> {"look"} \cup AtTask \cup Ended]
    /\ at \in [Nodes -> 1..Len(Order) + 1]
    /\ pass \in [Nodes -> SUBSET Marks]
    /\ launch \in [Nodes -> 0..MaxLaunches]
    /\ attempts \in [Conditions -> Nat]

\* The rank in the execution lock is the one the lock names.
LockHeld == \A c \in Conditions, n \in Launches : rank[c][n] \in InLock => exec[c] = n

\* Whoever is at a condition, or has launched it, has seen what it depends on.
Prepared ==
    /\ \A w \in Nodes :
         /\ pc[w] \in AtTask => at[w] <= Len(Order) /\ dependencies(task(w))
         /\ pc[w] = "running" => launch[w] \in Launches
    /\ \A c \in Conditions, n \in Launches : rank[c][n] # "none" => dependencies(c)

\* A condition at work has no result, and takes only the steps of its kind.
AtWork ==
    \A c \in Conditions, n \in Launches :
        /\ rank[c][n] \in Working => endpoint[c] = None
        /\ c # Carrier => rank[c][n] \notin {"anchor", "receipt"}
        /\ c # Cache => rank[c][n] # "export"

\* Stages below what the carrier has saved are released, and lie on its path.
ReleasedOnPath ==
    /\ \A s \in StageSet : released[s] # None =>
           /\ anchor[s] = released[s]
           /\ Len(released[s]) = s
           /\ IsPrefix(released[s], saved[Carrier])
    /\ \A s \in StageSet : s < Len(saved[Carrier]) => released[s] # None
    /\ endpoint[Carrier] # None => \A s \in StageSet : released[s] # None

\* What the carrier holds in memory at each of its steps.
CarrierState(phase, n) ==
    LET m == mem[Carrier]
        reached(s) == Len(saved[Carrier]) = s => released[s] # None
    IN
    /\ phase \in {"anchor", "receipt", "next", "endpoint"} => m = saved[Carrier]
    /\ phase \in {"anchor", "receipt"} => Len(m) \in StageSet /\ released[Len(m)] = None
    /\ phase = "receipt" => anchor[Len(m)] = m
    /\ phase \in {"next", "save", "endpoint"} => \A s \in StageSet : reached(s)
    /\ phase = "save" => m = Append(saved[Carrier], n)
    /\ phase = "endpoint" => Len(m) = Updates

CarrierOnPath == \A n \in Launches : CarrierState(rank[Carrier][n], n)

\* The cache's endpoint is the exported one.
CacheExported ==
    /\ endpoint[Cache] # None => endpoint[Cache] = cacheFile
    /\ \A n \in Launches : rank[Cache][n] = "endpoint" => cacheFile = mem[Cache]

\* A diagnostic goes on from its released anchor.
Branches(s, phase) ==
    LET c == Diagnostic(s) IN
    /\ saved[c] # <<>> => released[s] # None /\ IsStrictPrefix(released[s], saved[c])
    /\ endpoint[c] # None => released[s] # None /\ IsStrictPrefix(released[s], endpoint[c])
    /\ phase = "next" => mem[c] = released[s]
    /\ phase \in {"save", "endpoint"} => IsStrictPrefix(released[s], mem[c])

DiagnosticsBranch ==
    \A s \in StageSet, n \in Launches : Branches(s, rank[Diagnostic(s)][n])

\* What a pass has concluded holds of the conditions it has passed.
Hopeless(c) ==
    complete(c) \/ spent(c) \/ spent(Cache) \/ (c[1] = "diagnostic" /\ spent(Carrier))
Concluded(w) ==
    /\ pc[w] \in AtTask => "unfinished" \in pass[w]
    /\ "unfinished" \notin pass[w] => \A i \in 1..Len(Order) : i < at[w] => complete(Order[i])
    /\ "waiting" \notin pass[w] => \A i \in 1..Len(Order) : i < at[w] => Hopeless(Order[i])
    /\ pc[w] = "done" => \A c \in Conditions : complete(c)
    /\ pc[w] = "gave-up" => \A c \in Conditions : Hopeless(c)
PassTruthful == \A w \in Nodes : Concluded(w)

Work ==
    /\ ProcType /\ FileType /\ LockHeld /\ AtWork
    /\ ReleasedOnPath /\ CarrierOnPath /\ CacheExported /\ DiagnosticsBranch

RInv == Work /\ NodeType /\ Prepared /\ PassTruthful
-----------------------------------------------------------------------------
(* The conditions and their order.                                          *)

\* The stages are numbers of updates in growing order.
LEMMA StageFacts ==
    /\ Len(Stages) \in Nat /\ Len(Stages) >= 1
    /\ StageSet \subseteq Nat
    /\ \A i \in 1..Len(Stages) : Stages[i] \in StageSet
    /\ \A s \in StageSet : \E i \in 1..Len(Stages) : s = Stages[i]
    /\ Updates \in StageSet
    /\ \A s \in StageSet : s <= Updates
  <1>1. /\ Stages \in Seq(Nat) /\ Len(Stages) \in 1..Len(Stages)
        /\ \A i, j \in 1..Len(Stages) : i < j => Stages[i] < Stages[j]
    BY ResearchAssumption
  <1>2. \A i \in 1..Len(Stages) : Stages[i] \in Nat
    BY <1>1
  <1>3. \A s : s \in StageSet <=> \E i \in 1..Len(Stages) : s = Stages[i]
    BY <1>1 DEF StageSet, Range
  <1>4. \A i \in 1..Len(Stages) : Stages[i] <= Updates
    <2> TAKE i \in 1..Len(Stages)
    <2>1. i = Len(Stages) \/ i < Len(Stages)
      OBVIOUS
    <2> QED
      BY <1>1, <1>2, <2>1 DEF Updates
  <1>5. Updates \in StageSet
    BY <1>1, <1>3 DEF Updates
  <1> QED
    BY <1>1, <1>2, <1>3, <1>4, <1>5

\* Stages are ordered by their updates.
LEMMA OrderFacts ==
    /\ DOMAIN Order = 1..Len(Order)
    /\ Len(Order) = Len(Stages) + 2
    /\ Order[1] = Cache /\ Order[2] = Carrier
    /\ \A i \in 1..Len(Stages) : Order[i + 2] = Diagnostic(Stages[i])
  <1> DEFINE rest == [i \in 1..Len(Stages) |-> Diagnostic(Stages[i])]
          S == {Cache, Carrier} \cup ({"diagnostic"} \X Nat)
          two == <<Cache, Carrier>>
  <1>1. rest \in Seq(S) /\ Len(rest) = Len(Stages)
    <2>1. \A i \in 1..Len(Stages) : Diagnostic(Stages[i]) \in S
      BY StageFacts DEF Diagnostic
    <2> QED
      BY <2>1, StageFacts
  <1>2. two \in Seq(S) /\ Len(two) = 2 /\ two[1] = Cache /\ two[2] = Carrier
    OBVIOUS
  <1>3. \A i \in 1..Len(Stages) : rest[i] = Diagnostic(Stages[i])
    OBVIOUS
  <1>4. Order = two \o rest
    BY DEF Order
  <1> HIDE DEF rest, S, two
  <1>5. /\ Order \in Seq(S) /\ Len(Order) = Len(two) + Len(rest)
        /\ \A i \in 1..Len(two) + Len(rest) :
             Order[i] = IF i <= Len(two) THEN two[i] ELSE rest[i - Len(two)]
    <2>1. \A s, t \in Seq(S) :
             /\ s \o t \in Seq(S)
             /\ Len(s \o t) = Len(s) + Len(t)
             /\ \A i \in 1..Len(s) + Len(t) :
                  (s \o t)[i] = IF i <= Len(s) THEN s[i] ELSE t[i - Len(s)]
      BY ConcatProperties
    <2> QED
      BY <1>1, <1>2, <1>4, <2>1, Zenon
  <1>6. \A i \in 1..Len(Stages) : Order[i + 2] = Diagnostic(Stages[i])
    <2> TAKE i \in 1..Len(Stages)
    <2>1. i + 2 \in 1..Len(two) + Len(rest) /\ ~(i + 2 <= Len(two)) /\ i + 2 - Len(two) = i
      BY <1>1, <1>2, StageFacts
    <2> QED
      BY <1>3, <1>5, <2>1
  <1> QED
    BY <1>1, <1>2, <1>5, <1>6, StageFacts

\* What a condition names.
LEMMA ConditionFacts ==
    /\ Cache \in Conditions /\ Carrier \in Conditions
    /\ \A s \in StageSet : Diagnostic(s) \in Conditions
    /\ \A c \in Conditions :
         c = Cache \/ c = Carrier \/ \E s \in StageSet : c = Diagnostic(s)
    /\ \A i \in 1..Len(Order) : Order[i] \in Conditions
    /\ \A c \in Conditions : \E i \in 1..Len(Order) : c = Order[i]
  <1>1. \A i \in 1..Len(Order) : i = 1 \/ i = 2 \/ (i - 2) \in 1..Len(Stages)
    BY OrderFacts, StageFacts
  <1>2. \A i \in 1..Len(Stages) : (i + 2) \in 1..Len(Order)
    BY OrderFacts, StageFacts
  <1>3. 1 \in 1..Len(Order) /\ 2 \in 1..Len(Order)
    BY OrderFacts, StageFacts
  <1>4. \A c : c \in Conditions <=> \E i \in 1..Len(Order) : c = Order[i]
    BY OrderFacts DEF Conditions, Range
  <1>5. \A s \in StageSet : Diagnostic(s) \in Conditions
    BY <1>2, <1>4, OrderFacts, StageFacts
  <1>6. \A c \in Conditions :
          c = Cache \/ c = Carrier \/ \E s \in StageSet : c = Diagnostic(s)
    <2> SUFFICES ASSUME NEW i \in 1..Len(Order)
                 PROVE  \/ Order[i] = Cache \/ Order[i] = Carrier
                        \/ \E s \in StageSet : Order[i] = Diagnostic(s)
      BY <1>4
    <2>1. CASE i = 1 \/ i = 2
      BY <2>1, OrderFacts
    <2>2. CASE (i - 2) \in 1..Len(Stages)
      <3>1. i = (i - 2) + 2
        OBVIOUS
      <3>2. Order[i] = Diagnostic(Stages[i - 2])
        BY <2>2, <3>1, OrderFacts
      <3> QED
        BY <2>2, <3>2, StageFacts
    <2> QED
      BY <1>1, <2>1, <2>2
  <1> QED
    BY <1>3, <1>4, <1>5, <1>6, OrderFacts

\* The kinds of conditions differ.
LEMMA KindFacts ==
    /\ Cache # Carrier
    /\ Cache[1] # "diagnostic" /\ Carrier[1] # "diagnostic"
    /\ \A s : /\ Diagnostic(s) # Cache /\ Diagnostic(s) # Carrier
              /\ Diagnostic(s)[1] = "diagnostic" /\ Diagnostic(s)[2] = s
  BY DEF Cache, Carrier, Diagnostic

\* A model is a sequence, and None is not.
LEMMA NoneIsNoModel == \A m \in Models : m # None
  BY ResearchAssumption DEF Models, Launches

\* Prefixes of a concatenation.
LEMMA PrefixFacts ==
    ASSUME NEW S, NEW t \in Seq(S), NEW x \in S
    PROVE  /\ IsPrefix(t, t)
           /\ IsPrefix(t, Append(t, x)) /\ t # Append(t, x)
           /\ \A s \in Seq(S) : IsPrefix(s, t) => IsPrefix(s, Append(t, x))
  <1>1. Len(Append(t, x)) = Len(t) + 1
    OBVIOUS
  <1>2. SubSeq(t, 1, Len(t)) = SubSeq(Append(t, x), 1, Len(t))
    OBVIOUS
  <1>3. \A s \in Seq(S) : Len(s) <= Len(t) =>
           SubSeq(t, 1, Len(s)) = SubSeq(Append(t, x), 1, Len(s))
    OBVIOUS
  <1> QED
    BY <1>1, <1>2, <1>3 DEF IsPrefix
-----------------------------------------------------------------------------
(* Frames.                                                                  *)

\* A step of one rank moves that rank alone.
LEMMA GoMoves ==
    ASSUME ProcType, NEW c \in Conditions, NEW n \in Launches,
           NEW to \in RankPhases, go(c, n, to)
    PROVE  /\ rank' \in [Conditions -> [Launches -> RankPhases]]
           /\ rank'[c][n] = to
           /\ \A d \in Conditions, m \in Launches :
                d # c \/ m # n => rank'[d][m] = rank[d][m]
  <1>1. rank' = [rank EXCEPT ![c] = [rank[c] EXCEPT ![n] = to]]
    BY DEF go
  <1>2. [rank[c] EXCEPT ![n] = to] \in [Launches -> RankPhases]
    BY DEF ProcType
  <1>3. rank'[c] = [rank[c] EXCEPT ![n] = to] /\ \A d \in Conditions \ {c} : rank'[d] = rank[d]
    BY <1>1 DEF ProcType
  <1>4. rank' \in [Conditions -> [Launches -> RankPhases]]
    BY <1>1, <1>2 DEF ProcType
  <1>5. rank'[c][n] = to /\ \A m \in Launches \ {n} : rank'[c][m] = rank[c][m]
    BY <1>3 DEF ProcType
  <1> QED
    BY <1>3, <1>4, <1>5

\* While one rank is in the execution lock, no other one of its condition is.
LEMMA OnlyOne ==
    ASSUME LockHeld, NEW c \in Conditions, NEW n \in Launches, rank[c][n] \in InLock
    PROVE  \A m \in Launches \ {n} : rank[c][m] \notin InLock
  BY DEF LockHeld

\* What keeps the work of all conditions as it is: no file and no model changes,
\* and a rank goes nowhere but to an end, to its start, or to work without result.
LEMMA Quiet ==
    ASSUME Work, UNCHANGED <<mem, fileVars>>,
           rank' \in [Conditions -> [Launches -> RankPhases]],
           exec' \in [Conditions -> 0..MaxLaunches],
           \A c \in Conditions, n \in Launches :
               \/ rank'[c][n] = rank[c][n]
               \/ rank'[c][n] \in {"startup", "err", "ok", "leave"}
               \/ rank'[c][n] = "load" /\ endpoint[c] = None,
           LockHeld'
    PROVE  Work'
  <1> USE DEF Work, fileVars
  <1>1. ProcType' /\ FileType'
    BY DEF ProcType, FileType
  <1>2. AtWork'
    BY DEF AtWork, Working, InLock
  <1>3. ReleasedOnPath'
    BY DEF ReleasedOnPath
  <1>4. CarrierOnPath'
    <2> SUFFICES ASSUME NEW n \in Launches
                 PROVE  CarrierState(rank[Carrier][n], n)'
      BY DEF CarrierOnPath
    <2>1. rank'[Carrier][n] = rank[Carrier][n]
          \/ rank'[Carrier][n] \in {"startup", "err", "ok", "leave", "load"}
      BY ConditionFacts
    <2> QED
      BY <2>1 DEF CarrierOnPath, CarrierState
  <1>5. CacheExported'
    <2>1. \A n \in Launches : rank'[Cache][n] = "endpoint" => rank[Cache][n] = "endpoint"
      BY ConditionFacts
    <2> QED
      BY <2>1 DEF CacheExported
  <1>6. DiagnosticsBranch'
    <2> SUFFICES ASSUME NEW s \in StageSet, NEW n \in Launches
                 PROVE  Branches(s, rank[Diagnostic(s)][n])'
      BY DEF DiagnosticsBranch
    <2>1. rank'[Diagnostic(s)][n] = rank[Diagnostic(s)][n]
          \/ rank'[Diagnostic(s)][n] \in {"startup", "err", "ok", "leave", "load"}
      BY ConditionFacts
    <2> QED
      BY <2>1 DEF DiagnosticsBranch, Branches
  <1> QED
    BY <1>1, <1>2, <1>3, <1>4, <1>5, <1>6

\* Conditions other than the one at work.
Others(c) ==
    /\ \A d \in Conditions \ {c} :
         /\ mem'[d] = mem[d] /\ saved'[d] = saved[d] /\ endpoint'[d] = endpoint[d]
         /\ \A n \in Launches : rank'[d][n] = rank[d][n]

\* A step of one node leaves what others know of the carrier,
LEMMA OthersCarrier ==
    ASSUME Work, NEW c \in Conditions, c # Carrier, Others(c), UNCHANGED <<anchor, released>>
    PROVE  ReleasedOnPath' /\ CarrierOnPath'
  <1>1. /\ mem'[Carrier] = mem[Carrier] /\ saved'[Carrier] = saved[Carrier]
        /\ endpoint'[Carrier] = endpoint[Carrier]
        /\ \A n \in Launches : rank'[Carrier][n] = rank[Carrier][n]
    BY ConditionFacts DEF Others
  <1> QED
    BY <1>1 DEF Work, ReleasedOnPath, CarrierOnPath, CarrierState

\* of the reward caches,
LEMMA OthersCache ==
    ASSUME Work, NEW c \in Conditions, c # Cache, Others(c), UNCHANGED cacheFile
    PROVE  CacheExported'
  <1>1. /\ mem'[Cache] = mem[Cache] /\ endpoint'[Cache] = endpoint[Cache]
        /\ \A n \in Launches : rank'[Cache][n] = rank[Cache][n]
    BY ConditionFacts DEF Others
  <1> QED
    BY <1>1 DEF Work, CacheExported

\* and of the diagnostics.
LEMMA OthersDiagnostic ==
    ASSUME Work, NEW c \in Conditions, Others(c), UNCHANGED released,
           NEW s \in StageSet, c # Diagnostic(s), NEW n \in Launches
    PROVE  Branches(s, rank[Diagnostic(s)][n])'
  <1> DEFINE d == Diagnostic(s)
  <1>1. /\ mem'[d] = mem[d] /\ saved'[d] = saved[d] /\ endpoint'[d] = endpoint[d]
        /\ rank'[d][n] = rank[d][n]
    BY ConditionFacts DEF Others
  <1>2. Branches(s, rank[d][n])
    BY DEF Work, DiagnosticsBranch
  <1> QED
    BY <1>1, <1>2 DEF Branches
-----------------------------------------------------------------------------
(* The steps of a rank.                                                     *)

\* A rank at work moves on, under its lock.
LEMMA MovesOn ==
    ASSUME Work, NEW c \in Conditions, NEW n \in Launches, rank[c][n] \in Working,
           NEW to \in InLock, go(c, n, to), UNCHANGED exec,
           to \in {"anchor", "receipt"} => c = Carrier,
           to = "export" => c = Cache,
           \A d \in Conditions \ {c} : endpoint'[d] = endpoint[d],
           to \in Working => endpoint'[c] = None
    PROVE  /\ rank' \in [Conditions -> [Launches -> RankPhases]]
           /\ rank'[c][n] = to
           /\ \A m \in Launches \ {n} : rank'[c][m] = rank[c][m] /\ rank'[c][m] \notin InLock
           /\ \A d \in Conditions \ {c}, m \in Launches : rank'[d][m] = rank[d][m]
           /\ LockHeld' /\ AtWork'
  <1>1. rank[c][n] \in InLock /\ to \in RankPhases
    BY DEF Working, RankPhases
  <1>2. /\ rank' \in [Conditions -> [Launches -> RankPhases]]
        /\ rank'[c][n] = to
        /\ \A d \in Conditions, m \in Launches : d # c \/ m # n => rank'[d][m] = rank[d][m]
    BY <1>1, GoMoves DEF Work
  <1>3. \A m \in Launches \ {n} : rank'[c][m] = rank[c][m] /\ rank'[c][m] \notin InLock
    BY <1>1, <1>2, OnlyOne DEF Work
  <1>4. LockHeld'
    BY <1>1, <1>2 DEF Work, LockHeld
  <1>5. AtWork'
    <2> SUFFICES ASSUME NEW d \in Conditions, NEW m \in Launches
                 PROVE  /\ rank'[d][m] \in Working => endpoint'[d] = None
                        /\ d # Carrier => rank'[d][m] \notin {"anchor", "receipt"}
                        /\ d # Cache => rank'[d][m] # "export"
      BY DEF AtWork
    <2>1. CASE d = c /\ m = n
      BY <1>2, <2>1
    <2>2. CASE d = c /\ m # n
      BY <1>3, <2>2 DEF Working, InLock
    <2>3. CASE d # c
      BY <1>2, <2>3 DEF Work, AtWork
    <2> QED
      BY <2>1, <2>2, <2>3
  <1> QED
    BY <1>2, <1>3, <1>4, <1>5

\* Of the carrier's ranks only the one in the lock matters.
LEMMA OneCarrier ==
    ASSUME NEW n \in Launches, CarrierState(rank[Carrier][n], n)',
           \A m \in Launches \ {n} : rank'[Carrier][m] \notin InLock
    PROVE  CarrierOnPath'
  <1> SUFFICES ASSUME NEW m \in Launches
               PROVE  CarrierState(rank[Carrier][m], m)'
    BY DEF CarrierOnPath
  <1>1. CASE m = n
    BY <1>1
  <1>2. CASE m # n
    BY <1>2 DEF CarrierState, InLock
  <1> QED
    BY <1>1, <1>2

\* The steps of ranks and launchers, one lemma each, keep the working part.
LEMMA ClaimWork ==
    ASSUME Work, NEW c \in Conditions, NEW n \in Launches, Claim(c, n)
    PROVE  Work'
  <1>1. PICK to \in {"leave", "load", "err"} :
          /\ go(c, n, to)
          /\ to \in {"leave", "load"} => exec[c] = 0 /\ exec' = [exec EXCEPT ![c] = n]
          /\ to = "err" => UNCHANGED exec
          /\ to = "load" => endpoint[c] = None
    BY DEF Claim, complete
  <1>2. /\ rank' \in [Conditions -> [Launches -> RankPhases]]
        /\ rank'[c][n] = to
        /\ \A d \in Conditions, m \in Launches : d # c \/ m # n => rank'[d][m] = rank[d][m]
    BY <1>1, GoMoves DEF Work, RankPhases, InLock
  <1>3. exec' \in [Conditions -> 0..MaxLaunches]
    BY <1>1 DEF Work, ProcType, Launches
  <1>4. LockHeld'
    <2>1. CASE to = "err"
      BY <1>1, <1>2, <2>1 DEF Work, LockHeld, InLock
    <2>2. CASE to \in {"leave", "load"}
      <3>1. \A m \in Launches : rank[c][m] \notin InLock
        BY <1>1, <2>2 DEF Work, LockHeld, Launches
      <3>2. exec'[c] = n /\ \A d \in Conditions \ {c} : exec'[d] = exec[d]
        BY <1>1, <2>2 DEF Work, ProcType
      <3> QED
        BY <1>2, <3>1, <3>2 DEF Work, LockHeld
    <2> QED
      BY <2>1, <2>2
  <1>5. UNCHANGED <<mem, fileVars>>
    BY DEF Claim
  <1>6. \A d \in Conditions, m \in Launches :
           \/ rank'[d][m] = rank[d][m]
           \/ rank'[d][m] \in {"startup", "err", "ok", "leave"}
           \/ rank'[d][m] = "load" /\ endpoint[d] = None
    BY <1>1, <1>2
  <1> QED
    BY <1>2, <1>3, <1>4, <1>5, <1>6, Quiet

LEMMA LeaveWork ==
    ASSUME Work, NEW c \in Conditions, NEW n \in Launches, Leave(c, n)
    PROVE  Work'
  <1>1. /\ rank' \in [Conditions -> [Launches -> RankPhases]]
        /\ rank'[c][n] = "ok"
        /\ \A d \in Conditions, m \in Launches : d # c \/ m # n => rank'[d][m] = rank[d][m]
    BY GoMoves DEF Work, RankPhases, Leave
  <1>2. exec' \in [Conditions -> 0..MaxLaunches]
        /\ \A d \in Conditions \ {c} : exec'[d] = exec[d]
    BY ResearchAssumption DEF Work, ProcType, Leave
  <1>3. \A m \in Launches : rank'[c][m] \notin InLock
    BY <1>1, OnlyOne DEF Work, Leave, InLock
  <1>4. LockHeld'
    BY <1>1, <1>2, <1>3 DEF Work, LockHeld
  <1>5. UNCHANGED <<mem, fileVars>>
    BY DEF Leave
  <1>6. \A d \in Conditions, m \in Launches :
           \/ rank'[d][m] = rank[d][m]
           \/ rank'[d][m] \in {"startup", "err", "ok", "leave"}
           \/ rank'[d][m] = "load" /\ endpoint[d] = None
    BY <1>1
  <1> QED
    BY <1>1, <1>2, <1>4, <1>5, <1>6, Quiet

LEMMA WriteAnchorWork ==
    ASSUME Work, NEW c \in Conditions, NEW n \in Launches, WriteAnchor(c, n)
    PROVE  Work'
  <1> DEFINE s == Len(mem[c])
  <1>1. c = Carrier /\ endpoint[c] = None /\ rank[c][n] \in Working
    BY DEF Work, AtWork, WriteAnchor, Working, InLock
  <1>2. CarrierState("anchor", n)
    BY <1>1 DEF Work, CarrierOnPath, WriteAnchor
  <1>3. s \in StageSet /\ released[s] = None /\ mem[c] = saved[c]
    BY <1>1, <1>2 DEF CarrierState
  <1>4. UNCHANGED <<mem, exec, saved, released, cacheFile, endpoint>>
    BY DEF WriteAnchor
  <1>5. /\ rank' \in [Conditions -> [Launches -> RankPhases]]
        /\ rank'[c][n] = "receipt"
        /\ \A m \in Launches \ {n} : rank'[c][m] = rank[c][m] /\ rank'[c][m] \notin InLock
        /\ \A d \in Conditions \ {c}, m \in Launches : rank'[d][m] = rank[d][m]
        /\ LockHeld' /\ AtWork'
    BY <1>1, <1>4, MovesOn DEF WriteAnchor, InLock
  <1>6. /\ anchor' \in [StageSet -> Models \cup {None}]
        /\ anchor'[s] = mem[c]
        /\ \A r \in StageSet \ {s} : anchor'[r] = anchor[r]
    BY <1>3 DEF Work, FileType, ProcType, WriteAnchor
  <1> HIDE DEF s
  <1>7. ProcType' /\ FileType'
    BY <1>4, <1>5, <1>6 DEF Work, ProcType, FileType
  <1>8. ReleasedOnPath'
    BY <1>3, <1>4, <1>6 DEF Work, ReleasedOnPath
  <1>9. CarrierOnPath'
    <2>1. CarrierState(rank[Carrier][n], n)'
      BY <1>1, <1>2, <1>3, <1>4, <1>5, <1>6 DEF CarrierState, s
    <2> QED
      BY <1>1, <1>5, <2>1, OneCarrier
  <1>10. Others(c)
    BY <1>4, <1>5 DEF Others
  <1>11. CacheExported' /\ DiagnosticsBranch'
    BY <1>1, <1>4, <1>10, OthersCache, OthersDiagnostic, KindFacts DEF DiagnosticsBranch
  <1> QED
    BY <1>5, <1>7, <1>8, <1>9, <1>11 DEF Work

\* A diagnostic that runs, or has done anything, has its anchor.
LEMMA AnchorReleased ==
    ASSUME Prepared, NEW s \in StageSet, NEW n \in Launches,
           rank[Diagnostic(s)][n] # "none"
    PROVE  released[s] # None
  BY ConditionFacts, KindFacts DEF Prepared, dependencies

LEMMA ReleaseAnchorWork ==
    ASSUME Work, Prepared, NEW c \in Conditions, NEW n \in Launches, ReleaseAnchor(c, n)
    PROVE  Work'
  <1> DEFINE s == Len(mem[c])
  <1>1. c = Carrier /\ endpoint[c] = None /\ rank[c][n] \in Working
    BY DEF Work, AtWork, ReleaseAnchor, Working, InLock
  <1>2. CarrierState("receipt", n)
    BY <1>1 DEF Work, CarrierOnPath, ReleaseAnchor
  <1>3. /\ s \in StageSet /\ released[s] = None
        /\ mem[c] = saved[c] /\ anchor[s] = mem[c]
        /\ mem[c] \in Models /\ mem[c] # None
    BY <1>1, <1>2, NoneIsNoModel DEF CarrierState, Work, ProcType
  <1>4. UNCHANGED <<mem, exec, saved, anchor, cacheFile, endpoint>>
    BY DEF ReleaseAnchor
  <1>5. PICK to \in {"endpoint", "next"} :
          /\ go(c, n, to)
          /\ to = "endpoint" <=> s = Updates
    BY DEF ReleaseAnchor
  <1>6. /\ rank' \in [Conditions -> [Launches -> RankPhases]]
        /\ rank'[c][n] = to
        /\ \A m \in Launches \ {n} : rank'[c][m] = rank[c][m] /\ rank'[c][m] \notin InLock
        /\ \A d \in Conditions \ {c}, m \in Launches : rank'[d][m] = rank[d][m]
        /\ LockHeld' /\ AtWork'
    BY <1>1, <1>4, <1>5, MovesOn DEF InLock
  <1>7. /\ released' \in [StageSet -> Models \cup {None}]
        /\ released'[s] = mem[c]
        /\ \A r \in StageSet \ {s} : released'[r] = released[r]
    BY <1>3 DEF Work, FileType, ReleaseAnchor
  <1>8. ProcType' /\ FileType'
    BY <1>4, <1>6, <1>7 DEF Work, ProcType, FileType
  <1>9. IsPrefix(mem[c], saved[c])
    BY <1>3, PrefixFacts DEF Models, IsPrefix
  <1>10. s = Len(saved[Carrier])
    BY <1>1, <1>3
  <1> HIDE DEF s
  <1>11. ReleasedOnPath'
    <2>1. ASSUME NEW r \in StageSet, released'[r] # None
          PROVE  /\ anchor'[r] = released'[r] /\ Len(released'[r]) = r
                 /\ IsPrefix(released'[r], saved'[Carrier])
      <3>1. CASE r = s
        BY <1>1, <1>3, <1>4, <1>7, <1>9, <3>1 DEF s
      <3>2. CASE r # s
        BY <1>4, <1>7, <2>1, <3>2 DEF Work, ReleasedOnPath
      <3> QED
        BY <3>1, <3>2
    <2>2. \A r \in StageSet : released[r] # None => released'[r] # None
      BY <1>3, <1>7
    <2> QED
      BY <1>4, <2>1, <2>2 DEF Work, ReleasedOnPath
  <1>12. CarrierOnPath'
    <2>1. CarrierState(rank[Carrier][n], n)'
      <3>1. \A r \in StageSet : Len(saved'[Carrier]) = r => released'[r] # None
        BY <1>3, <1>4, <1>7, <1>10
      <3> QED
        BY <1>1, <1>3, <1>4, <1>5, <1>6, <3>1 DEF CarrierState, s
    <2> QED
      BY <1>1, <1>6, <2>1, OneCarrier
  <1>13. Others(c)
    BY <1>4, <1>6 DEF Others
  <1>14. CacheExported'
    BY <1>1, <1>4, <1>13, OthersCache, KindFacts
  <1>15. DiagnosticsBranch'
    <2> SUFFICES ASSUME NEW r \in StageSet, NEW m \in Launches
                 PROVE  Branches(r, rank[Diagnostic(r)][m])'
      BY DEF DiagnosticsBranch
    <2>1. /\ Branches(r, rank[Diagnostic(r)][m])
          /\ released[r] = None => rank[Diagnostic(r)][m] = "none"
      BY AnchorReleased DEF Work, DiagnosticsBranch
    <2>2. released[r] # None => released'[r] = released[r]
      BY <1>3, <1>7
    <2>3. LET d == Diagnostic(r) IN
          /\ mem'[d] = mem[d] /\ saved'[d] = saved[d] /\ endpoint'[d] = endpoint[d]
          /\ rank'[d][m] = rank[d][m]
      BY <1>1, <1>4, <1>6, ConditionFacts, KindFacts
    <2> QED
      BY <2>1, <2>2, <2>3 DEF Branches
  <1> QED
    BY <1>6, <1>8, <1>11, <1>12, <1>14, <1>15 DEF Work

LEMMA AdvanceWork ==
    ASSUME Work, Prepared, NEW c \in Conditions, NEW n \in Launches, Advance(c, n)
    PROVE  Work'
  <1>1. endpoint[c] = None /\ rank[c][n] \in Working
    BY DEF Work, AtWork, Advance, Working, InLock
  <1>2. UNCHANGED <<exec, saved, anchor, released, cacheFile, endpoint>>
    BY DEF Advance, fileVars
  <1>3. /\ rank' \in [Conditions -> [Launches -> RankPhases]]
        /\ rank'[c][n] = "save"
        /\ \A m \in Launches \ {n} : rank'[c][m] = rank[c][m] /\ rank'[c][m] \notin InLock
        /\ \A d \in Conditions \ {c}, m \in Launches : rank'[d][m] = rank[d][m]
        /\ LockHeld' /\ AtWork'
    BY <1>1, <1>2, MovesOn DEF Advance, InLock
  <1>4. /\ mem[c] \in Models
        /\ mem' \in [Conditions -> Models]
        /\ mem'[c] = Append(mem[c], n)
        /\ \A d \in Conditions \ {c} : mem'[d] = mem[d]
    BY DEF Work, ProcType, Advance, Models
  <1>5. ProcType' /\ FileType'
    BY <1>2, <1>3, <1>4 DEF Work, ProcType, FileType
  <1>6. Others(c)
    BY <1>2, <1>3, <1>4 DEF Others
  <1>7. ReleasedOnPath'
    BY <1>2 DEF Work, ReleasedOnPath
  <1>8. CarrierOnPath'
    <2>1. CASE c = Carrier
      <3>1. CarrierState("next", n)
        BY <2>1 DEF Work, CarrierOnPath, Advance
      <3>2. CarrierState(rank[Carrier][n], n)'
        BY <1>2, <1>3, <1>4, <2>1, <3>1 DEF CarrierState
      <3> QED
        BY <1>3, <2>1, <3>2, OneCarrier
    <2>2. CASE c # Carrier
      BY <1>2, <1>6, <2>2, OthersCarrier
    <2> QED
      BY <2>1, <2>2
  <1>9. CacheExported'
    <2>1. CASE c = Cache
      BY <1>2, <1>3, <2>1 DEF Work, CacheExported, InLock
    <2>2. CASE c # Cache
      BY <1>2, <1>6, <2>2, OthersCache
    <2> QED
      BY <2>1, <2>2
  <1>10. ASSUME NEW s \in StageSet, NEW m \in Launches
         PROVE  Branches(s, rank[Diagnostic(s)][m])'
    <2>1. CASE c = Diagnostic(s)
      <3>1. Branches(s, rank[c][m]) /\ Branches(s, "next")
        BY <2>1 DEF Work, DiagnosticsBranch, Advance
      <3>2. m # n => rank'[c][m] \notin {"next", "save", "endpoint"}
        BY <1>3 DEF InLock
      <3>3. IsStrictPrefix(released[s], mem'[c])
        BY <1>4, <2>1, <3>1, PrefixFacts DEF Branches, Models, IsStrictPrefix
      <3> QED
        BY <1>2, <1>3, <2>1, <3>1, <3>2, <3>3 DEF Branches
    <2>2. CASE c # Diagnostic(s)
      BY <1>2, <1>6, <2>2, OthersDiagnostic
    <2> QED
      BY <2>1, <2>2
  <1> QED
    BY <1>3, <1>5, <1>7, <1>8, <1>9, <1>10 DEF Work, DiagnosticsBranch

\* What the carrier's turn says of the model it goes on from.
LEMMA TurnFacts ==
    ASSUME NEW m \in Models
    PROVE  /\ carrierTurn(m) \in {"anchor", "endpoint", "next"}
           /\ carrierTurn(m) = "anchor" => Len(m) \in StageSet /\ released[Len(m)] = None
           /\ carrierTurn(m) = "endpoint" => Len(m) = Updates
           /\ carrierTurn(m) # "anchor" =>
                \A s \in StageSet : Len(m) = s => released[s] # None
  BY DEF carrierTurn

LEMMA LoadWork ==
    ASSUME Work, Prepared, NEW c \in Conditions, NEW n \in Launches, Load(c, n)
    PROVE  Work'
  <1> DEFINE start == IF c[1] = "diagnostic" THEN anchor[c[2]] ELSE <<>>
             to == IF c = Carrier THEN carrierTurn(saved[c])
                   ELSE IF saved[c] = <<>> THEN "next"
                   ELSE IF c = Cache THEN "export" ELSE "endpoint"
  <1>1. endpoint[c] = None /\ rank[c][n] \in Working /\ saved[c] \in Models
    BY DEF Work, AtWork, Load, Working, InLock, FileType
  <1>2. UNCHANGED <<exec, saved, anchor, released, cacheFile, endpoint>>
    BY DEF Load, fileVars
  <1>3. /\ to \in {"anchor", "endpoint", "next", "export"}
        /\ to = "anchor" => c = Carrier
        /\ to = "export" => c = Cache
    BY <1>1, TurnFacts, KindFacts
  <1>4. go(c, n, to) /\ mem' = [mem EXCEPT ![c] = IF saved[c] = <<>> THEN start ELSE saved[c]]
    BY DEF Load
  <1>5. /\ rank' \in [Conditions -> [Launches -> RankPhases]]
        /\ rank'[c][n] = to
        /\ \A m \in Launches \ {n} : rank'[c][m] = rank[c][m] /\ rank'[c][m] \notin InLock
        /\ \A d \in Conditions \ {c}, m \in Launches : rank'[d][m] = rank[d][m]
        /\ LockHeld' /\ AtWork'
    <2> HIDE DEF to
    <2> QED
      BY <1>1, <1>2, <1>3, <1>4, MovesOn DEF InLock
  <1>6. \A s \in StageSet : c = Diagnostic(s) =>
           start = released[s] /\ released[s] \in Models
    <2> SUFFICES ASSUME NEW s \in StageSet, c = Diagnostic(s)
                 PROVE  start = released[s] /\ released[s] \in Models
      OBVIOUS
    <2>1. rank[c][n] # "none" /\ anchor[s] = released[s]
      BY KindFacts DEF Load
    <2>2. released[s] # None
      BY <2>1, AnchorReleased
    <2> QED
      BY <2>1, <2>2, KindFacts DEF Work, FileType
  <1>7. start \in Models
    BY <1>6, ConditionFacts, KindFacts DEF Models
  <1>8. /\ mem' \in [Conditions -> Models]
        /\ mem'[c] = IF saved[c] = <<>> THEN start ELSE saved[c]
        /\ \A d \in Conditions \ {c} : mem'[d] = mem[d]
    BY <1>1, <1>4, <1>7 DEF Work, ProcType
  <1>9. ProcType' /\ FileType'
    BY <1>2, <1>5, <1>8 DEF Work, ProcType, FileType
  <1>10. Others(c)
    BY <1>2, <1>5, <1>8 DEF Others
  <1>11. ReleasedOnPath'
    BY <1>2 DEF Work, ReleasedOnPath
  <1>12. CarrierOnPath'
    <2>1. CASE c = Carrier
      <3>1. mem'[c] = saved[c] /\ to = carrierTurn(saved[c])
        BY <1>8, <2>1, KindFacts
      <3>2. CarrierState(rank[Carrier][n], n)'
        BY <1>1, <1>2, <1>5, <2>1, <3>1, TurnFacts DEF CarrierState
      <3> QED
        BY <1>5, <2>1, <3>2, OneCarrier
    <2>2. CASE c # Carrier
      BY <1>2, <1>10, <2>2, OthersCarrier
    <2> QED
      BY <2>1, <2>2
  <1>13. CacheExported'
    <2>1. CASE c = Cache
      <3>1. to # "endpoint"
        BY <2>1, KindFacts
      <3> QED
        BY <1>2, <1>5, <2>1, <3>1 DEF Work, CacheExported, InLock
    <2>2. CASE c # Cache
      BY <1>2, <1>10, <2>2, OthersCache
    <2> QED
      BY <2>1, <2>2
  <1>14. ASSUME NEW s \in StageSet, NEW m \in Launches
         PROVE  Branches(s, rank[Diagnostic(s)][m])'
    <2>1. CASE c = Diagnostic(s)
      <3>1. Branches(s, rank[c][m])
        BY <2>1 DEF Work, DiagnosticsBranch
      <3>2. m # n => rank'[c][m] \notin {"next", "save", "endpoint"}
        BY <1>5 DEF InLock
      <3>3. to = IF saved[c] = <<>> THEN "next" ELSE "endpoint"
        BY <2>1, KindFacts
      <3>4. mem'[c] = IF saved[c] = <<>> THEN released[s] ELSE saved[c]
        BY <1>6, <1>8, <2>1
      <3> HIDE DEF to
      <3> QED
        BY <1>2, <1>5, <2>1, <3>1, <3>2, <3>3, <3>4 DEF Branches
    <2>2. CASE c # Diagnostic(s)
      BY <1>2, <1>10, <2>2, OthersDiagnostic
    <2> QED
      BY <2>1, <2>2
  <1> QED
    BY <1>5, <1>9, <1>11, <1>12, <1>13, <1>14 DEF Work, DiagnosticsBranch

LEMMA SaveWork ==
    ASSUME Work, Prepared, NEW c \in Conditions, NEW n \in Launches, Save(c, n)
    PROVE  Work'
  <1> DEFINE to == IF c = Carrier THEN carrierTurn(mem[c])
                   ELSE IF c = Cache THEN "export" ELSE "endpoint"
  <1>1. endpoint[c] = None /\ rank[c][n] \in Working /\ mem[c] \in Models /\ saved[c] \in Models
    BY DEF Work, AtWork, Save, Working, InLock, FileType, ProcType
  <1>2. UNCHANGED <<mem, exec, anchor, released, cacheFile, endpoint>>
    BY DEF Save
  <1>3. /\ to \in {"anchor", "endpoint", "next", "export"}
        /\ to = "anchor" => c = Carrier
        /\ to = "export" => c = Cache
    BY <1>1, TurnFacts, KindFacts
  <1>4. go(c, n, to)
    BY DEF Save
  <1>5. /\ rank' \in [Conditions -> [Launches -> RankPhases]]
        /\ rank'[c][n] = to
        /\ \A m \in Launches \ {n} : rank'[c][m] = rank[c][m] /\ rank'[c][m] \notin InLock
        /\ \A d \in Conditions \ {c}, m \in Launches : rank'[d][m] = rank[d][m]
        /\ LockHeld' /\ AtWork'
    <2> HIDE DEF to
    <2> QED
      BY <1>1, <1>2, <1>3, <1>4, MovesOn DEF InLock
  <1>6. /\ saved' \in [Conditions -> Models]
        /\ saved'[c] = mem[c]
        /\ \A d \in Conditions \ {c} : saved'[d] = saved[d]
    BY <1>1 DEF Work, FileType, Save
  <1>7. ProcType' /\ FileType'
    BY <1>2, <1>5, <1>6 DEF Work, ProcType, FileType
  <1>8. Others(c)
    BY <1>2, <1>5, <1>6 DEF Others
  <1>9. ReleasedOnPath' /\ CarrierOnPath'
    <2>1. CASE c = Carrier
      <3>1. CarrierState("save", n)
        BY <2>1 DEF Work, CarrierOnPath, Save
      <3>2. /\ mem[c] = Append(saved[c], n) /\ Len(mem[c]) = Len(saved[c]) + 1
            /\ \A s \in StageSet : Len(saved[c]) = s => released[s] # None
        BY <1>1, <2>1, <3>1 DEF CarrierState, Models
      <3>3. \A s \in StageSet : released[s] # None => IsPrefix(released[s], saved'[c])
        <4> SUFFICES ASSUME NEW s \in StageSet, released[s] # None
                     PROVE  IsPrefix(released[s], Append(saved[c], n))
          BY <1>6, <3>2
        <4>1. IsPrefix(released[s], saved[c]) /\ released[s] \in Seq(Launches)
          BY <2>1 DEF Work, ReleasedOnPath, FileType, Models
        <4>2. saved[c] \in Seq(Launches)
          BY <1>1 DEF Models
        <4> QED
          BY <4>1, <4>2, PrefixFacts
      <3>4. \A s \in StageSet : s < Len(saved'[c]) => released[s] # None
        <4> SUFFICES ASSUME NEW s \in StageSet, s < Len(saved[c]) + 1
                     PROVE  released[s] # None
          BY <1>6, <3>2
        <4>1. s \in Nat /\ Len(saved[c]) \in Nat
          BY <1>1, StageFacts DEF Models
        <4>2. s < Len(saved[c]) \/ Len(saved[c]) = s
          BY <4>1
        <4> QED
          BY <2>1, <3>2, <4>2 DEF Work, ReleasedOnPath
      <3>5. ReleasedOnPath'
        BY <1>1, <1>2, <2>1, <3>3, <3>4 DEF Work, ReleasedOnPath
      <3>6. to = carrierTurn(mem[c])
        BY <2>1
      <3>7. CarrierState(rank[Carrier][n], n)'
        BY <1>1, <1>2, <1>5, <1>6, <2>1, <3>6, TurnFacts DEF CarrierState
      <3> QED
        BY <1>5, <2>1, <3>5, <3>7, OneCarrier
    <2>2. CASE c # Carrier
      BY <1>2, <1>8, <2>2, OthersCarrier
    <2> QED
      BY <2>1, <2>2
  <1>10. CacheExported'
    <2>1. CASE c = Cache
      <3>1. to # "endpoint"
        BY <2>1, KindFacts
      <3> QED
        BY <1>2, <1>5, <2>1, <3>1 DEF Work, CacheExported, InLock
    <2>2. CASE c # Cache
      BY <1>2, <1>8, <2>2, OthersCache
    <2> QED
      BY <2>1, <2>2
  <1>11. ASSUME NEW s \in StageSet, NEW m \in Launches
         PROVE  Branches(s, rank[Diagnostic(s)][m])'
    <2>1. CASE c = Diagnostic(s)
      <3>1. Branches(s, rank[c][m]) /\ Branches(s, "save")
        BY <2>1 DEF Work, DiagnosticsBranch, Save
      <3>2. m # n => rank'[c][m] \notin {"next", "save", "endpoint"}
        BY <1>5 DEF InLock
      <3>3. to = "endpoint" /\ released[s] # None
        BY <2>1, KindFacts, AnchorReleased DEF Save
      <3> HIDE DEF to
      <3> QED
        BY <1>2, <1>5, <1>6, <2>1, <3>1, <3>2, <3>3 DEF Branches
    <2>2. CASE c # Diagnostic(s)
      BY <1>2, <1>8, <2>2, OthersDiagnostic
    <2> QED
      BY <2>1, <2>2
  <1> QED
    BY <1>5, <1>7, <1>9, <1>10, <1>11 DEF Work, DiagnosticsBranch

LEMMA ExportWork ==
    ASSUME Work, NEW c \in Conditions, NEW n \in Launches, Export(c, n)
    PROVE  Work'
  <1>1. c = Cache /\ endpoint[c] = None /\ rank[c][n] \in Working
    BY DEF Work, AtWork, Export, Working, InLock
  <1>2. UNCHANGED <<mem, exec, saved, anchor, released, endpoint>> /\ cacheFile' = mem[c]
    BY DEF Export
  <1>3. /\ rank' \in [Conditions -> [Launches -> RankPhases]]
        /\ rank'[c][n] = "endpoint"
        /\ \A m \in Launches \ {n} : rank'[c][m] = rank[c][m] /\ rank'[c][m] \notin InLock
        /\ \A d \in Conditions \ {c}, m \in Launches : rank'[d][m] = rank[d][m]
        /\ LockHeld' /\ AtWork'
    BY <1>1, <1>2, MovesOn DEF Export, InLock
  <1>4. ProcType' /\ FileType'
    BY <1>2, <1>3 DEF Work, ProcType, FileType
  <1>5. Others(c)
    BY <1>2, <1>3 DEF Others
  <1>6. ReleasedOnPath' /\ CarrierOnPath'
    BY <1>1, <1>2, <1>5, OthersCarrier, KindFacts
  <1>7. CacheExported'
    BY <1>1, <1>2 DEF CacheExported
  <1>8. DiagnosticsBranch'
    BY <1>1, <1>2, <1>5, OthersDiagnostic, KindFacts DEF DiagnosticsBranch
  <1> QED
    BY <1>3, <1>4, <1>6, <1>7, <1>8 DEF Work

LEMMA WriteEndpointWork ==
    ASSUME Work, Prepared, NEW c \in Conditions, NEW n \in Launches, WriteEndpoint(c, n)
    PROVE  Work'
  <1>1. rank[c][n] \in Working /\ mem[c] \in Models
    BY DEF Work, ProcType, WriteEndpoint, Working, InLock
  <1>2. UNCHANGED <<mem, exec, saved, anchor, released, cacheFile>>
    BY DEF WriteEndpoint
  <1>3. /\ endpoint' \in [Conditions -> Models \cup {None}]
        /\ endpoint'[c] = mem[c]
        /\ \A d \in Conditions \ {c} : endpoint'[d] = endpoint[d]
    BY <1>1 DEF Work, FileType, WriteEndpoint
  <1>4. /\ rank' \in [Conditions -> [Launches -> RankPhases]]
        /\ rank'[c][n] = "leave"
        /\ \A m \in Launches \ {n} : rank'[c][m] = rank[c][m] /\ rank'[c][m] \notin InLock
        /\ \A d \in Conditions \ {c}, m \in Launches : rank'[d][m] = rank[d][m]
        /\ LockHeld' /\ AtWork'
    BY <1>1, <1>2, <1>3, MovesOn DEF WriteEndpoint, Working, InLock
  <1>5. ProcType' /\ FileType'
    BY <1>2, <1>3, <1>4 DEF Work, ProcType, FileType
  <1>6. Others(c)
    BY <1>2, <1>3, <1>4 DEF Others
  <1>7. ReleasedOnPath' /\ CarrierOnPath'
    <2>1. CASE c = Carrier
      <3>1. CarrierState("endpoint", n)
        BY <2>1 DEF Work, CarrierOnPath, WriteEndpoint
      <3>2. /\ Len(saved[c]) = Updates
            /\ \A s \in StageSet : Len(saved[c]) = s => released[s] # None
        BY <2>1, <3>1 DEF CarrierState
      <3>3. \A s \in StageSet : s < Len(saved[c]) => released[s] # None
        BY <2>1 DEF Work, ReleasedOnPath
      <3>4. \A s \in StageSet : s < Updates \/ Updates = s
        BY StageFacts
      <3>5. \A s \in StageSet : released[s] # None
        BY <3>2, <3>3, <3>4
      <3>6. ReleasedOnPath'
        BY <1>2, <3>5 DEF Work, ReleasedOnPath
      <3>7. CarrierState(rank[Carrier][n], n)'
        BY <1>4, <2>1 DEF CarrierState
      <3> QED
        BY <1>4, <2>1, <3>6, <3>7, OneCarrier
    <2>2. CASE c # Carrier
      BY <1>2, <1>6, <2>2, OthersCarrier
    <2> QED
      BY <2>1, <2>2
  <1>8. CacheExported'
    <2>1. CASE c = Cache
      <3>1. cacheFile = mem[c]
        BY <2>1 DEF Work, CacheExported, WriteEndpoint
      <3>2. \A m \in Launches : rank'[Cache][m] # "endpoint"
        BY <1>4, <2>1 DEF InLock
      <3> QED
        BY <1>2, <1>3, <2>1, <3>1, <3>2 DEF CacheExported
    <2>2. CASE c # Cache
      BY <1>2, <1>6, <2>2, OthersCache
    <2> QED
      BY <2>1, <2>2
  <1>9. ASSUME NEW s \in StageSet, NEW m \in Launches
        PROVE  Branches(s, rank[Diagnostic(s)][m])'
    <2>1. CASE c = Diagnostic(s)
      <3>1. Branches(s, rank[c][m]) /\ Branches(s, "endpoint")
        BY <2>1 DEF Work, DiagnosticsBranch, WriteEndpoint
      <3>2. rank'[c][m] \notin {"next", "save", "endpoint"}
        BY <1>4 DEF InLock
      <3>3. released[s] # None
        BY <2>1, AnchorReleased DEF WriteEndpoint
      <3> QED
        BY <1>2, <1>3, <2>1, <3>1, <3>2, <3>3 DEF Branches
    <2>2. CASE c # Diagnostic(s)
      BY <1>2, <1>6, <2>2, OthersDiagnostic
    <2> QED
      BY <2>1, <2>2
  <1> QED
    BY <1>4, <1>5, <1>7, <1>8, <1>9 DEF Work, DiagnosticsBranch

\* Every step of a rank at work.
LEMMA RankWork ==
    ASSUME Work, Prepared, NEW c \in Conditions, NEW n \in Launches, RankStep(c, n)
    PROVE  Work'
  BY ClaimWork, LoadWork, WriteAnchorWork, ReleaseAnchorWork, AdvanceWork, SaveWork,
     ExportWork, WriteEndpointWork, LeaveWork DEF RankStep

-----------------------------------------------------------------------------
(* The other steps: ranks and launchers start and end, the queue goes on.   *)

\* The rank of one launch ends, or starts anew; who held the lock loses it.
LEMMA EndsOrStarts ==
    ASSUME Work, NEW c \in Conditions, NEW n \in Launches,
           NEW to \in {"startup", "err"}, go(c, n, to),
           \/ UNCHANGED exec
           \/ exec' = [exec EXCEPT ![c] = IF @ = n THEN 0 ELSE @],
           UNCHANGED <<mem, fileVars>>
    PROVE  Work'
  <1>1. /\ rank' \in [Conditions -> [Launches -> RankPhases]]
        /\ rank'[c][n] = to
        /\ \A d \in Conditions, m \in Launches : d # c \/ m # n => rank'[d][m] = rank[d][m]
    BY GoMoves DEF Work, RankPhases
  <1>2. /\ exec' \in [Conditions -> 0..MaxLaunches]
        /\ \A d \in Conditions : exec'[d] = exec[d] \/ (d = c /\ exec[d] = n)
    BY ResearchAssumption DEF Work, ProcType
  <1>3. LockHeld'
    <2> SUFFICES ASSUME NEW d \in Conditions, NEW m \in Launches, rank'[d][m] \in InLock
                 PROVE  exec'[d] = m
      BY DEF LockHeld
    <2>1. d # c \/ m # n
      BY <1>1 DEF InLock
    <2> QED
      BY <1>1, <1>2, <2>1 DEF Work, LockHeld
  <1>4. \A d \in Conditions, m \in Launches :
           \/ rank'[d][m] = rank[d][m]
           \/ rank'[d][m] \in {"startup", "err", "ok", "leave"}
           \/ rank'[d][m] = "load" /\ endpoint[d] = None
    BY <1>1
  <1> QED
    BY <1>1, <1>2, <1>3, <1>4, Quiet

\* Steps that touch no rank and no file.
LEMMA StillWork ==
    ASSUME Work, UNCHANGED <<rank, exec, mem, fileVars>>
    PROVE  Work'
  BY Quiet DEF Work, ProcType, LockHeld

LEMMA KillGroupWork ==
    ASSUME Work, NEW c \in Conditions, NEW n \in Launches, KillGroup(c, n),
           UNCHANGED <<mem, fileVars>>
    PROVE  Work'
  <1>1. CASE UNCHANGED <<rank, exec>>
    BY <1>1, StillWork
  <1>2. CASE ~ UNCHANGED <<rank, exec>>
    BY <1>2, EndsOrStarts DEF KillGroup, go
  <1> QED
    BY <1>1, <1>2

\* Together: the working part is inductive.
LEMMA WorkInductive ==
    ASSUME RInv, [Next]_vars
    PROVE  Work'
  <1> USE DEF RInv
  <1>1. ASSUME NEW w \in Nodes, NodeStep(w) \/ Begin(w)
        PROVE  Work'
    <2>1. CASE Launch(w)
      <3>1. task(w) \in Conditions
        BY <2>1, ConditionFacts DEF Launch, Prepared, AtTask, task, NodeType
      <3>2. PICK n \in Launches : go(task(w), n, "startup") /\ UNCHANGED <<exec, mem, fileVars>>
        BY <2>1 DEF Launch, go
      <3> QED
        BY <3>1, <3>2, EndsOrStarts
    <2>2. CASE ~Launch(w)
      <3>1. UNCHANGED <<rank, exec, mem, fileVars>>
        BY <1>1, <2>2 DEF NodeStep, Begin, Look, PassOver, Receive, EndPass, procVars
      <3> QED
        BY <3>1, StillWork
    <2> QED
      BY <2>1, <2>2
  <1>2. ASSUME NEW w \in Nodes, NodeFault(w) \/ Restart(w)
        PROVE  Work'
    <2>1. CASE Interrupt(w) \/ Stall(w)
      <3>1. /\ KillGroup(task(w), launch[w]) /\ UNCHANGED <<mem, fileVars>>
            /\ pc[w] = "running"
        BY <2>1 DEF Interrupt, Stall
      <3>2. task(w) \in Conditions
        BY <3>1, ConditionFacts DEF Prepared, AtTask, task, NodeType
      <3>3. launch[w] \in Launches
        BY <3>1 DEF Prepared
      <3> QED
        BY <3>1, <3>2, <3>3, KillGroupWork
    <2>2. CASE ~(Interrupt(w) \/ Stall(w))
      <3>1. UNCHANGED <<rank, exec, mem, fileVars>>
        BY <1>2, <2>2 DEF NodeFault, NodeBusy, LaunchRaises, NodeCrash, Restart, procVars
      <3> QED
        BY <3>1, StillWork
    <2> QED
      BY <2>1, <2>2
  <1>3. ASSUME NEW c \in Conditions, NEW n \in Launches, RankStep(c, n)
        PROVE  Work'
    BY <1>3, RankWork
  <1>4. ASSUME NEW c \in Conditions, NEW n \in Launches, Reap(c, n) \/ LauncherCrash(c, n)
        PROVE  Work'
    BY <1>4, StillWork DEF Reap, LauncherCrash
  <1>5. ASSUME NEW c \in Conditions, NEW n \in Launches, RankCrash(c, n)
        PROVE  Work'
    BY <1>5, EndsOrStarts DEF RankCrash
  <1>6. CASE UNCHANGED vars
    BY <1>6, StillWork DEF vars, procVars
  <1> QED
    BY <1>1, <1>2, <1>3, <1>4, <1>5, <1>6 DEF Next

-----------------------------------------------------------------------------
(* The passes of the queue.                                                 *)

\* Results and anchors stay, and attempts are never given back.
Grows ==
    /\ \A c \in Conditions : complete(c) => complete(c)'
    /\ \A s \in StageSet : released[s] # None => released'[s] # None
    /\ \A c \in Conditions : attempts[c] <= attempts'[c]

\* No step takes back what was published.
LEMMA StepGrows ==
    ASSUME RInv, [Next]_vars
    PROVE  Grows
  <1> USE DEF RInv, Grows, complete
  <1>1. \A c \in Conditions : attempts[c] \in Nat
    BY DEF NodeType
  <1>2. ASSUME UNCHANGED <<fileVars, attempts>>
        PROVE  Grows
    BY <1>1, <1>2 DEF fileVars
  <1>3. ASSUME NEW w \in Nodes, NodeStep(w) \/ Begin(w)
        PROVE  Grows
    <2>1. CASE Receive(w)
      <3>1. UNCHANGED fileVars
        BY <2>1 DEF Receive
      <3>2. \A c \in Conditions : attempts'[c] = attempts[c] \/ attempts'[c] = attempts[c] + 1
        BY <2>1 DEF Receive, NodeType
      <3> QED
        BY <1>1, <3>1, <3>2 DEF fileVars
    <2>2. CASE ~Receive(w)
      <3>1. UNCHANGED <<fileVars, attempts>>
        BY <1>3, <2>2 DEF NodeStep, Begin, Look, PassOver, Launch, EndPass
      <3> QED
        BY <1>2, <3>1
    <2> QED
      BY <2>1, <2>2
  <1>4. ASSUME NEW w \in Nodes, NodeFault(w) \/ Restart(w)
        PROVE  Grows
    <2>1. UNCHANGED <<fileVars, attempts>>
      BY <1>4 DEF NodeFault, NodeBusy, LaunchRaises, Interrupt, Stall, NodeCrash, Restart
    <2> QED
      BY <1>2, <2>1
  <1>5. ASSUME NEW c \in Conditions, NEW n \in Launches, RankStep(c, n)
        PROVE  Grows
    <2>1. UNCHANGED attempts
      BY <1>5 DEF RankStep, Claim, Load, WriteAnchor, ReleaseAnchor, Advance, Save,
                  Export, WriteEndpoint, Leave, RankOnly
    <2>2. \A d \in Conditions : attempts[d] <= attempts'[d]
      BY <1>1, <2>1
    <2>3. CASE ReleaseAnchor(c, n)
      <3>1. c = Carrier
        BY <2>3 DEF ReleaseAnchor, Work, AtWork
      <3>2. Len(mem[c]) \in StageSet /\ anchor[Len(mem[c])] = mem[c] /\ mem[c] # None
        BY <2>3, <3>1, NoneIsNoModel
           DEF ReleaseAnchor, Work, CarrierOnPath, CarrierState, ProcType
      <3>3. \A s \in StageSet : released'[s] = released[s] \/ released'[s] = mem[c]
        BY <2>3, <3>2 DEF ReleaseAnchor, Work, FileType
      <3> QED
        BY <2>2, <2>3, <3>2, <3>3 DEF ReleaseAnchor
    <2>4. CASE WriteEndpoint(c, n)
      <3>1. mem[c] # None
        BY NoneIsNoModel DEF Work, ProcType
      <3>2. \A d \in Conditions : endpoint'[d] = endpoint[d] \/ endpoint'[d] = mem[c]
        BY <2>4 DEF WriteEndpoint, Work, FileType
      <3> QED
        BY <2>2, <2>4, <3>1, <3>2 DEF WriteEndpoint
    <2>5. CASE ~ReleaseAnchor(c, n) /\ ~WriteEndpoint(c, n)
      <3>1. UNCHANGED <<released, endpoint>>
        BY <1>5, <2>5 DEF RankStep, Claim, Load, WriteAnchor, Advance, Save, Export, Leave,
                          fileVars
      <3> QED
        BY <2>2, <3>1
    <2> QED
      BY <2>3, <2>4, <2>5
  <1>6. ASSUME NEW c \in Conditions, NEW n \in Launches,
               Reap(c, n) \/ RankCrash(c, n) \/ LauncherCrash(c, n)
        PROVE  Grows
    <2>1. UNCHANGED <<fileVars, attempts>>
      BY <1>6 DEF Reap, RankCrash, LauncherCrash
    <2> QED
      BY <1>2, <2>1
  <1>7. CASE UNCHANGED vars
    BY <1>2, <1>7 DEF vars
  <1> QED
    BY <1>3, <1>4, <1>5, <1>6, <1>7 DEF Next

\* What is concluded of conditions stays true.
LEMMA ConcludedStays ==
    ASSUME NodeType, NodeType', Grows
    PROVE  /\ \A c \in Conditions : complete(c) => complete(c)'
           /\ \A c \in Conditions : Hopeless(c) => Hopeless(c)'
           /\ \A c \in Conditions : dependencies(c) => dependencies(c)'
  <1>1. \A c \in Conditions : spent(c) => spent(c)'
    BY ResearchAssumption DEF NodeType, Grows, spent
  <1>2. \A c \in Conditions : Hopeless(c) => Hopeless(c)'
    BY <1>1, ConditionFacts DEF Grows, Hopeless
  <1>3. \A c \in Conditions : dependencies(c) => dependencies(c)'
    BY ConditionFacts, KindFacts DEF Grows, dependencies
  <1> QED
    BY <1>2, <1>3 DEF Grows

\* A node that does not move keeps its marks.
LEMMA SameNode ==
    ASSUME NodeType, NodeType', Grows, NEW w \in Nodes, Concluded(w),
           pc'[w] = pc[w], at'[w] = at[w], pass'[w] = pass[w]
    PROVE  Concluded(w)'
  BY ConcludedStays, ConditionFacts DEF Concluded

\* A process that ends, or begins again, has concluded nothing.
LEMMA EndedNode ==
    ASSUME NodeType, NEW w \in Nodes, NEW how \in {"busy", "raised", "dead", "look"}, end(w, how)
    PROVE  Concluded(w)'
  <1>1. pc'[w] = how /\ at'[w] = 1 /\ pass'[w] = {}
    BY DEF NodeType, end, Fresh
  <1>2. \A i \in 1..Len(Order) : ~(i < at'[w])
    BY <1>1, OrderFacts, StageFacts
  <1> QED
    BY <1>1, <1>2 DEF Concluded, AtTask

\* What a look at a task notes.
LEMMA NotedNode ==
    ASSUME NodeType, NodeType', Grows, NEW w \in Nodes, Concluded(w),
           at[w] \in 1..Len(Order),
           NEW marks, Note(w, marks),
           "unfinished" \notin pass[w] \cup marks => complete(task(w)),
           "waiting" \notin pass[w] \cup marks => Hopeless(task(w))
    PROVE  Concluded(w)'
  <1>1. pc'[w] = "look" /\ at'[w] = at[w] + 1 /\ pass'[w] = pass[w] \cup marks
    BY DEF NodeType, Note
  <1>2. ASSUME NEW i \in 1..Len(Order), i < at'[w]
        PROVE  i < at[w] \/ Order[i] = task(w)
    <2>1. i < at[w] \/ i = at[w]
      BY <1>1, <1>2, OrderFacts, StageFacts
    <2> QED
      BY <2>1 DEF task
  <1>3. "unfinished" \notin pass'[w] => \A i \in 1..Len(Order) : i < at'[w] => complete(Order[i])'
    BY <1>1, <1>2, ConcludedStays, ConditionFacts DEF Concluded
  <1>4. "waiting" \notin pass'[w] => \A i \in 1..Len(Order) : i < at'[w] => Hopeless(Order[i])'
    BY <1>1, <1>2, ConcludedStays, ConditionFacts DEF Concluded
  <1> QED
    BY <1>1, <1>3, <1>4 DEF Concluded, AtTask

\* The other nodes keep what they know.
Alone(w) ==
    \A v \in Nodes \ {w} : /\ pc'[v] = pc[v] /\ at'[v] = at[v]
                           /\ pass'[v] = pass[v] /\ launch'[v] = launch[v]

\* Where a noted task leaves the pass,
LEMMA NoteMoves ==
    ASSUME NodeType, NEW w \in Nodes, NEW marks \in SUBSET Marks, Note(w, marks),
           at[w] <= Len(Order), attempts' \in [Conditions -> Nat]
    PROVE  NodeType' /\ Alone(w) /\ pc'[w] = "look"
  <1>1. at[w] \in 1..Len(Order) + 1 /\ Len(Order) \in Nat
    BY OrderFacts, StageFacts DEF NodeType
  <1>2. at[w] + 1 \in 1..Len(Order) + 1 /\ pass[w] \cup marks \in SUBSET Marks
    BY <1>1 DEF NodeType
  <1>3. 0 \in 0..MaxLaunches
    BY ResearchAssumption
  <1> QED
    BY <1>2, <1>3 DEF Note, NodeType, Alone

\* and where the end of one does.
LEMMA EndMoves ==
    ASSUME NodeType, NEW w \in Nodes, NEW how \in Ended \cup {"look"}, end(w, how),
           attempts' = attempts
    PROVE  NodeType' /\ Alone(w) /\ pc'[w] = how
  <1>1. 1 \in 1..Len(Order) + 1 /\ 0 \in 0..MaxLaunches
    BY OrderFacts, StageFacts, ResearchAssumption
  <1> QED
    BY <1>1 DEF end, NodeType, Fresh, Alone

\* What a node's step means for its pass, and for the condition it is at.
NodeGood(w) ==
    /\ NodeType' /\ Alone(w) /\ Concluded(w)'
    /\ pc'[w] \in AtTask =>
         /\ at'[w] = at[w] /\ at[w] <= Len(Order)
         /\ dependencies(task(w))
    /\ pc'[w] = "running" => launch'[w] \in Launches

\* A task is noted as what it is,
LEMMA NoteGood ==
    ASSUME RInv, Grows, NEW w \in Nodes, NEW marks \in SUBSET Marks, Note(w, marks),
           at[w] <= Len(Order), attempts' \in [Conditions -> Nat],
           "unfinished" \notin pass[w] \cup marks => complete(task(w)),
           "waiting" \notin pass[w] \cup marks => Hopeless(task(w))
    PROVE  NodeGood(w)
  <1>1. at[w] \in 1..Len(Order)
    BY OrderFacts, StageFacts DEF RInv, NodeType
  <1>2. NodeType' /\ Alone(w) /\ pc'[w] = "look"
    BY NoteMoves DEF RInv
  <1>3. Concluded(w)'
    BY <1>1, <1>2, NotedNode DEF RInv, PassTruthful
  <1> QED
    BY <1>2, <1>3 DEF NodeGood, AtTask

\* and a pass ends as its notes say.
LEMMA EndGood ==
    ASSUME RInv, NEW w \in Nodes, NEW how \in {"busy", "raised", "dead", "look"}, end(w, how),
           attempts' = attempts
    PROVE  NodeGood(w)
  <1>1. NodeType' /\ Alone(w) /\ pc'[w] = how
    BY EndMoves DEF RInv, Ended
  <1> QED
    BY <1>1, EndedNode DEF NodeGood, AtTask, RInv

\* The steps of a node, one lemma each, keep the passes true.
LEMMA LookGood ==
    ASSUME RInv, Grows, NEW w \in Nodes, Look(w)
    PROVE  NodeGood(w)
  <1> DEFINE c == task(w)
  <1>1. /\ at[w] \in 1..Len(Order) /\ at[w] <= Len(Order) /\ c \in Conditions
        /\ attempts' \in [Conditions -> Nat] /\ attempts' = attempts
    BY ConditionFacts, OrderFacts, StageFacts DEF Look, RInv, NodeType, task
  <1>2. Concluded(w)
    BY DEF RInv, PassTruthful
  <1>3. CASE complete(c)
    BY <1>1, <1>3, NoteGood DEF Look, Marks, Hopeless
  <1>4. CASE ~complete(c) /\ ~dependencies(c)
    <2>1. Note(w, {"unfinished"})
      BY <1>4 DEF Look
    <2>2. ASSUME "waiting" \notin pass[w]
          PROVE  Hopeless(c)
      <3>1. c # Cache
        BY <1>4 DEF dependencies, Cache
      <3>2. 1 \in 1..Len(Order) /\ 1 < at[w]
        BY <1>1, <3>1, OrderFacts, StageFacts DEF task
      <3>3. Hopeless(Cache)
        BY <1>2, <2>2, <3>2, OrderFacts DEF Concluded
      <3>4. CASE ~complete(Cache)
        BY <3>3, <3>4, KindFacts DEF Hopeless
      <3>5. CASE complete(Cache)
        <4>1. PICK s \in StageSet : c = Diagnostic(s) /\ released[s] = None
          BY <1>1, <1>4, <3>1, <3>5, ConditionFacts, KindFacts DEF dependencies
        <4>2. c # Carrier
          BY <4>1, KindFacts
        <4>3. 2 \in 1..Len(Order) /\ 2 < at[w]
          <5>1. at[w] # 1 /\ at[w] # 2
            BY <3>1, <4>2, OrderFacts DEF task
          <5>2. Len(Order) \in Nat /\ Len(Order) >= 2
            BY OrderFacts, StageFacts
          <5> QED
            BY <1>1, <5>1, <5>2
        <4>4. Hopeless(Carrier)
          BY <1>2, <2>2, <4>3, OrderFacts DEF Concluded
        <4>5. ~complete(Carrier)
          BY <4>1 DEF RInv, Work, ReleasedOnPath, complete
        <4> QED
          BY <4>1, <4>4, <4>5, KindFacts DEF Hopeless
      <3> QED
        BY <3>4, <3>5
    <2> QED
      BY <1>1, <2>1, <2>2, NoteGood DEF Marks
  <1>5. CASE ~complete(c) /\ dependencies(c) /\ dispatch[c] # {}
    <2>1. Note(w, {"unfinished", "waiting"})
      BY <1>5 DEF Look
    <2> QED
      BY <1>1, <2>1, NoteGood DEF Marks
  <1>6. CASE ~complete(c) /\ dependencies(c) /\ dispatch[c] = {}
    <2>1. /\ pass' = [pass EXCEPT ![w] = @ \cup {"unfinished"}]
          /\ pc' = [pc EXCEPT ![w] = "locked"]
          /\ UNCHANGED <<at, launch>>
      BY <1>6 DEF Look
    <2>2. NodeType' /\ Alone(w)
      BY <1>1, <2>1 DEF RInv, NodeType, Alone, AtTask, Marks
    <2>3. pc'[w] = "locked" /\ at'[w] = at[w] /\ pass'[w] = pass[w] \cup {"unfinished"}
      BY <2>1 DEF RInv, NodeType
    <2>4. Concluded(w)'
      BY <1>2, <2>2, <2>3, ConcludedStays, ConditionFacts DEF Concluded, RInv
    <2> QED
      BY <1>1, <1>6, <2>2, <2>3, <2>4 DEF NodeGood
  <1> QED
    BY <1>3, <1>4, <1>5, <1>6

\* A node at a condition goes on to work on it.
LEMMA StayGood ==
    ASSUME RInv, Grows, NEW w \in Nodes, pc[w] \in AtTask,
           NEW to \in {"launch", "running"}, pc' = [pc EXCEPT ![w] = to],
           UNCHANGED <<at, pass, attempts>>,
           launch' \in [Nodes -> 0..MaxLaunches],
           \A v \in Nodes \ {w} : launch'[v] = launch[v],
           to = "running" => launch'[w] \in Launches
    PROVE  NodeGood(w)
  <1>1. NodeType' /\ Alone(w) /\ pc'[w] = to
    BY DEF RInv, NodeType, Alone, AtTask
  <1>2. Concluded(w)'
    BY <1>1, ConcludedStays, ConditionFacts DEF Concluded, RInv, PassTruthful, AtTask
  <1> QED
    BY <1>1, <1>2 DEF NodeGood, RInv, Prepared

LEMMA BeginGood ==
    ASSUME RInv, Grows, NEW w \in Nodes, Begin(w)
    PROVE  NodeGood(w)
  BY StayGood DEF Begin, AtTask, RInv, NodeType

LEMMA LaunchGood ==
    ASSUME RInv, Grows, NEW w \in Nodes, Launch(w)
    PROVE  NodeGood(w)
  <1>1. PICK n \in Launches : launch' = [launch EXCEPT ![w] = n]
    BY DEF Launch
  <1>2. launch' \in [Nodes -> 0..MaxLaunches] /\ launch'[w] = n
        /\ \A v \in Nodes \ {w} : launch'[v] = launch[v]
    BY <1>1 DEF RInv, NodeType, Launches
  <1> QED
    BY <1>2, StayGood DEF Launch, AtTask

LEMMA StallGood ==
    ASSUME RInv, Grows, NEW w \in Nodes, Stall(w)
    PROVE  NodeGood(w)
  <1>1. UNCHANGED <<pc, at, pass, launch, attempts>> /\ pc[w] = "running"
    BY DEF Stall, nodeVars
  <1>2. pc' = [pc EXCEPT ![w] = "running"]
    BY <1>1 DEF RInv, NodeType
  <1> QED
    BY <1>1, <1>2, StayGood DEF AtTask, RInv, NodeType, Prepared

LEMMA PassOverGood ==
    ASSUME RInv, Grows, NEW w \in Nodes, PassOver(w)
    PROVE  NodeGood(w)
  <1> DEFINE c == task(w)
             marks == IF exec[c] # 0 THEN {"waiting"}
                      ELSE IF complete(c) THEN {}
                      ELSE IF attempts[c] >= MaxAttempts THEN {"failed"} ELSE {"waiting"}
  <1>1. at[w] <= Len(Order) /\ "unfinished" \in pass[w]
    BY DEF PassOver, RInv, Prepared, PassTruthful, Concluded, AtTask
  <1>2. attempts' \in [Conditions -> Nat]
    BY DEF PassOver, RInv, NodeType
  <1>3. Note(w, marks) /\ marks \in SUBSET Marks
    BY DEF PassOver, Marks
  <1>4. "waiting" \notin pass[w] \cup marks => Hopeless(task(w))
    BY DEF Hopeless, spent
  <1>5. "unfinished" \notin pass[w] \cup marks => complete(task(w))
    BY <1>1
  <1> HIDE DEF marks
  <1> QED
    BY <1>1, <1>2, <1>3, <1>4, <1>5, NoteGood

LEMMA ReceiveGood ==
    ASSUME RInv, Grows, NEW w \in Nodes, Receive(w)
    PROVE  NodeGood(w)
  <1>1. at[w] <= Len(Order) /\ "unfinished" \in pass[w]
    BY DEF Receive, RInv, Prepared, PassTruthful, Concluded, AtTask
  <1>2. attempts' \in [Conditions -> Nat]
    <2>1. attempts \in [Conditions -> Nat]
      BY DEF RInv, NodeType
    <2>2. CASE torch[task(w)][launch[w]] = "ok"
      <3>1. attempts' = [attempts EXCEPT ![task(w)] = @]
        BY <2>2 DEF Receive
      <3> QED
        BY <2>1, <3>1
    <2>3. CASE torch[task(w)][launch[w]] # "ok"
      <3>1. attempts' = [attempts EXCEPT ![task(w)] = @ + 1]
        BY <2>3 DEF Receive
      <3>2. task(w) \in Conditions
        BY <1>1, ConditionFacts, OrderFacts, StageFacts DEF RInv, NodeType, task
      <3> QED
        BY <2>1, <3>1, <3>2
    <2> QED
      BY <2>2, <2>3
  <1>3. Note(w, {"waiting"}) /\ {"waiting"} \in SUBSET Marks
    BY DEF Receive, Marks
  <1> QED
    BY <1>1, <1>2, <1>3, NoteGood

LEMMA EndPassGood ==
    ASSUME RInv, Grows, NEW w \in Nodes, EndPass(w)
    PROVE  NodeGood(w)
  <1> DEFINE how == IF "unfinished" \notin pass[w] THEN "done"
                    ELSE IF "failed" \in pass[w] /\ "waiting" \notin pass[w]
                    THEN "gave-up" ELSE "look"
  <1>1. /\ pc'[w] = how /\ at'[w] = 1 /\ pass'[w] = {}
        /\ NodeType' /\ Alone(w)
    <2>1. 1 \in 1..Len(Order) + 1
      BY OrderFacts, StageFacts
    <2> QED
      BY <2>1 DEF EndPass, RInv, NodeType, Fresh, Alone, Ended
  <1>2. \A i \in 1..Len(Order) : i < at[w] /\ ~(i < at'[w])
    BY <1>1, OrderFacts, StageFacts DEF EndPass, RInv, NodeType
  <1>3. Concluded(w)
    BY DEF RInv, PassTruthful
  <1>4. pc'[w] = "done" => \A c \in Conditions : complete(c)'
    BY <1>1, <1>2, <1>3, ConcludedStays, ConditionFacts DEF Concluded, RInv
  <1>5. pc'[w] = "gave-up" => \A c \in Conditions : Hopeless(c)'
    BY <1>1, <1>2, <1>3, ConcludedStays, ConditionFacts DEF Concluded, RInv
  <1>6. Concluded(w)'
    BY <1>1, <1>2, <1>4, <1>5 DEF Concluded, AtTask
  <1> QED
    BY <1>1, <1>6 DEF NodeGood, AtTask

\* Together, for the node that moves,
LEMMA NodeGoodSteps ==
    ASSUME RInv, Grows, NEW w \in Nodes,
           NodeStep(w) \/ Begin(w) \/ NodeFault(w) \/ Restart(w)
    PROVE  NodeGood(w)
  <1>1. CASE NodeBusy(w) \/ LaunchRaises(w) \/ Interrupt(w) \/ NodeCrash(w) \/ Restart(w)
    <2>1. PICK how \in {"busy", "raised", "dead", "look"} : end(w, how)
      BY <1>1 DEF NodeBusy, LaunchRaises, Interrupt, NodeCrash, Restart
    <2>2. attempts' = attempts
      BY <1>1 DEF NodeBusy, LaunchRaises, Interrupt, NodeCrash, Restart
    <2> QED
      BY <2>1, <2>2, EndGood
  <1> QED
    BY <1>1, LookGood, BeginGood, PassOverGood, LaunchGood, ReceiveGood, EndPassGood, StallGood
       DEF NodeStep, NodeFault

\* A rank that runs was launched by a node that had seen the dependencies.
LEMMA LaunchedPrepared ==
    ASSUME RInv, [Next]_vars, NEW c \in Conditions, NEW n \in Launches, rank'[c][n] # "none"
    PROVE  rank[c][n] # "none" \/ dependencies(c)
  <1> USE DEF RInv
  <1>1. ASSUME NEW d \in Conditions, NEW m \in Launches, NEW to \in RankPhases,
               go(d, m, to), rank[d][m] # "none"
        PROVE  rank[c][n] # "none"
    BY <1>1, GoMoves DEF Work
  <1>2. ASSUME NEW d \in Conditions, NEW m \in Launches, KillGroup(d, m)
        PROVE  rank[c][n] # "none"
    <2>1. CASE rank' = rank
      BY <2>1
    <2>2. CASE rank' # rank
      <3>1. go(d, m, "err") /\ rank[d][m] # "none"
        BY <1>2, <2>2 DEF KillGroup, go, InLock
      <3> QED
        BY <1>1, <3>1 DEF RankPhases
    <2> QED
      BY <2>1, <2>2
  <1>3. ASSUME NEW w \in Nodes, NodeStep(w) \/ Begin(w) \/ NodeFault(w) \/ Restart(w)
        PROVE  rank[c][n] # "none" \/ dependencies(c)
    <2>1. CASE Launch(w)
      <3>1. task(w) \in Conditions /\ dependencies(task(w))
        BY <2>1, ConditionFacts DEF Launch, Prepared, AtTask, task, NodeType
      <3>2. PICK m \in Launches : go(task(w), m, "startup")
        BY <2>1 DEF Launch, go
      <3> QED
        BY <3>1, <3>2, GoMoves DEF Work, RankPhases
    <2>2. CASE Interrupt(w) \/ Stall(w)
      <3>1. task(w) \in Conditions /\ launch[w] \in Launches
        BY <2>2, ConditionFacts DEF Interrupt, Stall, Prepared, AtTask, task, NodeType
      <3> QED
        BY <1>2, <2>2, <3>1 DEF Interrupt, Stall
    <2>3. CASE ~Launch(w) /\ ~Interrupt(w) /\ ~Stall(w)
      <3>1. rank' = rank
        BY <1>3, <2>3 DEF NodeStep, NodeFault, Begin, Restart, Look, PassOver, Receive, EndPass,
                          NodeBusy, LaunchRaises, NodeCrash, procVars
      <3> QED
        BY <3>1
    <2> QED
      BY <2>1, <2>2, <2>3
  <1>4. ASSUME NEW d \in Conditions, NEW m \in Launches, RankStep(d, m)
        PROVE  rank[c][n] # "none"
    <2>1. rank[d][m] # "none" /\ carrierTurn(saved[d]) \in RankPhases
          /\ carrierTurn(mem[d]) \in RankPhases
      BY <1>4 DEF RankStep, Claim, Load, WriteAnchor, ReleaseAnchor, Advance, Save, Export,
                  WriteEndpoint, Leave, carrierTurn, RankPhases, InLock
    <2>2. PICK to \in RankPhases : go(d, m, to)
      BY <1>4, <2>1 DEF RankStep, Claim, Load, WriteAnchor, ReleaseAnchor, Advance, Save, Export,
                        WriteEndpoint, Leave, RankPhases, InLock
    <2> QED
      BY <1>1, <2>1, <2>2
  <1>5. ASSUME NEW d \in Conditions, NEW m \in Launches,
               Reap(d, m) \/ RankCrash(d, m) \/ LauncherCrash(d, m)
        PROVE  rank[c][n] # "none"
    <2>1. CASE RankCrash(d, m)
      BY <1>1, <2>1 DEF RankCrash, InLock, RankPhases
    <2>2. CASE ~RankCrash(d, m)
      BY <1>5, <2>2 DEF Reap, LauncherCrash
    <2> QED
      BY <2>1, <2>2
  <1>6. CASE UNCHANGED vars
    BY <1>6 DEF vars, procVars
  <1> QED
    BY <1>3, <1>4, <1>5, <1>6 DEF Next

\* and for all nodes.
LEMMA PassesInductive ==
    ASSUME RInv, [Next]_vars
    PROVE  NodeType' /\ Prepared' /\ PassTruthful'
  <1> USE DEF RInv
  <1>1. Grows
    BY StepGrows
  <1>2. ASSUME NodeType',
               \A w \in Nodes :
                 /\ Concluded(w)'
                 /\ pc'[w] \in AtTask =>
                      at'[w] = at[w] /\ at[w] <= Len(Order) /\ dependencies(task(w))
                 /\ pc'[w] = "running" => launch'[w] \in Launches
        PROVE  NodeType' /\ Prepared' /\ PassTruthful'
    <2>1. ASSUME NEW w \in Nodes, pc'[w] \in AtTask
          PROVE  at'[w] <= Len(Order) /\ dependencies(task(w))'
      <3>1. at'[w] = at[w] /\ at[w] \in 1..Len(Order) /\ dependencies(task(w))
        BY <1>2, <2>1, OrderFacts, StageFacts DEF NodeType
      <3> QED
        BY <1>1, <1>2, <3>1, ConcludedStays, ConditionFacts DEF task
    <2>2. \A c \in Conditions, n \in Launches : rank'[c][n] # "none" => dependencies(c)'
      BY <1>1, <1>2, LaunchedPrepared, ConcludedStays DEF Prepared
    <2> QED
      BY <1>2, <2>1, <2>2 DEF Prepared, PassTruthful
  <1>3. ASSUME NEW w \in Nodes, NodeStep(w) \/ Begin(w) \/ NodeFault(w) \/ Restart(w)
        PROVE  NodeType' /\ Prepared' /\ PassTruthful'
    <2>1. NodeGood(w)
      BY <1>1, <1>3, NodeGoodSteps
    <2>2. \A v \in Nodes \ {w} :
            /\ Concluded(v)'
            /\ at'[v] = at[v] /\ pc'[v] = pc[v] /\ launch'[v] = launch[v]
      BY <1>1, <2>1, SameNode DEF NodeGood, Alone, PassTruthful
    <2>3. \A v \in Nodes \ {w} :
            /\ pc'[v] \in AtTask =>
                 at'[v] = at[v] /\ at[v] <= Len(Order) /\ dependencies(task(v))
            /\ pc'[v] = "running" => launch'[v] \in Launches
      BY <2>2 DEF Prepared
    <2> QED
      BY <1>2, <2>1, <2>2, <2>3 DEF NodeGood
  <1>4. ASSUME UNCHANGED <<nodeVars, attempts>>
        PROVE  NodeType' /\ Prepared' /\ PassTruthful'
    <2>1. NodeType'
      BY <1>4 DEF NodeType, nodeVars
    <2>2. \A w \in Nodes : Concluded(w)'
      BY <1>1, <1>4, <2>1, SameNode DEF PassTruthful, nodeVars
    <2> QED
      BY <1>2, <1>4, <2>1, <2>2 DEF Prepared, nodeVars
  <1>5. ASSUME NEW c \in Conditions, NEW n \in Launches,
               RankStep(c, n) \/ Reap(c, n) \/ RankCrash(c, n) \/ LauncherCrash(c, n)
        PROVE  UNCHANGED <<nodeVars, attempts>>
    BY <1>5 DEF RankStep, Claim, Load, WriteAnchor, ReleaseAnchor, Advance, Save, Export,
                WriteEndpoint, Leave, Reap, RankCrash, LauncherCrash, RankOnly
  <1>6. CASE UNCHANGED vars
    BY <1>4, <1>6 DEF vars
  <1> QED
    BY <1>3, <1>4, <1>5, <1>6 DEF Next

\* The invariant holds at the start.
LEMMA InitRInv == Init => RInv
  <1> SUFFICES ASSUME Init
               PROVE  RInv
    OBVIOUS
  <1>1. /\ <<>> \in Models /\ Len(<<>>) = 0
        /\ 1 \in 1..Len(Order) + 1 /\ 0 \in 0..MaxLaunches
        /\ \A i \in 1..Len(Order) : ~(i < 1)
        /\ \A s \in StageSet : ~(s < 0)
    BY OrderFacts, StageFacts, ResearchAssumption DEF Models
  <1>2. ProcType /\ FileType /\ NodeType
    BY <1>1 DEF Init, ProcType, FileType, NodeType, RankPhases, Fresh
  <1>3. LockHeld /\ Prepared /\ AtWork
    BY DEF Init, LockHeld, Prepared, AtWork, AtTask, InLock, Working
  <1>4. ReleasedOnPath
    BY <1>1, ConditionFacts DEF Init, ReleasedOnPath
  <1>5. \A c \in Conditions, n \in Launches :
          rank[c][n] = "none" /\ saved[c] = <<>> /\ endpoint[c] = None
    BY DEF Init
  <1>6. CarrierOnPath
    BY <1>5, ConditionFacts DEF CarrierOnPath, CarrierState
  <1>7. CacheExported
    BY <1>5, ConditionFacts DEF Init, CacheExported
  <1>8. DiagnosticsBranch
    BY <1>5, ConditionFacts DEF DiagnosticsBranch, Branches
  <1>9. PassTruthful
    BY <1>1 DEF Init, PassTruthful, Concluded, AtTask, Fresh
  <1> QED
    BY <1>2, <1>3, <1>4, <1>6, <1>7, <1>8, <1>9 DEF RInv, Work

\* The invariant the safety properties follow from.
THEOREM Invariance == Spec => []RInv
  <1>1. RInv /\ [Next]_vars => RInv'
    BY WorkInductive, PassesInductive DEF RInv
  <1> QED
    BY InitRInv, <1>1, PTL DEF Spec

-----------------------------------------------------------------------------
(* The properties.                                                          *)

\* One rank 0 executes a condition, for any number of launches and orphans.
THEOREM ExecutionExclusive == Spec => []OneExecution
  <1>1. RInv => OneExecution
    BY DEF RInv, Work, LockHeld, OneExecution
  <1> QED
    BY <1>1, Invariance, PTL

\* Anchors lie on the carrier's saved path, whatever is killed and redone.
THEOREM AnchorsLieOnPath == Spec => []AnchorsOnPath
  <1>1. RInv => AnchorsOnPath
    BY DEF RInv, Work, ReleasedOnPath, AnchorsOnPath
  <1> QED
    BY <1>1, Invariance, PTL

\* Results are made from the released anchor and the exported cache.
THEOREM ResultsAreConsistent == Spec => []ResultsConsistent
  <1>1. 1 \in Launches
    BY ResearchAssumption DEF Launches
  <1>2. RInv => ResultsConsistent
    BY <1>1 DEF RInv, Work, CacheExported, DiagnosticsBranch, Branches, ResultsConsistent
  <1> QED
    BY <1>2, Invariance, PTL

\* A node that ends with 0, or gives up, has told the truth.
THEOREM NodesEndTruthfully == Spec => []EndsTruthfully
  <1>1. RInv => EndsTruthfully
    BY DEF RInv, PassTruthful, Concluded, EndsTruthfully, Hopeless
  <1> QED
    BY <1>1, Invariance, PTL

-----------------------------------------------------------------------------
(* The order of the study.                                                  *)

Published ==
    {c \in Conditions : complete(c)} \cup {Item(s) : s \in {r \in StageSet : released[r] # None}}

\* The abstract tasks,
LEMMA ItemFacts ==
    /\ \A s : Item(s) # Cache /\ Item(s) # Carrier /\ Item(s)[1] # "diagnostic"
    /\ \A s : Item(s)[2] = s
    /\ \A s \in StageSet : Item(s) \in items /\ Item(s) \notin Conditions
    /\ Conditions \subseteq items
  <1>1. \A s : Item(s) # Cache /\ Item(s) # Carrier /\ Item(s)[1] # "diagnostic" /\ Item(s)[2] = s
    BY DEF Item, Cache, Carrier
  <1>2. \A s \in StageSet : Item(s) \notin Conditions
    BY <1>1, ConditionFacts, KindFacts
  <1> QED
    BY <1>1, <1>2 DEF items

\* what each needs,
LEMMA NeedsFacts ==
    /\ needs(Cache) = None
    /\ needs(Carrier) = Item(Updates)
    /\ \A s \in StageSet : needs(Diagnostic(s)) = Item(s)
    /\ \A s \in StageSet :
         \/ needs(Item(s)) = Cache
         \/ \E r \in StageSet : r < s /\ needs(Item(s)) = Item(r)
  <1>1. \A s \in StageSet : needs(Diagnostic(s)) = Item(s)
    BY KindFacts DEF needs
  <1>2. ASSUME NEW s \in StageSet
        PROVE  \/ needs(Item(s)) = Cache
               \/ \E r \in StageSet : r < s /\ needs(Item(s)) = Item(r)
    <2> DEFINE p == position(s)
    <2>1. p \in 1..Len(Stages) /\ Stages[p] = s
      BY StageFacts DEF position
    <2>2. needs(Item(s)) = IF p = 1 THEN Cache ELSE Item(Stages[p - 1])
      BY ItemFacts DEF needs
    <2> HIDE DEF p
    <2>3. CASE p # 1
      <3>1. p - 1 \in 1..Len(Stages) /\ p - 1 < p
        BY <2>1, <2>3, StageFacts
      <3>2. Stages[p - 1] < s
        BY <2>1, <3>1, ResearchAssumption
      <3> QED
        BY <2>2, <2>3, <3>1, <3>2, StageFacts
    <2> QED
      BY <2>2, <2>3
  <1> QED
    BY <1>1, <1>2, KindFacts DEF needs

\* A release, or an endpoint, comes after what the study's order puts before it.
LEMMA ReleaseInOrder ==
    ASSUME RInv, NEW c \in Conditions, NEW n \in Launches, ReleaseAnchor(c, n)
    PROVE  \E x \in items : /\ x \notin Published
                            /\ needs(x) # None => needs(x) \in Published
                            /\ Published' = Published \cup {x}
  <1> USE DEF RInv
  <1> DEFINE s == Len(mem[c])
  <1>1. c = Carrier
    BY DEF ReleaseAnchor, Work, AtWork
  <1>2. /\ s \in StageSet /\ released[s] = None /\ s = Len(saved[Carrier])
        /\ anchor[s] = mem[c] /\ mem[c] # None
    BY <1>1, NoneIsNoModel DEF ReleaseAnchor, Work, CarrierOnPath, CarrierState, ProcType
  <1>3. released'[s] # None /\ \A r \in StageSet \ {s} : released'[r] = released[r]
    BY <1>2 DEF ReleaseAnchor, Work, FileType
  <1>4. \A d \in Conditions : complete(d)' <=> complete(d)
    BY DEF ReleaseAnchor, complete
  <1> HIDE DEF s
  <1>5. Published' = Published \cup {Item(s)}
    BY <1>2, <1>3, <1>4 DEF Published
  <1>6. Item(s) \notin Published
    BY <1>2, ItemFacts DEF Published
  <1>7. Cache \in Published
    BY <1>1, ConditionFacts, KindFacts DEF Prepared, ReleaseAnchor, dependencies, Published
  <1>8. \A r \in StageSet : r < s => Item(r) \in Published
    BY <1>2 DEF Work, ReleasedOnPath, Published
  <1> QED
    BY <1>2, <1>5, <1>6, <1>7, <1>8, ItemFacts, NeedsFacts

\* and that an endpoint is written after what it needs.
LEMMA EndpointInOrder ==
    ASSUME RInv, NEW c \in Conditions, NEW n \in Launches, WriteEndpoint(c, n)
    PROVE  \E x \in items : /\ x \notin Published
                            /\ needs(x) # None => needs(x) \in Published
                            /\ Published' = Published \cup {x}
  <1> USE DEF RInv
  <1>1. ~complete(c) /\ mem[c] # None
    BY NoneIsNoModel DEF WriteEndpoint, Work, AtWork, Working, InLock, ProcType, complete
  <1>2. complete(c)' /\ \A d \in Conditions \ {c} : complete(d)' <=> complete(d)
    BY <1>1 DEF WriteEndpoint, Work, FileType, complete
  <1>3. released' = released
    BY DEF WriteEndpoint
  <1>4. Published' = Published \cup {c}
    BY <1>2, <1>3 DEF Published
  <1>5. c \notin Published
    BY <1>1, ItemFacts DEF Published
  <1>6. CASE c = Carrier
    <2>1. released[Updates] # None
      BY <1>6, StageFacts DEF WriteEndpoint, Work, CarrierOnPath, CarrierState
    <2>2. Item(Updates) \in Published
      BY <2>1, StageFacts DEF Published
    <2> QED
      BY <1>4, <1>5, <1>6, <2>2, ItemFacts, NeedsFacts
  <1>7. ASSUME NEW s \in StageSet, c = Diagnostic(s)
        PROVE  needs(c) \in Published
    <2>1. released[s] # None
      BY <1>7, AnchorReleased DEF WriteEndpoint
    <2> QED
      BY <1>7, <2>1, NeedsFacts DEF Published
  <1>8. CASE c # Carrier
    <2>1. needs(c) # None => needs(c) \in Published
      BY <1>7, <1>8, ConditionFacts, NeedsFacts
    <2> QED
      BY <1>4, <1>5, <2>1, ItemFacts
  <1> QED
    BY <1>6, <1>8

\* The queue implements the abstract DAG: everything is published once, after what
\* it needs, while diagnostics and carrier run side by side.
THEOREM Refinement == Spec => ImplementsDag
  <1>1. Init => Dag!Init
    BY DEF Init, Dag!Init, complete
  <1>2. RInv /\ [Next]_vars => [Dag!Next]_Published
    <2> SUFFICES ASSUME RInv, [Next]_vars
                 PROVE  [Dag!Next]_Published
      OBVIOUS
    <2>1. ASSUME NEW x \in items, x \notin Published,
                 needs(x) # None => needs(x) \in Published,
                 Published' = Published \cup {x}
          PROVE  Dag!Next
      BY <2>1 DEF Dag!Next, Dag!Publish, Published
    <2>2. CASE \E c \in Conditions, n \in Launches : ReleaseAnchor(c, n) \/ WriteEndpoint(c, n)
      BY <2>1, <2>2, ReleaseInOrder, EndpointInOrder
    <2>3. CASE ~ \E c \in Conditions, n \in Launches : ReleaseAnchor(c, n) \/ WriteEndpoint(c, n)
      <3>1. UNCHANGED <<released, endpoint>>
        BY <2>3, SMTT(30) DEF Next, vars, fileVars, NodeStep, NodeFault, Begin, Restart, Look, PassOver,
                    Launch, Receive, EndPass, NodeBusy, LaunchRaises, Interrupt, Stall, NodeCrash,
                    RankStep, Claim, Load, WriteAnchor, Advance, Save, Export, Leave,
                    Reap, RankCrash, LauncherCrash
      <3> QED
        BY <3>1 DEF Published, complete
    <2> QED
      BY <2>2, <2>3
  <1>3. [Dag!Next]_Published => [Dag!Next]_({c \in Conditions : complete(c)}
                    \cup {Item(s) : s \in {r \in StageSet : released[r] # None}})
    BY DEF Published
  <1> QED
    BY <1>1, <1>2, <1>3, Invariance, PTL DEF Spec, ImplementsDag, Dag!Spec
=============================================================================
