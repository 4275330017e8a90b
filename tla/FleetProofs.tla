------------------------------ MODULE FleetProofs ------------------------------
(***************************************************************************)
(* What a worker concludes of a whole queue, from receipts, leases and     *)
(* results it has read one after the other while others worked on it, is   *)
(* right, for any workers, plans, tasks and faults.                        *)
(***************************************************************************)
EXTENDS Fleet, Integers, TLAPS

Statuses == {"ready", "running", "complete", "interrupted", "failed"}
Receipts == [status : Statuses, retry : Int]
Claiming == {"verify", "look", "unlook", "take", "held", "run", "exited", "leave", "quit"}
Probing  == {"probe", "unprobe", "parent", "unparent"}
Reading  == {"read"} \cup Probing
Phases   == {"queue", "status"} \cup Claiming \cup Reading \cup Ended

Types ==
    /\ receipt \in [Tasks -> Receipts]
    /\ record \in [Workers -> Receipts]
    /\ pc \in [Workers -> Phases]
    /\ wq \in [Workers -> 1..NumQueues + 1]
    /\ row \in [Workers -> 1..NumTasks]
    /\ DOMAIN rows = Workers
    /\ DOMAIN seen = Workers
    /\ verdict \in [Workers -> [Queues -> {"none", "stopped", "complete", "blocked", "idle"}]]

\* The rows of this queue that are behind are published, if all read "complete".
Behind(w) == \A i \in 1..NumTasks : i < row[w] => <<wq[w], i>> \in done

\* What a worker knows is true when it is used.
Knows(w) ==
    /\ pc[w] \notin {"queue"} \cup Ended => wq[w] \in Queues
    /\ pc[w] \in {"queue", "verify", "status"} => row[w] = 1
    /\ pc[w] = "exited" => task(w) \in done
    /\ pc[w] \in Reading /\ rows[w] \subseteq {"complete"} => Behind(w)
    /\ pc[w] \in Probing /\ record[w].status = "complete" => task(w) \in done
    /\ \A q \in Queues : verdict[w][q] = "complete" => published(q)

\* A receipt says "complete" of published tasks only.
ReceiptsTrue == \A t \in Tasks : receipt[t].status = "complete" => t \in done

FInv == Types /\ ReceiptsTrue /\ \A w \in Workers : Knows(w)

-----------------------------------------------------------------------------
\* The invariant holds at the start.
LEMMA InitFInv == Init => FInv
  <1> SUFFICES ASSUME Init
               PROVE  FInv
    OBVIOUS
  <1>1. 1 \in 1..NumQueues + 1 /\ 1 \in 1..NumTasks /\ \A i \in 1..NumTasks : ~(i < 1)
    BY FleetAssumption
  <1>2. NoReceipt \in Receipts /\ NoReceipt.status # "complete"
    BY DEF NoReceipt, Receipts, Statuses
  <1>3. Types
    BY <1>1, <1>2 DEF Init, Types, Phases, Unknown
  <1>4. ReceiptsTrue
    BY <1>2 DEF Init, ReceiptsTrue
  <1>5. ASSUME NEW w \in Workers
        PROVE  Knows(w)
    BY <1>5, <1>1, FleetAssumption DEF Init, Knows, Unknown, Claiming, Reading, Probing
  <1> QED
    BY <1>3, <1>4, <1>5 DEF FInv

\* The results only grow, and the others keep what they know.
Alone(w) ==
    \A v \in Workers \ {w} :
        /\ pc'[v] = pc[v] /\ wq'[v] = wq[v] /\ row'[v] = row[v]
        /\ record'[v] = record[v] /\ rows'[v] = rows[v] /\ verdict'[v] = verdict[v]

\* A step of one worker leaves what others have noted.
LEMMA OthersKnow ==
    ASSUME done \subseteq done', NEW w \in Workers, Alone(w),
           NEW v \in Workers \ {w}, Knows(v)
    PROVE  Knows(v)'
  <1>1. /\ pc'[v] = pc[v] /\ wq'[v] = wq[v] /\ row'[v] = row[v]
        /\ record'[v] = record[v] /\ rows'[v] = rows[v] /\ verdict'[v] = verdict[v]
    BY DEF Alone
  <1> QED
    BY <1>1 DEF Knows, Behind, task, published

\* A step of one worker, put together.
LEMMA OneWorker ==
    ASSUME FInv, done \subseteq done', Types', ReceiptsTrue',
           NEW w \in Workers, Alone(w), Knows(w)'
    PROVE  FInv'
  BY OthersKnow DEF FInv

\* Notes depend on receipts only.
LEMMA SameReceipts ==
    ASSUME FInv, receipt' = receipt, done' = done
    PROVE  done \subseteq done' /\ ReceiptsTrue' /\ receipt' \in [Tasks -> Receipts]
  BY DEF FInv, Types, ReceiptsTrue

\* The task a worker is at exists.
LEMMA TaskFacts ==
    ASSUME FInv, NEW w \in Workers, pc[w] \notin {"queue"} \cup Ended
    PROVE  wq[w] \in Queues /\ task(w) \in Tasks
  BY DEF FInv, Types, Knows, task, Tasks

-----------------------------------------------------------------------------
(* A row of status() is noted.                                              *)

\* A note taken from a receipt is true.
LEMMA NoteKeeps ==
    ASSUME FInv, receipt' = receipt, done' = done,
           NEW w \in Workers, pc[w] \in Reading, NEW state, Note(w, state),
           state = "complete" => task(w) \in done
    PROVE  FInv'
  <1> DEFINE states == rows[w] \cup {state}
  <1>1. done \subseteq done' /\ ReceiptsTrue' /\ receipt' \in [Tasks -> Receipts]
    BY SameReceipts
  <1>2. wq[w] \in Queues /\ row[w] \in 1..NumTasks /\ NumTasks \in Nat /\ NumQueues \in Nat
    BY TaskFacts, FleetAssumption DEF Reading, Probing, Ended, FInv, Types
  <1>3. record' \in [Workers -> Receipts]
    BY DEF Note, NoReceipt, Receipts, Statuses, FInv, Types
  <1>4. Knows(w)
    BY DEF FInv
  <1>5. CASE row[w] < NumTasks
    <2>1. /\ rows' = [rows EXCEPT ![w] = states]
          /\ row' = [row EXCEPT ![w] = @ + 1]
          /\ pc' = [pc EXCEPT ![w] = "read"]
          /\ UNCHANGED <<wq, seen, verdict>>
          /\ record' = [record EXCEPT ![w] = NoReceipt]
      BY <1>5 DEF Note
    <2>2. row[w] + 1 \in 1..NumTasks
      BY <1>2, <1>5
    <2>3. Types' /\ Alone(w)
      BY <1>1, <1>3, <2>1, <2>2 DEF FInv, Types, Alone, Phases, Reading
    <2>4. /\ pc'[w] = "read" /\ wq'[w] = wq[w] /\ row'[w] = row[w] + 1
          /\ rows'[w] = states /\ verdict'[w] = verdict[w]
      BY <2>1 DEF FInv, Types
    <2>5. states \subseteq {"complete"} => Behind(w)'
      <3> SUFFICES ASSUME states \subseteq {"complete"},
                          NEW i \in 1..NumTasks, i < row[w] + 1
                   PROVE  <<wq[w], i>> \in done
        BY <2>4 DEF Behind
      <3>1. rows[w] \subseteq {"complete"} /\ state = "complete"
        OBVIOUS
      <3>2. i < row[w] \/ i = row[w]
        BY <1>2
      <3> QED
        BY <1>4, <3>1, <3>2 DEF Knows, Behind, task
    <2>6. Knows(w)'
      BY <1>2, <1>4, <2>4, <2>5 DEF Knows, Probing, published
    <2> QED
      BY <1>1, <2>3, <2>6, OneWorker
  <1>6. CASE ~(row[w] < NumTasks)
    <2>1. /\ rows' = [rows EXCEPT ![w] = {}]
          /\ seen' = [seen EXCEPT ![w] = FALSE]
          /\ row' = [row EXCEPT ![w] = 1]
          /\ verdict' = [verdict EXCEPT ![w][wq[w]] = verdictOf(states)]
          /\ wq' = [wq EXCEPT ![w] = @ + 1]
          /\ pc' = [pc EXCEPT ![w] = "queue"]
      BY <1>6 DEF Note
    <2>2. 1 \in 1..NumTasks /\ wq[w] + 1 \in 1..NumQueues + 1
      BY <1>2, FleetAssumption DEF Queues
    <2>3. verdictOf(states) \in {"complete", "blocked", "idle"}
      BY DEF verdictOf
    <2>4. /\ verdict' \in [Workers -> [Queues -> {"none", "stopped", "complete", "blocked", "idle"}]]
          /\ \A v \in Workers \ {w} : verdict'[v] = verdict[v]
          /\ verdict'[w][wq[w]] = verdictOf(states)
          /\ \A q \in Queues \ {wq[w]} : verdict'[w][q] = verdict[w][q]
      <3> DEFINE mine == [verdict[w] EXCEPT ![wq[w]] = verdictOf(states)]
      <3>1. verdict' = [verdict EXCEPT ![w] = mine]
        BY <2>1
      <3>2. /\ mine \in [Queues -> {"none", "stopped", "complete", "blocked", "idle"}]
            /\ mine[wq[w]] = verdictOf(states)
            /\ \A q \in Queues \ {wq[w]} : mine[q] = verdict[w][q]
        BY <1>2, <2>3 DEF FInv, Types
      <3> HIDE DEF mine
      <3> QED
        BY <3>1, <3>2 DEF FInv, Types
    <2>5. Types' /\ Alone(w)
      BY <1>1, <1>3, <2>1, <2>2, <2>4 DEF FInv, Types, Alone, Phases, Note
    <2>6. verdictOf(states) = "complete" => published(wq[w])
      <3> SUFFICES ASSUME verdictOf(states) = "complete",
                          NEW i \in 1..NumTasks
                   PROVE  <<wq[w], i>> \in done
        BY <1>2 DEF published
      <3>1. rows[w] \subseteq {"complete"} /\ state = "complete"
        BY DEF verdictOf
      <3>2. i < row[w] \/ i = row[w]
        BY <1>2, <1>6
      <3> QED
        BY <1>4, <3>1, <3>2 DEF Knows, Behind, task
    <2>7. Knows(w)'
      <3>1. pc'[w] = "queue" /\ row'[w] = 1
        BY <2>1 DEF FInv, Types
      <3>2. \A q \in Queues : verdict'[w][q] = "complete" => published(q)'
        BY <1>4, <2>4, <2>6 DEF Knows, published
      <3> QED
        BY <3>1, <3>2 DEF Knows, Reading, Probing
    <2> QED
      BY <1>1, <2>5, <2>7, OneWorker
  <1> QED
    BY <1>5, <1>6

-----------------------------------------------------------------------------
(* The other steps.                                                         *)

\* A worker moves within a queue, with nothing new known.
LEMMA MovesWithin ==
    ASSUME FInv, receipt' = receipt, done' = done,
           NEW w \in Workers, pc[w] \notin {"queue"} \cup Ended,
           NEW to \in Phases \ ({"queue", "verify", "status", "exited"} \cup Reading),
           pc' = [pc EXCEPT ![w] = to],
           UNCHANGED <<wq, row, record, rows, verdict, seen>>
    PROVE  FInv'
  <1>1. done \subseteq done' /\ ReceiptsTrue' /\ receipt' \in [Tasks -> Receipts]
    BY SameReceipts
  <1>2. Types' /\ Alone(w)
    BY <1>1 DEF FInv, Types, Alone
  <1>3. Knows(w)'
    BY TaskFacts DEF FInv, Types, Knows, Behind, task, published, Probing, Reading
  <1> QED
    BY <1>1, <1>2, <1>3, OneWorker

\* So are the notes of a worker that goes on,
LEMMA NextTaskKeeps ==
    ASSUME FInv, receipt' = receipt, done' = done,
           NEW w \in Workers, pc[w] \in Claiming, NextTask(w),
           UNCHANGED <<wq, record, rows, verdict, seen>>
    PROVE  FInv'
  <1>1. done \subseteq done' /\ ReceiptsTrue' /\ receipt' \in [Tasks -> Receipts]
    BY SameReceipts
  <1>2. wq[w] \in Queues /\ row[w] \in 1..NumTasks /\ NumTasks \in Nat
    BY TaskFacts, FleetAssumption DEF Claiming, Ended, FInv, Types
  <1>3. PICK to \in {"look", "status"}, r \in 1..NumTasks :
          /\ row' = [row EXCEPT ![w] = r] /\ pc' = [pc EXCEPT ![w] = to]
          /\ to = "status" => r = 1
    <2>1. row[w] < NumTasks => row[w] + 1 \in 1..NumTasks
      BY <1>2
    <2>2. 1 \in 1..NumTasks
      BY <1>2
    <2> QED
      BY <2>1, <2>2 DEF NextTask
  <1>4. Types' /\ Alone(w) /\ pc'[w] = to /\ row'[w] = r
    BY <1>1, <1>3 DEF FInv, Types, Alone, Phases, Claiming
  <1>5. Knows(w)'
    BY <1>2, <1>3, <1>4 DEF FInv, Knows, published, Reading, Probing
  <1> QED
    BY <1>1, <1>4, <1>5, OneWorker

\* of one that claims,
LEMMA ClaimKeeps ==
    ASSUME FInv, NEW w \in Workers, ClaimStep(w)
    PROVE  FInv'
  <1>1. CASE EnterQueue(w)
    <2>1. wq[w] \in Queues /\ NumQueues \in Nat
      BY <1>1, FleetAssumption DEF EnterQueue
    <2>2. done \subseteq done' /\ ReceiptsTrue' /\ receipt' \in [Tasks -> Receipts]
      BY <1>1, SameReceipts DEF EnterQueue, filesVars
    <2>3. CASE stop[wq[w]] # "none"
      <3>1. /\ verdict' = [verdict EXCEPT ![w][wq[w]] = "stopped"]
            /\ wq' = [wq EXCEPT ![w] = @ + 1]
            /\ UNCHANGED <<pc, row, seen, record, rows>>
        BY <1>1, <2>3 DEF EnterQueue
      <3> DEFINE mine == [verdict[w] EXCEPT ![wq[w]] = "stopped"]
      <3>2. verdict' = [verdict EXCEPT ![w] = mine]
        BY <3>1
      <3>3. /\ mine \in [Queues -> {"none", "stopped", "complete", "blocked", "idle"}]
            /\ \A q \in Queues : mine[q] = "complete" => verdict[w][q] = "complete"
        BY <2>1 DEF FInv, Types
      <3> HIDE DEF mine
      <3>4. wq[w] + 1 \in 1..NumQueues + 1
        BY <2>1 DEF Queues
      <3>5. Types' /\ Alone(w) /\ verdict'[w] = mine
        BY <2>2, <3>1, <3>2, <3>3, <3>4, ZenonT(60) DEF FInv, Types, Alone
      <3>6. Knows(w)'
        BY <1>1, <2>2, <3>1, <3>3, <3>5
           DEF EnterQueue, FInv, Knows, published, Reading, Probing, filesVars
      <3> QED
        BY <2>2, <3>5, <3>6, OneWorker
    <2>4. CASE stop[wq[w]] = "none"
      <3>1. pc' = [pc EXCEPT ![w] = "verify"] /\ UNCHANGED <<verdict, wq, row, seen, record, rows>>
        BY <1>1, <2>4 DEF EnterQueue
      <3>2. Types' /\ Alone(w)
        BY <2>2, <3>1 DEF FInv, Types, Alone, Phases, Claiming
      <3>3. row[w] = 1
        BY <1>1 DEF FInv, Knows, EnterQueue
      <3>4. Knows(w)'
        BY <1>1, <2>1, <3>1, <3>3 DEF EnterQueue, FInv, Types, Knows, published, Reading, Probing,
                                     filesVars
      <3> QED
        BY <2>2, <3>2, <3>4, OneWorker
    <2> QED
      BY <2>3, <2>4
  <1>2. CASE Look(w)
    <2>1. CASE NextTask(w)
      BY <1>2, <2>1, NextTaskKeeps DEF Look, filesVars, Claiming
    <2>2. CASE ~NextTask(w)
      BY <1>2, <2>2, MovesWithin DEF Look, filesVars, Claiming, Phases, Reading, Probing, Ended
    <2> QED
      BY <2>1, <2>2
  <1>3. CASE Unlook(w)
    BY <1>3, MovesWithin DEF Unlook, filesVars, passVars, Claiming, Phases, Reading, Probing, Ended
  <1>4. CASE Take(w)
    <2>1. CASE NextTask(w)
      BY <1>4, <2>1, NextTaskKeeps DEF Take, filesVars, Claiming
    <2>2. CASE ~NextTask(w)
      BY <1>4, <2>2, MovesWithin DEF Take, filesVars, Claiming, Phases, Reading, Probing, Ended
    <2> QED
      BY <2>1, <2>2
  <1>5. CASE PassOver(w)
    BY <1>5, NextTaskKeeps DEF PassOver, filesVars, Claiming
  <1> QED
    BY <1>1, <1>2, <1>3, <1>4, <1>5 DEF ClaimStep

\* is admitted or not,
LEMMA AdmitKeeps ==
    ASSUME FInv, NEW w \in Workers, Admit(w)
    PROVE  FInv'
  <1> DEFINE t == task(w)
  <1>1. t \in Tasks /\ wq[w] \in Queues
    BY TaskFacts DEF Admit, Ended
  <1>2. receipt' = [receipt EXCEPT ![t] = [status |-> "running", retry |-> receipt[t].retry + 1]]
    BY DEF Admit
  <1>3. [status |-> "running", retry |-> receipt[t].retry + 1] \in Receipts
    BY <1>1 DEF FInv, Types, Receipts, Statuses
  <1> HIDE DEF t
  <1>4. receipt' \in [Tasks -> Receipts] /\ ReceiptsTrue' /\ done' = done
    <2>1. done' = done
      BY DEF Admit
    <2>2. receipt' \in [Tasks -> Receipts]
      BY <1>2, <1>3 DEF FInv, Types
    <2>3. \A u \in Tasks : receipt'[u].status = "complete" => receipt[u].status = "complete"
      BY <1>1, <1>2 DEF FInv, Types
    <2> QED
      BY <2>1, <2>2, <2>3 DEF FInv, ReceiptsTrue
  <1>5. Unknown \in [Queues -> {"none", "stopped", "complete", "blocked", "idle"}]
        /\ \A q \in Queues : Unknown[q] # "complete"
    BY DEF Unknown
  <1>6. Types' /\ Alone(w)
    <2>1. UNCHANGED <<wq, row, record, rows>>
      BY DEF Admit
    <2>2. pc' = [pc EXCEPT ![w] = "run"] /\ seen' = [seen EXCEPT ![w] = FALSE]
          /\ verdict' = [verdict EXCEPT ![w] = Unknown]
      BY DEF Admit
    <2> QED
      BY <1>4, <1>5, <2>1, <2>2 DEF FInv, Types, Alone, Phases, Claiming
  <1>7. pc'[w] = "run" /\ verdict'[w] = Unknown /\ wq'[w] = wq[w]
    BY DEF Admit, FInv, Types
  <1>8. Knows(w)'
    BY <1>1, <1>5, <1>7 DEF Knows, Reading, Probing
  <1> QED
    BY <1>4, <1>6, <1>8, OneWorker

\* A receipt is written for the claimed task, or its result is published.
LEMMA ChildKeeps ==
    ASSUME FInv, NEW w \in Workers, ChildStep(w) \/ ChildFails(w)
    PROVE  FInv'
  <1> DEFINE t == task(w)
  <1>1. t \in Tasks /\ wq[w] \in Queues
    BY TaskFacts DEF ChildStep, ChildFails, ChildDone, Finish, Interrupt, Release, Ended
  <1> HIDE DEF t
  <1>2. CASE ChildDone(w)
    <2>1. done' = done \cup {t} /\ receipt' = receipt
      BY <1>2 DEF ChildDone, t
    <2>2. ReceiptsTrue' /\ done \subseteq done'
      BY <2>1 DEF FInv, ReceiptsTrue
    <2>3. Types' /\ Alone(w)
      BY <1>2 DEF ChildDone, FInv, Types, Alone, Phases, Claiming, passVars
    <2>4. Knows(w)'
      BY <1>1, <1>2, <2>1, <2>2 DEF ChildDone, FInv, Types, Knows, passVars, published, Reading, Probing,
                                    task, t
    <2> QED
      BY <2>2, <2>3, <2>4, OneWorker
  <1>3. ASSUME NEW r \in Receipts, receipt' = [receipt EXCEPT ![t] = r], done' = done,
               r.status = "complete" => t \in done
        PROVE  ReceiptsTrue' /\ receipt' \in [Tasks -> Receipts]
    BY <1>1, <1>3 DEF FInv, Types, ReceiptsTrue
  <1>4. ASSUME ReceiptsTrue', receipt' \in [Tasks -> Receipts], done' = done,
               pc[w] \in {"run", "exited"},
               NEW to \in {"leave", "quit"}, pc' = [pc EXCEPT ![w] = to],
               UNCHANGED passVars
        PROVE  FInv'
    <2>1. Types' /\ Alone(w)
      BY <1>4 DEF FInv, Types, Alone, Phases, Claiming, passVars
    <2>2. Knows(w)'
      BY <1>1, <1>4 DEF FInv, Types, Knows, passVars, published, Reading, Probing
    <2> QED
      BY <1>4, <2>1, <2>2, OneWorker
  <1>5. receipt[t] \in Receipts
    BY <1>1 DEF FInv, Types
  <1>6. CASE Finish(w)
    <2> DEFINE r == [receipt[t] EXCEPT !.status = "complete"]
    <2>1. receipt' = [receipt EXCEPT ![t] = r]
      BY <1>6 DEF Finish, t
    <2>2. r \in Receipts /\ r.status = "complete"
      BY <1>5 DEF Receipts, Statuses
    <2>3. t \in done
      BY <1>6 DEF Finish, FInv, Knows, t
    <2> HIDE DEF r
    <2> QED
      BY <1>3, <1>4, <1>6, <2>1, <2>2, <2>3 DEF Finish
  <1>7. CASE ChildFails(w)
    <2> DEFINE r == [receipt[t] EXCEPT !.status = "failed"]
    <2>1. receipt' = [receipt EXCEPT ![t] = r]
      BY <1>7 DEF ChildFails, t
    <2>2. r \in Receipts /\ r.status = "failed"
      BY <1>5 DEF Receipts, Statuses
    <2> HIDE DEF r
    <2> QED
      BY <1>3, <1>4, <1>7, <2>1, <2>2 DEF ChildFails
  <1>8. CASE Interrupt(w)
    <2> DEFINE r == [status |-> "interrupted", retry |-> receipt[t].retry - 1]
    <2>1. receipt' = [receipt EXCEPT ![t] = r]
      BY <1>8 DEF Interrupt, t
    <2>2. r \in Receipts /\ r.status = "interrupted"
      BY <1>5 DEF Receipts, Statuses
    <2> HIDE DEF r
    <2> QED
      BY <1>3, <1>4, <1>8, <2>1, <2>2 DEF Interrupt
  <1>9. CASE Release(w)
    <2>1. done \subseteq done' /\ ReceiptsTrue' /\ receipt' \in [Tasks -> Receipts]
      BY <1>9, SameReceipts DEF Release, filesVars
    <2>2. 1 \in 1..NumQueues + 1 /\ 1 \in 1..NumTasks
      BY FleetAssumption
    <2>3. Types' /\ Alone(w)
      BY <1>9, <2>1, <2>2 DEF Release, FInv, Types, Alone, Phases, Ended
    <2>4. pc'[w] \in {"queue", "interrupted"} /\ row'[w] = 1 /\ verdict'[w] = verdict[w] /\ done' = done
      BY <1>9 DEF Release, FInv, Types, filesVars
    <2>5. Knows(w)'
      BY <2>4 DEF FInv, Knows, Reading, Probing, Ended, published
    <2> QED
      BY <2>1, <2>3, <2>5, OneWorker
  <1> QED
    BY <1>2, <1>6, <1>7, <1>8, <1>9 DEF ChildStep

\* reads the status,
LEMMA StatusKeeps ==
    ASSUME FInv, NEW w \in Workers, StatusStep(w)
    PROVE  FInv'
  <1>1. receipt' = receipt /\ done' = done
    BY DEF StatusStep, Verify, ReadReceipt, Probe, Unprobe, ProbeParent, UnprobeParent, EndPass,
           filesVars
  <1>2. done \subseteq done' /\ ReceiptsTrue' /\ receipt' \in [Tasks -> Receipts]
    BY <1>1, SameReceipts
  <1>3. Knows(w)
    BY DEF FInv
  <1>4. CASE Verify(w)
    <2>1. Types' /\ Alone(w)
      BY <1>2, <1>4 DEF Verify, FInv, Types, Alone, Phases, Claiming, Reading
    <2>2. pc'[w] \in {"look", "read"} /\ wq'[w] = wq[w] /\ row'[w] = 1 /\ verdict'[w] = verdict[w]
      BY <1>3, <1>4 DEF Verify, FInv, Types, Knows
    <2>3. Behind(w)'
      BY <2>2 DEF Behind
    <2>4. wq[w] \in Queues
      BY <1>4, TaskFacts DEF Verify, Ended
    <2>5. Knows(w)'
      BY <1>1, <1>3, <2>2, <2>3, <2>4 DEF Knows, Probing, published
    <2> QED
      BY <1>2, <2>1, <2>5, OneWorker
  <1>5. CASE ReadReceipt(w)
    <2>1. task(w) \in Tasks /\ wq[w] \in Queues
      BY <1>5, TaskFacts DEF ReadReceipt, Ended
    <2>2. Types' /\ Alone(w)
      BY <1>2, <1>5, <2>1 DEF ReadReceipt, FInv, Types, Alone, Phases, Reading, Probing
    <2>3. /\ pc'[w] = "probe" /\ record'[w] = receipt[task(w)]
          /\ wq'[w] = wq[w] /\ row'[w] = row[w] /\ rows'[w] = rows[w] /\ verdict'[w] = verdict[w]
      BY <1>5 DEF ReadReceipt, FInv, Types
    <2>4. Knows(w)'
      BY <1>1, <1>3, <1>5, <2>1, <2>3
         DEF ReadReceipt, Knows, Reading, Probing, Behind, published, task, FInv, ReceiptsTrue
    <2> QED
      BY <1>2, <2>2, <2>4, OneWorker
  <1>6. restStatus(w) = "complete" => record[w].status = "complete"
    BY DEF restStatus
  <1>7. ASSUME NEW to \in {"unprobe", "parent", "unparent"}, pc[w] \in Probing,
               pc' = [pc EXCEPT ![w] = to], UNCHANGED <<wq, row, seen, record, rows, verdict>>
        PROVE  FInv'
    <2>1. Types' /\ Alone(w)
      BY <1>2, <1>7 DEF FInv, Types, Alone, Phases, Reading, Probing
    <2>2. wq[w] \in Queues
      BY <1>7, TaskFacts DEF Probing, Ended
    <2>3. pc'[w] \in Probing /\ pc[w] \in Reading
      BY <1>7 DEF FInv, Types, Probing, Reading
    <2>4. Knows(w)'
      BY <1>1, <1>3, <1>7, <2>2, <2>3 DEF Knows, Reading, Probing, Behind, published, task
    <2> QED
      BY <1>2, <2>1, <2>4, OneWorker
  <1>8. CASE Probe(w)
    BY <1>1, <1>7, <1>8, NoteKeeps DEF Probe, Reading, Probing
  <1>9. CASE Unprobe(w)
    <2>1. complete(w, task(w)) => task(w) \in done
      BY DEF complete
    <2>2. restStatus(w) = "complete" => task(w) \in done
      BY <1>3, <1>6, <1>9 DEF Unprobe, Knows, Probing
    <2> QED
      BY <1>1, <1>7, <1>9, <2>1, <2>2, NoteKeeps DEF Unprobe, Reading, Probing
  <1>10. CASE ProbeParent(w)
    BY <1>1, <1>7, <1>10, NoteKeeps DEF ProbeParent, Reading, Probing
  <1>11. CASE UnprobeParent(w)
    <2>1. restStatus(w) = "complete" => task(w) \in done
      BY <1>3, <1>6, <1>11 DEF UnprobeParent, Knows, Probing
    <2> QED
      BY <1>1, <1>11, <2>1, NoteKeeps DEF UnprobeParent, Reading, Probing
  <1>12. CASE EndPass(w)
    <2>1. PICK to \in {"stopped", "complete", "failed", "queue"} : pc' = [pc EXCEPT ![w] = to]
      BY <1>12 DEF EndPass
    <2>2. 1 \in 1..NumQueues + 1
      BY FleetAssumption
    <2>3. Unknown \in [Queues -> {"none", "stopped", "complete", "blocked", "idle"}]
          /\ \A q \in Queues : Unknown[q] # "complete"
      BY DEF Unknown
    <2>4. Types' /\ Alone(w)
      BY <1>2, <1>12, <2>1, <2>2, <2>3 DEF EndPass, FInv, Types, Alone, Phases, Ended
    <2>5. pc'[w] = to /\ row'[w] = row[w] /\ verdict'[w] = Unknown /\ row[w] = 1
      BY <1>3, <1>12, <2>1 DEF EndPass, FInv, Types, Knows
    <2>6. Knows(w)'
      BY <2>3, <2>5 DEF Knows, Reading, Probing, Ended
    <2> QED
      BY <1>2, <2>4, <2>6, OneWorker
  <1> QED
    BY <1>4, <1>5, <1>8, <1>9, <1>10, <1>11, <1>12 DEF StatusStep

\* or is lost.
LEMMA NodeLostKeeps ==
    ASSUME FInv, NEW w \in Workers, NodeLost(w)
    PROVE  FInv'
  <1>1. done \subseteq done' /\ ReceiptsTrue' /\ receipt' \in [Tasks -> Receipts]
    BY SameReceipts DEF NodeLost, filesVars
  <1>2. 1 \in 1..NumQueues + 1 /\ 1 \in 1..NumTasks
    BY FleetAssumption
  <1>3. Unknown \in [Queues -> {"none", "stopped", "complete", "blocked", "idle"}]
        /\ \A q \in Queues : Unknown[q] # "complete"
    BY DEF Unknown
  <1>4. Types' /\ Alone(w)
    BY <1>1, <1>2, <1>3
       DEF NodeLost, FInv, Types, Alone, Phases, Ended, NoReceipt, Receipts, Statuses
  <1>5. pc'[w] = "lost" /\ verdict'[w] = Unknown
    BY DEF NodeLost, FInv, Types
  <1>6. Knows(w)'
    BY <1>3, <1>5 DEF Knows, Reading, Probing, Ended
  <1> QED
    BY <1>1, <1>4, <1>6, OneWorker

\* Together: every step keeps the invariant.
LEMMA NextFInv == FInv /\ [Next]_vars => FInv'
  <1> SUFFICES ASSUME FInv, [Next]_vars
               PROVE  FInv'
    OBVIOUS
  <1>1. ASSUME UNCHANGED <<done, receipt, pc, passVars>>
        PROVE  FInv'
    BY <1>1 DEF FInv, Types, ReceiptsTrue, Knows, Behind, task, published, passVars
  <1>2. CASE \E q \in Queues : Command(q)
    BY <1>1, <1>2 DEF Command
  <1>3. CASE UNCHANGED vars
    BY <1>1, <1>3 DEF vars, filesVars
  <1> QED
    BY <1>2, <1>3, ClaimKeeps, AdmitKeeps, ChildKeeps, StatusKeeps, NodeLostKeeps
       DEF Next, WorkerStep

\* The invariant behind a worker's conclusions.
THEOREM Invariance == Spec => []FInv
  BY InitFInv, NextFInv, PTL DEF Spec

\* A queue that a pass takes for complete is published, although its rows were read
\* one by one while other workers claimed, retried and finished its tasks.
THEOREM CompleteIsRight == Spec => []CompleteIsTrue
  <1>1. FInv => CompleteIsTrue
    BY DEF FInv, Knows, CompleteIsTrue
  <1> QED
    BY <1>1, Invariance, PTL
=============================================================================
