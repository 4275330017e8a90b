--------------------------- MODULE CheckpointBackup ---------------------------
(***************************************************************************)
(* The rolling backup of one checkpoint, scripts/srgc_checkpoint_backup.py.*)
(* Training replaces the file atomically while a watcher reads it; one     *)
(* watcher of all nodes copies at a time, under the backup lease.  A copy  *)
(* becomes a generation, a directory named after the digest of the         *)
(* checkpoint in it, by a rename; latest.json then names it, and all but   *)
(* the KEEP newest generations are removed.                                *)
(*                                                                         *)
(* A checkpoint stands for its bytes, and a digest for the checkpoint.  A  *)
(* file is an inode; its signature is the inode with its modifications.    *)
(***************************************************************************)
EXTENDS Integers, FiniteSets, Sequences, SequencesExt

CONSTANTS
    Watchers,      \* processes that run backup_once, on any node
    Checkpoints,   \* what training may publish
    Torn,          \* bytes that are no checkpoint: the ZIP test refuses them
    KEEP,          \* generations kept
    Skew,          \* watcher -> by how much its node's clock is ahead of the slowest
    MaxPublished,  \* bound on the files training publishes
    MaxFaults,     \* bound on crashes and writes in place
    Nobody

ASSUME BackupAssumption ==
    /\ KEEP \in Nat \ {0}
    /\ Skew \in [Watchers -> Nat]
    /\ MaxPublished \in Nat /\ MaxFaults \in Nat
    /\ Torn \notin Checkpoints /\ Nobody \notin Watchers

VARIABLES
    file,      \* inode -> its bytes, with each write in place; the last has the name
    lock,      \* .backup.lock
    pc,        \* watcher -> where it is in copy_snapshot
    fd,        \* watcher -> the signature on opening of the inode it holds open
    copied,    \* watcher -> the bytes copied so far
    receipts,  \* digest -> saved_ns in receipt.json of that generation, or none
    folders,   \* digests with a generation, a directory
    copies,    \* digests whose generation has its checkpoint.pt
    index,     \* latest.json: [sha256, source], or no file
    doomed,    \* watcher -> generations it has yet to remove
    history,   \* digests of the generations saved, in order
    faults

watcherVars == <<pc, fd, copied, doomed>>
archiveVars == <<folders, receipts, copies, index>>
vars == <<file, lock, watcherVars, archiveVars, history, faults>>

NoFile == <<0, 0>>
NoIndex == [sha256 |-> Torn, source |-> NoFile]
NoReceipt == -1

Init ==
    /\ file = <<>>
    /\ lock = Nobody
    /\ pc = [w \in Watchers |-> "idle"]
    /\ fd = [w \in Watchers |-> NoFile]
    /\ copied = [w \in Watchers |-> Torn]
    /\ receipts = [c \in Checkpoints |-> NoReceipt]
    /\ folders = {}
    /\ copies = {}
    /\ index = NoIndex
    /\ doomed = [w \in Watchers |-> {}]
    /\ history = <<>>
    /\ faults = 0

-----------------------------------------------------------------------------
(* Training.                                                                *)

\* An atomic replacement: the name leads to a new inode.
Publish ==
    /\ Len(file) < MaxPublished
    /\ \E c \in Checkpoints : file' = Append(file, <<c>>)
    /\ UNCHANGED <<lock, watcherVars, archiveVars, history, faults>>

\* A write in place, whole or not: the inode stays, its signature changes.
WriteInPlace ==
    /\ faults < MaxFaults /\ faults' = faults + 1
    /\ file # <<>>
    /\ \E c \in Checkpoints \cup {Torn} :
          file' = [file EXCEPT ![Len(file)] = Append(@, c)]
    /\ UNCHANGED <<lock, watcherVars, archiveVars, history>>

-----------------------------------------------------------------------------
(* copy_snapshot under the lease.                                           *)

inode(w) == fd[w][1]
signature(n) == <<n, Len(file[n])>>
bytes(n) == Last(file[n])

\* The pass ends, and the lease with it.
Leave(w) ==
    /\ pc' = [pc EXCEPT ![w] = "idle"]
    /\ fd' = [fd EXCEPT ![w] = NoFile]
    /\ copied' = [copied EXCEPT ![w] = Torn]
    /\ doomed' = [doomed EXCEPT ![w] = {}]
    /\ lock' = Nobody

go(w, to) == pc' = [pc EXCEPT ![w] = to]

\* The lease, and a descriptor that keeps the inode.
Open(w) ==
    /\ pc[w] = "idle" /\ lock = Nobody /\ file # <<>>
    /\ lock' = w
    /\ fd' = [fd EXCEPT ![w] = signature(Len(file))]
    /\ go(w, "compare")
    /\ UNCHANGED <<file, copied, doomed, archiveVars, history, faults>>

\* The index names this very file, and its generation is there: nothing to do.
current(w) == index.source = fd[w] /\ index.sha256 \in copies

Compare(w) ==
    /\ pc[w] = "compare"
    /\ IF current(w) THEN Leave(w) ELSE go(w, "read") /\ UNCHANGED <<lock, fd, copied, doomed>>
    /\ UNCHANGED <<file, archiveVars, history, faults>>

Read(w) ==
    /\ pc[w] = "read"
    /\ copied' = [copied EXCEPT ![w] = bytes(inode(w))]
    /\ go(w, "rest")
    /\ UNCHANGED <<file, lock, fd, doomed, archiveVars, history, faults>>

\* Two halves of different bytes are no checkpoint, unless the halves that were
\* read first are the same.
joined(w) ==
    LET rest == bytes(inode(w)) IN IF rest = copied[w] THEN {rest} ELSE {Torn, rest}

\* The rest; the signature is compared and the ZIP tested, or the copy is dropped.
ReadRest(w) ==
    /\ pc[w] = "rest"
    /\ \E whole \in joined(w) :
         IF signature(inode(w)) # fd[w] \/ whole = Torn
         THEN Leave(w)
         ELSE /\ copied' = [copied EXCEPT ![w] = whole]
              /\ go(w, "keep") /\ UNCHANGED <<lock, fd, doomed>>
    /\ UNCHANGED <<file, archiveVars, history, faults>>

\* The copy is renamed into its place; a generation that is there already is
\* verified and gets a new receipt.  One without its checkpoint.pt is an error.
Keep(w) ==
    LET c == copied[w] IN
    /\ pc[w] = "keep"
    /\ IF c \in folders \ copies
       THEN Leave(w) /\ UNCHANGED <<folders, receipts, copies, history>>
       ELSE /\ folders' = folders \cup {c}
            /\ receipts' = [receipts EXCEPT ![c] = Len(history) + Skew[w]]
            /\ copies' = copies \cup {c}
            /\ history' = Append(history, c)
            /\ go(w, "index") /\ UNCHANGED <<lock, fd, copied, doomed>>
    /\ UNCHANGED <<file, index, faults>>

\* Mutant: the signature of the file that has the name by now.
WriteIndexByName(w) ==
    /\ pc[w] = "index"
    /\ index' = [sha256 |-> copied[w], source |-> signature(Len(file))]
    /\ go(w, "list")
    /\ UNCHANGED <<file, lock, fd, copied, doomed, folders, receipts, copies, history, faults>>

WriteIndex(w) ==
    /\ pc[w] = "index"
    /\ index' = [sha256 |-> copied[w], source |-> fd[w]]
    /\ go(w, "list")
    /\ UNCHANGED <<file, lock, fd, copied, doomed, folders, receipts, copies, history, faults>>

\* Mutant: the oldest generations stay.
outdatedOldest ==
    LET listed == {c \in Checkpoints : receipts[c] # NoReceipt}
    IN  {c \in listed : Cardinality({d \in listed : receipts[d] < receipts[c]}) >= KEEP}

\* Generations with a receipt, but KEEP newer ones.
outdated ==
    LET listed == {c \in Checkpoints : receipts[c] # NoReceipt}
    IN  {c \in listed : Cardinality({d \in listed : receipts[d] > receipts[c]}) >= KEEP}

List(w) ==
    /\ pc[w] = "list"
    /\ doomed' = [doomed EXCEPT ![w] = outdated]
    /\ go(w, "prune")
    /\ UNCHANGED <<file, lock, fd, copied, archiveVars, history, faults>>

\* rmtree removes the files of a generation in any order, then its directory.
Prune(w) ==
    /\ pc[w] = "prune"
    /\ IF doomed[w] = {}
       THEN Leave(w) /\ UNCHANGED <<folders, receipts, copies>>
       ELSE /\ \E c \in doomed[w] :
                 \/ /\ c \in copies /\ copies' = copies \ {c}
                    /\ UNCHANGED <<folders, receipts, doomed>>
                 \/ /\ receipts[c] # NoReceipt
                    /\ receipts' = [receipts EXCEPT ![c] = NoReceipt]
                    /\ UNCHANGED <<folders, copies, doomed>>
                 \/ /\ c \notin copies /\ receipts[c] = NoReceipt
                    /\ folders' = folders \ {c}
                    /\ doomed' = [doomed EXCEPT ![w] = @ \ {c}]
                    /\ UNCHANGED <<receipts, copies>>
            /\ UNCHANGED <<lock, pc, fd, copied>>
    /\ UNCHANGED <<file, index, history, faults>>

\* The process ends at any point, also a daemon thread still copying at exit.
Crash(w) ==
    /\ faults < MaxFaults /\ faults' = faults + 1
    /\ pc[w] # "idle"
    /\ Leave(w)
    /\ UNCHANGED <<file, archiveVars, history>>

-----------------------------------------------------------------------------
Step(w) ==
    \/ Compare(w) \/ Read(w) \/ ReadRest(w)
    \/ Keep(w) \/ WriteIndex(w) \/ List(w) \/ Prune(w)

Next ==
    \/ \E w \in Watchers : Open(w) \/ Step(w) \/ Crash(w)
    \/ Publish \/ WriteInPlace

Spec == Init /\ [][Next]_vars

\* A watcher that has the lease goes on; some watcher scans again.
Fairness == (\A w \in Watchers : WF_vars(Step(w))) /\ WF_vars(\E w \in Watchers : Open(w))
FairSpec == Spec /\ Fairness

-----------------------------------------------------------------------------
(* Properties.                                                              *)

\* "keeps the last two observed versions per checkpoint": at every moment, also
\* after a crash between any two steps, latest.json names a generation that is
\* there, and the KEEP last different checkpoints that were saved have their copies.
savedFrom(i) == {history[j] : j \in i..Len(history)}
lastSaved == {history[i] : i \in {i \in 1..Len(history) : Cardinality(savedFrom(i)) <= KEEP}}
Recoverable ==
    /\ index # NoIndex => index.sha256 \in copies /\ receipts[index.sha256] # NoReceipt
    /\ lastSaved \subseteq copies

\* The signature by which later passes take a file for saved is that of the bytes
\* that were saved: training may publish or write while they are copied.
IndexTruthful ==
    index # NoIndex => file[index.source[1]][index.source[2]] = index.sha256

\* Once training pauses, its last checkpoint is backed up: no crash of a pass stands
\* in the way, but one that has left the generation of these very bytes hollow.
newest == IF file = <<>> THEN Torn ELSE bytes(Len(file))
hollow(c) == c \in folders \ copies
BackedUp ==
    <>[](newest \in Checkpoints /\ ~hollow(newest))
        => <>[](index.sha256 = newest)
=============================================================================
