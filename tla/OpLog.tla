------------------------------- MODULE OpLog -------------------------------
(***************************************************************************)
(* The pending-operation log of one device: OperationLogger's `pendingOps` *)
(* array, its NDJSON journal on disk, the count `oplogPersistedCount` of   *)
(* the leading ops that are already on disk, and the FIFO chain            *)
(* `oplogPersistQueue` through which every append and every rewrite goes   *)
(* (src/src/core/operation-logger.ts).                                     *)
(*                                                                         *)
(* A persist is two steps, because the code awaits the write between them: *)
(* it fixes the bytes to write when it starts and moves the marker when    *)
(* the write resolves.  Ops are recorded, cleared and pruned in between.   *)
(* A crash may hit at any point; `load` then replays the journal.          *)
(*                                                                         *)
(* A journal line is an op (it parses) or Garbage (it does not).  Here     *)
(* metadata.write never fails and an append is cut between lines only;     *)
(* OpLogFaults adds the write errors and the torn lines.                   *)
(***************************************************************************)
EXTENDS Integers, Sequences, FiniteSets

CONSTANTS
    Ops,            \* the ops that may be recorded, each at most once
    Files,          \* file ids
    FileOf,         \* FileOf[o]: the file op o is about
    Creates,        \* the ops of type "create"
    Garbage,        \* a journal line that does not parse
    NoPersist,      \* no persist is running
    MaxQueue        \* bound: requests that may wait in the chain

ASSUME FileOfAssumption  == FileOf \in [Ops -> Files]
ASSUME CreatesAssumption == Creates \subseteq Ops
ASSUME GarbageAssumption == Garbage \notin Ops
ASSUME QueueAssumption   == MaxQueue \in Nat
ASSUME NoPersistAssumption ==
    NoPersist \notin [kind : {"append", "rewrite"}, ops : SUBSET Ops, data : Seq(Ops)]

VARIABLES
    running,      \* the plugin is loaded (FALSE: crashed or not started yet)
    pendingOps,   \* in memory: the un-pushed ops, oldest first
    persisted,    \* in memory: oplogPersistedCount
    queue,        \* in memory: persists that wait, oldest first
    active,       \* in memory: the persist whose write is in flight
    journal,      \* on disk: the lines of the oplog file
    openTail,     \* on disk: the last line has no newline
    \* history, read by no action
    used,         \* ops recorded so far
    dropped,      \* ops removed from pendingOps by a clear or a prune
    settled,      \* ops whose recording promise has resolved
    written,      \* ops some resolved write put on disk
    erased        \* dropped ops whose rewrite has resolved

memory  == <<pendingOps, persisted, queue, active>>
disk    == <<journal, openTail>>
history == <<used, dropped, settled, written, erased>>
vars    == <<running, memory, disk, history>>

----------------------------------------------------------------------------
(* Helpers *)

Image(s) == {s[i] : i \in DOMAIN s}

\* The enumeration of a finite set of positions in ascending order (one element).
Ascending(S) ==
    {e \in [1..Cardinality(S) -> S] :
        /\ \A i, j \in 1..Cardinality(S) : i < j => e[i] < e[j]
        /\ \A x \in S : \E i \in 1..Cardinality(S) : e[i] = x}

\* A request in the persist chain.  For an append, `ops` are the ops whose
\* recording resolves with it; for a rewrite, the ops whose removal does.
Request(kind, ops) == [kind |-> kind, ops |-> ops]

\* JavaScript's pendingOps.slice(from): empty when `from` is past the end.
Slice(s, from) == SubSeq(s, from + 1, Len(s))

\* Append `lines` to a file whose last line may lack its newline: the first
\* new line is then glued to it, and the pair parses as neither.
Appended(lines) ==
    IF openTail /\ lines # <<>> /\ journal # <<>>
    THEN [i \in 1..(Len(journal) + Len(lines) - 1) |->
            CASE i < Len(journal) -> journal[i]
              [] i = Len(journal) -> Garbage
              [] OTHER            -> lines[i - Len(journal) + 1]]
    ELSE journal \o lines

\* What `load` keeps of a line: it parses, and no earlier line has its id.
Kept(lines) ==
    {i \in DOMAIN lines : /\ lines[i] \in Ops
                          /\ \A j \in 1..(i - 1) : lines[j] # lines[i]}

\* The ops `load` reads back: the kept lines in order.  (Position k holds the
\* kept line that has exactly k kept lines up to and including itself.)
Replay(lines) ==
    IF Kept(lines) = DOMAIN lines THEN lines
    ELSE [k \in 1..Cardinality(Kept(lines)) |->
            lines[CHOOSE i \in Kept(lines) :
                    Cardinality({j \in Kept(lines) : j <= i}) = k]]

\* Some parsable line repeats an earlier one: `duplicates > 0`.
HasDuplicates(lines) ==
    \E i \in DOMAIN lines : lines[i] \in Ops /\ i \notin Kept(lines)

----------------------------------------------------------------------------
Init ==
    /\ running = TRUE
    /\ pendingOps = <<>> /\ persisted = 0
    /\ queue = <<>> /\ active = NoPersist
    /\ journal = <<>> /\ openTail = FALSE
    /\ used = {} /\ dropped = {} /\ settled = {} /\ written = {} /\ erased = {}

\* recordOp: push, then queue an append; its promise resolves with the append.
RecordOp(o) ==
    /\ running /\ o \notin used
    /\ pendingOps' = Append(pendingOps, o)
    /\ queue' = Append(queue, Request("append", {o}))
    /\ used' = used \cup {o}
    /\ UNCHANGED <<running, persisted, active, disk, dropped, settled, written, erased>>

\* The capture passes push ops one by one and leave the append to a checkpoint.
CapturePush(o) ==
    /\ running /\ o \notin used
    /\ pendingOps' = Append(pendingOps, o)
    /\ used' = used \cup {o}
    /\ UNCHANGED <<running, persisted, queue, active, disk, dropped, settled, written, erased>>

\* A checkpoint of a capture pass that emitted something: one append for the
\* whole delta.
CaptureCheckpoint ==
    /\ running /\ Len(queue) < MaxQueue
    /\ Slice(pendingOps, persisted) # <<>>
    /\ queue' = Append(queue, Request("append", Image(pendingOps)))
    /\ UNCHANGED <<running, pendingOps, persisted, active, disk, history>>

\* Fault: a clear that writes at once instead of waiting behind an append in flight.
ClearOpsOutOfTurn ==
    /\ running /\ Len(queue) < MaxQueue
    /\ pendingOps' = <<>> /\ persisted' = 0
    /\ journal' = <<>> /\ openTail' = FALSE
    /\ dropped' = dropped \cup Image(pendingOps)
    /\ erased' = erased \cup Image(pendingOps)
    /\ UNCHANGED <<running, queue, active, used, settled, written>>

\* clearOps: the array is emptied at once, the file when the rewrite's turn comes.
ClearOps ==
    /\ running /\ Len(queue) < MaxQueue
    /\ pendingOps' = <<>>
    /\ queue' = Append(queue, Request("rewrite", Image(pendingOps)))
    /\ dropped' = dropped \cup Image(pendingOps)
    /\ UNCHANGED <<running, persisted, active, disk, used, settled, written, erased>>

\* handleDelete of a file whose create is still pending: the pair cancels, the
\* file's ops leave the array and a rewrite is queued.
PruneCreateDeletePair(f) ==
    LET gone == {o \in Image(pendingOps) : FileOf[o] = f}
        kept == {i \in DOMAIN pendingOps : FileOf[pendingOps[i]] # f}
    IN  /\ running
        /\ gone \cap Creates # {}
        /\ \E e \in Ascending(kept) :
              pendingOps' = [k \in 1..Cardinality(kept) |-> pendingOps[e[k]]]
        /\ queue' = Append(queue, Request("rewrite", gone))
        /\ dropped' = dropped \cup gone
        /\ UNCHANGED <<running, persisted, active, disk, used, settled, written, erased>>

----------------------------------------------------------------------------
(* The persist chain: one persist at a time, in the order of the requests *)

\* appendOpLogLocked up to the write: the delta is fixed here.
StartAppend ==
    /\ running /\ active = NoPersist /\ queue # <<>>
    /\ Head(queue).kind = "append"
    /\ Slice(pendingOps, persisted) # <<>>
    /\ active' = [kind |-> "append", ops |-> Head(queue).ops,
                  data |-> Slice(pendingOps, persisted)]
    /\ queue' = Tail(queue)
    /\ UNCHANGED <<running, pendingOps, persisted, disk, history>>

\* appendOpLogLocked with an empty delta: nothing is written, the promise resolves.
SkipAppend ==
    /\ running /\ active = NoPersist /\ queue # <<>>
    /\ Head(queue).kind = "append"
    /\ Slice(pendingOps, persisted) = <<>>
    /\ queue' = Tail(queue)
    /\ settled' = settled \cup Head(queue).ops
    /\ UNCHANGED <<running, pendingOps, persisted, active, disk, used, dropped, written, erased>>

\* Fault: a rewrite that writes the append's delta.
StartRewriteOfDelta ==
    /\ running /\ active = NoPersist /\ queue # <<>>
    /\ Head(queue).kind = "rewrite"
    /\ active' = [kind |-> "rewrite", ops |-> Head(queue).ops, data |-> Slice(pendingOps, persisted)]
    /\ queue' = Tail(queue)
    /\ UNCHANGED <<running, pendingOps, persisted, disk, history>>

\* rewriteOpLogLocked up to the write: all of pendingOps, counted here.
StartRewrite ==
    /\ running /\ active = NoPersist /\ queue # <<>>
    /\ Head(queue).kind = "rewrite"
    /\ active' = [kind |-> "rewrite", ops |-> Head(queue).ops, data |-> pendingOps]
    /\ queue' = Tail(queue)
    /\ UNCHANGED <<running, pendingOps, persisted, disk, history>>

\* Fault: the marker set from the array's length read after the await.
MarkerToArrayLength == Len(pendingOps)

\* Fault: the marker not moved at all, or moved back past the start.
MarkerNegative == persisted - Len(active.data)
MarkerForgotten == persisted

\* The marker moves by what was written, not to the array's present length.
MarkerAfterAppend == persisted + Len(active.data)

\* metadata.append resolves.
AppendResolves ==
    /\ active # NoPersist /\ active.kind = "append"
    /\ journal' = Appended(active.data)
    /\ openTail' = FALSE
    /\ persisted' = MarkerAfterAppend
    /\ settled' = settled \cup active.ops
    /\ written' = written \cup Image(active.data)
    /\ active' = NoPersist
    /\ UNCHANGED <<running, pendingOps, queue, used, dropped, erased>>

\* Fault: a rejection that fails the persists chained behind it.
AppendRejectionPoisons ==
    /\ active # NoPersist /\ active.kind = "append"
    /\ active' = NoPersist
    /\ queue' = <<>>
    /\ UNCHANGED <<running, pendingOps, persisted, disk, history>>

\* metadata.append rejects: the caller sees it, the marker stays, the chain goes on.
AppendRejects ==
    /\ active # NoPersist /\ active.kind = "append"
    /\ active' = NoPersist
    /\ UNCHANGED <<running, pendingOps, persisted, queue, disk, history>>

\* metadata.write resolves (atomic: temporary file, then rename).
RewriteResolves ==
    /\ active # NoPersist /\ active.kind = "rewrite"
    /\ journal' = active.data
    /\ openTail' = FALSE
    /\ persisted' = Len(active.data)
    /\ erased' = erased \cup active.ops
    /\ written' = written \cup Image(active.data)
    /\ active' = NoPersist
    /\ UNCHANGED <<running, pendingOps, queue, used, dropped, settled>>

----------------------------------------------------------------------------
(* Crash and restart *)

\* A crash leaves some of the lines of an append in flight on disk.
CutAppend(lines) ==
    \E k \in 0..Len(lines) :
        /\ journal' = Appended(SubSeq(lines, 1, k))
        /\ openTail' = IF k = 0 THEN openTail ELSE FALSE

\* All that lives in memory is gone.
LoseMemory ==
    /\ running' = FALSE
    /\ pendingOps' = <<>> /\ persisted' = 0
    /\ queue' = <<>> /\ active' = NoPersist

Crash ==
    /\ running
    /\ LoseMemory
    /\ \/ active = NoPersist /\ UNCHANGED disk
       \/ active # NoPersist /\ active.kind = "append" /\ CutAppend(active.data)
       \/ active # NoPersist /\ active.kind = "rewrite" /\ UNCHANGED disk
       \/ /\ active # NoPersist /\ active.kind = "rewrite"
          /\ journal' = active.data /\ openTail' = FALSE
    /\ UNCHANGED history

\* load: replay the journal; when a line was duplicated, write it back clean.
\* A dropped op that is still on disk is pending again (it is pushed again, and
\* the server ignores an id it holds).
Load ==
    /\ ~running
    /\ running' = TRUE
    /\ pendingOps' = Replay(journal)
    /\ persisted' = Len(Replay(journal))
    /\ queue' = <<>> /\ active' = NoPersist
    /\ IF HasDuplicates(journal)
       THEN journal' = Replay(journal) /\ openTail' = FALSE
       ELSE UNCHANGED disk
    /\ dropped' = dropped \ Image(journal)
    /\ UNCHANGED <<used, settled, written, erased>>

Next ==
    \/ \E o \in Ops : RecordOp(o) \/ CapturePush(o)
    \/ CaptureCheckpoint
    \/ ClearOps
    \/ \E f \in Files : PruneCreateDeletePair(f)
    \/ StartAppend \/ SkipAppend \/ StartRewrite
    \/ AppendResolves \/ AppendRejects \/ RewriteResolves
    \/ Crash \/ Load

\* The event loop runs the chain: a queued persist starts, a write ends.
Fairness ==
    /\ WF_vars(StartAppend \/ SkipAppend \/ StartRewrite)
    /\ WF_vars(AppendResolves \/ AppendRejects \/ RewriteResolves)

Spec == Init /\ [][Next]_vars
FairSpec == Spec /\ Fairness

----------------------------------------------------------------------------
(* Properties *)

Lines == Ops \cup {Garbage}
Requests == [kind : {"append", "rewrite"}, ops : SUBSET Ops]

\* Every variable holds a value the code could hold.
TypeOK ==
    /\ running \in BOOLEAN
    /\ pendingOps \in Seq(Ops)
    /\ persisted \in Nat
    /\ queue \in Seq(Requests)
    /\ active \in {NoPersist} \cup
                  [kind : {"append", "rewrite"}, ops : SUBSET Ops, data : Seq(Ops)]
    /\ journal \in Seq(Lines)
    /\ openTail \in BOOLEAN
    /\ used \subseteq Ops /\ dropped \subseteq Ops
    /\ settled \subseteq Ops /\ written \subseteq Ops /\ erased \subseteq Ops

\* No rewrite waits or runs, so the marker describes the array it was counted on.
Aligned ==
    /\ ~\E i \in DOMAIN queue : queue[i].kind = "rewrite"
    /\ active # NoPersist => active.kind = "append"

\* "Never twice, never skipped" (operation-logger.ts:98-103, 890-897): whenever no
\* rewrite is outstanding, the first oplogPersistedCount ops of the array are
\* exactly the ops the journal replays to.
MarkerMatchesJournal ==
    running /\ Aligned =>
        /\ persisted <= Len(pendingOps)
        /\ Replay(journal) = SubSeq(pendingOps, 1, persisted)

\* An op that reached the file stays there through every later append, rewrite,
\* crash and reload until it is cleared or pruned: un-pushed work survives
\* (sync-coordinator.ts:142-143).
WrittenStaysDurable == written \ dropped \subseteq Image(Replay(journal))

\* A recording that resolved means an op on disk: the marker "never skips it"
\* (operation-logger.ts:102).  A prune that shortens the array while an append
\* is in flight breaks this: TLC shows it on the instance of the oplog run.
SettledIsDurable == settled \ dropped \subseteq Image(Replay(journal))

\* A clear or prune that resolved is final: no append in flight brings a removed op
\* back to the file, so a later load cannot resurrect it (operation-logger.ts:954-956).
ErasedStaysErased ==
    erased \cap (Image(journal) \cup Image(pendingOps)) = {}

\* Overlapping appends never write an op's line twice (the 290-ops-in-1988-lines
\* incident of operation-logger.ts:112-117).
NoDuplicateLine ==
    \A i, j \in DOMAIN journal : journal[i] = journal[j] /\ journal[i] \in Ops => i = j

\* A rejected write does not wedge the chain (operation-logger.ts:118-121): a
\* removal that waits behind appends, failed ones included, reaches the file.
RemovalsAreServed ==
    \A o \in Ops :
        (\E i \in DOMAIN queue : queue[i].kind = "rewrite" /\ o \in queue[i].ops)
            ~> (o \in erased \/ ~running)
=============================================================================
