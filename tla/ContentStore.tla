---------------------------- MODULE ContentStore ----------------------------
(***************************************************************************)
(* The content store (core/content-store.ts): blobs named by their hash,   *)
(* buffered, appended in packs and found again by an append-only index;    *)
(* the passes that write to it - a save of the editor, a capture, the      *)
(* applicator, each with its checkpoint (core/pack-checkpoint.ts) - and    *)
(* the two that take from it, the garbage collection and the consolidation *)
(* (main.ts).  An await is the end of a step.  A crash loses the memory    *)
(* and leaves part of the append that was under way.                       *)
(*                                                                         *)
(* A blob whose bytes are torn fails its hash check and reads as missing,  *)
(* so a pack is the set of the blobs that can be read from it.             *)
(***************************************************************************)
EXTENDS FiniteSetsExt, Functions, Integers, TLC

CONSTANTS
    Blobs,          \* the hashes of contents
    Callers,        \* what runs at the same time: with one caller, nothing overlaps
    NoPack,         \* no location
    MaxPacks,       \* bound: with so many packs written no pass starts that needs another
    MaxFaults       \* bound on crashes and rejected writes

ASSUME CallersAssumption == Callers # {}
ASSUME BoundsAssumption  == MaxPacks \in Nat /\ MaxFaults \in Nat
ASSUME NoPackAssumption  == NoPack \notin Nat

VARIABLES
    memCache,       \* the blobs cached in memory
    pending,        \* the hashes marked as buffered
    packBuffer,     \* the blobs buffered and not yet appended
    index,          \* index[b]: the pack b is in, as the memory has it
    nextPackId,
    packs,          \* the pack files: id -> the blobs that can be read from it
    young,          \* the packs younger than the retention window
    lines,          \* lines[b]: the pack that the last index line of b names
    own,            \* the contents that this device's ops and entries name
    adopted,        \* the contents of the files it took from peers
    call,           \* call[c]: what the caller c is doing
    crashes, rejects

mem  == <<memCache, pending, packBuffer, index, nextPackId>>
disk == <<packs, young, lines>>
refs == <<own, adopted>>
vars == <<mem, disk, refs, call, crashes, rejects>>

Writers    == {"put", "capture", "apply"}
Collectors == {"gc", "consolidate"}

Idle == [pass |-> "none", at |-> "idle", blobs |-> {}, pack |-> 0, body |-> {}, keep |-> {},
         members |-> [b \in Blobs |-> NoPack], todo |-> {}, batch |-> {}, old |-> {}, dirty |-> FALSE]

At(c, place) == call[c].at = place

Packs(loc) == {loc[b] : b \in Blobs} \ {NoPack}
In(loc, p) == {b \in Blobs : loc[b] = p}

\* The blobs that a load would find and read.
Stored == {b \in Blobs : lines[b] \in DOMAIN packs /\ b \in packs[lines[b]]}

\* getFromPack reads the same of the index in memory.
Readable(b) == index[b] \in DOMAIN packs /\ b \in packs[index[b]]

----------------------------------------------------------------------------
(* Writing *)

\* evictToBudget: a blob that is pending is not evicted, the others all fit or none does.
Evicted(cache, kept) == {cache, cache \cap kept}

hasStored(b) == b \in memCache \/ index[b] # NoPack

\* Fault: a blob that the index knows is not buffered again.
putUnlessIndexed(b) ==
    IF hasStored(b) \/ b \in pending
    THEN UNCHANGED <<memCache, pending, packBuffer>>
    ELSE /\ pending' = pending \cup {b}
         /\ memCache' \in Evicted(memCache \cup {b}, pending')
         /\ packBuffer' = packBuffer \cup {b}

putBuffered(b) ==
    IF b \in memCache \cup pending
    THEN UNCHANGED <<memCache, pending, packBuffer>>
    ELSE /\ pending' = pending \cup {b}
         /\ memCache' \in Evicted(memCache \cup {b}, pending')
         /\ packBuffer' = packBuffer \cup {b}

\* put: buffer and flush.
Put(c, b) ==
    /\ At(c, "idle") /\ nextPackId < MaxPacks
    /\ putBuffered(b)
    /\ call' = [call EXCEPT ![c] = [Idle EXCEPT !.pass = "put", !.at = "flush", !.blobs = {b}]]
    /\ UNCHANGED <<index, nextPackId, disk, refs, crashes, rejects>>

Begin(c, pass) ==
    /\ At(c, "idle") /\ nextPackId < MaxPacks
    /\ call' = [call EXCEPT ![c] = [Idle EXCEPT !.pass = pass, !.at = "staging"]]
    /\ UNCHANGED <<mem, disk, refs, crashes, rejects>>

\* captureOfflineChanges buffers what it finds.
Capture(c, b) ==
    /\ At(c, "staging") /\ call[c].pass = "capture"
    /\ putBuffered(b)
    /\ call' = [call EXCEPT ![c].blobs = @ \cup {b}]
    /\ UNCHANGED <<index, nextPackId, disk, refs, crashes, rejects>>

\* write_local of the applicator buffers no blob that the store says it has.
Adopt(c, b) ==
    /\ At(c, "staging") /\ call[c].pass = "apply"
    /\ IF hasStored(b) THEN UNCHANGED <<memCache, pending, packBuffer>> ELSE putBuffered(b)
    /\ call' = [call EXCEPT ![c].blobs = @ \cup {b}]
    /\ UNCHANGED <<index, nextPackId, disk, refs, crashes, rejects>>

\* PackCheckpoint.flush
Checkpoint(c) ==
    /\ At(c, "staging") /\ call[c].blobs # {}
    /\ call' = [call EXCEPT ![c].at = "flush"]
    /\ UNCHANGED <<mem, disk, refs, crashes, rejects>>

AfterFlush(c) ==
    CASE call[c].pass \in Writers -> "record"
      [] call[c].pass \in Collectors -> IF call[c].old = {} THEN "sorting" ELSE "remove"

\* flushPack with an empty buffer
FlushNothing(c) ==
    /\ At(c, "flush") /\ packBuffer = {}
    /\ call' = [call EXCEPT ![c].at = AfterFlush(c)]
    /\ UNCHANGED <<mem, disk, refs, crashes, rejects>>

\* flushPack up to its first await: the index has the new place before the bytes are there.
StartFlush(c) ==
    /\ At(c, "flush") /\ packBuffer # {}
    /\ nextPackId' = nextPackId + 1
    /\ index' = [b \in Blobs |-> IF b \in packBuffer THEN nextPackId ELSE index[b]]
    /\ call' = [call EXCEPT ![c].at = "body", ![c].pack = nextPackId, ![c].body = packBuffer]
    /\ UNCHANGED <<memCache, pending, packBuffer, disk, refs, crashes, rejects>>

\* The append creates the pack.  To a file that is there it adds bytes that no line finds.
PackAfter(id, body) == [p \in {id} \cup DOMAIN packs |-> IF p \in DOMAIN packs THEN packs[p] ELSE body]

BodyAppended(c) ==
    /\ At(c, "body")
    /\ packs' = PackAfter(call[c].pack, call[c].body)
    /\ young' = young \cup {call[c].pack}
    /\ call' = [call EXCEPT ![c].at = "lines"]
    /\ UNCHANGED <<mem, lines, refs, crashes, rejects>>

LinesWith(ls, body, p) == [b \in Blobs |-> IF b \in body THEN p ELSE ls[b]]

LinesAppended(c) ==
    /\ At(c, "lines")
    /\ lines' = LinesWith(lines, call[c].body, call[c].pack)
    /\ packBuffer' = {} /\ pending' = {}
    /\ memCache' \in Evicted(memCache, {})
    /\ call' = [call EXCEPT ![c].at = AfterFlush(c), ![c].pack = 0, ![c].body = {}]
    /\ UNCHANGED <<index, nextPackId, packs, young, refs, crashes, rejects>>

\* The ops and entries that name the blobs are written once the flush is through.  A bulk
\* pass may drop the cache and goes on.
Record(c) ==
    /\ At(c, "record")
    /\ IF call[c].pass = "apply"
       THEN adopted' = adopted \cup call[c].blobs /\ own' = own
       ELSE own' = own \cup call[c].blobs /\ adopted' = adopted
    /\ \/ memCache' = memCache
       \/ call[c].pass # "put" /\ memCache' = {}
    /\ call' = [call EXCEPT ![c] = Idle]
    /\ UNCHANGED <<pending, packBuffer, index, nextPackId, disk, crashes, rejects>>

\* A write is rejected, and the pass ends.  What was buffered stays.
WriteRejects(c) ==
    /\ crashes + rejects < MaxFaults /\ rejects' = rejects + 1
    /\ call[c].at \in {"body", "lines", "rewriting"}
    /\ call' = [call EXCEPT ![c] = Idle]
    /\ UNCHANGED <<mem, disk, refs, crashes>>

----------------------------------------------------------------------------
(* Reading and forgetting *)

\* get: a pack that is read is cached whole.
Get(c, b) ==
    /\ At(c, "idle") /\ b \notin memCache /\ Readable(b)
    /\ memCache' \in Evicted(memCache \cup {x \in In(index, index[b]) : Readable(x)}, pending)
    /\ UNCHANGED <<pending, packBuffer, index, nextPackId, disk, refs, call, crashes, rejects>>

\* The retention window passes; no await takes that long.
Age ==
    /\ young # {} /\ \A c \in Callers : At(c, "idle")
    /\ young' = {}
    /\ UNCHANGED <<mem, packs, lines, refs, call, crashes, rejects>>

\* A file is deleted or has another text: nothing names the old one any more.
Forget(c, b) ==
    /\ At(c, "idle") /\ b \in own \cup adopted
    /\ own' = own \ {b} /\ adopted' = adopted \ {b}
    /\ UNCHANGED <<mem, disk, call, crashes, rejects>>

----------------------------------------------------------------------------
(* Collecting *)

\* One pass at a time (gcInProgress); what it keeps and which packs it looks at is settled
\* when it starts.
BeginCollecting(c, pass) ==
    /\ At(c, "idle") /\ \A d \in Callers : call[d].pass \notin Collectors
    /\ pass = "consolidate" => nextPackId + Cardinality(Packs(index)) <= MaxPacks
    /\ call' = [call EXCEPT ![c] = [Idle EXCEPT !.pass = pass, !.at = "sorting",
                    !.keep = own \cup adopted, !.members = index, !.todo = Packs(index)]]
    /\ UNCHANGED <<mem, disk, refs, crashes, rejects>>

LiveIn(c, p) == In(call[c].members, p) \cap call[c].keep

\* packAged: a pack that cannot be dated stays.  The consolidation does not look at the age.
Due(c, p) == call[c].pass = "gc" => p \in DOMAIN packs \ young

RemovePack(p) == packs' = Restrict(packs, DOMAIN packs \ {p}) /\ young' = young \ {p}

\* At the bound MaxPacks gc rewrites no pack.
Room(c) == nextPackId + Cardinality(call[c].batch) < MaxPacks

\* gc rewrites a pack less than half live and leaves the other live ones; consolidatePacks
\* leaves one that is live and large.
MostlyDead(c, p) == 2 * Cardinality(LiveIn(c, p)) < Cardinality(In(call[c].members, p))

KeepPack(c, p) ==
    /\ At(c, "sorting") /\ p \in call[c].todo
    /\ IF call[c].pass = "gc" THEN Due(c, p) => ~ (MostlyDead(c, p) /\ Room(c))
       ELSE LiveIn(c, p) = In(call[c].members, p)
    /\ call' = [call EXCEPT ![c].todo = @ \ {p}]
    /\ UNCHANGED <<mem, disk, refs, crashes, rejects>>

\* A pack without live blobs is removed,
Retire(c, p) ==
    /\ At(c, "sorting") /\ p \in call[c].todo /\ Due(c, p) /\ LiveIn(c, p) = {}
    /\ RemovePack(p)
    /\ call' = [call EXCEPT ![c].at = "retired", ![c].pack = p, ![c].todo = @ \ {p}, ![c].dirty = TRUE]
    /\ UNCHANGED <<mem, lines, refs, crashes, rejects>>

\* and then its blobs are dropped, wherever the index has them now.
RetireForgets(c) ==
    LET dead == In(call[c].members, call[c].pack) IN
    /\ At(c, "retired")
    /\ index' = [b \in Blobs |-> IF b \in dead THEN NoPack ELSE index[b]]
    /\ memCache' = memCache \ dead
    /\ call' = [call EXCEPT ![c].at = "sorting", ![c].pack = 0]
    /\ UNCHANGED <<pending, packBuffer, nextPackId, disk, refs, crashes, rejects>>

\* Packs to rewrite wait until the dead ones are gone.
Defers(c, p) ==
    /\ At(c, "sorting") /\ p \in call[c].todo /\ Due(c, p) /\ LiveIn(c, p) # {}
    /\ call[c].pass = "gc" => MostlyDead(c, p) /\ Room(c)
    /\ call' = [call EXCEPT ![c].todo = @ \ {p}, ![c].batch = @ \cup {p}]
    /\ UNCHANGED <<mem, disk, refs, crashes, rejects>>

\* compactPack rewrites one pack with what get finds, in the cache too, and marks it as
\* pending; the consolidation also streams small packs, several of them into one flush.
Compact(c, p) ==
    LET live == {b \in call[c].keep : index[b] = p /\ (b \in memCache \/ Readable(b))} IN
    /\ At(c, "sorting") /\ call[c].todo = {} /\ p \in call[c].batch
    /\ LiveIn(c, p) # In(call[c].members, p)
    /\ packBuffer' = packBuffer \cup live /\ pending' = pending \cup live
    /\ memCache' \in Evicted(memCache \cup live, pending')
    /\ call' = [call EXCEPT ![c].at = "flush", ![c].old = {p}, ![c].batch = @ \ {p},
                                      ![c].dirty = TRUE]
    /\ UNCHANGED <<index, nextPackId, disk, refs, crashes, rejects>>

\* A pack whose file is gone is passed over.
Stream(c, ps) ==
    LET there == ps \cap DOMAIN packs IN
    /\ At(c, "sorting") /\ call[c].todo = {} /\ call[c].pass = "consolidate"
    /\ ps # {} /\ ps \subseteq call[c].batch
    /\ packBuffer' = packBuffer \cup {b \in call[c].keep : index[b] \in there /\ Readable(b)}
    /\ call' = [call EXCEPT ![c].at = "flush", ![c].old = there, ![c].batch = @ \ ps,
                                      ![c].dirty = TRUE]
    /\ UNCHANGED <<memCache, pending, index, nextPackId, disk, refs, crashes, rejects>>

\* Once the blobs are in a new pack the old one goes, and what the index still has there.
RemoveOld(c, p) ==
    /\ At(c, "remove") /\ p \in call[c].old
    /\ RemovePack(p)
    /\ call' = [call EXCEPT ![c].at = "removed", ![c].pack = p, ![c].old = @ \ {p}]
    /\ UNCHANGED <<mem, lines, refs, crashes, rejects>>

RemoveForgets(c) ==
    LET gone == In(index, call[c].pack) IN
    /\ At(c, "removed")
    /\ index' = [b \in Blobs |-> IF b \in gone THEN NoPack ELSE index[b]]
    /\ memCache' = memCache \ gone
    /\ call' = [call EXCEPT ![c].at = IF call[c].old = {} THEN "sorting" ELSE "remove", ![c].pack = 0]
    /\ UNCHANGED <<pending, packBuffer, nextPackId, disk, refs, crashes, rejects>>

\* rewriteIndex, after a pass that moved or removed anything
StartRewrite(c) ==
    /\ At(c, "sorting") /\ call[c].todo = {} /\ call[c].batch = {} /\ call[c].dirty
    /\ call' = [call EXCEPT ![c].at = "rewriting", ![c].members = index]
    /\ UNCHANGED <<mem, disk, refs, crashes, rejects>>

IndexRewritten(c) ==
    /\ At(c, "rewriting")
    /\ lines' = call[c].members
    /\ call' = [call EXCEPT ![c] = Idle]
    /\ UNCHANGED <<mem, packs, young, refs, crashes, rejects>>

NothingToCollect(c) ==
    /\ At(c, "sorting") /\ call[c].todo = {} /\ call[c].batch = {} /\ ~ call[c].dirty
    /\ call' = [call EXCEPT ![c] = Idle]
    /\ UNCHANGED <<mem, disk, refs, crashes, rejects>>

----------------------------------------------------------------------------
(* Crash and load *)

\* What is on the disk of an append that a crash cut off: some of its blobs or lines.
TornPacks(c) ==
    IF At(c, "body") THEN {packs} \cup {PackAfter(call[c].pack, s) : s \in SUBSET call[c].body}
    ELSE {packs}

TornLines(c) ==
    IF At(c, "lines") THEN {LinesWith(lines, s, call[c].pack) : s \in SUBSET call[c].body}
    ELSE {lines}

\* Fault: the counter resumes after the packs that the index knows.
NextIndexedPack(ps, ls) == IF Packs(ls) = {} THEN 0 ELSE Max(Packs(ls)) + 1

\* loadPackIndex lists the directory: the index need not know every pack.
NextPack(ps, ls) == IF DOMAIN ps = {} THEN 0 ELSE Max(DOMAIN ps) + 1

\* The app is killed and started again.
Crash(c) ==
    /\ crashes + rejects < MaxFaults /\ crashes' = crashes + 1
    /\ packs' \in TornPacks(c) /\ lines' \in TornLines(c)
    /\ young' = young \cup (DOMAIN packs' \ DOMAIN packs)
    /\ index' = lines'
    /\ nextPackId' = NextPack(packs', lines')
    /\ memCache' = {} /\ pending' = {} /\ packBuffer' = {}
    /\ call' = [d \in Callers |-> Idle]
    /\ UNCHANGED <<refs, rejects>>

----------------------------------------------------------------------------

Init ==
    /\ memCache = {} /\ pending = {} /\ packBuffer = {}
    /\ index = [b \in Blobs |-> NoPack] /\ lines = index
    /\ nextPackId = 0 /\ packs = [p \in {} |-> {}] /\ young = {}
    /\ own = {} /\ adopted = {}
    /\ call = [c \in Callers |-> Idle]
    /\ crashes = 0 /\ rejects = 0

Write(c) ==
    \/ \E b \in Blobs : Put(c, b) \/ Capture(c, b) \/ Adopt(c, b)
    \/ Begin(c, "capture") \/ Begin(c, "apply")
    \/ Checkpoint(c) \/ FlushNothing(c) \/ StartFlush(c) \/ BodyAppended(c) \/ LinesAppended(c)
    \/ Record(c) \/ WriteRejects(c)

Collect(c) ==
    \/ BeginCollecting(c, "gc") \/ BeginCollecting(c, "consolidate")
    \/ \E p \in call[c].todo : KeepPack(c, p) \/ Retire(c, p) \/ Defers(c, p)
    \/ \E p \in call[c].batch : Compact(c, p)
    \/ \E ps \in SUBSET call[c].batch : Stream(c, ps)
    \/ \E p \in call[c].old : RemoveOld(c, p)
    \/ RetireForgets(c) \/ RemoveForgets(c) \/ StartRewrite(c) \/ IndexRewritten(c) \/ NothingToCollect(c)

Next ==
    \/ \E c \in Callers : Write(c) \/ Collect(c) \/ Crash(c) \/ \E b \in Blobs : Get(c, b) \/ Forget(c, b)
    \/ Age

Spec == Init /\ [][Next]_vars

----------------------------------------------------------------------------
(* Properties *)

\* The kinds of the state.  What is pending is buffered or has just been.
TypeOK ==
    /\ memCache \subseteq Blobs /\ pending \subseteq Blobs /\ packBuffer \subseteq Blobs
    /\ index \in [Blobs -> Nat \cup {NoPack}] /\ nextPackId \in Nat
    /\ DOMAIN packs \subseteq 0..(nextPackId - 1) /\ \A p \in DOMAIN packs : packs[p] \subseteq Blobs
    /\ own \subseteq Blobs /\ adopted \subseteq Blobs

\* Blob before op, and no collection takes a blob that is named: what this device's ops and
\* entries name can be read after a restart.  A crash at any point, in the middle of a
\* collection too, does not change that; nor does a rejected write while the app runs on,
\* for what was not written is still buffered (flushPack, gc, compactPack).
NamedIsStored ==
    /\ rejects = 0 => own \subseteq Stored
    /\ crashes = 0 => own \cup adopted \subseteq Stored \cup packBuffer

\* No flush writes to a pack that is there, whatever of the index was lost (loadPackIndex).
PacksAreWrittenOnce ==
    [][\A c \in Callers : At(c, "body") /\ At(c, "lines")' => call[c].pack \notin DOMAIN packs]_vars

\* What the applicator took over can be read after a restart, too.
AdoptedIsStored == adopted \subseteq Stored
=============================================================================
