------------------------- MODULE ContentStore_proofs -------------------------
(***************************************************************************)
(* The properties of ContentStore for every set of blobs and callers, and, *)
(* as long as no two calls overlap, that no content which is named is lost.*)
(***************************************************************************)
EXTENDS ContentStore, FiniteSetTheorems, WellFoundedInduction, TLAPS

----------------------------------------------------------------------------
(* Lemmas about the operators *)

\* A bounded set of ids has a largest one, which loadPackIndex resumes after.
LEMMA BoundedHasMax ==
    ASSUME NEW S \in SUBSET Nat, NEW n \in Nat, S # {}, \A s \in S : s <= n
    PROVE  Max(S) \in S /\ \A s \in S : s <= Max(S)
<1> DEFINE U == {u \in Nat : \A s \in S : s <= u}
<1>1. U \subseteq Nat /\ U # {}
    OBVIOUS
<1>2. PICK u \in U : \A v \in U : ~ (<<v, u>> \in OpToRel(<, Nat))
    <2> HIDE DEF U
    <2> QED BY <1>1, NatLessThanWellFounded, WFMin
<1>3. ASSUME NEW v \in U PROVE u <= v
    <2>1. v \in Nat /\ u \in Nat
        BY <1>1
    <2>2. ~ (v < u)
        BY <1>2, <2>1 DEF OpToRel
    <2> QED BY <2>1, <2>2
<1>4. u \in S
    <2> SUFFICES ASSUME u \notin S PROVE FALSE
        OBVIOUS
    <2>1. PICK s \in S : TRUE
        OBVIOUS
    <2>2. s \in Nat /\ u \in Nat /\ s <= u /\ s # u
        OBVIOUS
    <2>3. u - 1 \in Nat
        BY <2>2
    <2>4. u - 1 \in U
        BY <2>3
    <2> QED BY <1>3, <2>2, <2>4
<1>5. \E x \in S : \A y \in S : x >= y
    BY <1>4
<1> QED BY <1>5 DEF Max

----------------------------------------------------------------------------
(* The kinds of the state, for any number of callers *)

Places == {"idle", "staging", "flush", "body", "lines", "record", "sorting", "retired",
           "remove", "removed", "rewriting"}

Locations == [Blobs -> Nat \cup {NoPack}]

CallRecords == [pass : Writers \cup Collectors \cup {"none"}, at : Places, blobs : SUBSET Blobs,
                pack : Nat, body : SUBSET Blobs, keep : SUBSET Blobs, members : Locations,
                todo : SUBSET Nat, batch : SUBSET Nat, old : SUBSET Nat, dirty : BOOLEAN]

\* What a call carries over its awaits.
CallsTyped ==
    /\ call \in [Callers -> CallRecords] /\ lines \in Locations
    /\ crashes \in Nat /\ rejects \in Nat

\* The writers and the collectors have places of their own, and share those of the flush.
PassFits ==
    \A c \in Callers :
        /\ call[c].at \in {"staging", "record"} => call[c].pass \in Writers
        /\ call[c].at \in {"sorting", "retired", "remove", "removed", "rewriting"} =>
            call[c].pass \in Collectors
        /\ call[c].at \in {"flush", "body", "lines"} => call[c].pass \in Writers \cup Collectors

\* The id that a flush took is used by no pack yet and by no other flush.
IdTaken ==
    \A c \in Callers :
        /\ call[c].at \in {"body", "lines"} => call[c].pack < nextPackId
        /\ At(c, "body") => call[c].pack \notin DOMAIN packs
        /\ \A d \in Callers : At(c, "body") /\ At(d, "body") /\ c # d => call[c].pack # call[d].pack

TypesInv == TypeOK /\ CallsTyped /\ PassFits /\ IdTaken

----------------------------------------------------------------------------
(* What keeps the named contents, as long as no two calls overlap *)

Alone == \A c, d \in Callers : c = d

\* The index in memory says what the lines say of a blob that is not buffered, or nothing,
\* and it says it of each blob that a load would find.
IndexInv ==
    /\ pending \subseteq packBuffer
    /\ \A b \in Blobs \ packBuffer : index[b] \in {lines[b], NoPack}
    /\ \A b \in Stored \ packBuffer : index[b] # NoPack

\* The pack of c has been removed and its blobs are not forgotten yet.
Removing(c, b) ==
    \/ At(c, "retired") /\ call[c].members[b] = call[c].pack
    \/ At(c, "removed") /\ index[b] = call[c].pack

\* A blob that a put passes over is there: one that is cached, and, as long as nothing
\* crashed, one that the index knows.
KnownInv ==
    /\ \A b \in memCache : b \in Stored \cup packBuffer \/ \E c \in Callers : Removing(c, b)
    /\ crashes = 0 => \A b \in Blobs :
        index[b] # NoPack => b \in Stored \cup packBuffer \/ \E c \in Callers : Removing(c, b)

\* What is to be kept, of what the faults leave to be promised.
Named ==
    CASE crashes = 0 -> own \cup adopted
      [] crashes # 0 /\ rejects = 0 -> own
      [] crashes # 0 /\ rejects # 0 -> {}

\* A flush appends what was buffered, under an id of its own.
FlushInv ==
    \A c \in Callers :
        /\ call[c].at \in {"body", "lines"} =>
            call[c].body = packBuffer /\ \A b \in packBuffer : index[b] = call[c].pack
        /\ At(c, "lines") => call[c].pack \in DOMAIN packs /\ packs[call[c].pack] = call[c].body

\* When a pass has flushed nothing is buffered, and only a write that was rejected leaves
\* something buffered between the passes.
BufferInv ==
    \A c \in Callers :
        /\ call[c].at \in {"record", "remove", "removed"} => packBuffer = {}
        /\ rejects = 0 /\ call[c].at \in {"idle", "sorting", "retired", "rewriting"} => packBuffer = {}

\* What a writer is about to name is there.
WriterInv ==
    \A c \in Callers :
        call[c].pass \in Writers /\ call[c].at # "idle" /\ (crashes = 0 \/ call[c].pass # "apply") =>
            call[c].blobs \subseteq Stored \cup packBuffer

\* A collection works on what the index said when it began, until it has sorted the packs,
\* and the packs it is about to remove hold nothing that is named.
CollectorInv ==
    \A c \in Callers :
        /\ call[c].pass \in Collectors /\ call[c].at # "idle" => own \cup adopted \subseteq call[c].keep
        /\ call[c].pass \in Writers => call[c].old = {}
        /\ call[c].at \in {"flush", "body", "lines", "remove", "removed"} /\ call[c].pass \in Collectors =>
            call[c].todo = {}
        /\ At(c, "retired") \/ (At(c, "sorting") /\ call[c].todo # {}) =>
            \A b \in Blobs : index[b] \in {call[c].members[b], NoPack}
        /\ call[c].at \in {"retired", "removed"} => call[c].pack \notin DOMAIN packs
        /\ At(c, "rewriting") => call[c].members = index
        /\ At(c, "flush") => \A b \in Named :
            /\ index[b] \in call[c].old => b \in packBuffer
            /\ b \in packBuffer => \A p \in call[c].old : p < nextPackId
        /\ call[c].at \in {"body", "lines", "remove", "removed"} =>
            \A b \in Named : index[b] \notin call[c].old

\* As long as nothing crashed no id is known that was not given out.
GivenInv ==
    crashes = 0 =>
        /\ \A b \in Blobs : index[b] # NoPack => index[b] < nextPackId
        /\ \A c \in Callers : \A p \in call[c].todo \cup call[c].batch : p < nextPackId

KeptInv ==
    /\ TypesInv /\ IndexInv /\ KnownInv /\ FlushInv /\ BufferInv /\ WriterInv /\ CollectorInv
    /\ GivenInv /\ NamedIsStored

LEMMA IdleIsACall == Idle \in CallRecords
BY DEF Idle, CallRecords, Places, Locations

\* An update of a call's fields is a call.
LEMMA AtOfACall ==
    ASSUME NEW r \in CallRecords, NEW a \in Places
    PROVE  [r EXCEPT !.at = a] \in CallRecords
BY DEF CallRecords

LEMMA BlobsOfACall ==
    ASSUME NEW r \in CallRecords, NEW S \in SUBSET Blobs
    PROVE  [r EXCEPT !.blobs = S] \in CallRecords
BY DEF CallRecords

LEMMA TodoOfACall ==
    ASSUME NEW r \in CallRecords, NEW P \in SUBSET Nat
    PROVE  [r EXCEPT !.todo = P] \in CallRecords
BY DEF CallRecords

LEMMA BatchOfACall ==
    ASSUME NEW r \in CallRecords, NEW P \in SUBSET Nat, NEW Q \in SUBSET Nat
    PROVE  [r EXCEPT !.todo = P, !.batch = Q] \in CallRecords
BY DEF CallRecords

LEMMA PackOfACall ==
    ASSUME NEW r \in CallRecords, NEW a \in Places, NEW n \in Nat
    PROVE  [r EXCEPT !.at = a, !.pack = n] \in CallRecords
BY DEF CallRecords

LEMMA BodyOfACall ==
    ASSUME NEW r \in CallRecords, NEW a \in Places, NEW n \in Nat, NEW S \in SUBSET Blobs
    PROVE  [r EXCEPT !.at = a, !.pack = n, !.body = S] \in CallRecords
BY DEF CallRecords

LEMMA MembersOfACall ==
    ASSUME NEW r \in CallRecords, NEW a \in Places, NEW m \in Locations
    PROVE  [r EXCEPT !.at = a, !.members = m] \in CallRecords
BY DEF CallRecords

LEMMA AfterFlushFits ==
    ASSUME TypesInv, NEW c \in Callers, call[c].at \in {"flush", "body", "lines"}
    PROVE  \/ call[c].pass \in Writers /\ AfterFlush(c) = "record"
           \/ /\ call[c].pass \in Collectors
              /\ AfterFlush(c) = IF call[c].old = {} THEN "sorting" ELSE "remove"
BY DEF TypesInv, PassFits, AfterFlush, Writers, Collectors

LEMMA PutTypes ==
    ASSUME TypesInv, NEW c \in Callers, NEW b \in Blobs, Put(c, b)
    PROVE  TypesInv'
<1> USE NoPackAssumption DEF TypesInv, TypeOK, CallsTyped, CallRecords, Locations, At, mem,
    disk, refs, Put, putBuffered, Evicted
<1>1. TypeOK'
    BY DEF IdTaken
<1>2. CallsTyped'
    <2>1. call' = [call EXCEPT ![c] = call'[c]]
        OBVIOUS
    <2>2. call'[c] \in CallRecords
        BY IdleIsACall DEF Places, Writers, Collectors
    <2> QED BY <2>1, <2>2
<1>3. PassFits'
    BY DEF PassFits, Writers, Collectors, Idle
<1>4. IdTaken'
    BY DEF IdTaken, Idle
<1> QED BY <1>1, <1>2, <1>3, <1>4

LEMMA BeginTypes ==
    ASSUME TypesInv, NEW c \in Callers, NEW p \in {"capture", "apply"}, Begin(c, p)
    PROVE  TypesInv'
<1> USE NoPackAssumption DEF TypesInv, TypeOK, CallsTyped, CallRecords, Locations, At, mem,
    disk, refs, Begin
<1>1. TypeOK'
    BY DEF IdTaken
<1>2. CallsTyped'
    <2>1. call' = [call EXCEPT ![c] = call'[c]]
        OBVIOUS
    <2>2. call'[c] \in CallRecords
        BY IdleIsACall DEF Places, Writers, Collectors
    <2> QED BY <2>1, <2>2
<1>3. PassFits'
    BY DEF PassFits, Writers, Collectors, Idle
<1>4. IdTaken'
    BY DEF IdTaken, Idle
<1> QED BY <1>1, <1>2, <1>3, <1>4

LEMMA CaptureTypes ==
    ASSUME TypesInv, NEW c \in Callers, NEW b \in Blobs, Capture(c, b)
    PROVE  TypesInv'
<1> USE NoPackAssumption DEF TypesInv, TypeOK, CallsTyped, CallRecords, Locations, At, mem,
    disk, refs, Capture, putBuffered, Evicted
<1>1. TypeOK'
    BY DEF IdTaken
<1>2. CallsTyped'
    <2>1. call' = [call EXCEPT ![c] = call'[c]]
        OBVIOUS
    <2>2. call'[c] \in CallRecords
        <3>1. \E S \in SUBSET Blobs : call'[c] = [call[c] EXCEPT !.blobs = S]
            OBVIOUS
        <3>2. call[c] \in CallRecords
            OBVIOUS
        <3> HIDE DEF TypesInv, TypeOK, CallsTyped, CallRecords, Locations, Capture
        <3> QED BY <3>1, <3>2, BlobsOfACall
    <2> QED BY <2>1, <2>2
<1>3. PassFits'
    BY DEF PassFits, Writers, Collectors, Idle
<1>4. IdTaken'
    BY DEF IdTaken, Idle
<1> QED BY <1>1, <1>2, <1>3, <1>4

LEMMA AdoptTypes ==
    ASSUME TypesInv, NEW c \in Callers, NEW b \in Blobs, Adopt(c, b)
    PROVE  TypesInv'
<1> USE NoPackAssumption DEF TypesInv, TypeOK, CallsTyped, CallRecords, Locations, At, mem,
    disk, refs, Adopt, putBuffered, Evicted, hasStored
<1>1. TypeOK'
    BY DEF IdTaken
<1>2. CallsTyped'
    <2>1. call' = [call EXCEPT ![c] = call'[c]]
        OBVIOUS
    <2>2. call'[c] \in CallRecords
        <3>1. \E S \in SUBSET Blobs : call'[c] = [call[c] EXCEPT !.blobs = S]
            OBVIOUS
        <3>2. call[c] \in CallRecords
            OBVIOUS
        <3> HIDE DEF TypesInv, TypeOK, CallsTyped, CallRecords, Locations, Adopt
        <3> QED BY <3>1, <3>2, BlobsOfACall
    <2> QED BY <2>1, <2>2
<1>3. PassFits'
    BY DEF PassFits, Writers, Collectors, Idle
<1>4. IdTaken'
    BY DEF IdTaken, Idle
<1> QED BY <1>1, <1>2, <1>3, <1>4

LEMMA CheckpointTypes ==
    ASSUME TypesInv, NEW c \in Callers, Checkpoint(c)
    PROVE  TypesInv'
<1> USE NoPackAssumption DEF TypesInv, TypeOK, CallsTyped, CallRecords, Locations, At, mem,
    disk, refs, Checkpoint
<1>1. TypeOK'
    BY DEF IdTaken
<1>2. CallsTyped'
    <2>1. call' = [call EXCEPT ![c] = call'[c]]
        OBVIOUS
    <2>2. call'[c] \in CallRecords
        <3>1. \E a \in Places : call'[c] = [call[c] EXCEPT !.at = a]
            BY DEF Places
        <3>2. call[c] \in CallRecords
            OBVIOUS
        <3> HIDE DEF TypesInv, TypeOK, CallsTyped, CallRecords, Locations, Checkpoint
        <3> QED BY <3>1, <3>2, AtOfACall
    <2> QED BY <2>1, <2>2
<1>3. PassFits'
    BY DEF PassFits, Writers, Collectors, Idle
<1>4. IdTaken'
    BY DEF IdTaken, Idle
<1> QED BY <1>1, <1>2, <1>3, <1>4

LEMMA FlushNothingTypes ==
    ASSUME TypesInv, NEW c \in Callers, FlushNothing(c)
    PROVE  TypesInv'
<1> USE NoPackAssumption DEF TypesInv, TypeOK, CallsTyped, CallRecords, Locations, At, mem,
    disk, refs, FlushNothing
<1>1. TypeOK'
    BY DEF IdTaken
<1>2. CallsTyped'
    <2>1. call' = [call EXCEPT ![c] = call'[c]]
        OBVIOUS
    <2>2. call'[c] \in CallRecords
        <3>1. \E a \in Places : call'[c] = [call[c] EXCEPT !.at = a]
            BY AfterFlushFits DEF Places
        <3>2. call[c] \in CallRecords
            OBVIOUS
        <3> HIDE DEF TypesInv, TypeOK, CallsTyped, CallRecords, Locations, FlushNothing
        <3> QED BY <3>1, <3>2, AtOfACall
    <2> QED BY <2>1, <2>2
<1>3. PassFits'
    BY AfterFlushFits DEF PassFits, Writers, Collectors, Idle
<1>4. IdTaken'
    BY AfterFlushFits DEF IdTaken, Idle
<1> QED BY <1>1, <1>2, <1>3, <1>4

LEMMA StartFlushTypes ==
    ASSUME TypesInv, NEW c \in Callers, StartFlush(c)
    PROVE  TypesInv'
<1> USE NoPackAssumption DEF TypesInv, TypeOK, CallsTyped, CallRecords, Locations, At, mem,
    disk, refs, StartFlush
<1>1. TypeOK'
    BY DEF IdTaken
<1>2. CallsTyped'
    <2>1. call' = [call EXCEPT ![c] = call'[c]]
        OBVIOUS
    <2>2. call'[c] \in CallRecords
        <3>1. \E a \in Places, n \in Nat, S \in SUBSET Blobs :
                  call'[c] = [call[c] EXCEPT !.at = a, !.pack = n, !.body = S]
            BY DEF Places
        <3>2. call[c] \in CallRecords
            OBVIOUS
        <3> HIDE DEF TypesInv, TypeOK, CallsTyped, CallRecords, Locations, StartFlush
        <3>3. PICK a \in Places, n \in Nat, S \in SUBSET Blobs :
                  call'[c] = [call[c] EXCEPT !.at = a, !.pack = n, !.body = S]
            BY <3>1
        <3>4. [call[c] EXCEPT !.at = a, !.pack = n, !.body = S] \in CallRecords
            BY <3>2, BodyOfACall, Zenon
        <3> QED BY <3>3, <3>4
    <2> QED BY <2>1, <2>2
<1>3. PassFits'
    BY DEF PassFits, Writers, Collectors, Idle
<1>4. IdTaken'
    BY DEF IdTaken, Idle
<1> QED BY <1>1, <1>2, <1>3, <1>4

LEMMA BodyAppendedTypes ==
    ASSUME TypesInv, NEW c \in Callers, BodyAppended(c)
    PROVE  TypesInv'
<1> USE NoPackAssumption DEF TypesInv, TypeOK, CallsTyped, CallRecords, Locations, At, mem,
    disk, refs, BodyAppended, PackAfter
<1>1. TypeOK'
    BY DEF IdTaken
<1>2. CallsTyped'
    <2>1. call' = [call EXCEPT ![c] = call'[c]]
        OBVIOUS
    <2>2. call'[c] \in CallRecords
        <3>1. \E a \in Places : call'[c] = [call[c] EXCEPT !.at = a]
            BY DEF Places
        <3>2. call[c] \in CallRecords
            OBVIOUS
        <3> HIDE DEF TypesInv, TypeOK, CallsTyped, CallRecords, Locations, BodyAppended
        <3> QED BY <3>1, <3>2, AtOfACall
    <2> QED BY <2>1, <2>2
<1>3. PassFits'
    BY DEF PassFits, Writers, Collectors, Idle
<1>4. IdTaken'
    BY DEF IdTaken, Idle
<1> QED BY <1>1, <1>2, <1>3, <1>4

LEMMA LinesAppendedTypes ==
    ASSUME TypesInv, NEW c \in Callers, LinesAppended(c)
    PROVE  TypesInv'
<1> USE NoPackAssumption DEF TypesInv, TypeOK, CallsTyped, CallRecords, Locations, At, mem,
    disk, refs, LinesAppended, LinesWith, Evicted
<1>1. TypeOK'
    BY DEF IdTaken
<1>2. CallsTyped'
    <2>1. call' = [call EXCEPT ![c] = call'[c]]
        OBVIOUS
    <2>2. call'[c] \in CallRecords
        <3>1. \E a \in Places, n \in Nat, S \in SUBSET Blobs :
                  call'[c] = [call[c] EXCEPT !.at = a, !.pack = n, !.body = S]
            BY AfterFlushFits DEF Places
        <3>2. call[c] \in CallRecords
            OBVIOUS
        <3> HIDE DEF TypesInv, TypeOK, CallsTyped, CallRecords, Locations, LinesAppended
        <3>3. PICK a \in Places, n \in Nat, S \in SUBSET Blobs :
                  call'[c] = [call[c] EXCEPT !.at = a, !.pack = n, !.body = S]
            BY <3>1
        <3>4. [call[c] EXCEPT !.at = a, !.pack = n, !.body = S] \in CallRecords
            BY <3>2, BodyOfACall, Zenon
        <3> QED BY <3>3, <3>4
    <2> QED BY <2>1, <2>2
<1>3. PassFits'
    BY AfterFlushFits DEF PassFits, Writers, Collectors, Idle
<1>4. IdTaken'
    BY AfterFlushFits DEF IdTaken, Idle
<1> QED BY <1>1, <1>2, <1>3, <1>4

LEMMA RecordTypes ==
    ASSUME TypesInv, NEW c \in Callers, Record(c)
    PROVE  TypesInv'
<1> USE NoPackAssumption DEF TypesInv, TypeOK, CallsTyped, CallRecords, Locations, At, mem,
    disk, refs, Record
<1>1. TypeOK'
    BY DEF IdTaken
<1>2. CallsTyped'
    <2>1. call' = [call EXCEPT ![c] = call'[c]]
        OBVIOUS
    <2>2. call'[c] \in CallRecords
        BY IdleIsACall DEF Places, Writers, Collectors
    <2> QED BY <2>1, <2>2
<1>3. PassFits'
    BY DEF PassFits, Writers, Collectors, Idle
<1>4. IdTaken'
    BY DEF IdTaken, Idle
<1> QED BY <1>1, <1>2, <1>3, <1>4

LEMMA WriteRejectsTypes ==
    ASSUME TypesInv, NEW c \in Callers, WriteRejects(c)
    PROVE  TypesInv'
<1> USE NoPackAssumption DEF TypesInv, TypeOK, CallsTyped, CallRecords, Locations, At, mem,
    disk, refs, WriteRejects
<1>1. TypeOK'
    BY DEF IdTaken
<1>2. CallsTyped'
    <2>1. call' = [call EXCEPT ![c] = call'[c]]
        OBVIOUS
    <2>2. call'[c] \in CallRecords
        BY IdleIsACall DEF Places, Writers, Collectors
    <2> QED BY <2>1, <2>2
<1>3. PassFits'
    BY DEF PassFits, Writers, Collectors, Idle
<1>4. IdTaken'
    BY DEF IdTaken, Idle
<1> QED BY <1>1, <1>2, <1>3, <1>4

LEMMA GetTypes ==
    ASSUME TypesInv, NEW c \in Callers, NEW b \in Blobs, Get(c, b)
    PROVE  TypesInv'
<1> USE NoPackAssumption DEF TypesInv, TypeOK, CallsTyped, CallRecords, Locations, At, mem,
    disk, refs, Get, Evicted, In
<1>1. TypeOK'
    BY DEF IdTaken
<1>2. CallsTyped'
    <2>1. call' = [call EXCEPT ![c] = call'[c]]
        OBVIOUS
    <2>2. call'[c] \in CallRecords
        BY IdleIsACall DEF Places, Writers, Collectors
    <2> QED BY <2>1, <2>2
<1>3. PassFits'
    BY DEF PassFits, Writers, Collectors, Idle
<1>4. IdTaken'
    BY DEF IdTaken, Idle
<1> QED BY <1>1, <1>2, <1>3, <1>4

LEMMA ForgetTypes ==
    ASSUME TypesInv, NEW c \in Callers, NEW b \in Blobs, Forget(c, b)
    PROVE  TypesInv'
<1> USE NoPackAssumption DEF TypesInv, TypeOK, CallsTyped, CallRecords, Locations, At, mem,
    disk, refs, Forget
<1>1. TypeOK'
    BY DEF IdTaken
<1>2. CallsTyped'
    <2>1. call' = [call EXCEPT ![c] = call'[c]]
        OBVIOUS
    <2>2. call'[c] \in CallRecords
        BY IdleIsACall DEF Places, Writers, Collectors
    <2> QED BY <2>1, <2>2
<1>3. PassFits'
    BY DEF PassFits, Writers, Collectors, Idle
<1>4. IdTaken'
    BY DEF IdTaken, Idle
<1> QED BY <1>1, <1>2, <1>3, <1>4

LEMMA BeginCollectingTypes ==
    ASSUME TypesInv, NEW c \in Callers, NEW p \in Collectors, BeginCollecting(c, p)
    PROVE  TypesInv'
<1> USE NoPackAssumption DEF TypesInv, TypeOK, CallsTyped, CallRecords, Locations, At, mem,
    disk, refs, BeginCollecting
<1>1. TypeOK'
    BY DEF IdTaken
<1>2. CallsTyped'
    <2>0. index \in Locations /\ Packs(index) \in SUBSET Nat /\ own \cup adopted \in SUBSET Blobs
        BY DEF Packs
    <2>1. call' = [call EXCEPT ![c] = call'[c]]
        OBVIOUS
    <2>2. call'[c] \in CallRecords
        BY <2>0, IdleIsACall DEF Places, Writers, Collectors
    <2> QED BY <2>1, <2>2
<1>3. PassFits'
    BY DEF PassFits, Writers, Collectors, Idle
<1>4. IdTaken'
    BY DEF IdTaken, Idle
<1> QED BY <1>1, <1>2, <1>3, <1>4

LEMMA KeepPackTypes ==
    ASSUME TypesInv, NEW c \in Callers, NEW p \in call[c].todo, KeepPack(c, p)
    PROVE  TypesInv'
<1> USE NoPackAssumption DEF TypesInv, TypeOK, CallsTyped, CallRecords, Locations, At, mem,
    disk, refs, KeepPack
<1>1. TypeOK'
    BY DEF IdTaken
<1>2. CallsTyped'
    <2>1. call' = [call EXCEPT ![c] = call'[c]]
        OBVIOUS
    <2>2. call'[c] \in CallRecords
        <3>1. \E P \in SUBSET Nat : call'[c] = [call[c] EXCEPT !.todo = P]
            OBVIOUS
        <3>2. call[c] \in CallRecords
            OBVIOUS
        <3> HIDE DEF TypesInv, TypeOK, CallsTyped, CallRecords, Locations, KeepPack
        <3> QED BY <3>1, <3>2, TodoOfACall
    <2> QED BY <2>1, <2>2
<1>3. PassFits'
    BY DEF PassFits, Writers, Collectors, Idle
<1>4. IdTaken'
    BY DEF IdTaken, Idle
<1> QED BY <1>1, <1>2, <1>3, <1>4

LEMMA RetireTypes ==
    ASSUME TypesInv, NEW c \in Callers, NEW p \in call[c].todo, Retire(c, p)
    PROVE  TypesInv'
<1> USE NoPackAssumption DEF TypesInv, TypeOK, CallsTyped, CallRecords, Locations, At, mem,
    disk, refs, Retire, RemovePack, Restrict
<1>1. TypeOK'
    BY DEF IdTaken
<1>2. CallsTyped'
    <2>1. call' = [call EXCEPT ![c] = call'[c]]
        OBVIOUS
    <2>2. call'[c] \in CallRecords
        BY IdleIsACall DEF Places, Writers, Collectors
    <2> QED BY <2>1, <2>2
<1>3. PassFits'
    BY DEF PassFits, Writers, Collectors, Idle
<1>4. IdTaken'
    BY DEF IdTaken, Idle
<1> QED BY <1>1, <1>2, <1>3, <1>4

LEMMA RetireForgetsTypes ==
    ASSUME TypesInv, NEW c \in Callers, RetireForgets(c)
    PROVE  TypesInv'
<1> USE NoPackAssumption DEF TypesInv, TypeOK, CallsTyped, CallRecords, Locations, At, mem,
    disk, refs, RetireForgets, In
<1>1. TypeOK'
    BY DEF IdTaken
<1>2. CallsTyped'
    <2>1. call' = [call EXCEPT ![c] = call'[c]]
        OBVIOUS
    <2>2. call'[c] \in CallRecords
        <3>1. \E a \in Places, n \in Nat : call'[c] = [call[c] EXCEPT !.at = a, !.pack = n]
            BY DEF Places
        <3>2. call[c] \in CallRecords
            OBVIOUS
        <3> HIDE DEF TypesInv, TypeOK, CallsTyped, CallRecords, Locations, RetireForgets
        <3> QED BY <3>1, <3>2, PackOfACall
    <2> QED BY <2>1, <2>2
<1>3. PassFits'
    BY DEF PassFits, Writers, Collectors, Idle
<1>4. IdTaken'
    BY DEF IdTaken, Idle
<1> QED BY <1>1, <1>2, <1>3, <1>4

LEMMA DefersTypes ==
    ASSUME TypesInv, NEW c \in Callers, NEW p \in call[c].todo, Defers(c, p)
    PROVE  TypesInv'
<1> USE NoPackAssumption DEF TypesInv, TypeOK, CallsTyped, CallRecords, Locations, At, mem,
    disk, refs, Defers
<1>1. TypeOK'
    BY DEF IdTaken
<1>2. CallsTyped'
    <2>0. call[c].batch \cup {p} \in SUBSET Nat /\ call[c].todo \ {p} \in SUBSET Nat
        OBVIOUS
    <2>1. call' = [call EXCEPT ![c] = call'[c]]
        OBVIOUS
    <2>2. call'[c] \in CallRecords
        <3>1. \E P, Q \in SUBSET Nat : call'[c] = [call[c] EXCEPT !.todo = P, !.batch = Q]
            BY <2>0
        <3>2. call[c] \in CallRecords
            OBVIOUS
        <3> HIDE DEF TypesInv, TypeOK, CallsTyped, CallRecords, Locations, Defers
        <3>3. PICK P \in SUBSET Nat, Q \in SUBSET Nat :
                  call'[c] = [call[c] EXCEPT !.todo = P, !.batch = Q]
            BY <3>1
        <3>4. [call[c] EXCEPT !.todo = P, !.batch = Q] \in CallRecords
            BY <3>2, BatchOfACall, Zenon
        <3> QED BY <3>3, <3>4
    <2> QED BY <2>1, <2>2
<1>3. PassFits'
    BY DEF PassFits, Writers, Collectors, Idle
<1>4. IdTaken'
    BY DEF IdTaken, Idle
<1> QED BY <1>1, <1>2, <1>3, <1>4

LEMMA CompactTypes ==
    ASSUME TypesInv, NEW c \in Callers, NEW p \in call[c].batch, Compact(c, p)
    PROVE  TypesInv'
<1> USE NoPackAssumption DEF TypesInv, TypeOK, CallsTyped, CallRecords, Locations, At, mem,
    disk, refs, Compact, Evicted
<1>1. TypeOK'
    BY DEF IdTaken
<1>2. CallsTyped'
    <2>1. call' = [call EXCEPT ![c] = call'[c]]
        OBVIOUS
    <2>2. call'[c] \in CallRecords
        BY IdleIsACall DEF Places, Writers, Collectors
    <2> QED BY <2>1, <2>2
<1>3. PassFits'
    BY DEF PassFits, Writers, Collectors, Idle
<1>4. IdTaken'
    BY DEF IdTaken, Idle
<1> QED BY <1>1, <1>2, <1>3, <1>4

LEMMA StreamTypes ==
    ASSUME TypesInv, NEW c \in Callers, NEW ps \in SUBSET call[c].batch, Stream(c, ps)
    PROVE  TypesInv'
<1> USE NoPackAssumption DEF TypesInv, TypeOK, CallsTyped, CallRecords, Locations, At, mem,
    disk, refs, Stream
<1>1. TypeOK'
    BY DEF IdTaken
<1>2. CallsTyped'
    <2>1. call' = [call EXCEPT ![c] = call'[c]]
        OBVIOUS
    <2>2. call'[c] \in CallRecords
        BY IdleIsACall DEF Places, Writers, Collectors
    <2> QED BY <2>1, <2>2
<1>3. PassFits'
    BY DEF PassFits, Writers, Collectors, Idle
<1>4. IdTaken'
    BY DEF IdTaken, Idle
<1> QED BY <1>1, <1>2, <1>3, <1>4

LEMMA RemoveOldTypes ==
    ASSUME TypesInv, NEW c \in Callers, NEW p \in call[c].old, RemoveOld(c, p)
    PROVE  TypesInv'
<1> USE NoPackAssumption DEF TypesInv, TypeOK, CallsTyped, CallRecords, Locations, At, mem,
    disk, refs, RemoveOld, RemovePack, Restrict
<1>1. TypeOK'
    BY DEF IdTaken
<1>2. CallsTyped'
    <2>1. call' = [call EXCEPT ![c] = call'[c]]
        OBVIOUS
    <2>2. call'[c] \in CallRecords
        BY IdleIsACall DEF Places, Writers, Collectors
    <2> QED BY <2>1, <2>2
<1>3. PassFits'
    BY DEF PassFits, Writers, Collectors, Idle
<1>4. IdTaken'
    BY DEF IdTaken, Idle
<1> QED BY <1>1, <1>2, <1>3, <1>4

LEMMA RemoveForgetsTypes ==
    ASSUME TypesInv, NEW c \in Callers, RemoveForgets(c)
    PROVE  TypesInv'
<1> USE NoPackAssumption DEF TypesInv, TypeOK, CallsTyped, CallRecords, Locations, At, mem,
    disk, refs, RemoveForgets, In
<1>1. TypeOK'
    BY DEF IdTaken
<1>2. CallsTyped'
    <2>1. call' = [call EXCEPT ![c] = call'[c]]
        OBVIOUS
    <2>2. call'[c] \in CallRecords
        <3>1. \E a \in Places, n \in Nat : call'[c] = [call[c] EXCEPT !.at = a, !.pack = n]
            BY DEF Places
        <3>2. call[c] \in CallRecords
            OBVIOUS
        <3> HIDE DEF TypesInv, TypeOK, CallsTyped, CallRecords, Locations, RemoveForgets
        <3> QED BY <3>1, <3>2, PackOfACall
    <2> QED BY <2>1, <2>2
<1>3. PassFits'
    BY DEF PassFits, Writers, Collectors, Idle
<1>4. IdTaken'
    BY DEF IdTaken, Idle
<1> QED BY <1>1, <1>2, <1>3, <1>4

LEMMA StartRewriteTypes ==
    ASSUME TypesInv, NEW c \in Callers, StartRewrite(c)
    PROVE  TypesInv'
<1> USE NoPackAssumption DEF TypesInv, TypeOK, CallsTyped, CallRecords, Locations, At, mem,
    disk, refs, StartRewrite
<1>1. TypeOK'
    BY DEF IdTaken
<1>2. CallsTyped'
    <2>1. call' = [call EXCEPT ![c] = call'[c]]
        OBVIOUS
    <2>2. call'[c] \in CallRecords
        <3>1. \E a \in Places, m \in Locations :
                  call'[c] = [call[c] EXCEPT !.at = a, !.members = m]
            BY DEF Places
        <3>2. call[c] \in CallRecords
            OBVIOUS
        <3> HIDE DEF TypesInv, TypeOK, CallsTyped, CallRecords, Locations, StartRewrite
        <3> QED BY <3>1, <3>2, MembersOfACall
    <2> QED BY <2>1, <2>2
<1>3. PassFits'
    BY DEF PassFits, Writers, Collectors, Idle
<1>4. IdTaken'
    BY DEF IdTaken, Idle
<1> QED BY <1>1, <1>2, <1>3, <1>4

LEMMA IndexRewrittenTypes ==
    ASSUME TypesInv, NEW c \in Callers, IndexRewritten(c)
    PROVE  TypesInv'
<1> USE NoPackAssumption DEF TypesInv, TypeOK, CallsTyped, CallRecords, Locations, At, mem,
    disk, refs, IndexRewritten
<1>1. TypeOK'
    BY DEF IdTaken
<1>2. CallsTyped'
    <2>1. call' = [call EXCEPT ![c] = call'[c]]
        OBVIOUS
    <2>2. call'[c] \in CallRecords
        BY IdleIsACall DEF Places, Writers, Collectors
    <2> QED BY <2>1, <2>2
<1>3. PassFits'
    BY DEF PassFits, Writers, Collectors, Idle
<1>4. IdTaken'
    BY DEF IdTaken, Idle
<1> QED BY <1>1, <1>2, <1>3, <1>4

LEMMA NothingToCollectTypes ==
    ASSUME TypesInv, NEW c \in Callers, NothingToCollect(c)
    PROVE  TypesInv'
<1> USE NoPackAssumption DEF TypesInv, TypeOK, CallsTyped, CallRecords, Locations, At, mem,
    disk, refs, NothingToCollect
<1>1. TypeOK'
    BY DEF IdTaken
<1>2. CallsTyped'
    <2>1. call' = [call EXCEPT ![c] = call'[c]]
        OBVIOUS
    <2>2. call'[c] \in CallRecords
        BY IdleIsACall DEF Places, Writers, Collectors
    <2> QED BY <2>1, <2>2
<1>3. PassFits'
    BY DEF PassFits, Writers, Collectors, Idle
<1>4. IdTaken'
    BY DEF IdTaken, Idle
<1> QED BY <1>1, <1>2, <1>3, <1>4

\* loadPackIndex gives out no id that a pack on the disk has, a torn one included.
LEMMA NextPackIsFree ==
    ASSUME NEW ps, NEW ls, NEW n \in Nat, DOMAIN ps \subseteq 0..n
    PROVE  NextPack(ps, ls) \in Nat /\ DOMAIN ps \subseteq 0..(NextPack(ps, ls) - 1)
<1>1. CASE DOMAIN ps = {}
    BY <1>1 DEF NextPack
<1>2. CASE DOMAIN ps # {}
    <2>1. DOMAIN ps \in SUBSET Nat /\ \A p \in DOMAIN ps : p <= n
        OBVIOUS
    <2>2. Max(DOMAIN ps) \in DOMAIN ps /\ \A p \in DOMAIN ps : p <= Max(DOMAIN ps)
        BY <1>2, <2>1, BoundedHasMax
    <2> QED BY <1>2, <2>1, <2>2 DEF NextPack
<1> QED BY <1>1, <1>2

LEMMA CrashTypes ==
    ASSUME TypesInv, NEW c \in Callers, Crash(c)
    PROVE  TypesInv'
<1> USE NoPackAssumption DEF TypesInv
<1>1. packs' \in TornPacks(c) /\ lines' \in TornLines(c)
    BY DEF Crash
<1>2. DOMAIN packs' \subseteq 0..nextPackId /\ \A p \in DOMAIN packs' : packs'[p] \subseteq Blobs
    <2>1. CASE packs' = packs
        BY <2>1 DEF TypeOK
    <2>2. CASE At(c, "body") /\ \E s \in SUBSET call[c].body : packs' = PackAfter(call[c].pack, s)
        BY <2>2 DEF TypeOK, CallsTyped, CallRecords, IdTaken, At, PackAfter
    <2> QED BY <1>1, <2>1, <2>2 DEF TornPacks
<1>3. lines' \in Locations
    <2>1. CASE lines' = lines
        BY <2>1 DEF CallsTyped
    <2>2. CASE \E s \in SUBSET call[c].body : lines' = LinesWith(lines, s, call[c].pack)
        BY <2>2 DEF CallsTyped, CallRecords, Locations, LinesWith
    <2> QED BY <1>1, <2>1, <2>2 DEF TornLines
<1>4. nextPackId' \in Nat /\ DOMAIN packs' \subseteq 0..(nextPackId' - 1)
    BY <1>2, NextPackIsFree DEF Crash, TypeOK
<1>5. TypeOK'
    BY <1>2, <1>3, <1>4 DEF TypeOK, Crash, Locations, refs
<1>6. CallsTyped'
    BY <1>3, IdleIsACall DEF CallsTyped, Crash
<1>7. PassFits' /\ IdTaken'
    BY DEF Crash, PassFits, IdTaken, Idle, At
<1> QED BY <1>5, <1>6, <1>7

LEMMA AgeTypes ==
    ASSUME TypesInv, Age
    PROVE  TypesInv'
BY DEF TypesInv, TypeOK, CallsTyped, PassFits, IdTaken, Age, At, mem, refs

LEMMA TypesStep ==
    ASSUME TypesInv, [Next]_vars
    PROVE  TypesInv'
<1>1. ASSUME NEW c \in Callers, Write(c)
      PROVE  TypesInv'
    BY <1>1, PutTypes, CaptureTypes, AdoptTypes, BeginTypes, CheckpointTypes, FlushNothingTypes,
       StartFlushTypes, BodyAppendedTypes, LinesAppendedTypes, RecordTypes, WriteRejectsTypes DEF Write
<1>2. ASSUME NEW c \in Callers, Collect(c)
      PROVE  TypesInv'
    BY <1>2, BeginCollectingTypes, KeepPackTypes, RetireTypes, DefersTypes, CompactTypes, StreamTypes,
       RemoveOldTypes, RetireForgetsTypes, RemoveForgetsTypes, StartRewriteTypes, IndexRewrittenTypes,
       NothingToCollectTypes DEF Collect, Collectors
<1>3. CASE UNCHANGED vars
    BY <1>3 DEF TypesInv, TypeOK, CallsTyped, PassFits, IdTaken, At, vars, mem, disk, refs
<1> QED BY <1>1, <1>2, <1>3, AgeTypes, CrashTypes, GetTypes, ForgetTypes DEF Next

LEMMA TypesInit == Init => TypesInv
<1> SUFFICES ASSUME Init PROVE TypesInv
    OBVIOUS
<1>1. TypeOK /\ lines \in Locations /\ crashes \in Nat /\ rejects \in Nat
    BY DEF Init, TypeOK, Locations
<1>2. CallsTyped /\ PassFits /\ IdTaken
    BY <1>1, IdleIsACall DEF Init, CallsTyped, PassFits, IdTaken, Idle, At
<1> QED BY <1>1, <1>2 DEF TypesInv

\* The state keeps its kinds: every pack has an id that was given out, and holds contents.
THEOREM TypesHold == Spec => []TypeOK
<1>1. TypesInv => TypeOK
    BY DEF TypesInv
<1> QED BY <1>1, TypesInit, TypesStep, PTL DEF Spec

\* However many passes flush at the same time, and whatever a crash leaves of the index, no
\* append of flushPack goes to a pack that is there: the id is taken before the first await,
\* and loadPackIndex resumes after the packs of the directory.
THEOREM PacksAreNeverReused == Spec => PacksAreWrittenOnce
<1>1. TypesInv /\ [Next]_vars =>
        [\A c \in Callers : At(c, "body") /\ At(c, "lines")' => call[c].pack \notin DOMAIN packs]_vars
    BY DEF TypesInv, IdTaken
<1> QED BY <1>1, TypesInit, TypesStep, PTL DEF Spec, PacksAreWrittenOnce

LEMMA PutKeeps ==
    ASSUME Alone, KeptInv, NEW c \in Callers, NEW b \in Blobs, Put(c, b)
    PROVE  KeptInv'
<1> USE NoPackAssumption
    DEF KeptInv, TypesInv, TypeOK, CallsTyped, CallRecords, PassFits, Writers, Collectors, At
<1>1. Callers = {c}
    BY DEF Alone
<1>2. /\ At(c, "idle")
      /\ \/ b \in memCache \cup pending /\ UNCHANGED <<memCache, pending, packBuffer>>
         \/ /\ b \notin memCache \cup pending /\ pending' = pending \cup {b}
            /\ packBuffer' = packBuffer \cup {b} /\ memCache' \subseteq memCache \cup {b}
      /\ call'[c].todo = {} /\ call'[c].batch = {} /\ call'[c].pass = "put"
      /\ call'[c].at = "flush" /\ call'[c].blobs = {b} /\ call'[c].old = {}
      /\ UNCHANGED <<index, nextPackId, packs, young, lines, own, adopted, crashes, rejects>>
    BY DEF Put, putBuffered, Evicted, mem, disk, refs, Idle
<1>3. (IndexInv /\ FlushInv /\ BufferInv)'
    BY <1>1, <1>2 DEF IndexInv, FlushInv, CollectorInv, Stored, IdTaken, BufferInv
<1>4. (KnownInv /\ WriterInv /\ NamedIsStored)'
    BY <1>1, <1>2 DEF IndexInv, KnownInv, Removing, FlushInv, BufferInv, CollectorInv,
        Stored, Readable, WriterInv, NamedIsStored, Named
<1>5. (CollectorInv /\ GivenInv)'
    BY <1>1, <1>2 DEF IndexInv, CollectorInv, NamedIsStored, Named, GivenInv, FlushInv,
        BufferInv, Stored, Readable, Packs
<1> QED BY PutTypes, <1>3, <1>4, <1>5

LEMMA BeginKeeps ==
    ASSUME Alone, KeptInv, NEW c \in Callers, NEW p \in {"capture", "apply"}, Begin(c, p)
    PROVE  KeptInv'
<1> USE NoPackAssumption
    DEF KeptInv, TypesInv, TypeOK, CallsTyped, CallRecords, PassFits, Writers, Collectors, At
<1>1. Callers = {c}
    BY DEF Alone
<1>2. /\ At(c, "idle") /\ call'[c].todo = {} /\ call'[c].batch = {} /\ call'[c].pass = p
      /\ call'[c].at = "staging" /\ call'[c].blobs = {} /\ call'[c].old = {}
      /\ UNCHANGED <<memCache, pending, packBuffer, index, nextPackId, packs, young,
                      lines, own, adopted, crashes, rejects>>
    BY DEF Begin, mem, disk, refs, Idle
<1>3. (IndexInv /\ FlushInv /\ BufferInv)'
    BY <1>1, <1>2 DEF IndexInv, FlushInv, CollectorInv, Stored, IdTaken, BufferInv
<1>4. (KnownInv /\ WriterInv /\ NamedIsStored)'
    BY <1>1, <1>2 DEF IndexInv, KnownInv, Removing, FlushInv, BufferInv, CollectorInv,
        Stored, Readable, WriterInv, NamedIsStored, Named
<1>5. (CollectorInv /\ GivenInv)'
    BY <1>1, <1>2 DEF IndexInv, CollectorInv, NamedIsStored, Named, GivenInv, FlushInv,
        BufferInv, Stored, Readable, Packs
<1> QED BY BeginTypes, <1>3, <1>4, <1>5

LEMMA CaptureKeeps ==
    ASSUME Alone, KeptInv, NEW c \in Callers, NEW b \in Blobs, Capture(c, b)
    PROVE  KeptInv'
<1> USE NoPackAssumption
    DEF KeptInv, TypesInv, TypeOK, CallsTyped, CallRecords, PassFits, Writers, Collectors, At
<1>1. Callers = {c}
    BY DEF Alone
<1>2. /\ At(c, "staging") /\ call[c].pass = "capture"
      /\ \/ b \in memCache \cup pending /\ UNCHANGED <<memCache, pending, packBuffer>>
         \/ /\ b \notin memCache \cup pending /\ pending' = pending \cup {b}
            /\ packBuffer' = packBuffer \cup {b} /\ memCache' \subseteq memCache \cup {b}
      /\ call'[c].blobs = call[c].blobs \cup {b} /\ call'[c].pass = call[c].pass
      /\ call'[c].at = call[c].at /\ call'[c].pack = call[c].pack /\ call'[c].body = call[c].body
      /\ call'[c].keep = call[c].keep /\ call'[c].members = call[c].members
      /\ call'[c].todo = call[c].todo /\ call'[c].batch = call[c].batch
      /\ call'[c].old = call[c].old
      /\ UNCHANGED <<index, nextPackId, packs, young, lines, own, adopted, crashes, rejects>>
    BY DEF Capture, putBuffered, Evicted, mem, disk, refs
<1>3. (IndexInv /\ FlushInv /\ BufferInv)'
    BY <1>1, <1>2 DEF IndexInv, FlushInv, CollectorInv, Stored, IdTaken, BufferInv
<1>4. (KnownInv /\ WriterInv /\ NamedIsStored)'
    BY <1>1, <1>2 DEF IndexInv, KnownInv, Removing, FlushInv, BufferInv, CollectorInv,
        Stored, Readable, WriterInv, NamedIsStored, Named
<1>5. (CollectorInv /\ GivenInv)'
    BY <1>1, <1>2 DEF IndexInv, CollectorInv, NamedIsStored, Named, GivenInv, FlushInv,
        BufferInv, Stored, Readable, Packs
<1> QED BY CaptureTypes, <1>3, <1>4, <1>5

LEMMA AdoptKeeps ==
    ASSUME Alone, KeptInv, NEW c \in Callers, NEW b \in Blobs, Adopt(c, b)
    PROVE  KeptInv'
<1> USE NoPackAssumption
    DEF KeptInv, TypesInv, TypeOK, CallsTyped, CallRecords, PassFits, Writers, Collectors, At
<1>1. Callers = {c}
    BY DEF Alone
<1>2. /\ At(c, "staging") /\ call[c].pass = "apply"
      /\ \/ /\ b \in memCache \cup pending \/ index[b] # NoPack
            /\ UNCHANGED <<memCache, pending, packBuffer>>
         \/ /\ b \notin memCache \cup pending /\ pending' = pending \cup {b}
            /\ packBuffer' = packBuffer \cup {b} /\ memCache' \subseteq memCache \cup {b}
      /\ call'[c].blobs = call[c].blobs \cup {b} /\ call'[c].pass = call[c].pass
      /\ call'[c].at = call[c].at /\ call'[c].pack = call[c].pack /\ call'[c].body = call[c].body
      /\ call'[c].keep = call[c].keep /\ call'[c].members = call[c].members
      /\ call'[c].todo = call[c].todo /\ call'[c].batch = call[c].batch
      /\ call'[c].old = call[c].old
      /\ UNCHANGED <<index, nextPackId, packs, young, lines, own, adopted, crashes, rejects>>
    BY DEF Adopt, putBuffered, Evicted, hasStored, mem, disk, refs
<1>3. (IndexInv /\ FlushInv /\ BufferInv)'
    BY <1>1, <1>2 DEF IndexInv, FlushInv, CollectorInv, Stored, IdTaken, BufferInv
<1>4. (KnownInv /\ WriterInv /\ NamedIsStored)'
    BY <1>1, <1>2 DEF IndexInv, KnownInv, Removing, FlushInv, BufferInv, CollectorInv,
        Stored, Readable, WriterInv, NamedIsStored, Named
<1>5. (CollectorInv /\ GivenInv)'
    BY <1>1, <1>2 DEF IndexInv, CollectorInv, NamedIsStored, Named, GivenInv, FlushInv,
        BufferInv, Stored, Readable, Packs
<1> QED BY AdoptTypes, <1>3, <1>4, <1>5

LEMMA CheckpointKeeps ==
    ASSUME Alone, KeptInv, NEW c \in Callers, Checkpoint(c)
    PROVE  KeptInv'
<1> USE NoPackAssumption
    DEF KeptInv, TypesInv, TypeOK, CallsTyped, CallRecords, PassFits, Writers, Collectors, At
<1>1. Callers = {c}
    BY DEF Alone
<1>2. /\ At(c, "staging") /\ call'[c].at = "flush" /\ call'[c].pass = call[c].pass
      /\ call'[c].blobs = call[c].blobs /\ call'[c].pack = call[c].pack
      /\ call'[c].body = call[c].body /\ call'[c].keep = call[c].keep
      /\ call'[c].members = call[c].members /\ call'[c].todo = call[c].todo
      /\ call'[c].batch = call[c].batch /\ call'[c].old = call[c].old
      /\ UNCHANGED <<memCache, pending, packBuffer, index, nextPackId, packs, young,
                      lines, own, adopted, crashes, rejects>>
    BY DEF Checkpoint, mem, disk, refs
<1>3. (IndexInv /\ FlushInv /\ BufferInv)'
    BY <1>1, <1>2 DEF IndexInv, FlushInv, CollectorInv, Stored, IdTaken, BufferInv
<1>4. (KnownInv /\ WriterInv /\ NamedIsStored)'
    BY <1>1, <1>2 DEF IndexInv, KnownInv, Removing, FlushInv, BufferInv, CollectorInv,
        Stored, Readable, WriterInv, NamedIsStored, Named
<1>5. (CollectorInv /\ GivenInv)'
    BY <1>1, <1>2 DEF IndexInv, CollectorInv, NamedIsStored, Named, GivenInv, FlushInv,
        BufferInv, Stored, Readable, Packs
<1> QED BY CheckpointTypes, <1>3, <1>4, <1>5

LEMMA FlushNothingKeeps ==
    ASSUME Alone, KeptInv, NEW c \in Callers, FlushNothing(c)
    PROVE  KeptInv'
<1> USE NoPackAssumption
    DEF KeptInv, TypesInv, TypeOK, CallsTyped, CallRecords, PassFits, Writers, Collectors, At
<1>1. Callers = {c}
    BY DEF Alone
<1>2. /\ At(c, "flush") /\ packBuffer = {} /\ call'[c].at = AfterFlush(c)
      /\ call'[c].pass = call[c].pass /\ call'[c].blobs = call[c].blobs
      /\ call'[c].pack = call[c].pack /\ call'[c].body = call[c].body
      /\ call'[c].keep = call[c].keep /\ call'[c].members = call[c].members
      /\ call'[c].todo = call[c].todo /\ call'[c].batch = call[c].batch
      /\ call'[c].old = call[c].old
      /\ UNCHANGED <<memCache, pending, packBuffer, index, nextPackId, packs, young,
                      lines, own, adopted, crashes, rejects>>
    BY DEF FlushNothing, mem, disk, refs
<1>3. (IndexInv /\ FlushInv /\ BufferInv)'
    BY <1>1, <1>2, AfterFlushFits DEF IndexInv, FlushInv, CollectorInv, Stored, IdTaken,
        BufferInv
<1>4. (KnownInv /\ WriterInv /\ NamedIsStored)'
    BY <1>1, <1>2, AfterFlushFits DEF IndexInv, KnownInv, Removing, FlushInv, BufferInv,
        CollectorInv, Stored, Readable, WriterInv, NamedIsStored, Named
<1>5. (CollectorInv /\ GivenInv)'
    BY <1>1, <1>2, AfterFlushFits DEF IndexInv, CollectorInv, NamedIsStored, Named,
        GivenInv, FlushInv, BufferInv, Stored, Readable, Packs
<1> QED BY FlushNothingTypes, <1>3, <1>4, <1>5

LEMMA StartFlushKeeps ==
    ASSUME Alone, KeptInv, NEW c \in Callers, StartFlush(c)
    PROVE  KeptInv'
<1> USE NoPackAssumption
    DEF KeptInv, TypesInv, TypeOK, CallsTyped, CallRecords, PassFits, Writers, Collectors, At
<1>1. Callers = {c}
    BY DEF Alone
<1>2. /\ At(c, "flush") /\ nextPackId' = nextPackId + 1
      /\ index' = [b \in Blobs |-> IF b \in packBuffer THEN nextPackId ELSE index[b]]
      /\ call'[c].at = "body" /\ call'[c].pack = nextPackId /\ call'[c].body = packBuffer
      /\ call'[c].pass = call[c].pass /\ call'[c].blobs = call[c].blobs
      /\ call'[c].keep = call[c].keep /\ call'[c].members = call[c].members
      /\ call'[c].todo = call[c].todo /\ call'[c].batch = call[c].batch
      /\ call'[c].old = call[c].old
      /\ UNCHANGED <<memCache, pending, packBuffer, packs, young, lines, own, adopted,
                      crashes, rejects>>
    BY DEF StartFlush, mem, disk, refs
<1>3. (IndexInv /\ FlushInv /\ BufferInv)'
    BY <1>1, <1>2 DEF IndexInv, FlushInv, CollectorInv, Stored, IdTaken, BufferInv
<1>4. (KnownInv /\ WriterInv /\ NamedIsStored)'
    BY <1>1, <1>2 DEF IndexInv, KnownInv, Removing, FlushInv, BufferInv, CollectorInv,
        Stored, Readable, WriterInv, NamedIsStored, Named
<1>5. (CollectorInv /\ GivenInv)'
    BY <1>1, <1>2 DEF IndexInv, CollectorInv, NamedIsStored, Named, GivenInv, FlushInv,
        BufferInv, Stored, Readable, Packs
<1> QED BY StartFlushTypes, <1>3, <1>4, <1>5

LEMMA BodyAppendedKeeps ==
    ASSUME Alone, KeptInv, NEW c \in Callers, BodyAppended(c)
    PROVE  KeptInv'
<1> USE NoPackAssumption
    DEF KeptInv, TypesInv, TypeOK, CallsTyped, CallRecords, PassFits, Writers, Collectors, At
<1>1. Callers = {c}
    BY DEF Alone
<1>2. /\ At(c, "body") /\ packs' = PackAfter(call[c].pack, call[c].body) /\ call'[c].at = "lines"
      /\ call'[c].pass = call[c].pass /\ call'[c].blobs = call[c].blobs
      /\ call'[c].pack = call[c].pack /\ call'[c].body = call[c].body
      /\ call'[c].keep = call[c].keep /\ call'[c].members = call[c].members
      /\ call'[c].todo = call[c].todo /\ call'[c].batch = call[c].batch
      /\ call'[c].old = call[c].old
      /\ UNCHANGED <<memCache, pending, packBuffer, index, nextPackId, lines, own,
                      adopted, crashes, rejects>>
    BY DEF BodyAppended, mem, disk, refs
<1>3. (IndexInv /\ FlushInv /\ BufferInv)'
    BY <1>1, <1>2 DEF IndexInv, FlushInv, CollectorInv, Stored, IdTaken, BufferInv,
        PackAfter
<1>4. (KnownInv /\ WriterInv /\ NamedIsStored)'
    BY <1>1, <1>2 DEF IndexInv, KnownInv, Removing, FlushInv, BufferInv, CollectorInv,
        Stored, Readable, WriterInv, NamedIsStored, Named, PackAfter
<1>5. (CollectorInv /\ GivenInv)'
    BY <1>1, <1>2 DEF IndexInv, CollectorInv, NamedIsStored, Named, GivenInv, FlushInv,
        BufferInv, Stored, Readable, Packs, PackAfter
<1> QED BY BodyAppendedTypes, <1>3, <1>4, <1>5

LEMMA LinesAppendedKeeps ==
    ASSUME Alone, KeptInv, NEW c \in Callers, LinesAppended(c)
    PROVE  KeptInv'
<1> USE NoPackAssumption
    DEF KeptInv, TypesInv, TypeOK, CallsTyped, CallRecords, PassFits, Writers, Collectors, At
<1>1. Callers = {c}
    BY DEF Alone
<1>2. /\ At(c, "lines") /\ lines' = LinesWith(lines, call[c].body, call[c].pack)
      /\ packBuffer' = {} /\ pending' = {} /\ memCache' \subseteq memCache
      /\ call'[c].at = AfterFlush(c) /\ call'[c].pass = call[c].pass
      /\ call'[c].blobs = call[c].blobs /\ call'[c].keep = call[c].keep
      /\ call'[c].members = call[c].members /\ call'[c].todo = call[c].todo
      /\ call'[c].batch = call[c].batch /\ call'[c].old = call[c].old
      /\ UNCHANGED <<index, nextPackId, packs, young, own, adopted, crashes, rejects>>
    BY DEF LinesAppended, Evicted, mem, disk, refs
<1>3. (IndexInv /\ FlushInv /\ BufferInv)'
    BY <1>1, <1>2, AfterFlushFits DEF IndexInv, FlushInv, CollectorInv, Stored, IdTaken,
        BufferInv, LinesWith
<1>4. (KnownInv /\ WriterInv /\ NamedIsStored)'
    BY <1>1, <1>2, AfterFlushFits DEF IndexInv, KnownInv, Removing, FlushInv, BufferInv,
        CollectorInv, Stored, Readable, WriterInv, NamedIsStored, Named, LinesWith
<1>5. (CollectorInv /\ GivenInv)'
    BY <1>1, <1>2, AfterFlushFits DEF IndexInv, CollectorInv, NamedIsStored, Named,
        GivenInv, FlushInv, BufferInv, Stored, Readable, Packs, LinesWith
<1> QED BY LinesAppendedTypes, <1>3, <1>4, <1>5

LEMMA RecordKeeps ==
    ASSUME Alone, KeptInv, NEW c \in Callers, Record(c)
    PROVE  KeptInv'
<1> USE NoPackAssumption
    DEF KeptInv, TypesInv, TypeOK, CallsTyped, CallRecords, PassFits, Writers, Collectors, At
<1>1. Callers = {c}
    BY DEF Alone
<1>2. /\ At(c, "record")
      /\ call[c].pass = "apply" => adopted' = adopted \cup call[c].blobs /\ own' = own
      /\ call[c].pass # "apply" => own' = own \cup call[c].blobs /\ adopted' = adopted
      /\ memCache' \subseteq memCache /\ call'[c].todo = {} /\ call'[c].batch = {}
      /\ call'[c].at = "idle" /\ call'[c].pass = "none" /\ call'[c].old = {}
      /\ UNCHANGED <<pending, packBuffer, index, nextPackId, packs, young, lines, crashes, rejects>>
    BY DEF Record, mem, disk, refs, Idle
<1>3. (IndexInv /\ FlushInv /\ BufferInv)'
    BY <1>1, <1>2 DEF IndexInv, FlushInv, CollectorInv, Stored, IdTaken, BufferInv
<1>4. (KnownInv /\ WriterInv /\ NamedIsStored)'
    BY <1>1, <1>2 DEF IndexInv, KnownInv, Removing, FlushInv, BufferInv, CollectorInv,
        Stored, Readable, WriterInv, NamedIsStored, Named
<1>5. (CollectorInv /\ GivenInv)'
    BY <1>1, <1>2 DEF IndexInv, CollectorInv, NamedIsStored, Named, GivenInv, FlushInv,
        BufferInv, Stored, Readable, Packs
<1> QED BY RecordTypes, <1>3, <1>4, <1>5

LEMMA WriteRejectsKeeps ==
    ASSUME Alone, KeptInv, NEW c \in Callers, WriteRejects(c)
    PROVE  KeptInv'
<1> USE NoPackAssumption
    DEF KeptInv, TypesInv, TypeOK, CallsTyped, CallRecords, PassFits, Writers, Collectors, At
<1>1. Callers = {c}
    BY DEF Alone
<1>2. /\ rejects' = rejects + 1 /\ call[c].at \in {"body", "lines", "rewriting"}
      /\ call'[c].todo = {} /\ call'[c].batch = {} /\ call'[c].at = "idle"
      /\ call'[c].pass = "none" /\ call'[c].old = {}
      /\ UNCHANGED <<memCache, pending, packBuffer, index, nextPackId, packs, young,
                      lines, own, adopted, crashes>>
    BY DEF WriteRejects, mem, disk, refs, Idle
<1>3. (IndexInv /\ FlushInv /\ BufferInv)'
    BY <1>1, <1>2 DEF IndexInv, FlushInv, CollectorInv, Stored, IdTaken, BufferInv
<1>4. (KnownInv /\ WriterInv /\ NamedIsStored)'
    BY <1>1, <1>2 DEF IndexInv, KnownInv, Removing, FlushInv, BufferInv, CollectorInv,
        Stored, Readable, WriterInv, NamedIsStored, Named
<1>5. (CollectorInv /\ GivenInv)'
    BY <1>1, <1>2 DEF IndexInv, CollectorInv, NamedIsStored, Named, GivenInv, FlushInv,
        BufferInv, Stored, Readable, Packs
<1> QED BY WriteRejectsTypes, <1>3, <1>4, <1>5

LEMMA GetKeeps ==
    ASSUME Alone, KeptInv, NEW c \in Callers, NEW b \in Blobs, Get(c, b)
    PROVE  KeptInv'
<1> USE NoPackAssumption
    DEF KeptInv, TypesInv, TypeOK, CallsTyped, CallRecords, PassFits, Writers, Collectors, At
<1>1. Callers = {c}
    BY DEF Alone
<1>2. /\ At(c, "idle") /\ memCache' \subseteq memCache \cup {x \in Blobs : Readable(x)}
      /\ call'[c].pass = call[c].pass /\ call'[c].at = call[c].at
      /\ call'[c].blobs = call[c].blobs /\ call'[c].pack = call[c].pack
      /\ call'[c].body = call[c].body /\ call'[c].keep = call[c].keep
      /\ call'[c].members = call[c].members /\ call'[c].todo = call[c].todo
      /\ call'[c].batch = call[c].batch /\ call'[c].old = call[c].old
      /\ UNCHANGED <<pending, packBuffer, index, nextPackId, packs, young, lines, own,
                      adopted, crashes, rejects>>
    BY DEF Get, Evicted, In, mem, disk, refs
<1>3. (IndexInv /\ FlushInv /\ BufferInv)'
    BY <1>1, <1>2 DEF IndexInv, FlushInv, CollectorInv, Stored, IdTaken, BufferInv
<1>4. (KnownInv /\ WriterInv /\ NamedIsStored)'
    BY <1>1, <1>2 DEF IndexInv, KnownInv, Removing, FlushInv, BufferInv, CollectorInv,
        Stored, Readable, WriterInv, NamedIsStored, Named
<1>5. (CollectorInv /\ GivenInv)'
    BY <1>1, <1>2 DEF IndexInv, CollectorInv, NamedIsStored, Named, GivenInv, FlushInv,
        BufferInv, Stored, Readable, Packs
<1> QED BY GetTypes, <1>3, <1>4, <1>5

LEMMA ForgetKeeps ==
    ASSUME Alone, KeptInv, NEW c \in Callers, NEW b \in Blobs, Forget(c, b)
    PROVE  KeptInv'
<1> USE NoPackAssumption
    DEF KeptInv, TypesInv, TypeOK, CallsTyped, CallRecords, PassFits, Writers, Collectors, At
<1>1. Callers = {c}
    BY DEF Alone
<1>2. /\ At(c, "idle") /\ own' = own \ {b} /\ adopted' = adopted \ {b}
      /\ call'[c].pass = call[c].pass /\ call'[c].at = call[c].at
      /\ call'[c].blobs = call[c].blobs /\ call'[c].pack = call[c].pack
      /\ call'[c].body = call[c].body /\ call'[c].keep = call[c].keep
      /\ call'[c].members = call[c].members /\ call'[c].todo = call[c].todo
      /\ call'[c].batch = call[c].batch /\ call'[c].old = call[c].old
      /\ UNCHANGED <<memCache, pending, packBuffer, index, nextPackId, packs, young,
                      lines, crashes, rejects>>
    BY DEF Forget, mem, disk, refs
<1>3. (IndexInv /\ FlushInv /\ BufferInv)'
    BY <1>1, <1>2 DEF IndexInv, FlushInv, CollectorInv, Stored, IdTaken, BufferInv
<1>4. (KnownInv /\ WriterInv /\ NamedIsStored)'
    BY <1>1, <1>2 DEF IndexInv, KnownInv, Removing, FlushInv, BufferInv, CollectorInv,
        Stored, Readable, WriterInv, NamedIsStored, Named
<1>5. (CollectorInv /\ GivenInv)'
    BY <1>1, <1>2 DEF IndexInv, CollectorInv, NamedIsStored, Named, GivenInv, FlushInv,
        BufferInv, Stored, Readable, Packs
<1> QED BY ForgetTypes, <1>3, <1>4, <1>5

LEMMA BeginCollectingKeeps ==
    ASSUME Alone, KeptInv, NEW c \in Callers, NEW p \in Collectors, BeginCollecting(c, p)
    PROVE  KeptInv'
<1> USE NoPackAssumption
    DEF KeptInv, TypesInv, TypeOK, CallsTyped, CallRecords, PassFits, Writers, Collectors, At
<1>1. Callers = {c}
    BY DEF Alone
<1>2. /\ At(c, "idle") /\ call'[c].todo = Packs(index) /\ call'[c].batch = {}
      /\ call'[c].pass = p /\ call'[c].at = "sorting" /\ call'[c].keep = own \cup adopted
      /\ call'[c].members = index /\ call'[c].old = {}
      /\ UNCHANGED <<memCache, pending, packBuffer, index, nextPackId, packs, young,
                      lines, own, adopted, crashes, rejects>>
    BY DEF BeginCollecting, mem, disk, refs, Idle
<1>3. (IndexInv /\ FlushInv /\ BufferInv)'
    BY <1>1, <1>2 DEF IndexInv, FlushInv, CollectorInv, Stored, IdTaken, BufferInv
<1>4. (KnownInv /\ WriterInv /\ NamedIsStored)'
    BY <1>1, <1>2 DEF IndexInv, KnownInv, Removing, FlushInv, BufferInv, CollectorInv,
        Stored, Readable, WriterInv, NamedIsStored, Named
<1>5. (CollectorInv /\ GivenInv)'
    BY <1>1, <1>2 DEF IndexInv, CollectorInv, NamedIsStored, Named, GivenInv, FlushInv,
        BufferInv, Stored, Readable, Packs
<1> QED BY BeginCollectingTypes, <1>3, <1>4, <1>5

LEMMA KeepPackKeeps ==
    ASSUME Alone, KeptInv, NEW c \in Callers, NEW p \in call[c].todo, KeepPack(c, p)
    PROVE  KeptInv'
<1> USE NoPackAssumption
    DEF KeptInv, TypesInv, TypeOK, CallsTyped, CallRecords, PassFits, Writers, Collectors, At
<1>1. Callers = {c}
    BY DEF Alone
<1>2. /\ At(c, "sorting") /\ call'[c].todo = call[c].todo \ {p} /\ call'[c].pass = call[c].pass
      /\ call'[c].at = call[c].at /\ call'[c].blobs = call[c].blobs
      /\ call'[c].pack = call[c].pack /\ call'[c].body = call[c].body
      /\ call'[c].keep = call[c].keep /\ call'[c].members = call[c].members
      /\ call'[c].batch = call[c].batch /\ call'[c].old = call[c].old
      /\ UNCHANGED <<memCache, pending, packBuffer, index, nextPackId, packs, young,
                      lines, own, adopted, crashes, rejects>>
    BY DEF KeepPack, mem, disk, refs
<1>3. (IndexInv /\ FlushInv /\ BufferInv)'
    BY <1>1, <1>2 DEF IndexInv, FlushInv, CollectorInv, Stored, IdTaken, BufferInv
<1>4. (KnownInv /\ WriterInv /\ NamedIsStored)'
    BY <1>1, <1>2 DEF IndexInv, KnownInv, Removing, FlushInv, BufferInv, CollectorInv,
        Stored, Readable, WriterInv, NamedIsStored, Named
<1>5. (CollectorInv /\ GivenInv)'
    BY <1>1, <1>2 DEF IndexInv, CollectorInv, NamedIsStored, Named, GivenInv, FlushInv,
        BufferInv, Stored, Readable, Packs
<1> QED BY KeepPackTypes, <1>3, <1>4, <1>5

LEMMA RetireKeeps ==
    ASSUME Alone, KeptInv, NEW c \in Callers, NEW p \in call[c].todo, Retire(c, p)
    PROVE  KeptInv'
<1> USE NoPackAssumption
    DEF KeptInv, TypesInv, TypeOK, CallsTyped, CallRecords, PassFits, Writers, Collectors, At
<1>1. Callers = {c}
    BY DEF Alone
<1>2. /\ At(c, "sorting") /\ \A b \in call[c].keep : call[c].members[b] # p
      /\ packs' = Restrict(packs, DOMAIN packs \ {p}) /\ call'[c].at = "retired"
      /\ call'[c].pack = p /\ call'[c].todo = call[c].todo \ {p} /\ call'[c].pass = call[c].pass
      /\ call'[c].blobs = call[c].blobs /\ call'[c].body = call[c].body
      /\ call'[c].keep = call[c].keep /\ call'[c].members = call[c].members
      /\ call'[c].batch = call[c].batch /\ call'[c].old = call[c].old
      /\ UNCHANGED <<memCache, pending, packBuffer, index, nextPackId, lines, own,
                      adopted, crashes, rejects>>
    BY DEF Retire, RemovePack, LiveIn, In, mem, disk, refs
<1>3. (IndexInv /\ FlushInv /\ BufferInv)'
    BY <1>1, <1>2 DEF IndexInv, FlushInv, CollectorInv, Stored, IdTaken, BufferInv, Restrict
<1>4. (KnownInv /\ WriterInv /\ NamedIsStored)'
    BY <1>1, <1>2 DEF IndexInv, KnownInv, Removing, FlushInv, BufferInv, CollectorInv,
        Stored, Readable, WriterInv, NamedIsStored, Named, Restrict
<1>5. (CollectorInv /\ GivenInv)'
    BY <1>1, <1>2 DEF IndexInv, CollectorInv, NamedIsStored, Named, GivenInv, FlushInv,
        BufferInv, Stored, Readable, Packs, Restrict
<1> QED BY RetireTypes, <1>3, <1>4, <1>5

LEMMA RetireForgetsKeeps ==
    ASSUME Alone, KeptInv, NEW c \in Callers, RetireForgets(c)
    PROVE  KeptInv'
<1> USE NoPackAssumption
    DEF KeptInv, TypesInv, TypeOK, CallsTyped, CallRecords, PassFits, Writers, Collectors, At
<1>1. Callers = {c}
    BY DEF Alone
<1>2. /\ At(c, "retired")
      /\ index' = [b \in Blobs |-> IF call[c].members[b] = call[c].pack THEN NoPack ELSE index[b]]
      /\ memCache' = memCache \ {b \in Blobs : call[c].members[b] = call[c].pack}
      /\ call'[c].at = "sorting" /\ call'[c].pass = call[c].pass
      /\ call'[c].blobs = call[c].blobs /\ call'[c].body = call[c].body
      /\ call'[c].keep = call[c].keep /\ call'[c].members = call[c].members
      /\ call'[c].todo = call[c].todo /\ call'[c].batch = call[c].batch
      /\ call'[c].old = call[c].old
      /\ UNCHANGED <<pending, packBuffer, nextPackId, packs, young, lines, own, adopted,
                      crashes, rejects>>
    BY DEF RetireForgets, In, mem, disk, refs
<1>3. (IndexInv /\ FlushInv /\ BufferInv)'
    BY <1>1, <1>2 DEF IndexInv, FlushInv, CollectorInv, Stored, IdTaken, BufferInv
<1>4. (KnownInv /\ WriterInv /\ NamedIsStored)'
    BY <1>1, <1>2 DEF IndexInv, KnownInv, Removing, FlushInv, BufferInv, CollectorInv,
        Stored, Readable, WriterInv, NamedIsStored, Named
<1>5. (CollectorInv /\ GivenInv)'
    BY <1>1, <1>2 DEF IndexInv, CollectorInv, NamedIsStored, Named, GivenInv, FlushInv,
        BufferInv, Stored, Readable, Packs
<1> QED BY RetireForgetsTypes, <1>3, <1>4, <1>5

LEMMA DefersKeeps ==
    ASSUME Alone, KeptInv, NEW c \in Callers, NEW p \in call[c].todo, Defers(c, p)
    PROVE  KeptInv'
<1> USE NoPackAssumption
    DEF KeptInv, TypesInv, TypeOK, CallsTyped, CallRecords, PassFits, Writers, Collectors, At
<1>1. Callers = {c}
    BY DEF Alone
<1>2. /\ At(c, "sorting") /\ call'[c].todo = call[c].todo \ {p}
      /\ call'[c].batch = call[c].batch \cup {p} /\ call'[c].pass = call[c].pass
      /\ call'[c].at = call[c].at /\ call'[c].blobs = call[c].blobs
      /\ call'[c].pack = call[c].pack /\ call'[c].body = call[c].body
      /\ call'[c].keep = call[c].keep /\ call'[c].members = call[c].members
      /\ call'[c].old = call[c].old
      /\ UNCHANGED <<memCache, pending, packBuffer, index, nextPackId, packs, young,
                      lines, own, adopted, crashes, rejects>>
    BY DEF Defers, mem, disk, refs
<1>3. (IndexInv /\ FlushInv /\ BufferInv)'
    BY <1>1, <1>2 DEF IndexInv, FlushInv, CollectorInv, Stored, IdTaken, BufferInv
<1>4. (KnownInv /\ WriterInv /\ NamedIsStored)'
    BY <1>1, <1>2 DEF IndexInv, KnownInv, Removing, FlushInv, BufferInv, CollectorInv,
        Stored, Readable, WriterInv, NamedIsStored, Named
<1>5. (CollectorInv /\ GivenInv)'
    BY <1>1, <1>2 DEF IndexInv, CollectorInv, NamedIsStored, Named, GivenInv, FlushInv,
        BufferInv, Stored, Readable, Packs
<1> QED BY DefersTypes, <1>3, <1>4, <1>5

LEMMA CompactKeeps ==
    ASSUME Alone, KeptInv, NEW c \in Callers, NEW p \in call[c].batch, Compact(c, p)
    PROVE  KeptInv'
<1> USE NoPackAssumption
    DEF KeptInv, TypesInv, TypeOK, CallsTyped, CallRecords, PassFits, Writers, Collectors, At
<1>1. Callers = {c}
    BY DEF Alone
<1>2. /\ At(c, "sorting") /\ call[c].todo = {}
      /\ \E live \in SUBSET Blobs :
            /\ live = {b \in call[c].keep : index[b] = p /\ (b \in memCache \/ Readable(b))}
            /\ packBuffer' = packBuffer \cup live /\ pending' = pending \cup live
            /\ memCache' \subseteq memCache \cup live
      /\ call'[c].at = "flush" /\ call'[c].old = {p} /\ call'[c].batch = call[c].batch \ {p}
      /\ call'[c].pass = call[c].pass /\ call'[c].blobs = call[c].blobs
      /\ call'[c].pack = call[c].pack /\ call'[c].body = call[c].body
      /\ call'[c].keep = call[c].keep /\ call'[c].members = call[c].members
      /\ call'[c].todo = call[c].todo
      /\ UNCHANGED <<index, nextPackId, packs, young, lines, own, adopted, crashes, rejects>>
    BY DEF Compact, Evicted, mem, disk, refs
<1>3. (IndexInv /\ FlushInv /\ BufferInv)'
    BY <1>1, <1>2 DEF IndexInv, FlushInv, CollectorInv, Stored, IdTaken, BufferInv
<1>4. (KnownInv /\ WriterInv /\ NamedIsStored)'
    BY <1>1, <1>2 DEF IndexInv, KnownInv, Removing, FlushInv, BufferInv, CollectorInv,
        Stored, Readable, WriterInv, NamedIsStored, Named
<1>5. (CollectorInv /\ GivenInv)'
    BY <1>1, <1>2 DEF IndexInv, CollectorInv, NamedIsStored, Named, GivenInv, FlushInv,
        BufferInv, Stored, Readable, Packs
<1> QED BY CompactTypes, <1>3, <1>4, <1>5

LEMMA StreamKeeps ==
    ASSUME Alone, KeptInv, NEW c \in Callers, NEW ps \in SUBSET call[c].batch, Stream(c, ps)
    PROVE  KeptInv'
<1> USE NoPackAssumption
    DEF KeptInv, TypesInv, TypeOK, CallsTyped, CallRecords, PassFits, Writers, Collectors, At
<1>1. Callers = {c}
    BY DEF Alone
<1>2. /\ At(c, "sorting") /\ call[c].todo = {} /\ call[c].pass = "consolidate"
      /\ packBuffer' = packBuffer \cup
            {b \in call[c].keep : index[b] \in ps \cap DOMAIN packs /\ Readable(b)}
      /\ call'[c].at = "flush" /\ call'[c].old = ps \cap DOMAIN packs
      /\ call'[c].batch = call[c].batch \ ps /\ call'[c].pass = call[c].pass
      /\ call'[c].blobs = call[c].blobs /\ call'[c].pack = call[c].pack
      /\ call'[c].body = call[c].body /\ call'[c].keep = call[c].keep
      /\ call'[c].members = call[c].members /\ call'[c].todo = call[c].todo
      /\ UNCHANGED <<memCache, pending, index, nextPackId, packs, young, lines, own,
                      adopted, crashes, rejects>>
    BY DEF Stream, mem, disk, refs
<1>3. (IndexInv /\ FlushInv /\ BufferInv)'
    BY <1>1, <1>2 DEF IndexInv, FlushInv, CollectorInv, Stored, IdTaken, BufferInv
<1>4. (KnownInv /\ WriterInv /\ NamedIsStored)'
    BY <1>1, <1>2 DEF IndexInv, KnownInv, Removing, FlushInv, BufferInv, CollectorInv,
        Stored, Readable, WriterInv, NamedIsStored, Named
<1>5. (CollectorInv /\ GivenInv)'
    BY <1>1, <1>2 DEF IndexInv, CollectorInv, NamedIsStored, Named, GivenInv, FlushInv,
        BufferInv, Stored, Readable, Packs
<1> QED BY StreamTypes, <1>3, <1>4, <1>5

LEMMA RemoveOldKeeps ==
    ASSUME Alone, KeptInv, NEW c \in Callers, NEW p \in call[c].old, RemoveOld(c, p)
    PROVE  KeptInv'
<1> USE NoPackAssumption
    DEF KeptInv, TypesInv, TypeOK, CallsTyped, CallRecords, PassFits, Writers, Collectors, At
<1>1. Callers = {c}
    BY DEF Alone
<1>2. /\ At(c, "remove") /\ packs' = Restrict(packs, DOMAIN packs \ {p})
      /\ call'[c].at = "removed" /\ call'[c].pack = p /\ call'[c].old = call[c].old \ {p}
      /\ call'[c].pass = call[c].pass /\ call'[c].blobs = call[c].blobs
      /\ call'[c].body = call[c].body /\ call'[c].keep = call[c].keep
      /\ call'[c].members = call[c].members /\ call'[c].todo = call[c].todo
      /\ call'[c].batch = call[c].batch
      /\ UNCHANGED <<memCache, pending, packBuffer, index, nextPackId, lines, own,
                      adopted, crashes, rejects>>
    BY DEF RemoveOld, RemovePack, mem, disk, refs
<1>3. (IndexInv /\ FlushInv /\ BufferInv)'
    BY <1>1, <1>2 DEF IndexInv, FlushInv, CollectorInv, Stored, IdTaken, BufferInv, Restrict
<1>4. (KnownInv /\ WriterInv /\ NamedIsStored)'
    BY <1>1, <1>2 DEF IndexInv, KnownInv, Removing, FlushInv, BufferInv, CollectorInv,
        Stored, Readable, WriterInv, NamedIsStored, Named, Restrict
<1>5. (CollectorInv /\ GivenInv)'
    BY <1>1, <1>2 DEF IndexInv, CollectorInv, NamedIsStored, Named, GivenInv, FlushInv,
        BufferInv, Stored, Readable, Packs, Restrict
<1> QED BY RemoveOldTypes, <1>3, <1>4, <1>5

LEMMA RemoveForgetsKeeps ==
    ASSUME Alone, KeptInv, NEW c \in Callers, RemoveForgets(c)
    PROVE  KeptInv'
<1> USE NoPackAssumption
    DEF KeptInv, TypesInv, TypeOK, CallsTyped, CallRecords, PassFits, Writers, Collectors, At
<1>1. Callers = {c}
    BY DEF Alone
<1>2. /\ At(c, "removed")
      /\ index' = [b \in Blobs |-> IF index[b] = call[c].pack THEN NoPack ELSE index[b]]
      /\ memCache' = memCache \ {b \in Blobs : index[b] = call[c].pack}
      /\ call'[c].at = IF call[c].old = {} THEN "sorting" ELSE "remove"
      /\ call'[c].pass = call[c].pass /\ call'[c].blobs = call[c].blobs
      /\ call'[c].body = call[c].body /\ call'[c].keep = call[c].keep
      /\ call'[c].members = call[c].members /\ call'[c].todo = call[c].todo
      /\ call'[c].batch = call[c].batch /\ call'[c].old = call[c].old
      /\ UNCHANGED <<pending, packBuffer, nextPackId, packs, young, lines, own, adopted,
                      crashes, rejects>>
    BY DEF RemoveForgets, In, mem, disk, refs
<1>3. (IndexInv /\ FlushInv /\ BufferInv)'
    BY <1>1, <1>2 DEF IndexInv, FlushInv, CollectorInv, Stored, IdTaken, BufferInv
<1>4. (KnownInv /\ WriterInv /\ NamedIsStored)'
    BY <1>1, <1>2 DEF IndexInv, KnownInv, Removing, FlushInv, BufferInv, CollectorInv,
        Stored, Readable, WriterInv, NamedIsStored, Named
<1>5. (CollectorInv /\ GivenInv)'
    BY <1>1, <1>2 DEF IndexInv, CollectorInv, NamedIsStored, Named, GivenInv, FlushInv,
        BufferInv, Stored, Readable, Packs
<1> QED BY RemoveForgetsTypes, <1>3, <1>4, <1>5

LEMMA StartRewriteKeeps ==
    ASSUME Alone, KeptInv, NEW c \in Callers, StartRewrite(c)
    PROVE  KeptInv'
<1> USE NoPackAssumption
    DEF KeptInv, TypesInv, TypeOK, CallsTyped, CallRecords, PassFits, Writers, Collectors, At
<1>1. Callers = {c}
    BY DEF Alone
<1>2. /\ At(c, "sorting") /\ call[c].todo = {} /\ call'[c].at = "rewriting"
      /\ call'[c].members = index /\ call'[c].pass = call[c].pass
      /\ call'[c].blobs = call[c].blobs /\ call'[c].pack = call[c].pack
      /\ call'[c].body = call[c].body /\ call'[c].keep = call[c].keep
      /\ call'[c].todo = call[c].todo /\ call'[c].batch = call[c].batch
      /\ call'[c].old = call[c].old
      /\ UNCHANGED <<memCache, pending, packBuffer, index, nextPackId, packs, young,
                      lines, own, adopted, crashes, rejects>>
    BY DEF StartRewrite, mem, disk, refs
<1>3. (IndexInv /\ FlushInv /\ BufferInv)'
    BY <1>1, <1>2 DEF IndexInv, FlushInv, CollectorInv, Stored, IdTaken, BufferInv
<1>4. (KnownInv /\ WriterInv /\ NamedIsStored)'
    BY <1>1, <1>2 DEF IndexInv, KnownInv, Removing, FlushInv, BufferInv, CollectorInv,
        Stored, Readable, WriterInv, NamedIsStored, Named
<1>5. (CollectorInv /\ GivenInv)'
    BY <1>1, <1>2 DEF IndexInv, CollectorInv, NamedIsStored, Named, GivenInv, FlushInv,
        BufferInv, Stored, Readable, Packs
<1> QED BY StartRewriteTypes, <1>3, <1>4, <1>5

LEMMA IndexRewrittenKeeps ==
    ASSUME Alone, KeptInv, NEW c \in Callers, IndexRewritten(c)
    PROVE  KeptInv'
<1> USE NoPackAssumption
    DEF KeptInv, TypesInv, TypeOK, CallsTyped, CallRecords, PassFits, Writers, Collectors, At
<1>1. Callers = {c}
    BY DEF Alone
<1>2. /\ At(c, "rewriting") /\ lines' = call[c].members /\ call'[c].todo = {}
      /\ call'[c].batch = {} /\ call'[c].at = "idle" /\ call'[c].pass = "none"
      /\ call'[c].old = {}
      /\ UNCHANGED <<memCache, pending, packBuffer, index, nextPackId, packs, young, own,
                      adopted, crashes, rejects>>
    BY DEF IndexRewritten, mem, disk, refs, Idle
<1>3. (IndexInv /\ FlushInv /\ BufferInv)'
    BY <1>1, <1>2 DEF IndexInv, FlushInv, CollectorInv, Stored, IdTaken, BufferInv
<1>4. (KnownInv /\ WriterInv /\ NamedIsStored)'
    BY <1>1, <1>2 DEF IndexInv, KnownInv, Removing, FlushInv, BufferInv, CollectorInv,
        Stored, Readable, WriterInv, NamedIsStored, Named
<1>5. (CollectorInv /\ GivenInv)'
    BY <1>1, <1>2 DEF IndexInv, CollectorInv, NamedIsStored, Named, GivenInv, FlushInv,
        BufferInv, Stored, Readable, Packs
<1> QED BY IndexRewrittenTypes, <1>3, <1>4, <1>5

LEMMA NothingToCollectKeeps ==
    ASSUME Alone, KeptInv, NEW c \in Callers, NothingToCollect(c)
    PROVE  KeptInv'
<1> USE NoPackAssumption
    DEF KeptInv, TypesInv, TypeOK, CallsTyped, CallRecords, PassFits, Writers, Collectors, At
<1>1. Callers = {c}
    BY DEF Alone
<1>2. /\ At(c, "sorting") /\ call'[c].todo = {} /\ call'[c].batch = {} /\ call'[c].at = "idle"
      /\ call'[c].pass = "none" /\ call'[c].old = {}
      /\ UNCHANGED <<memCache, pending, packBuffer, index, nextPackId, packs, young,
                      lines, own, adopted, crashes, rejects>>
    BY DEF NothingToCollect, mem, disk, refs, Idle
<1>3. (IndexInv /\ FlushInv /\ BufferInv)'
    BY <1>1, <1>2 DEF IndexInv, FlushInv, CollectorInv, Stored, IdTaken, BufferInv
<1>4. (KnownInv /\ WriterInv /\ NamedIsStored)'
    BY <1>1, <1>2 DEF IndexInv, KnownInv, Removing, FlushInv, BufferInv, CollectorInv,
        Stored, Readable, WriterInv, NamedIsStored, Named
<1>5. (CollectorInv /\ GivenInv)'
    BY <1>1, <1>2 DEF IndexInv, CollectorInv, NamedIsStored, Named, GivenInv, FlushInv,
        BufferInv, Stored, Readable, Packs
<1> QED BY NothingToCollectTypes, <1>3, <1>4, <1>5

LEMMA CrashKeeps ==
    ASSUME Alone, KeptInv, NEW c \in Callers, Crash(c)
    PROVE  KeptInv'
<1> USE NoPackAssumption
    DEF KeptInv, TypesInv, TypeOK, CallsTyped, CallRecords, PassFits, Writers, Collectors, At
<1>1. Callers = {c}
    BY DEF Alone
<1>2. /\ crashes' = crashes + 1 /\ packs' \in TornPacks(c) /\ lines' \in TornLines(c)
      /\ index' = lines' /\ memCache' = {} /\ pending' = {} /\ packBuffer' = {}
      /\ call'[c].pass = "none" /\ call'[c].at = "idle" /\ call'[c].old = {}
      /\ UNCHANGED <<own, adopted, rejects>>
    BY DEF Crash, refs, Idle
<1>3. crashes' # 0
    BY <1>2
<1>4. \A b \in Stored : b \in Stored'
    <2>1. CASE packs' = packs /\ lines' = lines
        BY <2>1 DEF Stored
    <2>2. CASE At(c, "body") /\ lines' = lines
               /\ \E s \in SUBSET call[c].body : packs' = PackAfter(call[c].pack, s)
        BY <2>2 DEF Stored, PackAfter
    <2>3. CASE At(c, "lines") /\ packs' = packs
               /\ \E s \in SUBSET call[c].body : lines' = LinesWith(lines, s, call[c].pack)
        BY <1>1, <2>3 DEF Stored, FlushInv, LinesWith
    <2> QED BY <1>2, <2>1, <2>2, <2>3 DEF TornPacks, TornLines
<1>5. TypesInv'
    BY CrashTypes
<1>6. (IndexInv /\ FlushInv /\ BufferInv)'
    BY <1>1, <1>2, <1>5 DEF IndexInv, FlushInv, BufferInv, Stored
<1>7. (KnownInv /\ WriterInv /\ NamedIsStored)'
    BY <1>1, <1>2, <1>3, <1>4 DEF KnownInv, WriterInv, NamedIsStored
<1>8. (CollectorInv /\ GivenInv)'
    BY <1>1, <1>2, <1>3 DEF CollectorInv, GivenInv
<1> QED BY <1>5, <1>6, <1>7, <1>8

LEMMA AgeKeeps ==
    ASSUME KeptInv, Age
    PROVE  KeptInv'
<1>1. TypesInv'
    BY AgeTypes DEF KeptInv
<1>2. (IndexInv /\ FlushInv /\ BufferInv)'
    BY DEF KeptInv, Age, mem, IndexInv, FlushInv, BufferInv, Stored, At
<1>3. (KnownInv /\ WriterInv /\ NamedIsStored)'
    BY DEF KeptInv, Age, mem, refs, KnownInv, WriterInv, NamedIsStored, Removing, Stored, At
<1>4. (CollectorInv /\ GivenInv)'
    BY DEF KeptInv, Age, mem, refs, CollectorInv, GivenInv, Named, At
<1> QED BY <1>1, <1>2, <1>3, <1>4 DEF KeptInv

LEMMA KeptStep ==
    ASSUME Alone, KeptInv, [Next]_vars
    PROVE  KeptInv'
<1>1. ASSUME NEW c \in Callers, Write(c)
      PROVE  KeptInv'
    BY <1>1, PutKeeps, CaptureKeeps, AdoptKeeps, BeginKeeps, CheckpointKeeps, FlushNothingKeeps,
       StartFlushKeeps, BodyAppendedKeeps, LinesAppendedKeeps, RecordKeeps, WriteRejectsKeeps DEF Write
<1>2. ASSUME NEW c \in Callers, Collect(c)
      PROVE  KeptInv'
    BY <1>2, BeginCollectingKeeps, KeepPackKeeps, RetireKeeps, DefersKeeps, CompactKeeps, StreamKeeps,
       RemoveOldKeeps, RetireForgetsKeeps, RemoveForgetsKeeps, StartRewriteKeeps, IndexRewrittenKeeps,
       NothingToCollectKeeps DEF Collect, Collectors
<1>3. CASE UNCHANGED vars
    <2>1. TypesInv'
        BY <1>3, TypesStep DEF KeptInv
    <2>2. (IndexInv /\ FlushInv /\ BufferInv)'
        BY <1>3 DEF KeptInv, vars, mem, disk, IndexInv, FlushInv, BufferInv, Stored, At
    <2>3. (KnownInv /\ WriterInv /\ NamedIsStored)'
        BY <1>3 DEF KeptInv, vars, mem, disk, refs, KnownInv, WriterInv, NamedIsStored, Removing,
            Stored, At
    <2>4. (CollectorInv /\ GivenInv)'
        BY <1>3 DEF KeptInv, vars, mem, disk, refs, CollectorInv, GivenInv, Named, At
    <2> QED BY <2>1, <2>2, <2>3, <2>4 DEF KeptInv
<1> QED BY <1>1, <1>2, <1>3, AgeKeeps, CrashKeeps, GetKeeps, ForgetKeeps DEF Next

LEMMA KeptInit == Init => KeptInv
<1> SUFFICES ASSUME Init PROVE KeptInv
    OBVIOUS
<1>1. \A c \in Callers : call[c].pass = "none" /\ call[c].at = "idle" /\ call[c].old = {}
                         /\ call[c].todo = {} /\ call[c].batch = {}
    BY DEF Init, Idle
<1>2. IndexInv /\ FlushInv /\ BufferInv
    BY <1>1 DEF Init, IndexInv, FlushInv, BufferInv, Stored, At
<1>3. KnownInv /\ WriterInv /\ NamedIsStored
    BY <1>1 DEF Init, KnownInv, WriterInv, NamedIsStored
<1>4. CollectorInv /\ GivenInv
    BY <1>1 DEF Init, CollectorInv, GivenInv, At, Collectors, Writers
<1> QED BY <1>2, <1>3, <1>4, TypesInit DEF KeptInv

\* What this device's ops and entries name can be read after a restart, whatever the crashes
\* and the rejected writes, and in the middle of a collection too, for the editor's saves, the
\* passes and the collections do not overlap: the applicator flushes before it records, gc and
\* consolidatePacks move what is named before they remove a pack.
THEOREM NamedIsKept == Spec /\ Alone => []NamedIsStored
<1> SUFFICES ASSUME Alone PROVE Spec => []NamedIsStored
    OBVIOUS
<1>1. Init => KeptInv
    BY KeptInit
<1>2. KeptInv /\ [Next]_vars => KeptInv'
    BY KeptStep
<1>3. KeptInv => NamedIsStored
    BY DEF KeptInv
<1> QED BY <1>1, <1>2, <1>3, PTL DEF Spec
=============================================================================
