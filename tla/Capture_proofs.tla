--------------------------- MODULE Capture_proofs ---------------------------
(***************************************************************************)
(* The types of Capture for every set of texts and callers, and, as long   *)
(* as no two calls overlap, that the ops of the file are a line of history *)
(* and that at rest they tell what is in the vault.                        *)
(***************************************************************************)
EXTENDS Capture, SequenceTheorems, TLAPS

----------------------------------------------------------------------------
(* What a call needs of the state in each of its places                    *)

CallFits(c) ==
    /\ phase = "off" => At(c, "idle")
    /\ call[c].pc \in {"hash", "stored", "save", "put", "drift", "captured"} => call[c].text \in Texts
    /\ call[c].pc \in {"stored", "save", "put", "append", "head", "exists", "saveDeleted", "rewrite"} =>
           entry # NoEntry
    /\ call[c].pc \in {"read", "hash", "scan", "drift", "captured"} /\ call[c].had => entry # NoEntry

TypesInv == TypeOK /\ \A c \in Callers : CallFits(c)

\* No step takes the entry away, but a crash.
LEMMA FitsStays ==
    ASSUME TypesInv, NEW d \in Callers, call'[d] = call[d],
           phase' = "off" => phase = "off" \/ At(d, "idle"), entry # NoEntry => entry' # NoEntry
    PROVE  CallFits(d)'
BY DEF TypesInv, CallFits, At

LEMMA IdleIsACall ==
    /\ Idle \in Calls /\ \A p \in PCs, j \in Jobs : [Idle EXCEPT !.pc = p, !.job = j] \in Calls
BY DEF Idle, Calls, PCs, Passes, Jobs

\* Caller c goes on to k, which has all it needs there.
GoesTo(c, k) ==
    /\ Moves(c, k) /\ k \in Calls /\ k.op <= clock' /\ k.parents \subseteq 1..clock'
    /\ phase' = "off" => phase = "off" /\ k.pc = "idle"
    /\ entry # NoEntry => entry' # NoEntry
    /\ k.pc \in {"hash", "stored", "save", "put", "drift", "captured"} => k.text \in Texts
    /\ k.pc \in {"stored", "save", "put", "append", "head", "exists", "saveDeleted", "rewrite"} =>
           entry' # NoEntry
    /\ k.pc \in {"read", "hash", "scan", "drift", "captured"} /\ k.had => entry' # NoEntry
    /\ deferSave' => k.pc \in Passes \/ (deferSave /\ call[c].pc \notin Passes)

LEMMA CallStep ==
    ASSUME TypesInv, NEW c \in Callers, NEW k, GoesTo(c, k),
           clock' \in Nat, clock <= clock', deferSave' \in BOOLEAN
    PROVE  /\ call' \in [Callers -> Calls]
           /\ \A d \in Callers : call'[d].op <= clock' /\ call'[d].parents \subseteq 1..clock'
           /\ deferSave' => \E d \in Callers : call'[d].pc \in Passes
           /\ \A d \in Callers : CallFits(d)'
<1> USE DEF GoesTo
<1>1. call' = [call EXCEPT ![c] = k] /\ call \in [Callers -> Calls]
    BY DEF Moves, TypesInv, TypeOK
<1>2. call'[c] = k /\ \A d \in Callers \ {c} : call'[d] = call[d]
    BY <1>1
<1>3. call' \in [Callers -> Calls]
    BY <1>1
<1>4. ASSUME NEW d \in Callers PROVE call'[d].op <= clock' /\ call'[d].parents \subseteq 1..clock'
    <2>1. CASE d = c
        BY <1>2, <2>1
    <2>2. CASE d # c
        <3>1. call[d].op <= clock /\ call[d].parents \subseteq 1..clock /\ call[d].op \in Nat /\ clock \in Nat
            BY <1>1 DEF TypesInv, TypeOK, Calls
        <3> QED BY <1>2, <2>2, <3>1
    <2> QED BY <2>1, <2>2
<1>5. deferSave' => \E d \in Callers : call'[d].pc \in Passes
    <2>1. CASE k.pc \in Passes
        BY <1>2, <2>1
    <2>2. CASE deferSave /\ call[c].pc \notin Passes
        BY <1>2, <2>2 DEF TypesInv, TypeOK
    <2> QED BY <2>1, <2>2
<1>6. ASSUME NEW d \in Callers PROVE CallFits(d)'
    <2>1. CASE d = c
        BY <1>2, <2>1 DEF CallFits, At
    <2>2. CASE d # c
        BY <1>2, <2>2, FitsStays
    <2> QED BY <2>1, <2>2
<1> QED BY <1>3, <1>4, <1>5, <1>6

\* An entry of the registry, as registerFile and the handlers make it.
LEMMA EntryTypes ==
    ASSUME TypeOK
    PROVE  /\ \A t \in Texts, st \in Nat :
                  registerFile(t, st) \in Entries /\ registerFile(t, st).head <= clock
           /\ entry # NoEntry =>
                /\ entry \in Entries /\ entry.head \in 0..clock
                /\ HeadOf(entry) \subseteq 1..clock /\ HeadOf(entry) \subseteq Nat
                /\ \A t \in Texts : [entry EXCEPT !.text = t] \in Entries
                /\ \A t \in Texts, st \in Nat : [entry EXCEPT !.text = t, !.stat = st] \in Entries
                /\ \A st \in Nat : [entry EXCEPT !.stat = st] \in Entries
                /\ [entry EXCEPT !.deleted = TRUE] \in Entries
                /\ \A h \in Nat : [entry EXCEPT !.head = h] \in Entries
<1>1. ASSUME entry # NoEntry
      PROVE  /\ entry \in Entries /\ entry.head <= clock /\ clock \in Nat /\ entry.head \in Nat
             /\ entry.deleted \in BOOLEAN /\ entry.head \in 0..clock
    <2>1. entry \in Entries /\ entry.head <= clock /\ clock \in Nat
        BY <1>1 DEF TypeOK
    <2> QED BY <2>1 DEF Entries
<1>2. ASSUME NEW t \in Texts, NEW st \in Nat
      PROVE  registerFile(t, st) \in Entries /\ registerFile(t, st).head <= clock
    <2>1. NewEntry(t, st) \in Entries /\ NewEntry(t, st).head = 0 /\ clock \in Nat
        BY DEF TypeOK, NewEntry, Entries
    <2>2. entry # NoEntry =>
              /\ [entry EXCEPT !.deleted = FALSE, !.text = t, !.stat = st] \in Entries
              /\ [entry EXCEPT !.deleted = FALSE, !.text = t, !.stat = st].head = entry.head
        BY <1>1 DEF Entries
    <2> QED BY <1>1, <2>1, <2>2 DEF registerFile
<1>3. ASSUME entry # NoEntry
      PROVE  /\ \A t \in Texts : [entry EXCEPT !.text = t] \in Entries
             /\ \A t \in Texts, st \in Nat : [entry EXCEPT !.text = t, !.stat = st] \in Entries
             /\ \A st \in Nat : [entry EXCEPT !.stat = st] \in Entries
             /\ [entry EXCEPT !.deleted = TRUE] \in Entries
             /\ \A h \in Nat : [entry EXCEPT !.head = h] \in Entries
    BY <1>1, <1>3 DEF Entries
<1>4. entry # NoEntry => HeadOf(entry) \subseteq 1..clock /\ HeadOf(entry) \subseteq Nat
    BY <1>1 DEF HeadOf
<1> QED BY <1>1, <1>2, <1>3, <1>4, Zenon

\* The ops that are left, and those that are new, are ops.
LEMMA RecordedTypes ==
    ASSUME TypeOK, clock' \in {clock, clock + 1},
           \A o \in Recorded' :
               \/ o \in Recorded
               \/ o \in Ops /\ o.id = clock + 1 /\ clock' = clock + 1 /\ o.parents \subseteq 1..clock
    PROVE  /\ Recorded' \subseteq Ops
           /\ \A o \in Recorded' : o.id \in 1..clock' /\ o.parents \subseteq 1..clock'
           /\ clock' \in Nat /\ clock <= clock'
BY DEF TypeOK

Rest ==
    /\ text \in Texts \cup {NoText} /\ stat \in Nat /\ listed \in [there : BOOLEAN, stat : Nat]
    /\ phase \in {"off", "startup", "listening", "deaf"}
    /\ events \in Seq({"create", "modify", "delete"})
    /\ touched \in BOOLEAN /\ armed \in BOOLEAN /\ deferSave \in BOOLEAN /\ unseen \in BOOLEAN
    /\ acts \in Nat /\ faults \in Nat /\ slips \subseteq Windows

EntriesFit ==
    /\ {entry, saved} \subseteq Entries \cup {NoEntry}
    /\ \A e \in {entry, saved} \ {NoEntry} : e.head <= clock

\* Every recorded op was one, or is the new one.
RecordsGrow ==
    /\ clock' \in {clock, clock + 1}
    /\ \A o \in Recorded' :
           \/ o \in Recorded
           \/ o \in Ops /\ o.id = clock + 1 /\ clock' = clock + 1 /\ o.parents \subseteq 1..clock

LEMMA TypedStep ==
    ASSUME TypesInv, NEW c \in Callers, NEW k, GoesTo(c, k), Rest', EntriesFit', RecordsGrow
    PROVE  TypesInv'
<1>1. /\ Recorded' \subseteq Ops
      /\ \A o \in Recorded' : o.id \in 1..clock' /\ o.parents \subseteq 1..clock'
      /\ clock' \in Nat /\ clock <= clock'
    BY RecordedTypes DEF TypesInv, RecordsGrow
<1>2. /\ call' \in [Callers -> Calls]
      /\ \A d \in Callers : call'[d].op <= clock' /\ call'[d].parents \subseteq 1..clock'
      /\ deferSave' => \E d \in Callers : call'[d].pc \in Passes
      /\ \A d \in Callers : CallFits(d)'
    BY <1>1, CallStep DEF Rest
<1> QED BY <1>1, <1>2 DEF TypesInv, TypeOK, Rest, EntriesFit

LEMMA TypesFacts ==
    ASSUME TypesInv
    PROVE  /\ Rest /\ EntriesFit /\ clock \in Nat
           /\ \A c \in Callers :
                  /\ call[c] \in Calls /\ call[c].op <= clock /\ call[c].parents \subseteq 1..clock
                  /\ call[c].parents \subseteq Nat /\ call[c].op \in Nat
                  /\ CallFits(c)
BY DEF TypesInv, TypeOK, Rest, EntriesFit, Calls

\* A call that is over is idle, or lists.
LEMMA EndsGoes ==
    ASSUME TypesInv, NEW c \in Callers, Ends(c), call[c].pc \notin Passes, ~ At(c, "idle"), clock' \in Nat,
           phase' = phase, entry # NoEntry => entry' # NoEntry, deferSave' = deferSave
    PROVE  \E k : GoesTo(c, k)
<1> DEFINE k == IF call[c].job = "round" THEN [Idle EXCEPT !.pc = "list", !.job = "round"] ELSE Idle
<1>1. k \in Calls /\ k.op = 0 /\ k.parents = {} /\ k.pc \in {"idle", "list"}
    BY IdleIsACall DEF Idle, PCs, Jobs
<1>2. phase # "off"
    BY DEF TypesInv, CallFits
<1>3. Moves(c, k)
    BY DEF Ends
<1> HIDE DEF k
<1>4. GoesTo(c, k)
    BY <1>1, <1>2, <1>3 DEF GoesTo
<1> QED BY <1>4

LEMMA ReadsTypes ==
    ASSUME TypesInv, NEW c \in Callers, Reads(c)
    PROVE  TypesInv'
<1> USE DEF Reads, vault, watch, files, memory, At, Passes
<1>1. Rest' /\ EntriesFit' /\ RecordsGrow
    BY TypesFacts DEF Rest, EntriesFit, RecordsGrow, Recorded
<1>2. CASE Ends(c)
    BY <1>1, <1>2, EndsGoes, TypesFacts, TypedStep
<1>3. CASE text # NoText /\ Moves(c, [call[c] EXCEPT !.pc = "hash", !.text = text])
    <2> DEFINE k == [call[c] EXCEPT !.pc = "hash", !.text = text]
    <2>0. call[c] \in Calls /\ text \in Texts
        BY <1>3, TypesFacts DEF Rest
    <2>1. /\ k \in Calls /\ k.pc = "hash" /\ k.text \in Texts /\ k.had = call[c].had
          /\ k.parents = call[c].parents /\ k.op = call[c].op /\ Moves(c, k)
        <3>1. k \in Calls
            BY <2>0 DEF Calls, PCs
        <3>2. /\ k.pc = "hash" /\ k.text = text /\ k.had = call[c].had
              /\ k.parents = call[c].parents /\ k.op = call[c].op
            BY <2>0 DEF Calls
        <3> QED BY <1>3, <2>0, <3>1, <3>2
    <2> HIDE DEF k
    <2>2. GoesTo(c, k)
        BY <2>1, TypesFacts DEF GoesTo, CallFits
    <2> QED BY <1>1, <2>2, TypedStep
<1> QED BY <1>2, <1>3

LEMMA RegistersTypes ==
    ASSUME TypesInv, NEW c \in Callers, Registers(c)
    PROVE  TypesInv'
<1> USE DEF Registers, vault, watch, files, At, Passes
<1>1. /\ call[c].text \in Texts /\ call[c] \in Calls /\ clock' = clock
      /\ entry' \in Entries /\ entry'.head <= clock /\ entry' # NoEntry
    BY TypesFacts, EntryTypes, NoEntryAssumption DEF CallFits, TypesInv
<1>2. Rest' /\ EntriesFit' /\ RecordsGrow
    BY <1>1, TypesFacts DEF Rest, EntriesFit, RecordsGrow, Recorded, Windows
<1> DEFINE k == [call[c] EXCEPT !.pc = IF entry' = entry THEN "put" ELSE "save"]
<1>3. /\ k \in Calls /\ k.pc \in {"put", "save"} /\ k.text = call[c].text
      /\ k.parents = call[c].parents /\ k.op = call[c].op /\ Moves(c, k)
    BY <1>1 DEF Calls, PCs
<1> HIDE DEF k
<1>4. GoesTo(c, k)
    BY <1>1, <1>3, TypesFacts DEF GoesTo, CallFits
<1> QED BY <1>2, <1>4, TypedStep

LEMMA HashedTypes ==
    ASSUME TypesInv, NEW c \in Callers, Hashed(c)
    PROVE  TypesInv'
<1> USE DEF Hashed, vault, watch, files, memory, At, Passes
<1>1. Rest' /\ EntriesFit' /\ RecordsGrow
    BY TypesFacts DEF Rest, EntriesFit, RecordsGrow, Recorded, Windows
<1>2. CASE Ends(c)
    BY <1>1, <1>2, EndsGoes, TypesFacts, TypedStep
<1>3. CASE Moves(c, [call[c] EXCEPT !.pc = "stored", !.parents = HeadOf(entry)])
    <2> DEFINE k == [call[c] EXCEPT !.pc = "stored", !.parents = HeadOf(entry)]
    <2>1. HeadOf(entry) \subseteq 1..clock /\ HeadOf(entry) \subseteq Nat /\ entry # NoEntry
        BY TypesFacts, EntryTypes DEF CallFits, Rest, TypesInv
    <2>2. /\ k \in Calls /\ k.pc = "stored" /\ k.text = call[c].text
          /\ k.parents = HeadOf(entry) /\ k.op = call[c].op /\ Moves(c, k)
        <3>1. call[c] \in Calls
            BY TypesFacts
        <3>2. k \in Calls
            BY <2>1, <3>1 DEF Calls, PCs
        <3>3. k.pc = "stored" /\ k.text = call[c].text /\ k.parents = HeadOf(entry) /\ k.op = call[c].op
            BY <3>1 DEF Calls
        <3> QED BY <1>3, <3>2, <3>3
    <2> HIDE DEF k
    <2>3. GoesTo(c, k)
        BY <2>1, <2>2, TypesFacts DEF GoesTo, CallFits
    <2> QED BY <1>1, <2>3, TypedStep
<1> QED BY <1>2, <1>3

LEMMA UpdateTypes ==
    ASSUME TypesInv, NEW c \in Callers, updateContentHash(c)
    PROVE  TypesInv'
<1> USE DEF updateContentHash, vault, watch, files, At, Passes
<1>1. /\ call[c].text \in Texts /\ call[c] \in Calls /\ clock' = clock
      /\ entry' \in Entries /\ entry'.head <= clock /\ entry' # NoEntry
    <2>1. /\ call[c].text \in Texts /\ call[c] \in Calls /\ entry # NoEntry /\ TypeOK
          /\ entry' = [entry EXCEPT !.text = call[c].text]
        BY TypesFacts DEF CallFits, TypesInv
    <2>2. entry' \in Entries /\ entry \in Entries /\ entry.head \in 0..clock
        BY <2>1, EntryTypes
    <2> QED BY <2>1, <2>2, NoEntryAssumption DEF Entries
<1>2. Rest' /\ EntriesFit' /\ RecordsGrow
    BY <1>1, TypesFacts DEF Rest, EntriesFit, RecordsGrow, Recorded
<1> DEFINE k == [call[c] EXCEPT !.pc = "save"]
<1>3. /\ k \in Calls /\ k.pc = "save" /\ k.text = call[c].text
      /\ k.parents = call[c].parents /\ k.op = call[c].op /\ Moves(c, k)
    BY <1>1 DEF Calls, PCs, Goes, Moves
<1> HIDE DEF k
<1>4. GoesTo(c, k)
    BY <1>1, <1>3, TypesFacts DEF GoesTo, CallFits
<1> QED BY <1>2, <1>4, TypedStep

LEMMA ExistsTypes ==
    ASSUME TypesInv, NEW c \in Callers, Exists(c)
    PROVE  TypesInv'
<1> USE DEF Exists, vault, watch, files, At, Passes
<1>1. /\ call[c] \in Calls /\ entry # NoEntry /\ TypeOK /\ phase # "off" /\ clock' = clock
    BY TypesFacts DEF CallFits, TypesInv
<1>2. entry' \in Entries /\ entry'.head <= clock /\ entry' # NoEntry
    <2>1. [entry EXCEPT !.deleted = TRUE] \in Entries /\ entry \in Entries /\ entry.head \in 0..clock
        BY <1>1, EntryTypes
    <2>2. entry' \in {entry, [entry EXCEPT !.deleted = TRUE]}
        OBVIOUS
    <2>3. entry' \in Entries /\ entry'.head = entry.head
        BY <2>1, <2>2 DEF Entries
    <2> HIDE DEF Exists
    <2> QED BY <2>1, <2>3, NoEntryAssumption
<1>3. Rest' /\ EntriesFit' /\ RecordsGrow
    BY <1>1, <1>2, TypesFacts DEF Rest, EntriesFit, RecordsGrow, Recorded, Windows
<1>4. \E k : GoesTo(c, k)
    <2>1. PICK k : /\ Moves(c, k) /\ k \in Calls /\ k.pc \in {"read", "saveDeleted"}
                   /\ k.parents = call[c].parents /\ k.op = call[c].op
        <3>1. CASE listed.there
            <4> DEFINE k == [call[c] EXCEPT !.pc = "read", !.had = TRUE]
            <4>1. /\ Moves(c, k) /\ k \in Calls /\ k.pc = "read"
                  /\ k.parents = call[c].parents /\ k.op = call[c].op
                BY <1>1, <3>1 DEF Calls, PCs
            <4> QED BY <4>1
        <3>2. CASE ~ listed.there
            <4> DEFINE k == [call[c] EXCEPT !.pc = "saveDeleted"]
            <4>1. /\ Moves(c, k) /\ k \in Calls /\ k.pc = "saveDeleted"
                  /\ k.parents = call[c].parents /\ k.op = call[c].op
                BY <1>1, <3>2 DEF Calls, PCs, Goes, Moves
            <4> QED BY <4>1
        <3> QED BY <3>1, <3>2
    <2>2. GoesTo(c, k)
        BY <1>1, <1>2, <2>1, TypesFacts DEF GoesTo
    <2> QED BY <2>2
<1> QED BY <1>3, <1>4, TypedStep

\* recordOp: what is recorded is an op, and the call goes on to its append.
LEMMA RecordsTypes ==
    ASSUME TypesInv, NEW c \in Callers, NEW type \in Types, NEW t \in Texts, NEW P \in SUBSET (1..clock),
           entry # NoEntry, entry' = entry, phase' = phase, deferSave' = deferSave,
           server' = server, durable' = durable, Records(c, type, t, P), call[c].pc \notin Passes, phase # "off"
    PROVE  RecordsGrow /\ \E k : GoesTo(c, k)
<1>1. /\ call[c] \in Calls /\ call[c].parents \subseteq 1..clock /\ clock \in Nat /\ entry.file \in Nat
      /\ P \subseteq Nat
    BY TypesFacts DEF EntriesFit, Entries
<1>2. Op(clock + 1, type, entry.file, t, P) \in Ops /\ Op(clock + 1, type, entry.file, t, P).id = clock + 1
      /\ Op(clock + 1, type, entry.file, t, P).parents = P
    BY <1>1 DEF Op, Ops
<1>3. RecordsGrow
    BY <1>2 DEF RecordsGrow, Recorded, Records
<1> DEFINE n == clock + 1
           k == [call[c] EXCEPT !.pc = "append", !.op = n]
<1>4. n \in Nat /\ clock' = n /\ Moves(c, k)
    BY <1>1 DEF Records
<1> HIDE DEF n
<1>5. /\ k \in Calls /\ k.pc = "append" /\ k.parents = call[c].parents /\ k.op = n
    BY <1>1, <1>4 DEF Calls, PCs
<1> USE DEF n
<1> HIDE DEF k
<1>6. GoesTo(c, k)
    BY <1>1, <1>4, <1>5 DEF GoesTo
<1> QED BY <1>3, <1>6

LEMMA SavesTypes ==
    ASSUME TypesInv, NEW c \in Callers, Saves(c)
    PROVE  TypesInv'
<1> USE DEF Saves, vault, watch, At, Passes
<1>1. /\ call[c].text \in Texts /\ entry # NoEntry /\ phase # "off" /\ call[c].parents \subseteq 1..clock
    BY TypesFacts DEF CallFits
<1>2. RecordsGrow /\ \E k : GoesTo(c, k)
    BY <1>1, RecordsTypes DEF Types
<1>3. Rest' /\ EntriesFit'
    <2>1. clock' = clock + 1 /\ clock \in Nat
        BY TypesFacts DEF Records
    <2>2. EntriesFit'
        BY <2>1, TypesFacts DEF EntriesFit, Save, Entries
    <2> QED BY <2>2, TypesFacts DEF Rest
<1> QED BY <1>2, <1>3, TypedStep

LEMMA SavesDeletedTypes ==
    ASSUME TypesInv, NEW c \in Callers, SavesDeleted(c)
    PROVE  TypesInv'
<1> USE DEF SavesDeleted, vault, watch, At, Passes
<1>1. /\ entry # NoEntry /\ entry \in Entries /\ phase # "off" /\ TypeOK /\ clock \in Nat
      /\ call[c] \in Calls
    BY TypesFacts DEF CallFits, EntriesFit, TypesInv
<1>2. HeadOf(entry) \subseteq 1..clock
    BY <1>1, EntryTypes
<1>3. RecordsGrow /\ (\E k : GoesTo(c, k)) /\ clock' \in {clock, clock + 1}
    <2>1. CASE Records(c, "delete", entry.text, HeadOf(entry))
        <3>1. entry.text \in Texts /\ "delete" \in Types
            BY <1>1 DEF Types, Entries
        <3>2. clock' = clock + 1
            BY <2>1 DEF Records
        <3> QED BY <1>1, <1>2, <2>1, <3>1, <3>2, RecordsTypes
    <2>2. CASE ops' = pruneCreateDeletePair(entry.file) /\ Goes(c, "rewrite") /\ clock' = clock
        <3> DEFINE k == [call[c] EXCEPT !.pc = "rewrite"]
        <3>1. /\ k \in Calls /\ k.pc = "rewrite" /\ k.parents = call[c].parents /\ k.op = call[c].op /\ Moves(c, k)
            BY <1>1, <2>2 DEF Calls, PCs, Goes, Moves
        <3> HIDE DEF k
        <3>2. GoesTo(c, k)
            BY <1>1, <2>2, <3>1, TypesFacts DEF GoesTo
        <3>3. RecordsGrow
            BY <2>2 DEF RecordsGrow, Recorded, pruneCreateDeletePair
        <3> QED BY <2>2, <3>2, <3>3
    <2> QED BY <2>1, <2>2
<1>4. EntriesFit'
    BY <1>1, <1>3, TypesFacts DEF EntriesFit, Save, Entries
<1>5. Rest'
    BY TypesFacts DEF Rest, Windows
<1> QED BY <1>3, <1>4, <1>5, TypedStep

LEMMA AppendsTypes ==
    ASSUME TypesInv, NEW c \in Callers, Appends(c)
    PROVE  TypesInv'
<1> USE DEF Appends, vault, watch, At, Passes
<1>1. /\ entry # NoEntry /\ phase # "off" /\ TypeOK /\ clock \in Nat /\ clock' = clock
      /\ call[c] \in Calls /\ call[c].op \in Nat /\ call[c].op <= clock /\ call[c].parents \subseteq 1..clock
    BY TypesFacts DEF CallFits, TypesInv
<1>2. entry' \in Entries /\ entry'.head <= clock
    <2>1. entry' \in Entries /\ entry \in Entries
        BY <1>1, EntryTypes
    <2> QED BY <1>1, <2>1 DEF Entries
<1>3. Rest' /\ EntriesFit' /\ RecordsGrow
    BY <1>1, <1>2, TypesFacts DEF Rest, EntriesFit, RecordsGrow, Recorded
<1> DEFINE k == [call[c] EXCEPT !.pc = "head"]
<1>4. k \in Calls /\ k.pc = "head" /\ k.parents = call[c].parents /\ k.op = call[c].op /\ Moves(c, k)
    BY <1>1 DEF Calls, PCs, Goes, Moves
<1> HIDE DEF k
<1>5. GoesTo(c, k)
    BY <1>1, <1>2, <1>4, NoEntryAssumption DEF GoesTo
<1> QED BY <1>3, <1>5, TypedStep

LEMMA HeadSavedTypes ==
    ASSUME TypesInv, NEW c \in Callers, HeadSaved(c)
    PROVE  TypesInv'
<1> USE DEF HeadSaved, vault, watch, memory, At, Passes
<1>1. Rest' /\ EntriesFit' /\ RecordsGrow
    BY TypesFacts DEF Rest, EntriesFit, RecordsGrow, Recorded, Save
<1>2. \E k : GoesTo(c, k)
    BY EndsGoes, TypesFacts
<1> QED BY <1>1, <1>2, TypedStep

LEMMA RewritesTypes ==
    ASSUME TypesInv, NEW c \in Callers, Rewrites(c)
    PROVE  TypesInv'
<1> USE DEF Rewrites, vault, watch, memory, At, Passes
<1>1. Rest' /\ EntriesFit' /\ RecordsGrow
    BY TypesFacts DEF Rest, EntriesFit, RecordsGrow, Recorded
<1>2. \E k : GoesTo(c, k)
    BY EndsGoes, TypesFacts
<1> QED BY <1>1, <1>2, TypedStep

----------------------------------------------------------------------------
(* The capture pass *)

\* A step within a pass.
LEMMA PassGoes ==
    ASSUME TypesInv, NEW c \in Callers, NEW k \in Calls, Moves(c, k), k.pc \in Passes, phase # "off",
           k.op = call[c].op, k.parents = call[c].parents, clock' \in {clock, clock + 1}, phase' = phase,
           entry # NoEntry => entry' # NoEntry,
           k.pc \in {"drift", "captured"} => k.text \in Texts,
           k.pc \in {"scan", "drift", "captured"} /\ k.had => entry' # NoEntry
    PROVE  GoesTo(c, k)
<1>1. k.op <= clock' /\ k.parents \subseteq 1..clock'
    BY TypesFacts
<1> QED BY <1>1 DEF GoesTo, Passes

LEMMA ListsTypes ==
    ASSUME TypesInv, NEW c \in Callers, Lists(c)
    PROVE  TypesInv'
<1> USE DEF Lists, vault, watch, files, At
<1>1. /\ phase # "off" /\ phase' = phase /\ TypeOK /\ clock \in Nat /\ call[c] \in Calls /\ Rest
      /\ deferSave' = TRUE
    BY TypesFacts DEF CallFits, TypesInv
<1>2. PICK cold \in {FALSE, phase = "startup"} :
          /\ unseen' = (unseen /\ cold)
          /\ CASE listed.there /\ ~ cold /\ (entry = NoEntry \/ entry.stat # listed.stat) ->
                     /\ Moves(c, [call[c] EXCEPT !.pc = "scan", !.stat = listed.stat, !.had = entry # NoEntry])
                     /\ UNCHANGED <<entry, ops, clock>>
               [] Vanished(cold) /\ entry # NoEntry /\ ~ entry.deleted ->
                     /\ clock' = clock + 1
                     /\ ops' = ops \cup {Op(clock + 1, "delete", entry.file, entry.text, HeadOf(entry))}
                     /\ entry' = [entry EXCEPT !.deleted = TRUE, !.head = clock + 1]
                     /\ Moves(c, [call[c] EXCEPT !.pc = "flush", !.changed = TRUE])
               [] OTHER -> Goes(c, "flush") /\ UNCHANGED <<entry, ops, clock>>
    OBVIOUS
<1>3. Rest'
    BY <1>1, <1>2 DEF Rest
<1> HIDE DEF Lists
<1>4. UNCHANGED <<saved, durable, server>>
    BY DEF Lists
<1>5. CASE UNCHANGED <<entry, ops, clock>>
    <2>1. EntriesFit' /\ RecordsGrow
        BY <1>4, <1>5, TypesFacts DEF EntriesFit, RecordsGrow, Recorded
    <2>2. CASE Moves(c, [call[c] EXCEPT !.pc = "scan", !.stat = listed.stat, !.had = entry # NoEntry])
        <3> DEFINE k == [call[c] EXCEPT !.pc = "scan", !.stat = listed.stat, !.had = entry # NoEntry]
        <3>1. /\ k \in Calls /\ k.pc = "scan" /\ k.op = call[c].op /\ k.parents = call[c].parents
              /\ k.had = (entry # NoEntry) /\ Moves(c, k)
            BY <1>1, <2>2 DEF Calls, PCs, Passes, Rest
        <3> HIDE DEF k
        <3> QED BY <1>1, <1>3, <1>5, <2>1, <3>1, PassGoes, TypedStep DEF Passes
    <2>3. CASE Goes(c, "flush")
        <3> DEFINE k == [call[c] EXCEPT !.pc = "flush"]
        <3>1. /\ k \in Calls /\ k.pc = "flush" /\ k.op = call[c].op /\ k.parents = call[c].parents
              /\ Moves(c, k)
            BY <1>1, <2>3 DEF Calls, PCs, Passes, Goes, Moves
        <3> HIDE DEF k
        <3> QED BY <1>1, <1>3, <1>5, <2>1, <3>1, PassGoes, TypedStep DEF Passes
    <2>4. entry' = [entry EXCEPT !.deleted = TRUE, !.head = clock + 1] /\ clock' = clock + 1 => FALSE
        BY <1>1, <1>5
    <2> QED BY <1>2, <2>2, <2>3, <2>4
<1>6. CASE /\ clock' = clock + 1 /\ entry # NoEntry
           /\ ops' = ops \cup {Op(clock + 1, "delete", entry.file, entry.text, HeadOf(entry))}
           /\ entry' = [entry EXCEPT !.deleted = TRUE, !.head = clock + 1]
           /\ Moves(c, [call[c] EXCEPT !.pc = "flush", !.changed = TRUE])
    <2>1. HeadOf(entry) \subseteq 1..clock /\ HeadOf(entry) \subseteq Nat /\ entry \in Entries
        BY <1>1, <1>6, EntryTypes
    <2> DEFINE n == clock + 1
    <2>7. n \in Nat /\ entry' = [entry EXCEPT !.deleted = TRUE, !.head = n]
        BY <1>1, <1>6
    <2> HIDE DEF n
    <2>2. entry' \in Entries /\ entry'.head = n
        BY <2>1, <2>7 DEF Entries
    <2> USE DEF n
    <2>3. EntriesFit'
        <3>1. saved' = saved /\ clock' = clock + 1
            BY <1>4, <1>6
        <3>2. saved # NoEntry => saved \in Entries /\ saved.head <= clock /\ saved.head \in Nat
            BY TypesFacts DEF EntriesFit, Entries
        <3>3. saved # NoEntry => saved.head <= clock + 1
            BY <1>1, <3>2
        <3> QED BY <1>1, <2>2, <3>1, <3>2, <3>3 DEF EntriesFit
    <2> DEFINE o == Op(clock + 1, "delete", entry.file, entry.text, HeadOf(entry))
    <2>4. o \in Ops /\ o.id = clock + 1 /\ o.parents = HeadOf(entry)
        BY <1>1, <2>1 DEF Op, Ops, Types, Entries
    <2>5. RecordsGrow
        BY <1>4, <1>6, <2>1, <2>4 DEF RecordsGrow, Recorded
    <2> DEFINE k == [call[c] EXCEPT !.pc = "flush", !.changed = TRUE]
    <2>6. /\ k \in Calls /\ k.pc = "flush" /\ k.op = call[c].op /\ k.parents = call[c].parents
          /\ Moves(c, k)
        BY <1>1, <1>6 DEF Calls, PCs, Passes
    <2> HIDE DEF k, o
    <2>8. GoesTo(c, k)
        BY <1>1, <1>6, <2>2, <2>6, PassGoes, NoEntryAssumption DEF Passes
    <2> QED BY <1>3, <2>3, <2>5, <2>8, TypedStep
<1> QED BY <1>2, <1>5, <1>6

LEMMA ScansTypes ==
    ASSUME TypesInv, NEW c \in Callers, Scans(c)
    PROVE  TypesInv'
<1> USE DEF Scans, vault, watch, files, memory, At
<1>1. /\ phase # "off" /\ phase' = phase /\ call[c] \in Calls /\ Rest /\ CallFits(c)
      /\ UNCHANGED <<entry, clock, text>>
    BY TypesFacts DEF CallFits
<1>2. Rest' /\ EntriesFit' /\ RecordsGrow
    BY TypesFacts DEF Rest, EntriesFit, RecordsGrow, Recorded
<1>3. CASE Goes(c, "flush")
    <2> DEFINE k == [call[c] EXCEPT !.pc = "flush"]
    <2>1. /\ k \in Calls /\ k.pc = "flush" /\ k.op = call[c].op /\ k.parents = call[c].parents
          /\ Moves(c, k)
        BY <1>1, <1>3 DEF Calls, PCs, Passes, Goes, Moves
    <2> HIDE DEF k
    <2> QED BY <1>1, <1>2, <2>1, PassGoes, TypedStep DEF Passes
<1>4. CASE text # NoText /\ Moves(c, [call[c] EXCEPT !.pc = "drift", !.text = text])
    <2> DEFINE k == [call[c] EXCEPT !.pc = "drift", !.text = text]
    <2>1. /\ k \in Calls /\ k.pc = "drift" /\ k.op = call[c].op /\ k.parents = call[c].parents
          /\ k.text \in Texts /\ k.had = call[c].had /\ Moves(c, k)
        BY <1>1, <1>4 DEF Calls, PCs, Passes, Rest
    <2>2. k.had => entry # NoEntry
        BY <1>1, <2>1 DEF CallFits
    <2> HIDE DEF k
    <2> QED BY <1>1, <1>2, <2>1, <2>2, PassGoes, TypedStep DEF Passes
<1> QED BY <1>3, <1>4

LEMMA DriftsTypes ==
    ASSUME TypesInv, NEW c \in Callers, Drifts(c)
    PROVE  TypesInv'
<1> USE DEF Drifts, vault, watch, files, At
<1>1. /\ phase # "off" /\ phase' = phase /\ call[c] \in Calls /\ call[c].text \in Texts
      /\ clock' = clock /\ TypeOK /\ Rest /\ (call[c].had => entry # NoEntry)
    BY TypesFacts DEF CallFits, TypesInv
<1>2. Rest' /\ RecordsGrow
    BY TypesFacts DEF Rest, RecordsGrow, Recorded, Windows
<1>3. CASE call[c].had /\ entry' = [entry EXCEPT !.stat = call[c].stat] /\ Goes(c, "flush")
    <2>1. entry \in Entries /\ entry.head \in 0..clock /\ call[c].stat \in Nat
        BY <1>1, <1>3, EntryTypes DEF Calls
    <2>2. entry' \in Entries /\ entry'.head = entry.head
        BY <1>3, <2>1 DEF Entries
    <2>3. EntriesFit'
        BY <1>1, <2>1, <2>2, TypesFacts DEF EntriesFit
    <2> DEFINE k == [call[c] EXCEPT !.pc = "flush"]
    <2>4. /\ k \in Calls /\ k.pc = "flush" /\ k.op = call[c].op /\ k.parents = call[c].parents
          /\ Moves(c, k)
        BY <1>1, <1>3 DEF Calls, PCs, Passes, Goes, Moves
    <2> HIDE DEF k
    <2> QED BY <1>1, <1>2, <2>2, <2>3, <2>4, PassGoes, TypedStep, NoEntryAssumption DEF Passes
<1>4. CASE entry' = entry /\ Goes(c, "captured")
    <2>1. EntriesFit'
        BY <1>1, <1>4, TypesFacts DEF EntriesFit
    <2> DEFINE k == [call[c] EXCEPT !.pc = "captured"]
    <2>2. /\ k \in Calls /\ k.pc = "captured" /\ k.op = call[c].op /\ k.parents = call[c].parents
          /\ k.text = call[c].text /\ k.had = call[c].had /\ Moves(c, k)
        BY <1>1, <1>4 DEF Calls, PCs, Passes, Goes, Moves
    <2> HIDE DEF k
    <2> QED BY <1>1, <1>2, <1>4, <2>1, <2>2, PassGoes, TypedStep DEF Passes
<1> QED BY <1>3, <1>4

LEMMA CapturesTypes ==
    ASSUME TypesInv, NEW c \in Callers, Captures(c)
    PROVE  TypesInv'
<1> DEFINE old == IF call[c].had THEN [entry EXCEPT !.text = call[c].text, !.stat = call[c].stat]
                  ELSE registerFile(call[c].text, call[c].stat)
           P   == IF call[c].had THEN HeadOf(entry) ELSE {}
           n   == clock + 1
           o   == Op(n, IF call[c].had THEN "update" ELSE "create", old.file, call[c].text, P)
           k   == [call[c] EXCEPT !.pc = "flush", !.changed = TRUE]
<1>1. /\ phase # "off" /\ phase' = phase /\ call[c] \in Calls /\ call[c].text \in Texts
      /\ TypeOK /\ Rest /\ (call[c].had => entry # NoEntry) /\ call[c].stat \in Nat /\ clock \in Nat
      /\ n \in Nat /\ saved' = saved /\ server' = server /\ durable' = durable
    BY TypesFacts DEF CallFits, TypesInv, Captures, watch, files, At, Calls
<1>2. ops' = ops \cup {o} /\ entry' = [old EXCEPT !.head = n] /\ clock' = n /\ Moves(c, k)
    BY DEF Captures
<1>3. old \in Entries /\ P \subseteq 1..clock /\ P \in SUBSET Nat
    BY <1>1, EntryTypes
<1>4. Rest'
    BY <1>1 DEF Captures, Rest, vault, watch
<1>5. /\ k \in Calls /\ k.pc = "flush" /\ k.op = call[c].op /\ k.parents = call[c].parents
    BY <1>1 DEF Calls, PCs, Passes
<1> HIDE DEF old, P, k
<1>6. o \in Ops /\ o.id = n /\ o.parents = P
    BY <1>1, <1>3 DEF Op, Ops, Types, Entries
<1>7. RecordsGrow
    BY <1>1, <1>2, <1>3, <1>6 DEF RecordsGrow, Recorded
<1> HIDE DEF n, o
<1>8. entry' \in Entries /\ entry'.head = n
    BY <1>1, <1>2, <1>3 DEF Entries
<1> USE DEF n
<1>9. EntriesFit'
    <2>1. saved # NoEntry => saved \in Entries /\ saved.head <= clock /\ saved.head \in Nat
        BY TypesFacts DEF EntriesFit, Entries
    <2>2. saved # NoEntry => saved.head <= clock + 1
        BY <1>1, <2>1
    <2>3. clock' = clock + 1 /\ entry'.head <= clock' /\ saved' = saved
        BY <1>1, <1>2, <1>8
    <2> HIDE DEF n
    <2> QED BY <1>8, <2>1, <2>2, <2>3 DEF EntriesFit
<1>10. GoesTo(c, k)
    BY <1>1, <1>2, <1>5, <1>8, PassGoes, NoEntryAssumption DEF Passes
<1> QED BY <1>4, <1>7, <1>9, <1>10, TypedStep

LEMMA FlushesTypes ==
    ASSUME TypesInv, NEW c \in Callers, Flushes(c)
    PROVE  TypesInv'
<1> USE DEF Flushes, vault, watch, memory, At
<1>1. /\ phase # "off" /\ phase' = phase /\ call[c] \in Calls /\ UNCHANGED <<entry, clock>>
    BY TypesFacts DEF CallFits
<1>2. Rest' /\ EntriesFit' /\ RecordsGrow
    BY TypesFacts DEF Rest, EntriesFit, RecordsGrow, Recorded
<1> DEFINE k == [call[c] EXCEPT !.pc = "log"]
<1>3. /\ k \in Calls /\ k.pc = "log" /\ k.op = call[c].op /\ k.parents = call[c].parents
      /\ Moves(c, k)
    BY <1>1 DEF Calls, PCs, Passes, Goes, Moves
<1> HIDE DEF k
<1> QED BY <1>1, <1>2, <1>3, PassGoes, TypedStep DEF Passes

LEMMA LogsTypes ==
    ASSUME TypesInv, NEW c \in Callers, Logs(c)
    PROVE  TypesInv'
<1> USE DEF Logs, vault, At
<1>1. /\ phase # "off" /\ phase' # "off" /\ call[c] \in Calls /\ UNCHANGED <<entry, clock>> /\ clock \in Nat
      /\ deferSave' = FALSE
    BY TypesFacts DEF CallFits
<1>2. Rest' /\ EntriesFit' /\ RecordsGrow
    BY TypesFacts DEF Rest, EntriesFit, RecordsGrow, Recorded
<1>3. \E k : /\ k \in Calls /\ k.pc \in {"list", "idle", "push"} /\ k.op = 0 /\ k.parents = {} /\ Moves(c, k)
    <2>1. /\ Idle \in Calls /\ Idle.pc = "idle" /\ Idle.op = 0 /\ Idle.parents = {}
        BY IdleIsACall DEF Idle
    <2> DEFINE again == [Idle EXCEPT !.pc = "list", !.job = "startup", !.again = TRUE]
               push  == [Idle EXCEPT !.pc = "push", !.job = "round"]
    <2>2. /\ again \in Calls /\ again.pc = "list" /\ again.op = 0 /\ again.parents = {}
          /\ push \in Calls /\ push.pc = "push" /\ push.op = 0 /\ push.parents = {}
        BY DEF Idle, Calls, PCs, Jobs
    <2>3. Moves(c, again) \/ Moves(c, Idle) \/ Moves(c, push)
        OBVIOUS
    <2> HIDE DEF again, push, Logs
    <2> QED BY <2>1, <2>2, <2>3
<1>4. \E k : GoesTo(c, k)
    BY <1>1, <1>3 DEF GoesTo
<1> QED BY <1>2, <1>4, TypedStep

----------------------------------------------------------------------------
(* Rounds, crashes, the user and the watcher *)

\* A call that awaits no entry.
LEMMA RoundGoes ==
    ASSUME TypesInv, NEW c \in Callers, NEW k \in Calls, Moves(c, k), call[c].pc \notin Passes,
           k.pc \in {"idle", "list", "clear", "apply", "push"} \/ (k.pc \in {"read", "exists"} /\ entry # NoEntry)
               \/ (k.pc = "read" /\ ~ k.had),
           k.op \in {0, call[c].op}, k.parents \in {{}, call[c].parents}, clock' = clock,
           phase' # "off", entry # NoEntry => entry' # NoEntry, deferSave' = deferSave
    PROVE  GoesTo(c, k)
<1>1. k.op <= clock' /\ k.parents \subseteq 1..clock'
    BY TypesFacts
<1> QED BY <1>1 DEF GoesTo, Passes

LEMMA PushTypes ==
    ASSUME TypesInv, NEW c \in Callers, Push(c)
    PROVE  TypesInv'
<1> USE DEF Push, vault, watch, files, At
<1>1. /\ phase # "off" /\ phase' = phase /\ call[c] \in Calls /\ UNCHANGED <<entry, clock, deferSave>>
    BY TypesFacts DEF CallFits
<1>2. Rest' /\ EntriesFit' /\ RecordsGrow
    BY TypesFacts DEF Rest, EntriesFit, RecordsGrow, Recorded
<1> DEFINE k == [call[c] EXCEPT !.pc = "clear"]
<1>3. /\ k \in Calls /\ k.pc = "clear" /\ k.op = call[c].op /\ k.parents = call[c].parents
      /\ Moves(c, k)
    BY <1>1 DEF Calls, PCs, Goes, Moves
<1> HIDE DEF k
<1> QED BY <1>1, <1>2, <1>3, RoundGoes, TypedStep DEF Passes

LEMMA StopsListeningTypes ==
    ASSUME TypesInv, NEW c \in Callers, StopsListening(c)
    PROVE  TypesInv'
<1> USE DEF StopsListening, vault, memory, At
<1>1. /\ phase' # "off" /\ call[c] \in Calls /\ UNCHANGED <<entry, clock, deferSave>>
    BY TypesFacts DEF CallFits
<1>2. Rest' /\ EntriesFit' /\ RecordsGrow
    BY TypesFacts DEF Rest, EntriesFit, RecordsGrow, Recorded
<1> DEFINE k == [call[c] EXCEPT !.pc = "apply"]
<1>3. /\ k \in Calls /\ k.pc = "apply" /\ k.op = call[c].op /\ k.parents = call[c].parents
      /\ Moves(c, k)
    BY <1>1 DEF Calls, PCs, Goes, Moves
<1> HIDE DEF k
<1> QED BY <1>1, <1>2, <1>3, RoundGoes, TypedStep DEF Passes

LEMMA RoundEndsTypes ==
    ASSUME TypesInv, NEW c \in Callers, RoundEnds(c)
    PROVE  TypesInv'
<1> USE DEF RoundEnds, vault, files, memory, At
<1>1. Rest' /\ EntriesFit' /\ RecordsGrow
    BY TypesFacts DEF Rest, EntriesFit, RecordsGrow, Recorded
<1>2. Idle \in Calls /\ Idle.pc = "idle" /\ Idle.op = 0 /\ Idle.parents = {}
    BY IdleIsACall DEF Idle
<1>3. GoesTo(c, Idle)
    BY <1>2, RoundGoes DEF Passes
<1> QED BY <1>1, <1>3, TypedStep

LEMMA RoundFailsTypes ==
    ASSUME TypesInv, NEW c \in Callers, RoundFails(c)
    PROVE  TypesInv'
<1> USE DEF RoundFails, vault, watch, files, memory, At
<1>1. Rest' /\ EntriesFit' /\ RecordsGrow /\ phase # "off"
    BY TypesFacts DEF Rest, EntriesFit, RecordsGrow, Recorded, CallFits
<1>2. Idle \in Calls /\ Idle.pc = "idle" /\ Idle.op = 0 /\ Idle.parents = {}
    BY IdleIsACall DEF Idle
<1>3. GoesTo(c, Idle)
    BY <1>1, <1>2, RoundGoes DEF Passes
<1> QED BY <1>1, <1>3, TypedStep

\* What a handler, a timer and a round begin with.
LEMMA Beginnings ==
    /\ \A j \in Jobs : LET k == [Idle EXCEPT !.pc = "list", !.job = j] IN
           k \in Calls /\ k.pc = "list" /\ k.op = 0 /\ k.parents = {} /\ k.job = j
    /\ \A j \in Jobs, b \in BOOLEAN : LET k == [Idle EXCEPT !.pc = "read", !.job = j, !.had = b] IN
           k \in Calls /\ k.pc = "read" /\ k.op = 0 /\ k.parents = {} /\ k.had = b
    /\ \A j \in Jobs, p \in {"read", "exists"} : LET k == [Idle EXCEPT !.pc = p, !.job = j] IN
           k \in Calls /\ k.pc = p /\ k.op = 0 /\ k.parents = {} /\ ~ k.had
<1>1. ASSUME NEW j \in Jobs
      PROVE  LET k == [Idle EXCEPT !.pc = "list", !.job = j] IN
                 k \in Calls /\ k.pc = "list" /\ k.op = 0 /\ k.parents = {} /\ k.job = j
    <2> DEFINE k == [Idle EXCEPT !.pc = "list", !.job = j]
    <2>1. k \in Calls
        BY DEF Idle, Calls, PCs, Jobs
    <2>2. k.pc = "list" /\ k.op = 0 /\ k.parents = {} /\ k.job = j
        BY DEF Idle
    <2> HIDE DEF k
    <2> QED BY <2>1, <2>2 DEF k
<1>2. ASSUME NEW j \in Jobs, NEW b \in BOOLEAN
      PROVE  LET k == [Idle EXCEPT !.pc = "read", !.job = j, !.had = b] IN
                 k \in Calls /\ k.pc = "read" /\ k.op = 0 /\ k.parents = {} /\ k.had = b
    <2> DEFINE k == [Idle EXCEPT !.pc = "read", !.job = j, !.had = b]
    <2>1. k \in Calls
        BY DEF Idle, Calls, PCs, Jobs
    <2>2. k.pc = "read" /\ k.op = 0 /\ k.parents = {} /\ k.had = b
        BY DEF Idle
    <2> HIDE DEF k
    <2> QED BY <2>1, <2>2 DEF k
<1>3. ASSUME NEW j \in Jobs, NEW p \in {"read", "exists"}
      PROVE  LET k == [Idle EXCEPT !.pc = p, !.job = j] IN
                 k \in Calls /\ k.pc = p /\ k.op = 0 /\ k.parents = {} /\ ~ k.had
    <2> DEFINE k == [Idle EXCEPT !.pc = p, !.job = j]
    <2>1. k \in Calls
        BY DEF Idle, Calls, PCs, Jobs
    <2>2. k.pc = p /\ k.op = 0 /\ k.parents = {} /\ ~ k.had
        BY DEF Idle
    <2> HIDE DEF k
    <2> QED BY <2>1, <2>2 DEF k
<1> QED BY <1>1, <1>2, <1>3, Zenon

LEMMA ModifyTypes ==
    ASSUME TypesInv, NEW c \in Callers, NEW j \in Jobs, Modify(c, j), At(c, "idle"), phase' # "off",
           UNCHANGED <<entry, clock, deferSave>>
    PROVE  \E k : GoesTo(c, k)
<1> DEFINE b == entry # NoEntry
           k == [Idle EXCEPT !.pc = "read", !.job = j, !.had = b]
<1>1. /\ k \in Calls /\ k.pc = "read" /\ k.op = 0 /\ k.parents = {} /\ k.had = b
    <2>1. b \in BOOLEAN
        OBVIOUS
    <2> HIDE DEF b
    <2> QED BY <2>1 DEF Idle, Calls, PCs, Jobs
<1>2. Moves(c, k)
    BY DEF Modify
<1> HIDE DEF k
<1> QED BY <1>1, <1>2, RoundGoes DEF At, Passes

LEMMA DebounceTypes ==
    ASSUME TypesInv, NEW c \in Callers, DebounceFires(c)
    PROVE  TypesInv'
<1> USE DEF DebounceFires, vault, files, memory
<1>1. Rest' /\ EntriesFit' /\ RecordsGrow
    BY TypesFacts DEF Rest, EntriesFit, RecordsGrow, Recorded
<1>2. \E k : GoesTo(c, k)
    BY ModifyTypes DEF Jobs
<1> QED BY <1>1, <1>2, TypedStep

LEMMA BeginRoundTypes ==
    ASSUME TypesInv, NEW c \in Callers, BeginRound(c)
    PROVE  TypesInv'
<1> USE DEF BeginRound, vault, files, memory
<1>1. Rest' /\ EntriesFit' /\ RecordsGrow
    BY TypesFacts DEF Rest, EntriesFit, RecordsGrow, Recorded
<1>2. \E k : GoesTo(c, k)
    <2>1. CASE Modify(c, "round")
        BY <2>1, ModifyTypes DEF Jobs
    <2>2. CASE Moves(c, [Idle EXCEPT !.pc = "list", !.job = "round"])
        BY <2>2, Beginnings, RoundGoes DEF Jobs, At, Passes
    <2> QED BY <2>1, <2>2
<1> QED BY <1>1, <1>2, TypedStep

LEMMA StartTypes ==
    ASSUME TypesInv, NEW c \in Callers, Start(c)
    PROVE  TypesInv'
<1> USE DEF Start, vault, files
<1>1. Rest' /\ EntriesFit' /\ RecordsGrow
    BY TypesFacts DEF Rest, EntriesFit, RecordsGrow, Recorded, OnDisk
<1> DEFINE k == [Idle EXCEPT !.pc = "list", !.job = "startup"]
<1>2. /\ k \in Calls /\ k.pc = "list" /\ k.op = 0 /\ k.parents = {} /\ Moves(c, k)
    BY Beginnings DEF Jobs
<1> HIDE DEF k
<1>3. /\ call' \in [Callers -> Calls]
      /\ \A d \in Callers : call'[d].op <= clock' /\ call'[d].parents \subseteq 1..clock'
      /\ \A d \in Callers : CallFits(d)'
      /\ ~ deferSave'
    <2>1. /\ call' = [call EXCEPT ![c] = k] /\ call \in [Callers -> Calls] /\ clock' = clock /\ clock \in Nat
          /\ phase' # "off"
        BY <1>2, TypesFacts DEF Moves, TypesInv, TypeOK
    <2>2. \A d \in Callers : At(d, "idle") /\ call[d].op <= clock /\ call[d].parents \subseteq 1..clock
        BY TypesFacts DEF CallFits
    <2>3. \A d \in Callers : call'[d] = k \/ call'[d] = call[d]
        BY <2>1
    <2>4. call' \in [Callers -> Calls]
        BY <1>2, <2>1
    <2>5. ASSUME NEW d \in Callers
          PROVE  call'[d].op <= clock' /\ call'[d].parents \subseteq 1..clock' /\ CallFits(d)'
        BY <1>2, <2>1, <2>2, <2>3 DEF CallFits, At
    <2>6. ~ deferSave
        BY <2>2 DEF TypesInv, TypeOK, At, Passes
    <2> QED BY <2>4, <2>5, <2>6
<1>4. RecordsGrow => /\ Recorded' \subseteq Ops
                     /\ \A o \in Recorded' : o.id \in 1..clock' /\ o.parents \subseteq 1..clock'
                     /\ clock' \in Nat
    BY RecordedTypes DEF TypesInv, RecordsGrow
<1> QED BY <1>1, <1>3, <1>4 DEF TypesInv, TypeOK, Rest, EntriesFit

\* A step that no call takes.
LEMMA NoCallMoves ==
    ASSUME TypesInv, Rest', phase # "off", phase' # "off", UNCHANGED <<files, memory, server, call>>
    PROVE  TypesInv'
<1> USE DEF files, memory
<1>1. Recorded' = Recorded
    BY DEF Recorded
<1>2. TypeOK'
    BY <1>1 DEF TypesInv, TypeOK, Rest
<1>3. ASSUME NEW d \in Callers PROVE CallFits(d)'
    BY FitsStays DEF memory
<1> QED BY <1>2, <1>3 DEF TypesInv

LEMMA ChangeTypes ==
    ASSUME TypesInv, NEW t \in Texts \cup {NoText}, Change(t)
    PROVE  TypesInv'
<1> USE DEF Change, files, memory
<1>1. UNCHANGED <<entry, saved, deferSave, ops, durable, server, clock, call, phase>>
    OBVIOUS
<1>2. Rest'
    <2>1. events' \in Seq({"create", "modify", "delete"})
        <3>1. CASE events' = events
            BY <3>1, TypesFacts DEF Rest
        <3>2. CASE events' # events
            <4>1. \E e \in {"create", "modify", "delete"} : events' = Append(events, e)
                BY <3>2
            <4> QED BY <4>1, TypesFacts DEF Rest
        <3> QED BY <3>1, <3>2
    <2>2. /\ text' = t /\ stat' = acts + 1 /\ acts' = acts + 1
          /\ UNCHANGED <<listed, phase, touched, armed, deferSave, faults, slips>>
        OBVIOUS
    <2>3. unseen' \in {TRUE, unseen}
        OBVIOUS
    <2>4. Rest
        BY TypesFacts
    <2>5. acts + 1 \in Nat
        BY <2>4 DEF Rest
    <2> HIDE DEF Change
    <2> QED BY <2>1, <2>2, <2>3, <2>4, <2>5 DEF Rest
<1>3. Recorded' = Recorded
    BY <1>1 DEF Recorded
<1>4. TypeOK'
    BY <1>1, <1>2, <1>3 DEF TypesInv, TypeOK, Rest
<1>5. ASSUME NEW d \in Callers PROVE CallFits(d)'
    BY <1>1, FitsStays
<1> QED BY <1>4, <1>5 DEF TypesInv

\* A delivery takes one event out and brings the listing up to date.
LEMMA DeliveredTypes ==
    ASSUME TypesInv, NEW k, Delivered(k)
    PROVE  events' \in Seq({"create", "modify", "delete"}) /\ listed' \in [there : BOOLEAN, stat : Nat]
<1> DEFINE E == {"create", "modify", "delete"}
<1>1. events \in Seq(E) /\ k \in 1..Len(events) /\ Len(events) \in Nat
    BY TypesFacts DEF Delivered, Rest
<1>2. SubSeq(events, 1, k - 1) \in Seq(E) /\ SubSeq(events, k + 1, Len(events)) \in Seq(E)
    BY <1>1, SubSeqProperties
<1>3. events' = SubSeq(events, 1, k - 1) \o SubSeq(events, k + 1, Len(events))
    BY DEF Delivered, RemoveAt
<1>4. events' \in Seq(E)
    BY <1>2, <1>3
<1> QED BY <1>4, TypesFacts DEF Delivered, OnDisk, Rest

LEMMA DeliversTypes ==
    ASSUME TypesInv, Delivers
    PROVE  TypesInv'
<1> USE DEF vault
<1>1. PICK k \in DOMAIN events :
          \/ handleModify(k)
          \/ Unheard(k)
          \/ \E c \in Callers : handleCreate(c, k) \/ handleDelete(c, k)
    BY DEF Delivers
<1>2. CASE handleModify(k) \/ Unheard(k)
    <2>1. /\ UNCHANGED <<text, stat, acts, phase, files, memory, server, call, faults, slips>>
          /\ touched' \in BOOLEAN /\ armed' \in BOOLEAN /\ unseen' \in BOOLEAN /\ phase # "off"
          /\ Delivered(k)
        BY <1>2, TypesFacts DEF handleModify, Unheard, Rest
    <2>2. events' \in Seq({"create", "modify", "delete"}) /\ listed' \in [there : BOOLEAN, stat : Nat]
        BY <2>1, DeliveredTypes
    <2>3. Rest'
        BY <2>1, <2>2, TypesFacts DEF Rest, memory
    <2> QED BY <2>1, <2>3, NoCallMoves
<1>3. ASSUME NEW c \in Callers, handleCreate(c, k) \/ handleDelete(c, k) PROVE TypesInv'
    <2>1. Rest' /\ EntriesFit' /\ RecordsGrow /\ UNCHANGED <<entry, clock, deferSave, phase>>
        BY <1>3, DeliveredTypes, TypesFacts
        DEF handleCreate, handleDelete, Rest, EntriesFit, RecordsGrow, Recorded, files, memory
    <2>2. CASE call' = call
        <3>1. UNCHANGED <<files, memory, server, call>> /\ phase # "off"
            BY <1>3, <2>2 DEF handleCreate, handleDelete
        <3> QED BY <2>1, <3>1, NoCallMoves
    <2>3. CASE call' # call
        <3>1. PICK p \in {"read", "exists"} :
                  /\ Moves(c, [Idle EXCEPT !.pc = p, !.job = "live"]) /\ phase # "off"
                  /\ At(c, "idle") /\ (p = "read" \/ entry # NoEntry)
            BY <1>3, <2>3 DEF handleCreate, handleDelete
        <3> DEFINE n == [Idle EXCEPT !.pc = p, !.job = "live"]
        <3>2. n \in Calls /\ n.pc = p /\ n.op = 0 /\ n.parents = {} /\ ~ n.had /\ Moves(c, n)
            BY <3>1, Beginnings DEF Jobs
        <3> HIDE DEF n
        <3>3. GoesTo(c, n)
            BY <2>1, <3>1, <3>2, RoundGoes DEF At, Passes
        <3> QED BY <2>1, <3>3, TypedStep
    <2> QED BY <2>2, <2>3
<1> QED BY <1>1, <1>2, <1>3

LEMMA CrashTypes ==
    ASSUME TypesInv, Crash
    PROVE  TypesInv'
<1> USE DEF Crash, vault, files
<1>1. Rest'
    <2>1. Slipped \subseteq Windows
        BY DEF Slipped, Windows
    <2>2. /\ UNCHANGED <<text, stat, acts, listed>> /\ phase' = "off" /\ events' = <<>>
          /\ touched' \in BOOLEAN /\ armed' \in BOOLEAN /\ deferSave' \in BOOLEAN /\ unseen' \in BOOLEAN
          /\ faults' = faults + 1 /\ slips' = slips \cup Slipped
        BY TypesFacts DEF Rest
    <2>3. events' \in Seq({"create", "modify", "delete"})
        BY <2>2
    <2> HIDE DEF Crash
    <2> QED BY <2>1, <2>2, <2>3, TypesFacts DEF Rest
<1>2. Recorded' \subseteq Recorded /\ clock' = clock
    BY DEF Recorded
<1>3. Idle \in Calls /\ Idle.pc = "idle" /\ Idle.op = 0 /\ Idle.parents = {}
    BY IdleIsACall DEF Idle
<1>4. TypeOK'
    BY <1>1, <1>2, <1>3 DEF TypesInv, TypeOK, Rest
<1>5. ASSUME NEW d \in Callers PROVE CallFits(d)'
    BY <1>3 DEF CallFits, At
<1> QED BY <1>4, <1>5 DEF TypesInv

LEMMA InitTypes == Init => TypesInv
<1> SUFFICES ASSUME Init PROVE TypesInv
    OBVIOUS
<1>1. Idle \in Calls /\ Idle.pc = "idle" /\ Idle.op = 0 /\ Idle.parents = {}
    BY IdleIsACall DEF Idle
<1>2. Recorded = {}
    BY DEF Init, Recorded
<1>3. TypeOK
    <2>1. call \in [Callers -> Calls] /\ \A c \in Callers : call[c] = Idle
        BY <1>1 DEF Init
    <2>2. events \in Seq({"create", "modify", "delete"}) /\ listed \in [there : BOOLEAN, stat : Nat]
        BY DEF Init, OnDisk
    <2>3. /\ \A c \in Callers : call[c].op <= clock /\ call[c].parents \subseteq 1..clock
          /\ ~ deferSave /\ slips \subseteq Windows
        BY <1>1, <2>1 DEF Init
    <2>4. /\ {entry, saved} \subseteq Entries \cup {NoEntry}
          /\ \A e \in {entry, saved} \ {NoEntry} : e.head <= clock
        BY DEF Init
    <2>5. Rest
        BY <2>2, <2>3 DEF Init, Rest
    <2> QED BY <1>2, <2>1, <2>3, <2>4, <2>5 DEF Init, TypeOK, Rest
<1>4. ASSUME NEW d \in Callers PROVE CallFits(d)
    BY <1>1 DEF CallFits, At, Init
<1> QED BY <1>3, <1>4 DEF TypesInv

LEMMA TypesStep == TypesInv /\ [Next]_vars => TypesInv'
<1> SUFFICES ASSUME TypesInv, [Next]_vars PROVE TypesInv'
    OBVIOUS
<1>1. ASSUME NEW t \in Texts \cup {NoText}, Change(t) PROVE TypesInv'
    BY <1>1, ChangeTypes
<1>2. CASE Delivers
    BY <1>2, DeliversTypes
<1>3. ASSUME NEW c \in Callers, Step(c) PROVE TypesInv'
    BY <1>3, ReadsTypes, RegistersTypes, HashedTypes, UpdateTypes, ExistsTypes, SavesTypes,
       SavesDeletedTypes, AppendsTypes, HeadSavedTypes, RewritesTypes, ListsTypes, ScansTypes, DriftsTypes,
       CapturesTypes, FlushesTypes, LogsTypes, PushTypes, StopsListeningTypes, RoundEndsTypes DEF Step
<1>4. ASSUME NEW c \in Callers, DebounceFires(c) \/ BeginRound(c) \/ RoundFails(c) \/ Start(c) PROVE TypesInv'
    BY <1>4, DebounceTypes, BeginRoundTypes, RoundFailsTypes, StartTypes
<1>5. CASE Crash
    BY <1>5, CrashTypes
<1>6. CASE UNCHANGED vars
    BY <1>6 DEF vars, vault, watch, files, memory, TypesInv, TypeOK, Recorded, CallFits, At
<1> QED BY <1>1, <1>2, <1>3, <1>4, <1>5, <1>6 DEF Next

LEMMA TypesAlways == Spec => []TypesInv
BY InitTypes, TypesStep, PTL DEF Spec

\* The variables hold what the code's do, whatever calls overlap and wherever a crash falls
\* (operation-logger.ts, file-registry.ts).
THEOREM TypesHold == Spec => []TypeOK
<1>1. TypesInv => TypeOK
    BY DEF TypesInv
<1> QED BY <1>1, TypesAlways, PTL

----------------------------------------------------------------------------
(* One call at a time.  The head that the registry names is a version that *)
(* is recorded and has no child yet: the next op that takes it as parent   *)
(* continues the line.                                                     *)

Alone   == \A c, d \in Callers : c = d
Excuses == {"registry first", "head last", "restored", "pruned", "twice"} \subseteq Excused

\* What an op has as parent is an op of its file.
Kin(S) == \A o \in S : \A h \in o.parents : \E q \in S : q.id = h /\ q.file = o.file

Line(S) == \A o, p \in S : o.id # p.id /\ o.parents # {} => o.parents # p.parents

Leaf(h, S)     == \A o \in S : h \notin o.parents
Known(h, f, S) == h # 0 => \E q \in S : q.id = h /\ q.file = f

Pushed == server \cup ops
Kept   == server \cup durable

\* Memory is ahead of the op log.
Ahead(c) ==
    call[c].pc \in {"append", "rewrite", "clear"} \/ (call[c].pc \in {"flush", "log"} /\ call[c].changed)

OpLogInv(c) ==
    /\ phase # "off" /\ ~ Ahead(c) => ops = durable
    /\ At(c, "clear") => ops = {} /\ durable \subseteq server

ParentsInv(c) ==
    /\ call[c].pc \in {"read", "exists", "hash", "put"} => call[c].parents = {}
    /\ At(c, "put") => ~ call[c].had
    /\ At(c, "stored") => call[c].had
    /\ At(c, "save") /\ ~ call[c].had => call[c].parents = {}
    /\ call[c].pc \in {"stored", "save"} /\ call[c].had =>
           call[c].parents = HeadOf(entry) /\ ~ entry.deleted
    /\ At(c, "captured") /\ call[c].had => ~ entry.deleted
    /\ call[c].pc \in {"saveDeleted", "rewrite"} => entry.deleted
    /\ call[c].pc \in {"rewrite", "log"} => saved = entry

\* The entry that a handler may take a parent from.
Heads(c) ==
    /\ entry # NoEntry /\ call[c].pc \notin {"put", "append"}
    /\ At(c, "save") => call[c].had
    /\ entry.deleted => At(c, "saveDeleted")

EntryInv(c) ==
    /\ At(c, "append") => Leaf(call[c].op, Recorded) /\ Known(call[c].op, entry.file, Pushed)
    /\ entry # NoEntry /\ ~ At(c, "append") => Leaf(entry.head, Recorded)
    /\ Heads(c) => Known(entry.head, entry.file, Pushed)

\* A crash that is not one of the windows restarts from an entry as good.
SavedInv(c) ==
    \/ saved = NoEntry
    \/ saved.deleted
    \/ call[c].pc \in {"append", "put", "rewrite", "head"}
    \/ At(c, "log") /\ call[c].changed
    \/ Known(saved.head, saved.file, Kept) /\ Leaf(saved.head, Kept)

LineInv ==
    /\ Kin(server) /\ Kin(Pushed) /\ Kin(Kept) /\ Line(Recorded)
    /\ phase = "off" => ops = {}
    /\ \A c \in Callers : OpLogInv(c) /\ ParentsInv(c) /\ EntryInv(c) /\ SavedInv(c)

\* Nothing has a parent 0, and no parent is to be.
LEMMA Leaves ==
    ASSUME TypesInv
    PROVE  /\ \A S \in SUBSET Recorded : Leaf(0, S) /\ Leaf(clock + 1, S)
           /\ \A f, S : Known(0, f, S)
<1>1. clock \in Nat /\ \A o \in Recorded : o.parents \subseteq 1..clock
    BY DEF TypesInv, TypeOK
<1>2. 0 \notin 1..clock /\ clock + 1 \notin 1..clock
    BY <1>1
<1> QED BY <1>1, <1>2 DEF Leaf, Known

LEMMA Moved ==
    ASSUME TypesInv, NEW c \in Callers, NEW k
    PROVE  /\ Moves(c, k) => call'[c] = k
           /\ \A p : Goes(c, p) => call'[c] = [call[c] EXCEPT !.pc = p]
BY DEF Moves, Goes, TypesInv, TypeOK


\* A call that is over leaves nothing behind.
LEMMA EndsMoved ==
    ASSUME TypesInv, NEW c \in Callers, Ends(c)
    PROVE  call'[c].pc \in {"idle", "list"} /\ call'[c].parents = {}
BY DEF Ends, Moves, TypesInv, TypeOK, Idle

SameOps == UNCHANGED <<server, ops, durable>>

\* With one call, what holds of it holds of all.
LEMMA LineStep ==
    ASSUME Alone, LineInv, NEW c \in Callers, phase' # "off",
           SameOps \/ (Kin(server)' /\ Kin(Pushed)' /\ Kin(Kept)' /\ Line(Recorded)'),
           OpLogInv(c)', ParentsInv(c)', EntryInv(c)', SavedInv(c)'
    PROVE  LineInv'
BY DEF Alone, LineInv, SameOps, Kin, Line, Pushed, Kept, Recorded

\* What the line is about did not change.
LEMMA LineUnchanged ==
    ASSUME LineInv, UNCHANGED <<server, ops, durable, entry, saved, phase, call>>
    PROVE  LineInv'
<1>1. Recorded' = Recorded /\ Pushed' = Pushed /\ Kept' = Kept
    BY DEF Recorded, Pushed, Kept
<1>2. ASSUME NEW c \in Callers
      PROVE  OpLogInv(c)' /\ ParentsInv(c)' /\ EntryInv(c)' /\ SavedInv(c)'
    <2>1. OpLogInv(c) /\ ParentsInv(c) /\ EntryInv(c) /\ SavedInv(c)
        BY DEF LineInv
    <2>2. OpLogInv(c)' /\ ParentsInv(c)'
        BY <2>1 DEF OpLogInv, ParentsInv, Ahead, At, HeadOf
    <2>3. EntryInv(c)'
        BY <1>1, <2>1 DEF EntryInv, Heads, At
    <2>4. SavedInv(c)'
        BY <1>1, <2>1 DEF SavedInv, At
    <2> QED BY <2>2, <2>3, <2>4
<1>3. Kin(server)' /\ Kin(Pushed)' /\ Kin(Kept)' /\ Line(Recorded)' /\ (phase = "off" => ops = {})'
    BY <1>1 DEF LineInv
<1> QED BY <1>2, <1>3 DEF LineInv

LEMMA ReadsLine ==
    ASSUME Alone, Excuses, TypesInv, LineInv, NEW c \in Callers, Reads(c)
    PROVE  LineInv'
<1> USE DEF Reads, vault, watch, files, memory, At
<1>1. /\ SameOps /\ UNCHANGED <<entry, saved, phase>> /\ phase # "off"
      /\ Recorded' = Recorded /\ Pushed' = Pushed /\ Kept' = Kept
    BY TypesFacts DEF SameOps, Recorded, Pushed, Kept, CallFits
<1>2. call'[c].pc \in {"idle", "list", "hash"} /\ call'[c].parents = {}
    <2>1. CASE Ends(c)
        BY <2>1, EndsMoved
    <2>2. CASE Moves(c, [call[c] EXCEPT !.pc = "hash", !.text = text])
        <3>1. call'[c] = [call[c] EXCEPT !.pc = "hash", !.text = text]
            BY <2>2, Moved
        <3>2. call[c] \in Calls /\ call[c].parents = {}
            BY TypesFacts DEF LineInv, ParentsInv
        <3> QED BY <3>1, <3>2 DEF Calls
    <2> QED BY <2>1, <2>2
<1>3. OpLogInv(c)' /\ ParentsInv(c)' /\ EntryInv(c)' /\ SavedInv(c)'
    BY <1>1, <1>2 DEF LineInv, OpLogInv, ParentsInv, EntryInv, SavedInv, Ahead, Heads, SameOps
<1> QED BY <1>1, <1>3, LineStep

LEMMA RegistersLine ==
    ASSUME Alone, Excuses, TypesInv, LineInv, NEW c \in Callers, Registers(c)
    PROVE  LineInv'
<1> USE DEF Registers, vault, watch, files, At
<1>1. /\ SameOps /\ UNCHANGED <<saved, phase>> /\ phase # "off"
      /\ Recorded' = Recorded /\ Pushed' = Pushed /\ Kept' = Kept
    BY TypesFacts DEF SameOps, Recorded, Pushed, Kept, CallFits
<1>2. /\ call'[c] = [call[c] EXCEPT !.pc = IF entry' = entry THEN "put" ELSE "save"]
      /\ call[c] \in Calls /\ call[c].parents = {} /\ ~ call[c].had
    BY Moved, TypesFacts DEF LineInv, ParentsInv
<1>3. call'[c].pc \in {"put", "save"} /\ call'[c].parents = {} /\ ~ call'[c].had
    BY <1>2 DEF Calls
<1>4. entry' # NoEntry => entry'.head = 0 \/ (entry # NoEntry /\ entry'.head = entry.head)
    <2>1. entry # NoEntry => entry \in Entries
        BY TypesFacts DEF EntriesFit
    <2> QED BY <2>1 DEF registerFile, NewEntry, Entries
<1>5. entry' # NoEntry => Leaf(entry'.head, Recorded)
    BY <1>4, Leaves DEF LineInv, EntryInv
<1>6. OpLogInv(c)' /\ ParentsInv(c)' /\ EntryInv(c)' /\ SavedInv(c)'
    BY <1>1, <1>3, <1>5 DEF LineInv, OpLogInv, ParentsInv, EntryInv, SavedInv, Ahead, Heads, SameOps
<1> QED BY <1>1, <1>6, LineStep

\* The windows that are met end what the properties say.
\* No window was met on the way to a state that is not excepted.
LEMMA Met ==
    ASSUME Excuses, NEW W, W \subseteq slips', ~ Excepted'
    PROVE  \A w \in {"registry first", "head last", "restored", "pruned", "twice"} : w \notin W
BY DEF Excuses, Excepted

LEMMA HashedLine ==
    ASSUME Alone, Excuses, TypesInv, LineInv, NEW c \in Callers, Hashed(c), ~ Excepted'
    PROVE  LineInv'
<1> USE DEF Hashed, vault, watch, files, memory, At
<1>1. /\ SameOps /\ UNCHANGED <<entry, saved, phase>> /\ phase # "off" /\ entry # NoEntry
      /\ Recorded' = Recorded /\ Pushed' = Pushed /\ Kept' = Kept /\ call[c] \in Calls
    BY TypesFacts DEF SameOps, Recorded, Pushed, Kept, CallFits
<1>2. CASE Ends(c)
    <2>1. call'[c].pc \in {"idle", "list"} /\ call'[c].parents = {}
        BY <1>2, EndsMoved
    <2>2. OpLogInv(c)' /\ ParentsInv(c)' /\ EntryInv(c)' /\ SavedInv(c)'
        BY <1>1, <2>1 DEF LineInv, OpLogInv, ParentsInv, EntryInv, SavedInv, Ahead, Heads, SameOps
    <2> QED BY <1>1, <2>2, LineStep
<1>3. CASE call[c].text # entry.text /\ Moves(c, [call[c] EXCEPT !.pc = "stored", !.parents = HeadOf(entry)])
    <2>1. call'[c] = [call[c] EXCEPT !.pc = "stored", !.parents = HeadOf(entry)]
        BY <1>3, Moved
    <2>2. call'[c].pc = "stored" /\ call'[c].parents = HeadOf(entry) /\ call'[c].had
        BY <1>1, <2>1 DEF Calls
    <2>3. ~ entry.deleted
        BY <1>3, Met DEF Excuses, Excepted
    <2>4. OpLogInv(c)' /\ ParentsInv(c)' /\ EntryInv(c)' /\ SavedInv(c)'
        BY <1>1, <2>2, <2>3 DEF LineInv, OpLogInv, ParentsInv, EntryInv, SavedInv, Ahead, Heads, SameOps, HeadOf
    <2> QED BY <1>1, <2>4, LineStep
<1> QED BY <1>2, <1>3

LEMMA UpdateLine ==
    ASSUME Alone, Excuses, TypesInv, LineInv, NEW c \in Callers, updateContentHash(c)
    PROVE  LineInv'
<1> USE DEF updateContentHash, vault, watch, files, At
<1>1. /\ SameOps /\ UNCHANGED <<saved, phase>> /\ phase # "off" /\ entry # NoEntry /\ entry \in Entries
      /\ Recorded' = Recorded /\ Pushed' = Pushed /\ Kept' = Kept /\ call[c] \in Calls
    BY TypesFacts DEF SameOps, Recorded, Pushed, Kept, CallFits, EntriesFit
<1>2. call'[c] = [call[c] EXCEPT !.pc = "save"]
    BY Moved
<1>3. call'[c].pc = "save" /\ call'[c].parents = call[c].parents /\ call'[c].had = call[c].had
    BY <1>1, <1>2 DEF Calls
<1>4. entry'.head = entry.head /\ entry'.file = entry.file /\ entry'.deleted = entry.deleted
    BY <1>1 DEF Entries
<1>5. OpLogInv(c)' /\ ParentsInv(c)' /\ EntryInv(c)' /\ SavedInv(c)'
    BY <1>1, <1>3, <1>4 DEF LineInv, OpLogInv, ParentsInv, EntryInv, SavedInv, Ahead, Heads, SameOps, HeadOf
<1> QED BY <1>1, <1>5, LineStep

LEMMA ExistsLine ==
    ASSUME Alone, Excuses, TypesInv, LineInv, NEW c \in Callers, Exists(c), ~ Excepted'
    PROVE  LineInv'
<1> USE DEF Exists, vault, watch, files, At
<1>1. /\ SameOps /\ UNCHANGED <<saved, phase>> /\ phase # "off" /\ entry # NoEntry /\ entry \in Entries
      /\ Recorded' = Recorded /\ Pushed' = Pushed /\ Kept' = Kept /\ call[c] \in Calls
    BY TypesFacts DEF SameOps, Recorded, Pushed, Kept, CallFits, EntriesFit
<1>2. CASE listed.there
    <2>1. call'[c] = [call[c] EXCEPT !.pc = "read", !.had = TRUE] /\ entry' = entry
        BY <1>2, Moved
    <2>2. call'[c].pc = "read" /\ call'[c].parents = {}
        BY <1>1, <2>1 DEF Calls, LineInv, ParentsInv
    <2>3. OpLogInv(c)' /\ ParentsInv(c)' /\ EntryInv(c)' /\ SavedInv(c)'
        BY <1>1, <2>1, <2>2 DEF LineInv, OpLogInv, ParentsInv, EntryInv, SavedInv, Ahead, Heads, SameOps
    <2> QED BY <1>1, <2>3, LineStep
<1>3. CASE ~ listed.there
    <2>1. call'[c] = [call[c] EXCEPT !.pc = "saveDeleted"] /\ ~ entry.deleted
        BY <1>3, Moved DEF Excuses, Excepted
    <2>2. call'[c].pc = "saveDeleted"
        BY <1>1, <2>1 DEF Calls
    <2>3. entry'.head = entry.head /\ entry'.file = entry.file /\ entry'.deleted
        BY <1>1, <1>3 DEF Entries
    <2>4. OpLogInv(c)' /\ ParentsInv(c)' /\ EntryInv(c)' /\ SavedInv(c)'
        BY <1>1, <2>1, <2>2, <2>3
        DEF LineInv, OpLogInv, ParentsInv, EntryInv, SavedInv, Ahead, Heads, SameOps
    <2> QED BY <1>1, <2>4, LineStep
<1> QED BY <1>2, <1>3

\* A new op that continues a file, from a head that has no child, or begins one.
LEMMA LineGrows ==
    ASSUME TypesInv, LineInv, NEW o, o.id = clock + 1,
           \/ o.parents = {}
           \/ \E h : o.parents = {h} /\ h # 0 /\ Leaf(h, Recorded) /\ Known(h, o.file, Pushed),
           ops' = ops \cup {o}, server' = server, durable' = durable
    PROVE  /\ Kin(server)' /\ Kin(Pushed)' /\ Kin(Kept)' /\ Line(Recorded)'
           /\ Leaf(o.id, Recorded)' /\ Known(o.id, o.file, Pushed)'
<1>1. /\ Recorded' = Recorded \cup {o} /\ Pushed' = Pushed \cup {o} /\ Kept' = Kept
      /\ Pushed \subseteq Recorded
    BY DEF Recorded, Pushed, Kept
<1>2. clock \in Nat /\ \A p \in Recorded : p.id \in 1..clock /\ p.parents \subseteq 1..clock
    BY DEF TypesInv, TypeOK
<1>3. o.parents \subseteq 1..clock /\ \A p \in Recorded : p.id # clock + 1
    <2>1. ASSUME NEW h, h # 0, Known(h, o.file, Pushed) PROVE h \in 1..clock
        BY <1>1, <1>2, <2>1 DEF Known
    <2> QED BY <1>2, <2>1
<1>4. clock + 1 \notin 1..clock
    BY <1>2
<1>5. Kin(Pushed \cup {o})
    <2>1. Kin(Pushed)
        BY DEF LineInv
    <2>2. \A h \in o.parents : \E q \in Pushed : q.id = h /\ q.file = o.file
        BY DEF Known
    <2> QED BY <2>1, <2>2 DEF Kin
<1>6. Line(Recorded \cup {o})
    <2>1. Line(Recorded)
        BY DEF LineInv
    <2>2. \A p \in Recorded : o.parents # {} => o.parents # p.parents
        BY DEF Leaf
    <2> QED BY <2>1, <2>2 DEF Line
<1>7. Leaf(o.id, Recorded \cup {o}) /\ Known(o.id, o.file, Pushed \cup {o})
    BY <1>2, <1>3, <1>4 DEF Leaf, Known
<1>8. Kin(server) /\ Kin(Kept)
    BY DEF LineInv
<1> QED BY <1>1, <1>5, <1>6, <1>7, <1>8

LEMMA RecordsLine ==
    ASSUME Alone, TypesInv, LineInv, NEW c \in Callers, NEW type, NEW t, NEW P,
           Records(c, type, t, P), UNCHANGED <<entry, server, durable, phase>>, entry # NoEntry,
           P = {} \/ (P = HeadOf(entry) /\ Heads(c)), ~ At(c, "append"), phase # "off"
    PROVE  LineInv'
<1> USE DEF At
<1> DEFINE k == [call[c] EXCEPT !.pc = "append", !.op = clock + 1]
<1>1. PICK o : o = Op(clock + 1, type, entry.file, t, P)
    OBVIOUS
<1>2. /\ clock' = clock + 1 /\ ops' = ops \cup {o} /\ call'[c] = k
    BY <1>1, Moved DEF Records
<1>3. o.id = clock + 1 /\ o.parents = P /\ o.file = entry.file
    BY <1>1 DEF Op
<1>4. k.pc = "append" /\ k.op = o.id
    BY <1>3, TypesFacts DEF Calls
<1> HIDE DEF k
<1>5. P = {} \/ \E h : P = {h} /\ h # 0 /\ Leaf(h, Recorded) /\ Known(h, entry.file, Pushed)
    BY DEF LineInv, EntryInv, Heads, HeadOf
<1>6. /\ Kin(server)' /\ Kin(Pushed)' /\ Kin(Kept)' /\ Line(Recorded)'
      /\ Leaf(o.id, Recorded)' /\ Known(o.id, o.file, Pushed)'
    BY <1>2, <1>3, <1>5, LineGrows
<1>7. OpLogInv(c)' /\ ParentsInv(c)' /\ EntryInv(c)' /\ SavedInv(c)'
    BY <1>2, <1>3, <1>4, <1>6 DEF OpLogInv, ParentsInv, EntryInv, SavedInv, Ahead, Heads
<1> QED BY <1>6, <1>7, LineStep

LEMMA SavesLine ==
    ASSUME Alone, TypesInv, LineInv, NEW c \in Callers, Saves(c)
    PROVE  LineInv'
<1> USE DEF Saves, vault, watch, At
<1>1. UNCHANGED <<entry, server, durable, phase>> /\ phase # "off" /\ entry # NoEntry
    BY TypesFacts DEF CallFits
<1>2. call[c].parents = {} \/ (call[c].parents = HeadOf(entry) /\ Heads(c))
    BY <1>1, TypesFacts DEF LineInv, ParentsInv, Heads, Calls
<1>3. PICK type, t : Records(c, type, t, call[c].parents)
    OBVIOUS
<1> QED BY <1>1, <1>2, <1>3, RecordsLine

\* A create taken back takes every op of the file with it, and the server has none.
LEMMA PruneKeepsKin ==
    ASSUME LineInv, NEW f, \A o \in server : o.file # f
    PROVE  Kin(server \cup {o \in ops : o.file # f})
<1> SUFFICES ASSUME NEW o \in server \cup {q \in ops : q.file # f}, NEW h \in o.parents
             PROVE  \E q \in server \cup {p \in ops : p.file # f} : q.id = h /\ q.file = o.file
    BY DEF Kin
<1>1. o.file # f /\ o \in Pushed
    BY DEF Pushed
<1>2. PICK q \in Pushed : q.id = h /\ q.file = o.file
    BY <1>1 DEF LineInv, Kin
<1> QED BY <1>1, <1>2 DEF Pushed

\* Fewer ops have fewer children, and are in no two places.
LEMMA Fewer ==
    ASSUME NEW S, NEW R, R \subseteq S
    PROVE  (Line(S) => Line(R)) /\ \A h : Leaf(h, S) => Leaf(h, R)
BY DEF Line, Leaf

LEMMA SavesDeletedLine ==
    ASSUME Alone, Excuses, TypesInv, LineInv, NEW c \in Callers, SavesDeleted(c), ~ Excepted'
    PROVE  LineInv'
<1> USE DEF SavesDeleted, vault, watch, At
<1>1. /\ UNCHANGED <<entry, server, durable, phase>> /\ phase # "off" /\ entry # NoEntry
      /\ call[c] \in Calls /\ ~ deferSave
    BY TypesFacts DEF CallFits, TypesInv, TypeOK, Alone, Passes
<1>2. CASE Records(c, "delete", entry.text, HeadOf(entry))
    <2>1. Heads(c)
        BY <1>1 DEF Heads
    <2> QED BY <1>1, <1>2, <2>1, RecordsLine
<1>3. CASE /\ ops' = pruneCreateDeletePair(entry.file) /\ Goes(c, "rewrite")
           /\ slips' = slips \cup IF \E o \in server : o.file = entry.file THEN {"pruned"} ELSE {}
    <2>1. call'[c] = [call[c] EXCEPT !.pc = "rewrite"]
        BY <1>3, Moved
    <2>2. call'[c].pc = "rewrite"
        BY <1>1, <2>1 DEF Calls
    <2>3. \A o \in server : o.file # entry.file
        BY <1>3 DEF Excuses, Excepted
    <2>4. Kin(server) /\ Kin(Kept) /\ Kin(server \cup ops')
        BY <1>3, <2>3, PruneKeepsKin DEF LineInv, pruneCreateDeletePair
    <2>5. Recorded' \subseteq Recorded
        BY <1>1, <1>3 DEF Recorded, pruneCreateDeletePair
    <2>6. Line(Recorded') /\ Leaf(entry.head, Recorded')
        BY <1>1, <2>5, Fewer DEF LineInv, EntryInv
    <2>7. Kin(server)' /\ Kin(Pushed)' /\ Kin(Kept)' /\ Line(Recorded)'
        BY <1>1, <2>4, <2>6 DEF Pushed, Kept
    <2>8. saved' = entry /\ entry.deleted
        BY <1>1 DEF Save, LineInv, ParentsInv
    <2>9. OpLogInv(c)' /\ ParentsInv(c)' /\ EntryInv(c)' /\ SavedInv(c)'
        BY <1>1, <2>2, <2>6, <2>8 DEF OpLogInv, ParentsInv, EntryInv, SavedInv, Ahead, Heads
    <2> QED BY <1>1, <2>7, <2>9, LineStep
<1> QED BY <1>2, <1>3

LEMMA AppendsLine ==
    ASSUME Alone, TypesInv, LineInv, NEW c \in Callers, Appends(c)
    PROVE  LineInv'
<1> USE DEF Appends, vault, watch, At
<1>1. /\ UNCHANGED <<saved, server, ops, phase>> /\ phase # "off" /\ entry # NoEntry /\ entry \in Entries
      /\ call[c] \in Calls /\ durable' = ops
    BY TypesFacts DEF CallFits, EntriesFit
<1>2. call'[c] = [call[c] EXCEPT !.pc = "head"]
    BY Moved
<1>3. call'[c].pc = "head"
    BY <1>1, <1>2 DEF Calls
<1>4. Recorded' \subseteq Recorded /\ Pushed' = Pushed /\ Kept' = Pushed
    BY <1>1 DEF Recorded, Pushed, Kept
<1>5. entry'.head = call[c].op /\ entry'.file = entry.file
    BY <1>1 DEF Entries
<1>6. Leaf(call[c].op, Recorded') /\ Line(Recorded') /\ Known(call[c].op, entry.file, Pushed)
    BY <1>4, Fewer DEF LineInv, EntryInv
<1>7. Kin(server)' /\ Kin(Pushed)' /\ Kin(Kept)' /\ Line(Recorded)'
    BY <1>1, <1>4, <1>6 DEF LineInv
<1>8. OpLogInv(c)' /\ ParentsInv(c)' /\ EntryInv(c)' /\ SavedInv(c)'
    BY <1>1, <1>3, <1>4, <1>5, <1>6 DEF OpLogInv, ParentsInv, EntryInv, SavedInv, Ahead, Heads
<1> QED BY <1>1, <1>7, <1>8, LineStep

LEMMA HeadSavedLine ==
    ASSUME Alone, TypesInv, LineInv, NEW c \in Callers, HeadSaved(c)
    PROVE  LineInv'
<1> USE DEF HeadSaved, vault, watch, memory, At
<1>1. /\ SameOps /\ UNCHANGED <<entry, phase>> /\ phase # "off" /\ entry # NoEntry /\ saved' = entry
      /\ Recorded' = Recorded /\ Pushed' = Pushed /\ Kept' = Kept
    BY TypesFacts DEF SameOps, Recorded, Pushed, Kept, CallFits, TypesInv, TypeOK, Alone, Passes, Save
<1>2. call'[c].pc \in {"idle", "list"} /\ call'[c].parents = {}
    BY EndsMoved
<1>3. ops = durable /\ Pushed = Kept
    BY <1>1 DEF LineInv, OpLogInv, Ahead, Pushed, Kept
<1>4. Leaf(entry.head, Kept)
    <2>1. Kept \subseteq Recorded
        BY DEF Kept, Recorded
    <2>2. Leaf(entry.head, Recorded)
        BY <1>1 DEF LineInv, EntryInv
    <2> QED BY <2>1, <2>2, Fewer
<1>5. OpLogInv(c)' /\ ParentsInv(c)' /\ EntryInv(c)' /\ SavedInv(c)'
    BY <1>1, <1>2, <1>3, <1>4
    DEF LineInv, OpLogInv, ParentsInv, EntryInv, SavedInv, Ahead, Heads, SameOps
<1> QED BY <1>1, <1>5, LineStep

LEMMA RewritesLine ==
    ASSUME Alone, TypesInv, LineInv, NEW c \in Callers, Rewrites(c)
    PROVE  LineInv'
<1> USE DEF Rewrites, vault, watch, memory, At
<1>1. /\ UNCHANGED <<saved, entry, server, ops, phase>> /\ phase # "off" /\ entry # NoEntry
      /\ durable' = ops
    BY TypesFacts DEF CallFits
<1>2. call'[c].pc \in {"idle", "list"} /\ call'[c].parents = {}
    BY EndsMoved
<1>3. Recorded' \subseteq Recorded /\ Pushed' = Pushed /\ Kept' = Pushed
    BY <1>1 DEF Recorded, Pushed, Kept
<1>4. Leaf(entry.head, Recorded') /\ Line(Recorded')
    BY <1>3, <1>1, Fewer DEF LineInv, EntryInv
<1>5. Kin(server)' /\ Kin(Pushed)' /\ Kin(Kept)' /\ Line(Recorded)'
    BY <1>1, <1>3, <1>4 DEF LineInv
<1>6. saved = entry /\ entry.deleted
    BY DEF LineInv, ParentsInv
<1>7. OpLogInv(c)' /\ ParentsInv(c)' /\ EntryInv(c)' /\ SavedInv(c)'
    BY <1>1, <1>2, <1>4, <1>6 DEF OpLogInv, ParentsInv, EntryInv, SavedInv, Ahead, Heads
<1> QED BY <1>1, <1>5, <1>7, LineStep

----------------------------------------------------------------------------
(* The line through the capture pass *)

\* The pass records an op of its own, and the entry names it at once.
LEMMA PassRecords ==
    ASSUME Alone, TypesInv, LineInv, NEW c \in Callers, NEW o, o.id = clock + 1,
           \/ o.parents = {}
           \/ \E h : o.parents = {h} /\ h # 0 /\ Leaf(h, Recorded) /\ Known(h, o.file, Pushed),
           ops' = ops \cup {o}, UNCHANGED <<server, durable, saved, phase>>, phase # "off",
           entry'.head = o.id, entry'.file = o.file, call'[c].pc = "flush", call'[c].changed,
           call[c].pc \in {"list", "captured"}
    PROVE  LineInv'
<1> USE DEF At
<1>1. /\ Kin(server)' /\ Kin(Pushed)' /\ Kin(Kept)' /\ Line(Recorded)'
      /\ Leaf(o.id, Recorded)' /\ Known(o.id, o.file, Pushed)' /\ Kept' = Kept
    BY LineGrows DEF Kept
<1>2. OpLogInv(c)' /\ ParentsInv(c)' /\ EntryInv(c)' /\ SavedInv(c)'
    BY <1>1 DEF OpLogInv, ParentsInv, EntryInv, SavedInv, Ahead, Heads, LineInv
<1> QED BY <1>1, <1>2, LineStep

\* A head that a pass takes as parent.
LEMMA PassParents ==
    ASSUME LineInv, NEW c \in Callers, Heads(c), ~ At(c, "append")
    PROVE  \/ HeadOf(entry) = {}
           \/ \E h : /\ HeadOf(entry) = {h} /\ h # 0
                     /\ Leaf(h, Recorded) /\ Known(h, entry.file, Pushed)
BY DEF LineInv, EntryInv, Heads, HeadOf

\* A step of the pass that records nothing.
LEMMA PassGoesOn ==
    ASSUME Alone, TypesInv, LineInv, NEW c \in Callers, SameOps, UNCHANGED <<saved, phase>>, phase # "off",
           entry' = entry \/
               (entry # NoEntry /\ entry'.head = entry.head /\ entry'.file = entry.file
                   /\ entry'.deleted = entry.deleted),
           call[c].pc \in {"list", "scan", "drift"}, call'[c].pc \in {"scan", "drift", "captured", "flush"},
           call'[c].pc = "captured" /\ call'[c].had => ~ entry'.deleted
    PROVE  LineInv'
<1> USE DEF At
<1>1. Recorded' = Recorded /\ Pushed' = Pushed /\ Kept' = Kept
    BY DEF SameOps, Recorded, Pushed, Kept
<1>2. OpLogInv(c)' /\ ParentsInv(c)' /\ EntryInv(c)' /\ SavedInv(c)'
    BY <1>1 DEF LineInv, OpLogInv, ParentsInv, EntryInv, SavedInv, Ahead, Heads, SameOps
<1> QED BY <1>2, LineStep

LEMMA ListsLine ==
    ASSUME Alone, TypesInv, LineInv, NEW c \in Callers, Lists(c)
    PROVE  LineInv'
<1> USE DEF At
<1>1. /\ UNCHANGED <<saved, phase, server, durable>> /\ phase # "off" /\ call[c].pc = "list" /\ call[c] \in Calls
    BY TypesFacts DEF CallFits, Lists, watch, files
<1>2. \/ /\ UNCHANGED <<entry, ops>>
         /\ \/ Moves(c, [call[c] EXCEPT !.pc = "scan", !.stat = listed.stat, !.had = entry # NoEntry])
            \/ Goes(c, "flush")
      \/ /\ entry # NoEntry /\ ~ entry.deleted
         /\ ops' = ops \cup {Op(clock + 1, "delete", entry.file, entry.text, HeadOf(entry))}
         /\ entry' = [entry EXCEPT !.deleted = TRUE, !.head = clock + 1]
         /\ Moves(c, [call[c] EXCEPT !.pc = "flush", !.changed = TRUE])
    BY DEF Lists
<1>3. CASE /\ UNCHANGED <<entry, ops>>
           /\ \/ Moves(c, [call[c] EXCEPT !.pc = "scan", !.stat = listed.stat, !.had = entry # NoEntry])
              \/ Goes(c, "flush")
    <2>1. call'[c].pc \in {"scan", "flush"}
        <3>1. \/ call'[c] = [call[c] EXCEPT !.pc = "scan", !.stat = listed.stat, !.had = entry # NoEntry]
              \/ call'[c] = [call[c] EXCEPT !.pc = "flush"]
            BY <1>3, Moved
        <3> QED BY <1>1, <3>1 DEF Calls
    <2> QED BY <1>1, <1>3, <2>1, PassGoesOn DEF SameOps
<1>4. CASE /\ entry # NoEntry /\ ~ entry.deleted
           /\ ops' = ops \cup {Op(clock + 1, "delete", entry.file, entry.text, HeadOf(entry))}
           /\ entry' = [entry EXCEPT !.deleted = TRUE, !.head = clock + 1]
           /\ Moves(c, [call[c] EXCEPT !.pc = "flush", !.changed = TRUE])
    <2>1. PICK o : o = Op(clock + 1, "delete", entry.file, entry.text, HeadOf(entry))
        OBVIOUS
    <2>2. o.id = clock + 1 /\ o.parents = HeadOf(entry) /\ o.file = entry.file
        BY <2>1 DEF Op
    <2>3. call'[c] = [call[c] EXCEPT !.pc = "flush", !.changed = TRUE]
        BY <1>4, Moved
    <2>4. call'[c].pc = "flush" /\ call'[c].changed
        BY <1>1, <2>3 DEF Calls
    <2>5. entry \in Entries
        BY <1>4, TypesFacts DEF EntriesFit
    <2>6. entry'.head = o.id /\ entry'.file = o.file
        BY <1>4, <2>2, <2>5 DEF Entries
    <2>7. Heads(c)
        BY <1>1, <1>4 DEF Heads
    <2>8. \/ o.parents = {}
          \/ \E h : o.parents = {h} /\ h # 0 /\ Leaf(h, Recorded) /\ Known(h, o.file, Pushed)
        BY <1>1, <2>2, <2>7, PassParents
    <2>9. ops' = ops \cup {o}
        BY <1>4, <2>1
    <2> QED BY <1>1, <2>2, <2>4, <2>6, <2>8, <2>9, PassRecords
<1> QED BY <1>2, <1>3, <1>4

LEMMA ScansLine ==
    ASSUME Alone, TypesInv, LineInv, NEW c \in Callers, Scans(c)
    PROVE  LineInv'
<1> USE DEF At
<1>1. /\ SameOps /\ UNCHANGED <<entry, saved, phase>> /\ phase # "off" /\ call[c].pc = "scan" /\ call[c] \in Calls
    BY TypesFacts DEF CallFits, Scans, watch, files, memory, SameOps
<1>2. call'[c].pc \in {"drift", "flush"}
    <2>1. \/ call'[c] = [call[c] EXCEPT !.pc = "flush"]
          \/ call'[c] = [call[c] EXCEPT !.pc = "drift", !.text = text]
        BY Moved DEF Scans
    <2> QED BY <1>1, <2>1 DEF Calls
<1> QED BY <1>1, <1>2, PassGoesOn

LEMMA DriftsLine ==
    ASSUME Alone, Excuses, TypesInv, LineInv, NEW c \in Callers, Drifts(c), ~ Excepted'
    PROVE  LineInv'
<1> USE DEF At
<1>1. /\ SameOps /\ UNCHANGED <<saved, phase>> /\ phase # "off" /\ call[c].pc = "drift" /\ call[c] \in Calls
      /\ (call[c].had => entry # NoEntry /\ entry \in Entries)
    BY TypesFacts DEF CallFits, Drifts, watch, files, SameOps, EntriesFit
<1>2. call'[c].pc \in {"captured", "flush"} /\ call'[c].had = call[c].had
    <2>1. call'[c] = [call[c] EXCEPT !.pc = "flush"] \/ call'[c] = [call[c] EXCEPT !.pc = "captured"]
        BY Moved DEF Drifts
    <2> QED BY <1>1, <2>1 DEF Calls
<1>3. entry' = entry \/
          (entry # NoEntry /\ entry'.head = entry.head /\ entry'.file = entry.file
              /\ entry'.deleted = entry.deleted)
    BY <1>1 DEF Drifts, Entries
<1>4. call[c].had => ~ entry.deleted
    BY DEF Drifts, Excuses, Excepted
<1>5. call'[c].had => ~ entry'.deleted
    BY <1>1, <1>2, <1>3, <1>4
<1> QED BY <1>1, <1>2, <1>3, <1>5, PassGoesOn

LEMMA FlushesLine ==
    ASSUME Alone, TypesInv, LineInv, NEW c \in Callers, Flushes(c)
    PROVE  LineInv'
<1> USE DEF Flushes, vault, watch, memory, At
<1>1. /\ SameOps /\ UNCHANGED <<entry, phase>> /\ phase # "off" /\ saved' = entry /\ call[c] \in Calls
      /\ Recorded' = Recorded /\ Pushed' = Pushed /\ Kept' = Kept
    BY TypesFacts DEF SameOps, Recorded, Pushed, Kept, CallFits
<1>2. call'[c] = [call[c] EXCEPT !.pc = "log"]
    BY Moved
<1>3. call'[c].pc = "log" /\ call'[c].changed = call[c].changed
    BY <1>1, <1>2 DEF Calls
<1>4. ~ call[c].changed => ops = durable /\ Pushed = Kept
    BY <1>1 DEF LineInv, OpLogInv, Ahead, Pushed, Kept
<1>5. entry # NoEntry => Leaf(entry.head, Kept)
    <2>1. Kept \subseteq Recorded
        BY DEF Kept, Recorded
    <2>2. entry # NoEntry => Leaf(entry.head, Recorded)
        BY DEF LineInv, EntryInv
    <2> QED BY <2>1, <2>2, Fewer
<1>6. OpLogInv(c)' /\ ParentsInv(c)' /\ EntryInv(c)' /\ SavedInv(c)'
    BY <1>1, <1>3, <1>4, <1>5
    DEF LineInv, OpLogInv, ParentsInv, EntryInv, SavedInv, Ahead, Heads, SameOps
<1> QED BY <1>1, <1>6, LineStep

LEMMA CapturesLine ==
    ASSUME Alone, TypesInv, LineInv, NEW c \in Callers, Captures(c)
    PROVE  LineInv'
<1> USE DEF At
<1> DEFINE had == call[c].had
           e == IF had THEN [entry EXCEPT !.text = call[c].text, !.stat = call[c].stat]
                ELSE registerFile(call[c].text, call[c].stat)
           P == IF had THEN HeadOf(entry) ELSE {}
<1>1. /\ UNCHANGED <<saved, phase, server, durable>> /\ phase # "off" /\ call[c].pc = "captured"
      /\ call[c] \in Calls /\ call[c].text \in Texts /\ call[c].stat \in Nat /\ TypeOK
      /\ (had => entry # NoEntry)
    BY TypesFacts DEF CallFits, Captures, watch, files, TypesInv, Calls
<1>2. PICK o : o = Op(clock + 1, IF had THEN "update" ELSE "create", e.file, call[c].text, P)
    OBVIOUS
<1>3. /\ ops' = ops \cup {o} /\ entry' = [e EXCEPT !.head = clock + 1]
      /\ Moves(c, [call[c] EXCEPT !.pc = "flush", !.changed = TRUE])
    BY <1>2 DEF Captures
<1>4. o.id = clock + 1 /\ o.parents = P /\ o.file = e.file
    BY <1>2 DEF Op
<1>5. call'[c] = [call[c] EXCEPT !.pc = "flush", !.changed = TRUE]
    BY <1>3, Moved
<1>6. call'[c].pc = "flush" /\ call'[c].changed
    BY <1>1, <1>5 DEF Calls
<1>7. e \in Entries /\ (had => e.file = entry.file)
    <2>1. had => entry \in Entries
        BY <1>1, EntryTypes
    <2>2. e \in Entries
        BY <1>1, EntryTypes
    <2> QED BY <2>1, <2>2 DEF Entries
<1> HIDE DEF e
<1>8. entry'.head = o.id /\ entry'.file = o.file
    BY <1>3, <1>4, <1>7 DEF Entries
<1>9. had => Heads(c)
    BY <1>1 DEF Heads, LineInv, ParentsInv
<1>10. \/ o.parents = {}
       \/ \E h : o.parents = {h} /\ h # 0 /\ Leaf(h, Recorded) /\ Known(h, o.file, Pushed)
    BY <1>1, <1>4, <1>7, <1>9, PassParents
<1> HIDE DEF had, P
<1> QED BY <1>1, <1>3, <1>4, <1>6, <1>8, <1>10, PassRecords

LEMMA LogsLine ==
    ASSUME Alone, TypesInv, LineInv, NEW c \in Callers, Logs(c)
    PROVE  LineInv'
<1> USE DEF At
<1>1. /\ UNCHANGED <<entry, saved, server, ops>> /\ phase # "off" /\ phase' # "off" /\ saved = entry
      /\ durable' = IF call[c].changed THEN ops ELSE durable
    BY TypesFacts DEF CallFits, Logs, LineInv, ParentsInv, vault
<1>2. durable' = ops
    BY <1>1 DEF LineInv, OpLogInv, Ahead, Logs
<1>3. call'[c].pc \in {"list", "idle", "push"}
    <2> DEFINE again  == [Idle EXCEPT !.pc = "list", !.job = "startup", !.again = TRUE]
               pushes == [Idle EXCEPT !.pc = "push", !.job = "round"]
    <2>1. again.pc = "list" /\ Idle.pc = "idle" /\ pushes.pc = "push"
        BY DEF Idle
    <2>2. Moves(c, again) \/ Moves(c, Idle) \/ Moves(c, pushes)
        BY DEF Logs
    <2> HIDE DEF again, pushes
    <2>3. call'[c] = again \/ call'[c] = Idle \/ call'[c] = pushes
        BY <2>2, Moved
    <2> QED BY <2>1, <2>3
<1>4. Recorded' \subseteq Recorded /\ Pushed' = Pushed /\ Kept' = Pushed /\ Pushed \subseteq Recorded
    BY <1>1, <1>2 DEF Recorded, Pushed, Kept
<1>5. (entry # NoEntry => Leaf(entry.head, Recorded') /\ Leaf(entry.head, Pushed)) /\ Line(Recorded')
    <2>1. (entry # NoEntry => Leaf(entry.head, Recorded)) /\ Line(Recorded)
        BY DEF LineInv, EntryInv, Logs
    <2> QED BY <1>4, <2>1, Fewer
<1>6. Kin(server)' /\ Kin(Pushed)' /\ Kin(Kept)' /\ Line(Recorded)'
    BY <1>1, <1>4, <1>5 DEF LineInv
<1>7. entry # NoEntry /\ ~ entry.deleted => Known(entry.head, entry.file, Pushed)
    BY DEF LineInv, EntryInv, Heads, Logs
<1>8. OpLogInv(c)' /\ ParentsInv(c)' /\ EntryInv(c)' /\ SavedInv(c)'
    BY <1>1, <1>2, <1>3, <1>4, <1>5, <1>7 DEF OpLogInv, ParentsInv, EntryInv, SavedInv, Ahead, Heads
<1> QED BY <1>1, <1>6, <1>8, LineStep

----------------------------------------------------------------------------
(* The line through rounds, crashes and what the user does *)

LEMMA PushLine ==
    ASSUME Alone, TypesInv, LineInv, NEW c \in Callers, Push(c)
    PROVE  LineInv'
<1> USE DEF Push, vault, watch, files, At
<1>1. /\ UNCHANGED <<entry, saved, durable, phase>> /\ phase # "off" /\ call[c] \in Calls
      /\ server' = Pushed /\ ops' = {}
    BY TypesFacts DEF CallFits, Pushed
<1>2. call'[c] = [call[c] EXCEPT !.pc = "clear"]
    BY Moved
<1>3. call'[c].pc = "clear"
    BY <1>1, <1>2 DEF Calls
<1>4. ops = durable
    BY <1>1 DEF LineInv, OpLogInv, Ahead
<1>5. Recorded' = Recorded /\ Pushed' = Pushed /\ Kept' = Kept /\ Pushed = Kept /\ durable \subseteq server'
    BY <1>1, <1>4 DEF Recorded, Pushed, Kept
<1>6. Kin(server)' /\ Kin(Pushed)' /\ Kin(Kept)' /\ Line(Recorded)'
    BY <1>1, <1>5 DEF LineInv
<1>7. OpLogInv(c)' /\ ParentsInv(c)' /\ EntryInv(c)' /\ SavedInv(c)'
    BY <1>1, <1>3, <1>5 DEF LineInv, OpLogInv, ParentsInv, EntryInv, SavedInv, Ahead, Heads
<1> QED BY <1>1, <1>6, <1>7, LineStep

LEMMA RoundFailsLine ==
    ASSUME Alone, TypesInv, LineInv, NEW c \in Callers, RoundFails(c)
    PROVE  LineInv'
<1> USE DEF RoundFails, vault, watch, files, memory, At
<1>1. /\ UNCHANGED <<entry, saved, ops, durable, phase>> /\ phase # "off"
      /\ server' \in {server, Pushed} /\ call'[c] = Idle
    BY Moved, TypesFacts DEF CallFits, Pushed
<1>2. ops = durable
    BY <1>1 DEF LineInv, OpLogInv, Ahead
<1>3. Recorded' = Recorded /\ Pushed' = Pushed /\ Kept' = Kept /\ Pushed = Kept
    BY <1>1, <1>2 DEF Recorded, Pushed, Kept
<1>4. Kin(server)' /\ Kin(Pushed)' /\ Kin(Kept)' /\ Line(Recorded)'
    BY <1>1, <1>3 DEF LineInv
<1>5. Idle.pc = "idle"
    BY DEF Idle
<1>6. OpLogInv(c)' /\ ParentsInv(c)' /\ EntryInv(c)' /\ SavedInv(c)'
    BY <1>1, <1>2, <1>3, <1>5 DEF LineInv, OpLogInv, ParentsInv, EntryInv, SavedInv, Ahead, Heads
<1> QED BY <1>1, <1>4, <1>6, LineStep

LEMMA StopsListeningLine ==
    ASSUME Alone, TypesInv, LineInv, NEW c \in Callers, StopsListening(c)
    PROVE  LineInv'
<1> USE DEF StopsListening, vault, memory, At
<1>1. /\ UNCHANGED <<entry, saved, server, ops>> /\ phase # "off" /\ phase' # "off" /\ call[c] \in Calls
      /\ durable' = ops
    BY TypesFacts DEF CallFits
<1>2. call'[c] = [call[c] EXCEPT !.pc = "apply"]
    BY Moved
<1>3. call'[c].pc = "apply"
    BY <1>1, <1>2 DEF Calls
<1>4. ops = {} /\ durable \subseteq server
    BY DEF LineInv, OpLogInv
<1>5. Recorded' = Recorded /\ Pushed' = Pushed /\ Kept' = Kept
    BY <1>1, <1>4 DEF Recorded, Pushed, Kept
<1>6. Kin(server)' /\ Kin(Pushed)' /\ Kin(Kept)' /\ Line(Recorded)'
    BY <1>1, <1>5 DEF LineInv
<1>7. OpLogInv(c)' /\ ParentsInv(c)' /\ EntryInv(c)' /\ SavedInv(c)'
    BY <1>1, <1>3, <1>5 DEF LineInv, OpLogInv, ParentsInv, EntryInv, SavedInv, Ahead, Heads
<1> QED BY <1>1, <1>6, <1>7, LineStep

\* A call that begins, or ends, at rest.
LEMMA Rests ==
    ASSUME Alone, TypesInv, LineInv, NEW c \in Callers, SameOps, UNCHANGED <<entry, saved>>,
           phase # "off", phase' # "off", call[c].pc \in {"idle", "apply"},
           call'[c].pc \in {"idle", "list", "read", "exists"}, call'[c].parents = {}
    PROVE  LineInv'
<1> USE DEF At
<1>1. Recorded' = Recorded /\ Pushed' = Pushed /\ Kept' = Kept
    BY DEF SameOps, Recorded, Pushed, Kept
<1>2. OpLogInv(c)' /\ ParentsInv(c)' /\ EntryInv(c)' /\ SavedInv(c)'
    BY <1>1 DEF LineInv, OpLogInv, ParentsInv, EntryInv, SavedInv, Ahead, Heads, SameOps
<1> QED BY <1>2, LineStep

LEMMA RoundEndsLine ==
    ASSUME Alone, TypesInv, LineInv, NEW c \in Callers, RoundEnds(c)
    PROVE  LineInv'
<1>1. /\ SameOps /\ UNCHANGED <<entry, saved>> /\ phase # "off" /\ phase' # "off" /\ call[c].pc = "apply"
      /\ call'[c] = Idle
    BY Moved, TypesFacts DEF RoundEnds, SameOps, vault, files, memory, At, CallFits
<1>2. Idle.pc = "idle" /\ Idle.parents = {}
    BY DEF Idle
<1> QED BY <1>1, <1>2, Rests

LEMMA BeginsLine ==
    ASSUME Alone, TypesInv, LineInv, NEW c \in Callers, DebounceFires(c) \/ BeginRound(c)
    PROVE  LineInv'
<1>1. /\ SameOps /\ UNCHANGED <<entry, saved>> /\ phase # "off" /\ phase' # "off" /\ call[c].pc = "idle"
    BY DEF DebounceFires, BeginRound, SameOps, vault, files, memory, At
<1>2. call'[c].pc \in {"list", "read"} /\ call'[c].parents = {}
    <2>1. PICK j, b : \/ Moves(c, [Idle EXCEPT !.pc = "read", !.job = j, !.had = b])
                      \/ Moves(c, [Idle EXCEPT !.pc = "list", !.job = j])
        BY DEF DebounceFires, BeginRound, Modify
    <2>2. \/ call'[c] = [Idle EXCEPT !.pc = "read", !.job = j, !.had = b]
          \/ call'[c] = [Idle EXCEPT !.pc = "list", !.job = j]
        BY <2>1, Moved
    <2> QED BY <2>2 DEF Idle
<1> QED BY <1>1, <1>2, Rests

LEMMA DeliversLine ==
    ASSUME Alone, TypesInv, LineInv, Delivers
    PROVE  LineInv'
<1>1. PICK k \in DOMAIN events :
          \/ handleModify(k)
          \/ Unheard(k)
          \/ \E c \in Callers : handleCreate(c, k) \/ handleDelete(c, k)
    BY DEF Delivers
<1>2. CASE UNCHANGED <<server, ops, durable, entry, saved, phase, call>>
    BY <1>2, LineUnchanged
<1>3. ASSUME NEW c \in Callers, At(c, "idle"), UNCHANGED <<server, ops, durable, entry, saved, phase>>,
             phase # "off", NEW p \in {"read", "exists"}, Moves(c, [Idle EXCEPT !.pc = p, !.job = "live"])
      PROVE  LineInv'
    <2>1. call'[c] = [Idle EXCEPT !.pc = p, !.job = "live"]
        BY <1>3, Moved
    <2>2. call'[c].pc \in {"read", "exists"} /\ call'[c].parents = {}
        BY <2>1 DEF Idle
    <2> QED BY <1>3, <2>2, Rests DEF SameOps, At
<1>4. CASE handleModify(k) \/ Unheard(k)
    BY <1>2, <1>4 DEF handleModify, Unheard, files, memory
<1>5. ASSUME NEW c \in Callers, handleCreate(c, k) PROVE LineInv'
    BY <1>3, <1>5 DEF handleCreate, files, memory
<1>6. ASSUME NEW c \in Callers, handleDelete(c, k) PROVE LineInv'
    BY <1>2, <1>3, <1>6 DEF handleDelete, files, memory
<1> QED BY <1>1, <1>4, <1>5, <1>6

LEMMA ChangeLine ==
    ASSUME LineInv, NEW t, Change(t)
    PROVE  LineInv'
<1>1. UNCHANGED <<server, ops, durable, entry, saved, phase, call>>
    BY DEF Change, files, memory
<1> QED BY <1>1, LineUnchanged

\* A crash that meets no window leaves the saved entry and the op log of one line.
LEMMA CrashLine ==
    ASSUME Alone, Excuses, TypesInv, LineInv, Crash, ~ Excepted'
    PROVE  LineInv'
<1> USE DEF Crash, vault, files
<1>1. /\ entry' = NoEntry /\ ops' = {} /\ phase' = "off" /\ UNCHANGED <<saved, durable, server>>
      /\ slips' = slips \cup Slipped
    OBVIOUS
<1>2. Recorded' = Kept /\ Pushed' = server /\ Kept' = Kept /\ Kept \subseteq Recorded
    BY <1>1 DEF Recorded, Pushed, Kept
<1>3. Kin(server)' /\ Kin(Pushed)' /\ Kin(Kept)' /\ Line(Recorded)'
    <2>1. Line(Kept)
        BY <1>2, Fewer DEF LineInv
    <2> QED BY <1>1, <1>2, <2>1 DEF LineInv
<1>4. ASSUME NEW c \in Callers
      PROVE  OpLogInv(c)' /\ ParentsInv(c)' /\ EntryInv(c)' /\ SavedInv(c)'
    <2>1. call'[c].pc = "idle"
        BY DEF Idle
    <2>2. "registry first" \notin Slipped /\ "head last" \notin Slipped
        BY <1>1 DEF Excuses, Excepted
    <2>3. /\ call[c].pc \notin {"append", "put", "rewrite", "head"}
          /\ ~ (call[c].pc = "log" /\ call[c].changed)
        BY <2>2 DEF Slipped, At
    <2>4. SavedInv(c)'
        BY <1>1, <1>2, <2>3 DEF LineInv, SavedInv, At
    <2> QED BY <1>1, <2>1, <2>4 DEF OpLogInv, ParentsInv, EntryInv, Ahead, Heads, At
<1> QED BY <1>1, <1>3, <1>4 DEF LineInv

LEMMA StartLine ==
    ASSUME Alone, TypesInv, LineInv, NEW c \in Callers, Start(c)
    PROVE  LineInv'
<1>1. /\ UNCHANGED <<saved, durable, server>> /\ ops' = durable /\ phase = "off" /\ phase' # "off"
      /\ entry' = IF saved = NoEntry \/ saved.deleted THEN NoEntry ELSE saved
      /\ At(c, "idle")
    BY TypesFacts DEF Start, vault, files, CallFits
<1>2. call'[c].pc = "list"
    <2>1. call'[c] = [Idle EXCEPT !.pc = "list", !.job = "startup"]
        BY Moved DEF Start
    <2> QED BY <2>1 DEF Idle
<1>3. Recorded' = Kept /\ Pushed' = Kept /\ Kept' = Kept /\ Kept \subseteq Recorded
    BY <1>1 DEF Recorded, Pushed, Kept
<1>4. Kin(server)' /\ Kin(Pushed)' /\ Kin(Kept)' /\ Line(Recorded)'
    <2>1. Line(Kept)
        BY <1>3, Fewer DEF LineInv
    <2> QED BY <1>1, <1>3, <2>1 DEF LineInv
<1>5. saved # NoEntry /\ ~ saved.deleted => Known(saved.head, saved.file, Kept) /\ Leaf(saved.head, Kept)
    BY <1>1 DEF LineInv, SavedInv, At
<1>6. OpLogInv(c)' /\ ParentsInv(c)' /\ EntryInv(c)' /\ SavedInv(c)'
    BY <1>1, <1>2, <1>3, <1>5 DEF OpLogInv, ParentsInv, EntryInv, SavedInv, Ahead, Heads, At
<1> QED BY <1>1, <1>4, <1>6, LineStep

----------------------------------------------------------------------------
(* The theorem *)

LEMMA InitLine == Init => LineInv
<1> SUFFICES ASSUME Init PROVE LineInv
    OBVIOUS
<1>1. Recorded = {} /\ Pushed = {} /\ Kept = {} /\ server = {} /\ ops = {}
    BY DEF Init, Recorded, Pushed, Kept
<1>2. \A c \in Callers : call[c].pc = "idle"
    BY DEF Init, Idle
<1> QED BY <1>1, <1>2
    DEF Init, LineInv, OpLogInv, ParentsInv, EntryInv, SavedInv, Ahead, Heads, At, Kin, Line

\* The windows only grow.
LEMMA SlipsGrow == [Next]_vars => slips \subseteq slips'
<1> USE DEF vault, watch, files, memory
<1>1. ASSUME NEW c \in Callers, Step(c) PROVE slips \subseteq slips'
    BY <1>1 DEF Step, Reads, Registers, Hashed, updateContentHash, Exists, Saves, SavesDeleted, Appends,
        HeadSaved, Rewrites, Lists, Scans, Drifts, Captures, Flushes, Logs, Push, StopsListening, RoundEnds
<1>2. ASSUME NEW c \in Callers, DebounceFires(c) \/ BeginRound(c) \/ RoundFails(c) \/ Start(c)
      PROVE  slips \subseteq slips'
    BY <1>2 DEF DebounceFires, BeginRound, RoundFails, Start
<1>3. CASE Delivers
    BY <1>3 DEF Delivers, handleModify, Unheard, handleCreate, handleDelete
<1>4. CASE Crash \/ (\E t \in Texts \cup {NoText} : Change(t)) \/ UNCHANGED vars
    BY <1>4 DEF Crash, Change, vars
<1> QED BY <1>1, <1>2, <1>3, <1>4 DEF Next

LEMMA LineHolds ==
    ASSUME Alone, Excuses, TypesInv, ~ Excepted => LineInv, [Next]_vars
    PROVE  (~ Excepted => LineInv)'
<1> SUFFICES ASSUME ~ Excepted' PROVE LineInv'
    OBVIOUS
<1>1. LineInv
    BY SlipsGrow DEF Excepted
<1>2. ASSUME NEW t \in Texts \cup {NoText}, Change(t) PROVE LineInv'
    BY <1>1, <1>2, ChangeLine
<1>3. CASE Delivers
    BY <1>1, <1>3, DeliversLine
<1>4. ASSUME NEW c \in Callers, Step(c) PROVE LineInv'
    BY <1>1, <1>4, ReadsLine, RegistersLine, HashedLine, UpdateLine, ExistsLine, SavesLine,
       SavesDeletedLine, AppendsLine, HeadSavedLine, RewritesLine, ListsLine, ScansLine, DriftsLine,
       CapturesLine, FlushesLine, LogsLine, PushLine, StopsListeningLine, RoundEndsLine DEF Step
<1>5. ASSUME NEW c \in Callers, DebounceFires(c) \/ BeginRound(c) \/ RoundFails(c) \/ Start(c) PROVE LineInv'
    BY <1>1, <1>5, BeginsLine, RoundFailsLine, StartLine
<1>6. CASE Crash
    BY <1>1, <1>6, CrashLine
<1>7. CASE UNCHANGED vars
    BY <1>1, <1>7, LineUnchanged DEF vars, vault, watch, files, memory
<1> QED BY <1>2, <1>3, <1>4, <1>5, <1>6, <1>7 DEF Next

\* As long as no two calls overlap, and until one of five windows is met, the ops of the
\* device are one line of history, whatever the user does and wherever a crash or a failed
\* round falls (flushModify, captureOfflineChanges, pruneCreateDeletePair, setHeadVersion).
THEOREM HistoryIsALine == Spec /\ Alone /\ Excuses => []OwnHistoryIsALine
<1> SUFFICES ASSUME Alone, Excuses PROVE Spec => []OwnHistoryIsALine
    OBVIOUS
<1>1. (~ Excepted => LineInv) => OwnHistoryIsALine
    <2> SUFFICES ASSUME ~ Excepted, LineInv PROVE OwnHistoryIsALine
        BY DEF OwnHistoryIsALine
    <2>1. Pushed \cup Kept = Recorded
        BY DEF Pushed, Kept, Recorded
    <2>2. \A o \in Recorded : o.parents \subseteq {p.id : p \in Recorded}
        BY <2>1 DEF LineInv, Kin
    <2> QED BY <2>2 DEF LineInv, Line, OwnHistoryIsALine
<1>2. Init => (~ Excepted => LineInv)
    BY InitLine
<1>3. TypesInv /\ (~ Excepted => LineInv) /\ [Next]_vars => (~ Excepted => LineInv)'
    BY LineHolds
<1> QED BY <1>1, <1>2, <1>3, TypesAlways, PTL DEF Spec
----------------------------------------------------------------------------
(* What the ops tell.  At rest the newest op of every file that is gone is *)
(* a delete, and that of the file that lives is the one the registry names. *)

AllExcused == Windows \subseteq Excused

Gone(e) == e = NoEntry \/ e.deleted

\* The ops tell of the file of this entry, with h as its head, and of no other.
Tells(e, h, S) ==
    IF Gone(e) THEN Live(S) = {}
    ELSE \E o \in S : Live(S) = {o} /\ o.id = h /\ o.file = e.file /\ o.text = e.text

\* Between the change of an entry and the op that tells of it.
Untold == {"save", "put", "saveDeleted"}

TellInv(c) ==
    /\ call[c].pc \notin Untold \cup {"append"} => Tells(entry, entry.head, Pushed)
    /\ At(c, "append") => Tells(entry, call[c].op, Pushed)
    /\ call[c].pc \in Untold => \A o \in Live(Pushed) : o.file = entry.file
    /\ call[c].pc \in {"save", "put"} => ~ entry.deleted /\ entry.text = call[c].text
    /\ call[c].pc \in {"scan", "drift", "captured"} => call[c].had = (entry # NoEntry)

\* Where a crash is one of the windows.
Exposed(c) == call[c].pc \in {"append", "put", "rewrite", "head"} \/ (At(c, "log") /\ call[c].changed)

\* What a restart finds tells of the entry it finds.
SavedTells(c) == Exposed(c) \/ Tells(saved, saved.head, Kept)

\* Memory and disk hold the same entry; of a tombstone a restart knows nothing.
Settled(c) ==
    call[c].pc \in {"idle", "read", "hash", "stored", "exists", "list", "push", "clear", "apply"} =>
        saved = entry \/ (entry = NoEntry /\ saved # NoEntry /\ saved.deleted)

TellsInv ==
    \A c \in Callers : SavedTells(c) /\ (phase # "off" => TellInv(c) /\ Settled(c))

\* A new op is the newest of its file, and the last word on no other.
LEMMA LiveAdds ==
    ASSUME TypesInv, NEW S \in SUBSET Recorded, NEW o, o.id = clock + 1
    PROVE  Live(S \cup {o}) = {p \in Live(S) : p.file # o.file} \cup (IF o.type = "delete" THEN {} ELSE {o})
<1>1. clock \in Nat /\ \A p \in S : p.id \in 1..clock
    BY DEF TypesInv, TypeOK
<1>2. \A p \in S : p.id <= o.id /\ ~ (o.id <= p.id)
    BY <1>1
<1>3. o.id <= o.id
    BY <1>1
<1>4. Newest(S \cup {o}) = {p \in Newest(S) : p.file # o.file} \cup {o}
    BY <1>2, <1>3 DEF Newest
<1> QED BY <1>4 DEF Live

LEMMA LiveDrops ==
    ASSUME NEW S, NEW f
    PROVE  Live({o \in S : o.file # f}) = {o \in Live(S) : o.file # f}
BY DEF Live, Newest

\* With one call, what holds of it holds of all.
LEMMA TellsStep ==
    ASSUME Alone, NEW c \in Callers, phase' # "off", TellInv(c)', SavedTells(c)', Settled(c)'
    PROVE  TellsInv'
BY DEF Alone, TellsInv

\* A step that changes no op and no entry.
LEMMA SameTells ==
    ASSUME Alone, TellsInv, NEW c \in Callers, SameOps, UNCHANGED <<entry, saved>>, phase # "off", phase' # "off",
           call[c].pc \notin Untold \cup {"append"}, call'[c].pc \notin Untold \cup {"append"}, ~ Exposed(c),
           call'[c].pc \in {"idle", "read", "hash", "stored", "exists", "list", "push", "clear", "apply"} =>
               call[c].pc \in {"idle", "read", "hash", "stored", "exists", "list", "push", "clear", "apply"},
           call'[c].pc \in {"scan", "drift", "captured"} => call'[c].had = (entry # NoEntry)
    PROVE  TellsInv'
<1>1. Pushed' = Pushed /\ Kept' = Kept
    BY DEF SameOps, Pushed, Kept
<1>2. SavedTells(c)'
    BY <1>1 DEF TellsInv, SavedTells, Tells, Gone
<1>3. TellInv(c)'
    BY <1>1 DEF TellsInv, TellInv, Tells, Gone, Untold, At
<1>4. Settled(c)'
    BY DEF TellsInv, Settled
<1> QED BY <1>2, <1>3, <1>4, TellsStep

LEMMA ReadsTell ==
    ASSUME Alone, TypesInv, TellsInv, NEW c \in Callers, Reads(c)
    PROVE  TellsInv'
<1> USE DEF Reads, vault, watch, files, memory, At
<1>1. SameOps /\ UNCHANGED <<entry, saved, phase>> /\ phase # "off"
    BY TypesFacts DEF SameOps, CallFits
<1>2. call'[c].pc \in {"idle", "list", "hash"}
    <2>1. CASE Ends(c)
        BY <2>1, EndsMoved
    <2>2. CASE Moves(c, [call[c] EXCEPT !.pc = "hash", !.text = text])
        <3>1. call'[c] = [call[c] EXCEPT !.pc = "hash", !.text = text] /\ call[c] \in Calls
            BY <2>2, Moved, TypesFacts
        <3> QED BY <3>1 DEF Calls
    <2> QED BY <2>1, <2>2
<1> QED BY <1>1, <1>2, SameTells DEF Untold, Exposed

\* What registerFile makes.
LEMMA Registered ==
    ASSUME TypesInv, NEW t \in Texts, NEW st \in Nat
    PROVE  /\ registerFile(t, st).deleted = FALSE
           /\ \/ registerFile(t, st) = entry
              \/ registerFile(t, st).text = t /\ registerFile(t, st).stat = st
<1>1. entry # NoEntry => entry \in Entries
    BY TypesFacts DEF EntriesFit
<1>2. CASE entry = NoEntry
    <2>1. registerFile(t, st) = NewEntry(t, st)
        BY <1>2 DEF registerFile
    <2>2. NewEntry(t, st).deleted = FALSE /\ NewEntry(t, st).text = t /\ NewEntry(t, st).stat = st
        BY Zenon DEF NewEntry
    <2>3. PICK n : n = NewEntry(t, st)
        OBVIOUS
    <2> QED BY <2>1, <2>2, Zenon
<1>3. CASE entry # NoEntry /\ entry.deleted
    <2>1. registerFile(t, st) = [entry EXCEPT !.deleted = FALSE, !.text = t, !.stat = st]
        BY <1>3 DEF registerFile
    <2> QED BY <1>1, <1>3, <2>1 DEF Entries
<1>4. CASE entry # NoEntry /\ ~ entry.deleted
    <2>1. registerFile(t, st) = entry
        BY <1>4 DEF registerFile
    <2> QED BY <1>1, <1>4, <2>1 DEF Entries
<1> QED BY <1>2, <1>3, <1>4

LEMMA RegistersTell ==
    ASSUME Alone, AllExcused, TypesInv, LineInv, TellsInv, NEW c \in Callers, Registers(c), ~ Excepted'
    PROVE  TellsInv'
<1> USE DEF Registers, vault, watch, files, At
<1>1. /\ UNCHANGED <<saved, phase>> /\ phase # "off" /\ Pushed' = Pushed /\ Kept' = Kept
      /\ call[c] \in Calls /\ call[c].text \in Texts /\ entry' = registerFile(call[c].text, 0)
    BY TypesFacts DEF SameOps, Pushed, Kept, CallFits
<1>2. call'[c] = [call[c] EXCEPT !.pc = IF entry' = entry THEN "put" ELSE "save"]
    BY Moved
<1>3. call'[c].pc \in {"put", "save"} /\ call'[c].text = call[c].text
    BY <1>1, <1>2 DEF Calls
<1>4. Tells(entry, entry.head, Pushed)
    BY <1>1 DEF TellsInv, TellInv, Untold
<1>5. entry # NoEntry => entry \in Entries
    BY TypesFacts DEF EntriesFit
<1>6. ~ entry'.deleted
    <2>1. call[c].text \in Texts /\ 0 \in Nat
        BY TypesFacts DEF CallFits
    <2>2. entry'.deleted = FALSE
        BY <1>1, <2>1, Registered
    <2> QED BY <2>2
<1>7. Gone(entry) \/ entry' = entry
    BY <1>1 DEF Gone, registerFile
<1>8. \A o \in Live(Pushed) : o.file = entry'.file
    BY <1>4, <1>7 DEF Tells
<1>9. entry'.text = call[c].text
    BY DEF AllExcused, Windows, Excepted
<1>10. SavedTells(c)'
    BY <1>1 DEF TellsInv, SavedTells, Tells, Gone, Exposed
<1>11. TellInv(c)' /\ Settled(c)'
    BY <1>1, <1>3, <1>6, <1>8, <1>9 DEF TellInv, Settled, Untold
<1> QED BY <1>1, <1>10, <1>11, TellsStep

LEMMA HashedTell ==
    ASSUME Alone, TypesInv, TellsInv, NEW c \in Callers, Hashed(c)
    PROVE  TellsInv'
<1> USE DEF Hashed, vault, watch, files, memory, At
<1>1. SameOps /\ UNCHANGED <<entry, saved, phase>> /\ phase # "off"
    BY TypesFacts DEF SameOps, CallFits
<1>2. call'[c].pc \in {"idle", "list", "stored"}
    <2>1. CASE Ends(c)
        BY <2>1, EndsMoved
    <2>2. CASE Moves(c, [call[c] EXCEPT !.pc = "stored", !.parents = HeadOf(entry)])
        <3>1. call'[c] = [call[c] EXCEPT !.pc = "stored", !.parents = HeadOf(entry)] /\ call[c] \in Calls
            BY <2>2, Moved, TypesFacts
        <3> QED BY <3>1 DEF Calls
    <2> QED BY <2>1, <2>2
<1> QED BY <1>1, <1>2, SameTells DEF Untold, Exposed

LEMMA UpdateTell ==
    ASSUME Alone, TypesInv, LineInv, TellsInv, NEW c \in Callers, updateContentHash(c)
    PROVE  TellsInv'
<1> USE DEF updateContentHash, vault, watch, files, At
<1>1. /\ UNCHANGED <<saved, phase>> /\ phase # "off" /\ Pushed' = Pushed /\ Kept' = Kept
      /\ call[c] \in Calls /\ entry # NoEntry /\ entry \in Entries
    BY TypesFacts DEF SameOps, Pushed, Kept, CallFits, EntriesFit
<1>2. call'[c] = [call[c] EXCEPT !.pc = "save"]
    BY Moved
<1>3. call'[c].pc = "save" /\ call'[c].text = call[c].text
    BY <1>1, <1>2 DEF Calls
<1>4. Tells(entry, entry.head, Pushed) /\ ~ entry.deleted
    BY <1>1 DEF TellsInv, TellInv, Untold, LineInv, ParentsInv
<1>5. entry'.deleted = entry.deleted /\ entry'.file = entry.file /\ entry'.text = call[c].text
    BY <1>1 DEF Entries
<1>6. \A o \in Live(Pushed) : o.file = entry'.file
    BY <1>4, <1>5 DEF Tells
<1>7. SavedTells(c)'
    BY <1>1 DEF TellsInv, SavedTells, Tells, Gone, Exposed
<1>8. TellInv(c)' /\ Settled(c)'
    BY <1>1, <1>3, <1>4, <1>5, <1>6 DEF TellInv, Settled, Untold
<1> QED BY <1>1, <1>7, <1>8, TellsStep

LEMMA ExistsTell ==
    ASSUME Alone, TypesInv, LineInv, TellsInv, NEW c \in Callers, Exists(c)
    PROVE  TellsInv'
<1> USE DEF Exists, vault, watch, files, At
<1>1. /\ SameOps /\ UNCHANGED <<saved, phase>> /\ phase # "off" /\ Pushed' = Pushed /\ Kept' = Kept
      /\ call[c] \in Calls /\ entry # NoEntry /\ entry \in Entries
    BY TypesFacts DEF SameOps, Pushed, Kept, CallFits, EntriesFit
<1>2. CASE listed.there
    <2>1. call'[c] = [call[c] EXCEPT !.pc = "read", !.had = TRUE] /\ entry' = entry
        BY <1>2, Moved
    <2>2. call'[c].pc = "read"
        BY <1>1, <2>1 DEF Calls
    <2> QED BY <1>1, <2>1, <2>2, SameTells DEF Untold, Exposed
<1>3. CASE ~ listed.there
    <2>1. call'[c] = [call[c] EXCEPT !.pc = "saveDeleted"]
        BY <1>3, Moved
    <2>2. call'[c].pc = "saveDeleted"
        BY <1>1, <2>1 DEF Calls
    <2>3. entry'.file = entry.file
        BY <1>1, <1>3 DEF Entries
    <2>4. Tells(entry, entry.head, Pushed)
        BY <1>1 DEF TellsInv, TellInv, Untold
    <2>5. \A o \in Live(Pushed) : o.file = entry'.file
        BY <2>3, <2>4 DEF Tells
    <2>6. SavedTells(c)'
        BY <1>1 DEF TellsInv, SavedTells, Tells, Gone, Exposed
    <2>7. TellInv(c)' /\ Settled(c)'
        BY <1>1, <2>2, <2>5 DEF TellInv, Settled, Untold
    <2> QED BY <1>1, <2>6, <2>7, TellsStep
<1> QED BY <1>2, <1>3

\* An op is recorded: what it tells is now all that is told of its file.
LEMMA RecordsTell ==
    ASSUME Alone, TypesInv, TellsInv, NEW c \in Callers, NEW type, NEW t, NEW P,
           Records(c, type, t, P), UNCHANGED <<entry, server, durable>>, entry # NoEntry,
           phase # "off", phase' # "off", call[c].pc \in Untold,
           IF type = "delete" THEN entry.deleted ELSE ~ entry.deleted /\ entry.text = t
    PROVE  TellsInv'
<1> DEFINE k == [call[c] EXCEPT !.pc = "append", !.op = clock + 1]
<1>0. PICK o : o = Op(clock + 1, type, entry.file, t, P)
    OBVIOUS
<1>1. /\ clock' = clock + 1 /\ ops' = ops \cup {o} /\ call'[c] = k
    BY <1>0, Moved DEF Records
<1>2. o.id = clock + 1 /\ o.type = type /\ o.file = entry.file /\ o.text = t
    BY <1>0 DEF Op
<1>3. k.pc = "append" /\ k.op = o.id
    BY <1>2, TypesFacts DEF Calls
<1> HIDE DEF k
<1>4. Pushed' = Pushed \cup {o} /\ Pushed \in SUBSET Recorded
    BY <1>1 DEF Pushed, Recorded
<1>5. Live(Pushed)' = {p \in Live(Pushed) : p.file # o.file} \cup (IF o.type = "delete" THEN {} ELSE {o})
    <2>1. Live(Pushed)' = Live(Pushed \cup {o})
        BY <1>4 DEF Live, Newest
    <2> QED BY <1>2, <1>4, <2>1, LiveAdds
<1>6. \A p \in Live(Pushed) : p.file = o.file
    BY <1>2 DEF TellsInv, TellInv
<1>7. Live(Pushed)' = IF type = "delete" THEN {} ELSE {o}
    BY <1>2, <1>5, <1>6
<1>8. Tells(entry, o.id, Pushed)'
    BY <1>1, <1>2, <1>4, <1>7 DEF Tells, Gone
<1>9. TellInv(c)' /\ SavedTells(c)' /\ Settled(c)'
    BY <1>1, <1>3, <1>8 DEF TellInv, SavedTells, Settled, Exposed, Untold, At
<1> QED BY <1>9, TellsStep

LEMMA SavesTell ==
    ASSUME Alone, TypesInv, TellsInv, NEW c \in Callers, Saves(c)
    PROVE  TellsInv'
<1> USE DEF Saves, vault, watch, At
<1>1. UNCHANGED <<entry, server, durable, phase>> /\ phase # "off" /\ entry # NoEntry
    BY TypesFacts DEF CallFits
<1>2. ~ entry.deleted /\ entry.text = call[c].text /\ call[c].pc \in Untold
    BY <1>1 DEF TellsInv, TellInv, Untold
<1>3. PICK type \in {"create", "update"} : Records(c, type, call[c].text, call[c].parents)
    OBVIOUS
<1> QED BY <1>1, <1>2, <1>3, RecordsTell

LEMMA SavesDeletedTell ==
    ASSUME Alone, AllExcused, TypesInv, LineInv, TellsInv, NEW c \in Callers, SavesDeleted(c), ~ Excepted'
    PROVE  TellsInv'
<1> USE DEF SavesDeleted, vault, watch, At
<1>1. /\ UNCHANGED <<entry, server, durable, phase>> /\ phase # "off" /\ entry # NoEntry
      /\ call[c] \in Calls /\ entry.deleted /\ ~ deferSave
    BY TypesFacts DEF CallFits, LineInv, ParentsInv, TypesInv, TypeOK, Alone, Passes
<1>2. CASE Records(c, "delete", entry.text, HeadOf(entry))
    BY <1>1, <1>2, RecordsTell DEF Untold
<1>3. CASE /\ ops' = pruneCreateDeletePair(entry.file) /\ Goes(c, "rewrite")
           /\ slips' = slips \cup IF \E o \in server : o.file = entry.file THEN {"pruned"} ELSE {}
    <2>1. call'[c] = [call[c] EXCEPT !.pc = "rewrite"]
        BY <1>3, Moved
    <2>2. call'[c].pc = "rewrite"
        BY <1>1, <2>1 DEF Calls
    <2>3. \A o \in server : o.file # entry.file
        BY <1>3 DEF AllExcused, Windows, Excepted
    <2>4. Pushed' = {o \in Pushed : o.file # entry.file}
        BY <1>1, <1>3, <2>3 DEF Pushed, pruneCreateDeletePair
    <2>5. \A o \in Live(Pushed) : o.file = entry.file
        BY <1>1 DEF TellsInv, TellInv, Untold
    <2>6. Live(Pushed)' = {}
        <3>1. Live(Pushed)' = Live({o \in Pushed : o.file # entry.file})
            BY <2>4 DEF Live, Newest
        <3>2. Live({o \in Pushed : o.file # entry.file}) = {o \in Live(Pushed) : o.file # entry.file}
            BY LiveDrops
        <3> QED BY <2>5, <3>1, <3>2
    <2>7. TellInv(c)' /\ SavedTells(c)' /\ Settled(c)'
        BY <1>1, <2>2, <2>6 DEF TellInv, Tells, Gone, SavedTells, Settled, Exposed, Untold
    <2> QED BY <1>1, <2>7, TellsStep
<1> QED BY <1>2, <1>3

LEMMA AppendsTell ==
    ASSUME Alone, TypesInv, TellsInv, NEW c \in Callers, Appends(c)
    PROVE  TellsInv'
<1> USE DEF Appends, vault, watch, At
<1>1. /\ UNCHANGED <<saved, server, ops, phase>> /\ phase # "off" /\ entry # NoEntry /\ entry \in Entries
      /\ call[c] \in Calls /\ Pushed' = Pushed
    BY TypesFacts DEF CallFits, EntriesFit, Pushed
<1>2. call'[c] = [call[c] EXCEPT !.pc = "head"]
    BY Moved
<1>3. call'[c].pc = "head"
    BY <1>1, <1>2 DEF Calls
<1>4. /\ entry'.head = call[c].op /\ entry'.file = entry.file /\ entry'.text = entry.text
      /\ entry'.deleted = entry.deleted /\ entry' # NoEntry
    BY <1>1, NoEntryAssumption, TypesFacts DEF Entries
<1>5. Tells(entry, call[c].op, Pushed)
    BY <1>1 DEF TellsInv, TellInv
<1>6. Tells(entry, entry.head, Pushed)'
    BY <1>1, <1>4, <1>5 DEF Tells, Gone
<1>7. TellInv(c)' /\ SavedTells(c)' /\ Settled(c)'
    BY <1>3, <1>6 DEF TellInv, SavedTells, Settled, Exposed, Untold
<1> QED BY <1>1, <1>7, TellsStep

\* Memory and disk are one, and so is what they tell.
LEMMA RestTells ==
    ASSUME Alone, NEW c \in Callers, phase' # "off", saved' = entry', Kept' = Pushed',
           Tells(entry, entry.head, Pushed)',
           call'[c].pc \notin Untold \cup {"append", "scan", "drift", "captured"}
    PROVE  TellsInv'
<1>1. SavedTells(c)'
    BY DEF SavedTells, Tells, Gone
<1>2. TellInv(c)' /\ Settled(c)'
    BY DEF TellInv, Settled, Untold, At
<1> QED BY <1>1, <1>2, TellsStep

LEMMA HeadSavedTell ==
    ASSUME Alone, TypesInv, LineInv, TellsInv, NEW c \in Callers, HeadSaved(c)
    PROVE  TellsInv'
<1> USE DEF HeadSaved, vault, watch, memory, At
<1>1. /\ SameOps /\ UNCHANGED <<entry, phase>> /\ phase # "off" /\ saved' = entry
      /\ Pushed' = Pushed /\ Kept' = Kept
    BY TypesFacts DEF SameOps, Pushed, Kept, CallFits, TypesInv, TypeOK, Alone, Passes, Save
<1>2. call'[c].pc \in {"idle", "list"}
    BY EndsMoved
<1>3. Pushed = Kept
    BY <1>1 DEF LineInv, OpLogInv, Ahead, Pushed, Kept
<1>4. Tells(entry, entry.head, Pushed)'
    BY <1>1 DEF TellsInv, TellInv, Untold, Tells, Gone
<1> QED BY <1>1, <1>2, <1>3, <1>4, RestTells DEF Untold

LEMMA RewritesTell ==
    ASSUME Alone, TypesInv, LineInv, TellsInv, NEW c \in Callers, Rewrites(c)
    PROVE  TellsInv'
<1> USE DEF Rewrites, vault, watch, memory, At
<1>1. /\ UNCHANGED <<saved, entry, server, ops, phase>> /\ phase # "off" /\ saved = entry
      /\ Pushed' = Pushed /\ Kept' = Pushed
    BY TypesFacts DEF CallFits, Pushed, Kept, LineInv, ParentsInv
<1>2. call'[c].pc \in {"idle", "list"}
    BY EndsMoved
<1>3. Tells(entry, entry.head, Pushed)'
    BY <1>1 DEF TellsInv, TellInv, Untold, Tells, Gone
<1> QED BY <1>1, <1>2, <1>3, RestTells DEF Untold

----------------------------------------------------------------------------
(* What the ops tell through the capture pass *)

\* Entry and op at once, in a pass that has not saved yet.
LEMMA PassTells ==
    ASSUME Alone, TellsInv, NEW c \in Callers, UNCHANGED <<saved, server, durable>>, phase' # "off",
           call[c].pc \in {"list", "captured", "scan", "drift"}, Tells(entry, entry.head, Pushed)',
           call'[c].pc \in {"flush", "captured", "scan", "drift"},
           call'[c].pc \in {"scan", "drift", "captured"} => call'[c].had = (entry' # NoEntry)
    PROVE  TellsInv'
<1>1. Kept' = Kept
    BY DEF Kept
<1>2. SavedTells(c)'
    BY <1>1 DEF TellsInv, SavedTells, Tells, Gone, Exposed, At
<1>3. TellInv(c)' /\ Settled(c)'
    BY DEF TellInv, Settled, Untold, At
<1> QED BY <1>2, <1>3, TellsStep

LEMMA ListsTell ==
    ASSUME Alone, TypesInv, TellsInv, NEW c \in Callers, Lists(c)
    PROVE  TellsInv'
<1> USE DEF At
<1>1. /\ UNCHANGED <<saved, phase, server, durable>> /\ phase # "off" /\ call[c].pc = "list" /\ call[c] \in Calls
    BY TypesFacts DEF CallFits, Lists, watch, files
<1>2. Tells(entry, entry.head, Pushed)
    BY <1>1 DEF TellsInv, TellInv, Untold
<1>3. CASE /\ UNCHANGED <<entry, ops>>
           /\ Moves(c, [call[c] EXCEPT !.pc = "scan", !.stat = listed.stat, !.had = entry # NoEntry])
    <2>1. call'[c] = [call[c] EXCEPT !.pc = "scan", !.stat = listed.stat, !.had = entry # NoEntry]
        BY <1>3, Moved
    <2>2. call'[c].pc = "scan" /\ call'[c].had = (entry # NoEntry)
        BY <1>1, <2>1 DEF Calls
    <2>3. Tells(entry, entry.head, Pushed)'
        BY <1>1, <1>2, <1>3 DEF Tells, Gone, Pushed
    <2> QED BY <1>1, <1>3, <2>2, <2>3, PassTells
<1>4. CASE UNCHANGED <<entry, ops>> /\ Goes(c, "flush")
    <2>1. call'[c] = [call[c] EXCEPT !.pc = "flush"]
        BY <1>4, Moved
    <2>2. call'[c].pc = "flush"
        BY <1>1, <2>1 DEF Calls
    <2>3. Tells(entry, entry.head, Pushed)'
        BY <1>1, <1>2, <1>4 DEF Tells, Gone, Pushed
    <2> QED BY <1>1, <2>2, <2>3, PassTells
<1>5. CASE /\ entry # NoEntry /\ ~ entry.deleted
           /\ ops' = ops \cup {Op(clock + 1, "delete", entry.file, entry.text, HeadOf(entry))}
           /\ entry' = [entry EXCEPT !.deleted = TRUE, !.head = clock + 1]
           /\ Moves(c, [call[c] EXCEPT !.pc = "flush", !.changed = TRUE])
    <2>1. PICK o : o = Op(clock + 1, "delete", entry.file, entry.text, HeadOf(entry))
        OBVIOUS
    <2>2. o.id = clock + 1 /\ o.type = "delete" /\ o.file = entry.file
        BY <2>1 DEF Op
    <2>3. call'[c] = [call[c] EXCEPT !.pc = "flush", !.changed = TRUE]
        BY <1>5, Moved
    <2>4. call'[c].pc = "flush"
        BY <1>1, <2>3 DEF Calls
    <2>5. entry'.deleted = TRUE
        BY <1>5, TypesFacts DEF EntriesFit, Entries
    <2>6. Pushed' = Pushed \cup {o} /\ Pushed \in SUBSET Recorded
        BY <1>1, <1>5, <2>1 DEF Pushed, Recorded
    <2>7. \A p \in Live(Pushed) : p.file = o.file
        BY <1>2, <1>5, <2>2 DEF Tells, Gone
    <2>8. Live(Pushed \cup {o}) = {p \in Live(Pushed) : p.file # o.file} \cup (IF o.type = "delete" THEN {} ELSE {o})
        BY <2>2, <2>6, LiveAdds
    <2>9. Live(Pushed \cup {o}) = {}
        BY <2>2, <2>7, <2>8
    <2>10. Tells(entry, entry.head, Pushed)'
        BY <2>5, <2>6, <2>9 DEF Tells, Gone
    <2> QED BY <1>1, <2>4, <2>10, PassTells
<1> QED BY <1>3, <1>4, <1>5 DEF Lists

LEMMA ScansTell ==
    ASSUME Alone, TypesInv, TellsInv, NEW c \in Callers, Scans(c)
    PROVE  TellsInv'
<1> USE DEF At
<1>1. /\ UNCHANGED <<entry, saved, phase, server, durable, ops>> /\ phase # "off"
      /\ call[c].pc = "scan" /\ call[c] \in Calls
    BY TypesFacts DEF CallFits, Scans, watch, files, memory
<1>2. call'[c].pc \in {"drift", "flush"} /\ call'[c].had = call[c].had
    <2>1. \/ call'[c] = [call[c] EXCEPT !.pc = "flush"]
          \/ call'[c] = [call[c] EXCEPT !.pc = "drift", !.text = text]
        BY Moved DEF Scans
    <2> QED BY <1>1, <2>1 DEF Calls
<1>3. Tells(entry, entry.head, Pushed)' /\ call[c].had = (entry # NoEntry)
    BY <1>1 DEF TellsInv, TellInv, Untold, Tells, Gone, Pushed
<1> QED BY <1>1, <1>2, <1>3, PassTells

LEMMA DriftsTell ==
    ASSUME Alone, TypesInv, TellsInv, NEW c \in Callers, Drifts(c)
    PROVE  TellsInv'
<1> USE DEF At
<1>1. /\ UNCHANGED <<saved, phase, server, durable, ops>> /\ phase # "off"
      /\ call[c].pc = "drift" /\ call[c] \in Calls
      /\ (call[c].had => entry # NoEntry /\ entry \in Entries) /\ Pushed' = Pushed
    BY TypesFacts DEF CallFits, Drifts, watch, files, EntriesFit, Pushed
<1>2. Tells(entry, entry.head, Pushed) /\ call[c].had = (entry # NoEntry)
    BY <1>1 DEF TellsInv, TellInv, Untold
<1>3. CASE call[c].had /\ entry' = [entry EXCEPT !.stat = call[c].stat] /\ Goes(c, "flush")
    <2>1. call'[c] = [call[c] EXCEPT !.pc = "flush"]
        BY <1>3, Moved
    <2>2. call'[c].pc = "flush"
        BY <1>1, <2>1 DEF Calls
    <2>3. /\ entry'.head = entry.head /\ entry'.file = entry.file /\ entry'.text = entry.text
          /\ entry'.deleted = entry.deleted
        BY <1>1, <1>3 DEF Entries
    <2>5. entry' # NoEntry
        <3>1. call[c].stat \in Nat
            BY <1>1 DEF Calls
        <3>2. entry' \in Entries
            BY <1>1, <1>3, <3>1, EntryTypes DEF TypesInv
        <3> QED BY <3>2, NoEntryAssumption
    <2>4. Tells(entry, entry.head, Pushed)'
        BY <1>1, <1>2, <1>3, <2>3, <2>5 DEF Tells, Gone
    <2> QED BY <1>1, <2>2, <2>4, PassTells
<1>4. CASE Goes(c, "captured") /\ UNCHANGED entry
    <2>1. call'[c] = [call[c] EXCEPT !.pc = "captured"]
        BY <1>4, Moved
    <2>2. call'[c].pc = "captured" /\ call'[c].had = call[c].had
        BY <1>1, <2>1 DEF Calls
    <2>3. Tells(entry, entry.head, Pushed)'
        BY <1>1, <1>2, <1>4 DEF Tells, Gone
    <2> QED BY <1>1, <1>2, <1>4, <2>2, <2>3, PassTells
<1> QED BY <1>3, <1>4 DEF Drifts

LEMMA CapturesTell ==
    ASSUME Alone, TypesInv, LineInv, TellsInv, NEW c \in Callers, Captures(c)
    PROVE  TellsInv'
<1> USE DEF At
<1> DEFINE had == call[c].had
           e == IF had THEN [entry EXCEPT !.text = call[c].text, !.stat = call[c].stat]
                ELSE registerFile(call[c].text, call[c].stat)
           P == IF had THEN HeadOf(entry) ELSE {}
           type == IF had THEN "update" ELSE "create"
<1>1. /\ UNCHANGED <<saved, server, durable, phase>> /\ phase # "off" /\ call[c].pc = "captured" /\ call[c] \in Calls
      /\ call[c].text \in Texts /\ call[c].stat \in Nat /\ had = (entry # NoEntry) /\ TypeOK
    BY TypesFacts DEF CallFits, Captures, watch, files, TellsInv, TellInv, TypesInv, Calls
<1>2. PICK o : o = Op(clock + 1, type, e.file, call[c].text, P)
    OBVIOUS
<1>3. /\ ops' = ops \cup {o} /\ entry' = [e EXCEPT !.head = clock + 1]
      /\ Moves(c, [call[c] EXCEPT !.pc = "flush", !.changed = TRUE])
    BY <1>2 DEF Captures
<1>4. o.id = clock + 1 /\ o.type # "delete" /\ o.file = e.file /\ o.text = call[c].text
    BY <1>2 DEF Op
<1>5. call'[c] = [call[c] EXCEPT !.pc = "flush", !.changed = TRUE]
    BY <1>3, Moved
<1>6. call'[c].pc = "flush"
    BY <1>1, <1>5 DEF Calls
<1>7. /\ e \in Entries /\ e.text = call[c].text /\ e.deleted = FALSE
      /\ entry # NoEntry => e.file = entry.file /\ ~ entry.deleted
    <2>1. CASE had
        <3>1. entry \in Entries /\ entry # NoEntry /\ entry.deleted = FALSE
            BY <1>1, <2>1, EntryTypes DEF LineInv, ParentsInv, Entries
        <3>2. e = [entry EXCEPT !.text = call[c].text, !.stat = call[c].stat]
            BY <2>1
        <3> QED BY <1>1, <3>1, <3>2 DEF Entries
    <2>2. CASE ~ had
        <3>1. e = registerFile(call[c].text, call[c].stat) /\ e \in Entries /\ entry = NoEntry
            BY <1>1, <2>2, EntryTypes
        <3> HIDE DEF e
        <3> QED BY <1>1, <3>1, Registered, NoEntryAssumption
    <2> QED BY <2>1, <2>2
<1> HIDE DEF e, type, P, had
<1>8. /\ entry'.head = o.id /\ entry'.file = o.file /\ entry'.text = o.text /\ entry'.deleted = FALSE
      /\ entry' # NoEntry
    <2>1. entry'.head = o.id /\ entry'.file = o.file /\ entry'.text = o.text /\ entry'.deleted = FALSE
        BY <1>3, <1>4, <1>7 DEF Entries
    <2>2. clock + 1 \in Nat
        BY <1>1 DEF TypeOK
    <2>3. entry' \in Entries
        BY <1>3, <1>7, <2>2 DEF Entries
    <2> QED BY <2>1, <2>3, NoEntryAssumption
<1>9. Pushed' = Pushed \cup {o} /\ Pushed \in SUBSET Recorded
    BY <1>1, <1>3 DEF Pushed, Recorded
<1>10. \A p \in Live(Pushed) : p.file = o.file
    BY <1>1, <1>4, <1>7 DEF TellsInv, TellInv, Tells, Gone, Untold
<1>11. Live(Pushed \cup {o}) = {p \in Live(Pushed) : p.file # o.file} \cup (IF o.type = "delete" THEN {} ELSE {o})
    BY <1>4, <1>9, LiveAdds
<1>12. Live(Pushed \cup {o}) = {o}
    BY <1>4, <1>10, <1>11
<1>13. Tells(entry, entry.head, Pushed)'
    BY <1>8, <1>9, <1>12 DEF Tells, Gone
<1> QED BY <1>1, <1>6, <1>13, PassTells

LEMMA FlushesTell ==
    ASSUME Alone, TypesInv, LineInv, TellsInv, NEW c \in Callers, Flushes(c)
    PROVE  TellsInv'
<1> USE DEF Flushes, vault, watch, memory, At
<1>1. /\ SameOps /\ UNCHANGED <<entry, phase>> /\ phase # "off" /\ saved' = entry /\ call[c] \in Calls
      /\ Pushed' = Pushed /\ Kept' = Kept
    BY TypesFacts DEF SameOps, Pushed, Kept, CallFits
<1>2. call'[c] = [call[c] EXCEPT !.pc = "log"]
    BY Moved
<1>3. call'[c].pc = "log" /\ call'[c].changed = call[c].changed
    BY <1>1, <1>2 DEF Calls
<1>4. ~ call[c].changed => Pushed = Kept
    BY <1>1 DEF LineInv, OpLogInv, Ahead, Pushed, Kept
<1>5. Tells(entry, entry.head, Pushed)'
    BY <1>1 DEF TellsInv, TellInv, Untold, Tells, Gone
<1>6. TellInv(c)' /\ Settled(c)'
    BY <1>3, <1>5 DEF TellInv, Settled, Untold
<1>7. SavedTells(c)'
    BY <1>1, <1>3, <1>4, <1>5 DEF SavedTells, Exposed, Tells, Gone
<1> QED BY <1>1, <1>6, <1>7, TellsStep

LEMMA LogsTell ==
    ASSUME Alone, TypesInv, LineInv, TellsInv, NEW c \in Callers, Logs(c)
    PROVE  TellsInv'
<1> USE DEF At
<1>1. /\ UNCHANGED <<entry, saved, server, ops>> /\ phase # "off" /\ phase' # "off" /\ saved = entry
      /\ durable' = IF call[c].changed THEN ops ELSE durable
    BY TypesFacts DEF CallFits, Logs, LineInv, ParentsInv, vault
<1>2. durable' = ops
    BY <1>1 DEF LineInv, OpLogInv, Ahead, Logs
<1>3. call'[c].pc \in {"list", "idle", "push"}
    <2> DEFINE again  == [Idle EXCEPT !.pc = "list", !.job = "startup", !.again = TRUE]
               pushes == [Idle EXCEPT !.pc = "push", !.job = "round"]
    <2>1. again.pc = "list" /\ Idle.pc = "idle" /\ pushes.pc = "push"
        BY DEF Idle
    <2>2. Moves(c, again) \/ Moves(c, Idle) \/ Moves(c, pushes)
        BY DEF Logs
    <2> HIDE DEF again, pushes
    <2>3. call'[c] = again \/ call'[c] = Idle \/ call'[c] = pushes
        BY <2>2, Moved
    <2> QED BY <2>1, <2>3
<1>4. Pushed' = Pushed /\ Kept' = Pushed
    BY <1>1, <1>2 DEF Pushed, Kept
<1>5. Tells(entry, entry.head, Pushed)'
    BY <1>1, <1>4 DEF TellsInv, TellInv, Untold, Tells, Gone, Logs
<1> QED BY <1>1, <1>3, <1>4, <1>5, RestTells DEF Untold

----------------------------------------------------------------------------
(* What the ops tell through rounds, crashes and what the user does *)

\* The ops go from one place to another, and are still those of the registry.
LEMMA SentTells ==
    ASSUME Alone, TellsInv, NEW c \in Callers, UNCHANGED <<entry, saved>>, phase # "off", phase' # "off",
           Pushed' = Pushed, Kept' = Kept,
           call[c].pc \in {"idle", "push", "clear", "apply"},
           call'[c].pc \in {"idle", "list", "read", "exists", "clear", "apply"}
    PROVE  TellsInv'
<1>1. SavedTells(c)'
    BY DEF TellsInv, SavedTells, Tells, Gone, Exposed, At
<1>2. TellInv(c)'
    BY DEF TellsInv, TellInv, Tells, Gone, Untold, At
<1>3. Settled(c)'
    BY DEF TellsInv, Settled
<1> QED BY <1>1, <1>2, <1>3, TellsStep

LEMMA PushTells ==
    ASSUME Alone, TypesInv, LineInv, TellsInv, NEW c \in Callers, Push(c)
    PROVE  TellsInv'
<1> USE DEF Push, vault, watch, files, At
<1>1. /\ UNCHANGED <<entry, saved, durable, phase>> /\ phase # "off" /\ call[c] \in Calls
      /\ server' = Pushed /\ ops' = {}
    BY TypesFacts DEF CallFits, Pushed
<1>2. call'[c] = [call[c] EXCEPT !.pc = "clear"]
    BY Moved
<1>3. call'[c].pc = "clear"
    BY <1>1, <1>2 DEF Calls
<1>4. ops = durable
    BY <1>1 DEF LineInv, OpLogInv, Ahead
<1>5. Pushed' = Pushed /\ Kept' = Kept
    BY <1>1, <1>4 DEF Pushed, Kept
<1> QED BY <1>1, <1>3, <1>5, SentTells

LEMMA RoundFailsTells ==
    ASSUME Alone, TypesInv, LineInv, TellsInv, NEW c \in Callers, RoundFails(c)
    PROVE  TellsInv'
<1> USE DEF RoundFails, vault, watch, files, memory, At
<1>1. /\ UNCHANGED <<entry, saved, ops, durable, phase>> /\ phase # "off"
      /\ server' \in {server, Pushed} /\ call'[c] = Idle
    BY Moved, TypesFacts DEF CallFits, Pushed
<1>2. ops = durable
    BY <1>1 DEF LineInv, OpLogInv, Ahead
<1>3. Pushed' = Pushed /\ Kept' = Kept
    BY <1>1, <1>2 DEF Pushed, Kept
<1>4. Idle.pc = "idle"
    BY DEF Idle
<1> QED BY <1>1, <1>3, <1>4, SentTells

LEMMA StopsListeningTells ==
    ASSUME Alone, TypesInv, LineInv, TellsInv, NEW c \in Callers, StopsListening(c)
    PROVE  TellsInv'
<1> USE DEF StopsListening, vault, memory, At
<1>1. /\ UNCHANGED <<entry, saved, server, ops>> /\ phase # "off" /\ phase' # "off" /\ call[c] \in Calls
      /\ durable' = ops
    BY TypesFacts DEF CallFits
<1>2. call'[c] = [call[c] EXCEPT !.pc = "apply"]
    BY Moved
<1>3. call'[c].pc = "apply"
    BY <1>1, <1>2 DEF Calls
<1>4. ops = {} /\ durable \subseteq server
    BY DEF LineInv, OpLogInv
<1>5. Pushed' = Pushed /\ Kept' = Kept
    BY <1>1, <1>4 DEF Pushed, Kept
<1> QED BY <1>1, <1>3, <1>5, SentTells

LEMMA RoundEndsTells ==
    ASSUME Alone, TypesInv, TellsInv, NEW c \in Callers, RoundEnds(c)
    PROVE  TellsInv'
<1>1. /\ UNCHANGED <<entry, saved, server, ops, durable>> /\ phase # "off" /\ phase' # "off" /\ call[c].pc = "apply"
      /\ call'[c] = Idle
    BY Moved, TypesFacts DEF RoundEnds, vault, files, memory, At, CallFits
<1>2. Idle.pc = "idle" /\ Pushed' = Pushed /\ Kept' = Kept
    BY <1>1 DEF Idle, Pushed, Kept
<1> QED BY <1>1, <1>2, SentTells

LEMMA BeginsTell ==
    ASSUME Alone, TypesInv, TellsInv, NEW c \in Callers, DebounceFires(c) \/ BeginRound(c)
    PROVE  TellsInv'
<1>1. /\ UNCHANGED <<entry, saved, server, ops, durable>> /\ phase # "off" /\ phase' # "off" /\ call[c].pc = "idle"
    BY DEF DebounceFires, BeginRound, vault, files, memory, At
<1>2. call'[c].pc \in {"list", "read"}
    <2>1. PICK j, b : \/ Moves(c, [Idle EXCEPT !.pc = "read", !.job = j, !.had = b])
                      \/ Moves(c, [Idle EXCEPT !.pc = "list", !.job = j])
        BY DEF DebounceFires, BeginRound, Modify
    <2>2. \/ call'[c] = [Idle EXCEPT !.pc = "read", !.job = j, !.had = b]
          \/ call'[c] = [Idle EXCEPT !.pc = "list", !.job = j]
        BY <2>1, Moved
    <2> QED BY <2>2 DEF Idle
<1>3. Pushed' = Pushed /\ Kept' = Kept
    BY <1>1 DEF Pushed, Kept
<1> QED BY <1>1, <1>2, <1>3, SentTells

LEMMA TellsUnchanged ==
    ASSUME TellsInv, UNCHANGED <<server, ops, durable, entry, saved, phase, call>>
    PROVE  TellsInv'
<1>1. Pushed' = Pushed /\ Kept' = Kept
    BY DEF Pushed, Kept
<1>2. ASSUME NEW c \in Callers PROVE SavedTells(c)' /\ (phase' # "off" => TellInv(c)' /\ Settled(c)')
    <2>1. SavedTells(c)'
        BY <1>1 DEF TellsInv, SavedTells, Tells, Gone, Exposed, At
    <2>2. phase' # "off" => TellInv(c)'
        BY <1>1 DEF TellsInv, TellInv, Tells, Gone, Untold, At
    <2>3. phase' # "off" => Settled(c)'
        BY DEF TellsInv, Settled
    <2> QED BY <2>1, <2>2, <2>3
<1> QED BY <1>2 DEF TellsInv

LEMMA DeliversTell ==
    ASSUME Alone, TypesInv, TellsInv, Delivers
    PROVE  TellsInv'
<1>1. PICK k \in DOMAIN events :
          \/ handleModify(k)
          \/ Unheard(k)
          \/ \E c \in Callers : handleCreate(c, k) \/ handleDelete(c, k)
    BY DEF Delivers
<1>2. CASE UNCHANGED <<server, ops, durable, entry, saved, phase, call>>
    BY <1>2, TellsUnchanged
<1>3. ASSUME NEW c \in Callers, At(c, "idle"), UNCHANGED <<server, ops, durable, entry, saved, phase>>,
             phase # "off", NEW p \in {"read", "exists"}, Moves(c, [Idle EXCEPT !.pc = p, !.job = "live"])
      PROVE  TellsInv'
    <2>1. call'[c] = [Idle EXCEPT !.pc = p, !.job = "live"]
        BY <1>3, Moved
    <2>2. call'[c].pc \in {"read", "exists"} /\ Pushed' = Pushed /\ Kept' = Kept
        BY <1>3, <2>1 DEF Idle, Pushed, Kept
    <2> QED BY <1>3, <2>2, SentTells DEF At
<1>4. CASE handleModify(k) \/ Unheard(k)
    BY <1>2, <1>4 DEF handleModify, Unheard, files, memory
<1>5. ASSUME NEW c \in Callers, handleCreate(c, k) PROVE TellsInv'
    BY <1>3, <1>5 DEF handleCreate, files, memory
<1>6. ASSUME NEW c \in Callers, handleDelete(c, k) PROVE TellsInv'
    BY <1>2, <1>3, <1>6 DEF handleDelete, files, memory
<1> QED BY <1>1, <1>4, <1>5, <1>6

LEMMA ChangeTells ==
    ASSUME TellsInv, NEW t, Change(t)
    PROVE  TellsInv'
<1>1. UNCHANGED <<server, ops, durable, entry, saved, phase, call>>
    BY DEF Change, files, memory
<1> QED BY <1>1, TellsUnchanged

\* A crash that meets no window leaves an entry and an op log that tell the same.
LEMMA CrashTells ==
    ASSUME AllExcused, TypesInv, TellsInv, Crash, ~ Excepted'
    PROVE  TellsInv'
<1> USE DEF Crash, vault, files
<1>1. UNCHANGED <<saved, durable, server>> /\ phase' = "off" /\ slips' = slips \cup Slipped /\ Kept' = Kept
    BY DEF Kept
<1>2. ASSUME NEW c \in Callers PROVE SavedTells(c)'
    <2>1. "registry first" \notin Slipped /\ "head last" \notin Slipped
        BY <1>1 DEF AllExcused, Windows, Excepted
    <2>2. ~ Exposed(c)
        BY <2>1 DEF Slipped, Exposed, At
    <2> QED BY <1>1, <2>2 DEF TellsInv, SavedTells, Tells, Gone
<1> QED BY <1>1, <1>2 DEF TellsInv

LEMMA StartTells ==
    ASSUME Alone, TypesInv, TellsInv, NEW c \in Callers, Start(c)
    PROVE  TellsInv'
<1>1. /\ UNCHANGED <<saved, durable, server>> /\ ops' = durable /\ phase = "off" /\ phase' # "off"
      /\ entry' = IF saved = NoEntry \/ saved.deleted THEN NoEntry ELSE saved
      /\ At(c, "idle")
    BY TypesFacts DEF Start, vault, files, CallFits
<1>2. call'[c].pc = "list"
    <2>1. call'[c] = [Idle EXCEPT !.pc = "list", !.job = "startup"]
        BY Moved DEF Start
    <2> QED BY <2>1 DEF Idle
<1>3. Pushed' = Kept /\ Kept' = Kept
    BY <1>1 DEF Pushed, Kept
<1>4. Tells(saved, saved.head, Kept)
    BY <1>1 DEF TellsInv, SavedTells, Exposed, At
<1>5. SavedTells(c)'
    BY <1>1, <1>3, <1>4 DEF SavedTells, Tells, Gone
<1>6. Tells(entry, entry.head, Pushed)'
    BY <1>1, <1>3, <1>4 DEF Tells, Gone
<1>7. TellInv(c)'
    BY <1>2, <1>6 DEF TellInv, Untold, At
<1>8. Settled(c)'
    BY <1>1, <1>2 DEF Settled
<1> QED BY <1>1, <1>5, <1>7, <1>8, TellsStep

LEMMA InitTells == Init => TellsInv
<1> SUFFICES ASSUME Init PROVE TellsInv
    OBVIOUS
<1>1. Kept = {} /\ saved = NoEntry /\ phase = "off"
    BY DEF Init, Kept
<1> QED BY <1>1 DEF TellsInv, SavedTells, Tells, Gone, Live, Newest

LEMMA TellsHold ==
    ASSUME Alone, AllExcused, TypesInv, LineInv, TellsInv, [Next]_vars, ~ Excepted'
    PROVE  TellsInv'
<1>1. ASSUME NEW t \in Texts \cup {NoText}, Change(t) PROVE TellsInv'
    BY <1>1, ChangeTells
<1>2. CASE Delivers
    BY <1>2, DeliversTell
<1>3. ASSUME NEW c \in Callers, Step(c) PROVE TellsInv'
    BY <1>3, ReadsTell, RegistersTell, HashedTell, UpdateTell, ExistsTell, SavesTell,
       SavesDeletedTell, AppendsTell, HeadSavedTell, RewritesTell, ListsTell, ScansTell, DriftsTell,
       CapturesTell, FlushesTell, LogsTell, PushTells, StopsListeningTells, RoundEndsTells DEF Step
<1>4. ASSUME NEW c \in Callers, DebounceFires(c) \/ BeginRound(c) \/ RoundFails(c) \/ Start(c) PROVE TellsInv'
    BY <1>4, BeginsTell, RoundFailsTells, StartTells
<1>5. CASE Crash
    BY <1>5, CrashTells
<1>6. CASE UNCHANGED vars
    BY <1>6, TellsUnchanged DEF vars, vault, watch, files, memory
<1> QED BY <1>1, <1>2, <1>3, <1>4, <1>5, <1>6 DEF Next

----------------------------------------------------------------------------
(* What the registry says of the vault.  Until a change is captured there  *)
(* is something left that leads to it: an event on its way, the timer, or  *)
(* that nobody saw it, and then the next listing finds it by its time.     *)

Coming == ToSet(events)

\* Something still leads to a capture of the file as it is.
Pending ==
    \/ unseen
    \/ text # NoText /\ (armed \/ "modify" \in Coming \/ "create" \in Coming)
    \/ text = NoText /\ "delete" \in Coming

Matches(e) == IF Gone(e) THEN text = NoText ELSE e.text = text

Reading == {"hash", "stored", "drift", "captured"}

\* What a call is about to do with the file when nothing else leads to it.
TextInv(c) ==
    \/ Pending
    \/ IF call[c].pc \in Reading THEN call[c].text = text
       ELSE \/ Matches(entry)
            \/ call[c].pc \in {"read", "scan"} /\ text # NoText
            \/ At(c, "exists") /\ text = NoText /\ ~ listed.there

\* The listing is behind the vault by what is on its way.
ListedInv ==
    /\ stat = acts /\ listed.stat <= stat
    /\ listed.stat = stat => listed.there = (text # NoText)
    /\ phase # "off" /\ listed.stat # stat =>
           IF text = NoText THEN "delete" \in Coming
           ELSE "create" \in Coming \/ (listed.there /\ "modify" \in Coming)

\* A time is that of a listing, and with the time of the file goes its content.
Dated(e) == e.stat <= listed.stat /\ (e.stat = stat => e.text = text)

SavedStat == saved # NoEntry => Dated(saved)

CallStat(c) ==
    /\ call[c].stat <= listed.stat
    /\ call[c].pc \in Reading /\ call[c].stat = stat => call[c].text = text

EntryStat(c) ==
    entry # NoEntry =>
        /\ Dated(entry)
        /\ entry.stat = stat /\ call[c].pc \in {"hash", "stored"} => call[c].text = text
        /\ entry.deleted /\ listed.there => entry.stat < listed.stat

\* A file that came back after its delete is about to be found.
BackInv(c) ==
    entry # NoEntry /\ entry.deleted /\ text # NoText =>
        \/ unseen \/ "create" \in Coming
        \/ call[c].pc \in {"read", "hash"} /\ ~ call[c].had
        \/ call[c].pc \in {"scan", "drift"}

OffInv ==
    IF phase = "off" THEN events = <<>> /\ ~ armed /\ (unseen \/ Matches(saved))
    ELSE Callers # {}

VaultInv ==
    /\ ListedInv /\ OffInv /\ SavedStat
    /\ \A c \in Callers : CallStat(c) /\ EntryStat(c) /\ BackInv(c) /\ (phase # "off" => TextInv(c))

\* The numbers are numbers.
LEMMA StatTypes ==
    ASSUME TypesInv
    PROVE  /\ stat \in Nat /\ acts \in Nat /\ listed.stat \in Nat
           /\ saved # NoEntry => saved.stat \in Nat
           /\ entry # NoEntry => entry \in Entries /\ entry.stat \in Nat /\ entry.deleted \in BOOLEAN
           /\ \A c \in Callers : call[c] \in Calls /\ call[c].stat \in Nat
BY TypesFacts DEF Rest, EntriesFit, Entries, Calls

\* What is not in the listing, or no more in the vault, is on its way.
LEMMA ListingTells ==
    ASSUME VaultInv, phase # "off"
    PROVE  /\ text # NoText /\ ~ listed.there => "create" \in Coming
           /\ text = NoText /\ listed.there => "delete" \in Coming
BY DEF VaultInv, ListedInv

\* With one call, a step of it.
LEMMA VaultStep ==
    ASSUME Alone, VaultInv, NEW c \in Callers,
           UNCHANGED <<text, stat, acts, listed, events>>, phase # "off", phase' # "off",
           SavedStat', CallStat(c)', EntryStat(c)', BackInv(c)', TextInv(c)'
    PROVE  VaultInv'
<1>1. ListedInv'
    BY DEF VaultInv, ListedInv, Coming
<1>2. OffInv'
    BY DEF OffInv
<1> QED BY <1>1, <1>2 DEF VaultInv, Alone

\* Places where a call has nothing of the file in hand.
Calm == PCs \ ({"read", "scan", "exists"} \cup Reading)

\* The entry says the same of the file.
SameFile ==
    \/ entry' = entry
    \/ /\ entry # NoEntry /\ entry' # NoEntry
       /\ entry'.text = entry.text /\ entry'.stat = entry.stat /\ entry'.deleted = entry.deleted

LEMMA CalmStep ==
    ASSUME Alone, TypesInv, VaultInv, NEW c \in Callers,
           UNCHANGED <<text, stat, acts, listed, events>>, phase # "off", phase' # "off",
           Pending => Pending', unseen => unseen', SameFile, saved' \in {saved, entry},
           call[c].pc \in Calm, call'[c].pc \in Calm, call'[c].stat \in {0, call[c].stat}
    PROVE  VaultInv'
<1> USE DEF VaultInv
<1>1. SavedStat'
    BY DEF SavedStat, EntryStat, Dated
<1>2. CallStat(c)'
    BY StatTypes DEF CallStat, Calm
<1>3. EntryStat(c)'
    BY DEF EntryStat, SameFile, Dated, Calm, Reading
<1>4. BackInv(c)'
    BY DEF BackInv, SameFile, Coming, Calm, Reading
<1>5. TextInv(c)'
    <2>1. Pending \/ Matches(entry)
        BY DEF TextInv, Calm, At
    <2>2. Matches(entry) => Matches(entry)'
        BY DEF Matches, Gone, SameFile
    <2> QED BY <2>1, <2>2 DEF TextInv, Calm
<1> QED BY <1>1, <1>2, <1>3, <1>4, <1>5, VaultStep

LEMMA EndsCalm ==
    ASSUME TypesInv, NEW c \in Callers, Ends(c)
    PROVE  call'[c].pc \in {"idle", "list"} /\ call'[c].stat = 0
BY DEF Ends, Moves, TypesInv, TypeOK, Idle

----------------------------------------------------------------------------
(* What the registry says, through the handlers *)

LEMMA ReadsVault ==
    ASSUME Alone, TypesInv, VaultInv, NEW c \in Callers, Reads(c)
    PROVE  VaultInv'
<1> USE DEF VaultInv
<1>1. /\ UNCHANGED <<text, stat, acts, listed, events, armed, unseen, phase, entry, saved>> /\ phase # "off"
      /\ call[c].pc = "read" /\ call[c] \in Calls
    BY TypesFacts DEF Reads, vault, watch, files, memory, At, CallFits
<1>2. SavedStat' /\ (Pending => Pending') /\ Coming' = Coming
    BY <1>1 DEF SavedStat, Dated, Pending, Coming
<1>3. TextInv(c) /\ CallStat(c) /\ EntryStat(c) /\ BackInv(c)
    BY <1>1
<1>4. CASE (text = NoText \/ ~ listed.there) /\ Ends(c)
    <2>1. call'[c].pc \in {"idle", "list"} /\ call'[c].stat = 0
        BY <1>4, EndsCalm
    <2>2. text # NoText => "create" \in Coming
        BY <1>1, <1>4, ListingTells
    <2>3. TextInv(c)'
        BY <1>1, <1>2, <1>3, <2>1, <2>2 DEF TextInv, Matches, Gone, Reading, Pending, At
    <2>4. CallStat(c)' /\ EntryStat(c)' /\ BackInv(c)'
        BY <1>1, <1>2, <1>3, <2>1, <2>2, StatTypes DEF CallStat, EntryStat, BackInv, Dated, Reading
    <2> QED BY <1>1, <1>2, <2>3, <2>4, VaultStep
<1>5. CASE Moves(c, [call[c] EXCEPT !.pc = "hash", !.text = text])
    <2>1. call'[c] = [call[c] EXCEPT !.pc = "hash", !.text = text]
        BY <1>5, Moved
    <2>2. call'[c].pc = "hash" /\ call'[c].text = text /\ call'[c].stat = call[c].stat /\ call'[c].had = call[c].had
        BY <1>1, <2>1 DEF Calls
    <2>3. TextInv(c)' /\ CallStat(c)' /\ EntryStat(c)' /\ BackInv(c)'
        BY <1>1, <1>2, <1>3, <2>2 DEF TextInv, CallStat, EntryStat, BackInv, Dated, Reading
    <2> QED BY <1>1, <1>2, <2>3, VaultStep
<1> QED BY <1>4, <1>5 DEF Reads

LEMMA RegistersVault ==
    ASSUME Alone, AllExcused, TypesInv, VaultInv, NEW c \in Callers, Registers(c), ~ Excepted'
    PROVE  VaultInv'
<1> USE DEF VaultInv
<1>1. /\ UNCHANGED <<text, stat, acts, listed, events, armed, unseen, phase, saved>> /\ phase # "off"
      /\ call[c].pc = "hash" /\ call[c] \in Calls /\ call[c].text \in Texts
      /\ entry' = registerFile(call[c].text, 0)
    BY TypesFacts DEF Registers, vault, watch, files, At, CallFits
<1>2. SavedStat' /\ (Pending => Pending') /\ Coming' = Coming
    BY <1>1 DEF SavedStat, Dated, Pending, Coming
<1>3. TextInv(c) /\ CallStat(c) /\ EntryStat(c)
    BY <1>1
<1>4. call'[c] = [call[c] EXCEPT !.pc = IF entry' = entry THEN "put" ELSE "save"]
    BY Moved DEF Registers
<1>5. call'[c].pc \in {"put", "save"} /\ call'[c].stat = call[c].stat
    BY <1>1, <1>4 DEF Calls
<1>6. entry'.text = call[c].text
    BY DEF Registers, AllExcused, Windows, Excepted
<1>7. entry'.deleted = FALSE /\ (entry' = entry \/ entry'.stat = 0)
    <2>1. 0 \in Nat
        OBVIOUS
    <2> QED BY <1>1, <2>1, Registered
<1>8. TextInv(c)'
    <2>1. Pending \/ call[c].text = text
        BY <1>1, <1>3 DEF TextInv, Reading
    <2>2. call[c].text # NoText
        BY <1>1, TextsAssumption
    <2>3. entry' # NoEntry
        <3>1. entry' \in Entries
            BY <1>1, EntryTypes DEF TypesInv
        <3> QED BY <3>1, NoEntryAssumption
    <2> QED BY <1>1, <1>2, <1>5, <1>6, <1>7, <2>1, <2>2, <2>3 DEF TextInv, Matches, Gone, Reading
<1>9. CallStat(c)'
    BY <1>1, <1>3, <1>5 DEF CallStat, Reading
<1>10. Dated(entry)'
    <2>1. CASE entry' = entry /\ entry # NoEntry
        BY <1>1, <1>3, <2>1 DEF EntryStat, Dated
    <2>2. CASE entry'.stat = 0
        <3>1. stat = 0 => call[c].stat = stat
            BY <1>1, <1>3, StatTypes DEF CallStat, ListedInv
        <3>2. stat = 0 => call[c].text = text
            BY <1>1, <1>3, <3>1 DEF CallStat, Reading
        <3> QED BY <1>1, <1>6, <2>2, <3>2, StatTypes DEF Dated
    <2>3. CASE entry' = NoEntry
        BY <1>1, <2>3, EntryTypes, NoEntryAssumption DEF TypesInv
    <2> QED BY <1>7, <2>1, <2>2, <2>3
<1>11. EntryStat(c)' /\ BackInv(c)'
    BY <1>5, <1>7, <1>10 DEF EntryStat, BackInv
<1> QED BY <1>1, <1>2, <1>8, <1>9, <1>11, VaultStep

LEMMA HashedVault ==
    ASSUME Alone, AllExcused, TypesInv, VaultInv, NEW c \in Callers, Hashed(c), ~ Excepted'
    PROVE  VaultInv'
<1> USE DEF VaultInv
<1>1. /\ UNCHANGED <<text, stat, acts, listed, events, armed, unseen, phase, entry, saved>> /\ phase # "off"
      /\ call[c].pc = "hash" /\ call[c] \in Calls /\ call[c].text \in Texts /\ call[c].had /\ entry # NoEntry
    BY TypesFacts DEF Hashed, vault, watch, files, memory, At, CallFits
<1>2. SavedStat' /\ (Pending => Pending') /\ Coming' = Coming
    BY <1>1 DEF SavedStat, Dated, Pending, Coming
<1>3. TextInv(c) /\ CallStat(c) /\ EntryStat(c) /\ BackInv(c)
    BY <1>1
<1>4. Pending \/ call[c].text = text
    BY <1>1, <1>3 DEF TextInv, Reading
<1>5. CASE call[c].text = entry.text /\ Ends(c)
    <2>1. call'[c].pc \in {"idle", "list"} /\ call'[c].stat = 0
        BY <1>5, EndsCalm
    <2>2. entry.deleted /\ text # NoText => unseen \/ "create" \in Coming
        BY <1>1, <1>3 DEF BackInv
    <2>3. Pending \/ Matches(entry)
        <3>1. call[c].text # NoText
            BY <1>1, TextsAssumption
        <3> QED BY <1>1, <1>4, <1>5, <2>2, <3>1 DEF Matches, Gone, Pending
    <2>4. Matches(entry) => Matches(entry)'
        BY <1>1 DEF Matches, Gone
    <2>5. TextInv(c)'
        BY <1>2, <2>1, <2>3, <2>4 DEF TextInv, Reading
    <2>6. CallStat(c)' /\ EntryStat(c)' /\ BackInv(c)'
        BY <1>1, <1>2, <1>3, <2>1, <2>2, StatTypes DEF CallStat, EntryStat, BackInv, Dated, Reading
    <2> QED BY <1>1, <1>2, <2>5, <2>6, VaultStep
<1>6. CASE call[c].text # entry.text /\ Moves(c, [call[c] EXCEPT !.pc = "stored", !.parents = HeadOf(entry)])
    <2>1. call'[c] = [call[c] EXCEPT !.pc = "stored", !.parents = HeadOf(entry)]
        BY <1>6, Moved
    <2>2. call'[c].pc = "stored" /\ call'[c].text = call[c].text /\ call'[c].stat = call[c].stat
        BY <1>1, <2>1 DEF Calls
    <2>3. ~ entry.deleted
        BY <1>6 DEF Hashed, AllExcused, Windows, Excepted
    <2>4. TextInv(c)'
        BY <1>1, <1>2, <1>4, <2>2 DEF TextInv, Reading
    <2>5. CallStat(c)' /\ EntryStat(c)' /\ BackInv(c)'
        BY <1>1, <1>3, <2>2, <2>3 DEF CallStat, EntryStat, BackInv, Dated, Reading
    <2> QED BY <1>1, <1>2, <2>4, <2>5, VaultStep
<1> QED BY <1>5, <1>6 DEF Hashed

\* An entry with the content that was read.
LEMMA TakesText ==
    ASSUME TypesInv, VaultInv, NEW c \in Callers, phase # "off", call[c].pc \in Reading, call[c].text \in Texts,
           UNCHANGED <<text, stat, listed>>, Pending => Pending',
           entry' \in Entries, entry'.text = call[c].text, ~ entry'.deleted,
           \/ entry'.stat = call[c].stat
           \/ entry # NoEntry /\ entry'.stat = entry.stat /\ call[c].pc \in {"hash", "stored"},
           call'[c].pc \in Calm, call'[c].stat = call[c].stat
    PROVE  CallStat(c)' /\ EntryStat(c)' /\ BackInv(c)' /\ TextInv(c)'
<1>1. TextInv(c) /\ CallStat(c) /\ EntryStat(c)
    BY DEF VaultInv
<1>2. Pending \/ call[c].text = text
    BY <1>1 DEF TextInv
<1>3. call[c].text # NoText /\ entry' # NoEntry
    BY TextsAssumption, NoEntryAssumption
<1>4. TextInv(c)'
    BY <1>2, <1>3 DEF TextInv, Matches, Gone, Calm
<1>5. Dated(entry)'
    BY <1>1 DEF EntryStat, CallStat, Dated
<1>6. EntryStat(c)' /\ BackInv(c)' /\ CallStat(c)'
    BY <1>1, <1>5 DEF EntryStat, BackInv, CallStat, Calm, Reading
<1> QED BY <1>4, <1>6

LEMMA UpdateVault ==
    ASSUME Alone, TypesInv, LineInv, VaultInv, NEW c \in Callers, updateContentHash(c)
    PROVE  VaultInv'
<1>1. /\ UNCHANGED <<text, stat, acts, listed, events, armed, unseen, phase, saved>> /\ phase # "off"
      /\ call[c].pc = "stored" /\ call[c] \in Calls /\ call[c].text \in Texts /\ entry # NoEntry /\ entry \in Entries
      /\ entry' = [entry EXCEPT !.text = call[c].text]
    BY TypesFacts DEF updateContentHash, vault, watch, files, At, CallFits, EntriesFit
<1>2. SavedStat' /\ (Pending => Pending')
    BY <1>1 DEF VaultInv, SavedStat, Dated, Pending, Coming
<1>3. call'[c] = [call[c] EXCEPT !.pc = "save"]
    BY Moved DEF updateContentHash
<1>4. call'[c].pc \in Calm /\ call'[c].stat = call[c].stat
    BY <1>1, <1>3 DEF Calls, Calm, PCs, Reading
<1>5. ~ entry.deleted
    BY <1>1 DEF LineInv, ParentsInv, At
<1>6. entry' \in Entries /\ entry'.text = call[c].text /\ entry'.stat = entry.stat /\ ~ entry'.deleted
    BY <1>1, <1>5 DEF Entries
<1>7. CallStat(c)' /\ EntryStat(c)' /\ BackInv(c)' /\ TextInv(c)'
    BY <1>1, <1>2, <1>4, <1>6, TakesText DEF Reading
<1> QED BY <1>1, <1>2, <1>7, VaultStep

LEMMA ExistsVault ==
    ASSUME Alone, TypesInv, VaultInv, NEW c \in Callers, Exists(c)
    PROVE  VaultInv'
<1> USE DEF VaultInv
<1>1. /\ UNCHANGED <<text, stat, acts, listed, events, armed, unseen, phase, saved>> /\ phase # "off"
      /\ call[c].pc = "exists" /\ call[c] \in Calls /\ entry # NoEntry /\ entry \in Entries
    BY TypesFacts DEF Exists, vault, watch, files, At, CallFits, EntriesFit
<1>2. SavedStat' /\ (Pending => Pending') /\ Coming' = Coming
    BY <1>1 DEF SavedStat, Dated, Pending, Coming
<1>3. TextInv(c) /\ CallStat(c) /\ EntryStat(c) /\ BackInv(c)
    BY <1>1
<1>4. CASE listed.there /\ entry' = entry /\ Moves(c, [call[c] EXCEPT !.pc = "read", !.had = TRUE])
    <2>1. call'[c] = [call[c] EXCEPT !.pc = "read", !.had = TRUE]
        BY <1>4, Moved
    <2>2. call'[c].pc = "read" /\ call'[c].stat = call[c].stat
        BY <1>1, <2>1 DEF Calls
    <2>3. Matches(entry) => Matches(entry)'
        BY <1>1, <1>4 DEF Matches, Gone
    <2>4. TextInv(c)'
        BY <1>1, <1>2, <1>3, <1>4, <2>2, <2>3 DEF TextInv, Reading, At
    <2>5. CallStat(c)' /\ EntryStat(c)' /\ BackInv(c)'
        BY <1>1, <1>2, <1>3, <1>4, <2>2 DEF CallStat, EntryStat, BackInv, Dated, Reading
    <2> QED BY <1>1, <1>2, <2>4, <2>5, VaultStep
<1>5. CASE ~ listed.there /\ Goes(c, "saveDeleted") /\ entry' = [entry EXCEPT !.deleted = TRUE]
    <2>1. call'[c] = [call[c] EXCEPT !.pc = "saveDeleted"]
        BY <1>5, Moved
    <2>2. call'[c].pc = "saveDeleted" /\ call'[c].stat = call[c].stat
        BY <1>1, <2>1 DEF Calls
    <2>3. entry'.deleted /\ entry'.stat = entry.stat /\ entry'.text = entry.text
        BY <1>1, <1>5 DEF Entries
    <2>4. text # NoText => "create" \in Coming
        BY <1>1, <1>5, ListingTells
    <2>5. TextInv(c)'
        BY <1>1, <1>2, <2>2, <2>3, <2>4 DEF TextInv, Reading, Matches, Gone, Pending
    <2>6. CallStat(c)' /\ EntryStat(c)' /\ BackInv(c)'
        BY <1>1, <1>2, <1>3, <1>5, <2>2, <2>3, <2>4 DEF CallStat, EntryStat, BackInv, Dated, Reading
    <2> QED BY <1>1, <1>2, <2>5, <2>6, VaultStep
<1> QED BY <1>4, <1>5 DEF Exists

\* The rest of a handler: saves and records.
LEMMA SavesVault ==
    ASSUME Alone, TypesInv, VaultInv, NEW c \in Callers, Saves(c) \/ SavesDeleted(c)
    PROVE  VaultInv'
<1>1. /\ UNCHANGED <<text, stat, acts, listed, events, armed, unseen, phase, entry>> /\ phase # "off"
      /\ call[c].pc \in Calm /\ call[c] \in Calls /\ saved' \in {saved, entry}
    BY TypesFacts DEF Saves, SavesDeleted, vault, watch, At, CallFits, Save, Calm, PCs, Reading
<1>2. Pending => Pending'
    BY <1>1 DEF Pending, Coming
<1>3. call'[c].pc \in Calm /\ call'[c].stat = call[c].stat
    <2>1. PICK i : Moves(c, [call[c] EXCEPT !.pc = "append", !.op = i]) \/ Goes(c, "rewrite")
        BY DEF Saves, SavesDeleted, Records
    <2>2. call'[c] = [call[c] EXCEPT !.pc = "append", !.op = i] \/ call'[c] = [call[c] EXCEPT !.pc = "rewrite"]
        BY <2>1, Moved
    <2> QED BY <1>1, <2>2 DEF Calls, Calm, PCs, Reading
<1> QED BY <1>1, <1>2, <1>3, CalmStep DEF SameFile

LEMMA AppendsVault ==
    ASSUME Alone, TypesInv, VaultInv, NEW c \in Callers, Appends(c)
    PROVE  VaultInv'
<1>1. /\ UNCHANGED <<text, stat, acts, listed, events, armed, unseen, phase, saved>> /\ phase # "off"
      /\ call[c].pc \in Calm /\ call[c] \in Calls /\ entry # NoEntry /\ entry' = [entry EXCEPT !.head = call[c].op]
      /\ call[c].op \in Nat /\ entry \in Entries
    BY TypesFacts DEF Appends, vault, watch, At, CallFits, Calm, PCs, Reading, EntriesFit
<1>2. Pending => Pending'
    BY <1>1 DEF Pending, Coming
<1>3. call'[c] = [call[c] EXCEPT !.pc = "head"]
    BY Moved DEF Appends
<1>4. call'[c].pc \in Calm /\ call'[c].stat = call[c].stat
    BY <1>1, <1>3 DEF Calls, Calm, PCs, Reading
<1>5. entry' # NoEntry
    BY <1>1, EntryTypes, NoEntryAssumption DEF TypesInv
<1>6. SameFile
    BY <1>1, <1>5 DEF SameFile, Entries
<1> QED BY <1>1, <1>2, <1>4, <1>6, CalmStep

LEMMA SavedVault ==
    ASSUME Alone, TypesInv, VaultInv, NEW c \in Callers, HeadSaved(c) \/ Rewrites(c)
    PROVE  VaultInv'
<1>1. /\ UNCHANGED <<text, stat, acts, listed, events, armed, unseen, phase, entry>> /\ phase # "off"
      /\ call[c].pc \in Calm /\ saved' \in {saved, entry} /\ Ends(c)
    BY TypesFacts DEF HeadSaved, Rewrites, vault, watch, memory, At, CallFits, Save, Calm, PCs, Reading
<1>2. Pending => Pending'
    BY <1>1 DEF Pending, Coming
<1>3. call'[c].pc \in Calm /\ call'[c].stat = 0
    BY <1>1, EndsCalm DEF Calm, PCs, Reading
<1> QED BY <1>1, <1>2, <1>3, CalmStep DEF SameFile

----------------------------------------------------------------------------
(* What the registry says, through the capture pass *)

LEMMA ListsVault ==
    ASSUME Alone, TypesInv, VaultInv, NEW c \in Callers, Lists(c)
    PROVE  VaultInv'
<1> USE DEF VaultInv
<1>1. /\ UNCHANGED <<text, stat, acts, listed, events, armed, phase, saved>> /\ phase # "off"
      /\ call[c].pc = "list" /\ call[c] \in Calls
    BY TypesFacts DEF Lists, vault, watch, files, At, CallFits
<1>2. SavedStat' /\ Coming' = Coming
    BY <1>1 DEF SavedStat, Dated, Coming
<1>3. TextInv(c) /\ CallStat(c) /\ EntryStat(c) /\ BackInv(c) /\ ListedInv
    BY <1>1
<1>4. /\ text # NoText /\ ~ listed.there => "create" \in Coming
      /\ text = NoText /\ listed.there => "delete" \in Coming
    BY <1>1, ListingTells
<1>5. PICK cold \in {FALSE, phase = "startup"} :
          /\ unseen' = (unseen /\ cold)
          /\ \/ /\ listed.there /\ ~ cold
                /\ Moves(c, [call[c] EXCEPT !.pc = "scan", !.stat = listed.stat, !.had = entry # NoEntry])
                /\ UNCHANGED entry
             \/ /\ ~ listed.there /\ ~ cold /\ entry # NoEntry /\ ~ entry.deleted
                /\ entry' = [entry EXCEPT !.deleted = TRUE, !.head = clock + 1]
                /\ Moves(c, [call[c] EXCEPT !.pc = "flush", !.changed = TRUE])
             \/ /\ ~ (listed.there /\ ~ cold /\ (entry = NoEntry \/ entry.stat # listed.stat))
                /\ ~ (~ listed.there /\ ~ cold /\ entry # NoEntry /\ ~ entry.deleted)
                /\ Goes(c, "flush") /\ UNCHANGED entry
    BY DEF Lists, Vanished
<1>6. CASE /\ listed.there
           /\ Moves(c, [call[c] EXCEPT !.pc = "scan", !.stat = listed.stat, !.had = entry # NoEntry])
           /\ UNCHANGED entry
    <2>1. call'[c] = [call[c] EXCEPT !.pc = "scan", !.stat = listed.stat, !.had = entry # NoEntry]
        BY <1>6, Moved
    <2>2. call'[c].pc = "scan" /\ call'[c].stat = listed.stat
        BY <1>1, <2>1 DEF Calls
    <2>3. TextInv(c)'
        BY <1>1, <1>2, <1>4, <1>6, <2>2 DEF TextInv, Reading, Pending
    <2>4. CallStat(c)' /\ EntryStat(c)' /\ BackInv(c)'
        BY <1>1, <1>3, <1>6, <2>2, StatTypes DEF CallStat, EntryStat, BackInv, Dated, Reading
    <2> QED BY <1>1, <1>2, <2>3, <2>4, VaultStep
<1>7. CASE /\ ~ listed.there /\ entry # NoEntry
           /\ entry' = [entry EXCEPT !.deleted = TRUE, !.head = clock + 1]
           /\ Moves(c, [call[c] EXCEPT !.pc = "flush", !.changed = TRUE])
    <2>1. call'[c] = [call[c] EXCEPT !.pc = "flush", !.changed = TRUE]
        BY <1>7, Moved
    <2>2. call'[c].pc = "flush" /\ call'[c].stat = call[c].stat
        BY <1>1, <2>1 DEF Calls
    <2>3. entry'.deleted /\ entry'.stat = entry.stat /\ entry'.text = entry.text
        BY <1>7, StatTypes DEF Entries
    <2>4. TextInv(c)'
        BY <1>1, <1>2, <1>4, <1>7, <2>2, <2>3 DEF TextInv, Reading, Pending, Matches, Gone
    <2>5. CallStat(c)' /\ EntryStat(c)' /\ BackInv(c)'
        BY <1>1, <1>2, <1>3, <1>4, <1>7, <2>2, <2>3 DEF CallStat, EntryStat, BackInv, Dated, Reading
    <2> QED BY <1>1, <1>2, <2>4, <2>5, VaultStep
<1>8. CASE /\ ~ (listed.there /\ ~ cold /\ (entry = NoEntry \/ entry.stat # listed.stat))
           /\ ~ (~ listed.there /\ ~ cold /\ entry # NoEntry /\ ~ entry.deleted)
           /\ Goes(c, "flush") /\ UNCHANGED entry
    <2>1. call'[c] = [call[c] EXCEPT !.pc = "flush"]
        BY <1>8, Moved
    <2>2. call'[c].pc = "flush" /\ call'[c].stat = call[c].stat
        BY <1>1, <2>1 DEF Calls
    <2>3. TextInv(c)' /\ BackInv(c)'
        <3>1. CASE cold
            <4>1. (unseen' <=> unseen) /\ (Pending => Pending') /\ (Matches(entry) => Matches(entry)')
                BY <1>1, <1>2, <1>5, <1>8, <3>1 DEF Pending, Matches, Gone
            <4>2. TextInv(c)'
                BY <1>1, <1>3, <2>2, <4>1 DEF TextInv, Reading, At
            <4>3. BackInv(c)'
                BY <1>1, <1>2, <1>3, <1>8, <2>2, <4>1 DEF BackInv
            <4> QED BY <4>2, <4>3
        <3>2. CASE ~ cold /\ listed.there
            <4>1. entry # NoEntry /\ entry.stat = listed.stat /\ ~ entry.deleted
                BY <1>3, <1>8, <3>2, StatTypes DEF EntryStat
            <4>2. listed.stat = stat => entry.text = text /\ text # NoText
                BY <1>3, <3>2, <4>1 DEF EntryStat, Dated, ListedInv
            <4>3. listed.stat # stat => Pending'
                BY <1>1, <1>2, <1>3 DEF ListedInv, Pending
            <4> QED BY <1>1, <1>8, <2>2, <4>1, <4>2, <4>3 DEF TextInv, BackInv, Matches, Gone, Reading
        <3>3. CASE ~ cold /\ ~ listed.there
            BY <1>1, <1>2, <1>4, <1>8, <2>2, <3>3 DEF TextInv, BackInv, Matches, Gone, Reading, Pending
        <3> QED BY <3>1, <3>2, <3>3
    <2>4. CallStat(c)' /\ EntryStat(c)'
        BY <1>1, <1>3, <1>8, <2>2 DEF CallStat, EntryStat, Dated, Reading
    <2> QED BY <1>1, <1>2, <2>3, <2>4, VaultStep
<1> QED BY <1>5, <1>6, <1>7, <1>8

LEMMA ScansVault ==
    ASSUME Alone, TypesInv, VaultInv, NEW c \in Callers, Scans(c)
    PROVE  VaultInv'
<1> USE DEF VaultInv
<1>1. /\ UNCHANGED <<text, stat, acts, listed, events, armed, unseen, phase, entry, saved>> /\ phase # "off"
      /\ call[c].pc = "scan" /\ call[c] \in Calls
    BY TypesFacts DEF Scans, vault, watch, files, memory, At, CallFits
<1>2. SavedStat' /\ (Pending => Pending') /\ Coming' = Coming
    BY <1>1 DEF SavedStat, Dated, Pending, Coming
<1>3. TextInv(c) /\ CallStat(c) /\ EntryStat(c) /\ BackInv(c)
    BY <1>1
<1>4. CASE (text = NoText \/ ~ listed.there) /\ Goes(c, "flush")
    <2>1. call'[c] = [call[c] EXCEPT !.pc = "flush"]
        BY <1>4, Moved
    <2>2. call'[c].pc = "flush" /\ call'[c].stat = call[c].stat
        BY <1>1, <2>1 DEF Calls
    <2>3. text # NoText => "create" \in Coming
        BY <1>1, <1>4, ListingTells
    <2>4. TextInv(c)'
        BY <1>1, <1>2, <1>3, <2>2, <2>3 DEF TextInv, Matches, Gone, Reading, Pending, At
    <2>5. CallStat(c)' /\ EntryStat(c)' /\ BackInv(c)'
        BY <1>1, <1>2, <1>3, <2>2, <2>3 DEF CallStat, EntryStat, BackInv, Dated, Reading
    <2> QED BY <1>1, <1>2, <2>4, <2>5, VaultStep
<1>5. CASE Moves(c, [call[c] EXCEPT !.pc = "drift", !.text = text])
    <2>1. call'[c] = [call[c] EXCEPT !.pc = "drift", !.text = text]
        BY <1>5, Moved
    <2>2. call'[c].pc = "drift" /\ call'[c].text = text /\ call'[c].stat = call[c].stat
        BY <1>1, <2>1 DEF Calls
    <2>3. TextInv(c)' /\ CallStat(c)' /\ EntryStat(c)' /\ BackInv(c)'
        BY <1>1, <1>2, <1>3, <2>2 DEF TextInv, CallStat, EntryStat, BackInv, Dated, Reading
    <2> QED BY <1>1, <1>2, <2>3, VaultStep
<1> QED BY <1>4, <1>5 DEF Scans

LEMMA DriftsVault ==
    ASSUME Alone, AllExcused, TypesInv, TellsInv, VaultInv, NEW c \in Callers, Drifts(c), ~ Excepted'
    PROVE  VaultInv'
<1>1. /\ UNCHANGED <<text, stat, acts, listed, events, armed, unseen, phase, saved>> /\ phase # "off"
      /\ call[c].pc = "drift" /\ call[c] \in Calls /\ call[c].text \in Texts /\ call[c].stat \in Nat
      /\ call[c].had = (entry # NoEntry)
    BY TypesFacts DEF Drifts, vault, watch, files, At, CallFits, TellsInv, TellInv, Calls
<1>2. SavedStat' /\ (Pending => Pending') /\ Coming' = Coming
    BY <1>1 DEF VaultInv, SavedStat, Dated, Pending, Coming
<1>3. TextInv(c) /\ CallStat(c) /\ EntryStat(c)
    BY <1>1 DEF VaultInv
<1>4. entry # NoEntry => ~ entry.deleted
    BY <1>1 DEF Drifts, AllExcused, Windows, Excepted
<1>5. CASE /\ call[c].had /\ entry.text = call[c].text /\ entry' = [entry EXCEPT !.stat = call[c].stat]
           /\ Goes(c, "flush")
    <2>1. call'[c] = [call[c] EXCEPT !.pc = "flush"]
        BY <1>5, Moved
    <2>2. call'[c].pc \in Calm /\ call'[c].stat = call[c].stat
        BY <1>1, <2>1 DEF Calls, Calm, PCs, Passes, Reading
    <2>3. entry \in Entries /\ ~ entry.deleted
        BY <1>1, <1>4, <1>5, StatTypes
    <2>4. entry' \in Entries /\ entry'.text = call[c].text /\ entry'.stat = call[c].stat /\ ~ entry'.deleted
        BY <1>1, <1>5, <2>3 DEF Entries
    <2>5. CallStat(c)' /\ EntryStat(c)' /\ BackInv(c)' /\ TextInv(c)'
        BY <1>1, <1>2, <2>2, <2>4, TakesText DEF Reading
    <2> QED BY <1>1, <1>2, <2>5, VaultStep
<1>6. CASE Goes(c, "captured") /\ UNCHANGED entry
    <2>1. call'[c] = [call[c] EXCEPT !.pc = "captured"]
        BY <1>6, Moved
    <2>2. call'[c].pc = "captured" /\ call'[c].text = call[c].text /\ call'[c].stat = call[c].stat
        BY <1>1, <2>1 DEF Calls
    <2>3. TextInv(c)' /\ CallStat(c)' /\ EntryStat(c)' /\ BackInv(c)'
        BY <1>1, <1>2, <1>3, <1>4, <1>6, <2>2 DEF TextInv, CallStat, EntryStat, BackInv, Dated, Reading
    <2> QED BY <1>1, <1>2, <2>3, VaultStep
<1> QED BY <1>5, <1>6 DEF Drifts

LEMMA CapturesVault ==
    ASSUME Alone, TypesInv, LineInv, TellsInv, VaultInv, NEW c \in Callers, Captures(c)
    PROVE  VaultInv'
<1> DEFINE had == call[c].had
           e == IF had THEN [entry EXCEPT !.text = call[c].text, !.stat = call[c].stat]
                ELSE registerFile(call[c].text, call[c].stat)
<1>1. /\ UNCHANGED <<text, stat, acts, listed, events, armed, unseen, phase, saved>> /\ phase # "off"
      /\ call[c].pc = "captured" /\ call[c] \in Calls /\ call[c].text \in Texts /\ call[c].stat \in Nat
      /\ had = (entry # NoEntry)
    BY TypesFacts DEF Captures, vault, watch, files, At, CallFits, TellsInv, TellInv, Calls
<1>2. SavedStat' /\ (Pending => Pending')
    BY <1>1 DEF VaultInv, SavedStat, Dated, Pending, Coming
<1>3. entry' = [e EXCEPT !.head = clock + 1] /\ clock + 1 \in Nat
    BY TypesFacts DEF Captures
<1>4. call'[c] = [call[c] EXCEPT !.pc = "flush", !.changed = TRUE]
    BY Moved DEF Captures
<1>5. call'[c].pc \in Calm /\ call'[c].stat = call[c].stat
    BY <1>1, <1>4 DEF Calls, Calm, PCs, Passes, Reading
<1>6. e \in Entries /\ e.text = call[c].text /\ e.stat = call[c].stat /\ e.deleted = FALSE
    <2>1. CASE had
        <3>1. entry \in Entries /\ entry.deleted = FALSE
            BY <1>1, <2>1, StatTypes DEF LineInv, ParentsInv, At
        <3>2. e = [entry EXCEPT !.text = call[c].text, !.stat = call[c].stat]
            BY <2>1
        <3> QED BY <1>1, <3>1, <3>2 DEF Entries
    <2>2. CASE ~ had
        <3>1. e = registerFile(call[c].text, call[c].stat) /\ e \in Entries
            BY <1>1, <2>2, EntryTypes DEF TypesInv
        <3>2. entry = NoEntry
            BY <1>1, <2>2
        <3> HIDE DEF e
        <3> QED BY <1>1, <3>1, <3>2, Registered, NoEntryAssumption
    <2> QED BY <2>1, <2>2
<1> HIDE DEF e, had
<1>7. entry' \in Entries /\ entry'.text = call[c].text /\ entry'.stat = call[c].stat /\ ~ entry'.deleted
    BY <1>3, <1>6 DEF Entries
<1>8. CallStat(c)' /\ EntryStat(c)' /\ BackInv(c)' /\ TextInv(c)'
    BY <1>1, <1>2, <1>5, <1>7, TakesText DEF Reading
<1> QED BY <1>1, <1>2, <1>8, VaultStep

LEMMA FlushesVault ==
    ASSUME Alone, TypesInv, VaultInv, NEW c \in Callers, Flushes(c)
    PROVE  VaultInv'
<1>1. /\ UNCHANGED <<text, stat, acts, listed, events, armed, unseen, phase, entry>> /\ phase # "off"
      /\ call[c].pc \in Calm /\ call[c] \in Calls /\ saved' = entry
    BY TypesFacts DEF Flushes, vault, watch, memory, At, CallFits, Calm, PCs, Passes, Reading
<1>2. Pending => Pending'
    BY <1>1 DEF Pending, Coming
<1>3. call'[c] = [call[c] EXCEPT !.pc = "log"]
    BY Moved DEF Flushes
<1>4. call'[c].pc \in Calm /\ call'[c].stat = call[c].stat
    BY <1>1, <1>3 DEF Calls, Calm, PCs, Passes, Reading
<1> QED BY <1>1, <1>2, <1>4, CalmStep DEF SameFile

LEMMA LogsVault ==
    ASSUME Alone, TypesInv, VaultInv, NEW c \in Callers, Logs(c)
    PROVE  VaultInv'
<1>1. /\ UNCHANGED <<text, stat, acts, listed, events, armed, unseen, entry, saved>>
      /\ phase # "off" /\ phase' # "off" /\ call[c].pc \in Calm
    BY TypesFacts DEF Logs, vault, At, CallFits, Calm, PCs, Passes, Reading
<1>2. Pending => Pending'
    BY <1>1 DEF Pending, Coming
<1>3. call'[c].pc \in Calm /\ call'[c].stat = 0
    <2> DEFINE again  == [Idle EXCEPT !.pc = "list", !.job = "startup", !.again = TRUE]
               pushes == [Idle EXCEPT !.pc = "push", !.job = "round"]
    <2>1. /\ again.pc = "list" /\ Idle.pc = "idle" /\ pushes.pc = "push"
          /\ again.stat = 0 /\ Idle.stat = 0 /\ pushes.stat = 0
        BY DEF Idle
    <2>2. Moves(c, again) \/ Moves(c, Idle) \/ Moves(c, pushes)
        BY DEF Logs
    <2> HIDE DEF again, pushes
    <2>3. call'[c] = again \/ call'[c] = Idle \/ call'[c] = pushes
        BY <2>2, Moved
    <2> QED BY <2>1, <2>3 DEF Calm, PCs, Reading
<1> QED BY <1>1, <1>2, <1>3, CalmStep DEF SameFile

----------------------------------------------------------------------------
(* What the registry says, through rounds, deliveries, changes and crashes *)

LEMMA RoundVault ==
    ASSUME Alone, TypesInv, VaultInv, NEW c \in Callers,
           Push(c) \/ RoundFails(c) \/ StopsListening(c) \/ RoundEnds(c)
    PROVE  VaultInv'
<1>1. /\ UNCHANGED <<text, stat, acts, listed, events, entry, saved>> /\ phase # "off" /\ phase' # "off"
      /\ call[c].pc \in Calm /\ call[c] \in Calls /\ (unseen => unseen')
      /\ (armed => armed' \/ unseen')
    <2>1. call[c].pc \in {"push", "clear", "apply"} /\ call[c] \in Calls /\ phase # "off"
        BY TypesFacts DEF Push, RoundFails, StopsListening, RoundEnds, At, CallFits
    <2>2. /\ UNCHANGED <<text, stat, acts, listed, events, entry, saved>> /\ phase' # "off"
          /\ (unseen => unseen') /\ (armed => armed' \/ unseen')
        <3>1. CASE Push(c) \/ RoundFails(c)
            BY <2>1, <3>1 DEF Push, RoundFails, vault, watch, files, memory
        <3>2. CASE RoundEnds(c)
            BY <3>2 DEF RoundEnds, vault, files, memory
        <3>3. CASE StopsListening(c)
            <4>1. unseen' = (unseen \/ armed)
                BY <3>3 DEF StopsListening
            <4>2. (unseen => unseen') /\ (armed => unseen')
                BY <4>1, Zenon
            <4> QED BY <3>3, <4>2 DEF StopsListening, vault, memory
        <3> QED BY <3>1, <3>2, <3>3
    <2> QED BY <2>1, <2>2 DEF Calm, PCs, Reading
<1>2. Pending => Pending'
    BY <1>1 DEF Pending, Coming
<1>3. call'[c].pc \in Calm /\ call'[c].stat \in {0, call[c].stat}
    <2>1. \/ call'[c] = [call[c] EXCEPT !.pc = "clear"]
          \/ call'[c] = [call[c] EXCEPT !.pc = "apply"]
          \/ call'[c] = Idle
        BY Moved DEF Push, RoundFails, StopsListening, RoundEnds
    <2>2. Idle.pc = "idle" /\ Idle.stat = 0
        BY DEF Idle
    <2> QED BY <1>1, <2>1, <2>2 DEF Calls, Calm, PCs, Reading
<1> QED BY <1>1, <1>2, <1>3, CalmStep DEF SameFile

\* A handler that begins to read the file.
LEMMA ReadingBegins ==
    ASSUME Alone, TypesInv, VaultInv, NEW c \in Callers, NEW j, call[c].pc = "idle",
           Modify(c, j), UNCHANGED <<text, stat, acts, listed, events, unseen, phase, entry, saved>>, phase # "off"
    PROVE  VaultInv'
<1> USE DEF VaultInv
<1>1. call'[c] = [Idle EXCEPT !.pc = "read", !.job = j, !.had = entry # NoEntry]
    BY Moved DEF Modify
<1>2. call'[c].pc = "read" /\ call'[c].stat = 0
    BY <1>1 DEF Idle
<1>3. TextInv(c) /\ CallStat(c) /\ EntryStat(c) /\ BackInv(c)
    OBVIOUS
<1>4. SavedStat' /\ Coming' = Coming
    BY DEF SavedStat, Dated, Coming
<1>5. TextInv(c)'
    BY <1>2, <1>3, <1>4 DEF TextInv, Pending, Matches, Gone, Reading, At
<1>6. CallStat(c)' /\ EntryStat(c)' /\ BackInv(c)'
    BY <1>2, <1>3, <1>4, StatTypes DEF CallStat, EntryStat, BackInv, Dated, Reading
<1> QED BY <1>4, <1>5, <1>6, VaultStep

LEMMA BeginsVault ==
    ASSUME Alone, TypesInv, VaultInv, NEW c \in Callers, DebounceFires(c) \/ BeginRound(c)
    PROVE  VaultInv'
<1>1. /\ UNCHANGED <<text, stat, acts, listed, events, unseen, phase, entry, saved>> /\ phase # "off"
      /\ call[c].pc = "idle" /\ call[c] \in Calls
    BY TypesFacts DEF DebounceFires, BeginRound, vault, files, memory, At
<1>2. ASSUME NEW j, Modify(c, j) PROVE VaultInv'
    BY <1>1, <1>2, ReadingBegins
<1>3. CASE ~ armed /\ armed' = FALSE /\ Moves(c, [Idle EXCEPT !.pc = "list", !.job = "round"])
    <2>1. call'[c] = [Idle EXCEPT !.pc = "list", !.job = "round"]
        BY <1>3, Moved
    <2>2. call'[c].pc \in Calm /\ call'[c].stat = 0 /\ call[c].pc \in Calm
        BY <1>1, <2>1 DEF Idle, Calm, PCs, Reading
    <2>3. Pending => Pending'
        BY <1>1, <1>3 DEF Pending, Coming
    <2> QED BY <1>1, <2>2, <2>3, CalmStep DEF SameFile
<1> QED BY <1>2, <1>3 DEF DebounceFires, BeginRound

\* A delivery takes out no other event.
LEMMA DeliveryKeeps ==
    ASSUME TypesInv, NEW k, Delivered(k)
    PROVE  \A e \in Coming : e # events[k] => e \in Coming'
<1> DEFINE E == {"create", "modify", "delete"}
<1>1. events \in Seq(E) /\ k \in 1..Len(events) /\ Len(events) \in Nat
    BY TypesFacts DEF Delivered, Rest
<1> DEFINE a == SubSeq(events, 1, k - 1)
           b == SubSeq(events, k + 1, Len(events))
<1>2. /\ a \in Seq(E) /\ Len(a) = k - 1 /\ \A i \in 1..k - 1 : a[i] = events[i]
      /\ b \in Seq(E) /\ Len(b) = Len(events) - k /\ \A i \in 1..Len(events) - k : b[i] = events[i + k]
    <2>1. a \in Seq(E) /\ b \in Seq(E)
        BY <1>1, SubSeqProperties
    <2>2. Len(a) = k - 1 /\ \A i \in 1..k - 1 : a[i] = events[i]
        BY <1>1
    <2>3. Len(b) = Len(events) - k /\ \A i \in 1..Len(events) - k : b[i] = events[i + k]
        BY <1>1
    <2> QED BY <2>1, <2>2, <2>3
<1>3. events' = a \o b
    BY DEF Delivered, RemoveAt
<1> HIDE DEF a, b
<1>4. /\ Len(events') = Len(events) - 1 /\ events' \in Seq(E)
      /\ \A i \in 1..Len(events) - 1 : events'[i] = IF i <= k - 1 THEN a[i] ELSE b[i - (k - 1)]
    <2>1. /\ a \o b \in Seq(E) /\ Len(a \o b) = Len(a) + Len(b)
          /\ \A i \in 1..Len(a) + Len(b) : (a \o b)[i] = IF i <= Len(a) THEN a[i] ELSE b[i - Len(a)]
        BY <1>2, ConcatProperties
    <2>2. Len(a) + Len(b) = Len(events) - 1
        BY <1>1, <1>2
    <2> QED BY <1>2, <1>3, <2>1, <2>2
<1>5. ASSUME NEW i \in 1..Len(events), i # k
      PROVE  \E m \in 1..Len(events) - 1 : events'[m] = events[i]
    <2>1. CASE i < k
        <3>1. i \in 1..Len(events) - 1 /\ i <= k - 1 /\ i \in 1..k - 1
            BY <1>1, <2>1
        <3>2. events'[i] = events[i]
            BY <1>2, <1>4, <3>1
        <3> QED BY <3>1, <3>2
    <2>2. CASE i > k
        <3>1. /\ i - 1 \in 1..Len(events) - 1 /\ ~ (i - 1 <= k - 1) /\ i - k \in 1..Len(events) - k
              /\ i - 1 - (k - 1) = i - k /\ i - k + k = i
            BY <1>1, <2>2
        <3>2. events'[i - 1] = b[i - 1 - (k - 1)] /\ b[i - k] = events[i - k + k]
            BY <1>2, <1>4, <3>1
        <3>3. events'[i - 1] = events[i]
            BY <3>1, <3>2
        <3> QED BY <3>1, <3>3
    <2> QED BY <1>1, <1>5, <2>1, <2>2
<1>6. Coming = {events[i] : i \in 1..Len(events)} /\ Coming' = {events'[i] : i \in 1..Len(events) - 1}
    <2>1. DOMAIN events = 1..Len(events) /\ DOMAIN events' = 1..Len(events) - 1
        BY <1>1, <1>4
    <2> QED BY <2>1 DEF Coming, ToSet
<1> QED BY <1>5, <1>6

\* What a delivery does to the listing, and what it leaves of the dates.
LEMMA DeliveredVault ==
    ASSUME TypesInv, VaultInv, NEW k, Delivered(k), UNCHANGED <<text, stat, acts, phase, entry, saved>>, phase # "off"
    PROVE  /\ ListedInv' /\ OffInv' /\ SavedStat' /\ listed'.there = (text # NoText)
           /\ \A c \in Callers : (call'[c].pc \notin Reading /\ call'[c].stat = 0) \/ call'[c] = call[c] =>
                  CallStat(c)' /\ EntryStat(c)'
<1> USE DEF VaultInv
<1>1. listed'.there = (text # NoText) /\ listed'.stat = stat /\ listed.stat <= stat
    BY DEF Delivered, OnDisk, ListedInv
<1>2. ListedInv'
    BY <1>1, StatTypes DEF ListedInv
<1>3. SavedStat' /\ OffInv'
    BY <1>1, StatTypes DEF SavedStat, Dated, OffInv
<1>4. ASSUME NEW c \in Callers, (call'[c].pc \notin Reading /\ call'[c].stat = 0) \/ call'[c] = call[c]
      PROVE  CallStat(c)' /\ EntryStat(c)'
    <2>1. CallStat(c)'
        BY <1>1, <1>4, StatTypes DEF CallStat
    <2>2. entry # NoEntry => Dated(entry)'
        BY <1>1, StatTypes DEF EntryStat, Dated
    <2>3. entry # NoEntry /\ entry.deleted /\ text # NoText => entry.stat < stat
        <3> SUFFICES ASSUME entry # NoEntry, entry.deleted, text # NoText, entry.stat = stat PROVE FALSE
            BY <1>1, StatTypes DEF EntryStat, Dated
        <3>1. listed.stat = stat
            BY <1>1, StatTypes DEF EntryStat, Dated
        <3>2. listed.there
            BY <3>1 DEF ListedInv
        <3> QED BY <3>1, <3>2, StatTypes DEF EntryStat
    <2>4. EntryStat(c)'
        BY <1>1, <1>4, <2>2, <2>3 DEF EntryStat, Reading
    <2> QED BY <2>1, <2>4
<1> QED BY <1>1, <1>2, <1>3, <1>4

\* A handler begins with an event.
LEMMA HandlerVault ==
    ASSUME Alone, TypesInv, VaultInv, NEW k, NEW c \in Callers, handleCreate(c, k) \/ handleDelete(c, k)
    PROVE  VaultInv'
<1> USE DEF VaultInv
<1>1. /\ Delivered(k) /\ UNCHANGED <<text, stat, acts, phase, entry, saved, armed, unseen>> /\ phase # "off"
      /\ call[c].pc = "idle"
    BY DEF handleCreate, handleDelete, vault, files, memory, At
<1>2. \A e \in Coming : e # events[k] => e \in Coming'
    BY <1>1, DeliveryKeeps
<1>3. TextInv(c) /\ BackInv(c)
    BY <1>1
<1>4. Pending \/ Matches(entry)
    BY <1>1, <1>3 DEF TextInv, Reading, At
<1>5. Matches(entry) => Matches(entry)'
    BY <1>1 DEF Matches, Gone
<1>6. ListedInv' /\ OffInv' /\ SavedStat' /\ listed'.there = (text # NoText)
    BY <1>1, DeliveredVault
<1>7. CASE events[k] = "create" /\ Moves(c, [Idle EXCEPT !.pc = "read", !.job = "live"])
    <2>1. call'[c] = [Idle EXCEPT !.pc = "read", !.job = "live"]
        BY <1>7, Moved
    <2>2. call'[c].pc = "read" /\ call'[c].stat = 0 /\ ~ call'[c].had
        BY <2>1 DEF Idle
    <2>3. TextInv(c)'
        BY <1>1, <1>2, <1>4, <1>5, <1>7, <2>2 DEF TextInv, Pending, Reading, At
    <2>4. BackInv(c)'
        BY <2>2 DEF BackInv
    <2>5. CallStat(c)' /\ EntryStat(c)'
        BY <1>1, <2>2, DeliveredVault DEF Reading
    <2> QED BY <1>6, <2>3, <2>4, <2>5 DEF Alone
<1>8. CASE events[k] = "delete" /\ entry = NoEntry /\ UNCHANGED call
    <2>1. TextInv(c)'
        BY <1>1, <1>2, <1>4, <1>5, <1>8 DEF TextInv, Pending, Reading, Matches, Gone, At
    <2>2. BackInv(c)'
        BY <1>1, <1>8 DEF BackInv
    <2>3. CallStat(c)' /\ EntryStat(c)'
        BY <1>1, <1>8, DeliveredVault
    <2> QED BY <1>6, <2>1, <2>2, <2>3 DEF Alone
<1>9. CASE events[k] = "delete" /\ Moves(c, [Idle EXCEPT !.pc = "exists", !.job = "live"])
    <2>1. call'[c] = [Idle EXCEPT !.pc = "exists", !.job = "live"]
        BY <1>9, Moved
    <2>2. call'[c].pc = "exists" /\ call'[c].stat = 0
        BY <2>1 DEF Idle
    <2>3. TextInv(c)'
        BY <1>1, <1>2, <1>4, <1>5, <1>6, <1>9, <2>2 DEF TextInv, Pending, Reading, At
    <2>4. BackInv(c)'
        BY <1>1, <1>2, <1>3, <1>9 DEF BackInv
    <2>5. CallStat(c)' /\ EntryStat(c)'
        BY <1>1, <2>2, DeliveredVault DEF Reading
    <2> QED BY <1>6, <2>3, <2>4, <2>5 DEF Alone
<1> QED BY <1>7, <1>8, <1>9 DEF handleCreate, handleDelete

LEMMA DeliversVault ==
    ASSUME Alone, TypesInv, VaultInv, Delivers
    PROVE  VaultInv'
<1>1. PICK k \in DOMAIN events :
          \/ handleModify(k)
          \/ Unheard(k)
          \/ \E c \in Callers : handleCreate(c, k) \/ handleDelete(c, k)
    BY DEF Delivers
<1>2. CASE handleModify(k) \/ Unheard(k)
    <2>1. /\ Delivered(k) /\ UNCHANGED <<text, stat, acts, phase, entry, saved, call>> /\ phase # "off"
          /\ (unseen => unseen') /\ (armed => armed')
          /\ unseen' \/ (armed' /\ events[k] = "modify")
        BY <1>2 DEF handleModify, Unheard, vault, files, memory
    <2>2. \A e \in Coming : e # events[k] => e \in Coming'
        BY <2>1, DeliveryKeeps
    <2>3. ListedInv' /\ OffInv' /\ SavedStat' /\ listed'.there = (text # NoText)
        BY <2>1, DeliveredVault DEF VaultInv
    <2>4. ASSUME NEW c \in Callers PROVE CallStat(c)' /\ EntryStat(c)' /\ BackInv(c)' /\ TextInv(c)'
        <3>1. TextInv(c) /\ BackInv(c)
            BY <2>1 DEF VaultInv
        <3>2. TextInv(c)'
            BY <2>1, <2>2, <2>3, <3>1 DEF TextInv, Pending, Matches, Gone, At
        <3>3. BackInv(c)'
            BY <2>1, <2>2, <3>1 DEF BackInv
        <3> QED BY <2>1, <3>2, <3>3, DeliveredVault
    <2> QED BY <2>3, <2>4 DEF VaultInv
<1>3. ASSUME NEW c \in Callers, handleCreate(c, k) \/ handleDelete(c, k) PROVE VaultInv'
    BY <1>3, HandlerVault
<1> QED BY <1>1, <1>2, <1>3

\* A change is told by an event, or nobody saw it.
LEMMA ChangeVault ==
    ASSUME TypesInv, VaultInv, NEW t \in Texts \cup {NoText}, Change(t)
    PROVE  VaultInv'
<1> USE DEF VaultInv
<1>1. /\ text' = t /\ t # text /\ acts' = acts + 1 /\ stat' = acts + 1 /\ stat = acts /\ listed.stat <= stat
      /\ UNCHANGED <<phase, armed, listed, entry, saved, call>>
    BY DEF Change, files, memory, ListedInv
<1>2. listed.stat < stat' /\ stat' # listed.stat
    BY <1>1, StatTypes
<1>3. CASE phase = "off"
    <2>1. unseen' /\ events' = events
        BY <1>3 DEF Change
    <2>2. ListedInv' /\ OffInv'
        BY <1>1, <1>2, <1>3, <2>1, StatTypes DEF ListedInv, OffInv
    <2>3. SavedStat' /\ \A c \in Callers : CallStat(c)' /\ EntryStat(c)' /\ BackInv(c)'
        BY <1>1, <1>2, <2>1, StatTypes DEF SavedStat, CallStat, EntryStat, BackInv, Dated
    <2> QED BY <1>1, <1>3, <2>2, <2>3
<1>4. CASE phase # "off"
    <2>1. PICK e \in {"create", "modify", "delete"} :
              /\ events' = Append(events, e)
              /\ e = CASE t = NoText -> "delete"
                       [] t # NoText /\ text = NoText -> "create"
                       [] OTHER -> "modify"
        BY <1>4 DEF Change
    <2>2. Coming' = Coming \cup {e}
        <3>1. events \in Seq({"create", "modify", "delete"})
            BY TypesFacts DEF Rest
        <3>2. DOMAIN events = 1..Len(events) /\ DOMAIN events' = 1..Len(events) + 1
            BY <2>1, <3>1
        <3>3. Len(events) \in Nat /\ events'[Len(events) + 1] = e /\ \A i \in 1..Len(events) : events'[i] = events[i]
            BY <2>1, <3>1
        <3>4. 1..Len(events) + 1 = (1..Len(events)) \cup {Len(events) + 1}
            BY <3>3
        <3> QED BY <3>2, <3>3, <3>4 DEF Coming, ToSet
    <2>3. /\ t = NoText => e = "delete"
          /\ t # NoText /\ text = NoText => e = "create"
          /\ t # NoText /\ text # NoText => e = "modify"
        BY <2>1
    <2>4. Pending'
        BY <1>1, <2>2, <2>3 DEF Pending
    <2>5. text # NoText => listed.there \/ "create" \in Coming
        BY <1>4, ListingTells
    <2>6. ListedInv'
        BY <1>1, <1>2, <2>2, <2>3, <2>5, StatTypes DEF ListedInv
    <2>7. unseen' = unseen
        BY <1>4 DEF Change
    <2>8. SavedStat' /\ \A c \in Callers : CallStat(c)' /\ EntryStat(c)' /\ BackInv(c)' /\ TextInv(c)'
        BY <1>1, <1>2, <2>2, <2>3, <2>4, <2>7, StatTypes
        DEF SavedStat, CallStat, EntryStat, BackInv, Dated, TextInv
    <2> QED BY <1>1, <1>4, <2>6, <2>8 DEF OffInv
<1> QED BY <1>3, <1>4

\* Nothing was under way, and the entry on disk is that in memory.
LEMMA CrashVault ==
    ASSUME TypesInv, TellsInv, VaultInv, Crash
    PROVE  VaultInv'
<1> USE DEF VaultInv
<1>1. /\ UNCHANGED <<text, stat, acts, listed, saved>> /\ phase # "off" /\ phase' = "off"
      /\ events' = <<>> /\ ~ armed' /\ entry' = NoEntry /\ unseen' = (unseen \/ events # <<>> \/ armed \/ ~ AllIdle)
      /\ \A c \in Callers : call'[c] = Idle
    BY DEF Crash, vault, files
<1>2. SavedStat' /\ ListedInv'
    BY <1>1 DEF SavedStat, Dated, ListedInv
<1>3. unseen' \/ Matches(saved)'
    <2> SUFFICES ASSUME ~ unseen, events = <<>>, ~ armed, AllIdle PROVE Matches(saved)'
        BY <1>1
    <2>1. PICK c \in Callers : call[c].pc = "idle"
        BY <1>1 DEF OffInv, AllIdle, At
    <2>2. ~ Pending
        BY DEF Pending, Coming, ToSet
    <2>3. Matches(entry)
        BY <1>1, <2>1, <2>2 DEF TextInv, Reading, At
    <2>4. saved = entry \/ (entry = NoEntry /\ saved # NoEntry /\ saved.deleted)
        BY <1>1, <2>1 DEF TellsInv, Settled
    <2> QED BY <1>1, <2>3, <2>4 DEF Matches, Gone
<1>4. OffInv'
    BY <1>1, <1>3 DEF OffInv
<1>5. ASSUME NEW c \in Callers PROVE CallStat(c)' /\ EntryStat(c)' /\ BackInv(c)'
    <2>1. call'[c].pc = "idle" /\ call'[c].stat = 0
        BY <1>1 DEF Idle
    <2> QED BY <1>1, <2>1, StatTypes DEF CallStat, EntryStat, BackInv, Reading
<1> QED BY <1>1, <1>2, <1>4, <1>5

LEMMA StartVault ==
    ASSUME Alone, TypesInv, VaultInv, NEW c \in Callers, Start(c)
    PROVE  VaultInv'
<1> USE DEF VaultInv
<1>1. /\ UNCHANGED <<text, stat, acts, saved, events, armed, unseen>> /\ phase = "off" /\ phase' # "off"
      /\ listed'.there = (text # NoText) /\ listed'.stat = stat
      /\ entry' = IF saved = NoEntry \/ saved.deleted THEN NoEntry ELSE saved
    BY DEF Start, vault, files, OnDisk
<1>2. call'[c] = [Idle EXCEPT !.pc = "list", !.job = "startup"]
    BY Moved DEF Start
<1>3. call'[c].pc = "list" /\ call'[c].stat = 0
    BY <1>2 DEF Idle
<1>4. ListedInv' /\ OffInv'
    BY <1>1, StatTypes DEF ListedInv, OffInv
<1>5. SavedStat'
    BY <1>1, StatTypes DEF SavedStat, Dated, ListedInv
<1>6. CallStat(c)' /\ EntryStat(c)' /\ BackInv(c)'
    BY <1>1, <1>3, <1>5, StatTypes DEF CallStat, EntryStat, BackInv, SavedStat, Dated, Reading
<1>7. TextInv(c)'
    <2>1. unseen \/ Matches(saved)
        BY <1>1 DEF OffInv
    <2>2. Matches(saved) => Matches(entry)'
        BY <1>1 DEF Matches, Gone
    <2> QED BY <1>1, <1>3, <2>1, <2>2 DEF TextInv, Pending, Reading
<1> QED BY <1>4, <1>5, <1>6, <1>7 DEF Alone

LEMMA InitVault == Init => VaultInv
<1> SUFFICES ASSUME Init PROVE VaultInv
    OBVIOUS
<1>1. /\ stat = 0 /\ acts = 0 /\ listed.stat = 0 /\ listed.there = (text # NoText) /\ phase = "off"
      /\ events = <<>> /\ ~ armed /\ unseen /\ entry = NoEntry /\ saved = NoEntry
    BY DEF Init, OnDisk
<1>2. \A c \in Callers : call[c].pc = "idle" /\ call[c].stat = 0
    BY DEF Init, Idle
<1> QED BY <1>1, <1>2 DEF VaultInv, ListedInv, OffInv, SavedStat, CallStat, EntryStat, BackInv, Reading

LEMMA VaultUnchanged ==
    ASSUME VaultInv, UNCHANGED vars
    PROVE  VaultInv'
BY DEF vars, vault, watch, files, memory, VaultInv, ListedInv, OffInv, SavedStat, CallStat, EntryStat, BackInv,
       TextInv, Dated, Matches, Gone, Pending, Coming, At

LEMMA VaultHolds ==
    ASSUME Alone, AllExcused, TypesInv, LineInv, TellsInv, VaultInv, [Next]_vars, ~ Excepted'
    PROVE  VaultInv'
<1>1. ASSUME NEW t \in Texts \cup {NoText}, Change(t) PROVE VaultInv'
    BY <1>1, ChangeVault
<1>2. CASE Delivers
    BY <1>2, DeliversVault
<1>3. ASSUME NEW c \in Callers, Step(c) PROVE VaultInv'
    BY <1>3, ReadsVault, RegistersVault, HashedVault, UpdateVault, ExistsVault, SavesVault,
       AppendsVault, SavedVault, ListsVault, ScansVault, DriftsVault,
       CapturesVault, FlushesVault, LogsVault, RoundVault DEF Step
<1>4. ASSUME NEW c \in Callers, DebounceFires(c) \/ BeginRound(c) \/ RoundFails(c) \/ Start(c) PROVE VaultInv'
    BY <1>4, BeginsVault, RoundVault, StartVault
<1>5. CASE Crash
    BY <1>5, CrashVault
<1>6. CASE UNCHANGED vars
    BY <1>6, VaultUnchanged
<1> QED BY <1>1, <1>2, <1>3, <1>4, <1>5, <1>6 DEF Next

----------------------------------------------------------------------------
(* The theorem *)

\* At rest nothing leads to a capture any more, so the entry is that of the file, and the
\* ops tell of the entry.
LEMMA RestIsTold ==
    ASSUME TypesInv, TellsInv, VaultInv, Quiet
    PROVE  Told(server \cup ops)
<1>1. PICK c \in Callers : call[c].pc = "idle"
    BY DEF VaultInv, OffInv, Quiet, AllIdle, At
<1>2. ~ Pending
    BY DEF Pending, Coming, ToSet, Quiet
<1>3. Matches(entry)
    BY <1>1, <1>2 DEF VaultInv, TextInv, Reading, At, Quiet
<1>4. Tells(entry, entry.head, Pushed)
    BY <1>1 DEF TellsInv, TellInv, Untold, Quiet
<1>5. CASE text = NoText /\ Gone(entry)
    BY <1>4, <1>5 DEF Told, Tells, Gone, Pushed
<1>6. CASE ~ Gone(entry) /\ entry.text = text /\ text # NoText
    <2>1. PICK o \in Pushed : Live(Pushed) = {o} /\ o.id = entry.head /\ o.file = entry.file /\ o.text = entry.text
        BY <1>4, <1>6 DEF Tells
    <2>2. {<<p.id, p.file, p.text>> : p \in Live(Pushed)} = {<<entry.head, entry.file, text>>}
        BY <1>6, <2>1
    <2> QED BY <1>6, <2>2 DEF Told, Gone, Pushed
<1>7. ~ Gone(entry) => entry.text # NoText
    BY StatTypes, TextsAssumption DEF Gone, Entries
<1> QED BY <1>3, <1>5, <1>6, <1>7 DEF Matches

\* As long as no two calls overlap, and until one of the six windows is met: at every rest
\* the ops of the device tell of the file what is in the vault, and so does the registry,
\* whatever the user did, in whatever order the watcher delivered it, and wherever a crash
\* or a failed round fell (handleCreate, flushModify, handleDelete, captureOfflineChanges).
THEOREM QuietTextIsToldHolds == Spec /\ Alone /\ AllExcused => []QuietTextIsTold
<1> SUFFICES ASSUME Alone, AllExcused PROVE Spec => []QuietTextIsTold
    OBVIOUS
<1> DEFINE IInv == ~ Excepted => LineInv /\ TellsInv /\ VaultInv
<1>1. Excuses
    BY DEF AllExcused, Windows, Excuses
<1>2. Init => IInv
    BY InitLine, InitTells, InitVault
<1>3. TypesInv /\ IInv /\ [Next]_vars => IInv'
    <2> SUFFICES ASSUME TypesInv, IInv, [Next]_vars, ~ Excepted' PROVE (LineInv /\ TellsInv /\ VaultInv)'
        OBVIOUS
    <2>1. ~ Excepted
        BY SlipsGrow DEF Excepted
    <2>2. LineInv'
        BY <1>1, <2>1, LineHolds
    <2>3. TellsInv'
        BY <2>1, TellsHold
    <2>4. VaultInv'
        BY <2>1, VaultHolds
    <2> QED BY <2>2, <2>3, <2>4
<1>4. TypesInv /\ IInv => QuietTextIsTold
    BY RestIsTold DEF QuietTextIsTold
<1> HIDE DEF IInv
<1> QED BY <1>2, <1>3, <1>4, TypesAlways, PTL DEF Spec
=============================================================================
