------------------------- MODULE FileRegistry_proofs -------------------------
(***************************************************************************)
(* The properties of FileRegistry for every set of ids, paths and callers, *)
(* and, as long as no two calls overlap, that its files keep a DurableMap. *)
(***************************************************************************)
EXTENDS FileRegistry, SequenceTheorems, TLAPS

----------------------------------------------------------------------------
(* Lemmas about the journal *)

\* What a load reads is an entry or nothing for every id.
LEMMA ReplayType ==
    ASSUME NEW base \in Maps, NEW lines \in Seq(Deltas)
    PROVE  Replay(base, lines) \in Maps
<1> SUFFICES ASSUME NEW i \in Ids
             PROVE  (IF Last(lines, i) = {} THEN base[i]
                     ELSE lines[CHOOSE k \in Last(lines, i) : TRUE][i]) \in Entries \cup {NoEntry}
    BY DEF Replay, Maps
<1>1. CASE Last(lines, i) = {}
    BY <1>1 DEF Maps
<1>2. CASE Last(lines, i) # {}
    <2> DEFINE k == CHOOSE l \in Last(lines, i) : TRUE
    <2>1. k \in Last(lines, i)
        BY <1>2
    <2>2. k \in 1..Len(lines) /\ lines[k][i] # NoLine
        BY <2>1 DEF Last
    <2>3. lines[k] \in Deltas
        BY <2>2
    <2>4. lines[k][i] \in Entries \cup {NoEntry}
        BY <2>2, <2>3 DEF Deltas
    <2> QED BY <1>2, <2>4
<1> QED BY <1>1, <1>2

\* A load from an empty journal reads the snapshot.
LEMMA ReplayEmpty ==
    ASSUME NEW base \in Maps
    PROVE  Replay(base, <<>>) = base
BY DEF Replay, Last, Maps

\* An append overwrites the ids it has a line for.
LEMMA ReplayAppend ==
    ASSUME NEW base \in Maps, NEW lines \in Seq(Deltas), NEW d \in Deltas
    PROVE  Replay(base, Append(lines, d)) =
               [i \in Ids |-> IF d[i] # NoLine THEN d[i] ELSE Replay(base, lines)[i]]
<1> DEFINE more == Append(lines, d)
           n == Len(lines) + 1
<1>1. DOMAIN more = 1..n /\ DOMAIN lines = 1..Len(lines) /\ Len(lines) \in Nat
    OBVIOUS
<1>2. more[n] = d /\ \A k \in 1..Len(lines) : more[k] = lines[k]
    OBVIOUS
<1> HIDE DEF more
<1>3. ASSUME NEW i \in Ids, d[i] # NoLine
      PROVE  Replay(base, more)[i] = d[i]
    <2>1. n \in Last(more, i)
        BY <1>1, <1>2, <1>3 DEF Last
    <2>2. \A k \in Last(more, i) : k = n
        <3> SUFFICES ASSUME NEW k \in 1..n, k \in Last(more, i), k # n PROVE FALSE
            BY <1>1 DEF Last
        <3>1. more[n][i] = NoLine
            BY <1>1 DEF Last
        <3> QED BY <3>1, <1>2, <1>3
    <2>3. (CHOOSE k \in Last(more, i) : TRUE) = n
        BY <2>1, <2>2
    <2> QED BY <2>1, <2>3, <1>2 DEF Replay
<1>4. ASSUME NEW i \in Ids, d[i] = NoLine
      PROVE  Replay(base, more)[i] = Replay(base, lines)[i]
    <2>1. Last(more, i) = Last(lines, i)
        <3>1. ASSUME NEW k \in Last(more, i) PROVE k \in Last(lines, i)
            <4>1. k \in 1..n /\ more[k][i] # NoLine
                BY <1>1, <3>1 DEF Last
            <4>2. k \in 1..Len(lines)
                BY <4>1, <1>2, <1>4, <1>1
            <4>3. ASSUME NEW l \in 1..Len(lines), l > k PROVE lines[l][i] = NoLine
                BY <4>3, <1>1, <1>2, <3>1 DEF Last
            <4> QED BY <4>1, <4>2, <4>3, <1>1, <1>2 DEF Last
        <3>2. ASSUME NEW k \in Last(lines, i) PROVE k \in Last(more, i)
            <4>1. k \in 1..Len(lines) /\ lines[k][i] # NoLine
                BY <1>1, <3>2 DEF Last
            <4>2. k \in 1..n /\ more[k][i] # NoLine
                BY <4>1, <1>2, <1>1
            <4>3. ASSUME NEW l \in 1..n, l > k PROVE more[l][i] = NoLine
                <5>1. CASE l = n
                    BY <5>1, <1>2, <1>4
                <5>2. CASE l # n
                    <6>1. l \in 1..Len(lines)
                        BY <5>2, <1>1
                    <6> QED BY <6>1, <4>3, <1>1, <1>2, <3>2 DEF Last
                <5> QED BY <5>1, <5>2
            <4> QED BY <4>2, <4>3, <1>1 DEF Last
        <3> QED BY <3>1, <3>2
    <2>2. CASE Last(lines, i) = {}
        BY <2>1, <2>2 DEF Replay
    <2>3. CASE Last(lines, i) # {}
        <3> DEFINE k == CHOOSE l \in Last(lines, i) : TRUE
        <3>1. k \in 1..Len(lines)
            BY <2>3, <1>1 DEF Last
        <3> HIDE DEF k
        <3>2. more[k] = lines[k]
            BY <3>1, <1>2
        <3>3. Replay(base, lines)[i] = lines[k][i] /\ Replay(base, more)[i] = more[k][i]
            BY <2>1, <2>3 DEF Replay, k
        <3> QED BY <3>2, <3>3
    <2> QED BY <2>2, <2>3
<1>5. Replay(base, more) = [i \in Ids |-> Replay(base, more)[i]]
    BY DEF Replay
<1>6. \A i \in Ids : Replay(base, more)[i] = IF d[i] # NoLine THEN d[i] ELSE Replay(base, lines)[i]
    BY <1>3, <1>4
<1>7. Replay(base, more) = [i \in Ids |-> IF d[i] # NoLine THEN d[i] ELSE Replay(base, lines)[i]]
    BY <1>5, <1>6
<1> QED BY <1>7 DEF more

\* A new snapshot under an old journal shows where the journal has no line.
LEMMA ReplayBase ==
    ASSUME NEW base \in Maps, NEW other \in Maps, NEW lines \in Seq(Deltas)
    PROVE  Replay(other, lines) =
               [i \in Ids |-> IF Last(lines, i) = {} THEN other[i] ELSE Replay(base, lines)[i]]
BY DEF Replay

----------------------------------------------------------------------------
(* Types and the path index.  A change of the entry at a path has a value  *)
(* only because the index names an entry: the two are proved together.     *)

IndexInv == TypeOK /\ IndexNamesAnEntry

LEMMA NothingIsNoEntry == NoEntry \notin Entries /\ NoLine \notin Entries /\ NoLine # NoEntry
BY NoEntryAssumption, NoLineAssumption DEF Entries

\* What `save` does to the dirty ids and the calls.
LEMMA SaveType ==
    ASSUME TypeOK, NEW c \in Callers, NEW ids \in SUBSET Ids, Save(c, ids)
    PROVE  /\ dirtyIds' \subseteq Ids
           /\ deferSave' \in BOOLEAN /\ hasRecords' \in BOOLEAN
           /\ calls' \in [Callers -> CallRecords]
<1> DEFINE pc == IF deferSave \/ dirtyIds' = {} THEN "idle" ELSE "dir"
<1>1. pc \in PCs
    BY DEF PCs
<1>2. calls' = [calls EXCEPT ![c] = [calls[c] EXCEPT !.pc = pc]]
    BY DEF Save, Goto, Step
<1> HIDE DEF pc
<1>3. [calls[c] EXCEPT !.pc = pc] \in CallRecords
    BY <1>1 DEF TypeOK, CallRecords
<1>4. calls' \in [Callers -> CallRecords]
    BY <1>2, <1>3 DEF TypeOK
<1> QED BY <1>4 DEF Save, TypeOK

\* A call that goes on with a record of the right kind.
LEMMA StepType ==
    ASSUME TypeOK, NEW c \in Callers, NEW call \in CallRecords, Step(c, call)
    PROVE  calls' \in [Callers -> CallRecords]
BY DEF TypeOK, Step

\* A call that goes on at another place.
LEMMA GotoType ==
    ASSUME TypeOK, NEW c \in Callers, NEW pc \in PCs, Goto(c, pc)
    PROVE  calls' \in [Callers -> CallRecords]
<1>1. [calls[c] EXCEPT !.pc = pc] \in CallRecords
    BY DEF TypeOK, CallRecords
<1> QED BY <1>1, StepType DEF Goto

LEMMA IdleType ==
    /\ Idle \in CallRecords
    /\ [Idle EXCEPT !.pc = "idle"] \in CallRecords
    /\ [Idle EXCEPT !.pc = "foldDir"] \in CallRecords
    /\ [Idle EXCEPT !.pc = "foldDir", !.load = TRUE] \in CallRecords
<1>1. NoDelta \in Deltas /\ Empty \in Maps
    BY DEF NoDelta, Deltas, Empty, Maps
<1>2. Idle \in CallRecords
    BY <1>1 DEF Idle, CallRecords, PCs
<1> QED BY <1>2 DEF CallRecords, PCs

LEMMA EntryMoved ==
    ASSUME NEW x \in Entries, NEW q \in Paths, NEW n \in Nat
    PROVE  [x EXCEPT !.path = q, !.rev = n] \in Entries /\ [x EXCEPT !.path = q, !.rev = n].path = q
BY DEF Entries

LEMMA EntryRevised ==
    ASSUME NEW x \in Entries, NEW n \in Nat, NEW b \in BOOLEAN
    PROVE  /\ [x EXCEPT !.rev = n] \in Entries /\ [x EXCEPT !.rev = n].path = x.path
           /\ [x EXCEPT !.deleted = b, !.rev = n] \in Entries
           /\ [x EXCEPT !.deleted = b, !.rev = n].path = x.path
           /\ [x EXCEPT !.marked = b, !.rev = n] \in Entries
           /\ [x EXCEPT !.marked = b, !.rev = n].path = x.path
BY DEF Entries

\* The one entry of a mutation keeps the index if it stays where the index has it.
LEMMA PutKeepsIndex ==
    ASSUME IndexInv, NEW c \in Callers, NEW id \in Ids, NEW e \in Entries,
           Put(c, id, e, {}), Counted, Undisturbed, UNCHANGED pathIndex,
           \A p \in Paths : pathIndex[p] = id => e.path = p
    PROVE  IndexInv'
<1>1. Save(c, {id}) /\ entries' = [entries EXCEPT ![id] = e]
    BY DEF Put
<1>2. entries' \in Maps
    BY <1>1 DEF IndexInv, TypeOK, Maps
<1>3. TypeOK'
    BY <1>1, <1>2, SaveType DEF IndexInv, TypeOK, Counted, Undisturbed, disk
<1>4. IndexNamesAnEntry'
    <2> SUFFICES ASSUME NEW p \in Paths, pathIndex[p] # NoId
                 PROVE  entries'[pathIndex[p]] # NoEntry /\ entries'[pathIndex[p]].path = p
        BY DEF IndexNamesAnEntry, Has
    <2>1. pathIndex[p] \in Ids
        BY DEF IndexInv, TypeOK
    <2>2. CASE pathIndex[p] = id
        BY <2>2, <1>1, NothingIsNoEntry DEF IndexInv, TypeOK, Maps
    <2>3. CASE pathIndex[p] # id
        BY <2>1, <2>3, <1>1 DEF IndexInv, TypeOK, Maps, IndexNamesAnEntry, Has
    <2> QED BY <2>2, <2>3
<1> QED BY <1>3, <1>4 DEF IndexInv

\* The entry that the index has at a path.
LEMMA Indexed ==
    ASSUME IndexInv, NEW p \in Paths, pathIndex[p] # NoId
    PROVE  /\ pathIndex[p] \in Ids /\ entries[pathIndex[p]] \in Entries
           /\ entries[pathIndex[p]].path = p
           /\ \A r \in Paths : pathIndex[r] = pathIndex[p] => r = p
<1>1. pathIndex[p] \in Ids /\ entries[pathIndex[p]] # NoEntry /\ entries[pathIndex[p]].path = p
    BY DEF IndexInv, TypeOK, IndexNamesAnEntry, Has
<1>2. entries[pathIndex[p]] \in Entries
    BY <1>1 DEF IndexInv, TypeOK, Maps
<1>3. \A r \in Paths : pathIndex[r] = pathIndex[p] => r = p
    BY <1>1 DEF IndexInv, IndexNamesAnEntry
<1> QED BY <1>1, <1>2, <1>3

LEMMA RegisterNewIndex ==
    ASSUME IndexInv, NEW c \in Callers, NEW p \in Paths, NEW id \in Ids, RegisterNew(c, p, id)
    PROVE  IndexInv'
<1> DEFINE e == [path |-> p, rev |-> Rev, deleted |-> FALSE, marked |-> FALSE]
<1>1. e \in Entries
    BY DEF Entries, IndexInv, TypeOK, Rev
<1>2. /\ Save(c, {id}) /\ entries' = [entries EXCEPT ![id] = e]
      /\ pathIndex' = [pathIndex EXCEPT ![p] = id]
      /\ entries[id] = NoEntry
    BY DEF RegisterNew, Put, Fresh, Has
<1>3. entries' \in Maps /\ pathIndex' \in [Paths -> Ids \cup {NoId}]
    BY <1>1, <1>2 DEF IndexInv, TypeOK, Maps
<1>4. TypeOK'
    BY <1>2, <1>3, SaveType DEF RegisterNew, IndexInv, TypeOK, Counted, Undisturbed, disk
<1>5. e.path = p
    OBVIOUS
<1> HIDE DEF e
<1>6. IndexNamesAnEntry'
    <2> SUFFICES ASSUME NEW r \in Paths, pathIndex'[r] # NoId
                 PROVE  entries'[pathIndex'[r]] # NoEntry /\ entries'[pathIndex'[r]].path = r
        BY DEF IndexNamesAnEntry, Has
    <2>1. CASE r = p
        BY <2>1, <1>1, <1>2, <1>5, NothingIsNoEntry DEF IndexInv, TypeOK, Maps
    <2>2. CASE r # p
        <3>1. pathIndex'[r] = pathIndex[r]
            BY <2>2, <1>2 DEF IndexInv, TypeOK
        <3>2. pathIndex[r] # id
            BY <3>1, <1>2, Indexed, NothingIsNoEntry
        <3> QED BY <3>1, <3>2, <1>2, Indexed, NothingIsNoEntry DEF IndexInv, TypeOK, Maps
    <2> QED BY <2>1, <2>2
<1> QED BY <1>4, <1>6 DEF IndexInv

LEMMA UpdatePathIndex ==
    ASSUME IndexInv, NEW c \in Callers, NEW p \in Paths, NEW q \in Paths, UpdatePath(c, p, q)
    PROVE  IndexInv'
<1> DEFINE id == pathIndex[p]
           e == [entries[id] EXCEPT !.path = q, !.rev = Rev]
<1>1. id \in Ids /\ entries[id] \in Entries /\ p # q
      /\ \A r \in Paths : pathIndex[r] = id => r = p
    BY Indexed DEF UpdatePath
<1>2. e \in Entries /\ e.path = q
    BY <1>1, Rev \in Nat, EntryMoved DEF IndexInv, TypeOK, Rev
<1>3. /\ Save(c, {id}) /\ entries' = [entries EXCEPT ![id] = e]
      /\ pathIndex' = [pathIndex EXCEPT ![p] = NoId, ![q] = id]
    BY DEF UpdatePath, Put
<1> HIDE DEF e, id
<1>4. entries' \in Maps /\ pathIndex' \in [Paths -> Ids \cup {NoId}]
    BY <1>1, <1>2, <1>3 DEF IndexInv, TypeOK, Maps
<1>5. TypeOK'
    BY <1>1, <1>3, <1>4, SaveType DEF UpdatePath, IndexInv, TypeOK, Counted, Undisturbed, disk
<1>6. IndexNamesAnEntry'
    <2> SUFFICES ASSUME NEW r \in Paths, pathIndex'[r] # NoId
                 PROVE  entries'[pathIndex'[r]] # NoEntry /\ entries'[pathIndex'[r]].path = r
        BY DEF IndexNamesAnEntry, Has
    <2>1. CASE r = q
        BY <2>1, <1>1, <1>2, <1>3, NothingIsNoEntry DEF IndexInv, TypeOK, Maps
    <2>2. CASE r # q
        <3>1. r # p /\ pathIndex'[r] = pathIndex[r]
            BY <2>2, <1>3 DEF IndexInv, TypeOK
        <3>2. pathIndex[r] # id
            BY <3>1, <1>1
        <3> QED BY <3>1, <3>2, <1>3, Indexed, NothingIsNoEntry DEF IndexInv, TypeOK, Maps
    <2> QED BY <2>1, <2>2
<1> QED BY <1>5, <1>6 DEF IndexInv

LEMMA AdoptRemoteIndex ==
    ASSUME IndexInv, NEW c \in Callers, NEW id \in Ids, NEW p \in Paths, AdoptRemote(c, id, p)
    PROVE  IndexInv'
<1> DEFINE gone == DuplicateAt(id, p)
           e == [path |-> p, rev |-> Rev, deleted |-> FALSE, marked |-> FALSE]
<1>1. e \in Entries /\ e.path = p
    BY DEF Entries, IndexInv, TypeOK, Rev
<1>2. /\ Save(c, TouchedByAdopt(id, p))
      /\ entries' = [i \in Ids |-> IF i = id THEN e ELSE IF i \in gone THEN NoEntry ELSE entries[i]]
      /\ pathIndex' = [r \in Paths |->
              IF r = p THEN id ELSE IF r \in StalePath(id, p) THEN NoId ELSE pathIndex[r]]
    <2>1. entries' = [i \in Ids |->
              CASE i = id    -> e
                [] i \in gone -> NoEntry
                [] OTHER      -> entries[i]]
        BY DEF AdoptRemote
    <2>2. \A i \in Ids : (CASE i = id -> e [] i \in gone -> NoEntry [] OTHER -> entries[i])
                         = IF i = id THEN e ELSE IF i \in gone THEN NoEntry ELSE entries[i]
        BY DEF DuplicateAt
    <2>3. Save(c, TouchedByAdopt(id, p))
          /\ pathIndex' = [r \in Paths |->
              IF r = p THEN id ELSE IF r \in StalePath(id, p) THEN NoId ELSE pathIndex[r]]
        BY DEF AdoptRemote
    <2> HIDE DEF e, gone
    <2>4. entries' = [i \in Ids |-> IF i = id THEN e ELSE IF i \in gone THEN NoEntry ELSE entries[i]]
        BY <2>1, <2>2
    <2> QED BY <2>3, <2>4
<1>3. TouchedByAdopt(id, p) \in SUBSET Ids
    BY DEF TouchedByAdopt, DuplicateAt, IndexInv, TypeOK
<1>4. gone = {pathIndex[p]} \ {NoId, id}
    BY DEF DuplicateAt
<1> HIDE DEF gone, e
<1>5. entries' \in Maps /\ pathIndex' \in [Paths -> Ids \cup {NoId}]
    BY <1>1, <1>2 DEF IndexInv, TypeOK, Maps
<1>6. TypeOK'
    BY <1>2, <1>3, <1>5, SaveType DEF AdoptRemote, IndexInv, TypeOK, Counted, Undisturbed, disk
<1>7. IndexNamesAnEntry'
    <2> SUFFICES ASSUME NEW r \in Paths, pathIndex'[r] # NoId
                 PROVE  entries'[pathIndex'[r]] # NoEntry /\ entries'[pathIndex'[r]].path = r
        BY DEF IndexNamesAnEntry, Has
    <2>1. CASE r = p
        BY <2>1, <1>1, <1>2, NothingIsNoEntry
    <2>2. CASE r # p
        <3>1. pathIndex'[r] = pathIndex[r] /\ r \notin StalePath(id, p)
            BY <2>2, <1>2
        <3>2. /\ pathIndex[r] \in Ids /\ entries[pathIndex[r]] \in Entries
              /\ entries[pathIndex[r]].path = r
              /\ pathIndex[p] # pathIndex[r]
            BY <2>2, <3>1, Indexed
        <3>3. pathIndex[r] # id
            BY <2>2, <3>1, <3>2, NothingIsNoEntry DEF StalePath, Has
        <3> QED BY <3>1, <3>2, <3>3, <1>2, <1>4, NothingIsNoEntry
    <2> QED BY <2>1, <2>2
<1> QED BY <1>6, <1>7 DEF IndexInv

LEMMA ReviseAtIndex ==
    ASSUME IndexInv, NEW c \in Callers, NEW p \in Paths,
           \/ ReviseAt(c, p) \/ RegisterResurrects(c, p) \/ MarkDeleted(c, p) \/ MarkConflicted(c, p)
    PROVE  IndexInv'
<1> DEFINE id == pathIndex[p]
           x == entries[id]
<1>1. id # NoId /\ Counted /\ Undisturbed /\ UNCHANGED pathIndex
    BY DEF ReviseAt, RegisterResurrects, MarkDeleted, MarkConflicted
<1>2. id \in Ids /\ x \in Entries /\ x.path = p /\ \A r \in Paths : pathIndex[r] = id => r = p
    BY <1>1, Indexed
<1>3. Rev \in Nat
    BY DEF Rev, IndexInv, TypeOK
<1>4. PICK e : /\ Put(c, id, e, {})
               /\ e \in {[x EXCEPT !.rev = Rev], [x EXCEPT !.deleted = FALSE, !.rev = Rev],
                         [x EXCEPT !.deleted = TRUE, !.rev = Rev], [x EXCEPT !.marked = TRUE, !.rev = Rev]}
    BY DEF ReviseAt, RegisterResurrects, MarkDeleted, MarkConflicted
<1> HIDE DEF x, id
<1>5. e \in Entries /\ e.path = p
    <2>1. \A n \in Nat : [x EXCEPT !.rev = n] \in Entries /\ [x EXCEPT !.rev = n].path = p
        BY <1>2, EntryRevised
    <2>2. \A b \in BOOLEAN, n \in Nat : /\ [x EXCEPT !.deleted = b, !.rev = n] \in Entries
                                        /\ [x EXCEPT !.deleted = b, !.rev = n].path = p
        BY <1>2, EntryRevised
    <2>3. \A b \in BOOLEAN, n \in Nat : /\ [x EXCEPT !.marked = b, !.rev = n] \in Entries
                                        /\ [x EXCEPT !.marked = b, !.rev = n].path = p
        BY <1>2, EntryRevised
    <2> QED BY <2>1, <2>2, <2>3, <1>3, <1>4
<1> QED BY <1>1, <1>2, <1>4, <1>5, PutKeepsIndex

LEMMA ReviseIndex ==
    ASSUME IndexInv, NEW c \in Callers, NEW id \in Ids, Revise(c, id) \/ ClearConflict(c, id)
    PROVE  IndexInv'
<1> DEFINE x == entries[id]
<1>1. x \in Entries /\ \A r \in Paths : pathIndex[r] = id => x.path = r
    <2>1. x # NoEntry
        BY DEF Revise, ClearConflict, Has
    <2>2. x \in Entries
        BY <2>1 DEF IndexInv, TypeOK, Maps
    <2>3. \A r \in Paths : pathIndex[r] = id => id # NoId
        BY NoIdAssumption
    <2> QED BY <2>2, <2>3 DEF IndexInv, IndexNamesAnEntry
<1>2. Rev \in Nat
    BY DEF Rev, IndexInv, TypeOK
<1>3. PICK e : /\ Put(c, id, e, {}) /\ Counted /\ Undisturbed /\ UNCHANGED pathIndex
               /\ e \in {[x EXCEPT !.rev = Rev], [x EXCEPT !.marked = FALSE, !.rev = Rev]}
    BY DEF Revise, ClearConflict
<1> HIDE DEF x
<1>4. e \in Entries /\ e.path = x.path
    <2>1. [x EXCEPT !.rev = Rev] \in Entries /\ [x EXCEPT !.rev = Rev].path = x.path
        BY <1>1, <1>2, EntryRevised
    <2>2. [x EXCEPT !.marked = FALSE, !.rev = Rev] \in Entries
          /\ [x EXCEPT !.marked = FALSE, !.rev = Rev].path = x.path
        BY <1>1, <1>2, EntryRevised
    <2> QED BY <2>1, <2>2, <1>3
<1> QED BY <1>1, <1>3, <1>4, PutKeepsIndex

LEMMA ReconcileIndex ==
    ASSUME IndexInv, NEW c \in Callers, NEW vault \in SUBSET Paths,
           NEW new \in [Untracked(vault) -> Fresh], ReconcileWithVault(c, vault, new)
    PROVE  IndexInv'
<1> DEFINE minted == {new[p] : p \in DOMAIN new}
           made(i) == CHOOSE p \in DOMAIN new : new[p] = i
           e(i) == [path |-> made(i), rev |-> Rev, deleted |-> FALSE, marked |-> FALSE]
           d(i) == [entries[i] EXCEPT !.deleted = TRUE, !.rev = Rev]
           gone == Vanished(vault)
<1>1. /\ Save(c, minted \cup gone) /\ Counted /\ Undisturbed
      /\ \A p, q \in DOMAIN new : new[p] = new[q] => p = q
      /\ entries' = [i \in Ids |-> CASE i \in minted -> e(i) [] i \in gone -> d(i) [] OTHER -> entries[i]]
      /\ pathIndex' = [p \in Paths |-> IF p \in DOMAIN new THEN new[p] ELSE pathIndex[p]]
    BY DEF ReconcileWithVault
<1>2. /\ DOMAIN new \subseteq Paths
      /\ \A p \in DOMAIN new : new[p] \in Ids /\ entries[new[p]] = NoEntry /\ new[p] \in minted
    BY DEF Untracked, Fresh, Has
<1>3. \A i \in gone : i \in Ids /\ entries[i] \in Entries
    BY DEF Vanished, Live, Has, IndexInv, TypeOK, Maps
<1>4. Rev \in Nat
    BY DEF Rev, IndexInv, TypeOK
<1>5. \A i \in minted : i \in Ids /\ made(i) \in DOMAIN new /\ new[made(i)] = i /\ entries[i] = NoEntry
    BY <1>2
<1>6. \A i \in minted : e(i) \in Entries /\ e(i).path = made(i) /\ i \notin gone
    <2> HIDE DEF made
    <2> QED BY <1>2, <1>3, <1>4, <1>5, NothingIsNoEntry DEF Entries
<1>7. \A i \in gone : d(i) \in Entries /\ d(i).path = entries[i].path
    BY <1>3, <1>4, EntryRevised
<1>8. \A p \in DOMAIN new : made(new[p]) = p
    BY <1>1, <1>2
<1> HIDE DEF minted, made, e, d, gone
<1>9. \A i \in Ids : /\ i \in minted => entries'[i] = e(i)
                     /\ i \in gone => entries'[i] = d(i)
                     /\ i \notin minted /\ i \notin gone => entries'[i] = entries[i]
    <2> TAKE i \in Ids
    <2>1. entries'[i] = CASE i \in minted -> e(i) [] i \in gone -> d(i) [] OTHER -> entries[i]
        BY <1>1
    <2>2. i \in minted => entries'[i] = e(i)
        BY <2>1, <1>6
    <2>3. i \in gone => entries'[i] = d(i)
        BY <2>1, <1>6
    <2>4. i \notin minted /\ i \notin gone => entries'[i] = entries[i]
        BY <2>1
    <2> QED BY <2>2, <2>3, <2>4
<1>10. entries' \in Maps
    <2>1. \A i \in Ids : entries'[i] \in Entries \cup {NoEntry}
        BY <1>6, <1>7, <1>9 DEF IndexInv, TypeOK, Maps
    <2>2. entries' = [i \in Ids |-> entries'[i]]
        BY <1>1
    <2> QED BY <2>1, <2>2 DEF Maps
<1>11. pathIndex' \in [Paths -> Ids \cup {NoId}]
    BY <1>1, <1>2 DEF IndexInv, TypeOK
<1>12. minted \cup gone \in SUBSET Ids
    BY <1>3, <1>5
<1>13. TypeOK'
    BY <1>1, <1>10, <1>11, <1>12, SaveType DEF IndexInv, TypeOK, Counted, Undisturbed, disk
<1>14. IndexNamesAnEntry'
    <2> SUFFICES ASSUME NEW r \in Paths, pathIndex'[r] # NoId
                 PROVE  entries'[pathIndex'[r]] # NoEntry /\ entries'[pathIndex'[r]].path = r
        BY DEF IndexNamesAnEntry, Has
    <2>1. CASE r \in DOMAIN new
        <3>1. pathIndex'[r] = new[r] /\ new[r] \in Ids /\ new[r] \in minted
            BY <2>1, <1>1, <1>2
        <3> QED BY <2>1, <3>1, <1>6, <1>8, <1>9, NothingIsNoEntry
    <2>2. CASE r \notin DOMAIN new
        <3>1. pathIndex'[r] = pathIndex[r]
            BY <2>2, <1>1
        <3>2. /\ pathIndex[r] \in Ids /\ entries[pathIndex[r]] \in Entries
              /\ entries[pathIndex[r]].path = r
            BY <3>1, Indexed
        <3>3. pathIndex[r] \notin minted
            BY <3>2, <1>5, NothingIsNoEntry
        <3> QED BY <3>1, <3>2, <3>3, <1>7, <1>9, NothingIsNoEntry
    <2> QED BY <2>1, <2>2
<1> QED BY <1>13, <1>14 DEF IndexInv

LEMMA CompactIndex ==
    ASSUME IndexInv, NEW c \in Callers, NEW aged \in SUBSET Ids, NEW pinned \in SUBSET Ids,
           Compact(c, aged, pinned)
    PROVE  IndexInv'
<1> DEFINE gone == Reclaimed(aged, pinned)
<1>1. gone \subseteq Ids
    BY DEF Reclaimed
<1>2. /\ entries' = [i \in Ids |-> IF i \in gone THEN NoEntry ELSE entries[i]]
      /\ pathIndex' = [p \in Paths |-> IF pathIndex[p] \in gone THEN NoId ELSE pathIndex[p]]
      /\ unfolded' = unfolded \cup gone
      /\ Goto(c, "foldDir")
      /\ UNCHANGED <<running, dirtyIds, deferSave, hasRecords, disk, changes, crashes>>
    BY DEF Compact, IndexWithout
<1> HIDE DEF gone
<1>3. calls' \in [Callers -> CallRecords]
    BY <1>2, GotoType DEF IndexInv, PCs
<1>4. entries' \in Maps /\ pathIndex' \in [Paths -> Ids \cup {NoId}]
    BY <1>2 DEF IndexInv, TypeOK, Maps
<1>5. TypeOK'
    BY <1>1, <1>2, <1>3, <1>4 DEF IndexInv, TypeOK, disk
<1>6. IndexNamesAnEntry'
    BY <1>2 DEF IndexInv, TypeOK, IndexNamesAnEntry, Has
<1> QED BY <1>5, <1>6 DEF IndexInv

\* Memory is lost, or loaded from what the disk has.
LEMMA CrashIndex ==
    ASSUME IndexInv, Crash
    PROVE  IndexInv'
<1>1. Empty \in Maps /\ NoIndex \in [Paths -> Ids \cup {NoId}]
    BY DEF Empty, Maps, NoIndex
<1>2. [c \in Callers |-> Idle] \in [Callers -> CallRecords]
    BY IdleType
<1>3. journal' \in Seq(Deltas)
    <2>1. CASE journal' = journal
        BY <2>1 DEF IndexInv, TypeOK
    <2>2. ASSUME NEW c \in Callers, NEW S \in SUBSET Ids,
                 journal' = Append(journal, [i \in Ids |-> IF i \in S THEN calls[c].delta[i] ELSE NoLine])
          PROVE  journal' \in Seq(Deltas)
        <3>1. calls[c].delta \in Deltas
            BY DEF IndexInv, TypeOK, CallRecords
        <3>2. [i \in Ids |-> IF i \in S THEN calls[c].delta[i] ELSE NoLine] \in Deltas
            BY <3>1 DEF Deltas
        <3> QED BY <2>2, <3>2 DEF IndexInv, TypeOK
    <2> QED BY <2>1, <2>2 DEF Crash
<1>4. /\ running' = FALSE /\ entries' = Empty /\ pathIndex' = NoIndex /\ dirtyIds' = {}
      /\ deferSave' = FALSE /\ hasRecords' = FALSE /\ unfolded' = {}
      /\ calls' = [c \in Callers |-> Idle]
      /\ snapshot' = snapshot /\ changes' = changes /\ crashes' = crashes + 1
    BY DEF Crash, LoseMemory
<1>5. TypeOK'
    <2>1. running' \in BOOLEAN /\ deferSave' \in BOOLEAN /\ hasRecords' \in BOOLEAN
        BY <1>4
    <2>2. entries' \in Maps /\ pathIndex' \in [Paths -> Ids \cup {NoId}]
        BY <1>1, <1>4
    <2>3. calls' \in [Callers -> CallRecords]
        BY <1>2, <1>4
    <2>4. dirtyIds' \subseteq Ids /\ unfolded' \subseteq Ids
        BY <1>4
    <2>5. snapshot' \in Maps /\ changes' \in Nat /\ crashes' \in Nat
        BY <1>4 DEF IndexInv, TypeOK
    <2> QED BY <1>3, <2>1, <2>2, <2>3, <2>4, <2>5 DEF TypeOK
<1>6. IndexNamesAnEntry'
    BY <1>4 DEF IndexNamesAnEntry, NoIndex
<1> QED BY <1>5, <1>6 DEF IndexInv

LEMMA LoadIndex ==
    ASSUME IndexInv, Load
    PROVE  IndexInv'
<1>1. entries' = OnDisk /\ OnDisk \in Maps
    BY ReplayType DEF Load, OnDisk, IndexInv, TypeOK
<1>2. pathIndex' \in Indexes(OnDisk)
    BY DEF Load
<1>3. calls' \in [Callers -> CallRecords]
    <2>1. CASE calls' = calls
        BY <2>1 DEF IndexInv, TypeOK
    <2>2. ASSUME NEW c \in Callers, Step(c, [Idle EXCEPT !.pc = "foldDir", !.load = TRUE])
          PROVE  calls' \in [Callers -> CallRecords]
        BY <2>2, StepType, IdleType DEF IndexInv
    <2> QED BY <2>1, <2>2 DEF Load
<1>4. hasRecords' \in BOOLEAN
    BY DEF Load
<1>5. TypeOK'
    BY <1>1, <1>2, <1>3, <1>4 DEF Load, Indexes, IndexInv, TypeOK, disk
<1>6. IndexNamesAnEntry'
    <2> SUFFICES ASSUME NEW p \in Paths, pathIndex'[p] # NoId
                 PROVE  OnDisk[pathIndex'[p]] # NoEntry /\ OnDisk[pathIndex'[p]].path = p
        BY <1>1 DEF IndexNamesAnEntry, Has
    <2> QED BY <1>2 DEF Indexes
<1> QED BY <1>5, <1>6 DEF IndexInv

\* The steps of a flush and of a fold, which leave memory's map alone.
LEMMA PersistIndex ==
    ASSUME IndexInv, NEW c \in Callers,
           \/ Flush(c) \/ FlushSerialises(c) \/ AppendResolves(c) \/ CallRejects(c)
           \/ CompactSerialises(c) \/ SnapshotWritten(c) \/ JournalTruncated(c)
           \/ SnapshotRemoved(c) \/ JournalRemoved(c) \/ SuspendSaves(c) \/ ResumeSaves(c)
    PROVE  IndexInv'
<1>1. UNCHANGED <<running, entries, pathIndex, changes, crashes>>
    BY DEF Flush, FlushSerialises, AppendResolves, CallRejects, CompactSerialises, SnapshotWritten,
           JournalTruncated, SnapshotRemoved, JournalRemoved, SuspendSaves, ResumeSaves, Undisturbed
<1>2. IndexNamesAnEntry'
    BY <1>1 DEF IndexInv, IndexNamesAnEntry, Has
<1>4. \A b \in {"dir", "trunc", "rmJournal"} : b \in PCs
    BY DEF PCs
<1>5. calls' \in [Callers -> CallRecords]
    <2>1. CASE SuspendSaves(c) \/ ResumeSaves(c)
        BY <2>1 DEF SuspendSaves, ResumeSaves, IndexInv, TypeOK
    <2>2. CASE Flush(c) \/ SnapshotWritten(c) \/ SnapshotRemoved(c)
        BY <2>2, <1>4, GotoType DEF Flush, SnapshotWritten, SnapshotRemoved, IndexInv
    <2>3. CASE CallRejects(c) \/ JournalTruncated(c) \/ JournalRemoved(c)
        BY <2>3, IdleType, StepType DEF CallRejects, JournalTruncated, JournalRemoved, IndexInv
    <2>4. CASE FlushSerialises(c)
        <3>1. Delta(dirtyIds) \in Deltas
            BY DEF Delta, Deltas, IndexInv, TypeOK, Maps
        <3>2. [calls[c] EXCEPT !.pc = "append", !.delta = Delta(dirtyIds)] \in CallRecords
            BY <3>1 DEF IndexInv, TypeOK, CallRecords, PCs
        <3> QED BY <2>4, <3>2, StepType DEF FlushSerialises, IndexInv
    <2>5. CASE CompactSerialises(c)
        <3>1. [calls[c] EXCEPT !.pc = "snap", !.fold = entries, !.dropped = unfolded] \in CallRecords
            BY DEF IndexInv, TypeOK, CallRecords, PCs
        <3> QED BY <2>5, <3>1, StepType DEF CompactSerialises, IndexInv
    <2>6. CASE AppendResolves(c)
        <3>1. PICK fold \in {FALSE, ~deferSave /\ hasRecords'} :
                  Step(c, [Idle EXCEPT !.pc = IF fold THEN "foldDir" ELSE "idle"])
            BY <2>6 DEF AppendResolves
        <3>2. [Idle EXCEPT !.pc = IF fold THEN "foldDir" ELSE "idle"] \in CallRecords
            BY IdleType
        <3> QED BY <3>1, <3>2, StepType DEF IndexInv
    <2> QED BY <2>1, <2>2, <2>3, <2>4, <2>5, <2>6
<1>6. dirtyIds' \subseteq Ids /\ unfolded' \subseteq Ids /\ deferSave' \in BOOLEAN /\ hasRecords' \in BOOLEAN
    BY DEF Flush, FlushSerialises, AppendResolves, CallRejects, CompactSerialises, SnapshotWritten,
           JournalTruncated, SnapshotRemoved, JournalRemoved, SuspendSaves, ResumeSaves, Undisturbed,
           IndexInv, TypeOK
<1>7. snapshot' \in Maps /\ journal' \in Seq(Deltas)
    <2>1. Empty \in Maps /\ calls[c].fold \in Maps /\ calls[c].delta \in Deltas
        BY DEF Empty, Maps, IndexInv, TypeOK, CallRecords
    <2>2. snapshot' \in {snapshot, Empty, calls[c].fold}
        BY DEF Flush, FlushSerialises, AppendResolves, CallRejects, CompactSerialises, SnapshotWritten,
           JournalTruncated, SnapshotRemoved, JournalRemoved, SuspendSaves, ResumeSaves, Undisturbed, disk
    <2>3. journal' \in {journal, <<>>, Append(journal, calls[c].delta)}
        BY DEF Flush, FlushSerialises, AppendResolves, CallRejects, CompactSerialises, SnapshotWritten,
           JournalTruncated, SnapshotRemoved, JournalRemoved, SuspendSaves, ResumeSaves, Undisturbed, disk
    <2>4. snapshot \in Maps /\ journal \in Seq(Deltas)
        BY DEF IndexInv, TypeOK
    <2>5. Append(journal, calls[c].delta) \in Seq(Deltas) /\ <<>> \in Seq(Deltas)
        BY <2>1, <2>4
    <2>6. snapshot' \in Maps
        BY <2>1, <2>2, <2>4
    <2>7. journal' \in Seq(Deltas)
        BY <2>3, <2>4, <2>5
    <2> QED BY <2>6, <2>7
<1> QED BY <1>1, <1>2, <1>5, <1>6, <1>7 DEF IndexInv, TypeOK

LEMMA ResetIndex ==
    ASSUME IndexInv, NEW c \in Callers, ResetAll(c)
    PROVE  IndexInv'
<1>1. Empty \in Maps /\ NoIndex \in [Paths -> Ids \cup {NoId}]
    BY DEF Empty, Maps, NoIndex
<1>2. calls' \in [Callers -> CallRecords]
    BY GotoType DEF ResetAll, IndexInv, PCs
<1> QED BY <1>1, <1>2 DEF ResetAll, Undisturbed, IndexInv, TypeOK, IndexNamesAnEntry, NoIndex, disk

LEMMA IndexStep == IndexInv /\ [Next]_vars => IndexInv'
<1> SUFFICES ASSUME IndexInv, [Next]_vars PROVE IndexInv'
    OBVIOUS
<1>1. ASSUME NEW c \in Callers, Mutate(c) PROVE IndexInv'
    BY <1>1, RegisterNewIndex, ReviseAtIndex, UpdatePathIndex, AdoptRemoteIndex, ReviseIndex, ReconcileIndex
    DEF Mutate, UpdateContentHash, RecordStat, SetHeadVersion, SetSyncedPath
<1>2. ASSUME NEW c \in Callers, Persist(c) \/ SuspendSaves(c) \/ ResumeSaves(c) PROVE IndexInv'
    BY <1>2, CompactIndex, PersistIndex, ResetIndex DEF Persist
<1>3. CASE Crash
    BY <1>3, CrashIndex
<1>4. CASE Load
    BY <1>4, LoadIndex
<1>5. CASE UNCHANGED vars
    BY <1>5 DEF vars, memory, disk, IndexInv, TypeOK, IndexNamesAnEntry, Has
<1> QED BY <1>1, <1>2, <1>3, <1>4, <1>5 DEF Next

LEMMA IndexHolds == Spec => []IndexInv
<1>1. Init => IndexInv
    <2>1. Empty \in Maps /\ NoIndex \in [Paths -> Ids \cup {NoId}] /\ <<>> \in Seq(Deltas)
        BY DEF Empty, Maps, NoIndex
    <2>2. Init => TypeOK
        <3>1. Init => calls \in [Callers -> CallRecords]
            BY IdleType DEF Init
        <3>2. Init => /\ entries \in Maps /\ pathIndex \in [Paths -> Ids \cup {NoId}]
                      /\ snapshot \in Maps /\ journal \in Seq(Deltas)
            BY <2>1 DEF Init
        <3>3. Init => running \in BOOLEAN /\ deferSave \in BOOLEAN /\ hasRecords \in BOOLEAN
            BY Zenon DEF Init
        <3>4. Init => /\ dirtyIds \subseteq Ids /\ unfolded \subseteq Ids
                      /\ changes \in Nat /\ crashes \in Nat
            BY DEF Init
        <3> QED BY <3>1, <3>2, <3>3, <3>4 DEF TypeOK
    <2>3. Init => IndexNamesAnEntry
        BY DEF Init, IndexNamesAnEntry, NoIndex
    <2> QED BY <2>2, <2>3 DEF IndexInv
<1> QED BY <1>1, IndexStep, PTL DEF Spec

\* The variables keep their types, however many calls overlap.
THEOREM TypesHold == Spec => []TypeOK
<1>1. IndexInv => TypeOK
    BY DEF IndexInv
<1> QED BY <1>1, IndexHolds, PTL

\* A lookup by path never meets an id without an entry, nor the entry of another path
\* (registerFile, updatePath, adoptRemote, reconcileWithVault, reclaimTombstones, load).
THEOREM IndexIsSound == Spec => []IndexNamesAnEntry
<1>1. IndexInv => IndexNamesAnEntry
    BY DEF IndexInv
<1> QED BY <1>1, IndexHolds, PTL

----------------------------------------------------------------------------
(* One call at a time.  What a call carries over an await is still true of *)
(* memory when the await is over, since nothing else changes memory.       *)

Alone == \A c, d \in Callers : c = d

CallInv(c) ==
    /\ calls[c].pc = "append" => calls[c].delta = Delta(dirtyIds)
    /\ calls[c].pc = "snap" => calls[c].fold = entries /\ calls[c].dropped = unfolded
    /\ calls[c].pc = "trunc" => snapshot = entries /\ calls[c].dropped = unfolded
    /\ calls[c].pc \in {"rmSnapshot", "rmJournal"} => entries = Empty
    /\ calls[c].pc = "rmJournal" => snapshot = Empty

CallsInv ==
    /\ ~running => unfolded = {} /\ \A c \in Callers : calls[c].pc = "idle"
    /\ \A c \in Callers : CallInv(c)

\* A mutation changes the entries that it marks, and waits for a flush if for anything.
LEMMA MutateSaves ==
    ASSUME IndexInv, NEW c \in Callers, Mutate(c)
    PROVE  \E ids \in SUBSET Ids :
               /\ Ready(c) /\ Save(c, ids) /\ Undisturbed
               /\ \A i \in Ids \ ids : entries'[i] = entries[i]
<1>1. ASSUME NEW id \in Ids, NEW e, Put(c, id, e, {})
      PROVE  Save(c, {id}) /\ \A i \in Ids \ {id} : entries'[i] = entries[i]
    BY <1>1 DEF Put, IndexInv, TypeOK, Maps
<1>2. ASSUME NEW p \in Paths, NEW id \in Ids, RegisterNew(c, p, id)
      PROVE  /\ Ready(c) /\ Save(c, {id}) /\ Undisturbed
             /\ \A i \in Ids \ {id} : entries'[i] = entries[i]
    BY <1>1, <1>2 DEF RegisterNew
<1>3. ASSUME NEW p \in Paths, NEW q \in Paths,
             \/ ReviseAt(c, p) \/ RegisterResurrects(c, p) \/ MarkDeleted(c, p) \/ MarkConflicted(c, p)
             \/ UpdatePath(c, p, q)
      PROVE  /\ Ready(c) /\ Save(c, {pathIndex[p]}) /\ Undisturbed /\ pathIndex[p] \in Ids
             /\ \A i \in Ids \ {pathIndex[p]} : entries'[i] = entries[i]
    <2>1. Ready(c) /\ Undisturbed /\ pathIndex[p] # NoId
        BY <1>3 DEF ReviseAt, RegisterResurrects, MarkDeleted, MarkConflicted, UpdatePath
    <2>2. pathIndex[p] \in Ids
        BY <2>1, Indexed
    <2>3. \E e : Put(c, pathIndex[p], e, {})
        BY <1>3 DEF ReviseAt, RegisterResurrects, MarkDeleted, MarkConflicted, UpdatePath
    <2> QED BY <1>1, <2>1, <2>2, <2>3
<1>4. ASSUME NEW id \in Ids, Revise(c, id) \/ ClearConflict(c, id)
      PROVE  /\ Ready(c) /\ Save(c, {id}) /\ Undisturbed
             /\ \A i \in Ids \ {id} : entries'[i] = entries[i]
    <2>1. Ready(c) /\ Undisturbed /\ \E e : Put(c, id, e, {})
        BY <1>4 DEF Revise, ClearConflict
    <2> QED BY <1>1, <2>1
<1>5. ASSUME NEW id \in Ids, NEW p \in Paths, AdoptRemote(c, id, p)
      PROVE  /\ Ready(c) /\ Save(c, TouchedByAdopt(id, p)) /\ Undisturbed
             /\ TouchedByAdopt(id, p) \in SUBSET Ids
             /\ \A i \in Ids \ TouchedByAdopt(id, p) : entries'[i] = entries[i]
    BY <1>5 DEF AdoptRemote, TouchedByAdopt, DuplicateAt, IndexInv, TypeOK
<1>6. ASSUME NEW vault \in SUBSET Paths, NEW new \in [Untracked(vault) -> Fresh],
             ReconcileWithVault(c, vault, new)
      PROVE  \E ids \in SUBSET Ids :
                 /\ Ready(c) /\ Save(c, ids) /\ Undisturbed
                 /\ \A i \in Ids \ ids : entries'[i] = entries[i]
    <2> DEFINE ids == {new[p] : p \in DOMAIN new} \cup Vanished(vault)
    <2>1. ids \in SUBSET Ids
        BY DEF Fresh, Vanished
    <2>2. Ready(c) /\ Save(c, ids) /\ Undisturbed
        BY <1>6 DEF ReconcileWithVault
    <2>3. \A i \in Ids \ ids : entries'[i] = entries[i]
        BY <1>6 DEF ReconcileWithVault
    <2> QED BY <2>1, <2>2, <2>3
<1>7. \A x \in Ids : {x} \in SUBSET Ids
    OBVIOUS
<1>8. CASE \E p \in Paths, id \in Ids : RegisterNew(c, p, id)
    BY <1>2, <1>7, <1>8
<1>9. CASE \E p, q \in Paths :
              \/ ReviseAt(c, p) \/ RegisterResurrects(c, p) \/ MarkDeleted(c, p) \/ MarkConflicted(c, p)
              \/ UpdatePath(c, p, q)
    BY <1>3, <1>7, <1>9
<1>10. CASE \E id \in Ids : Revise(c, id) \/ ClearConflict(c, id)
    BY <1>4, <1>7, <1>10
<1>11. CASE \E id \in Ids, p \in Paths : AdoptRemote(c, id, p)
    BY <1>5, <1>11
<1>12. CASE \E vault \in SUBSET Paths : \E new \in [Untracked(vault) -> Fresh] :
               ReconcileWithVault(c, vault, new)
    BY <1>6, <1>12
<1> QED BY <1>8, <1>9, <1>10, <1>11, <1>12
        DEF Mutate, UpdateContentHash, RecordStat, SetHeadVersion, SetSyncedPath

LEMMA CallsStep == Alone /\ IndexInv /\ CallsInv /\ [Next]_vars => CallsInv'
<1> SUFFICES ASSUME Alone, IndexInv, CallsInv, [Next]_vars PROVE CallsInv'
    OBVIOUS
<1> USE DEF CallsInv, CallInv
<1>1. ASSUME NEW c \in Callers, Mutate(c) PROVE CallsInv'
    <2>1. PICK ids \in SUBSET Ids : Ready(c) /\ Save(c, ids) /\ Undisturbed
        BY <1>1, MutateSaves
    <2>2. calls'[c].pc \in {"idle", "dir"} /\ running'
        BY <2>1 DEF Save, Goto, Step, Ready, Undisturbed, IndexInv, TypeOK, CallRecords
    <2> QED BY <2>2 DEF Alone
<1>2. ASSUME NEW c \in Callers, Flush(c) PROVE CallsInv'
    <2>1. calls'[c].pc = "dir" /\ running'
        BY <1>2 DEF Flush, Goto, Step, Ready, Undisturbed, IndexInv, TypeOK, CallRecords
    <2> QED BY <2>1 DEF Alone
<1>3. ASSUME NEW c \in Callers, FlushSerialises(c) PROVE CallsInv'
    <2>1. calls'[c].pc = "append" /\ calls'[c].delta = Delta(dirtyIds) /\ running'
        BY <1>3 DEF FlushSerialises, Step, Undisturbed, IndexInv, TypeOK, CallRecords
    <2>2. Delta(dirtyIds)' = Delta(dirtyIds)
        BY <1>3 DEF FlushSerialises, Delta
    <2> QED BY <2>1, <2>2 DEF Alone
<1>4. ASSUME NEW c \in Callers, AppendResolves(c) PROVE CallsInv'
    <2>1. calls'[c].pc \in {"idle", "foldDir"} /\ running'
        <3>1. PICK pc \in {"idle", "foldDir"} : Step(c, [Idle EXCEPT !.pc = pc])
            BY <1>4 DEF AppendResolves
        <3> QED BY <3>1, <1>4 DEF AppendResolves, Step, Idle, IndexInv, TypeOK
    <2> QED BY <2>1 DEF Alone
<1>5. ASSUME NEW c \in Callers, CallRejects(c) PROVE CallsInv'
    <2>1. calls'[c].pc = "idle" /\ running'
        BY <1>5 DEF CallRejects, Step, Idle, Undisturbed, IndexInv, TypeOK
    <2> QED BY <2>1 DEF Alone
<1>6. ASSUME NEW c \in Callers, NEW aged \in SUBSET Ids, NEW pinned \in SUBSET Ids,
             Compact(c, aged, pinned)
      PROVE  CallsInv'
    <2>1. calls'[c].pc = "foldDir" /\ running'
        BY <1>6 DEF Compact, Goto, Step, Ready, IndexInv, TypeOK, CallRecords
    <2> QED BY <2>1 DEF Alone
<1>7. ASSUME NEW c \in Callers, CompactSerialises(c) PROVE CallsInv'
    <2>1. calls'[c].pc = "snap" /\ calls'[c].fold = entries /\ calls'[c].dropped = unfolded /\ running'
        BY <1>7 DEF CompactSerialises, Step, Undisturbed, IndexInv, TypeOK, CallRecords
    <2> QED BY <1>7, <2>1 DEF Alone, CompactSerialises, Undisturbed
<1>8. ASSUME NEW c \in Callers, SnapshotWritten(c) PROVE CallsInv'
    <2>1. calls'[c].pc = "trunc" /\ calls'[c].dropped = calls[c].dropped /\ running'
        BY <1>8 DEF SnapshotWritten, Goto, Step, IndexInv, TypeOK, CallRecords
    <2> QED BY <1>8, <2>1 DEF Alone, SnapshotWritten
<1>9. ASSUME NEW c \in Callers, JournalTruncated(c) \/ JournalRemoved(c) PROVE CallsInv'
    <2>1. calls'[c].pc = "idle" /\ running'
        BY <1>9 DEF JournalTruncated, JournalRemoved, Step, Idle, IndexInv, TypeOK
    <2> QED BY <2>1 DEF Alone
<1>10. ASSUME NEW c \in Callers, ResetAll(c) PROVE CallsInv'
    <2>1. calls'[c].pc = "rmSnapshot" /\ running' /\ entries' = Empty
        BY <1>10 DEF ResetAll, Goto, Step, Ready, Undisturbed, IndexInv, TypeOK, CallRecords
    <2> QED BY <2>1 DEF Alone, Empty
<1>11. ASSUME NEW c \in Callers, SnapshotRemoved(c) PROVE CallsInv'
    <2>1. calls'[c].pc = "rmJournal" /\ running' /\ snapshot' = Empty /\ entries' = entries
        BY <1>11 DEF SnapshotRemoved, Goto, Step, IndexInv, TypeOK, CallRecords
    <2>2. entries = Empty
        BY <1>11 DEF SnapshotRemoved
    <2> QED BY <2>1, <2>2 DEF Alone, Empty
<1>12. ASSUME NEW c \in Callers, SuspendSaves(c) \/ ResumeSaves(c) PROVE CallsInv'
    <2>1. calls'[c].pc = "idle" /\ running'
        BY <1>12 DEF SuspendSaves, ResumeSaves, Ready, Undisturbed
    <2> QED BY <2>1 DEF Alone
<1>13. CASE Crash
    <2>1. unfolded' = {} /\ \A c \in Callers : calls'[c].pc = "idle"
        BY <1>13 DEF Crash, LoseMemory, Idle
    <2> QED BY <2>1
<1>14. CASE Load
    <2>1. \A c \in Callers : calls'[c].pc \in {"idle", "foldDir"}
        <3>1. CASE calls' = calls
            BY <1>14, <3>1 DEF Load
        <3>2. ASSUME NEW c \in Callers, Step(c, [Idle EXCEPT !.pc = "foldDir", !.load = TRUE])
              PROVE  \A d \in Callers : calls'[d].pc \in {"idle", "foldDir"}
            <4>1. calls'[c].pc = "foldDir"
                BY <3>2 DEF Step, Idle, IndexInv, TypeOK
            <4> QED BY <4>1 DEF Alone
        <3> QED BY <1>14, <3>1, <3>2 DEF Load
    <2> QED BY <1>14, <2>1 DEF Load
<1>15. CASE UNCHANGED vars
    BY <1>15 DEF vars, memory, disk, Delta
<1>16. ASSUME NEW c \in Callers, Persist(c) PROVE CallsInv'
    BY <1>16, <1>2, <1>3, <1>4, <1>5, <1>6, <1>7, <1>8, <1>9, <1>10, <1>11 DEF Persist
<1> QED BY <1>1, <1>12, <1>13, <1>14, <1>15, <1>16 DEF Next

----------------------------------------------------------------------------
(* The files of the registry keep a DurableMap.  Its variables here are    *)
(* MapOf, OnDisk and OwedOf.                                               *)

MapOf  == IF running THEN entries ELSE OnDisk
OwedOf == IF running THEN Owed ELSE {}

LEMMA OwedAlone ==
    ASSUME Alone, NEW c \in Callers
    PROVE  /\ Owed  = IF calls[c].pc  \in {"rmSnapshot", "rmJournal"} THEN Ids ELSE dirtyIds \cup unfolded
           /\ Owed' = IF calls'[c].pc \in {"rmSnapshot", "rmJournal"} THEN Ids ELSE dirtyIds' \cup unfolded'
BY DEF Alone, Owed

LEMMA OnDiskType ==
    ASSUME IndexInv, IndexInv'
    PROVE  OnDisk \in Maps /\ OnDisk' \in Maps /\ MapOf \in Maps /\ MapOf' \in Maps
<1>1. OnDisk \in Maps
    BY ReplayType DEF OnDisk, IndexInv, TypeOK
<1>2. OnDisk' \in Maps
    BY ReplayType DEF OnDisk, IndexInv, TypeOK
<1> QED BY <1>1, <1>2 DEF MapOf, IndexInv, TypeOK

\* The steps of the abstract map, in terms of the registry.
LEMMA ChangeStep ==
    ASSUME NEW ids \in SUBSET Ids, MapOf' \in Maps, \A k \in Ids \ ids : MapOf'[k] = MapOf[k],
           OwedOf' = OwedOf \cup ids, OnDisk' = OnDisk
    PROVE  Durable!Next
BY DEF MapOf, OwedOf, Durable!Next, Durable!Change, Maps, Durable!Maps

LEMMA SaveStep ==
    ASSUME NEW ids \in SUBSET Ids, MapOf' = MapOf,
           OnDisk' = [k \in Ids |-> IF k \in ids THEN MapOf[k] ELSE OnDisk[k]],
           OwedOf' \subseteq OwedOf, OwedOf \ OwedOf' \subseteq ids
    PROVE  Durable!Next
BY DEF MapOf, OwedOf, Durable!Next, Durable!Save

LEMMA RestartStep ==
    ASSUME NEW ids \in SUBSET Ids, MapOf' = OnDisk',
           OnDisk' = [k \in Ids |-> IF k \in ids THEN MapOf[k] ELSE OnDisk[k]],
           OwedOf' = {}
    PROVE  Durable!Next
BY DEF MapOf, OwedOf, Durable!Next, Durable!Restart

LEMMA StutterStep ==
    ASSUME MapOf' = MapOf, OnDisk' = OnDisk, OwedOf' = OwedOf
    PROVE  UNCHANGED Durable!durable
BY DEF MapOf, OwedOf, Durable!durable

LEMMA RefinementStep ==
    Alone /\ IndexInv /\ IndexInv' /\ CallsInv /\ [Next]_vars => [Durable!Next]_(Durable!durable)
<1> SUFFICES ASSUME Alone, IndexInv, IndexInv', CallsInv, [Next]_vars
             PROVE  Durable!Next \/ UNCHANGED Durable!durable
    OBVIOUS
<1>0. /\ dirtyIds \subseteq Ids /\ unfolded \subseteq Ids /\ dirtyIds' \subseteq Ids /\ unfolded' \subseteq Ids
      /\ entries \in Maps /\ entries' \in Maps
      /\ OnDisk \in Maps /\ OnDisk' \in Maps /\ MapOf \in Maps /\ MapOf' \in Maps
    BY OnDiskType DEF IndexInv, TypeOK
<1>1. ASSUME NEW c \in Callers, Mutate(c) PROVE Durable!Next
    <2>1. PICK ids \in SUBSET Ids :
              /\ Ready(c) /\ Save(c, ids) /\ Undisturbed
              /\ \A i \in Ids \ ids : entries'[i] = entries[i]
        BY <1>1, MutateSaves
    <2>2. calls[c].pc = "idle" /\ calls'[c].pc \in {"idle", "dir"} /\ running /\ running'
        BY <2>1 DEF Save, Goto, Step, Ready, Undisturbed, IndexInv, TypeOK, CallRecords
    <2>3. OwedOf = dirtyIds \cup unfolded /\ OwedOf' = dirtyIds' \cup unfolded'
        BY <2>2, OwedAlone DEF OwedOf
    <2>4. dirtyIds' = dirtyIds \cup ids /\ unfolded' = unfolded
        BY <2>1 DEF Save, Undisturbed
    <2>5. MapOf = entries /\ MapOf' = entries'
        BY <2>2 DEF MapOf
    <2>6. OnDisk' = OnDisk
        BY <2>1 DEF Undisturbed, disk, OnDisk
    <2>7. OwedOf' = OwedOf \cup ids
        BY <2>3, <2>4
    <2> QED BY <1>0, <2>1, <2>5, <2>6, <2>7, ChangeStep
<1>2. ASSUME NEW c \in Callers,
             \/ Flush(c) \/ FlushSerialises(c) \/ CallRejects(c) \/ CompactSerialises(c)
             \/ SuspendSaves(c) \/ ResumeSaves(c)
      PROVE  UNCHANGED Durable!durable
    <2>1. Undisturbed /\ UNCHANGED <<entries, dirtyIds>>
        BY <1>2 DEF Flush, FlushSerialises, CallRejects, CompactSerialises, SuspendSaves, ResumeSaves
    <2>2. running /\ {calls[c].pc, calls'[c].pc} \cap {"rmSnapshot", "rmJournal"} = {}
        BY <1>2 DEF Flush, FlushSerialises, CallRejects, CompactSerialises, SuspendSaves, ResumeSaves,
                    Ready, Goto, Step, Idle, IndexInv, TypeOK, CallRecords
    <2>3. OwedOf' = OwedOf
        BY <2>1, <2>2, OwedAlone DEF OwedOf, Undisturbed
    <2>4. MapOf' = MapOf /\ OnDisk' = OnDisk
        BY <2>1, <2>2 DEF MapOf, OnDisk, Undisturbed, disk
    <2> QED BY <2>3, <2>4, StutterStep
<1>3. ASSUME NEW c \in Callers, AppendResolves(c) PROVE Durable!Next
    <2>1. PICK pc \in {"idle", "foldDir"} : Step(c, [Idle EXCEPT !.pc = pc])
        BY <1>3 DEF AppendResolves
    <2>2. calls[c].pc = "append" /\ calls'[c].pc \in {"idle", "foldDir"} /\ running /\ running'
        BY <1>3, <2>1 DEF AppendResolves, Step, Idle, IndexInv, TypeOK
    <2>3. OwedOf = dirtyIds \cup unfolded /\ OwedOf' = unfolded
        BY <1>3, <2>2, OwedAlone DEF OwedOf, AppendResolves
    <2>4. calls[c].delta = Delta(dirtyIds) /\ calls[c].delta \in Deltas
        BY <2>2 DEF CallsInv, CallInv, IndexInv, TypeOK, CallRecords
    <2>5. OnDisk' = [i \in Ids |-> IF calls[c].delta[i] # NoLine THEN calls[c].delta[i] ELSE OnDisk[i]]
        BY <1>3, <2>4, ReplayAppend DEF AppendResolves, OnDisk, IndexInv, TypeOK
    <2>6. \A i \in Ids : calls[c].delta[i] = IF i \in dirtyIds THEN entries[i] ELSE NoLine
        BY <2>4 DEF Delta
    <2>7. \A i \in Ids : entries[i] # NoLine
        BY <1>0, NothingIsNoEntry DEF Maps
    <2>8. MapOf' = MapOf /\ MapOf = entries
        BY <1>3, <2>2 DEF MapOf, AppendResolves
    <2>9. OnDisk' = [i \in Ids |-> IF i \in dirtyIds THEN MapOf[i] ELSE OnDisk[i]]
        BY <2>5, <2>6, <2>7, <2>8
    <2> QED BY <1>0, <2>3, <2>8, <2>9, SaveStep
<1>4. ASSUME NEW c \in Callers, NEW aged \in SUBSET Ids, NEW pinned \in SUBSET Ids,
             Compact(c, aged, pinned)
      PROVE  Durable!Next
    <2> DEFINE gone == Reclaimed(aged, pinned)
    <2>1. gone \in SUBSET Ids
        BY DEF Reclaimed
    <2>2. calls[c].pc = "idle" /\ calls'[c].pc = "foldDir" /\ running /\ running'
        BY <1>4 DEF Compact, Goto, Step, Ready, IndexInv, TypeOK, CallRecords
    <2>3. OwedOf = dirtyIds \cup unfolded /\ OwedOf' = dirtyIds' \cup unfolded'
        BY <2>2, OwedAlone DEF OwedOf
    <2>4. dirtyIds' = dirtyIds /\ unfolded' = unfolded \cup gone
        BY <1>4 DEF Compact
    <2>5. MapOf = entries /\ MapOf' = entries' /\ \A i \in Ids \ gone : entries'[i] = entries[i]
        BY <1>4, <2>2 DEF MapOf, Compact
    <2>6. OnDisk' = OnDisk
        BY <1>4 DEF Compact, disk, OnDisk
    <2> HIDE DEF gone
    <2>7. OwedOf' = OwedOf \cup gone
        BY <2>3, <2>4
    <2> QED BY <1>0, <2>1, <2>5, <2>6, <2>7, ChangeStep
<1>5. ASSUME NEW c \in Callers, SnapshotWritten(c) \/ SnapshotRemoved(c) PROVE Durable!Next
    <2>1. /\ running /\ running' /\ UNCHANGED <<entries, dirtyIds, unfolded, journal>>
          /\ {calls[c].pc, calls'[c].pc} \in {{"snap", "trunc"}, {"rmSnapshot", "rmJournal"}}
          /\ calls[c].pc = "snap" <=> calls'[c].pc = "trunc"
        BY <1>5 DEF SnapshotWritten, SnapshotRemoved, Goto, Step, IndexInv, TypeOK, CallRecords
    <2>2. OwedOf' = OwedOf
        BY <2>1, OwedAlone DEF OwedOf
    <2>3. snapshot' = entries
        BY <1>5 DEF SnapshotWritten, SnapshotRemoved, CallsInv, CallInv
    <2> DEFINE ids == {i \in Ids : Last(journal, i) = {}}
    <2>4. OnDisk' = [i \in Ids |-> IF Last(journal, i) = {} THEN entries[i] ELSE OnDisk[i]]
        BY <1>0, <2>1, <2>3, ReplayBase DEF OnDisk, IndexInv, TypeOK
    <2>5. MapOf' = MapOf /\ MapOf = entries
        BY <2>1 DEF MapOf
    <2>6. OnDisk' = [i \in Ids |-> IF i \in ids THEN MapOf[i] ELSE OnDisk[i]]
        BY <2>4, <2>5
    <2>7. ids \in SUBSET Ids
        OBVIOUS
    <2> HIDE DEF ids
    <2> QED BY <2>2, <2>5, <2>6, <2>7, SaveStep
<1>6. ASSUME NEW c \in Callers, JournalTruncated(c) \/ JournalRemoved(c) PROVE Durable!Next
    <2>1. running /\ running' /\ entries' = entries /\ calls'[c].pc = "idle" /\ journal' = <<>>
        BY <1>6 DEF JournalTruncated, JournalRemoved, Step, Idle, IndexInv, TypeOK
    <2>2. snapshot' = entries
        BY <1>6 DEF JournalTruncated, JournalRemoved, CallsInv, CallInv
    <2>3. OwedOf' = dirtyIds' \cup unfolded' /\ OwedOf \subseteq Ids
        BY <1>0, <2>1, OwedAlone DEF OwedOf
    <2>4. OwedOf' \subseteq OwedOf
        <3>1. CASE JournalTruncated(c)
            <4>1. dirtyIds' = {} /\ unfolded' \subseteq unfolded /\ calls[c].pc = "trunc"
                BY <3>1 DEF JournalTruncated
            <4> QED BY <4>1, <2>1, <2>3, OwedAlone DEF OwedOf
        <3>2. CASE JournalRemoved(c)
            <4>1. calls[c].pc = "rmJournal"
                BY <3>2 DEF JournalRemoved
            <4> QED BY <1>0, <4>1, <2>1, <2>3, OwedAlone DEF OwedOf
        <3> QED BY <1>6, <3>1, <3>2
    <2>5. OnDisk' = entries
        BY <1>0, <2>1, <2>2, ReplayEmpty DEF OnDisk
    <2>6. MapOf' = MapOf /\ MapOf = entries
        BY <2>1 DEF MapOf
    <2>7. OnDisk' = [i \in Ids |-> IF i \in Ids THEN MapOf[i] ELSE OnDisk[i]]
        BY <1>0, <2>5, <2>6 DEF Maps
    <2> QED BY <2>3, <2>4, <2>6, <2>7, SaveStep
<1>7. ASSUME NEW c \in Callers, ResetAll(c) PROVE Durable!Next
    <2>1. calls[c].pc = "idle" /\ calls'[c].pc = "rmSnapshot" /\ running /\ running'
        BY <1>7 DEF ResetAll, Goto, Step, Ready, Undisturbed, IndexInv, TypeOK, CallRecords
    <2>2. OwedOf \subseteq Ids /\ OwedOf' = Ids
        BY <1>0, <2>1, OwedAlone DEF OwedOf
    <2>3. OnDisk' = OnDisk
        BY <1>7 DEF ResetAll, Undisturbed, disk, OnDisk
    <2>4. OwedOf' = OwedOf \cup Ids
        BY <2>2
    <2> QED BY <1>0, <2>3, <2>4, ChangeStep
<1>8. CASE Crash
    <2>1. running /\ ~running' /\ snapshot' = snapshot
        BY <1>8 DEF Crash, LoseMemory
    <2>2. MapOf = entries /\ MapOf' = OnDisk' /\ OwedOf' = {}
        BY <2>1 DEF MapOf, OwedOf
    <2>3. CASE journal' = journal
        <3>1. OnDisk' = OnDisk
            BY <2>1, <2>3 DEF OnDisk
        <3>2. OnDisk' = [i \in Ids |-> IF i \in {} THEN MapOf[i] ELSE OnDisk[i]]
            BY <1>0, <3>1 DEF Maps
        <3>3. {} \in SUBSET Ids
            OBVIOUS
        <3> QED BY <2>2, <3>2, <3>3, RestartStep
    <2>4. ASSUME NEW c \in Callers, NEW S \in SUBSET Ids, calls[c].pc = "append",
                 journal' = Append(journal, [i \in Ids |-> IF i \in S THEN calls[c].delta[i] ELSE NoLine])
          PROVE  Durable!Next
        <3> DEFINE d == [i \in Ids |-> IF i \in S THEN calls[c].delta[i] ELSE NoLine]
        <3>1. calls[c].delta = Delta(dirtyIds) /\ calls[c].delta \in Deltas
            BY <2>4 DEF CallsInv, CallInv, IndexInv, TypeOK, CallRecords
        <3>2. d \in Deltas
            BY <3>1 DEF Deltas
        <3>3. \A i \in Ids : entries[i] # NoLine
            BY <1>0, NothingIsNoEntry DEF Maps
        <3>4. \A i \in Ids : d[i] = IF i \in S \cap dirtyIds THEN entries[i] ELSE NoLine
            BY <3>1 DEF Delta
        <3> HIDE DEF d
        <3>5. OnDisk' = [i \in Ids |-> IF d[i] # NoLine THEN d[i] ELSE OnDisk[i]]
            <4>1. journal' = Append(journal, d)
                BY <2>4 DEF d
            <4> QED BY <2>1, <4>1, <3>2, ReplayAppend DEF OnDisk, IndexInv, TypeOK
        <3>6. OnDisk' = [i \in Ids |-> IF i \in S \cap dirtyIds THEN MapOf[i] ELSE OnDisk[i]]
            BY <2>2, <3>3, <3>4, <3>5
        <3>7. S \cap dirtyIds \in SUBSET Ids
            OBVIOUS
        <3> QED BY <2>2, <3>6, <3>7, RestartStep
    <2> QED BY <1>8, <2>3, <2>4 DEF Crash
<1>9. CASE Load
    <2>1. ~running /\ running' /\ entries' = OnDisk /\ dirtyIds' = {} /\ unfolded' = {}
        BY <1>9 DEF Load, CallsInv
    <2>2. OnDisk' = OnDisk
        BY <1>9 DEF Load, disk, OnDisk
    <2>3. \A c \in Callers : calls'[c].pc \in {"idle", "foldDir"}
        <3>1. CASE calls' = calls
            BY <2>1, <3>1 DEF CallsInv
        <3>2. ASSUME NEW c \in Callers, Step(c, [Idle EXCEPT !.pc = "foldDir", !.load = TRUE])
              PROVE  \A d \in Callers : calls'[d].pc \in {"idle", "foldDir"}
            <4>1. calls'[c].pc = "foldDir"
                BY <3>2 DEF Step, Idle, IndexInv, TypeOK
            <4> QED BY <4>1 DEF Alone
        <3> QED BY <1>9, <3>1, <3>2 DEF Load
    <2>4. OwedOf = {} /\ OwedOf' = {}
        BY <2>1, <2>3 DEF OwedOf, Owed
    <2>5. MapOf' = MapOf
        BY <2>1 DEF MapOf
    <2> QED BY <2>2, <2>4, <2>5, StutterStep
<1>10. CASE UNCHANGED vars
    <2>1. MapOf' = MapOf /\ OnDisk' = OnDisk /\ OwedOf' = OwedOf
        BY <1>10 DEF vars, memory, disk, MapOf, OnDisk, OwedOf, Owed
    <2> QED BY <2>1, StutterStep
<1>11. ASSUME NEW c \in Callers, Persist(c) PROVE Durable!Next \/ UNCHANGED Durable!durable
    BY <1>11, <1>2, <1>3, <1>4, <1>5, <1>6, <1>7 DEF Persist
<1> QED BY <1>1, <1>2, <1>8, <1>9, <1>10, <1>11 DEF Next

LEMMA CallsHold == Spec /\ Alone => []CallsInv
<1>1. Init => CallsInv
    BY DEF Init, CallsInv, CallInv, Idle
<1>2. SUFFICES ASSUME Alone PROVE Spec => []CallsInv
    OBVIOUS
<1>3. IndexInv /\ CallsInv /\ [Next]_vars => CallsInv'
    BY <1>2, CallsStep
<1> QED BY <1>1, <1>3, IndexHolds, PTL DEF Spec

\* While no two calls overlap, snapshot and journal behave as one map that is saved entry
\* by entry, through failed writes and crashes (flush, compact, resetAll, load).
THEOREM FilesAreADurableMap == Spec /\ Alone => ImplementsDurableMap
<1>1. SUFFICES ASSUME Alone PROVE Spec => ImplementsDurableMap
    OBVIOUS
<1>2. Init => Durable!Init
    <2>1. Empty \in Maps
        BY DEF Empty, Maps
    <2>2. Init => Owed = {} /\ OnDisk = Empty
        BY <2>1, ReplayEmpty DEF Init, Owed, OnDisk, Idle
    <2> QED BY <2>2 DEF Init, Durable!Init, Empty
<1>3. IndexInv /\ IndexInv' /\ CallsInv /\ [Next]_vars => [Durable!Next]_(Durable!durable)
    BY <1>1, RefinementStep
<1>4. Spec => []CallsInv
    BY <1>1, CallsHold
<1> QED BY <1>2, <1>3, <1>4, IndexHolds, PTL DEF Spec, ImplementsDurableMap, Durable!Spec

\* What DurableMap promises.
Settled == \A i \in Ids \ OwedOf : OnDisk[i] = MapOf[i]

LEMMA SettledStep == Settled /\ OwedOf \subseteq Ids /\ [Durable!Next]_(Durable!durable) => Settled'
<1> SUFFICES ASSUME Settled, OwedOf \subseteq Ids, [Durable!Next]_(Durable!durable) PROVE Settled'
    OBVIOUS
<1>1. CASE Durable!Change
    <2>1. PICK S \in SUBSET Ids :
              /\ \A k \in Ids \ S : MapOf'[k] = MapOf[k]
              /\ OwedOf' = OwedOf \cup S /\ OnDisk' = OnDisk
        BY <1>1 DEF Durable!Change, MapOf, OwedOf
    <2> QED BY <2>1 DEF Settled
<1>2. CASE Durable!Save
    <2>1. PICK S \in SUBSET Ids :
              /\ OnDisk' = [k \in Ids |-> IF k \in S THEN MapOf[k] ELSE OnDisk[k]]
              /\ OwedOf' \subseteq OwedOf /\ OwedOf \ OwedOf' \subseteq S /\ MapOf' = MapOf
        BY <1>2 DEF Durable!Save, MapOf, OwedOf
    <2> QED BY <2>1 DEF Settled
<1>3. CASE Durable!OweMore
    <2>1. OwedOf \subseteq OwedOf' /\ MapOf' = MapOf /\ OnDisk' = OnDisk
        BY <1>3 DEF Durable!OweMore, MapOf, OwedOf
    <2> QED BY <2>1 DEF Settled
<1>4. CASE Durable!Restart
    <2>1. MapOf' = OnDisk'
        BY <1>4 DEF Durable!Restart, MapOf
    <2> QED BY <2>1 DEF Settled
<1>5. CASE UNCHANGED Durable!durable
    <2>1. OwedOf' = OwedOf /\ MapOf' = MapOf /\ OnDisk' = OnDisk
        BY <1>5 DEF Durable!durable, MapOf, OwedOf
    <2> QED BY <2>1 DEF Settled
<1> QED BY <1>1, <1>2, <1>3, <1>4, <1>5 DEF Durable!Next

\* While no two calls overlap, a restart brings back every entry that is not marked for
\* the next flush (flush, compact, resetAll, load).
THEOREM UnmarkedIsSavedAlone == Spec /\ Alone => []UnmarkedIsSaved
<1>1. SUFFICES ASSUME Alone PROVE Spec => []UnmarkedIsSaved
    OBVIOUS
<1>2. Init => Settled
    <2>1. Empty \in Maps
        BY DEF Empty, Maps
    <2>2. Init => OnDisk = Empty /\ MapOf = Empty
        BY <2>1, ReplayEmpty DEF Init, OnDisk, MapOf
    <2> QED BY <2>2 DEF Settled
<1>3. IndexInv => OwedOf \subseteq Ids
    BY DEF IndexInv, TypeOK, OwedOf, Owed
<1>4. IndexInv /\ IndexInv' /\ CallsInv /\ Settled /\ [Next]_vars => Settled'
    BY <1>1, <1>3, RefinementStep, SettledStep
<1>5. Settled => UnmarkedIsSaved
    BY DEF Settled, UnmarkedIsSaved, MapOf, OwedOf
<1>6. Spec => []CallsInv
    BY <1>1, CallsHold
<1> QED BY <1>2, <1>4, <1>5, <1>6, IndexHolds, PTL DEF Spec
=============================================================================
