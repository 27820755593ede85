---------------------------- MODULE OpLog_proofs ----------------------------
(***************************************************************************)
(* The properties of OpLog for every set of ops, every assignment of ops   *)
(* to files and every queue bound.                                         *)
(***************************************************************************)
EXTENDS OpLog, SequenceTheorems, FiniteSetTheorems, TLAPS

PersistRecords == [kind : {"append", "rewrite"}, ops : SUBSET Ops, data : Seq(Ops)]

----------------------------------------------------------------------------
(* Lemmas about the operators *)

\* The tail the append writes: pendingOps.slice(oplogPersistedCount).
LEMMA SliceProperties ==
    ASSUME NEW S, NEW s \in Seq(S), NEW n \in Nat
    PROVE  /\ Slice(s, n) \in Seq(S)
           /\ Len(Slice(s, n)) = IF n <= Len(s) THEN Len(s) - n ELSE 0
           /\ \A i \in 1..Len(Slice(s, n)) : Slice(s, n)[i] = s[n + i]
BY DEF Slice

\* The image of an extended sequence.
LEMMA ImageAppend ==
    ASSUME NEW S, NEW s \in Seq(S), NEW x
    PROVE  Image(Append(s, x)) = Image(s) \cup {x}
<1>1. DOMAIN s = 1..Len(s) /\ DOMAIN Append(s, x) = 1..(Len(s) + 1)
    OBVIOUS
<1>2. \A i \in 1..Len(s) : Append(s, x)[i] = s[i]
    OBVIOUS
<1>3. Append(s, x)[Len(s) + 1] = x
    OBVIOUS
<1> QED BY <1>1, <1>2, <1>3 DEF Image

\* The image of a concatenation.
LEMMA ImageConcat ==
    ASSUME NEW S, NEW s \in Seq(S), NEW t \in Seq(S)
    PROVE  Image(s \o t) = Image(s) \cup Image(t)
<1>1. DOMAIN s = 1..Len(s) /\ DOMAIN t = 1..Len(t) /\ DOMAIN (s \o t) = 1..(Len(s) + Len(t))
    OBVIOUS
<1>2. ASSUME NEW x \in Image(s \o t) PROVE x \in Image(s) \cup Image(t)
    <2>1. PICK i \in 1..(Len(s) + Len(t)) : x = (s \o t)[i]
        BY <1>1, <1>2 DEF Image
    <2>2. CASE i <= Len(s)
        BY <1>1, <2>1, <2>2 DEF Image
    <2>3. CASE i > Len(s)
        <3>1. i - Len(s) \in 1..Len(t) /\ x = t[i - Len(s)]
            BY <2>1, <2>3
        <3> QED BY <1>1, <3>1 DEF Image
    <2> QED BY <2>2, <2>3
<1>3. ASSUME NEW x \in Image(s) PROVE x \in Image(s \o t)
    <2>1. PICK i \in 1..Len(s) : x = s[i]
        BY <1>1, <1>3 DEF Image
    <2>2. i \in 1..(Len(s) + Len(t)) /\ x = (s \o t)[i]
        BY <2>1
    <2> QED BY <1>1, <2>2 DEF Image
<1>4. ASSUME NEW x \in Image(t) PROVE x \in Image(s \o t)
    <2>1. PICK i \in 1..Len(t) : x = t[i]
        BY <1>1, <1>4 DEF Image
    <2>2. Len(s) + i \in 1..(Len(s) + Len(t)) /\ x = (s \o t)[Len(s) + i]
        BY <2>1
    <2> QED BY <1>1, <2>2 DEF Image
<1> QED BY <1>2, <1>3, <1>4

\* An element of a concatenation is an element of one of its parts.
LEMMA ConcatIndex ==
    ASSUME NEW S, NEW s \in Seq(S), NEW t \in Seq(S)
    PROVE  /\ s \o t \in Seq(S)
           /\ Len(s \o t) = Len(s) + Len(t)
           /\ \A i \in 1..Len(s \o t) :
                \/ i \in 1..Len(s) /\ (s \o t)[i] = s[i]
                \/ i - Len(s) \in 1..Len(t) /\ (s \o t)[i] = t[i - Len(s)]
<1>1. s \o t \in Seq(S) /\ Len(s \o t) = Len(s) + Len(t)
    OBVIOUS
<1>2. ASSUME NEW i \in 1..(Len(s) + Len(t))
      PROVE  \/ i \in 1..Len(s) /\ (s \o t)[i] = s[i]
             \/ i - Len(s) \in 1..Len(t) /\ (s \o t)[i] = t[i - Len(s)]
    <2>1. CASE i <= Len(s)
        BY <2>1
    <2>2. CASE i > Len(s)
        BY <2>2
    <2> QED BY <2>1, <2>2
<1> QED BY <1>1, <1>2

\* Disjoint parts without repetition concatenate without repetition.
LEMMA ConcatInjective ==
    ASSUME NEW S, NEW s \in Seq(S), NEW t \in Seq(S),
           \A i, j \in 1..Len(s) : s[i] = s[j] => i = j,
           \A i, j \in 1..Len(t) : t[i] = t[j] => i = j,
           \A i \in 1..Len(t), j \in 1..Len(s) : t[i] # s[j]
    PROVE  \A i, j \in 1..Len(s \o t) : (s \o t)[i] = (s \o t)[j] => i = j
<1> SUFFICES ASSUME NEW i \in 1..Len(s \o t), NEW j \in 1..Len(s \o t),
                    (s \o t)[i] = (s \o t)[j]
             PROVE  i = j
    OBVIOUS
<1>0. Len(s) \in Nat /\ Len(t) \in Nat /\ Len(s \o t) = Len(s) + Len(t)
    BY ConcatIndex
<1> DEFINE c == s \o t
<1>1. \/ i \in 1..Len(s) /\ c[i] = s[i]
      \/ i - Len(s) \in 1..Len(t) /\ c[i] = t[i - Len(s)]
    BY ConcatIndex
<1>2. \/ j \in 1..Len(s) /\ c[j] = s[j]
      \/ j - Len(s) \in 1..Len(t) /\ c[j] = t[j - Len(s)]
    BY ConcatIndex
<1>3. c[i] = c[j] /\ i \in Int /\ j \in Int
    BY <1>0
<1> HIDE DEF c
<1>4. CASE i \in 1..Len(s) /\ c[i] = s[i] /\ j \in 1..Len(s) /\ c[j] = s[j]
    BY <1>3, <1>4
<1>5. CASE i - Len(s) \in 1..Len(t) /\ c[i] = t[i - Len(s)] /\ j - Len(s) \in 1..Len(t) /\ c[j] = t[j - Len(s)]
    <2>1. i - Len(s) = j - Len(s)
        BY <1>3, <1>5
    <2> QED BY <1>0, <1>3, <2>1
<1>6. CASE i \in 1..Len(s) /\ c[i] = s[i] /\ j - Len(s) \in 1..Len(t) /\ c[j] = t[j - Len(s)]
    BY <1>3, <1>6
<1>7. CASE i - Len(s) \in 1..Len(t) /\ c[i] = t[i - Len(s)] /\ j \in 1..Len(s) /\ c[j] = s[j]
    BY <1>3, <1>7
<1> QED BY <1>1, <1>2, <1>4, <1>5, <1>6, <1>7

\* What a prune keeps: a sequence, each element taken from at or after its place.
LEMMA PruneKeeps ==
    ASSUME NEW S, NEW s \in Seq(S), NEW kept \in SUBSET DOMAIN s,
           NEW e \in Ascending(kept),
           NEW t, t = [k \in 1..Cardinality(kept) |-> s[e[k]]]
    PROVE  /\ t \in Seq(S)
           /\ Len(t) = Cardinality(kept)
           /\ \A k \in 1..Len(t) : e[k] \in kept /\ t[k] = s[e[k]]
           /\ \A i, j \in 1..Len(t) : i < j => e[i] < e[j]
           /\ Image(t) = {s[i] : i \in kept}
<1>0. IsFiniteSet(kept)
    <2>1. IsFiniteSet(1..Len(s)) BY FS_Interval
    <2> QED BY <2>1, FS_Subset
<1>1. Cardinality(kept) \in Nat
    BY <1>0, FS_CardinalityType
<1>2. \A k \in 1..Cardinality(kept) : e[k] \in kept /\ s[e[k]] \in S
    BY DEF Ascending
<1>3. t \in Seq(S) /\ Len(t) = Cardinality(kept)
    BY <1>1, <1>2, IsASeq
<1>4. \A x \in kept : \E i \in 1..Cardinality(kept) : e[i] = x
    BY DEF Ascending
<1> QED BY <1>2, <1>3, <1>4 DEF Ascending, Image

\* Strictly ascending positions are at or after their own index.
LEMMA AscendingDominates ==
    ASSUME NEW n \in Nat, NEW e, NEW m \in Nat,
           \A k \in 1..n : e[k] \in 1..m,
           \A i, j \in 1..n : i < j => e[i] < e[j]
    PROVE  \A k \in 1..n : e[k] >= k
<1> SUFFICES ASSUME NEW k \in 1..n PROVE e[k] >= k
    OBVIOUS
<1> DEFINE g == [i \in 1..k |-> e[i]]
<1>1. \A i \in 1..k : e[i] \in 1..e[k]
    BY SMT
<1>2. g \in [1..k -> 1..e[k]]
    BY <1>1
<1>3. \A i, j \in 1..k : i # j => e[i] # e[j]
    BY SMT
<1>4. g \in Injection(1..k, 1..e[k])
    BY <1>2, <1>3 DEF Injection, IsInjective
<1>5. e[k] \in Nat
    OBVIOUS
<1>6. /\ IsFiniteSet(1..e[k])
      /\ Cardinality(1..e[k]) = e[k]
      /\ Cardinality(1..k) = k
    <2>1. e[k] \in Int /\ k \in Int /\ 1 \in Int /\ k >= 1 /\ e[k] >= 1
        BY <1>5
    <2>2. IsFiniteSet(1..e[k]) /\ Cardinality(1..e[k]) = IF 1 > e[k] THEN 0 ELSE e[k] - 1 + 1
        BY <2>1, FS_Interval
    <2>3. Cardinality(1..k) = IF 1 > k THEN 0 ELSE k - 1 + 1
        BY <2>1, FS_Interval
    <2> QED BY <2>1, <2>2, <2>3
<1>7. Cardinality(1..k) <= Cardinality(1..e[k])
    BY <1>4, <1>6, FS_Injection
<1> QED BY <1>5, <1>6, <1>7

----------------------------------------------------------------------------
(* Type correctness *)

\* The strengthening that makes type correctness inductive: the file is clean, no op
\* stands twice in it, in the array or in a write in flight, and what is still to be
\* written is not in it yet.
Covered == IF active.kind = "append" THEN persisted + Len(active.data) ELSE Len(active.data)

CleanInv ==
    /\ openTail = FALSE
    /\ journal \in Seq(Ops)
    /\ \A i, j \in 1..Len(journal) : journal[i] = journal[j] => i = j
    /\ \A i, j \in 1..Len(pendingOps) : pendingOps[i] = pendingOps[j] => i = j
    /\ \A i \in 1..Len(journal) : journal[i] \in used
    /\ \A i \in 1..Len(pendingOps) : pendingOps[i] \in used
    /\ \A i \in 1..Len(pendingOps), j \in 1..Len(journal) :
         i > persisted => pendingOps[i] # journal[j]
    /\ active # NoPersist =>
         /\ \A i, j \in 1..Len(active.data) : active.data[i] = active.data[j] => i = j
         /\ \A i \in 1..Len(active.data) : active.data[i] \in used
         /\ active.kind = "append" =>
              \A i \in 1..Len(active.data), j \in 1..Len(journal) : active.data[i] # journal[j]
         /\ \A i \in 1..Len(pendingOps), j \in 1..Len(active.data) :
              i > Covered => pendingOps[i] # active.data[j]

\* A clean journal replays to itself, and has nothing to heal.
LEMMA CleanReplay ==
    ASSUME journal \in Seq(Ops),
           \A i, j \in 1..Len(journal) : journal[i] = journal[j] => i = j
    PROVE  Replay(journal) = journal /\ ~HasDuplicates(journal)
<1>0. DOMAIN journal = 1..Len(journal) /\ Len(journal) \in Nat
    OBVIOUS
<1>1. ASSUME NEW i \in DOMAIN journal PROVE i \in Kept(journal)
    <2>1. journal[i] \in Ops
        BY <1>1
    <2>2. ASSUME NEW j \in 1..(i - 1) PROVE journal[j] # journal[i]
        <3>1. j \in 1..Len(journal) /\ i \in 1..Len(journal) /\ j # i
            BY <1>0, <1>1
        <3> QED BY <3>1
    <2> QED BY <1>1, <2>1, <2>2 DEF Kept
<1>2. Kept(journal) = DOMAIN journal
    BY <1>1 DEF Kept
<1> QED BY <1>2 DEF Replay, HasDuplicates

\* The invariant holds initially.
LEMMA InitClean == Init => TypeOK /\ CleanInv
<1> SUFFICES ASSUME Init PROVE TypeOK /\ CleanInv
    OBVIOUS
<1>1. TypeOK
    <2>1. running \in BOOLEAN /\ openTail \in BOOLEAN
        BY Zenon DEF Init
    <2>2. /\ pendingOps \in Seq(Ops) /\ queue \in Seq(Requests) /\ journal \in Seq(Lines)
          /\ persisted \in Nat
        BY DEF Init
    <2>3. /\ used \subseteq Ops /\ dropped \subseteq Ops
          /\ settled \subseteq Ops /\ written \subseteq Ops /\ erased \subseteq Ops
        BY DEF Init
    <2>4. active = NoPersist
        BY DEF Init
    <2> QED BY <2>1, <2>2, <2>3, <2>4 DEF TypeOK
<1>2. CleanInv
    <2>1. Len(pendingOps) = 0 /\ Len(journal) = 0 /\ active = NoPersist /\ openTail = FALSE
        BY DEF Init
    <2>2. journal \in Seq(Ops)
        BY DEF Init
    <2> QED BY <2>1, <2>2 DEF CleanInv
<1> QED BY <1>1, <1>2

\* An op that is new to the log joins the array.
LEMMA ArrayGrows ==
    ASSUME TypeOK, CleanInv, NEW o \in Ops, o \notin used, pendingOps' = Append(pendingOps, o),
           used' = used \cup {o}, UNCHANGED <<persisted, active, disk>>
    PROVE  CleanInv'
<1>1. /\ Len(pendingOps') = Len(pendingOps) + 1 /\ Len(pendingOps) \in Nat
      /\ pendingOps'[Len(pendingOps')] = o
      /\ \A i \in 1..Len(pendingOps) : pendingOps'[i] = pendingOps[i]
    BY DEF TypeOK
<1>2. \A i \in 1..Len(pendingOps') : i \in 1..Len(pendingOps) \/ i = Len(pendingOps')
    BY <1>1
<1>3. UNCHANGED <<journal, openTail, Covered>>
    BY DEF disk, Covered
<1>4. /\ \A i, j \in 1..Len(pendingOps') : pendingOps'[i] = pendingOps'[j] => i = j
      /\ \A i \in 1..Len(pendingOps') : pendingOps'[i] \in used'
    <2>1. /\ \A i, j \in 1..Len(pendingOps) : pendingOps[i] = pendingOps[j] => i = j
          /\ \A i \in 1..Len(pendingOps) : pendingOps[i] \in used
        BY DEF CleanInv
    <2> QED BY <1>1, <1>2, <2>1
<1>5. \A i \in 1..Len(pendingOps'), j \in 1..Len(journal') :
          i > persisted' => pendingOps'[i] # journal'[j]
    <2>1. /\ \A j \in 1..Len(journal) : journal[j] \in used
          /\ \A i \in 1..Len(pendingOps), j \in 1..Len(journal) :
                 i > persisted => pendingOps[i] # journal[j]
        BY DEF CleanInv
    <2> QED BY <1>1, <1>2, <1>3, <2>1
<1>6. active' # NoPersist =>
          \A i \in 1..Len(pendingOps'), j \in 1..Len(active'.data) :
              i > Covered' => pendingOps'[i] # active'.data[j]
    <2>1. active # NoPersist =>
              /\ \A j \in 1..Len(active.data) : active.data[j] \in used
              /\ \A i \in 1..Len(pendingOps), j \in 1..Len(active.data) :
                     i > Covered => pendingOps[i] # active.data[j]
        BY DEF CleanInv
    <2> QED BY <1>1, <1>2, <1>3, <2>1
<1> QED BY <1>3, <1>4, <1>5, <1>6 DEF CleanInv

\* Every step keeps it.
LEMMA NextClean ==
    ASSUME TypeOK, CleanInv, [Next]_vars
    PROVE  TypeOK' /\ CleanInv'
<1>a. Image(pendingOps) \subseteq Ops
    BY DEF Image, TypeOK
<1>1. ASSUME NEW o \in Ops, RecordOp(o) PROVE TypeOK' /\ CleanInv'
    <2>1. Request("append", {o}) \in Requests
        BY DEF Request, Requests
    <2>2. TypeOK'
        BY <1>1, <2>1 DEF RecordOp, TypeOK, disk
    <2>3. CleanInv'
        BY <1>1, ArrayGrows DEF RecordOp
    <2> QED BY <2>2, <2>3
<1>2. ASSUME NEW o \in Ops, CapturePush(o) PROVE TypeOK' /\ CleanInv'
    <2>1. TypeOK'
        BY <1>2 DEF CapturePush, TypeOK, disk
    <2>2. CleanInv'
        BY <1>2, ArrayGrows DEF CapturePush
    <2> QED BY <2>1, <2>2
<1>3. CASE CaptureCheckpoint
    <2>1. Request("append", Image(pendingOps)) \in Requests
        BY <1>a DEF Request, Requests
    <2>2. TypeOK'
        BY <1>3, <2>1 DEF CaptureCheckpoint, TypeOK, disk, history
    <2>3. CleanInv'
        BY <1>3 DEF CaptureCheckpoint, CleanInv, Covered, disk, history
    <2> QED BY <2>2, <2>3
<1>4. CASE ClearOps
    <2>1. Request("rewrite", Image(pendingOps)) \in Requests
        BY <1>a DEF Request, Requests
    <2>2. TypeOK'
        BY <1>4, <1>a, <2>1 DEF ClearOps, TypeOK, disk
    <2>3. CleanInv'
        BY <1>4 DEF ClearOps, CleanInv, Covered, disk
    <2> QED BY <2>2, <2>3
<1>5. ASSUME NEW f \in Files, PruneCreateDeletePair(f) PROVE TypeOK' /\ CleanInv'
    <2> DEFINE gone == {o \in Image(pendingOps) : FileOf[o] = f}
               kept == {i \in DOMAIN pendingOps : FileOf[pendingOps[i]] # f}
    <2>1. PICK e \in Ascending(kept) :
              pendingOps' = [k \in 1..Cardinality(kept) |-> pendingOps[e[k]]]
        BY <1>5 DEF PruneCreateDeletePair
    <2>2. /\ pendingOps' \in Seq(Ops)
          /\ \A k \in 1..Len(pendingOps') : e[k] \in kept /\ pendingOps'[k] = pendingOps[e[k]]
          /\ \A i, j \in 1..Len(pendingOps') : i < j => e[i] < e[j]
        <3>1. pendingOps \in Seq(Ops) /\ kept \in SUBSET DOMAIN pendingOps
            BY DEF TypeOK
        <3> HIDE DEF kept
        <3> DEFINE t == pendingOps'
        <3>2. t = [k \in 1..Cardinality(kept) |-> pendingOps[e[k]]]
            BY <2>1
        <3> HIDE DEF t
        <3>3. /\ t \in Seq(Ops)
              /\ \A k \in 1..Len(t) : e[k] \in kept /\ t[k] = pendingOps[e[k]]
              /\ \A i, j \in 1..Len(t) : i < j => e[i] < e[j]
            BY <2>1, <3>1, <3>2, PruneKeeps
        <3> QED BY <3>3 DEF t
    <2> HIDE DEF kept
    <2>3. kept \subseteq 1..Len(pendingOps)
        BY DEF kept, TypeOK
    <2>4. \A k \in 1..Len(pendingOps') : e[k] >= k
        <3>1. Len(pendingOps') \in Nat /\ Len(pendingOps) \in Nat
            BY <2>2 DEF TypeOK
        <3>2. \A k \in 1..Len(pendingOps') : e[k] \in 1..Len(pendingOps)
            BY <2>2, <2>3
        <3> QED BY <2>2, <3>1, <3>2, AscendingDominates
    <2>5. gone \subseteq Ops /\ Request("rewrite", gone) \in Requests
        BY <1>a DEF Request, Requests
    <2>6. TypeOK'
        BY <1>5, <2>2, <2>5 DEF PruneCreateDeletePair, TypeOK, disk
    <2>7. /\ UNCHANGED <<persisted, active, disk, used>>
          /\ persisted \in Nat
        BY <1>5 DEF PruneCreateDeletePair, TypeOK
    <2>8. \A k \in 1..Len(pendingOps') :
            e[k] \in 1..Len(pendingOps) /\ pendingOps'[k] = pendingOps[e[k]] /\ e[k] >= k
        BY <2>2, <2>3, <2>4
    <2>9. \A i, j \in 1..Len(pendingOps') : e[i] = e[j] => i = j
        BY <2>2, <2>8
    <2>10. /\ \A i, j \in 1..Len(pendingOps') : pendingOps'[i] = pendingOps'[j] => i = j
           /\ \A i \in 1..Len(pendingOps') : pendingOps'[i] \in used
        <3>1. /\ \A i, j \in 1..Len(pendingOps) : pendingOps[i] = pendingOps[j] => i = j
              /\ \A i \in 1..Len(pendingOps) : pendingOps[i] \in used
            BY DEF CleanInv
        <3> QED BY <2>8, <2>9, <3>1
    <2>11. \A i \in 1..Len(pendingOps'), j \in 1..Len(journal) :
             i > persisted => pendingOps'[i] # journal[j]
        <3>1. \A i \in 1..Len(pendingOps), j \in 1..Len(journal) :
                  i > persisted => pendingOps[i] # journal[j]
            BY DEF CleanInv
        <3>2. \A k \in 1..Len(pendingOps') : k > persisted => e[k] > persisted
            <4>1. Len(pendingOps) \in Nat /\ Len(pendingOps') \in Nat
                BY <2>2 DEF TypeOK
            <4> QED BY <2>7, <2>8, <4>1
        <3> QED BY <2>8, <3>1, <3>2
    <2>12. active # NoPersist =>
             \A i \in 1..Len(pendingOps'), j \in 1..Len(active.data) :
               i > Covered => pendingOps'[i] # active.data[j]
        <3> SUFFICES ASSUME active # NoPersist,
                            NEW i \in 1..Len(pendingOps'), NEW j \in 1..Len(active.data),
                            i > Covered
                     PROVE  pendingOps'[i] # active.data[j]
            OBVIOUS
        <3>1. Covered \in Nat
            BY DEF Covered, TypeOK
        <3>2. e[i] > Covered /\ e[i] \in 1..Len(pendingOps) /\ pendingOps'[i] = pendingOps[e[i]]
            BY <2>8, <3>1
        <3> QED BY <3>2 DEF CleanInv
    <2>13. CleanInv'
        BY <2>7, <2>10, <2>11, <2>12 DEF CleanInv, Covered, disk
    <2> QED BY <2>6, <2>13
<1>6. CASE StartAppend
    <2>1. /\ Slice(pendingOps, persisted) \in Seq(Ops)
          /\ Len(Slice(pendingOps, persisted)) =
               IF persisted <= Len(pendingOps) THEN Len(pendingOps) - persisted ELSE 0
          /\ \A i \in 1..Len(Slice(pendingOps, persisted)) :
               Slice(pendingOps, persisted)[i] = pendingOps[persisted + i]
        BY SliceProperties DEF TypeOK
    <2>2. Head(queue) \in Requests /\ Tail(queue) \in Seq(Requests)
        BY <1>6 DEF StartAppend, TypeOK
    <2> DEFINE d == Slice(pendingOps, persisted)
    <2>3. active' = [kind |-> "append", ops |-> Head(queue).ops, data |-> d]
        BY <1>6 DEF StartAppend
    <2>4. active'.kind = "append" /\ active'.data = d
        BY <2>3
    <2> HIDE DEF d
    <2>5. TypeOK'
        <3>1. active' \in PersistRecords
            BY <2>1, <2>2, <2>3 DEF PersistRecords, Requests, d
        <3> QED BY <1>6, <2>2, <3>1 DEF StartAppend, TypeOK, disk, history, PersistRecords
    <2>6. UNCHANGED <<pendingOps, persisted, disk, used>>
        BY <1>6 DEF StartAppend, history
    <2>7. \A i \in 1..Len(d) : persisted + i \in 1..Len(pendingOps) /\ d[i] = pendingOps[persisted + i]
        BY <2>1 DEF d, TypeOK
    <2>8. /\ \A i, j \in 1..Len(d) : d[i] = d[j] => i = j
          /\ \A i \in 1..Len(d) : d[i] \in used
          /\ \A i \in 1..Len(d), j \in 1..Len(journal) : d[i] # journal[j]
        <3>1. persisted \in Nat /\ Len(d) \in Nat
            BY <2>1 DEF TypeOK, d
        <3>2. \A i, j \in 1..Len(d) : d[i] = d[j] => i = j
            BY <2>7, <3>1 DEF CleanInv
        <3>3. \A i \in 1..Len(d) : d[i] \in used
            BY <2>7, <3>1 DEF CleanInv
        <3>4. \A i \in 1..Len(d), j \in 1..Len(journal) : d[i] # journal[j]
            BY <2>7, <3>1 DEF CleanInv
        <3> QED BY <3>2, <3>3, <3>4
    <2>9. \A i \in 1..Len(pendingOps), j \in 1..Len(d) :
            i > persisted + Len(d) => pendingOps[i] # d[j]
        BY <2>1, <2>7 DEF CleanInv, TypeOK, d
    <2>10. CleanInv'
        BY <2>4, <2>6, <2>8, <2>9 DEF CleanInv, Covered, disk
    <2> QED BY <2>5, <2>10
<1>7. CASE SkipAppend
    <2>1. Head(queue) \in Requests /\ Tail(queue) \in Seq(Requests)
        BY <1>7 DEF SkipAppend, TypeOK
    <2>2. TypeOK'
        BY <1>7, <2>1 DEF SkipAppend, TypeOK, disk, Requests
    <2>3. CleanInv'
        BY <1>7 DEF SkipAppend, CleanInv, Covered, disk
    <2> QED BY <2>2, <2>3
<1>8. CASE StartRewrite
    <2>1. Head(queue) \in Requests /\ Tail(queue) \in Seq(Requests)
        BY <1>8 DEF StartRewrite, TypeOK
    <2>2. active' = [kind |-> "rewrite", ops |-> Head(queue).ops, data |-> pendingOps]
        BY <1>8 DEF StartRewrite
    <2>3. active'.kind = "rewrite" /\ active'.data = pendingOps
        BY <2>2
    <2>4. TypeOK'
        <3>1. active' \in PersistRecords
            BY <2>1, <2>2 DEF PersistRecords, Requests, TypeOK
        <3> QED BY <1>8, <2>1, <3>1 DEF StartRewrite, TypeOK, disk, history, PersistRecords
    <2>5. UNCHANGED <<pendingOps, persisted, disk, used>>
        BY <1>8 DEF StartRewrite, history
    <2>6. CleanInv'
        BY <2>3, <2>5 DEF CleanInv, Covered, disk, TypeOK
    <2> QED BY <2>4, <2>6
<1>9. CASE AppendResolves
    <2> DEFINE d == active.data
    <2>1. active \in PersistRecords /\ active # NoPersist /\ active.kind = "append"
        BY <1>9 DEF AppendResolves, TypeOK, PersistRecords
    <2>2. d \in Seq(Ops) /\ active.ops \subseteq Ops
        BY <2>1 DEF PersistRecords
    <2>3. journal' = journal \o d /\ journal \in Seq(Ops)
        BY <1>9 DEF AppendResolves, Appended, CleanInv
    <2>4. Image(d) \subseteq Ops
        BY <2>2 DEF Image
    <2>5. TypeOK'
        <3>1. openTail' \in BOOLEAN
            BY <1>9, Zenon DEF AppendResolves
        <3>2. journal' \in Seq(Lines)
            BY <2>2, <2>3 DEF Lines
        <3>3. /\ persisted' = persisted + Len(active.data) /\ active' = NoPersist
              /\ settled' = settled \cup active.ops /\ written' = written \cup Image(active.data)
              /\ UNCHANGED <<running, pendingOps, queue, used, dropped, erased>>
            BY <1>9 DEF AppendResolves, MarkerAfterAppend
        <3> QED BY <2>2, <2>4, <3>1, <3>2, <3>3 DEF TypeOK
    <2>6. /\ UNCHANGED <<pendingOps, used>> /\ persisted' = persisted + Len(d)
          /\ active' = NoPersist /\ openTail' = FALSE
        BY <1>9 DEF AppendResolves, MarkerAfterAppend
    <2>7. Covered = persisted + Len(d)
        BY <2>1 DEF Covered
    <2>8. /\ Len(journal') = Len(journal) + Len(d)
          /\ \A i \in 1..Len(journal') :
               \/ i \in 1..Len(journal) /\ journal'[i] = journal[i]
               \/ i - Len(journal) \in 1..Len(d) /\ journal'[i] = d[i - Len(journal)]
        BY <2>2, <2>3, ConcatIndex
    <2> HIDE DEF d
    <2>9. /\ \A i, j \in 1..Len(d) : d[i] = d[j] => i = j
          /\ \A i \in 1..Len(d) : d[i] \in used
          /\ \A i \in 1..Len(d), j \in 1..Len(journal) : d[i] # journal[j]
          /\ \A i \in 1..Len(pendingOps), j \in 1..Len(d) :
              i > persisted + Len(d) => pendingOps[i] # d[j]
        BY <2>1, <2>7 DEF CleanInv, d
    <2>10. \A i, j \in 1..Len(journal') : journal'[i] = journal'[j] => i = j
        <3>1. \A i, j \in 1..Len(journal) : journal[i] = journal[j] => i = j
            BY DEF CleanInv
        <3>2. \A i, j \in 1..Len(journal \o d) : (journal \o d)[i] = (journal \o d)[j] => i = j
            BY <2>2, <2>3, <2>9, <3>1, ConcatInjective
        <3> QED BY <2>3, <3>2
    <2>11. \A i \in 1..Len(journal') : journal'[i] \in used
        BY <2>8, <2>9 DEF CleanInv
    <2>12. \A i \in 1..Len(pendingOps), j \in 1..Len(journal') :
             i > persisted + Len(d) => pendingOps[i] # journal'[j]
        <3> SUFFICES ASSUME NEW i \in 1..Len(pendingOps), NEW j \in 1..Len(journal'),
                            i > persisted + Len(d)
                     PROVE  pendingOps[i] # journal'[j]
            OBVIOUS
        <3>1. i > persisted
            BY <2>2 DEF TypeOK, d
        <3>2. CASE j \in 1..Len(journal) /\ journal'[j] = journal[j]
            BY <3>1, <3>2 DEF CleanInv
        <3>3. CASE j - Len(journal) \in 1..Len(d) /\ journal'[j] = d[j - Len(journal)]
            BY <2>9, <3>3
        <3> QED BY <2>8, <3>2, <3>3
    <2>13. journal' \in Seq(Ops)
        BY <2>2, <2>3
    <2>14. CleanInv'
        BY <2>6, <2>10, <2>11, <2>12, <2>13 DEF CleanInv
    <2> QED BY <2>5, <2>14
<1>10. CASE AppendRejects
    BY <1>10 DEF AppendRejects, TypeOK, CleanInv, disk, history
<1>11. CASE RewriteResolves
    <2> DEFINE d == active.data
    <2>1. active \in PersistRecords /\ active # NoPersist /\ active.kind = "rewrite"
        BY <1>11 DEF RewriteResolves, TypeOK, PersistRecords
    <2>2. d \in Seq(Ops) /\ active.ops \subseteq Ops
        BY <2>1 DEF PersistRecords
    <2>3. Image(d) \subseteq Ops
        BY <2>2 DEF Image
    <2>4. TypeOK'
        <3>1. openTail' \in BOOLEAN
            BY <1>11, Zenon DEF RewriteResolves
        <3>2. journal' \in Seq(Lines)
            BY <1>11, <2>2 DEF RewriteResolves, Lines
        <3>3. /\ persisted' = Len(active.data) /\ active' = NoPersist
              /\ erased' = erased \cup active.ops /\ written' = written \cup Image(active.data)
              /\ UNCHANGED <<running, pendingOps, queue, used, dropped, settled>>
            BY <1>11 DEF RewriteResolves
        <3> QED BY <2>2, <2>3, <3>1, <3>2, <3>3 DEF TypeOK
    <2>5. /\ UNCHANGED <<pendingOps, used>> /\ journal' = d /\ persisted' = Len(d)
          /\ active' = NoPersist /\ openTail' = FALSE
        BY <1>11 DEF RewriteResolves
    <2>6. Covered = Len(d)
        BY <2>1 DEF Covered
    <2>7. CleanInv'
        BY <2>1, <2>2, <2>5, <2>6 DEF CleanInv
    <2> QED BY <2>4, <2>7
<1>12. CASE Crash
    <2>1. /\ running' = FALSE /\ pendingOps' = <<>> /\ persisted' = 0
          /\ queue' = <<>> /\ active' = NoPersist /\ UNCHANGED history
        BY <1>12 DEF Crash, LoseMemory
    <2>2. /\ journal' \in Seq(Ops) /\ openTail' = FALSE
          /\ \A i, j \in 1..Len(journal') : journal'[i] = journal'[j] => i = j
          /\ \A i \in 1..Len(journal') : journal'[i] \in used
        <3>1. CASE UNCHANGED disk
            BY <3>1 DEF disk, CleanInv
        <3>2. CASE active # NoPersist /\ active.kind = "rewrite" /\ journal' = active.data /\ openTail' = FALSE
            BY <3>2 DEF CleanInv, TypeOK
        <3>3. CASE active # NoPersist /\ active.kind = "append" /\ CutAppend(active.data)
            <4>1. active.data \in Seq(Ops)
                BY <3>3 DEF TypeOK
            <4>2. PICK k \in 0..Len(active.data) :
                    /\ journal' = Appended(SubSeq(active.data, 1, k))
                    /\ openTail' = IF k = 0 THEN openTail ELSE FALSE
                BY <3>3 DEF CutAppend
            <4> DEFINE c == SubSeq(active.data, 1, k)
            <4>3. /\ c \in Seq(Ops) /\ Len(c) = k
                  /\ \A i \in 1..Len(c) : i \in 1..Len(active.data) /\ c[i] = active.data[i]
                BY <4>1, <4>2
            <4>4. journal' = journal \o c /\ openTail' = FALSE /\ journal \in Seq(Ops)
                BY <4>2 DEF Appended, CleanInv
            <4> HIDE DEF c
            <4>5. /\ Len(journal') = Len(journal) + Len(c)
                  /\ \A i \in 1..Len(journal') :
                       \/ i \in 1..Len(journal) /\ journal'[i] = journal[i]
                       \/ i - Len(journal) \in 1..Len(c) /\ journal'[i] = c[i - Len(journal)]
                <5>1. c \in Seq(Ops) /\ journal \in Seq(Ops) /\ journal' = journal \o c
                    BY <4>3, <4>4
                <5> QED BY <5>1, ConcatIndex
            <4>6. /\ \A i, j \in 1..Len(c) : c[i] = c[j] => i = j
                  /\ \A i \in 1..Len(c) : c[i] \in used
                  /\ \A i \in 1..Len(c), j \in 1..Len(journal) : c[i] # journal[j]
                BY <3>3, <4>3 DEF CleanInv
            <4>7. journal' \in Seq(Ops)
                BY <4>3, <4>4
            <4>8. \A i, j \in 1..Len(journal') : journal'[i] = journal'[j] => i = j
                BY <4>3, <4>4, <4>6, ConcatInjective DEF CleanInv
            <4>9. \A i \in 1..Len(journal') : journal'[i] \in used
                BY <4>5, <4>6 DEF CleanInv
            <4> QED BY <4>4, <4>7, <4>8, <4>9
        <3> QED BY <1>12, <3>1, <3>2, <3>3 DEF Crash
    <2>3. TypeOK'
        <3>1. running' \in BOOLEAN /\ openTail' \in BOOLEAN
            BY <2>1, <2>2, Zenon
        <3>2. /\ pendingOps' \in Seq(Ops) /\ persisted' \in Nat /\ queue' \in Seq(Requests)
              /\ journal' \in Seq(Lines) /\ active' = NoPersist
            BY <2>1, <2>2 DEF Lines
        <3>3. UNCHANGED <<used, dropped, settled, written, erased>>
            BY <2>1 DEF history
        <3> QED BY <3>1, <3>2, <3>3 DEF TypeOK
    <2>4. CleanInv'
        BY <2>1, <2>2 DEF CleanInv, history
    <2> QED BY <2>3, <2>4
<1>13. CASE Load
    <2>1. journal \in Seq(Ops) /\ Replay(journal) = journal /\ ~HasDuplicates(journal)
        BY CleanReplay DEF CleanInv
    <2>2. /\ running' = TRUE /\ pendingOps' = journal /\ persisted' = Len(journal)
          /\ queue' = <<>> /\ active' = NoPersist /\ UNCHANGED disk
          /\ dropped' \subseteq dropped /\ UNCHANGED <<used, settled, written, erased>>
        BY <1>13, <2>1 DEF Load
    <2>3. TypeOK'
        BY <2>1, <2>2 DEF TypeOK, disk
    <2>4. CleanInv'
        BY <2>1, <2>2 DEF CleanInv, disk
    <2> QED BY <2>3, <2>4
<1>14. CASE UNCHANGED vars
    BY <1>14 DEF vars, memory, disk, history, TypeOK, CleanInv, Covered
<1> QED BY <1>1, <1>2, <1>3, <1>4, <1>5, <1>6, <1>7, <1>8, <1>9, <1>10, <1>11,
           <1>12, <1>13, <1>14 DEF Next

\* Type correctness, and the clean file it rests on.
THEOREM TypeCorrect == Spec => [](TypeOK /\ CleanInv)
<1>1. TypeOK /\ CleanInv /\ [Next]_vars => (TypeOK /\ CleanInv)'
    BY NextClean
<1> QED BY <1>1, InitClean, PTL DEF Spec

\* The file never holds an op's line twice, whatever appends, rewrites and crashes
\* overlap (operation-logger.ts:112-117).
THEOREM NoDuplicateLineHolds == Spec => []NoDuplicateLine
<1>1. TypeOK /\ CleanInv => NoDuplicateLine
    BY DEF CleanInv, NoDuplicateLine
<1> QED BY <1>1, TypeCorrect, PTL

----------------------------------------------------------------------------
(* What the steps do to the sets of ops on disk and in memory *)

\* A prune takes exactly the file's ops out of the array.
LEMMA PruneImage ==
    ASSUME TypeOK, NEW f \in Files, PruneCreateDeletePair(f)
    PROVE  Image(pendingOps') = Image(pendingOps) \ {o \in Image(pendingOps) : FileOf[o] = f}
<1> DEFINE kept == {i \in DOMAIN pendingOps : FileOf[pendingOps[i]] # f}
<1>1. PICK e \in Ascending(kept) :
          pendingOps' = [k \in 1..Cardinality(kept) |-> pendingOps[e[k]]]
    BY DEF PruneCreateDeletePair
<1>2. pendingOps \in Seq(Ops) /\ kept \in SUBSET DOMAIN pendingOps
    BY DEF TypeOK
<1>3. Image(pendingOps') = {pendingOps[i] : i \in kept}
    <2> HIDE DEF kept
    <2> QED BY <1>1, <1>2, PruneKeeps
<1> QED BY <1>3 DEF Image

\* What a crash can leave on disk.
LEMMA CrashImage ==
    ASSUME TypeOK, CleanInv, Crash
    PROVE  \/ Image(journal') = Image(journal)
           \/ /\ active # NoPersist /\ active.kind = "append"
              /\ Image(journal) \subseteq Image(journal')
              /\ Image(journal') \subseteq Image(journal) \cup Image(active.data)
           \/ /\ active # NoPersist /\ active.kind = "rewrite"
              /\ Image(journal') = Image(active.data)
<1>1. CASE UNCHANGED disk
    BY <1>1 DEF disk
<1>2. CASE active # NoPersist /\ active.kind = "rewrite" /\ journal' = active.data /\ openTail' = FALSE
    BY <1>2
<1>3. CASE active # NoPersist /\ active.kind = "append" /\ CutAppend(active.data)
    <2>1. active.data \in Seq(Ops) /\ journal \in Seq(Ops)
        BY <1>3 DEF TypeOK, CleanInv
    <2>2. PICK k \in 0..Len(active.data) : journal' = Appended(SubSeq(active.data, 1, k))
        BY <1>3 DEF CutAppend
    <2> DEFINE c == SubSeq(active.data, 1, k)
    <2>3. c \in Seq(Ops) /\ Len(c) = k /\ \A i \in 1..Len(c) : c[i] = active.data[i]
        BY <2>1, <2>2
    <2>4. journal' = journal \o c
        BY <2>2 DEF Appended, CleanInv
    <2> HIDE DEF c
    <2>5. Image(journal') = Image(journal) \cup Image(c)
        BY <2>1, <2>3, <2>4, ImageConcat
    <2>6. Image(c) \subseteq Image(active.data)
        BY <2>1, <2>2, <2>3 DEF Image
    <2> QED BY <1>3, <2>5, <2>6
<1> QED BY <1>1, <1>2, <1>3 DEF Crash

\* An append that resolves adds its bytes to a clean file.
LEMMA AppendImage ==
    ASSUME TypeOK, CleanInv, AppendResolves
    PROVE  Image(journal') = Image(journal) \cup Image(active.data)
<1>1. active.data \in Seq(Ops) /\ journal \in Seq(Ops)
    BY DEF AppendResolves, TypeOK, CleanInv
<1>2. journal' = journal \o active.data
    BY DEF AppendResolves, Appended, CleanInv
<1> QED BY <1>1, <1>2, ImageConcat

\* The bytes of an append are pending.
LEMMA SliceImage ==
    ASSUME TypeOK
    PROVE  Image(Slice(pendingOps, persisted)) \subseteq Image(pendingOps)
<1>1. pendingOps \in Seq(Ops) /\ persisted \in Nat
    BY DEF TypeOK
<1> DEFINE d == Slice(pendingOps, persisted)
<1>2. \A i \in 1..Len(d) : persisted + i \in 1..Len(pendingOps) /\ d[i] = pendingOps[persisted + i]
    BY <1>1, SliceProperties
<1>3. d \in Seq(Ops)
    BY <1>1, SliceProperties
<1> HIDE DEF d
<1>4. Image(d) \subseteq Image(pendingOps)
    BY <1>1, <1>2, <1>3 DEF Image
<1> QED BY <1>4 DEF d

\* A load reads the file back as it is.
LEMMA LoadFacts ==
    ASSUME CleanInv, Load
    PROVE  /\ running' = TRUE /\ pendingOps' = journal /\ journal' = journal
           /\ persisted' = Len(journal) /\ active' = NoPersist /\ queue' = <<>>
           /\ dropped' = dropped \ Image(journal)
           /\ UNCHANGED <<used, settled, written, erased>>
<1>1. Replay(journal) = journal /\ ~HasDuplicates(journal)
    BY CleanReplay DEF CleanInv
<1> QED BY <1>1 DEF Load, disk

\* What is left of the chain when its head starts, or grows when a request is queued.
LEMMA QueueFacts ==
    ASSUME TypeOK
    PROVE  /\ queue # <<>> =>
                /\ Len(queue) >= 1 /\ Head(queue) = queue[1] /\ 1 \in 1..Len(queue)
                /\ Len(Tail(queue)) = Len(queue) - 1
                /\ \A i \in 1..Len(Tail(queue)) :
                     i + 1 \in 1..Len(queue) /\ Tail(queue)[i] = queue[i + 1]
           /\ \A r : /\ Len(Append(queue, r)) = Len(queue) + 1
                     /\ \A i \in 1..Len(Append(queue, r)) :
                          \/ i \in 1..Len(queue) /\ Append(queue, r)[i] = queue[i]
                          \/ i = Len(queue) + 1 /\ Append(queue, r)[i] = r
<1>1. queue \in Seq(Requests) /\ Len(queue) \in Nat
    BY DEF TypeOK
<1>2. ASSUME queue # <<>>
      PROVE  /\ Len(queue) >= 1 /\ Head(queue) = queue[1] /\ 1 \in 1..Len(queue)
             /\ Len(Tail(queue)) = Len(queue) - 1
             /\ \A i \in 1..Len(Tail(queue)) :
                  i + 1 \in 1..Len(queue) /\ Tail(queue)[i] = queue[i + 1]
    BY <1>1, <1>2
<1>3. ASSUME NEW r
      PROVE  /\ Len(Append(queue, r)) = Len(queue) + 1
             /\ \A i \in 1..Len(Append(queue, r)) :
                  \/ i \in 1..Len(queue) /\ Append(queue, r)[i] = queue[i]
                  \/ i = Len(queue) + 1 /\ Append(queue, r)[i] = r
    BY <1>1
<1> QED BY <1>2, <1>3

----------------------------------------------------------------------------
(* What was written stays on disk until it is cleared or pruned *)

\* A write in flight carries nothing that is neither pending nor dropped, and a rewrite
\* in flight carries everything on disk that is not dropped.
WrittenInv ==
    /\ ~running => active = NoPersist
    /\ written \ dropped \subseteq Image(journal)
    /\ running => written \ dropped \subseteq Image(pendingOps)
    /\ active # NoPersist => Image(active.data) \subseteq Image(pendingOps) \cup dropped
    /\ active # NoPersist /\ active.kind = "rewrite" =>
         written \ dropped \subseteq Image(active.data)

\* Every step keeps it.
LEMMA NextWritten ==
    ASSUME TypeOK, CleanInv, WrittenInv, [Next]_vars
    PROVE  WrittenInv'
<1>a. pendingOps \in Seq(Ops)
    BY DEF TypeOK
<1>1. ASSUME NEW o \in Ops, RecordOp(o) \/ CapturePush(o) PROVE WrittenInv'
    <2>1. Image(pendingOps') = Image(pendingOps) \cup {o}
        BY <1>1, <1>a, ImageAppend DEF RecordOp, CapturePush
    <2> QED BY <1>1, <2>1 DEF RecordOp, CapturePush, WrittenInv, disk
<1>2. CASE CaptureCheckpoint
    BY <1>2 DEF CaptureCheckpoint, WrittenInv, disk, history
<1>3. CASE ClearOps
    <2>1. Image(pendingOps') = {}
        BY <1>3 DEF ClearOps, Image
    <2> QED BY <1>3, <2>1 DEF ClearOps, WrittenInv, disk
<1>4. ASSUME NEW f \in Files, PruneCreateDeletePair(f) PROVE WrittenInv'
    <2> DEFINE gone == {o \in Image(pendingOps) : FileOf[o] = f}
    <2>1. Image(pendingOps') = Image(pendingOps) \ gone
        BY <1>4, PruneImage
    <2>2. /\ running /\ UNCHANGED <<running, journal, active, written>>
          /\ dropped' = dropped \cup gone
        BY <1>4 DEF PruneCreateDeletePair, disk
    <2> HIDE DEF gone
    <2> QED BY <2>1, <2>2 DEF WrittenInv
<1>5. CASE StartAppend
    <2>1. /\ running /\ UNCHANGED <<running, pendingOps, journal, written, dropped>>
          /\ active'.kind = "append" /\ active'.data = Slice(pendingOps, persisted)
        BY <1>5 DEF StartAppend, disk, history
    <2> QED BY <2>1, SliceImage DEF WrittenInv
<1>6. CASE SkipAppend
    BY <1>6 DEF SkipAppend, WrittenInv, disk
<1>7. CASE StartRewrite
    <2>1. /\ running /\ UNCHANGED <<running, pendingOps, journal, written, dropped>>
          /\ active'.kind = "rewrite" /\ active'.data = pendingOps
        BY <1>7 DEF StartRewrite, disk, history
    <2> QED BY <2>1 DEF WrittenInv
<1>8. CASE AppendResolves
    <2>1. /\ active # NoPersist /\ active' = NoPersist
          /\ UNCHANGED <<running, pendingOps, dropped>>
          /\ written' = written \cup Image(active.data)
        BY <1>8 DEF AppendResolves
    <2> QED BY <1>8, <2>1, AppendImage DEF WrittenInv
<1>9. CASE AppendRejects
    BY <1>9 DEF AppendRejects, WrittenInv, disk, history
<1>10. CASE RewriteResolves
    <2>1. /\ active # NoPersist /\ active.kind = "rewrite" /\ active' = NoPersist
          /\ UNCHANGED <<running, pendingOps, dropped>>
          /\ written' = written \cup Image(active.data)
          /\ Image(journal') = Image(active.data)
        BY <1>10 DEF RewriteResolves
    <2> QED BY <2>1 DEF WrittenInv
<1>11. CASE Crash
    <2>1. ~running' /\ active' = NoPersist /\ UNCHANGED <<written, dropped>>
        BY <1>11 DEF Crash, LoseMemory, history
    <2> QED BY <1>11, <2>1, CrashImage DEF WrittenInv
<1>12. CASE Load
    BY <1>12, LoadFacts DEF WrittenInv
<1>13. CASE UNCHANGED vars
    BY <1>13 DEF vars, memory, disk, history, WrittenInv
<1> QED BY <1>1, <1>2, <1>3, <1>4, <1>5, <1>6, <1>7, <1>8, <1>9, <1>10, <1>11,
           <1>12, <1>13 DEF Next

\* An op that reached the file is read back by every later load until it is cleared or
\* pruned, whatever appends, rewrites, rejections and crashes come between
\* (sync-coordinator.ts:142-143).
THEOREM WrittenStaysDurableHolds == Spec => []WrittenStaysDurable
<1>1. Init => WrittenInv
    BY DEF Init, WrittenInv, Image
<1>2. TypeOK /\ CleanInv /\ WrittenInv /\ [Next]_vars => WrittenInv'
    BY NextWritten
<1>3. TypeOK /\ CleanInv /\ WrittenInv => WrittenStaysDurable
    BY CleanReplay DEF CleanInv, WrittenInv, WrittenStaysDurable
<1> QED BY <1>1, <1>2, <1>3, TypeCorrect, PTL DEF Spec

----------------------------------------------------------------------------
(* What was erased does not come back *)

\* What a rewrite removes is neither pending nor in the bytes it writes.
ErasedInv ==
    /\ erased \subseteq used
    /\ erased \cap Image(journal) = {}
    /\ erased \cap Image(pendingOps) = {}
    /\ \A i \in 1..Len(queue) : queue[i].kind = "rewrite" =>
         queue[i].ops \subseteq used /\ queue[i].ops \cap Image(pendingOps) = {}
    /\ active # NoPersist => erased \cap Image(active.data) = {}
    /\ active # NoPersist /\ active.kind = "rewrite" =>
         /\ active.ops \subseteq used
         /\ active.ops \cap Image(pendingOps) = {}
         /\ active.ops \cap Image(active.data) = {}

\* Every step keeps it.
LEMMA NextErased ==
    ASSUME TypeOK, CleanInv, ErasedInv, [Next]_vars
    PROVE  ErasedInv'
<1>a. pendingOps \in Seq(Ops) /\ Image(pendingOps) \subseteq used
    BY DEF TypeOK, CleanInv, Image
<1>b. active # NoPersist => Image(active.data) \subseteq used
    <2>1. active # NoPersist => active.data \in Seq(Ops)
        BY DEF TypeOK
    <2> QED BY <2>1 DEF CleanInv, Image
<1>1. ASSUME NEW o \in Ops, RecordOp(o) PROVE ErasedInv'
    <2>1. Image(pendingOps') = Image(pendingOps) \cup {o}
        BY <1>1, <1>a, ImageAppend DEF RecordOp
    <2>2. /\ o \notin used /\ used' = used \cup {o}
          /\ UNCHANGED <<active, journal, erased>>
          /\ queue' = Append(queue, Request("append", {o}))
        BY <1>1 DEF RecordOp, disk
    <2>3. \A i \in 1..Len(queue') : queue'[i].kind = "rewrite" =>
            i \in 1..Len(queue) /\ queue'[i] = queue[i]
        BY <2>2, QueueFacts DEF Request
    <2>4. /\ erased' \subseteq used' /\ erased' \cap Image(journal') = {}
          /\ erased' \cap Image(pendingOps') = {}
        <3>1. Image(journal') = Image(journal)
            BY <2>2 DEF Image
        <3> QED BY <2>1, <2>2, <3>1 DEF ErasedInv
    <2>5. \A i \in 1..Len(queue') : queue'[i].kind = "rewrite" =>
            queue'[i].ops \subseteq used' /\ queue'[i].ops \cap Image(pendingOps') = {}
        <3>1. \A i \in 1..Len(queue) : queue[i].kind = "rewrite" =>
                  queue[i].ops \subseteq used /\ queue[i].ops \cap Image(pendingOps) = {}
            BY DEF ErasedInv
        <3> QED BY <2>1, <2>2, <2>3, <3>1
    <2>6. /\ active' # NoPersist => erased' \cap Image(active'.data) = {}
          /\ active' # NoPersist /\ active'.kind = "rewrite" =>
               /\ active'.ops \subseteq used'
               /\ active'.ops \cap Image(pendingOps') = {}
               /\ active'.ops \cap Image(active'.data) = {}
        BY <2>1, <2>2 DEF ErasedInv, Image
    <2> QED BY <2>4, <2>5, <2>6 DEF ErasedInv
<1>2. ASSUME NEW o \in Ops, CapturePush(o) PROVE ErasedInv'
    <2>1. Image(pendingOps') = Image(pendingOps) \cup {o}
        BY <1>2, <1>a, ImageAppend DEF CapturePush
    <2>2. /\ o \notin used /\ used' = used \cup {o}
          /\ UNCHANGED <<active, journal, erased, queue>>
        BY <1>2 DEF CapturePush, disk
    <2> QED BY <2>1, <2>2 DEF ErasedInv
<1>3. CASE CaptureCheckpoint
    <2>1. /\ UNCHANGED <<pendingOps, active, journal, erased, used>>
          /\ queue' = Append(queue, Request("append", Image(pendingOps)))
        BY <1>3 DEF CaptureCheckpoint, disk, history
    <2>2. \A i \in 1..Len(queue') : queue'[i].kind = "rewrite" =>
            i \in 1..Len(queue) /\ queue'[i] = queue[i]
        BY <2>1, QueueFacts DEF Request
    <2> QED BY <2>1, <2>2 DEF ErasedInv
<1>4. CASE ClearOps
    <2>1. /\ Image(pendingOps') = {} /\ UNCHANGED <<active, journal, erased, used>>
          /\ queue' = Append(queue, Request("rewrite", Image(pendingOps)))
        BY <1>4 DEF ClearOps, Image, disk
    <2>2. \A i \in 1..Len(queue') :
            \/ i \in 1..Len(queue) /\ queue'[i] = queue[i]
            \/ queue'[i].ops = Image(pendingOps)
        BY <2>1, QueueFacts DEF Request
    <2> QED BY <1>a, <2>1, <2>2 DEF ErasedInv
<1>5. ASSUME NEW f \in Files, PruneCreateDeletePair(f) PROVE ErasedInv'
    <2> DEFINE gone == {o \in Image(pendingOps) : FileOf[o] = f}
    <2>1. Image(pendingOps') = Image(pendingOps) \ gone
        BY <1>5, PruneImage
    <2>2. /\ UNCHANGED <<active, journal, erased, used>>
          /\ queue' = Append(queue, Request("rewrite", gone))
          /\ gone \subseteq used
        BY <1>5, <1>a DEF PruneCreateDeletePair, disk
    <2> HIDE DEF gone
    <2>3. \A i \in 1..Len(queue') :
            \/ i \in 1..Len(queue) /\ queue'[i] = queue[i]
            \/ queue'[i].ops = gone
        BY <2>2, QueueFacts DEF Request
    <2> QED BY <2>1, <2>2, <2>3 DEF ErasedInv
<1>6. CASE StartAppend
    <2>1. /\ UNCHANGED <<pendingOps, journal, erased, used>>
          /\ active'.kind = "append" /\ active'.data = Slice(pendingOps, persisted)
          /\ queue # <<>> /\ queue' = Tail(queue)
        BY <1>6 DEF StartAppend, disk, history
    <2> QED BY <2>1, SliceImage, QueueFacts DEF ErasedInv
<1>7. CASE SkipAppend
    <2>1. /\ UNCHANGED <<pendingOps, active, journal, erased, used>>
          /\ queue # <<>> /\ queue' = Tail(queue)
        BY <1>7 DEF SkipAppend, disk
    <2> QED BY <2>1, QueueFacts DEF ErasedInv
<1>8. CASE StartRewrite
    <2>1. /\ UNCHANGED <<pendingOps, journal, erased, used>>
          /\ active'.kind = "rewrite" /\ active'.data = pendingOps
          /\ active'.ops = Head(queue).ops /\ Head(queue).kind = "rewrite"
          /\ queue # <<>> /\ queue' = Tail(queue)
        BY <1>8 DEF StartRewrite, disk, history
    <2>2. active'.ops \subseteq used /\ active'.ops \cap Image(pendingOps) = {}
        BY <2>1, QueueFacts DEF ErasedInv
    <2> QED BY <2>1, <2>2, QueueFacts DEF ErasedInv
<1>9. CASE AppendResolves
    <2>1. /\ active # NoPersist /\ active' = NoPersist
          /\ UNCHANGED <<pendingOps, queue, used, erased>>
        BY <1>9 DEF AppendResolves
    <2> QED BY <1>9, <2>1, AppendImage DEF ErasedInv
<1>10. CASE AppendRejects
    BY <1>10 DEF AppendRejects, ErasedInv, disk, history
<1>11. CASE RewriteResolves
    <2>1. /\ active # NoPersist /\ active.kind = "rewrite" /\ active' = NoPersist
          /\ UNCHANGED <<pendingOps, queue, used>>
          /\ erased' = erased \cup active.ops
          /\ Image(journal') = Image(active.data)
        BY <1>11 DEF RewriteResolves
    <2> QED BY <2>1 DEF ErasedInv
<1>12. CASE Crash
    <2>1. /\ Image(pendingOps') = {} /\ Len(queue') = 0 /\ active' = NoPersist
          /\ UNCHANGED <<erased, used>>
        BY <1>12 DEF Crash, LoseMemory, history, Image
    <2> QED BY <1>12, <2>1, CrashImage DEF ErasedInv
<1>13. CASE Load
    <2>1. Len(queue') = 0
        BY <1>13, LoadFacts
    <2> QED BY <1>13, <2>1, LoadFacts DEF ErasedInv
<1>14. CASE UNCHANGED vars
    BY <1>14 DEF vars, memory, disk, history, ErasedInv
<1> QED BY <1>1, <1>2, <1>3, <1>4, <1>5, <1>6, <1>7, <1>8, <1>9, <1>10, <1>11,
           <1>12, <1>13, <1>14 DEF Next

\* A clear or prune that resolved is final: no append that was in flight brings a
\* removed op back, in the file or in the array a later load builds
\* (operation-logger.ts:954-956).
THEOREM ErasedStaysErasedHolds == Spec => []ErasedStaysErased
<1>1. Init => ErasedInv
    BY DEF Init, ErasedInv, Image
<1>2. TypeOK /\ CleanInv /\ ErasedInv /\ [Next]_vars => ErasedInv'
    BY NextErased
<1>3. ErasedInv => ErasedStaysErased
    BY DEF ErasedInv, ErasedStaysErased
<1> QED BY <1>1, <1>2, <1>3, TypeCorrect, PTL DEF Spec

----------------------------------------------------------------------------
(* The marker counts the ops on disk *)

NoRewriteQueued == \A i \in 1..Len(queue) : queue[i].kind # "rewrite"

\* Without a rewrite outstanding the journal is the array up to the marker, and a
\* write in flight continues it; a rewrite in flight that is the last one carries a
\* prefix of the array.
MarkerInv ==
    /\ ~running => active = NoPersist
    /\ running /\ NoRewriteQueued /\ (active # NoPersist => active.kind = "append") =>
         /\ persisted <= Len(pendingOps) /\ Len(journal) = persisted
         /\ \A i \in 1..persisted : journal[i] = pendingOps[i]
    /\ NoRewriteQueued /\ active # NoPersist /\ active.kind = "append" =>
         /\ persisted + Len(active.data) <= Len(pendingOps)
         /\ \A i \in 1..Len(active.data) : active.data[i] = pendingOps[persisted + i]
    /\ NoRewriteQueued /\ active # NoPersist /\ active.kind = "rewrite" =>
         /\ Len(active.data) <= Len(pendingOps)
         /\ \A i \in 1..Len(active.data) : active.data[i] = pendingOps[i]

\* Every step keeps it.
LEMMA NextMarker ==
    ASSUME TypeOK, CleanInv, MarkerInv, [Next]_vars
    PROVE  MarkerInv'
<1>a. /\ pendingOps \in Seq(Ops) /\ journal \in Seq(Ops) /\ persisted \in Nat
      /\ (active # NoPersist => active.data \in Seq(Ops) /\ active.kind \in {"append", "rewrite"})
    BY DEF TypeOK, CleanInv
<1>1. ASSUME NEW o \in Ops, RecordOp(o) \/ CapturePush(o) PROVE MarkerInv'
    <2>1. /\ UNCHANGED <<running, persisted, active, journal>>
          /\ pendingOps' = Append(pendingOps, o)
          /\ queue' = queue \/ queue' = Append(queue, Request("append", {o}))
        BY <1>1 DEF RecordOp, CapturePush, disk
    <2>2. NoRewriteQueued' => NoRewriteQueued
        <3>1. CASE queue' = queue
            BY <3>1 DEF NoRewriteQueued
        <3>2. CASE queue' = Append(queue, Request("append", {o}))
            BY <3>2 DEF NoRewriteQueued, TypeOK
        <3> QED BY <2>1, <3>1, <3>2
    <2>3. /\ Len(pendingOps') = Len(pendingOps) + 1
          /\ \A i \in 1..Len(pendingOps) : pendingOps'[i] = pendingOps[i]
        BY <1>a, <2>1
    <2> QED BY <1>a, <2>1, <2>2, <2>3 DEF MarkerInv
<1>2. CASE CaptureCheckpoint
    <2>1. /\ UNCHANGED <<running, pendingOps, persisted, active, journal>>
          /\ queue' = Append(queue, Request("append", Image(pendingOps)))
        BY <1>2 DEF CaptureCheckpoint, disk
    <2>2. NoRewriteQueued' => NoRewriteQueued
        BY <2>1, QueueFacts DEF NoRewriteQueued, TypeOK
    <2> QED BY <2>1, <2>2 DEF MarkerInv
<1>3. ASSUME NEW ops, queue' = Append(queue, Request("rewrite", ops)), running, UNCHANGED running
      PROVE  MarkerInv'
    <2>1. ~NoRewriteQueued'
        <3>1. queue'[Len(queue) + 1].kind = "rewrite" /\ Len(queue') = Len(queue) + 1
            BY <1>3 DEF Request, TypeOK
        <3>2. Len(queue) + 1 \in 1..Len(queue')
            BY <3>1 DEF TypeOK
        <3> QED BY <3>1, <3>2 DEF NoRewriteQueued
    <2> QED BY <1>3, <2>1 DEF MarkerInv
<1>4. CASE ClearOps
    BY <1>3, <1>4 DEF ClearOps
<1>5. ASSUME NEW f \in Files, PruneCreateDeletePair(f) PROVE MarkerInv'
    BY <1>3, <1>5 DEF PruneCreateDeletePair
<1>6. CASE StartAppend
    <2> DEFINE d == Slice(pendingOps, persisted)
    <2>1. /\ running /\ active = NoPersist
          /\ UNCHANGED <<running, pendingOps, persisted, journal>>
          /\ active'.kind = "append" /\ active'.data = d
          /\ queue # <<>> /\ queue' = Tail(queue) /\ Head(queue).kind = "append"
        BY <1>6 DEF StartAppend, disk
    <2>2. NoRewriteQueued' => NoRewriteQueued
        <3> SUFFICES ASSUME NoRewriteQueued', NEW i \in 1..Len(queue) PROVE queue[i].kind # "rewrite"
            BY DEF NoRewriteQueued
        <3>1. CASE i = 1
            BY <2>1, <3>1, QueueFacts
        <3>2. CASE i # 1
            <4>1. i - 1 \in 1..Len(Tail(queue)) /\ Tail(queue)[i - 1] = queue[i]
                BY <2>1, <3>2, QueueFacts DEF TypeOK
            <4> QED BY <2>1, <4>1 DEF NoRewriteQueued
        <3> QED BY <3>1, <3>2
    <2>3. /\ Len(d) = IF persisted <= Len(pendingOps) THEN Len(pendingOps) - persisted ELSE 0
          /\ \A i \in 1..Len(d) : d[i] = pendingOps[persisted + i]
        BY <1>a, SliceProperties
    <2> HIDE DEF d
    <2>4. Len(pendingOps) \in Nat /\ persisted \in Nat
        BY <1>a
    <2> QED BY <2>1, <2>2, <2>3, <2>4 DEF MarkerInv
<1>7. CASE SkipAppend
    <2>1. /\ running /\ active = NoPersist
          /\ UNCHANGED <<running, pendingOps, persisted, journal, active>>
          /\ queue # <<>> /\ queue' = Tail(queue) /\ Head(queue).kind = "append"
        BY <1>7 DEF SkipAppend, disk
    <2>2. NoRewriteQueued' => NoRewriteQueued
        <3> SUFFICES ASSUME NoRewriteQueued', NEW i \in 1..Len(queue) PROVE queue[i].kind # "rewrite"
            BY DEF NoRewriteQueued
        <3>1. CASE i = 1
            BY <2>1, <3>1, QueueFacts
        <3>2. CASE i # 1
            <4>1. i - 1 \in 1..Len(Tail(queue)) /\ Tail(queue)[i - 1] = queue[i]
                BY <2>1, <3>2, QueueFacts DEF TypeOK
            <4> QED BY <2>1, <4>1 DEF NoRewriteQueued
        <3> QED BY <3>1, <3>2
    <2> QED BY <2>1, <2>2 DEF MarkerInv
<1>8. CASE StartRewrite
    <2>1. /\ running /\ UNCHANGED <<running, pendingOps>>
          /\ active'.kind = "rewrite" /\ active'.data = pendingOps
        BY <1>8 DEF StartRewrite
    <2>2. active' # NoPersist
        <3>1. Head(queue) \in Requests
            BY <1>8 DEF StartRewrite, TypeOK
        <3>2. active' \in PersistRecords
            BY <1>8, <1>a, <3>1 DEF StartRewrite, PersistRecords, Requests
        <3> QED BY <3>2, NoPersistAssumption DEF PersistRecords
    <2> QED BY <1>a, <2>1, <2>2 DEF MarkerInv
<1>9. CASE AppendResolves
    <2> DEFINE d == active.data
    <2>1. /\ active # NoPersist /\ active.kind = "append" /\ active' = NoPersist
          /\ UNCHANGED <<running, pendingOps, queue>> /\ persisted' = persisted + Len(d)
          /\ journal' = journal \o d
        BY <1>9 DEF AppendResolves, MarkerAfterAppend, Appended, CleanInv
    <2>2. d \in Seq(Ops)
        BY <1>a, <2>1
    <2>3. /\ Len(journal') = Len(journal) + Len(d)
          /\ \A i \in 1..Len(journal') :
                \/ i \in 1..Len(journal) /\ journal'[i] = journal[i]
                \/ i - Len(journal) \in 1..Len(d) /\ journal'[i] = d[i - Len(journal)]
        BY <1>a, <2>1, <2>2, ConcatIndex
    <2> HIDE DEF d
    <2>4. NoRewriteQueued' <=> NoRewriteQueued
        BY <2>1 DEF NoRewriteQueued
    <2>5. CASE ~(running /\ NoRewriteQueued)
        BY <2>1, <2>4, <2>5 DEF MarkerInv
    <2>6. CASE running /\ NoRewriteQueued
        <3>1. /\ Len(journal) = persisted
              /\ \A i \in 1..persisted : journal[i] = pendingOps[i]
              /\ persisted + Len(d) <= Len(pendingOps)
              /\ \A i \in 1..Len(d) : d[i] = pendingOps[persisted + i]
            BY <2>1, <2>6 DEF MarkerInv, d
        <3>2. ASSUME NEW i \in 1..Len(journal') PROVE journal'[i] = pendingOps[i]
            <4>1. CASE i \in 1..Len(journal) /\ journal'[i] = journal[i]
                BY <3>1, <4>1
            <4>2. CASE i - Len(journal) \in 1..Len(d) /\ journal'[i] = d[i - Len(journal)]
                BY <1>a, <3>1, <4>2
            <4> QED BY <2>3, <4>1, <4>2
        <3>3. Len(journal') = persisted' /\ persisted' <= Len(pendingOps')
            BY <2>1, <2>3, <3>1
        <3> QED BY <2>1, <2>6, <3>2, <3>3 DEF MarkerInv
    <2> QED BY <2>5, <2>6
<1>10. CASE AppendRejects
    <2>1. /\ active # NoPersist /\ active.kind = "append" /\ active' = NoPersist
          /\ UNCHANGED <<running, pendingOps, persisted, queue, journal>>
        BY <1>10 DEF AppendRejects, disk
    <2> QED BY <2>1 DEF MarkerInv, NoRewriteQueued
<1>11. CASE RewriteResolves
    <2>1. /\ active # NoPersist /\ active.kind = "rewrite" /\ active' = NoPersist
          /\ UNCHANGED <<running, pendingOps, queue>>
          /\ journal' = active.data /\ persisted' = Len(active.data)
        BY <1>11 DEF RewriteResolves
    <2> QED BY <1>a, <2>1 DEF MarkerInv, NoRewriteQueued
<1>12. CASE Crash
    <2>1. ~running' /\ active' = NoPersist
        BY <1>12 DEF Crash, LoseMemory
    <2> QED BY <2>1 DEF MarkerInv
<1>13. CASE Load
    <2>1. /\ running' /\ active' = NoPersist /\ pendingOps' = journal /\ journal' = journal
          /\ persisted' = Len(journal)
        BY <1>13, LoadFacts
    <2> QED BY <1>a, <2>1 DEF MarkerInv
<1>14. CASE UNCHANGED vars
    BY <1>14 DEF vars, memory, disk, MarkerInv, NoRewriteQueued
<1> QED BY <1>1, <1>2, <1>4, <1>5, <1>6, <1>7, <1>8, <1>9, <1>10, <1>11,
           <1>12, <1>13, <1>14 DEF Next

\* "Never twice, never skipped" (operation-logger.ts:98-103): while no clear or prune is
\* being written, the journal is the array up to oplogPersistedCount, so the next
\* append continues exactly where the file ends.
THEOREM MarkerMatchesJournalHolds == Spec => []MarkerMatchesJournal
<1>1. Init => MarkerInv
    BY DEF Init, MarkerInv
<1>2. TypeOK /\ CleanInv /\ MarkerInv /\ [Next]_vars => MarkerInv'
    BY NextMarker
<1>3. TypeOK /\ CleanInv /\ MarkerInv => MarkerMatchesJournal
    <2> SUFFICES ASSUME TypeOK, CleanInv, MarkerInv, running, Aligned
                 PROVE  /\ persisted <= Len(pendingOps)
                        /\ Replay(journal) = SubSeq(pendingOps, 1, persisted)
        BY DEF MarkerMatchesJournal
    <2>1. queue \in Seq(Requests) /\ pendingOps \in Seq(Ops) /\ journal \in Seq(Ops) /\ persisted \in Nat
        BY DEF TypeOK, CleanInv
    <2>2. NoRewriteQueued
        BY <2>1 DEF Aligned, NoRewriteQueued
    <2>3. /\ persisted <= Len(pendingOps) /\ Len(journal) = persisted
          /\ \A i \in 1..persisted : journal[i] = pendingOps[i]
        BY <2>2 DEF Aligned, MarkerInv
    <2>4. journal = SubSeq(pendingOps, 1, persisted)
        <3> DEFINE p == SubSeq(pendingOps, 1, persisted)
        <3>1. p \in Seq(Ops) /\ Len(p) = persisted /\ \A i \in 1..persisted : p[i] = pendingOps[i]
            BY <2>1, <2>3
        <3> HIDE DEF p
        <3>2. journal = p
            BY <2>1, <2>3, <3>1, SeqEqual
        <3> QED BY <3>2 DEF p
    <2>5. Replay(journal) = journal
        BY CleanReplay DEF CleanInv
    <2> QED BY <2>3, <2>4, <2>5
<1> QED BY <1>1, <1>2, <1>3, TypeCorrect, PTL DEF Spec
=============================================================================
