----------------------------- MODULE Sync_proofs -----------------------------
(***************************************************************************)
(* Four theorems about Sync, for any devices, files, texts, edits and      *)
(* faults.                                                                 *)
(*                                                                         *)
(* PendingOpsReachTheServer: no step loses a recorded op on its way to the *)
(* server, but a fold of concurrent heads on the device that recorded it.  *)
(* The push clears what is pending and sends what was pending when the     *)
(* round began: that this is the same, and that nothing is pending when    *)
(* the applicator clears, is the inductive invariant PendingInv.           *)
(*                                                                         *)
(* TypesHold: the cursors, ids and heads are what TypeOK says.  The hard   *)
(* part is that no id is pending twice: the id of a merge node is made of  *)
(* its content and parents, and not of a stamp.  KindsInv says of every    *)
(* device and of every phase of its round which versions the entries, the  *)
(* snapshot, the actions and the minted nodes name, and (KeepsRedone,      *)
(* GuardsRedone) when a save could record a node that is pending already.  *)
(*                                                                         *)
(* ServerTakesAnOpOnce follows: a push never sends two ops of one id.      *)
(*                                                                         *)
(* PassedOpsAreInTheGraph: what the cursor of a device has passed is in    *)
(* its version graph.  PassedInv follows the pulled ops through a round:   *)
(* from the merge on they are in the graph, and only then is the cursor    *)
(* moved.                                                                  *)
(***************************************************************************)
EXTENDS Sync, FiniteSetTheorems, NaturalsInduction, TLAPS

----------------------------------------------------------------------------
(* Sequences of ops *)

IsSeq(s) == s \in Seq({s[i] : i \in DOMAIN s})

LEMMA SeqOver == ASSUME NEW T, NEW s \in Seq(T) PROVE IsSeq(s)
BY DEF IsSeq

LEMMA ShortSeqs == IsSeq(<<>>) /\ \A op : IsSeq(<<op>>)
BY DEF IsSeq

LEMMA AppendIds ==
  ASSUME NEW s, IsSeq(s), NEW e
  PROVE  IsSeq(Append(s, e)) /\ Ids(s) \subseteq Ids(Append(s, e))
<1> DEFINE T == {s[i] : i \in DOMAIN s} \cup {e}
<1>1. s \in Seq(T)
  BY DEF IsSeq
<1>2. Append(s, e) \in Seq(T)
  BY <1>1
<1>3. \A i \in DOMAIN s : i \in DOMAIN Append(s, e) /\ Append(s, e)[i] = s[i]
  BY <1>1
<1> QED BY <1>2, <1>3, SeqOver DEF Ids

LEMMA ConcatIds ==
  ASSUME NEW s, IsSeq(s), NEW t, IsSeq(t)
  PROVE  IsSeq(s \o t) /\ Ids(s) \subseteq Ids(s \o t) /\ Ids(t) \subseteq Ids(s \o t)
<1> DEFINE T == {s[i] : i \in DOMAIN s} \cup {t[i] : i \in DOMAIN t}
<1>1. s \in Seq(T) /\ t \in Seq(T)
  BY DEF IsSeq
<1>2. s \o t \in Seq(T)
  BY <1>1
<1>3. \A i \in DOMAIN s : i \in DOMAIN (s \o t) /\ (s \o t)[i] = s[i]
  BY <1>1
<1>4. \A i \in DOMAIN t : Len(s) + i \in DOMAIN (s \o t) /\ (s \o t)[Len(s) + i] = t[i]
  BY <1>1
<1> QED BY <1>2, <1>3, <1>4, SeqOver DEF Ids

\* The server has every op that is sent to it, and keeps those it had.
LEMMA AppendOpsIds ==
  ASSUME IsSeq(log), NEW ops, IsSeq(ops)
  PROVE  /\ IsSeq(AppendOps(ops))
         /\ Ids(log) \subseteq Ids(AppendOps(ops))
         /\ Ids(ops) \subseteq Ids(AppendOps(ops))
<1> DEFINE new    == {i \in DOMAIN ops : ops[i].id \notin Ids(log)}
           upTo(i) == {j \in new : j <= i}
           nth(k) == CHOOSE i \in new : Cardinality({j \in new : j <= i}) = k
           added  == [k \in 1..Cardinality(new) |-> ops[nth(k)]]
<1>1. DOMAIN ops = 1..Len(ops) /\ Len(ops) \in Nat
  BY DEF IsSeq
<1>2. IsFiniteSet(new) /\ new \subseteq Int
  <2>1. IsFiniteSet(1..Len(ops))
    BY <1>1, FS_Interval
  <2> QED BY <1>1, <2>1, FS_Subset
<1>3. Cardinality(new) \in Nat
  BY <1>2, FS_CardinalityType
<1>4. IsSeq(added)
  <2> DEFINE T == {ops[nth(k)] : k \in 1..Cardinality(new)}
  <2>1. added \in [1..Cardinality(new) -> T]
    OBVIOUS
  <2> HIDE DEF new, added, T
  <2>2. added \in Seq(T)
    BY <1>3, <2>1
  <2> QED BY <2>2, SeqOver
<1>5. AppendOps(ops) = log \o added
  BY DEF AppendOps
<1>10. ASSUME NEW a \in new, NEW b \in new, a < b
      PROVE  Cardinality(upTo(a)) # Cardinality(upTo(b))
  <2>1. IsFiniteSet(upTo(b))
    BY <1>2, FS_Subset
  <2>2. upTo(a) \subseteq upTo(b) /\ b \in upTo(b) /\ b \notin upTo(a)
    <3>1. new \subseteq Int /\ a \in Int /\ b \in Int /\ a \in new /\ b \in new
      BY <1>2
    <3> HIDE DEF new
    <3>2. \A j \in new : j <= a => j <= b
      BY <1>10, <3>1
    <3>3. b <= b /\ ~ (b <= a)
      BY <1>10, <3>1
    <3> QED BY <3>1, <3>2, <3>3
  <2> HIDE DEF upTo
  <2> QED BY <2>1, <2>2, FS_Subset
<1>6. ASSUME NEW i \in new PROVE ops[i].id \in Ids(added)
  <2>1. IsFiniteSet(upTo(i)) /\ Cardinality(upTo(i)) \in Nat /\ Cardinality(upTo(i)) <= Cardinality(new)
    BY <1>2, FS_Subset, FS_CardinalityType
  <2>2. Cardinality(upTo(i)) # 0
    BY <2>1, <1>2, FS_EmptySet
  <2>3. Cardinality(upTo(i)) \in 1..Cardinality(new)
    BY <2>1, <2>2, <1>3
  <2> DEFINE n == nth(Cardinality(upTo(i)))
  <2>4. n \in new /\ Cardinality(upTo(n)) = Cardinality(upTo(i))
    OBVIOUS
  <2>5. n = i
    BY <1>10, <1>2, <2>4
  <2>6. added[Cardinality(upTo(i))] = ops[i]
    BY <2>3, <2>5
  <2> QED BY <2>3, <2>6 DEF Ids
<1>7. \A i \in DOMAIN ops : ops[i].id \in Ids(log) \cup Ids(added)
  BY <1>6
<1> HIDE DEF added, new
<1>8. IsSeq(log \o added) /\ Ids(log) \subseteq Ids(log \o added) /\ Ids(added) \subseteq Ids(log \o added)
  BY <1>4, ConcatIds
<1>9. Ids(ops) \subseteq Ids(log) \cup Ids(added)
  BY <1>7 DEF Ids
<1> QED BY <1>5, <1>8, <1>9
----------------------------------------------------------------------------
(* What a fold over the files records *)

\* What the plugin of a device keeps, with the pending ops in a sequence.
Kept(v) == DOMAIN v = {"reg", "ops", "clock", "store"} /\ IsSeq(v.ops)

\* Nothing is taken from the pending ops.
Grows(v, w) == Kept(w) /\ Ids(v.ops) \subseteq Ids(w.ops)

recorded(v, d, f, how) ==
    IF how = "flush" THEN flushModify(v, d, f, disk[d][f]) ELSE captureFile(v, d, f, disk[d][f])

LEMMA RecordGrows ==
  ASSUME NEW v, Kept(v), NEW d, NEW f, NEW how
  PROVE  Grows(v, recorded(v, d, f, how))
<1>1. Grows(v, v)
  BY DEF Grows
<1>2. ASSUME NEW text PROVE Grows(v, LogUpdate(v, d, f, text))
  <2> DEFINE n  == v.clock + 1
             op == EditOp(d, f, text, n, {v.reg[f].head})
             w  == LogUpdate(v, d, f, text)
  <2>1. DOMAIN w = DOMAIN v /\ w.ops = Append(v.ops, op)
    <3> HIDE DEF op
    <3> QED BY DEF LogUpdate, Kept, op
  <2> QED BY <2>1, AppendIds DEF Grows, Kept
<1>3. ASSUME NEW text PROVE Grows(v, LogResolution(v, d, f, text))
  <2> DEFINE n  == v.clock + 1
             op == MergeOp(d, f, text, n, v.reg[f].conf)
             w  == LogResolution(v, d, f, text)
  <2>1. DOMAIN w = DOMAIN v /\ w.ops \in {v.ops, Append(v.ops, op)}
    <3> HIDE DEF op
    <3> QED BY DEF LogResolution, Kept, op
  <2> QED BY <2>1, AppendIds DEF Grows, Kept
<1> QED BY <1>1, <1>2, <1>3 DEF recorded, flushModify, captureFile

LEMMA LeastNat ==
  ASSUME NEW N \in SUBSET Nat, N # {}
  PROVE  \E n \in N : \A m \in N : n <= m
<1>1. PICK n \in N : \A m \in N : ~ (<<m, n>> \in OpToRel(<, Nat))
  BY NatLessThanWellFounded, WFMin
<1>2. ASSUME NEW m \in N PROVE n <= m
  <2>1. m \in Nat /\ n \in Nat /\ ~ (m < n)
    BY <1>1 DEF OpToRel
  <2> QED BY <2>1
<1> QED BY <1>2

pick(s) == CHOOSE x \in s : TRUE

\* One step of the recursion of the fold.
step(v, d, how, g, s) ==
    IF s = {} THEN v ELSE recorded(g[s \ {pick(s)}], d, pick(s), how)

\* The recursion has a solution on the subsets of n files, whatever n is: a least n
\* without one would be the successor of one that has it.
LEMMA FoldExists ==
  ASSUME NEW v, NEW d, NEW S, IsFiniteSet(S), NEW how
  PROVE  \E g : g = [s \in SUBSET S |-> step(v, d, how, g, s)]
<1> DEFINE Fits(g, n) == \A s \in SUBSET S : Cardinality(s) <= n => g[s] = step(v, d, how, g, s)
           Bad == {n \in Nat : ~ \E g : Fits(g, n)}
<1>1. \A s \in SUBSET S : Cardinality(s) \in Nat /\ Cardinality(s) <= Cardinality(S)
  BY FS_Subset, FS_CardinalityType
<1>2. \A s \in SUBSET S : s # {} => /\ s \ {pick(s)} \in SUBSET S
                                     /\ Cardinality(s \ {pick(s)}) = Cardinality(s) - 1
  <2>1. \A s \in SUBSET S : IsFiniteSet(s) /\ (s # {} => pick(s) \in s)
    BY FS_Subset DEF pick
  <2> QED BY <2>1, FS_RemoveElement
<1>3. Fits([s \in SUBSET S |-> v], 0)
  <2>1. \A s \in SUBSET S : Cardinality(s) <= 0 => s = {}
    BY <1>1, FS_Subset, FS_EmptySet
  <2> QED BY <2>1 DEF step
<1>4. ASSUME NEW n \in Nat, NEW g, Fits(g, n)
      PROVE  Fits([s \in SUBSET S |-> step(v, d, how, g, s)], n + 1)
  <2> DEFINE h == [s \in SUBSET S |-> step(v, d, how, g, s)]
  <2> SUFFICES ASSUME NEW s \in SUBSET S, Cardinality(s) <= n + 1
               PROVE  h[s] = step(v, d, how, h, s)
    OBVIOUS
  <2>1. CASE s = {}
    BY <2>1 DEF step
  <2>2. CASE s # {}
    <3> DEFINE t == s \ {pick(s)}
    <3>1. t \in SUBSET S /\ Cardinality(t) <= n
      BY <2>2, <1>1, <1>2
    <3>2. h[t] = g[t]
      <4>1. h[t] = step(v, d, how, g, t)
        BY <3>1
      <4> QED BY <4>1, <3>1, <1>4
    <3>3. h[s] = step(v, d, how, g, s)
      OBVIOUS
    <3> QED BY <3>2, <3>3 DEF step
  <2> QED BY <2>1, <2>2
<1> HIDE DEF Fits
<1>5. Bad = {}
  <2> SUFFICES ASSUME Bad # {} PROVE FALSE
    OBVIOUS
  <2>1. PICK n \in Bad : \A m \in Bad : n <= m
    BY LeastNat
  <2>2. n # 0
    BY <1>3
  <2>3. PICK m \in Nat : n = m + 1
    <3>1. n - 1 \in Nat /\ n = (n - 1) + 1
      BY <2>1, <2>2
    <3> QED BY <3>1
  <2>4. PICK g : Fits(g, m)
    BY <2>1, <2>3
  <2>5. Fits([s \in SUBSET S |-> step(v, d, how, g, s)], m + 1)
    BY <1>4, <2>4
  <2> QED BY <2>3, <2>5
<1>6. PICK g : Fits(g, Cardinality(S))
  <2>1. Cardinality(S) \in Nat
    BY FS_CardinalityType
  <2> QED BY <1>5, <2>1
<1> DEFINE h == [s \in SUBSET S |-> g[s]]
<1>7. ASSUME NEW s \in SUBSET S PROVE h[s] = step(v, d, how, h, s)
  <2>1. g[s] = step(v, d, how, g, s)
    BY <1>1, <1>6 DEF Fits
  <2>2. CASE s = {}
    BY <2>1, <2>2 DEF step
  <2>3. CASE s # {}
    <3>1. h[s \ {pick(s)}] = g[s \ {pick(s)}]
      BY <2>3, <1>2
    <3> QED BY <2>1, <2>3, <3>1 DEF step
  <2> QED BY <2>2, <2>3
<1>8. h = [s \in SUBSET S |-> step(v, d, how, h, s)]
  <2> HIDE DEF h
  <2>1. h = [s \in SUBSET S |-> h[s]]
    BY DEF h
  <2> QED BY <2>1, <1>7
<1> QED BY <1>8

LEMMA RecordFilesGrows ==
  ASSUME NEW v, Kept(v), NEW d, NEW S, IsFiniteSet(S), NEW how
  PROVE  Grows(v, RecordFiles(v, d, S, how))
<1> DEFINE fold == CHOOSE g : g = [s \in SUBSET S |-> step(v, d, how, g, s)]
<1>1. RecordFiles(v, d, S, how) = fold[S]
  BY DEF RecordFiles, FoldSet, MapThenFoldSet, step, pick, recorded
<1>2. fold = [s \in SUBSET S |-> step(v, d, how, fold, s)]
  BY FoldExists
<1> HIDE DEF fold
<1> DEFINE Bad == {s \in SUBSET S : ~ Grows(v, fold[s])}
<1>3. Bad = {}
  <2> SUFFICES ASSUME Bad # {} PROVE FALSE
    OBVIOUS
  <2> DEFINE sizes == {Cardinality(s) : s \in Bad}
  <2>1. \A s \in SUBSET S : IsFiniteSet(s) /\ Cardinality(s) \in Nat
    BY FS_Subset, FS_CardinalityType
  <2>2. PICK s \in Bad : \A t \in Bad : Cardinality(s) <= Cardinality(t)
    <3>1. sizes \in SUBSET Nat /\ sizes # {}
      BY <2>1
    <3> HIDE DEF sizes
    <3>2. PICK n \in sizes : \A m \in sizes : n <= m
      BY <3>1, LeastNat
    <3> USE DEF sizes
    <3>3. PICK s \in Bad : Cardinality(s) = n
      OBVIOUS
    <3> QED BY <3>2, <3>3
  <2>3. s # {}
    <3>1. Grows(v, v)
      BY DEF Grows
    <3> QED BY <1>2, <2>2, <3>1 DEF step
  <2> DEFINE t == s \ {pick(s)}
  <2>4. t \in SUBSET S /\ Cardinality(t) = Cardinality(s) - 1
    <3>1. pick(s) \in s
      BY <2>3 DEF pick
    <3> QED BY <2>1, <3>1, FS_RemoveElement
  <2>5. Grows(v, fold[t])
    BY <2>1, <2>2, <2>4
  <2>6. fold[s] = recorded(fold[t], d, pick(s), how)
    <3>1. fold[s] = step(v, d, how, fold, s)
      BY <1>2
    <3> QED BY <2>3, <3>1 DEF step
  <2>7. Grows(fold[t], fold[s])
    BY <2>5, <2>6, RecordGrows DEF Grows
  <2>8. Grows(v, fold[s])
    BY <2>5, <2>7 DEF Grows
  <2> QED BY <2>8
<1> QED BY <1>1, <1>3
----------------------------------------------------------------------------
(* The invariant of the pending ops *)

\* What holds between a round r of a device and what its plugin keeps: a closed app has
\* no round, the push sends all that is pending, and nothing is pending when the
\* applicator runs.
RoundOf(r, v, open) ==
    r # NoRound =>
        /\ open /\ "phase" \in DOMAIN r
        /\ r.phase = "push" => r.ops = v.ops
        /\ r.phase \in {"merge", "apply"} => v.ops = <<>>
        /\ r.phase = "apply" => /\ {"minted", "deferred"} \subseteq DOMAIN r
                                /\ IsSeq(r.minted) /\ r.deferred \subseteq Files

PendingInv ==
    /\ IsSeq(log)
    /\ armed \in [Devices -> SUBSET Files]
    /\ running \in [Devices -> BOOLEAN]
    /\ dev = [d \in Devices |-> dev[d]] /\ round = [d \in Devices |-> round[d]]
    /\ \A d \in Devices : Kept(dev[d]) /\ RoundOf(round[d], dev[d], running[d])

\* The server keeps its ops, every pending op of a device outside of D stays pending or
\* is on the server, and what is newly recorded is pending.
Carries(D) ==
    /\ Ids(log) \subseteq Ids(log')
    /\ \A e \in Devices \ D : Ids(dev[e].ops) \subseteq Ids(dev'[e].ops) \cup Ids(log')
    /\ \A op \in emitted' : op \in emitted \/ \E e \in Devices : op.id \in Ids(dev'[e].ops)

\* What a step of device d has to establish.
LEMMA DeviceStep ==
  ASSUME PendingInv, NEW d \in Devices, NEW w, NEW r,
         dev' = [dev EXCEPT ![d] = w], round' = [round EXCEPT ![d] = r],
         Kept(w), RoundOf(r, w, running'[d]),
         IsSeq(log'), Ids(log) \subseteq Ids(log'),
         armed' \in [Devices -> SUBSET Files],
         running' \in [Devices -> BOOLEAN],
         \A e \in Devices \ {d} : running'[e] = running[e],
         emitted' \subseteq emitted \cup ToSet(w.ops)
  PROVE  /\ PendingInv'
         /\ Carries({d})
         /\ Ids(dev[d].ops) \subseteq Ids(w.ops) \cup Ids(log') => Carries({})
<1>1. /\ dev'[d] = w /\ round'[d] = r
      /\ dev' = [e \in Devices |-> dev'[e]] /\ round' = [e \in Devices |-> round'[e]]
  BY DEF PendingInv
<1>2. \A e \in Devices \ {d} : dev'[e] = dev[e] /\ round'[e] = round[e]
  BY DEF PendingInv
<1>3. ASSUME NEW e \in Devices PROVE Kept(dev'[e]) /\ RoundOf(round'[e], dev'[e], running'[e])
  BY <1>1, <1>2 DEF PendingInv
<1>4. \A op \in emitted' : op \in emitted \/ \E e \in Devices : op.id \in Ids(dev'[e].ops)
  BY <1>1 DEF ToSet, Ids
<1>5. PendingInv'
  <2> HIDE DEF PendingInv
  <2>1. IsSeq(log)' /\ \A e \in Devices : Kept(dev[e])' /\ RoundOf(round[e], dev[e], running[e])'
    BY <1>3 DEF Kept, RoundOf, IsSeq
  <2> QED BY <1>1, <2>1 DEF PendingInv
<1> QED BY <1>1, <1>2, <1>4, <1>5 DEF Carries

LEMMA InitPending == ASSUME Init PROVE PendingInv
<1>1. IsSeq(log)
  <2> DEFINE S == {Root(f) : f \in Files}
  <2>1. IsFiniteSet(S)
    <3> DEFINE first == [f \in Files |-> Root(f)]
    <3>1. first \in Surjection(Files, S)
      BY DEF Surjection
    <3> QED BY <3>1, DevicesAssumption, FS_Surjection
  <2> HIDE DEF S
  <2>2. ExistsBijection(1..Cardinality(S), S)
    BY <2>1, FS_CardinalityType
  <2>3. \E g \in [1..Cardinality(S) -> S] : IsInjective(g)
    BY <2>2 DEF ExistsBijection, Bijection, Injection, IsInjective
  <2>4. log \in [1..Cardinality(S) -> S]
    BY <2>3 DEF Init, SetToSeq, S
  <2>5. log \in Seq(S)
    BY <2>1, <2>4, FS_CardinalityType
  <2> QED BY <2>5, SeqOver
<1>2. \A d \in Devices : DOMAIN dev[d] = {"reg", "ops", "clock", "store"} /\ dev[d].ops = <<>>
  BY DEF Init
<1>3. IsSeq(<<>>)
  BY DEF IsSeq
<1>4. \A d \in Devices : Kept(dev[d]) /\ RoundOf(round[d], dev[d], running[d])
  BY <1>2, <1>3 DEF Init, Kept, RoundOf
<1> QED BY <1>1, <1>4 DEF Init, PendingInv
----------------------------------------------------------------------------
(* Each step *)

LEMMA SameOps ==
  ASSUME NEW v, NEW w, Kept(v), DOMAIN w = DOMAIN v, w.ops = v.ops
  PROVE  Kept(w) /\ Ids(v.ops) \subseteq Ids(w.ops)
BY DEF Kept

LEMMA FoldsGrow ==
  ASSUME NEW v, Kept(v), NEW d, NEW S \in SUBSET Files
  PROVE  Grows(v, FlushFiles(v, d, S)) /\ Grows(v, CaptureFiles(v, d, S))
<1>1. IsFiniteSet(S)
  BY DevicesAssumption, FS_Subset
<1> QED BY <1>1, RecordFilesGrows DEF FlushFiles, CaptureFiles

\* A step that leaves what the plugin keeps, the round and the log alone.
LEMMA OutsideStep ==
  ASSUME PendingInv, UNCHANGED <<log, dev, round, running, emitted>>,
         armed' \in [Devices -> SUBSET Files]
  PROVE  PendingInv' /\ Carries({})
<1>1. PendingInv'
  <2>1. IsSeq(log)'
    BY DEF PendingInv, IsSeq
  <2>2. ASSUME NEW e \in Devices PROVE Kept(dev[e])'
    BY DEF PendingInv, Kept, IsSeq
  <2>3. ASSUME NEW e \in Devices PROVE RoundOf(round[e], dev[e], running[e])'
    <3>1. RoundOf(round[e], dev[e], running[e])
      BY DEF PendingInv
    <3> QED BY <3>1, Zenon
  <2> QED BY <2>1, <2>2, <2>3 DEF PendingInv
<1> QED BY <1>1 DEF Carries

LEMMA UserSteps ==
  ASSUME PendingInv, NEW d \in Devices, NEW f \in Files,
         UserResolve(d, f) \/ \E e \in Typable[d] : UserEdit(d, f, e)
  PROVE  PendingInv' /\ Carries({})
<1>1. armed' \in [Devices -> SUBSET Files]
  BY DEF PendingInv, UserResolve, UserEdit, Save
<1> QED BY <1>1, OutsideStep DEF UserResolve, UserEdit, history

LEMMA GraphLostStep ==
  ASSUME PendingInv, NEW d \in Devices, GraphLost(d)
  PROVE  PendingInv' /\ Carries({})
<1>1. armed' \in [Devices -> SUBSET Files]
  BY DEF PendingInv, GraphLost
<1> QED BY <1>1, OutsideStep DEF GraphLost

LEMMA DebounceStep ==
  ASSUME PendingInv, NEW d \in Devices, NEW f \in Files, round[d] = NoRound, DebounceFires(d, f)
  PROVE  PendingInv' /\ Carries({})
<1> DEFINE w == flushModify(dev[d], d, f, disk[d][f])
<1>1. Grows(dev[d], w)
  <2>1. w = recorded(dev[d], d, f, "flush")
    BY DEF recorded
  <2> QED BY <2>1, RecordGrows DEF PendingInv
<1> HIDE DEF w
<1>2. /\ dev' = [dev EXCEPT ![d] = w] /\ emitted' = emitted \cup ToSet(w.ops)
      /\ round' = round /\ running' = running /\ log' = log
      /\ armed' = [armed EXCEPT ![d] = @ \ {f}]
  BY DEF DebounceFires, w
<1>3. round' = [round EXCEPT ![d] = round[d]]
  BY <1>2 DEF PendingInv
<1> QED BY <1>1, <1>2, <1>3, DeviceStep DEF Grows, RoundOf, PendingInv

LEMMA BeginRoundStep ==
  ASSUME PendingInv, NEW d \in Devices, BeginRound(d)
  PROVE  PendingInv' /\ Carries({})
<1> DEFINE w == CaptureFiles(FlushFiles(dev[d], d, armed[d]), d, Files)
           r == [phase |-> "captured"]
<1>1. Grows(dev[d], w)
  <2>1. Grows(dev[d], FlushFiles(dev[d], d, armed[d]))
    BY FoldsGrow DEF PendingInv
  <2> QED BY <2>1, FoldsGrow DEF Grows
<1>2. RoundOf(r, w, running[d])
  <2>1. running[d]
    BY DEF BeginRound, CanSync
  <2> QED BY <2>1 DEF RoundOf
<1>3. /\ dev' = [dev EXCEPT ![d] = w] /\ emitted' = emitted \cup ToSet(w.ops)
      /\ round' = [round EXCEPT ![d] = r] /\ running' = running /\ log' = log
      /\ armed' = [armed EXCEPT ![d] = {}]
  BY DEF BeginRound
<1> HIDE DEF w, r
<1> QED BY <1>1, <1>2, <1>3, DeviceStep DEF Grows, PendingInv

LEMMA PullStep ==
  ASSUME PendingInv, NEW d \in Devices, Pull(d)
  PROVE  PendingInv' /\ Carries({})
<1>1. PICK missing : round' = [round EXCEPT ![d] =
          [phase |-> IF dev[d].ops = <<>> THEN "merge" ELSE "push",
           snap |-> SnapshotOf(d), ops |-> dev[d].ops, clock |-> dev[d].clock,
           start |-> StartCursor(d), pulled |-> SubSeq(log, StartCursor(d) + 1, Len(log)),
           missing |-> missing]]
  BY DEF Pull
<1> DEFINE r == [phase |-> IF dev[d].ops = <<>> THEN "merge" ELSE "push",
                 snap |-> SnapshotOf(d), ops |-> dev[d].ops, clock |-> dev[d].clock,
                 start |-> StartCursor(d), pulled |-> SubSeq(log, StartCursor(d) + 1, Len(log)),
                 missing |-> missing]
<1>2. RoundOf(r, dev[d], running[d])
  BY DEF RoundOf, PendingInv, Pull, InPhase
<1>3. round' = [round EXCEPT ![d] = r]
  BY <1>1
<1> HIDE DEF r
<1>4. dev' = [dev EXCEPT ![d] = dev[d]] /\ UNCHANGED <<log, armed, running, emitted>>
  BY DEF Pull, PendingInv
<1> QED BY <1>2, <1>3, <1>4, DeviceStep DEF PendingInv

LEMMA PushStep ==
  ASSUME PendingInv, NEW d \in Devices, Push(d)
  PROVE  PendingInv' /\ Carries({})
<1> DEFINE w == [dev[d] EXCEPT !.ops = <<>>]
           r == [round[d] EXCEPT !.phase = "merge"]
<1>1. round[d].ops = dev[d].ops /\ IsSeq(dev[d].ops) /\ IsSeq(log) /\ running[d]
  BY DEF Push, PendingInv, InPhase, RoundOf, Kept
<1>2. Ids(dev[d].ops) \subseteq Ids(log') /\ Ids(log) \subseteq Ids(log') /\ IsSeq(log')
  BY <1>1, AppendOpsIds DEF Push
<1>3. Kept(w) /\ RoundOf(r, w, running[d])
  <2>1. DOMAIN w = DOMAIN dev[d] /\ w.ops = <<>> /\ "phase" \in DOMAIN r /\ r.phase = "merge"
    BY DEF PendingInv, Kept, Push, InPhase, RoundOf
  <2>2. IsSeq(<<>>)
    BY DEF IsSeq
  <2> HIDE DEF w, r
  <2> QED BY <1>1, <2>1, <2>2 DEF Kept, RoundOf, PendingInv
<1>4. /\ dev' = [dev EXCEPT ![d] = w] /\ round' = [round EXCEPT ![d] = r]
      /\ UNCHANGED <<armed, running, emitted>>
  BY DEF Push, history
<1> HIDE DEF w, r
<1> QED BY <1>2, <1>3, <1>4, DeviceStep DEF PendingInv

LEMMA RoundFailsStep ==
  ASSUME PendingInv, NEW d \in Devices, RoundFails(d)
  PROVE  PendingInv' /\ Carries({})
<1>1. Ids(log) \subseteq Ids(log') /\ IsSeq(log')
  <2>1. CASE log' = log
    BY <2>1 DEF PendingInv, IsSeq
  <2>2. CASE InPhase(d, "push") /\ \E k \in 0..Len(round[d].ops) :
                                      log' = AppendOps(SubSeq(round[d].ops, 1, k))
    <3>1. PICK k \in 0..Len(round[d].ops) : log' = AppendOps(SubSeq(round[d].ops, 1, k))
      BY <2>2
    <3>2. IsSeq(round[d].ops)
      BY <2>2 DEF PendingInv, InPhase, RoundOf, Kept
    <3>3. IsSeq(SubSeq(round[d].ops, 1, k))
      <4> DEFINE s == round[d].ops
                 T == {s[i] : i \in DOMAIN s}
      <4>1. s \in Seq(T)
        BY <3>2 DEF IsSeq
      <4> HIDE DEF s, T
      <4>2. SubSeq(s, 1, k) \in Seq(T)
        BY <4>1, <3>1 DEF s
      <4> QED BY <4>2, SeqOver DEF s
    <3> QED BY <3>1, <3>3, AppendOpsIds DEF PendingInv
  <2> QED BY <2>1, <2>2 DEF RoundFails
<1>2. /\ dev' = [dev EXCEPT ![d] = dev[d]] /\ round' = [round EXCEPT ![d] = NoRound]
      /\ UNCHANGED <<armed, running, emitted>>
  BY DEF RoundFails, PendingInv
<1>3. RoundOf(NoRound, dev[d], running[d])
  BY DEF RoundOf
<1> QED BY <1>1, <1>2, <1>3, DeviceStep DEF PendingInv

LEMMA MergeStep ==
  ASSUME PendingInv, NEW d \in Devices, Merge(d)
  PROVE  PendingInv' /\ Carries({})
<1>1. /\ InPhase(d, "merge") /\ running[d] /\ dev[d].ops = <<>>
  BY DEF Merge, PendingInv, InPhase, RoundOf
<1>2. PICK n : dev' = [dev EXCEPT ![d].clock = n]
  BY DEF Merge
<1> DEFINE w == [dev[d] EXCEPT !.clock = n]
<1>3. dev' = [dev EXCEPT ![d] = w] /\ Kept(w) /\ w.ops = <<>>
  BY <1>1, <1>2 DEF PendingInv, Kept
<1>4. PICK acts, todo : round' = [round EXCEPT ![d] =
         [phase |-> "apply", snap |-> @.snap, start |-> @.start, pulled |-> @.pulled,
          missing |-> @.missing, acts |-> acts, todo |-> todo,
          reg |-> dev[d].reg, blobs |-> {}, minted |-> <<>>, deferred |-> {}]]
  BY DEF Merge
<1> DEFINE r == [phase |-> "apply", snap |-> round[d].snap, start |-> round[d].start,
                 pulled |-> round[d].pulled, missing |-> round[d].missing, acts |-> acts,
                 todo |-> todo, reg |-> dev[d].reg, blobs |-> {}, minted |-> <<>>,
                 deferred |-> {}]
<1>5. round' = [round EXCEPT ![d] = r]
  BY <1>4 DEF PendingInv
<1>6. RoundOf(r, w, running[d])
  <2>1. IsSeq(<<>>)
    BY DEF IsSeq
  <2> HIDE DEF w
  <2> QED BY <1>1, <1>3, <2>1 DEF RoundOf
<1>7. armed' = [armed EXCEPT ![d] = {}] /\ UNCHANGED <<log, running, emitted>>
  BY DEF Merge
<1> HIDE DEF w, r
<1>8. Ids(dev[d].ops) \subseteq Ids(w.ops)
  BY <1>1, <1>3
<1> QED BY <1>3, <1>5, <1>6, <1>7, <1>8, DeviceStep DEF PendingInv

LEMMA ApplyFileStep ==
  ASSUME PendingInv, NEW d \in Devices, NEW f \in Files, ApplyFile(d, f) \/ ApplyThrows(d, f)
  PROVE  PendingInv' /\ Carries({})
<1>1. /\ InPhase(d, "apply") /\ running[d] /\ dev[d].ops = <<>> /\ IsSeq(round[d].minted)
      /\ {"phase", "minted", "deferred"} \subseteq DOMAIN round[d]
      /\ round[d].phase = "apply" /\ round[d].deferred \subseteq Files
  BY DEF ApplyFile, ApplyThrows, PendingInv, InPhase, RoundOf
<1>2. UNCHANGED <<log, armed, running, emitted>>
  BY DEF ApplyFile, ApplyThrows, history
<1>3. ASSUME dev' = dev,
             round' = [round EXCEPT ![d].todo = @ \ {f}, ![d].deferred = @ \cup {f}]
      PROVE  PendingInv' /\ Carries({})
  <2> DEFINE r == [round[d] EXCEPT !.todo = @ \ {f}, !.deferred = @ \cup {f}]
  <2>1. round' = [round EXCEPT ![d] = r] /\ dev' = [dev EXCEPT ![d] = dev[d]]
    BY <1>3 DEF PendingInv
  <2>2. RoundOf(r, dev[d], running[d])
    BY <1>1 DEF RoundOf
  <2> HIDE DEF r
  <2> QED BY <1>2, <2>1, <2>2, DeviceStep DEF PendingInv
<1>4. ASSUME NEW act, NEW n,
             dev' = [dev EXCEPT ![d].clock = n],
             round' = [round EXCEPT ![d] =
                 [round[d] EXCEPT !.todo = @ \ {f}, !.blobs = @ \cup {act.content},
                           !.reg[f] = Adopted(d, round[d].reg[f], act, n),
                           !.minted = @ \o Minted(d, f, act, n)]]
      PROVE  PendingInv' /\ Carries({})
  <2> DEFINE w == [dev[d] EXCEPT !.clock = n]
             m == Minted(d, f, act, n)
             x == Adopted(d, round[d].reg[f], act, n)
             r == [round[d] EXCEPT !.todo = @ \ {f}, !.blobs = @ \cup {act.content},
                                   !.reg[f] = x, !.minted = @ \o m]
  <2>1. round' = [round EXCEPT ![d] = r] /\ dev' = [dev EXCEPT ![d] = w]
    <3>1. round' = [round EXCEPT ![d] = r]
      BY <1>4 DEF PendingInv
    <3>2. dev' = [dev EXCEPT ![d] = w]
      BY <1>4 DEF PendingInv
    <3> QED BY <3>1, <3>2
  <2>2. Kept(w) /\ w.ops = <<>> /\ Ids(dev[d].ops) \subseteq Ids(w.ops)
    BY <1>1 DEF PendingInv, Kept
  <2>3. IsSeq(m)
    <3> HIDE DEF m
    <3>1. m = <<>> \/ \E op : m = <<op>>
      BY DEF m, Minted
    <3> QED BY <3>1, ShortSeqs
  <2>4. IsSeq(round[d].minted \o m)
    BY <1>1, <2>3, ConcatIds
  <2>5. /\ DOMAIN r = DOMAIN round[d] /\ r.phase = "apply" /\ r.minted = round[d].minted \o m
        /\ r.deferred = round[d].deferred
    <3> HIDE DEF m, x
    <3> QED BY <1>1
  <2> HIDE DEF r, w, m, x
  <2>6. RoundOf(r, w, running[d])
    BY <1>1, <2>2, <2>4, <2>5 DEF RoundOf
  <2> QED BY <1>2, <2>1, <2>2, <2>6, DeviceStep DEF PendingInv
<1>5. CASE ApplyThrows(d, f) \/ (ApplyFile(d, f) /\ Drifted(d, f, Snapshot(d)))
  BY <1>3, <1>5 DEF ApplyFile, ApplyThrows
<1>6. CASE ApplyFile(d, f) /\ ~ Drifted(d, f, Snapshot(d))
  <2> DEFINE act == round[d].acts[f]
             n   == IF act.type = "write_local" THEN dev[d].clock ELSE dev[d].clock + 1
  <2>1. /\ dev' = [dev EXCEPT ![d].clock = n]
        /\ round' = [round EXCEPT ![d] =
               [round[d] EXCEPT !.todo = @ \ {f}, !.blobs = @ \cup {act.content},
                         !.reg[f] = Adopted(d, round[d].reg[f], act, n),
                         !.minted = @ \o Minted(d, f, act, n)]]
    BY <1>6 DEF ApplyFile
  <2> HIDE DEF act, n
  <2> QED BY <1>4, <2>1
<1> QED BY <1>5, <1>6

\* Minted nodes and recaptured files: nothing that was pending is taken.
LEMMA EmitGrows ==
  ASSUME NEW v, Kept(v), NEW d, NEW minted, IsSeq(minted), NEW S \in SUBSET Files
  PROVE  Grows(v, Emit(v, d, minted, S))
<1> DEFINE u == [v EXCEPT !.ops = @ \o minted]
<1>1. Grows(v, u)
  BY ConcatIds DEF Grows, Kept
<1> HIDE DEF u
<1>2. Grows(u, FlushFiles(u, d, S))
  BY <1>1, FoldsGrow DEF Grows
<1> QED BY <1>1, <1>2 DEF Emit, Grows, u

LEMMA ApplyEmitsStep ==
  ASSUME PendingInv, NEW d \in Devices, ApplyEmits(d)
  PROVE  PendingInv' /\ Carries({})
<1>1. /\ running[d] /\ dev[d].ops = <<>> /\ IsSeq(round[d].minted)
      /\ {"phase", "minted", "deferred"} \subseteq DOMAIN round[d]
      /\ round[d].deferred \subseteq Files
  BY DEF ApplyEmits, PendingInv, InPhase, RoundOf
<1> DEFINE cleared == [dev[d] EXCEPT !.ops = <<>>, !.store = @ \cup round[d].blobs,
                                     !.reg = round[d].reg]
           v == Emit(cleared, d, round[d].minted, round[d].deferred)
           w == [v EXCEPT !.reg = dev[d].reg]
           r == [round[d] EXCEPT !.phase = "flush", !.reg = v.reg]
<1>2. Kept(cleared)
  <2>1. IsSeq(<<>>)
    BY DEF IsSeq
  <2> QED BY <2>1 DEF Kept, PendingInv
<1>3. Kept(v)
  <2> HIDE DEF cleared
  <2> QED BY <1>1, <1>2, EmitGrows DEF Grows
<1>4. dev' = [dev EXCEPT ![d] = w] /\ round' = [round EXCEPT ![d] = r]
      /\ emitted' = emitted \cup ToSet(v.ops) /\ UNCHANGED <<log, armed, running>>
  BY DEF ApplyEmits
<1> HIDE DEF v
<1>5. Kept(w) /\ w.ops = v.ops
  BY <1>3 DEF Kept
<1>6. DOMAIN r = DOMAIN round[d] /\ r.phase = "flush"
  BY <1>1
<1> HIDE DEF w, r
<1>7. RoundOf(r, w, running[d])
  BY <1>1, <1>6 DEF RoundOf
<1>8. Ids(dev[d].ops) \subseteq Ids(w.ops)
  BY <1>1 DEF Ids
<1> QED BY <1>4, <1>5, <1>7, <1>8, DeviceStep DEF PendingInv

LEMMA ApplyFlushesStep ==
  ASSUME PendingInv, NEW d \in Devices, ApplyFlushes(d)
  PROVE  PendingInv' /\ Carries({})
<1> DEFINE w == [dev[d] EXCEPT !.reg = round[d].reg]
           r == [phase |-> "fold", start |-> round[d].start, pulled |-> round[d].pulled,
                 missing |-> round[d].missing, deferred |-> round[d].deferred,
                 attempted |-> {}, folded |-> TRUE]
<1>1. /\ dev' = [dev EXCEPT ![d] = w] /\ round' = [round EXCEPT ![d] = r]
      /\ UNCHANGED <<log, armed, running, emitted>>
  BY DEF ApplyFlushes, PendingInv, history
<1>2. Kept(w) /\ w.ops = dev[d].ops
  BY DEF PendingInv, Kept
<1>3. RoundOf(r, w, running[d])
  BY DEF ApplyFlushes, InPhase, PendingInv, RoundOf
<1> HIDE DEF w, r
<1> QED BY <1>1, <1>2, <1>3, DeviceStep DEF PendingInv

LEMMA FoldPassStep ==
  ASSUME PendingInv, NEW d \in Devices, FoldPass(d)
  PROVE  PendingInv' /\ Carries({})
<1>1. PICK leaf : round' = [round EXCEPT ![d] =
         [phase |-> "foldfile", start |-> @.start, pulled |-> @.pulled,
          missing |-> @.missing, deferred |-> @.deferred, folded |-> FALSE,
          attempted |-> @.attempted, snap |-> SnapshotOf(d), clock |-> dev[d].clock,
          leaf |-> leaf]]
  BY DEF FoldPass
<1> DEFINE r == [phase |-> "foldfile", start |-> round[d].start, pulled |-> round[d].pulled,
                 missing |-> round[d].missing, deferred |-> round[d].deferred, folded |-> FALSE,
                 attempted |-> round[d].attempted, snap |-> SnapshotOf(d),
                 clock |-> dev[d].clock, leaf |-> leaf]
<1>2. /\ dev' = [dev EXCEPT ![d] = dev[d]] /\ round' = [round EXCEPT ![d] = r]
      /\ UNCHANGED <<log, armed, running, emitted>>
  BY <1>1 DEF FoldPass, PendingInv, history
<1>3. RoundOf(r, dev[d], running[d])
  BY DEF FoldPass, InPhase, PendingInv, RoundOf
<1> HIDE DEF r
<1> QED BY <1>2, <1>3, DeviceStep DEF PendingInv

\* After a fold of one file the round is at the next one, or before the next pass.
LEMMA FoldDoneRound ==
  ASSUME PendingInv, NEW d \in Devices, NEW f, NEW missing, InPhase(d, "foldfile"),
         FoldDone(d, f, missing)
  PROVE  \E r : /\ round' = [round EXCEPT ![d] = r]
                /\ "phase" \in DOMAIN r /\ r.phase \in {"fold", "foldfile"}
<1>1. "phase" \in DOMAIN round[d] /\ round[d].phase = "foldfile"
  BY DEF PendingInv, InPhase, RoundOf
<1> DEFINE left   == DOMAIN round[d].leaf \ {f}
           passed == round[d].attempted \cup {round[d].leaf[f]}
           absent == round[d].missing \cup missing
           folds  == round[d].folded \/ missing = {}
           leaf   == [x \in left |-> round[d].leaf[x]]
           r == IF left = {}
                THEN [phase |-> "fold", start |-> round[d].start, pulled |-> round[d].pulled,
                      missing |-> absent, deferred |-> round[d].deferred,
                      attempted |-> passed, folded |-> folds]
                ELSE [round[d] EXCEPT !.missing = absent, !.attempted = passed,
                                      !.folded = folds, !.leaf = leaf]
<1>2. round' = [round EXCEPT ![d] = r]
  BY DEF FoldDone
<1>3. "phase" \in DOMAIN r /\ r.phase \in {"fold", "foldfile"}
  <2> HIDE DEF left, passed, absent, folds, leaf
  <2> QED BY <1>1
<1> HIDE DEF r
<1> QED BY <1>2, <1>3

LEMMA FoldMissingStep ==
  ASSUME PendingInv, NEW d \in Devices, NEW f \in Files, FoldMissing(d, f)
  PROVE  PendingInv' /\ Carries({})
<1>1. PICK r : /\ round' = [round EXCEPT ![d] = r]
               /\ "phase" \in DOMAIN r /\ r.phase \in {"fold", "foldfile"}
  BY FoldDoneRound DEF FoldMissing
<1>2. /\ dev' = [dev EXCEPT ![d] = dev[d]] /\ UNCHANGED <<log, armed, running, emitted>>
  BY DEF FoldMissing, PendingInv
<1>3. RoundOf(r, dev[d], running[d])
  BY <1>1 DEF FoldMissing, InPhase, PendingInv, RoundOf
<1> QED BY <1>1, <1>2, <1>3, DeviceStep DEF PendingInv

\* A fold clears the pending ops of its device, and of no other.
LEMMA FoldFileStep ==
  ASSUME PendingInv, NEW d \in Devices, NEW f \in Files, FoldFile(d, f)
  PROVE  PendingInv' /\ Carries({d})
<1> USE DEF FoldFile
<1>1. running[d] /\ Kept(dev[d]) /\ InPhase(d, "foldfile")
  BY DEF PendingInv, InPhase, RoundOf
<1>2. PICK r : /\ round' = [round EXCEPT ![d] = r]
               /\ "phase" \in DOMAIN r /\ r.phase \in {"fold", "foldfile"}
  BY FoldDoneRound
<1> DEFINE leaf == OpOf(d, round[d].leaf[f])
           re   == Entry(f, [hash |-> leaf.hash, hlc |-> leaf.hlc, head |-> leaf.id, conf |-> {}])
           le   == Snapshot(d)[f]
           act  == classifyAndResolve(dag[d], Entry(f, le), re, Staged(d, dag[d], le), {re.hash})
           time == Max({dev[d].clock, round[d].clock, leaf.hlc[1]})
           n    == IF act.type = "write_local" THEN time ELSE time + 1
           v0   == [dev[d] EXCEPT !.ops = <<>>, !.clock = time]
           x    == Adopted(d, dev[d].reg[f], act, n)
           v1   == [v0 EXCEPT !.clock = n, !.store = @ \cup {act.content}, !.reg[f] = x]
           m    == Minted(d, f, act, n)
           w    == IF act.type \in {"no_op", "send_remote"} THEN v0
                   ELSE IF Drifted(d, f, Snapshot(d)) THEN Emit(v0, d, <<>>, {f})
                   ELSE Emit(v1, d, m, {})
<1>3. /\ dev' = [dev EXCEPT ![d] = w] /\ emitted' = emitted \cup ToSet(w.ops)
      /\ armed' = [armed EXCEPT ![d] = {}] /\ UNCHANGED <<log, running>>
  OBVIOUS
<1>4. IsSeq(<<>>) /\ IsSeq(m)
  <2> HIDE DEF act, n
  <2>1. m = <<>> \/ \E op : m = <<op>>
    BY DEF Minted
  <2> QED BY <2>1, ShortSeqs
<1> HIDE DEF leaf, re, le, act, time, n, x, m
<1>5. Kept(v0) /\ Kept(v1)
  BY <1>1, <1>4 DEF Kept
<1> HIDE DEF v0, v1
<1>6. Kept(w)
  <2>1. Kept(Emit(v0, d, <<>>, {f})) /\ Kept(Emit(v1, d, m, {}))
    BY <1>4, <1>5, EmitGrows DEF Grows
  <2> QED BY <1>5, <2>1
<1> HIDE DEF w
<1>7. RoundOf(r, w, running[d])
  BY <1>1, <1>2 DEF RoundOf
<1> HIDE DEF FoldFile
<1> QED BY <1>2, <1>3, <1>6, <1>7, DeviceStep DEF PendingInv

LEMMA SaveCursorStep ==
  ASSUME PendingInv, NEW d \in Devices, SaveCursor(d)
  PROVE  PendingInv' /\ Carries({})
<1>1. /\ dev' = [dev EXCEPT ![d] = dev[d]] /\ round' = [round EXCEPT ![d] = NoRound]
      /\ UNCHANGED <<log, armed, running, emitted>>
  BY DEF SaveCursor, PendingInv, history
<1>2. RoundOf(NoRound, dev[d], running[d])
  BY DEF RoundOf
<1> QED BY <1>1, <1>2, DeviceStep DEF PendingInv

LEMMA CrashStep ==
  ASSUME PendingInv, NEW d \in Devices, Crash(d)
  PROVE  PendingInv' /\ Carries({})
<1>1. /\ dev' = [dev EXCEPT ![d] = dev[d]] /\ round' = [round EXCEPT ![d] = NoRound]
      /\ running' = [running EXCEPT ![d] = FALSE] /\ armed' = [armed EXCEPT ![d] = {}]
      /\ UNCHANGED <<log, emitted>>
  BY DEF Crash, PendingInv
<1>2. RoundOf(NoRound, dev[d], running'[d])
  BY DEF RoundOf
<1> QED BY <1>1, <1>2, DeviceStep DEF PendingInv

LEMMA StartStep ==
  ASSUME PendingInv, NEW d \in Devices, Start(d)
  PROVE  PendingInv' /\ Carries({})
<1> DEFINE w == CaptureFiles(dev[d], d, Files)
<1>1. Grows(dev[d], w)
  BY FoldsGrow DEF PendingInv
<1>2. /\ dev' = [dev EXCEPT ![d] = w] /\ emitted' = emitted \cup ToSet(w.ops)
      /\ round' = [round EXCEPT ![d] = round[d]] /\ running' = [running EXCEPT ![d] = TRUE]
      /\ UNCHANGED <<log, armed>>
  BY DEF Start, PendingInv
<1> HIDE DEF w
<1>3. RoundOf(round[d], w, running'[d])
  BY DEF Start, PendingInv, RoundOf
<1> QED BY <1>1, <1>2, <1>3, DeviceStep DEF Grows, PendingInv

\* Only a device between two files of a fold pass may drop what it has pending.
LEMMA PendingStep ==
  ASSUME PendingInv, [Next]_vars
  PROVE  PendingInv' /\ \E D \in SUBSET {d \in Devices : InPhase(d, "foldfile")} : Carries(D)
<1> USE DEF Next
<1>1. CASE UNCHANGED vars
  <2>1. armed' \in [Devices -> SUBSET Files]
    BY <1>1 DEF vars, PendingInv
  <2>2. PendingInv' /\ Carries({})
    BY <1>1, <2>1, OutsideStep DEF vars
  <2> QED BY <2>2
<1>2. CASE \E d \in Devices, f \in Files : FoldFile(d, f)
  <2>1. PICK d \in Devices, f \in Files : FoldFile(d, f)
    BY <1>2
  <2>2. InPhase(d, "foldfile")
    BY <2>1 DEF FoldFile
  <2> QED BY <2>1, <2>2, FoldFileStep
<1>3. CASE \E d \in Devices :
             \/ BeginRound(d) \/ Pull(d) \/ Push(d) \/ Merge(d) \/ ApplyEmits(d)
             \/ ApplyFlushes(d) \/ FoldPass(d) \/ SaveCursor(d) \/ RoundFails(d)
             \/ Crash(d) \/ Start(d) \/ GraphLost(d)
  <2>1. PendingInv' /\ Carries({})
    BY <1>3, BeginRoundStep, PullStep, PushStep, MergeStep, ApplyEmitsStep, ApplyFlushesStep,
       FoldPassStep, SaveCursorStep, RoundFailsStep, CrashStep, StartStep, GraphLostStep
  <2> QED BY <2>1
<1>4. CASE \E d \in Devices, f \in Files :
             \/ ApplyFile(d, f) \/ ApplyThrows(d, f) \/ FoldMissing(d, f) \/ UserResolve(d, f)
             \/ \E e \in Typable[d] : UserEdit(d, f, e)
             \/ round[d] = NoRound /\ DebounceFires(d, f)
  <2>1. PendingInv' /\ Carries({})
    BY <1>4, ApplyFileStep, FoldMissingStep, UserSteps, DebounceStep
  <2> QED BY <2>1
<1> QED BY <1>1, <1>2, <1>3, <1>4

\* What is carried survives.
LEMMA CarriedSurvives ==
  ASSUME NEW D \in SUBSET {d \in Devices : InPhase(d, "foldfile")}, Carries(D)
  PROVE  \A op \in emitted' :
            \/ OpSurvives(op)'
            \/ op \in emitted /\ ~ OpSurvives(op)
            \/ \E d \in Devices : InPhase(d, "foldfile") /\ op.id \in Ids(dev[d].ops)
<1> SUFFICES ASSUME NEW op \in emitted',
                    op \in emitted => OpSurvives(op),
                    \A d \in D : op.id \notin Ids(dev[d].ops)
             PROVE  OpSurvives(op)'
  OBVIOUS
<1>1. Ids(log)' = Ids(log') /\ \A d \in Devices : Ids(dev[d].ops)' = Ids(dev'[d].ops)
  BY DEF Ids
<1>2. op.id \in Ids(log') \/ \E d \in Devices : op.id \in Ids(dev'[d].ops)
  BY DEF Carries, OpSurvives
<1> QED BY <1>1, <1>2 DEF OpSurvives

----------------------------------------------------------------------------
(* The theorem about the pending ops *)

\* Spec implies OpsLeaveOnlyInFolds: for any devices, files, texts, edits and faults, an op
\* once recorded (recordOp) stays pending until the server has it, through pushes, clears,
\* failed rounds, crashes and applied merges; only a fold of concurrent heads on the device
\* that has it pending can drop it (reconcileConcurrentHeads, clearOps).
THEOREM PendingOpsReachTheServer == Spec => OpsLeaveOnlyInFolds
<1> DEFINE Step == \A op \in emitted' :
                      \/ OpSurvives(op)'
                      \/ op \in emitted /\ ~ OpSurvives(op)
                      \/ \E d \in Devices : InPhase(d, "foldfile") /\ op.id \in Ids(dev[d].ops)
<1>1. Init => PendingInv
  BY InitPending
<1>2. PendingInv /\ [Next]_vars => PendingInv'
  BY PendingStep
<1>3. PendingInv /\ [Next]_vars => [Step]_vars
  BY PendingStep, CarriedSurvives
<1> QED BY <1>1, <1>2, <1>3, PTL DEF Spec, OpsLeaveOnlyInFolds

----------------------------------------------------------------------------
(* The kinds of the state *)

\* The constants that stand for null are no version id and no round.
NullsApart ==
    /\ \A x, y : NoHead # <<"op", x, y>> /\ NoHead # <<"merge", x, y>> /\ NoHead # <<"root", x>>
    /\ "phase" \notin DOMAIN NoRound

\* Every op there ever was.
All == emitted \cup {Root(f) : f \in Files}

IsText(t) == t \subseteq Pairs

\* The versions of a file among the ops in E.
Versions(E, f) == {op.id : op \in {o \in E : o.file = f}}

IsEdit(id)  == id[1] = "op" /\ id[2] \in Nat /\ id[3] \in Devices /\ id = <<"op", id[2], id[3]>>
IsMerge(op) == op.id = <<"merge", op.hash, op.parents>>

IsOp(E, op) ==
    /\ op.file \in Files /\ IsText(op.hash) /\ op.hlc \in Nat \X Devices
    /\ \/ op.id = <<"root", op.file>>
       \/ IsEdit(op.id)
       \/ IsMerge(op) /\ op.parents # {} /\ op.parents \subseteq Versions(E, op.file)

\* A version id belongs to one file.
AreOps(E) ==
    /\ \A op \in E : IsOp(E, op)
    /\ \A a, b \in E : a.id = b.id => a.file = b.file

\* The clock of a device is not behind any of its stamps.
StampsUpTo(E, d, n) == \A op \in E : op.id[1] = "op" /\ op.id[3] = d => op.id[2] <= n

IsEntry(E, f, e) ==
    /\ DOMAIN e = {"hash", "hlc", "head", "conf"} /\ IsText(e.hash)
    /\ e.head \in Versions(E, f) /\ e.conf \subseteq Versions(E, f) /\ Cardinality(e.conf) \in {0, 2}

IsReg(E, reg) == reg = [f \in Files |-> reg[f]] /\ \A f \in Files : IsEntry(E, f, reg[f])

\* Op is the resolution of file f to a text without markers that a save of this very text
\* would record: it is pending although the registry still has both heads, as after a crash
\* before the registry was written.
Redone(reg, f, op) ==
    op.id = <<"merge", op.hash, reg[f].conf>> /\ reg[f].conf # {} /\ ~ hasConflictMarkers(op.hash)

\* Then the file has that text, and perhaps more, and no markers; t are the texts on the disk.
KeepsRedone(v, t) ==
    \A op \in ToSet(v.ops), f \in Files :
        Redone(v.reg, f, op) => op.hash \subseteq t[f] /\ ~ hasConflictMarkers(t[f])

\* Nor is the op recorded again as long as the registry has the text.
GuardsRedone(v, t) ==
    \A op \in ToSet(v.ops), f \in Files :
        Redone(v.reg, f, op) => op.hash \subseteq v.reg[f].hash /\ v.reg[f].hash \subseteq t[f]

DistinctIds(s) == \A i, j \in DOMAIN s : s[i].id = s[j].id => i = j

IsDev(E, d, t, v) ==
    /\ Kept(v) /\ v.clock \in Nat /\ IsReg(E, v.reg)
    /\ ToSet(v.ops) \subseteq E /\ DistinctIds(v.ops)
    /\ StampsUpTo(E, d, v.clock) /\ KeepsRedone(v, t)

\* A version graph: each version in the file of its op.
IsGraph(E, g) ==
    IsFiniteSet(DOMAIN g) /\ \A v \in DOMAIN g : \E op \in E : op.id = v /\ op.file = g[v].file

\* What the merge decides for a file that the applicator has to write.
IsAct(E, f, act) ==
    /\ act.type \in {"write_local", "write_merge", "conflict"} /\ IsText(act.content)
    /\ act.type = "write_local" => act.head \in Versions(E, f)
    /\ act.type # "write_local" => /\ act.parents \subseteq Versions(E, f)
                                   /\ act.parents # {} /\ Cardinality(act.parents) = 2

\* A merge node that a round minted for a file it has written.
IsMinted(E, t, r, op) ==
    /\ IsOp(E, op) /\ IsMerge(op) /\ op.parents # {} /\ op.parents \subseteq Versions(E, op.file)
    /\ op.file \notin r.todo \cup r.deferred /\ r.reg[op.file].conf = {}
    /\ ~ hasConflictMarkers(op.hash) =>
           op.hash \subseteq t[op.file] /\ ~ hasConflictMarkers(t[op.file])

\* The ops a round has pulled, from a log of length n.
IsPull(E, n, r) ==
    /\ r.start \in Nat /\ r.start + Len(r.pulled) <= n
    /\ IsSeq(r.pulled) /\ ToSet(r.pulled) \subseteq E

IsSnap(E, snap) == DOMAIN snap \subseteq Files /\ \A f \in DOMAIN snap : IsEntry(E, f, snap[f])

Pushes(E, n, r, v) ==
    /\ DOMAIN r = {"phase", "snap", "ops", "clock", "start", "pulled", "missing"}
    /\ IsPull(E, n, r) /\ IsSnap(E, r.snap)
    /\ r.clock = v.clock /\ IsSeq(r.ops) /\ ToSet(r.ops) \subseteq E

Applies(E, n, t, r) ==
    /\ DOMAIN r = {"phase", "snap", "start", "pulled", "missing", "acts", "todo", "reg", "blobs",
                   "minted", "deferred"}
    /\ IsPull(E, n, r) /\ IsSnap(E, r.snap)
    /\ r.todo \subseteq Files /\ r.deferred \subseteq Files /\ r.todo \cap r.deferred = {}
    /\ \A f \in r.todo : IsAct(E, f, r.acts[f])
    /\ IsSeq(r.minted) /\ \A i \in DOMAIN r.minted : IsMinted(E, t, r, r.minted[i])
    /\ \A i, j \in DOMAIN r.minted : r.minted[i].file = r.minted[j].file => i = j
    /\ IsReg(E \cup ToSet(r.minted), r.reg)

Flushes(E, n, d, t, r, v) ==
    /\ DOMAIN r = {"phase", "snap", "start", "pulled", "missing", "acts", "todo", "reg", "blobs",
                   "minted", "deferred"}
    /\ IsPull(E, n, r)
    /\ IsDev(E, d, t, [v EXCEPT !.reg = r.reg]) /\ GuardsRedone([v EXCEPT !.reg = r.reg], t)

Folds(E, n, r) ==
    /\ {"phase", "start", "pulled", "missing", "deferred", "attempted", "folded"} \subseteq DOMAIN r
    /\ IsPull(E, n, r)

FoldsFiles(E, r) ==
    /\ DOMAIN r = {"phase", "start", "pulled", "missing", "deferred", "attempted", "folded",
                   "snap", "clock", "leaf"}
    /\ r.clock \in Nat /\ IsSnap(E, r.snap) /\ DOMAIN r.leaf \subseteq Files
    /\ \A f \in DOMAIN r.leaf : \E i \in DOMAIN r.pulled :
           r.pulled[i].id = r.leaf[f] /\ r.pulled[i].file = f

IsRound(E, n, d, t, r, v) ==
    r # NoRound =>
        /\ "phase" \in DOMAIN r
        /\ r.phase \in {"captured", "push", "merge", "apply", "flush", "fold", "foldfile"}
        /\ r.phase = "captured" => DOMAIN r = {"phase"}
        /\ r.phase \in {"push", "merge"} => Pushes(E, n, r, v)
        /\ r.phase = "apply" => Applies(E, n, t, r)
        /\ r.phase = "flush" => Flushes(E, n, d, t, r, v)
        /\ r.phase \in {"fold", "foldfile"} => Folds(E, n, r)
        /\ r.phase = "foldfile" => FoldsFiles(E, r)

Flushing(r) == r # NoRound /\ r.phase = "flush"

\* A device: texts t, what the plugin keeps v, graph g, cursor c, round r, app open or not.
IsDevice(E, n, d, t, v, g, c, r, open) ==
    /\ t \in [Files -> SUBSET Pairs] /\ IsDev(E, d, t, v) /\ IsGraph(E, g) /\ c \in 0..n
    /\ IsRound(E, n, d, t, r, v)
    /\ open /\ ~ Flushing(r) => GuardsRedone(v, t)

DeviceInv(d) ==
    IsDevice(All, Len(log), d, disk[d], dev[d], dag[d], cursor[d], round[d], running[d])

KindsInv ==
    /\ AreOps(All) /\ ToSet(log) \subseteq All
    /\ DOMAIN disk = Devices /\ DOMAIN dag = Devices /\ DOMAIN cursor = Devices
    /\ disk = [d \in Devices |-> disk[d]] /\ dag = [d \in Devices |-> dag[d]]
    /\ cursor = [d \in Devices |-> cursor[d]]
    /\ \A d \in Devices : DeviceInv(d)

----------------------------------------------------------------------------
(* More ops change nothing for those that there were *)

LEMMA VersionsGrow ==
  ASSUME NEW E, NEW E2, E \subseteq E2, NEW f
  PROVE  Versions(E, f) \subseteq Versions(E2, f)
BY DEF Versions

LEMMA OpGrows ==
  ASSUME NEW E, NEW E2, E \subseteq E2, NEW op, IsOp(E, op)
  PROVE  IsOp(E2, op)
<1>1. Versions(E, op.file) \subseteq Versions(E2, op.file)
  BY VersionsGrow
<1> QED BY <1>1 DEF IsOp

LEMMA EntryGrows ==
  ASSUME NEW E, NEW E2, E \subseteq E2, NEW f, NEW e, IsEntry(E, f, e)
  PROVE  IsEntry(E2, f, e)
<1>1. Versions(E, f) \subseteq Versions(E2, f)
  BY VersionsGrow
<1> QED BY <1>1 DEF IsEntry

LEMMA RegGrows ==
  ASSUME NEW E, NEW E2, E \subseteq E2, NEW reg, IsReg(E, reg)
  PROVE  IsReg(E2, reg)
BY EntryGrows DEF IsReg

LEMMA DevGrows ==
  ASSUME NEW E, NEW E2, E \subseteq E2, NEW d, NEW t, NEW v, IsDev(E, d, t, v),
         StampsUpTo(E2, d, v.clock)
  PROVE  IsDev(E2, d, t, v)
BY RegGrows DEF IsDev

LEMMA PullGrows ==
  ASSUME NEW E, NEW E2, E \subseteq E2, NEW m \in Nat, NEW n \in Nat, m <= n,
         NEW r, IsPull(E, m, r)
  PROVE  IsPull(E2, n, r)
<1>1. Len(r.pulled) \in Nat
  BY DEF IsPull, IsSeq
<1> QED BY <1>1 DEF IsPull

LEMMA SnapGrows ==
  ASSUME NEW E, NEW E2, E \subseteq E2, NEW snap, IsSnap(E, snap)
  PROVE  IsSnap(E2, snap)
BY EntryGrows DEF IsSnap

LEMMA AppliesGrow ==
  ASSUME NEW E, NEW E2, E \subseteq E2, NEW m \in Nat, NEW n \in Nat, m <= n,
         NEW t, NEW r, Applies(E, m, t, r)
  PROVE  Applies(E2, n, t, r)
<1>1. ASSUME NEW f \in r.todo PROVE IsAct(E2, f, r.acts[f])
  <2>1. Versions(E, f) \subseteq Versions(E2, f)
    BY VersionsGrow
  <2> QED BY <2>1 DEF IsAct, Applies
<1>2. ASSUME NEW i \in DOMAIN r.minted PROVE IsMinted(E2, t, r, r.minted[i])
  <2>1. IsMinted(E, t, r, r.minted[i])
    BY DEF Applies
  <2>2. Versions(E, r.minted[i].file) \subseteq Versions(E2, r.minted[i].file)
    BY VersionsGrow
  <2> QED BY <2>1, <2>2, OpGrows DEF IsMinted
<1>3. IsReg(E2 \cup ToSet(r.minted), r.reg)
  <2>1. IsReg(E \cup ToSet(r.minted), r.reg) /\ E \cup ToSet(r.minted) \subseteq E2 \cup ToSet(r.minted)
    BY DEF Applies
  <2> QED BY <2>1, RegGrows
<1>4. IsPull(E2, n, r) /\ IsSnap(E2, r.snap)
  BY PullGrows, SnapGrows DEF Applies
<1> QED BY <1>1, <1>2, <1>3, <1>4 DEF Applies

LEMMA RoundGrows ==
  ASSUME NEW E, NEW E2, E \subseteq E2, NEW m \in Nat, NEW n \in Nat, m <= n,
         NEW d, NEW t, NEW r, NEW v, IsRound(E, m, d, t, r, v),
         StampsUpTo(E2, d, v.clock), Kept(v)
  PROVE  IsRound(E2, n, d, t, r, v)
<1> SUFFICES ASSUME r # NoRound PROVE IsRound(E2, n, d, t, r, v)
  BY DEF IsRound
<1>1. Pushes(E, m, r, v) => Pushes(E2, n, r, v)
  BY PullGrows, SnapGrows DEF Pushes
<1>2. Applies(E, m, t, r) => Applies(E2, n, t, r)
  BY AppliesGrow
<1>3. Flushes(E, m, d, t, r, v) => Flushes(E2, n, d, t, r, v)
  <2> DEFINE w == [v EXCEPT !.reg = r.reg]
  <2>1. w.clock = v.clock
    BY DEF Kept
  <2> HIDE DEF w
  <2>2. IsDev(E, d, t, w) => IsDev(E2, d, t, w)
    BY <2>1, DevGrows
  <2> QED BY <2>2, PullGrows DEF Flushes, w
<1>4. Folds(E, m, r) => Folds(E2, n, r)
  BY PullGrows DEF Folds
<1>5. FoldsFiles(E, r) => FoldsFiles(E2, r)
  BY SnapGrows DEF FoldsFiles
<1> QED BY <1>1, <1>2, <1>3, <1>4, <1>5 DEF IsRound

LEMMA DeviceGrows ==
  ASSUME NEW E, NEW E2, E \subseteq E2, NEW m \in Nat, NEW n \in Nat, m <= n,
         NEW d, NEW t, NEW v, NEW g, NEW c, NEW r, NEW open,
         IsDevice(E, m, d, t, v, g, c, r, open), StampsUpTo(E2, d, v.clock)
  PROVE  IsDevice(E2, n, d, t, v, g, c, r, open)
<1>1. IsDev(E2, d, t, v) /\ Kept(v)
  BY DevGrows DEF IsDevice, IsDev
<1>2. IsRound(E2, n, d, t, r, v)
  BY <1>1, RoundGrows DEF IsDevice
<1>3. IsGraph(E2, g)
  BY DEF IsDevice, IsGraph
<1>4. c \in 0..n
  BY DEF IsDevice
<1> QED BY <1>1, <1>2, <1>3, <1>4 DEF IsDevice

----------------------------------------------------------------------------
(* The members of sequences *)

LEMMA NoMembers == ToSet(<<>>) = {} /\ \A op : ToSet(<<op>>) = {op}
<1>1. DOMAIN <<>> = {} /\ \A op : DOMAIN <<op>> = {1} /\ <<op>>[1] = op
  OBVIOUS
<1> QED BY <1>1 DEF ToSet

LEMMA AppendMembers ==
  ASSUME NEW s, IsSeq(s), NEW e
  PROVE  /\ ToSet(Append(s, e)) = ToSet(s) \cup {e}
         /\ Len(s) \in Nat /\ DOMAIN s = 1..Len(s) /\ DOMAIN Append(s, e) = 1..(Len(s) + 1)
         /\ \A i \in DOMAIN s : Append(s, e)[i] = s[i]
         /\ Append(s, e)[Len(s) + 1] = e
<1> DEFINE T == {s[i] : i \in DOMAIN s} \cup {e}
<1>1. s \in Seq(T)
  BY DEF IsSeq
<1> HIDE DEF T
<1>2. /\ Len(s) \in Nat /\ DOMAIN s = 1..Len(s) /\ DOMAIN Append(s, e) = 1..(Len(s) + 1)
      /\ \A i \in DOMAIN s : Append(s, e)[i] = s[i]
      /\ Append(s, e)[Len(s) + 1] = e
  BY <1>1 DEF T
<1>3. ToSet(Append(s, e)) \subseteq ToSet(s) \cup {e}
  <2> SUFFICES ASSUME NEW i \in 1..(Len(s) + 1) PROVE Append(s, e)[i] \in ToSet(s) \cup {e}
    BY <1>2 DEF ToSet
  <2>1. CASE i \in 1..Len(s)
    BY <1>2, <2>1 DEF ToSet
  <2>2. CASE i = Len(s) + 1
    BY <1>2, <2>2
  <2> QED BY <1>2, <2>1, <2>2
<1>4. ToSet(s) \cup {e} \subseteq ToSet(Append(s, e))
  <2>1. ASSUME NEW i \in DOMAIN s PROVE s[i] \in ToSet(Append(s, e))
    <3>1. i \in 1..(Len(s) + 1) /\ Append(s, e)[i] = s[i]
      BY <1>2
    <3> QED BY <1>2, <3>1 DEF ToSet
  <2>2. e \in ToSet(Append(s, e))
    <3>1. Len(s) + 1 \in 1..(Len(s) + 1)
      BY <1>2
    <3> QED BY <1>2, <3>1 DEF ToSet
  <2> QED BY <2>1, <2>2 DEF ToSet
<1> QED BY <1>2, <1>3, <1>4

LEMMA ConcatMembers ==
  ASSUME NEW s, IsSeq(s), NEW t, IsSeq(t)
  PROVE  /\ ToSet(s \o t) = ToSet(s) \cup ToSet(t) /\ IsSeq(s \o t)
         /\ Len(s) \in Nat /\ Len(t) \in Nat /\ Len(s \o t) = Len(s) + Len(t)
         /\ DOMAIN s = 1..Len(s) /\ DOMAIN t = 1..Len(t) /\ DOMAIN (s \o t) = 1..(Len(s) + Len(t))
         /\ \A i \in 1..Len(s) : (s \o t)[i] = s[i]
         /\ \A i \in 1..Len(t) : (s \o t)[Len(s) + i] = t[i]
<1> DEFINE T == {s[i] : i \in DOMAIN s} \cup {t[i] : i \in DOMAIN t}
<1>1. s \in Seq(T) /\ t \in Seq(T)
  BY DEF IsSeq
<1> HIDE DEF T
<1>2. /\ Len(s) \in Nat /\ Len(t) \in Nat /\ Len(s \o t) = Len(s) + Len(t)
      /\ DOMAIN s = 1..Len(s) /\ DOMAIN t = 1..Len(t) /\ DOMAIN (s \o t) = 1..(Len(s) + Len(t))
      /\ \A i \in 1..Len(s) : (s \o t)[i] = s[i]
      /\ \A i \in 1..Len(t) : (s \o t)[Len(s) + i] = t[i]
  BY <1>1
<1>3. ToSet(s \o t) \subseteq ToSet(s) \cup ToSet(t)
  <2> SUFFICES ASSUME NEW i \in 1..(Len(s) + Len(t)) PROVE (s \o t)[i] \in ToSet(s) \cup ToSet(t)
    BY <1>2 DEF ToSet
  <2>1. CASE i \in 1..Len(s)
    BY <1>2, <2>1 DEF ToSet
  <2>2. CASE i \notin 1..Len(s)
    <3>1. PICK j \in 1..Len(t) : i = Len(s) + j
      <4>1. i - Len(s) \in 1..Len(t) /\ i = Len(s) + (i - Len(s))
        BY <1>2, <2>2
      <4> QED BY <4>1
    <3> QED BY <1>2, <3>1 DEF ToSet
  <2> QED BY <2>1, <2>2
<1>4. ToSet(s) \cup ToSet(t) \subseteq ToSet(s \o t)
  <2>1. ASSUME NEW i \in DOMAIN s PROVE s[i] \in ToSet(s \o t)
    <3>1. i \in 1..(Len(s) + Len(t)) /\ (s \o t)[i] = s[i]
      BY <1>2
    <3> QED BY <1>2, <3>1 DEF ToSet
  <2>2. ASSUME NEW i \in DOMAIN t PROVE t[i] \in ToSet(s \o t)
    <3>1. Len(s) + i \in 1..(Len(s) + Len(t)) /\ (s \o t)[Len(s) + i] = t[i]
      BY <1>2
    <3> QED BY <1>2, <3>1 DEF ToSet
  <2> QED BY <2>1, <2>2 DEF ToSet
<1>5. IsSeq(s \o t)
  BY ConcatIds
<1> QED BY <1>2, <1>3, <1>4, <1>5

LEMMA SubMembers ==
  ASSUME NEW s, IsSeq(s), NEW i \in Nat, NEW j \in Nat, i >= 1, j <= Len(s)
  PROVE  /\ IsSeq(SubSeq(s, i, j)) /\ ToSet(SubSeq(s, i, j)) \subseteq ToSet(s)
         /\ Len(SubSeq(s, i, j)) = IF i <= j THEN j - i + 1 ELSE 0
<1> DEFINE T == {s[k] : k \in DOMAIN s}
<1>1. s \in Seq(T) /\ T = ToSet(s)
  BY DEF IsSeq, ToSet
<1> HIDE DEF T
<1>2. SubSeq(s, i, j) \in Seq(T) /\ Len(SubSeq(s, i, j)) = IF i <= j THEN j - i + 1 ELSE 0
  <2>1. Len(s) \in Nat /\ DOMAIN s = 1..Len(s) /\ \A k \in 1..Len(s) : s[k] \in T
    BY <1>1
  <2>2. SubSeq(s, i, j) = [k \in 1..(IF i <= j THEN j - i + 1 ELSE 0) |-> s[i + k - 1]]
    BY <1>1
  <2>3. (IF i <= j THEN j - i + 1 ELSE 0) \in Nat
    OBVIOUS
  <2>4. \A k \in 1..(IF i <= j THEN j - i + 1 ELSE 0) : s[i + k - 1] \in T
    BY <2>1
  <2> QED BY <2>2, <2>3, <2>4
<1>3. ToSet(SubSeq(s, i, j)) \subseteq T
  BY <1>2 DEF ToSet
<1> QED BY <1>1, <1>2, <1>3, SeqOver

\* What the server appends is among the ops that are sent to it.
LEMMA AppendOpsMembers ==
  ASSUME IsSeq(log), NEW ops, IsSeq(ops)
  PROVE  /\ ToSet(AppendOps(ops)) \subseteq ToSet(log) \cup ToSet(ops)
         /\ Len(log) \in Nat /\ Len(AppendOps(ops)) \in Nat /\ Len(log) <= Len(AppendOps(ops))
         /\ \A i \in 1..Len(log) : AppendOps(ops)[i] = log[i]
         /\ DistinctIds(log) /\ DistinctIds(ops) => DistinctIds(AppendOps(ops))
<1> DEFINE new     == {i \in DOMAIN ops : ops[i].id \notin Ids(log)}
           rank(i) == Cardinality({j \in new : j <= i})
           nth(k)  == CHOOSE i \in new : Cardinality({j \in new : j <= i}) = k
           n       == Cardinality(new)
           added   == [k \in 1..n |-> ops[nth(k)]]
<1>1. DOMAIN ops = 1..Len(ops) /\ Len(ops) \in Nat
  BY DEF IsSeq
<1>2. IsFiniteSet(new) /\ new \subseteq Int /\ n \in Nat
  <2>1. IsFiniteSet(1..Len(ops))
    BY <1>1, FS_Interval
  <2> QED BY <1>1, <2>1, FS_Subset, FS_CardinalityType
<1>3. \A i \in new : rank(i) \in 1..n
  <2> SUFFICES ASSUME NEW i \in new PROVE rank(i) \in 1..n
    OBVIOUS
  <2> DEFINE upTo == {j \in new : j <= i}
  <2>1. IsFiniteSet(upTo) /\ Cardinality(upTo) \in Nat /\ Cardinality(upTo) <= n
    BY <1>2, FS_Subset, FS_CardinalityType
  <2>2. i \in upTo
    BY <1>2
  <2>3. Cardinality(upTo) # 0
    <3> HIDE DEF upTo
    <3> QED BY <2>1, <2>2, FS_EmptySet
  <2> QED BY <1>2, <2>1, <2>3
<1>4. \A i, j \in new : i < j => rank(i) # rank(j)
  <2> SUFFICES ASSUME NEW a \in new, NEW b \in new, a < b PROVE rank(a) # rank(b)
    OBVIOUS
  <2> DEFINE upTo(i) == {j \in new : j <= i}
  <2>1. IsFiniteSet(upTo(b))
    BY <1>2, FS_Subset
  <2>2. upTo(a) \subseteq upTo(b) /\ b \in upTo(b) /\ b \notin upTo(a)
    <3>1. new \subseteq Int /\ a \in Int /\ b \in Int /\ a \in new /\ b \in new
      BY <1>2
    <3> HIDE DEF new
    <3>2. \A j \in new : j <= a => j <= b
      BY <3>1
    <3>3. b <= b /\ ~ (b <= a)
      BY <3>1
    <3> QED BY <3>1, <3>2, <3>3
  <2> HIDE DEF upTo
  <2>3. Cardinality(upTo(a)) # Cardinality(upTo(b))
    BY <2>1, <2>2, FS_Subset
  <2> QED BY <2>3 DEF upTo
<1>5. \A k \in 1..n : \E i \in new : rank(i) = k
  <2> DEFINE R == {rank(i) : i \in new}
             f == [i \in new |-> rank(i)]
  <2>1. R \subseteq 1..n
    BY <1>3
  <2>2. f \in Bijection(new, R)
    <3>1. f \in Surjection(new, R)
      BY DEF Surjection
    <3>2. \A i, j \in new : f[i] = f[j] => i = j
      <4> SUFFICES ASSUME NEW i \in new, NEW j \in new, rank(i) = rank(j) PROVE i = j
        OBVIOUS
      <4>1. i \in Int /\ j \in Int /\ ~ (i < j) /\ ~ (j < i)
        BY <1>2, <1>4
      <4> QED BY <4>1
    <3>3. f \in [new -> R]
      OBVIOUS
    <3> QED BY <3>1, <3>2, <3>3 DEF Bijection, Injection, IsInjective
  <2>3. Cardinality(R) = n
    <3> HIDE DEF f, R, new
    <3>1. ExistsBijection(new, R)
      BY <2>2 DEF ExistsBijection
    <3> QED BY <1>2, <3>1, FS_Bijection
  <2>4. IsFiniteSet(1..n) /\ Cardinality(1..n) = n
    <3> HIDE DEF new
    <3>1. IsFiniteSet(1..n) /\ Cardinality(1..n) = IF 1 > n THEN 0 ELSE n - 1 + 1
      BY <1>2, FS_Interval
    <3> QED BY <1>2, <3>1
  <2>5. R = 1..n
    <3> HIDE DEF R, n
    <3> QED BY <2>1, <2>3, <2>4, FS_Subset
  <2> HIDE DEF new, rank
  <2> QED BY <2>5
<1>6. \A k \in 1..n : nth(k) \in new /\ rank(nth(k)) = k
  BY <1>5
<1>11. DistinctIds(ops) => \A j, k \in 1..n : ops[nth(j)].id = ops[nth(k)].id => j = k
  <2> SUFFICES ASSUME DistinctIds(ops), NEW j \in 1..n, NEW k \in 1..n,
                      ops[nth(j)].id = ops[nth(k)].id
               PROVE  j = k
    OBVIOUS
  <2>1. nth(j) \in DOMAIN ops /\ nth(k) \in DOMAIN ops
    BY <1>6
  <2>2. rank(nth(j)) = j /\ rank(nth(k)) = k
    BY <1>6
  <2>3. nth(j) = nth(k)
    <3> HIDE DEF nth
    <3> QED BY <2>1 DEF DistinctIds
  <2> HIDE DEF nth
  <2>4. rank(nth(j)) = rank(nth(k))
    BY <2>3
  <2> HIDE DEF rank
  <2> QED BY <2>2, <2>4
<1>12. \A k \in 1..n : ops[nth(k)].id \notin Ids(log)
  BY <1>6
<1>7. IsSeq(added) /\ Len(added) \in Nat /\ ToSet(added) \subseteq ToSet(ops)
  <2> HIDE DEF n
  <2>1. \A k \in 1..n : ops[nth(k)] \in ToSet(ops)
    BY <1>6 DEF ToSet
  <2> HIDE DEF nth, new
  <2>2. added \in [1..n -> ToSet(ops)]
    BY <2>1
  <2>3. added \in Seq(ToSet(ops))
    BY <1>2, <2>2
  <2>4. ToSet(added) \subseteq ToSet(ops)
    BY <2>2 DEF ToSet
  <2> HIDE DEF added
  <2>5. IsSeq(added)
    BY <2>3, SeqOver
  <2>6. Len(added) \in Nat
    BY <2>3
  <2> QED BY <2>4, <2>5, <2>6
<1>8. AppendOps(ops) = log \o added
  BY DEF AppendOps
<1>13. /\ \A k \in 1..n : added[k].id \notin Ids(log)
       /\ DistinctIds(ops) => \A j, k \in 1..n : added[j].id = added[k].id => j = k
       /\ Len(added) = n
  <2> HIDE DEF n, nth
  <2>1. \A k \in 1..n : added[k] = ops[nth(k)]
    OBVIOUS
  <2>2. Len(added) = n
    <3>1. added \in [1..n -> {ops[nth(k)] : k \in 1..n}]
      OBVIOUS
    <3> HIDE DEF added
    <3> QED BY <1>2, <3>1
  <2> HIDE DEF added, new
  <2> QED BY <1>11, <1>12, <2>1, <2>2
<1> HIDE DEF added, n
<1>9. /\ ToSet(log \o added) = ToSet(log) \cup ToSet(added)
      /\ Len(log) \in Nat /\ Len(log \o added) = Len(log) + Len(added)
      /\ \A i \in 1..Len(log) : (log \o added)[i] = log[i]
  BY <1>7, ConcatMembers
<1>10. Len(log) <= Len(log \o added) /\ Len(log \o added) \in Nat
  BY <1>7, <1>9
<1>14. DistinctIds(log) /\ DistinctIds(ops) => DistinctIds(log \o added)
  <2> DEFINE s == log \o added
             m == Len(log)
  <2>1. /\ m \in Nat /\ DOMAIN log = 1..m /\ DOMAIN s = 1..(m + n)
        /\ \A i \in 1..m : s[i] = log[i]
        /\ \A i \in 1..n : s[m + i] = added[i]
    <3>1. /\ m \in Nat /\ DOMAIN log = 1..m /\ DOMAIN s = 1..(m + Len(added))
          /\ \A i \in 1..m : s[i] = log[i]
          /\ \A i \in 1..Len(added) : s[m + i] = added[i]
      BY <1>7, ConcatMembers
    <3> QED BY <1>13, <3>1
  <2>2. \A i \in 1..m : s[i].id \in Ids(log)
    BY <2>1 DEF Ids
  <2> HIDE DEF s, m
  <2> SUFFICES ASSUME DistinctIds(log), DistinctIds(ops),
                      NEW i \in 1..(m + n), NEW j \in 1..(m + n), s[i].id = s[j].id, i <= j
               PROVE  i = j
    <3>1. \A i, j \in 1..(m + n) : i <= j \/ j <= i
      BY <1>2, <2>1
    <3> QED BY <2>1, <3>1 DEF DistinctIds, s
  <2>3. CASE j <= m
    BY <1>2, <2>1, <2>3 DEF DistinctIds
  <2>4. CASE i > m
    <3>1. PICK k \in 1..n : i = m + k
      <4>1. i - m \in 1..n /\ i = m + (i - m)
        BY <1>2, <2>1, <2>4
      <4> QED BY <4>1
    <3>2. PICK l \in 1..n : j = m + l
      <4>1. j - m \in 1..n /\ j = m + (j - m)
        BY <1>2, <2>1, <2>4
      <4> QED BY <4>1
    <3>3. added[k].id = added[l].id
      BY <2>1, <3>1, <3>2
    <3> QED BY <1>13, <3>1, <3>2, <3>3
  <2>5. CASE i <= m /\ j > m
    <3>1. PICK l \in 1..n : j = m + l
      <4>1. j - m \in 1..n /\ j = m + (j - m)
        BY <1>2, <2>1, <2>5
      <4> QED BY <4>1
    <3>2. s[j].id \notin Ids(log)
      BY <1>13, <2>1, <3>1
    <3>3. i \in 1..m
      BY <1>2, <2>1, <2>5
    <3> QED BY <2>2, <3>2, <3>3
  <2> QED BY <1>2, <2>1, <2>3, <2>4, <2>5
<1> QED BY <1>7, <1>8, <1>9, <1>10, <1>14

----------------------------------------------------------------------------
(* New ops *)

LEMMA SameFile ==
  ASSUME NEW E, AreOps(E), NEW f, NEW g, NEW P, P # {},
         P \subseteq Versions(E, f), P \subseteq Versions(E, g)
  PROVE  f = g
BY DEF AreOps, Versions

LEMMA NewOps ==
  ASSUME NEW E, AreOps(E), NEW M, \A op \in M : IsOp(E, op),
         \A op \in M : \A a \in E \cup M : a.id = op.id => a.file = op.file
  PROVE  AreOps(E \cup M)
<1>1. \A op \in E \cup M : IsOp(E \cup M, op)
  BY OpGrows DEF AreOps
<1>2. \A a, b \in E \cup M : a.id = b.id => a.file = b.file
  BY DEF AreOps
<1> QED BY <1>1, <1>2 DEF AreOps

\* An op above the stamps of its device is new.
LEMMA NewEdit ==
  ASSUME NEW E, AreOps(E), NEW d \in Devices, NEW m \in Nat, StampsUpTo(E, d, m),
         NEW op, op.file \in Files, IsText(op.hash), op.hlc \in Nat \X Devices,
         op.id = <<"op", m + 1, d>>
  PROVE  /\ IsOp(E, op) /\ AreOps(E \cup {op}) /\ \A a \in E : a.id # op.id
         /\ StampsUpTo(E \cup {op}, d, m + 1)
<1>1. op.id[1] = "op" /\ op.id[2] = m + 1 /\ op.id[3] = d
  OBVIOUS
<1>2. IsOp(E, op)
  BY <1>1 DEF IsOp, IsEdit
<1>3. ASSUME NEW a \in E, a.id = op.id PROVE FALSE
  <2>1. a.id[2] <= m
    BY <1>1, <1>3 DEF StampsUpTo
  <2> QED BY <1>1, <1>3, <2>1
<1>4. AreOps(E \cup {op})
  BY <1>2, <1>3, NewOps
<1>5. ASSUME NEW a \in E, a.id[1] = "op", a.id[3] = d PROVE a.id[2] <= m + 1
  <2>1. IsOp(E, a)
    BY DEF AreOps
  <2>2. a.id[2] \in Nat
    <3>1. a.id # <<"root", a.file>>
      BY <1>5
    <3>2. ~ IsMerge(a)
      BY <1>5 DEF IsMerge
    <3> QED BY <2>1, <3>1, <3>2 DEF IsOp, IsEdit
  <2>3. a.id[2] <= m
    BY <1>5 DEF StampsUpTo
  <2> QED BY <2>2, <2>3
<1>6. StampsUpTo(E \cup {op}, d, m + 1)
  BY <1>1, <1>5 DEF StampsUpTo
<1> QED BY <1>2, <1>3, <1>4, <1>6

\* Of a merge node, only ops of the same file can have the id.
LEMMA MergeFile ==
  ASSUME NEW E, AreOps(E), NEW f, NEW T, NEW P, P # {}, P \subseteq Versions(E, f),
         NEW a, IsOp(E, a), a.id = <<"merge", T, P>>
  PROVE  IsMerge(a) /\ a.hash = T /\ a.parents = P /\ a.file = f
<1>1. a.id[1] = "merge" /\ a.id[2] = T /\ a.id[3] = P
  OBVIOUS
<1>2. a.id # <<"root", a.file>>
  BY <1>1
<1>3. ~ IsEdit(a.id)
  BY <1>1 DEF IsEdit
<1>4. IsMerge(a) /\ a.parents \subseteq Versions(E, a.file)
  BY <1>2, <1>3 DEF IsOp
<1>5. a.hash = T /\ a.parents = P
  <2>1. a.id[2] = a.hash /\ a.id[3] = a.parents
    BY <1>4 DEF IsMerge
  <2> QED BY <1>1, <2>1
<1> QED BY <1>4, <1>5, SameFile

LEMMA NewMerge ==
  ASSUME NEW E, AreOps(E), NEW op, IsOp(E, op), IsMerge(op), op.parents # {},
         op.parents \subseteq Versions(E, op.file)
  PROVE  /\ AreOps(E \cup {op})
         /\ \A d, m : StampsUpTo(E, d, m) => StampsUpTo(E \cup {op}, d, m)
<1>1. \A a \in E : a.id = op.id => a.file = op.file
  <2> SUFFICES ASSUME NEW a \in E, a.id = op.id PROVE a.file = op.file
    OBVIOUS
  <2>1. IsOp(E, a) /\ a.id = <<"merge", op.hash, op.parents>>
    BY DEF AreOps, IsMerge
  <2> QED BY <2>1, MergeFile
<1>2. AreOps(E \cup {op})
  BY <1>1, NewOps
<1>3. op.id[1] = "merge"
  BY DEF IsMerge
<1> QED BY <1>2, <1>3 DEF StampsUpTo

----------------------------------------------------------------------------
(* What a capture makes of the registry and the pending ops *)

\* From v to w the files of S are recorded.
Records(E, d, how, v, w, S) ==
    /\ AreOps(E \cup ToSet(w.ops)) /\ IsDev(E \cup ToSet(w.ops), d, disk[d], w)
    /\ GuardsRedone(v, disk[d]) => GuardsRedone(w, disk[d])
    /\ v.clock <= w.clock /\ ToSet(v.ops) \subseteq ToSet(w.ops)
    /\ \A f \in Files \ S : w.reg[f] = v.reg[f]
    /\ how = "scan" => \A f \in S : w.reg[f].hash = disk[d][f]
    /\ \A op \in ToSet(w.ops) \ ToSet(v.ops) :
          /\ op.file \in S /\ op.hash = disk[d][op.file]
          /\ op.id[1] = "op" => op.id[3] = d

LEMMA NothingRecorded ==
  ASSUME NEW E, AreOps(E), NEW d, NEW v, IsDev(E, d, disk[d], v), NEW how, NEW S \in SUBSET Files,
         how = "scan" => \A f \in S : v.reg[f].hash = disk[d][f]
  PROVE  Records(E, d, how, v, v, S)
<1>1. E \cup ToSet(v.ops) = E /\ v.clock <= v.clock
  BY DEF IsDev
<1> QED BY <1>1 DEF Records

LEMMA UpdateRecords ==
  ASSUME NEW E, AreOps(E), NEW d \in Devices, NEW v, IsDev(E, d, disk[d], v), NEW how,
         NEW f \in Files, IsText(disk[d][f])
  PROVE  Records(E, d, how, v, LogUpdate(v, d, f, disk[d][f]), {f})
<1> DEFINE T  == disk[d][f]
           n  == v.clock + 1
           op == EditOp(d, f, T, n, {v.reg[f].head})
           e  == [v.reg[f] EXCEPT !.hash = T, !.hlc = <<n, d>>, !.head = op.id]
           w  == LogUpdate(v, d, f, T)
           E2 == E \cup {op}
<1>1. Kept(v) /\ v.clock \in Nat /\ IsReg(E, v.reg) /\ IsSeq(v.ops)
  BY DEF IsDev, Kept
<1>2. op.file = f /\ op.hash = T /\ op.hlc = <<n, d>> /\ op.id = <<"op", v.clock + 1, d>>
  BY DEF EditOp
<1>3. /\ DOMAIN w = DOMAIN v /\ w.clock = n /\ w.ops = Append(v.ops, op)
      /\ w.reg = [v.reg EXCEPT ![f] = e]
  <2> HIDE DEF op
  <2> QED BY <1>1 DEF LogUpdate, Kept, op
<1>4. DOMAIN e = DOMAIN v.reg[f] /\ e.conf = v.reg[f].conf /\ e.hash = T /\ e.head = op.id
  <2>1. DOMAIN v.reg[f] = {"hash", "hlc", "head", "conf"}
    BY <1>1 DEF IsReg, IsEntry
  <2> HIDE DEF op
  <2> QED BY <2>1
<1>5. w.reg[f] = e /\ \A g \in Files \ {f} : w.reg[g] = v.reg[g]
  BY <1>1, <1>3 DEF IsReg
<1>6. w.reg = [g \in Files |-> w.reg[g]]
  BY <1>1, <1>3 DEF IsReg
<1> HIDE DEF op, e, w
<1>7. op.hlc \in Nat \X Devices
  BY <1>1, <1>2
<1>8. IsOp(E, op) /\ AreOps(E2) /\ (\A a \in E : a.id # op.id) /\ StampsUpTo(E2, d, v.clock + 1)
  BY <1>1, <1>2, <1>7, NewEdit DEF IsDev
<1>9. /\ ToSet(w.ops) = ToSet(v.ops) \cup {op} /\ ToSet(v.ops) \subseteq E
      /\ E \cup ToSet(w.ops) = E2
  BY <1>1, <1>3, AppendMembers DEF IsDev
<1>10. IsReg(E2, w.reg)
  <2>1. \A g \in Files : IsEntry(E2, g, v.reg[g])
    BY <1>1, RegGrows DEF IsReg
  <2>2. op.id \in Versions(E2, f)
    BY <1>2 DEF Versions
  <2>3. IsEntry(E2, f, e)
    BY <1>4, <2>1, <2>2 DEF IsEntry
  <2> QED BY <1>5, <1>6, <2>1, <2>3 DEF IsReg
<1>11. DistinctIds(w.ops)
  <2>1. /\ DOMAIN v.ops = 1..Len(v.ops) /\ DOMAIN w.ops = 1..(Len(v.ops) + 1) /\ Len(v.ops) \in Nat
        /\ \A i \in DOMAIN v.ops : w.ops[i] = v.ops[i]
        /\ w.ops[Len(v.ops) + 1] = op
    BY <1>1, <1>3, AppendMembers
  <2>2. \A i \in 1..Len(v.ops) : w.ops[i].id # op.id
    BY <1>8, <1>9, <2>1 DEF ToSet
  <2>3. \A i, j \in 1..Len(v.ops) : w.ops[i].id = w.ops[j].id => i = j
    BY <2>1 DEF IsDev, DistinctIds
  <2>4. \A i \in 1..(Len(v.ops) + 1) : i \in 1..Len(v.ops) \/ i = Len(v.ops) + 1
    BY <2>1
  <2> QED BY <2>1, <2>2, <2>3, <2>4 DEF DistinctIds
<1>12. \A g \in Files, o \in ToSet(w.ops) : Redone(w.reg, g, o) => o \in ToSet(v.ops) /\ Redone(v.reg, g, o)
  <2>1. \A g \in Files : w.reg[g].conf = v.reg[g].conf
    BY <1>4, <1>5
  <2>2. \A g \in Files : ~ Redone(w.reg, g, op)
    <3>1. op.id[1] = "op"
      BY <1>2
    <3> QED BY <3>1 DEF Redone
  <2> QED BY <1>9, <2>1, <2>2 DEF Redone
<1>13. KeepsRedone(w, disk[d])
  BY <1>12 DEF KeepsRedone, IsDev
<1>14. GuardsRedone(v, disk[d]) => GuardsRedone(w, disk[d])
  <2> SUFFICES ASSUME GuardsRedone(v, disk[d]), NEW o \in ToSet(w.ops), NEW g \in Files,
                      Redone(w.reg, g, o)
               PROVE  o.hash \subseteq w.reg[g].hash /\ w.reg[g].hash \subseteq disk[d][g]
    BY DEF GuardsRedone
  <2>1. CASE g = f
    BY <1>4, <1>5, <1>12, <2>1 DEF KeepsRedone, IsDev
  <2>2. CASE g # f
    BY <1>5, <1>12, <2>2 DEF GuardsRedone
  <2> QED BY <2>1, <2>2
<1>15. Kept(w)
  <2>1. IsSeq(w.ops)
    BY <1>1, <1>3, AppendIds
  <2> QED BY <1>1, <1>3, <2>1 DEF Kept
<1>16. IsDev(E2, d, disk[d], w)
  BY <1>1, <1>3, <1>8, <1>9, <1>10, <1>11, <1>13, <1>15 DEF IsDev
<1>17. \A o \in ToSet(w.ops) \ ToSet(v.ops) :
          o.file \in {f} /\ o.hash = disk[d][o.file] /\ (o.id[1] = "op" => o.id[3] = d)
  BY <1>2, <1>9
<1>18. \A g \in {f} : w.reg[g].hash = disk[d][g]
  BY <1>4, <1>5
<1>19. v.clock <= w.clock
  BY <1>1, <1>3
<1>20. /\ AreOps(E \cup ToSet(w.ops)) /\ IsDev(E \cup ToSet(w.ops), d, disk[d], w)
       /\ ToSet(v.ops) \subseteq ToSet(w.ops)
  BY <1>8, <1>9, <1>16
<1>21. Records(E, d, how, v, w, {f})
  BY <1>5, <1>14, <1>17, <1>18, <1>19, <1>20 DEF Records
<1> QED BY <1>21 DEF w

LEMMA ResolutionRecords ==
  ASSUME NEW E, AreOps(E), NEW d \in Devices, NEW v, IsDev(E, d, disk[d], v),
         GuardsRedone(v, disk[d]),
         NEW f \in Files, IsText(disk[d][f]), disk[d][f] # v.reg[f].hash, v.reg[f].conf # {}
  PROVE  Records(E, d, "flush", v, LogResolution(v, d, f, disk[d][f]), {f})
<1> DEFINE T  == disk[d][f]
           n  == v.clock + 1
           op == MergeOp(d, f, T, n, v.reg[f].conf)
           e1 == [v.reg[f] EXCEPT !.hash = T, !.hlc = <<n, d>>]
           e2 == [e1 EXCEPT !.head = op.id, !.conf = {}]
           w  == LogResolution(v, d, f, T)
           E2 == E \cup {op}
<1>1. Kept(v) /\ v.clock \in Nat /\ IsReg(E, v.reg) /\ IsSeq(v.ops) /\ n \in Nat
  BY DEF IsDev, Kept
<1>2. /\ op.file = f /\ op.hash = T /\ op.hlc = <<n, d>> /\ op.parents = v.reg[f].conf
      /\ op.id = <<"merge", T, v.reg[f].conf>>
  BY DEF MergeOp
<1>3. /\ DOMAIN v.reg[f] = {"hash", "hlc", "head", "conf"} /\ v.reg[f].conf \subseteq Versions(E, f)
      /\ IsEntry(E, f, v.reg[f])
  BY <1>1 DEF IsReg, IsEntry
<1>4. /\ DOMAIN e1 = DOMAIN v.reg[f] /\ e1.hash = T /\ e1.head = v.reg[f].head
      /\ e1.conf = v.reg[f].conf
      /\ DOMAIN e2 = DOMAIN v.reg[f] /\ e2.hash = T /\ e2.head = op.id /\ e2.conf = {}
  <2> HIDE DEF op
  <2> QED BY <1>3
<1>5. v.clock <= n
  BY <1>1
<1>6. StampsUpTo(E, d, n)
  <2> SUFFICES ASSUME NEW a \in E, a.id[1] = "op", a.id[3] = d PROVE a.id[2] <= n
    BY DEF StampsUpTo
  <2>1. IsOp(E, a)
    BY DEF AreOps
  <2>2. a.id # <<"root", a.file>>
    OBVIOUS
  <2>3. ~ IsMerge(a)
    BY DEF IsMerge
  <2>4. a.id[2] \in Nat
    BY <2>1, <2>2, <2>3 DEF IsOp, IsEdit
  <2>5. a.id[2] <= v.clock
    BY DEF StampsUpTo, IsDev
  <2> QED BY <1>1, <2>4, <2>5
<1>7. CASE hasConflictMarkers(T)
  <2>1. /\ DOMAIN w = DOMAIN v /\ w.clock = n /\ w.ops = v.ops /\ w.reg = [v.reg EXCEPT ![f] = e1]
    <3> HIDE DEF op, e2
    <3> QED BY <1>1, <1>7 DEF LogResolution, Kept
  <2>2. w.reg[f] = e1 /\ \A g \in Files \ {f} : w.reg[g] = v.reg[g]
    BY <1>1, <2>1 DEF IsReg
  <2>3. w.reg = [g \in Files |-> w.reg[g]]
    BY <1>1, <2>1 DEF IsReg
  <2> HIDE DEF op, e1, e2, w
  <2>4. E \cup ToSet(w.ops) = E
    BY <2>1 DEF IsDev
  <2>5. IsReg(E, w.reg)
    <3>1. IsEntry(E, f, e1)
      BY <1>3, <1>4 DEF IsEntry
    <3> QED BY <1>1, <2>2, <2>3, <3>1 DEF IsReg
  <2>6. \A g \in Files, o \in ToSet(w.ops) : Redone(w.reg, g, o) => o \in ToSet(v.ops) /\ Redone(v.reg, g, o)
    <3>1. \A g \in Files : w.reg[g].conf = v.reg[g].conf
      BY <1>4, <2>2
    <3> QED BY <2>1, <3>1 DEF Redone
  <2>7. KeepsRedone(w, disk[d])
    BY <2>6 DEF KeepsRedone, IsDev
  <2>8. GuardsRedone(w, disk[d])
    <3> SUFFICES ASSUME NEW o \in ToSet(w.ops), NEW g \in Files, Redone(w.reg, g, o)
                 PROVE  o.hash \subseteq w.reg[g].hash /\ w.reg[g].hash \subseteq disk[d][g]
      BY DEF GuardsRedone
    <3>1. g # f
      BY <1>7, <2>6 DEF KeepsRedone, IsDev
    <3> QED BY <2>2, <2>6, <3>1 DEF GuardsRedone
  <2>9. Kept(w)
    BY <1>1, <2>1 DEF Kept
  <2>10. IsDev(E, d, disk[d], w)
    BY <1>1, <1>6, <2>1, <2>4, <2>5, <2>7, <2>9 DEF IsDev
  <2>11. Records(E, d, "flush", v, w, {f})
    BY <1>5, <2>1, <2>2, <2>4, <2>8, <2>10 DEF Records
  <2> QED BY <2>11 DEF w
<1>8. CASE ~ hasConflictMarkers(T)
  <2>1. /\ DOMAIN w = DOMAIN v /\ w.clock = n /\ w.ops = Append(v.ops, op)
        /\ w.reg = [v.reg EXCEPT ![f] = e2]
    <3> HIDE DEF op
    <3> QED BY <1>1, <1>8 DEF LogResolution, Kept, IsReg, op
  <2>2. w.reg[f] = e2 /\ \A g \in Files \ {f} : w.reg[g] = v.reg[g]
    BY <1>1, <2>1 DEF IsReg
  <2>3. w.reg = [g \in Files |-> w.reg[g]]
    BY <1>1, <2>1 DEF IsReg
  <2> HIDE DEF op, e1, e2, w
  <2>4. IsOp(E, op) /\ IsMerge(op)
    <3>1. op.hlc \in Nat \X Devices
      BY <1>1, <1>2
    <3> QED BY <1>2, <1>3, <3>1 DEF IsOp, IsMerge
  <2>5. AreOps(E2) /\ StampsUpTo(E2, d, n)
    BY <1>2, <1>3, <1>6, <2>4, NewMerge
  <2>6. /\ ToSet(w.ops) = ToSet(v.ops) \cup {op} /\ ToSet(v.ops) \subseteq E
        /\ E \cup ToSet(w.ops) = E2
    BY <1>1, <2>1, AppendMembers DEF IsDev
  <2>7. IsReg(E2, w.reg)
    <3>1. \A g \in Files : IsEntry(E2, g, v.reg[g])
      BY <1>1, RegGrows DEF IsReg
    <3>2. op.id \in Versions(E2, f)
      BY <1>2 DEF Versions
    <3>3. Cardinality({}) = 0
      BY FS_EmptySet
    <3>4. IsEntry(E2, f, e2)
      BY <1>3, <1>4, <3>2, <3>3 DEF IsEntry
    <3> QED BY <2>2, <2>3, <3>1, <3>4 DEF IsReg
  <2>8. \A a \in ToSet(v.ops) : a.id # op.id
    <3> SUFFICES ASSUME NEW a \in ToSet(v.ops), a.id = op.id PROVE FALSE
      OBVIOUS
    <3>1. IsOp(E, a) /\ a.id = <<"merge", T, v.reg[f].conf>>
      BY <1>2, <2>6 DEF AreOps
    <3>2. a.hash = T
      BY <1>3, <3>1, MergeFile
    <3>3. Redone(v.reg, f, a)
      BY <1>8, <3>1, <3>2 DEF Redone
    <3>4. T \subseteq v.reg[f].hash /\ v.reg[f].hash \subseteq T
      BY <3>2, <3>3 DEF GuardsRedone
    <3> QED BY <3>4
  <2>9. DistinctIds(w.ops)
    <3>1. /\ DOMAIN v.ops = 1..Len(v.ops) /\ DOMAIN w.ops = 1..(Len(v.ops) + 1) /\ Len(v.ops) \in Nat
          /\ \A i \in DOMAIN v.ops : w.ops[i] = v.ops[i]
          /\ w.ops[Len(v.ops) + 1] = op
      BY <1>1, <2>1, AppendMembers
    <3>2. \A i \in 1..Len(v.ops) : w.ops[i].id # op.id
      BY <2>8, <3>1 DEF ToSet
    <3>3. \A i, j \in 1..Len(v.ops) : w.ops[i].id = w.ops[j].id => i = j
      BY <3>1 DEF IsDev, DistinctIds
    <3>4. \A i \in 1..(Len(v.ops) + 1) : i \in 1..Len(v.ops) \/ i = Len(v.ops) + 1
      BY <3>1
    <3> QED BY <3>1, <3>2, <3>3, <3>4 DEF DistinctIds
  <2>10. ASSUME NEW g \in Files, NEW o \in ToSet(w.ops), Redone(w.reg, g, o)
         PROVE  g # f /\ o \in ToSet(v.ops) /\ Redone(v.reg, g, o)
    <3>1. g # f
      BY <1>4, <2>2, <2>10 DEF Redone
    <3>2. Redone(v.reg, g, o)
      BY <2>2, <2>10, <3>1 DEF Redone
    <3>3. o # op
      <4> SUFFICES ASSUME o = op PROVE FALSE
        OBVIOUS
      <4>1. op.id[3] = v.reg[g].conf /\ op.id[3] = v.reg[f].conf
        BY <1>2, <3>2 DEF Redone
      <4>2. v.reg[g].conf \subseteq Versions(E, g)
        BY <1>1 DEF IsReg, IsEntry
      <4> QED BY <1>3, <3>1, <4>1, <4>2, SameFile
    <3> QED BY <2>6, <3>1, <3>2, <3>3
  <2>11. KeepsRedone(w, disk[d])
    BY <2>10 DEF KeepsRedone, IsDev
  <2>12. GuardsRedone(w, disk[d])
    BY <2>2, <2>10 DEF GuardsRedone
  <2>13. Kept(w)
    <3>1. IsSeq(w.ops)
      BY <1>1, <2>1, AppendIds
    <3> QED BY <1>1, <2>1, <3>1 DEF Kept
  <2>14. IsDev(E2, d, disk[d], w)
    BY <1>1, <2>1, <2>5, <2>6, <2>7, <2>9, <2>11, <2>13 DEF IsDev
  <2>15. \A o \in ToSet(w.ops) \ ToSet(v.ops) :
            o.file \in {f} /\ o.hash = disk[d][o.file] /\ (o.id[1] = "op" => o.id[3] = d)
    <3>1. op.id[1] = "merge"
      BY <1>2
    <3> QED BY <1>2, <2>6, <3>1
  <2>16. /\ AreOps(E \cup ToSet(w.ops)) /\ IsDev(E \cup ToSet(w.ops), d, disk[d], w)
         /\ ToSet(v.ops) \subseteq ToSet(w.ops)
    BY <2>5, <2>6, <2>14
  <2>17. Records(E, d, "flush", v, w, {f})
    BY <1>5, <2>1, <2>2, <2>12, <2>15, <2>16 DEF Records
  <2> QED BY <2>17 DEF w
<1> QED BY <1>7, <1>8

LEMMA OneRecords ==
  ASSUME NEW E, AreOps(E), NEW d \in Devices, NEW v, IsDev(E, d, disk[d], v),
         NEW how \in {"flush", "scan"}, how = "flush" => GuardsRedone(v, disk[d]),
         NEW f \in Files, IsText(disk[d][f])
  PROVE  Records(E, d, how, v, recorded(v, d, f, how), {f})
<1>1. CASE how = "flush"
  <2>1. CASE disk[d][f] = v.reg[f].hash
    <3>1. recorded(v, d, f, how) = v
      BY <1>1, <2>1 DEF recorded, flushModify
    <3> QED BY <1>1, <3>1, NothingRecorded
  <2>2. CASE disk[d][f] # v.reg[f].hash /\ v.reg[f].conf # {}
    <3>1. recorded(v, d, f, how) = LogResolution(v, d, f, disk[d][f])
      BY <1>1, <2>2 DEF recorded, flushModify
    <3> QED BY <1>1, <2>2, <3>1, ResolutionRecords
  <2>3. CASE disk[d][f] # v.reg[f].hash /\ ~ (v.reg[f].conf # {})
    <3>1. recorded(v, d, f, how) = LogUpdate(v, d, f, disk[d][f])
      BY <1>1, <2>3 DEF recorded, flushModify
    <3> QED BY <3>1, UpdateRecords
  <2> QED BY <2>1, <2>2, <2>3
<1>2. CASE how = "scan"
  <2>1. CASE disk[d][f] = v.reg[f].hash
    <3>1. recorded(v, d, f, how) = v
      BY <1>2, <2>1 DEF recorded, captureFile
    <3>2. \A g \in {f} : v.reg[g].hash = disk[d][g]
      BY <2>1
    <3> QED BY <3>1, <3>2, NothingRecorded
  <2>2. CASE disk[d][f] # v.reg[f].hash
    <3>1. recorded(v, d, f, how) = LogUpdate(v, d, f, disk[d][f])
      BY <1>2, <2>2 DEF recorded, captureFile
    <3> QED BY <3>1, UpdateRecords
  <2> QED BY <2>1, <2>2
<1> QED BY <1>1, <1>2

LEMMA RecordsCompose ==
  ASSUME NEW E, NEW d, NEW how, NEW v, v.clock \in Nat, NEW w, NEW x,
         NEW S \in SUBSET Files, NEW R \in SUBSET Files,
         Records(E, d, how, v, w, S), Records(E \cup ToSet(w.ops), d, how, w, x, R)
  PROVE  Records(E, d, how, v, x, S \cup R)
<1>1. ToSet(v.ops) \subseteq ToSet(w.ops) /\ ToSet(w.ops) \subseteq ToSet(x.ops)
  BY DEF Records
<1>2. (E \cup ToSet(w.ops)) \cup ToSet(x.ops) = E \cup ToSet(x.ops)
  BY <1>1
<1>3. AreOps(E \cup ToSet(x.ops)) /\ IsDev(E \cup ToSet(x.ops), d, disk[d], x)
  BY <1>2 DEF Records
<1>4. v.clock <= x.clock
  <2>1. w.clock \in Nat /\ x.clock \in Nat /\ v.clock <= w.clock /\ w.clock <= x.clock
    BY DEF Records, IsDev
  <2> QED BY <2>1
<1>5. \A f \in Files \ (S \cup R) : x.reg[f] = v.reg[f]
  BY DEF Records
<1>6. how = "scan" => \A f \in S \cup R : x.reg[f].hash = disk[d][f]
  <2> SUFFICES ASSUME how = "scan", NEW f \in S \cup R PROVE x.reg[f].hash = disk[d][f]
    OBVIOUS
  <2>1. CASE f \in R
    BY <2>1 DEF Records
  <2>2. CASE f \notin R
    BY <2>2 DEF Records
  <2> QED BY <2>1, <2>2
<1>7. \A op \in ToSet(x.ops) \ ToSet(v.ops) :
         /\ op.file \in S \cup R /\ op.hash = disk[d][op.file]
         /\ op.id[1] = "op" => op.id[3] = d
  BY DEF Records
<1>8. GuardsRedone(v, disk[d]) => GuardsRedone(x, disk[d])
  BY DEF Records
<1> QED BY <1>1, <1>3, <1>4, <1>5, <1>6, <1>7, <1>8 DEF Records

LEMMA FilesRecords ==
  ASSUME NEW E, AreOps(E), NEW d \in Devices, NEW v, IsDev(E, d, disk[d], v),
         NEW how \in {"flush", "scan"}, how = "flush" => GuardsRedone(v, disk[d]),
         NEW S \in SUBSET Files, \A f \in S : IsText(disk[d][f])
  PROVE  Records(E, d, how, v, RecordFiles(v, d, S, how), S)
<1> DEFINE fold == CHOOSE g : g = [s \in SUBSET S |-> step(v, d, how, g, s)]
<1>0. IsFiniteSet(S)
  BY DevicesAssumption, FS_Subset
<1>1. RecordFiles(v, d, S, how) = fold[S]
  BY DEF RecordFiles, FoldSet, MapThenFoldSet, step, pick, recorded
<1>2. fold = [s \in SUBSET S |-> step(v, d, how, fold, s)]
  BY <1>0, FoldExists
<1> HIDE DEF fold
<1> DEFINE Bad == {s \in SUBSET S : ~ Records(E, d, how, v, fold[s], s)}
<1>3. Bad = {}
  <2> SUFFICES ASSUME Bad # {} PROVE FALSE
    OBVIOUS
  <2> DEFINE sizes == {Cardinality(s) : s \in Bad}
  <2>1. \A s \in SUBSET S : IsFiniteSet(s) /\ Cardinality(s) \in Nat
    BY <1>0, FS_Subset, FS_CardinalityType
  <2>2. PICK s \in Bad : \A t \in Bad : Cardinality(s) <= Cardinality(t)
    <3>1. sizes \in SUBSET Nat /\ sizes # {}
      BY <2>1
    <3> HIDE DEF sizes
    <3>2. PICK n \in sizes : \A m \in sizes : n <= m
      BY <3>1, LeastNat
    <3> USE DEF sizes
    <3>3. PICK s \in Bad : Cardinality(s) = n
      OBVIOUS
    <3> QED BY <3>2, <3>3
  <2>3. s # {}
    <3>1. {} \in SUBSET Files /\ \A f \in {} : v.reg[f].hash = disk[d][f]
      OBVIOUS
    <3>2. Records(E, d, how, v, v, {})
      BY <3>1, NothingRecorded
    <3> QED BY <1>2, <2>2, <3>2 DEF step
  <2> DEFINE x == pick(s)
             t == s \ {x}
  <2>4. x \in s /\ t \in SUBSET S /\ Cardinality(t) = Cardinality(s) - 1 /\ t \cup {x} = s
    <3>1. pick(s) \in s
      BY <2>3 DEF pick
    <3> QED BY <2>1, <3>1, FS_RemoveElement
  <2>5. Records(E, d, how, v, fold[t], t)
    BY <2>1, <2>2, <2>4
  <2>6. fold[s] = recorded(fold[t], d, x, how)
    <3>1. fold[s] = step(v, d, how, fold, s)
      BY <1>2
    <3> QED BY <2>3, <3>1 DEF step
  <2> HIDE DEF x, t
  <2> DEFINE w  == fold[t]
             E1 == E \cup ToSet(w.ops)
  <2>7. AreOps(E1) /\ IsDev(E1, d, disk[d], w) /\ (how = "flush" => GuardsRedone(w, disk[d]))
    BY <2>5 DEF Records
  <2>8. x \in Files /\ IsText(disk[d][x]) /\ t \in SUBSET Files /\ {x} \in SUBSET Files
    BY <2>4
  <2> HIDE DEF w, E1
  <2>9. Records(E1, d, how, w, recorded(w, d, x, how), {x})
    <3>1. /\ AreOps(E1) /\ d \in Devices /\ IsDev(E1, d, disk[d], w)
          /\ how \in {"flush", "scan"} /\ (how = "flush" => GuardsRedone(w, disk[d]))
          /\ x \in Files /\ IsText(disk[d][x])
      BY <2>7, <2>8
    <3> QED BY <3>1, OneRecords
  <2>10. v.clock \in Nat
    BY DEF IsDev
  <2>11. Records(E, d, how, v, recorded(w, d, x, how), t \cup {x})
    <3>1. Records(E, d, how, v, w, t) /\ Records(E \cup ToSet(w.ops), d, how, w, recorded(w, d, x, how), {x})
      BY <2>5, <2>9 DEF w, E1
    <3> QED BY <2>8, <2>10, <3>1, RecordsCompose
  <2> QED BY <2>2, <2>4, <2>6, <2>11 DEF w
<1> QED BY <1>1, <1>3

----------------------------------------------------------------------------
(* Walks and recorded edges *)

\* What is left of a set of numbers that has no least member.
LEMMA NoLeast ==
  ASSUME NEW N \in SUBSET Nat, 0 \notin N,
         \A n \in Nat : n + 1 \in N => n \in N
  PROVE  N = {}
<1> SUFFICES ASSUME N # {} PROVE FALSE
  OBVIOUS
<1>1. PICK n \in N : \A m \in N : n <= m
  BY LeastNat
<1>2. n - 1 \in Nat /\ n = (n - 1) + 1
  BY <1>1
<1>3. n - 1 \in N
  BY <1>1, <1>2
<1> QED BY <1>1, <1>2, <1>3

Above(G, S) == UNION {{u} \cup ParentsOf(G, u) : u \in S}

Walked(G, S, reach, n) == IF n = 0 THEN S ELSE Above(G, reach[n - 1])

Closed(G, X) == \A v \in X : ParentsOf(G, v) \subseteq X

\* The recursion of the walk has a solution.
LEMMA WalkExists ==
  ASSUME NEW G, NEW S
  PROVE  \E reach : reach = [n \in Nat |-> Walked(G, S, reach, n)]
<1> DEFINE Fits(g, n) == \A m \in 0..n : g[m] = Walked(G, S, g, m)
           Bad == {n \in Nat : ~ \E g : Fits(g, n)}
<1>1. 0 \notin Bad
  <2>1. Fits([m \in 0..0 |-> S], 0)
    BY DEF Walked
  <2> QED BY <2>1
<1>2. ASSUME NEW n \in Nat, NEW g, Fits(g, n)
      PROVE  Fits([m \in 0..(n + 1) |-> Walked(G, S, g, m)], n + 1)
  <2> DEFINE h == [m \in 0..(n + 1) |-> Walked(G, S, g, m)]
  <2> SUFFICES ASSUME NEW m \in 0..(n + 1) PROVE h[m] = Walked(G, S, h, m)
    OBVIOUS
  <2>1. h[m] = Walked(G, S, g, m)
    OBVIOUS
  <2>2. CASE m = 0
    BY <2>1, <2>2 DEF Walked
  <2>3. CASE m # 0
    <3>1. m - 1 \in 0..n /\ m - 1 \in 0..(n + 1)
      BY <2>3
    <3>2. h[m - 1] = Walked(G, S, g, m - 1)
      BY <3>1
    <3>3. h[m - 1] = g[m - 1]
      BY <3>1, <3>2, <1>2
    <3> QED BY <2>1, <2>3, <3>3 DEF Walked
  <2> QED BY <2>2, <2>3
<1>3. ASSUME NEW g, NEW h, NEW n \in Nat, Fits(g, n), Fits(h, n)
      PROVE  \A m \in 0..n : g[m] = h[m]
  <2> DEFINE Diff == {m \in Nat : m <= n /\ g[m] # h[m]}
  <2>1. 0 \notin Diff
    <3>1. 0 \in 0..n
      OBVIOUS
    <3> QED BY <1>3, <3>1 DEF Walked
  <2>2. ASSUME NEW m \in Nat, m + 1 \in Diff PROVE m \in Diff
    <3>1. m + 1 \in 0..n /\ m \in 0..n /\ m + 1 # 0 /\ (m + 1) - 1 = m
      BY <2>2
    <3>2. g[m + 1] = Above(G, g[m]) /\ h[m + 1] = Above(G, h[m])
      BY <3>1, <1>3 DEF Walked
    <3> QED BY <2>2, <3>1, <3>2
  <2>3. Diff \in SUBSET Nat
    OBVIOUS
  <2> HIDE DEF Diff
  <2>4. Diff = {}
    BY <2>1, <2>2, <2>3, NoLeast
  <2> QED BY <2>4 DEF Diff
<1>4. ASSUME NEW n \in Nat, n + 1 \in Bad PROVE n \in Bad
  <2> SUFFICES ASSUME NEW g, Fits(g, n) PROVE FALSE
    OBVIOUS
  <2>1. Fits([m \in 0..(n + 1) |-> Walked(G, S, g, m)], n + 1)
    BY <1>2
  <2> HIDE DEF Fits
  <2> QED BY <1>4, <2>1
<1> HIDE DEF Fits
<1>5. Bad = {}
  <2>1. Bad \in SUBSET Nat
    OBVIOUS
  <2> HIDE DEF Bad
  <2> QED BY <1>1, <1>4, <2>1, NoLeast
<1> DEFINE fit(n) == CHOOSE g : Fits(g, n)
           reach == [n \in Nat |-> fit(n)[n]]
<1>6. \A n \in Nat : Fits(fit(n), n)
  BY <1>5
<1>7. ASSUME NEW n \in Nat PROVE reach[n] = Walked(G, S, reach, n)
  <2>1. reach[n] = fit(n)[n] /\ fit(n)[n] = Walked(G, S, fit(n), n)
    <3>1. reach[n] = fit(n)[n] /\ Fits(fit(n), n) /\ n \in 0..n
      BY <1>6
    <3> HIDE DEF fit, reach
    <3> QED BY <3>1 DEF Fits
  <2>2. CASE n = 0
    BY <2>1, <2>2 DEF Walked
  <2>3. CASE n # 0
    <3>1. n - 1 \in Nat /\ n - 1 \in 0..(n - 1) /\ n - 1 \in 0..n
      BY <2>3
    <3>2. Fits(fit(n - 1), n - 1) /\ Fits(fit(n), n - 1)
      BY <1>6, <3>1 DEF Fits
    <3>3. fit(n - 1)[n - 1] = fit(n)[n - 1]
      <4> HIDE DEF fit
      <4> QED BY <1>3, <3>1, <3>2
    <3>4. reach[n - 1] = fit(n)[n - 1]
      BY <3>1, <3>3
    <3> HIDE DEF fit, reach
    <3> QED BY <2>1, <2>3, <3>4 DEF Walked
  <2> QED BY <2>2, <2>3
<1>8. reach = [n \in Nat |-> Walked(G, S, reach, n)]
  <2>1. reach = [n \in Nat |-> reach[n]]
    OBVIOUS
  <2> HIDE DEF reach
  <2> QED BY <2>1, <1>7
<1> QED BY <1>8

\* The generations of a walk.
LEMMA WalkStages ==
  ASSUME NEW G, NEW S
  PROVE  \E reach : /\ WalkUp(G, S) = reach[Cardinality(DOMAIN G)]
                    /\ reach[0] = S
                    /\ \A n \in Nat : reach[n + 1] = Above(G, reach[n])
<1> DEFINE reach == CHOOSE r : r = [n \in Nat |-> Walked(G, S, r, n)]
<1>1. WalkUp(G, S) = reach[Cardinality(DOMAIN G)]
  BY DEF WalkUp, Walked, Above
<1>2. reach = [n \in Nat |-> Walked(G, S, reach, n)]
  BY WalkExists
<1> HIDE DEF reach
<1>3. \A n \in Nat : reach[n] = Walked(G, S, reach, n)
  BY <1>2
<1>4. reach[0] = S
  BY <1>3 DEF Walked
<1>5. ASSUME NEW n \in Nat PROVE reach[n + 1] = Above(G, reach[n])
  <2>1. n + 1 \in Nat /\ n + 1 # 0 /\ (n + 1) - 1 = n
    OBVIOUS
  <2> QED BY <1>3, <2>1 DEF Walked
<1> QED BY <1>1, <1>4, <1>5

LEMMA WalkStarts ==
  ASSUME NEW G, IsFiniteSet(DOMAIN G), NEW S
  PROVE  S \subseteq WalkUp(G, S)
<1>1. PICK reach : /\ WalkUp(G, S) = reach[Cardinality(DOMAIN G)]
                   /\ reach[0] = S
                   /\ \A n \in Nat : reach[n + 1] = Above(G, reach[n])
  BY WalkStages
<1> DEFINE Bad == {n \in Nat : ~ (S \subseteq reach[n])}
<1>2. 0 \notin Bad /\ Bad \in SUBSET Nat
  BY <1>1
<1>3. \A n \in Nat : n + 1 \in Bad => n \in Bad
  BY <1>1 DEF Above
<1>4. Bad = {}
  <2> HIDE DEF Bad
  <2> QED BY <1>2, <1>3, NoLeast
<1>5. Cardinality(DOMAIN G) \in Nat
  BY FS_CardinalityType
<1> QED BY <1>1, <1>4, <1>5

addEdges(g, op) == AddVersion(g, op.id, op.parents, op.hash, op.file)

\* One step of the recursion over the positions of the recorded ops.
edgeStep(g, ops, it, s) == IF s = {} THEN g ELSE addEdges(it[s \ {Max(s)}], ops[Max(s)])

LEMMA LastIn ==
  ASSUME NEW n \in Nat, NEW s \in SUBSET (1..n), s # {}
  PROVE  /\ Max(s) \in s /\ s \ {Max(s)} \in SUBSET (1..n)
         /\ IsFiniteSet(s) /\ Cardinality(s) \in Nat
         /\ Cardinality(s \ {Max(s)}) = Cardinality(s) - 1
<1> DEFINE N == {n - x : x \in s}
<1>1. N \in SUBSET Nat /\ N # {}
  <2>1. \A x \in s : n - x \in Nat
    OBVIOUS
  <2>2. PICK x \in s : TRUE
    OBVIOUS
  <2> QED BY <2>1, <2>2
<1> HIDE DEF N
<1>2. PICK m \in N : \A k \in N : m <= k
  BY <1>1, LeastNat
<1>3. PICK x \in s : m = n - x
  BY DEF N
<1>4. \A y \in s : x >= y
  <2> SUFFICES ASSUME NEW y \in s PROVE x >= y
    OBVIOUS
  <2>1. n - x <= n - y
    BY <1>2, <1>3 DEF N
  <2> QED BY <2>1
<1>5. Max(s) \in s
  BY <1>4 DEF Max
<1>6. IsFiniteSet(s)
  <2>1. IsFiniteSet(1..n)
    BY FS_Interval
  <2> QED BY <2>1, FS_Subset
<1> QED BY <1>5, <1>6, FS_RemoveElement, FS_CardinalityType

LEMMA EdgesExist ==
  ASSUME NEW g, NEW ops, NEW n \in Nat
  PROVE  \E it : it = [s \in SUBSET (1..n) |-> edgeStep(g, ops, it, s)]
<1> DEFINE S == 1..n
           Fits(it, k) == \A s \in SUBSET S : Cardinality(s) <= k => it[s] = edgeStep(g, ops, it, s)
           Bad == {k \in Nat : ~ \E it : Fits(it, k)}
<1>0. IsFiniteSet(S)
  BY FS_Interval
<1>1. \A s \in SUBSET S : Cardinality(s) \in Nat /\ Cardinality(s) <= Cardinality(S)
  BY <1>0, FS_Subset, FS_CardinalityType
<1>2. \A s \in SUBSET S : s # {} => /\ s \ {Max(s)} \in SUBSET S
                                     /\ Cardinality(s \ {Max(s)}) = Cardinality(s) - 1
  BY LastIn
<1>3. Fits([s \in SUBSET S |-> g], 0)
  <2> HIDE DEF S
  <2>1. \A s \in SUBSET S : Cardinality(s) <= 0 => s = {}
    <3> SUFFICES ASSUME NEW s \in SUBSET S, Cardinality(s) <= 0 PROVE s = {}
      OBVIOUS
    <3>1. IsFiniteSet(s) /\ Cardinality(s) = 0
      BY <1>0, <1>1, FS_Subset
    <3> QED BY <3>1, FS_EmptySet
  <2> QED BY <2>1 DEF edgeStep
<1>4. ASSUME NEW k \in Nat, NEW it, Fits(it, k)
      PROVE  Fits([s \in SUBSET S |-> edgeStep(g, ops, it, s)], k + 1)
  <2> DEFINE h == [s \in SUBSET S |-> edgeStep(g, ops, it, s)]
  <2> HIDE DEF S
  <2> SUFFICES ASSUME NEW s \in SUBSET S, Cardinality(s) <= k + 1
               PROVE  h[s] = edgeStep(g, ops, h, s)
    OBVIOUS
  <2>1. CASE s = {}
    BY <2>1 DEF edgeStep
  <2>2. CASE s # {}
    <3> DEFINE t == s \ {Max(s)}
    <3>1. t \in SUBSET S /\ Cardinality(t) <= k
      BY <2>2, <1>1, <1>2
    <3>2. h[t] = it[t]
      <4>1. h[t] = edgeStep(g, ops, it, t)
        BY <3>1
      <4> QED BY <4>1, <3>1, <1>4
    <3>3. h[s] = edgeStep(g, ops, it, s)
      OBVIOUS
    <3> QED BY <3>2, <3>3 DEF edgeStep
  <2> QED BY <2>1, <2>2
<1> HIDE DEF Fits
<1>5. Bad = {}
  <2>1. 0 \notin Bad /\ Bad \in SUBSET Nat
    BY <1>3
  <2>2. \A k \in Nat : k + 1 \in Bad => k \in Bad
    BY <1>4
  <2> HIDE DEF Bad
  <2> QED BY <2>1, <2>2, NoLeast
<1>6. PICK it : Fits(it, Cardinality(S))
  <2>1. Cardinality(S) \in Nat
    BY <1>0, FS_CardinalityType
  <2> QED BY <1>5, <2>1
<1> DEFINE h == [s \in SUBSET S |-> it[s]]
<1> HIDE DEF S
<1>7. ASSUME NEW s \in SUBSET S PROVE h[s] = edgeStep(g, ops, h, s)
  <2>1. it[s] = edgeStep(g, ops, it, s)
    BY <1>1, <1>6 DEF Fits
  <2>2. CASE s = {}
    BY <2>1, <2>2 DEF edgeStep
  <2>3. CASE s # {}
    <3>1. h[s \ {Max(s)}] = it[s \ {Max(s)}]
      BY <2>3, <1>2
    <3> QED BY <2>1, <2>3, <3>1 DEF edgeStep
  <2> QED BY <2>2, <2>3
<1>8. h = [s \in SUBSET S |-> edgeStep(g, ops, h, s)]
  <2> HIDE DEF h
  <2>1. h = [s \in SUBSET S |-> h[s]]
    BY DEF h
  <2> QED BY <2>1, <1>7
<1> QED BY <1>8 DEF S

\* recordVersionEdges adds the versions of the ops it is given, and no others.
LEMMA RecordEdgesGraph ==
  ASSUME NEW E, AreOps(E), NEW g, IsGraph(E, g), NEW ops, IsSeq(ops), ToSet(ops) \subseteq E
  PROVE  IsGraph(E, RecordEdges(g, ops)) /\ DOMAIN RecordEdges(g, ops) = DOMAIN g \cup Ids(ops)
<1> DEFINE n == Len(ops)
           it == CHOOSE h : h = [s \in SUBSET (1..n) |-> edgeStep(g, ops, h, s)]
           Good(s) == IsGraph(E, it[s]) /\ DOMAIN it[s] = DOMAIN g \cup {ops[i].id : i \in s}
           Bad  == {s \in SUBSET (1..n) : ~ Good(s)}
<1>1. n \in Nat /\ DOMAIN ops = 1..n
  BY DEF IsSeq
<1>2. RecordEdges(g, ops) = it[DOMAIN ops]
  BY <1>1 DEF RecordEdges, FoldLeft, MapThenFoldSet, edgeStep, addEdges
<1>3. it = [s \in SUBSET (1..n) |-> edgeStep(g, ops, it, s)]
  BY <1>1, EdgesExist
<1> HIDE DEF it
<1>4. it[{}] = g
  BY <1>3 DEF edgeStep
<1>5. ASSUME NEW h, IsGraph(E, h), NEW op \in E
      PROVE  IsGraph(E, addEdges(h, op)) /\ DOMAIN addEdges(h, op) = DOMAIN h \cup {op.id}
  <2> DEFINE u == addEdges(h, op)
  <2>1. DOMAIN u = DOMAIN h \cup {op.id}
    BY DEF addEdges, AddVersion
  <2>2. \A v \in DOMAIN h : v # op.id => u[v] = h[v]
    BY DEF addEdges, AddVersion
  <2>3. u[op.id].file = op.file
    <3> DEFINE node == IF op.id \in DOMAIN h THEN h[op.id]
                       ELSE [parents |-> {}, hash |-> NoHash, file |-> NoFile]
    <3>1. u[op.id].file = IF node.file = NoFile THEN op.file ELSE node.file
      BY DEF addEdges, AddVersion
    <3>2. node.file = NoFile \/ node.file = op.file
      <4>1. CASE op.id \in DOMAIN h
        <5>1. PICK o \in E : o.id = op.id /\ o.file = h[op.id].file
          BY <1>5, <4>1 DEF IsGraph
        <5> QED BY <4>1, <5>1 DEF AreOps
      <4>2. CASE op.id \notin DOMAIN h
        BY <4>2
      <4> QED BY <4>1, <4>2
    <3> HIDE DEF node
    <3> QED BY <3>1, <3>2
  <2> HIDE DEF u
  <2>4. IsFiniteSet(DOMAIN u)
    BY <1>5, <2>1, FS_AddElement DEF IsGraph
  <2>5. \A v \in DOMAIN u : \E o \in E : o.id = v /\ o.file = u[v].file
    BY <1>5, <2>1, <2>2, <2>3 DEF IsGraph
  <2> QED BY <2>1, <2>4, <2>5 DEF IsGraph, u
<1>6. Bad = {}
  <2> SUFFICES ASSUME Bad # {} PROVE FALSE
    OBVIOUS
  <2> DEFINE sizes == {Cardinality(s) : s \in Bad}
  <2>1. \A s \in SUBSET (1..n) : IsFiniteSet(s) /\ Cardinality(s) \in Nat
    <3> HIDE DEF n
    <3>1. IsFiniteSet(1..n)
      BY <1>1, FS_Interval
    <3> QED BY <3>1, FS_Subset, FS_CardinalityType
  <2>2. PICK s \in Bad : \A t \in Bad : Cardinality(s) <= Cardinality(t)
    <3>1. sizes \in SUBSET Nat /\ sizes # {}
      BY <2>1
    <3> HIDE DEF sizes
    <3>2. PICK k \in sizes : \A m \in sizes : k <= m
      BY <3>1, LeastNat
    <3> USE DEF sizes
    <3>3. PICK s \in Bad : Cardinality(s) = k
      OBVIOUS
    <3> QED BY <3>2, <3>3
  <2>3. s # {}
    <3>1. Good({})
      BY <1>4
    <3> QED BY <2>2, <3>1
  <2> DEFINE x == Max(s)
             t == s \ {x}
  <2>4. x \in s /\ t \in SUBSET (1..n) /\ Cardinality(t) = Cardinality(s) - 1 /\ x \in 1..n /\ s = t \cup {x}
    <3>1. s \in SUBSET (1..n)
      OBVIOUS
    <3> HIDE DEF n, Bad
    <3> QED BY <1>1, <2>3, <3>1, LastIn
  <2>5. Good(t)
    <3>1. t \notin Bad
      <4>1. s \in SUBSET (1..n)
        OBVIOUS
      <4> HIDE DEF Bad, t, n
      <4>2. Cardinality(s) \in Nat /\ Cardinality(t) = Cardinality(s) - 1
        BY <2>1, <2>4, <4>1
      <4> QED BY <2>2, <4>2
    <3> HIDE DEF t, Good
    <3> QED BY <2>4, <3>1
  <2>6. it[s] = addEdges(it[t], ops[x])
    <3>1. it[s] = edgeStep(g, ops, it, s)
      BY <1>3
    <3> QED BY <2>3, <3>1 DEF edgeStep
  <2>7. ops[x] \in E
    BY <1>1, <2>4 DEF ToSet
  <2> HIDE DEF x, t
  <2>8. IsGraph(E, it[s]) /\ DOMAIN it[s] = DOMAIN it[t] \cup {ops[x].id}
    <3> DEFINE h == it[t]
    <3>1. IsGraph(E, h)
      BY <2>5
    <3> HIDE DEF h
    <3>2. IsGraph(E, addEdges(h, ops[x])) /\ DOMAIN addEdges(h, ops[x]) = DOMAIN h \cup {ops[x].id}
      BY <1>5, <2>7, <3>1
    <3> QED BY <2>6, <3>2 DEF h
  <2>9. {ops[i].id : i \in s} = {ops[i].id : i \in t} \cup {ops[x].id}
    BY <2>4
  <2> QED BY <2>2, <2>5, <2>8, <2>9
<1>7. Good(DOMAIN ops)
  BY <1>1, <1>6
<1> QED BY <1>2, <1>7 DEF Ids

----------------------------------------------------------------------------
(* What a merge decides *)

LEMMA MergedTexts ==
  ASSUME NEW base, NEW l, IsText(l), NEW r, IsText(r)
  PROVE  IsText(Merged(base, l, r)) /\ IsText(Marked(base, l, r)) /\ IsText(MarkedWhole(l, r))
<1>1. Marks \subseteq Pairs /\ l \subseteq Pairs /\ r \subseteq Pairs
  BY DEF Marks, Pairs, IsText
<1>2. Merged(base, l, r) \subseteq l \cup r
  BY DEF Merged, In
<1>3. Marked(base, l, r) \subseteq l \cup r \cup Marks
  <2>1. \A p \in Regions : <<p, 0>> \in Marks
    BY DEF Marks
  <2>2. \A p : In(l, p) \subseteq l /\ In(r, p) \subseteq r
               /\ In(Merged(base, l, r), p) \subseteq Merged(base, l, r)
    BY DEF In
  <2>3. \A S, T, x : S \cup T \cup {x} = {y : y \in S \cup T \cup {x}}
    OBVIOUS
  <2> SUFFICES ASSUME NEW p \in Regions
               PROVE  (IF p \in Overlap(base, l, r) THEN In(l, p) \cup In(r, p) \cup {<<p, 0>>}
                       ELSE In(Merged(base, l, r), p)) \subseteq l \cup r \cup Marks
    BY DEF Marked
  <2> QED BY <1>2, <2>1, <2>2
<1>4. MarkedWhole(l, r) \subseteq l \cup r \cup Marks
  BY DEF MarkedWhole
<1> QED BY <1>1, <1>2, <1>3, <1>4 DEF IsText

LEMMA VersionHead ==
  ASSUME NullsApart, NEW E, AreOps(E), NEW f, NEW v \in Versions(E, f)
  PROVE  v # NoHead
<1>1. PICK op \in E : op.id = v
  BY DEF Versions
<1>2. IsOp(E, op)
  BY DEF AreOps
<1> QED BY <1>1, <1>2 DEF IsOp, IsEdit, IsMerge, NullsApart

\* What is decided between an entry e and an op, or another entry, x of the same file.
LEMMA DecisionKinds ==
  ASSUME NullsApart, NEW E, AreOps(E), NEW g, IsFiniteSet(DOMAIN g), NEW f,
         NEW e, IsText(e.hash), e.head \in Versions(E, f),
         NEW x, IsText(x.hash), x.head \in Versions(E, f),
         NEW L, NEW R, NEW act, act = classifyAndResolve(g, Entry(f, e), Entry(f, x), L, R)
  PROVE  act.type \in {"no_op", "send_remote"} \/ IsAct(E, f, act)
<1> DEFINE le == Entry(f, e)
           re == Entry(f, x)
           Fine(a) == a.type \in {"no_op", "send_remote"} \/ IsAct(E, f, a)
<1>1. /\ le.path = f /\ re.path = f /\ le.hash = e.hash /\ re.hash = x.hash
      /\ le.head = e.head /\ re.head = x.head /\ le.deleted = FALSE /\ re.deleted = FALSE
  BY DEF Entry
<1>2. le.head # NoHead /\ re.head # NoHead
  BY <1>1, VersionHead
<1> HIDE DEF le, re
<1>3. Fine(NoOp) /\ Fine(SendRemote)
  BY DEF NoOp, SendRemote
<1>4. \A p : \A y \in {le, re} : Fine(WriteLocal(y, p))
  BY <1>1 DEF WriteLocal, IsAct
<1>5. ASSUME le.head # re.head, NEW text, IsText(text)
      PROVE  (\A p : Fine(WriteMerge(p, text, le, re))) /\ Fine(Conflict(le, re, text))
  <2>1. {le.head, re.head} \subseteq Versions(E, f) /\ {le.head, re.head} # {}
    BY <1>1
  <2>2. Cardinality({le.head, re.head}) = 2
    <3>1. IsFiniteSet({re.head}) /\ Cardinality({re.head}) = 1
      BY FS_Singleton
    <3>2. Cardinality({re.head} \cup {le.head}) = Cardinality({re.head}) + 1
      BY <1>5, <3>1, FS_AddElement
    <3>3. {re.head} \cup {le.head} = {le.head, re.head}
      OBVIOUS
    <3> QED BY <3>1, <3>2, <3>3
  <2> QED BY <1>5, <2>1, <2>2 DEF WriteMerge, Conflict, IsAct
<1>6. le.head = re.head => Known(g, re.head, le.head)
  <2>1. {le.head} \subseteq WalkUp(g, {le.head})
    BY WalkStarts
  <2> QED BY <1>2, <2>1 DEF Known, isAncestor, ancestors
<1>7. Fine(ResolveSameContent(g, le, re, L \cup R))
  <2>1. HeadsKnown(le, re)
    BY <1>2 DEF HeadsKnown
  <2>2. CASE le.head = re.head
    BY <1>1, <1>3, <2>2 DEF ResolveSameContent
  <2>3. CASE le.head # re.head
    <3>1. Fine(WriteMerge(le.path, le.hash, le, re)) /\ Fine(WriteLocal(re, re.path))
      BY <1>1, <1>4, <1>5, <2>3
    <3> HIDE DEF Fine
    <3> QED BY <1>1, <1>3, <3>1 DEF ResolveSameContent
  <2> QED BY <2>2, <2>3
<1>8. le.hash \notin Binary /\ re.hash \notin Binary
  BY <1>1, TextsAssumption DEF IsText, Pairs, Edits
<1>9. Fine(resolveContentConflict(g, le, re, L, R))
  <2>1. Fine(ResolveTwoHeaded(g, le, re, L \cup R))
    BY <1>3, <1>4 DEF ResolveTwoHeaded
  <2>2. Fine(ResolveMissing(le, re, L, R))
    BY <1>3, <1>4 DEF ResolveMissing, Winner
  <2>3. ASSUME NEW base, le.head # re.head PROVE Fine(ResolveText(g, le, re, base, L \cup R))
    <3>1. \A text : /\ IsText(Merged(text, le.hash, re.hash))
                    /\ IsText(Marked(text, le.hash, re.hash))
                    /\ IsText(MarkedWhole(le.hash, re.hash))
      BY <1>1, MergedTexts
    <3>2. \A text : /\ \A p : Fine(WriteMerge(p, Merged(text, le.hash, re.hash), le, re))
                    /\ Fine(Conflict(le, re, Marked(text, le.hash, re.hash)))
                    /\ Fine(Conflict(le, re, MarkedWhole(le.hash, re.hash)))
      BY <1>5, <2>3, <3>1
    <3> HIDE DEF Fine
    <3> QED BY <3>2 DEF ResolveText
  <2> HIDE DEF Fine
  <2> QED BY <1>3, <1>4, <1>6, <1>8, <2>1, <2>2, <2>3 DEF resolveContentConflict
<1>10. Fine(classifyAndResolve(g, le, re, L, R))
  <2> HIDE DEF Fine
  <2> QED BY <1>1, <1>3, <1>4, <1>7, <1>9 DEF classifyAndResolve
<1> QED BY <1>10 DEF le, re

----------------------------------------------------------------------------
(* A step of one device *)

\* Of all devices only d changes: to one with texts t, kept state v, graph g, cursor c and
\* round r.
Moves(d, t, v, g, c, r) ==
    /\ disk' = [disk EXCEPT ![d] = t] /\ dev' = [dev EXCEPT ![d] = v]
    /\ dag' = [dag EXCEPT ![d] = g] /\ cursor' = [cursor EXCEPT ![d] = c]
    /\ round' = [round EXCEPT ![d] = r]
    /\ \A e \in Devices \ {d} : running'[e] = running[e]

\* The step records the ops of M.
LEMMA KindsStep ==
  ASSUME KindsInv, PendingInv, NEW d \in Devices, NEW t, NEW v, NEW g, NEW c, NEW r, NEW M,
         Moves(d, t, v, g, c, r),
         emitted' = emitted \cup M, AreOps(All \cup M),
         \A op \in M \ All : op.id[1] = "op" => op.id[3] = d,
         Len(log) \in Nat, Len(log') \in Nat, Len(log) <= Len(log'),
         ToSet(log') \subseteq All \cup M,
         IsDevice(All \cup M, Len(log'), d, t, v, g, c, r, running'[d])
  PROVE  KindsInv'
<1> USE DEF Moves
<1> DEFINE E2 == All \cup M
<1>1. All' = E2
  BY DEF All, Root, EditOp
<1>2. AreOps(E2) /\ All \subseteq E2 /\ ToSet(log') \subseteq E2
  OBVIOUS
<1>3. ASSUME NEW e \in Devices \ {d}
      PROVE  /\ disk'[e] = disk[e] /\ dev'[e] = dev[e] /\ dag'[e] = dag[e]
             /\ cursor'[e] = cursor[e] /\ round'[e] = round[e] /\ running'[e] = running[e]
  BY DEF KindsInv, PendingInv
<1>4. /\ disk'[d] = t /\ dev'[d] = v /\ dag'[d] = g /\ cursor'[d] = c /\ round'[d] = r
  BY DEF KindsInv, PendingInv
<1>5. ASSUME NEW e \in Devices \ {d}
      PROVE  IsDevice(E2, Len(log'), e, disk[e], dev[e], dag[e], cursor[e], round[e], running[e])
  <2>1. IsDevice(All, Len(log), e, disk[e], dev[e], dag[e], cursor[e], round[e], running[e])
    BY DEF KindsInv, DeviceInv
  <2>2. StampsUpTo(E2, e, dev[e].clock)
    <3>1. StampsUpTo(All, e, dev[e].clock)
      BY <2>1 DEF IsDevice, IsDev
    <3> QED BY <3>1 DEF StampsUpTo
  <2> HIDE DEF E2
  <2> QED BY <1>2, <2>1, <2>2, DeviceGrows
<1>6. ASSUME NEW e \in Devices
      PROVE  IsDevice(E2, Len(log'), e, disk'[e], dev'[e], dag'[e], cursor'[e], round'[e], running'[e])
  <2>1. CASE e = d
    BY <1>4, <2>1
  <2>2. CASE e # d
    BY <1>3, <1>5, <2>2
  <2> QED BY <2>1, <2>2
<1> HIDE DEF E2
<1>7. ASSUME NEW e \in Devices PROVE DeviceInv(e)'
  <2>1. IsDevice(All', Len(log'), e, disk'[e], dev'[e], dag'[e], cursor'[e], round'[e], running'[e])
    BY <1>1, <1>6
  <2> QED BY <2>1 DEF DeviceInv
<1>8. AreOps(All)' /\ ToSet(log)' \subseteq All'
  <2>1. AreOps(All') /\ ToSet(log') \subseteq All'
    BY <1>1, <1>2
  <2>2. AreOps(All)'
    BY <2>1
  <2>3. ToSet(log)' = ToSet(log')
    BY DEF ToSet
  <2> QED BY <2>1, <2>2, <2>3
<1>9. /\ DOMAIN disk' = Devices /\ DOMAIN dag' = Devices /\ DOMAIN cursor' = Devices
      /\ disk' = [e \in Devices |-> disk'[e]] /\ dag' = [e \in Devices |-> dag'[e]]
      /\ cursor' = [e \in Devices |-> cursor'[e]]
  BY DEF KindsInv
<1> QED BY <1>7, <1>8, <1>9 DEF KindsInv

----------------------------------------------------------------------------
(* The first state *)

LEMMA RootKinds ==
  ASSUME NEW f \in Files
  PROVE  /\ Root(f).id = <<"root", f>> /\ Root(f).file = f /\ Root(f).hash = {}
         /\ Root(f).hlc \in Nat \X Devices
<1>1. Min(Devices) \in Devices
  <2>1. \E n \in Devices : \A m \in Devices : n <= m
    BY DevicesAssumption, LeastNat
  <2> QED BY <2>1 DEF Min
<1> QED BY <1>1 DEF Root, EditOp, EmptyText

LEMMA InitKinds == ASSUME Init PROVE KindsInv
<1> DEFINE S == {Root(f) : f \in Files}
<1>1. All = S
  BY DEF Init, All
<1>2. AreOps(S)
  <2>1. \A op \in S : IsOp(S, op)
    BY RootKinds DEF IsOp, IsText
  <2>2. \A a, b \in S : a.id = b.id => a.file = b.file
    BY RootKinds
  <2> QED BY <2>1, <2>2 DEF AreOps
<1>3. \A f \in Files : Root(f).id \in Versions(S, f)
  BY RootKinds DEF Versions
<1>4. IsSeq(log) /\ ToSet(log) \subseteq S /\ Len(log) \in Nat
  <2>1. IsFiniteSet(S)
    <3> DEFINE first == [f \in Files |-> Root(f)]
    <3>1. first \in Surjection(Files, S)
      BY DEF Surjection
    <3> QED BY <3>1, DevicesAssumption, FS_Surjection
  <2> HIDE DEF S
  <2>2. ExistsBijection(1..Cardinality(S), S)
    BY <2>1, FS_CardinalityType
  <2>3. \E g \in [1..Cardinality(S) -> S] : IsInjective(g)
    BY <2>2 DEF ExistsBijection, Bijection, Injection, IsInjective
  <2>4. log \in [1..Cardinality(S) -> S]
    BY <1>1, <2>3 DEF Init, SetToSeq, S
  <2>5. log \in Seq(S)
    BY <2>1, <2>4, FS_CardinalityType
  <2> QED BY <2>5, SeqOver DEF ToSet
<1> HIDE DEF S
<1>5. IsGraph(S, RecordEdges(EmptyDag, log))
  <2>1. IsGraph(S, EmptyDag)
    <3>1. DOMAIN EmptyDag = {}
      BY DEF EmptyDag
    <3> QED BY <3>1, FS_EmptySet DEF IsGraph
  <2> QED BY <1>2, <1>4, <2>1, RecordEdgesGraph
<1>6. ASSUME NEW d \in Devices PROVE DeviceInv(d)
  <2>1. /\ disk[d] = [f \in Files |-> {}] /\ dag[d] = RecordEdges(EmptyDag, log)
        /\ cursor[d] = Len(log) /\ round[d] = NoRound
    BY DEF Init, EmptyText
  <2>2. /\ dev[d].ops = <<>> /\ dev[d].clock = 0 /\ DOMAIN dev[d] = {"reg", "ops", "clock", "store"}
        /\ dev[d].reg = [f \in Files |-> [hash |-> EmptyText, hlc |-> Root(f).hlc,
                                           head |-> Root(f).id, conf |-> {}]]
    BY DEF Init
  <2>3. IsReg(S, dev[d].reg)
    <3>1. Cardinality({}) = 0
      BY FS_EmptySet
    <3>2. ASSUME NEW f \in Files PROVE IsEntry(S, f, dev[d].reg[f])
      <4>1. /\ dev[d].reg[f].hash = {} /\ dev[d].reg[f].conf = {}
            /\ dev[d].reg[f].head = Root(f).id
            /\ DOMAIN dev[d].reg[f] = {"hash", "hlc", "head", "conf"}
        BY <2>2 DEF EmptyText
      <4> QED BY <1>3, <3>1, <4>1 DEF IsEntry, IsText
    <3> QED BY <2>2, <3>2 DEF IsReg
  <2>4. ToSet(dev[d].ops) = {} /\ IsSeq(dev[d].ops) /\ DOMAIN dev[d].ops = {}
    BY <2>2, NoMembers, ShortSeqs
  <2>5. StampsUpTo(S, d, 0)
    BY RootKinds DEF StampsUpTo, S
  <2>6. IsDev(S, d, disk[d], dev[d])
    BY <2>2, <2>3, <2>4, <2>5 DEF IsDev, Kept, DistinctIds, KeepsRedone
  <2>7. GuardsRedone(dev[d], disk[d])
    BY <2>4 DEF GuardsRedone
  <2>8. disk[d] \in [Files -> SUBSET Pairs] /\ cursor[d] \in 0..Len(log)
    BY <1>4, <2>1
  <2> QED BY <1>1, <1>5, <2>1, <2>6, <2>7, <2>8 DEF DeviceInv, IsDevice, IsRound
<1>7. ToSet(log) \subseteq All /\ AreOps(All)
  BY <1>1, <1>2, <1>4
<1> QED BY <1>6, <1>7 DEF KindsInv, Init

----------------------------------------------------------------------------
(* Steps that record nothing, and the user *)

LEMMA KindsHere ==
  ASSUME KindsInv, PendingInv, NEW d \in Devices
  PROVE  /\ IsDevice(All, Len(log), d, disk[d], dev[d], dag[d], cursor[d], round[d], running[d])
         /\ disk[d] \in [Files -> SUBSET Pairs] /\ IsDev(All, d, disk[d], dev[d])
         /\ IsGraph(All, dag[d]) /\ cursor[d] \in 0..Len(log)
         /\ IsRound(All, Len(log), d, disk[d], round[d], dev[d])
         /\ running[d] /\ ~ Flushing(round[d]) => GuardsRedone(dev[d], disk[d])
         /\ IsSeq(log) /\ Len(log) \in Nat /\ AreOps(All) /\ ToSet(log) \subseteq All
         /\ disk = [disk EXCEPT ![d] = disk[d]] /\ dev = [dev EXCEPT ![d] = dev[d]]
         /\ dag = [dag EXCEPT ![d] = dag[d]] /\ cursor = [cursor EXCEPT ![d] = cursor[d]]
         /\ round = [round EXCEPT ![d] = round[d]]
<1>1. IsDevice(All, Len(log), d, disk[d], dev[d], dag[d], cursor[d], round[d], running[d])
  BY DEF KindsInv, DeviceInv
<1>2. IsSeq(log) /\ Len(log) \in Nat /\ AreOps(All) /\ ToSet(log) \subseteq All
  BY DEF KindsInv, PendingInv, IsSeq
<1>3. /\ disk = [disk EXCEPT ![d] = disk[d]] /\ dag = [dag EXCEPT ![d] = dag[d]]
      /\ cursor = [cursor EXCEPT ![d] = cursor[d]]
  BY DEF KindsInv
<1>4. dev = [dev EXCEPT ![d] = dev[d]] /\ round = [round EXCEPT ![d] = round[d]]
  BY DEF PendingInv
<1> QED BY <1>1, <1>2, <1>3, <1>4 DEF IsDevice

\* A step that records nothing and sends nothing.
LEMMA SilentStep ==
  ASSUME KindsInv, PendingInv, NEW d \in Devices, NEW t, NEW v, NEW g, NEW c, NEW r,
         Moves(d, t, v, g, c, r),
         log' = log, emitted' = emitted,
         IsDevice(All, Len(log), d, t, v, g, c, r, running'[d])
  PROVE  KindsInv'
<1>1. /\ emitted' = emitted \cup {} /\ All \cup {} = All
      /\ \A op \in {} \ All : op.id[1] = "op" => op.id[3] = d
  OBVIOUS
<1>2. /\ Len(log) \in Nat /\ Len(log') \in Nat /\ Len(log) <= Len(log')
      /\ ToSet(log') \subseteq All \cup {} /\ AreOps(All \cup {})
  BY KindsHere
<1>3. IsDevice(All \cup {}, Len(log'), d, t, v, g, c, r, running'[d])
  BY <1>1
<1> QED BY <1>1, <1>2, <1>3, KindsStep

\* A round does not mind when the files on the disk grow by text without markers.
LEMMA TextGrows ==
  ASSUME NEW E, NEW n, NEW d, NEW t, NEW v, NEW g, NEW c, NEW r, NEW open,
         IsDevice(E, n, d, t, v, g, c, r, open),
         NEW u \in [Files -> SUBSET Pairs],
         \A f \in Files : t[f] \subseteq u[f] /\ (hasConflictMarkers(u[f]) => hasConflictMarkers(t[f]))
  PROVE  IsDevice(E, n, d, u, v, g, c, r, open)
<1>1. \A w : (KeepsRedone(w, t) => KeepsRedone(w, u)) /\ (GuardsRedone(w, t) => GuardsRedone(w, u))
  BY DEF KeepsRedone, GuardsRedone
<1>2. \A w : IsDev(E, d, t, w) => IsDev(E, d, u, w)
  BY <1>1 DEF IsDev
<1>3. IsRound(E, n, d, t, r, v) => IsRound(E, n, d, u, r, v)
  <2>1. Applies(E, n, t, r) => Applies(E, n, u, r)
    <3>1. \A op : IsMinted(E, t, r, op) => IsMinted(E, u, r, op)
      BY DEF IsMinted, IsOp
    <3> QED BY <3>1 DEF Applies
  <2>2. Flushes(E, n, d, t, r, v) => Flushes(E, n, d, u, r, v)
    BY <1>1, <1>2 DEF Flushes
  <2> QED BY <2>1, <2>2 DEF IsRound
<1> QED BY <1>1, <1>2, <1>3 DEF IsDevice

LEMMA UserEditKinds ==
  ASSUME KindsInv, PendingInv, NEW d \in Devices, NEW f \in Files, NEW e \in Typable[d],
         UserEdit(d, f, e)
  PROVE  KindsInv'
<1> DEFINE t == [disk[d] EXCEPT ![f] = @ \cup {e}]
<1>1. /\ disk' = [disk EXCEPT ![d] = t]
      /\ UNCHANGED <<log, dev, dag, cursor, round, running, emitted>>
  BY DEF UserEdit, Save, KindsInv
<1>2. e \in Pairs /\ e[2] # 0
  BY TypableAssumption DEF Pairs
<1>3. t \in [Files -> SUBSET Pairs]
  BY <1>2, KindsHere
<1>4. \A x \in Files : /\ disk[d][x] \subseteq t[x]
                       /\ hasConflictMarkers(t[x]) => hasConflictMarkers(disk[d][x])
  BY <1>2, KindsHere DEF hasConflictMarkers
<1> HIDE DEF t
<1>5. IsDevice(All, Len(log), d, t, dev[d], dag[d], cursor[d], round[d], running'[d])
  BY <1>1, <1>3, <1>4, KindsHere, TextGrows
<1>6. Moves(d, t, dev[d], dag[d], cursor[d], round[d])
  BY <1>1, KindsHere DEF Moves
<1> QED BY <1>1, <1>5, <1>6, SilentStep

LEMMA UserResolveKinds ==
  ASSUME KindsInv, PendingInv, NEW d \in Devices, NEW f \in Files,
         Calm(d, f), UserResolve(d, f)
  PROVE  KindsInv'
<1> DEFINE t == [disk[d] EXCEPT ![f] = @ \ Marks]
<1>1. /\ disk' = [disk EXCEPT ![d] = t]
      /\ UNCHANGED <<log, dev, dag, cursor, round, running, emitted>>
  BY DEF UserResolve, Save, KindsInv, history
<1>2. round[d] = NoRound /\ hasConflictMarkers(disk[d][f])
  BY DEF UserResolve, Calm
<1>3. t \in [Files -> SUBSET Pairs] /\ \A x \in Files \ {f} : t[x] = disk[d][x]
  BY KindsHere
<1> HIDE DEF t
<1>4. KeepsRedone(dev[d], disk[d])
  BY KindsHere DEF IsDev
<1>5. \A op \in ToSet(dev[d].ops) : ~ Redone(dev[d].reg, f, op)
  BY <1>2, <1>4 DEF KeepsRedone
<1>6. KeepsRedone(dev[d], t) /\ (GuardsRedone(dev[d], disk[d]) => GuardsRedone(dev[d], t))
  BY <1>3, <1>4, <1>5 DEF KeepsRedone, GuardsRedone
<1>7. IsDevice(All, Len(log), d, t, dev[d], dag[d], cursor[d], round[d], running'[d])
  BY <1>1, <1>2, <1>3, <1>6, KindsHere DEF IsDevice, IsDev, IsRound
<1>8. Moves(d, t, dev[d], dag[d], cursor[d], round[d])
  BY <1>1, KindsHere DEF Moves
<1> QED BY <1>1, <1>7, <1>8, SilentStep

----------------------------------------------------------------------------
(* Captures *)

\* A step that records ops, and leaves texts t.
LEMMA WritingStep ==
  ASSUME KindsInv, PendingInv, NEW d \in Devices, NEW t \in [Files -> SUBSET Pairs], NEW w, NEW r,
         Moves(d, t, w, dag[d], cursor[d], r),
         log' = log, emitted' = emitted \cup ToSet(w.ops),
         AreOps(All \cup ToSet(w.ops)), IsDev(All \cup ToSet(w.ops), d, t, w),
         \A op \in ToSet(w.ops) \ ToSet(dev[d].ops) : op.id[1] = "op" => op.id[3] = d,
         running'[d] /\ ~ Flushing(r) => GuardsRedone(w, t),
         IsRound(All \cup ToSet(w.ops), Len(log), d, t, r, w)
  PROVE  KindsInv'
<1> DEFINE M == ToSet(w.ops)
<1>1. \A op \in M \ All : op.id[1] = "op" => op.id[3] = d
  BY KindsHere DEF IsDev
<1>2. IsGraph(All \cup M, dag[d])
  BY KindsHere DEF IsGraph
<1> HIDE DEF M
<1>3. IsDevice(All \cup M, Len(log'), d, t, w, dag[d], cursor[d], r, running'[d])
  BY <1>2, KindsHere DEF IsDevice, M
<1>4. /\ Len(log) \in Nat /\ Len(log') \in Nat /\ Len(log) <= Len(log')
      /\ ToSet(log') \subseteq All \cup M /\ AreOps(All \cup M) /\ emitted' = emitted \cup M
  BY KindsHere DEF M
<1> QED BY <1>1, <1>3, <1>4, KindsStep

\* A step that records ops of the files on the disk.
LEMMA RecordingStep ==
  ASSUME KindsInv, PendingInv, NEW d \in Devices, NEW w, NEW r,
         Moves(d, disk[d], w, dag[d], cursor[d], r),
         log' = log, emitted' = emitted \cup ToSet(w.ops),
         AreOps(All \cup ToSet(w.ops)), IsDev(All \cup ToSet(w.ops), d, disk[d], w),
         \A op \in ToSet(w.ops) \ ToSet(dev[d].ops) : op.id[1] = "op" => op.id[3] = d,
         running'[d] /\ ~ Flushing(r) => GuardsRedone(w, disk[d]),
         IsRound(All \cup ToSet(w.ops), Len(log), d, disk[d], r, w)
  PROVE  KindsInv'
<1>1. disk[d] \in [Files -> SUBSET Pairs]
  BY KindsHere
<1> QED BY <1>1, WritingStep

LEMMA DebounceKinds ==
  ASSUME KindsInv, PendingInv, NEW d \in Devices, NEW f \in Files,
         round[d] = NoRound, DebounceFires(d, f)
  PROVE  KindsInv'
<1> DEFINE w == recorded(dev[d], d, f, "flush")
<1>1. GuardsRedone(dev[d], disk[d])
  BY KindsHere DEF DebounceFires, Listening, Flushing
<1>2. IsText(disk[d][f])
  BY KindsHere DEF IsText
<1>3. Records(All, d, "flush", dev[d], w, {f})
  <2> HIDE DEF w
  <2>1. AreOps(All) /\ IsDev(All, d, disk[d], dev[d])
    BY KindsHere
  <2> QED BY <1>1, <1>2, <2>1, OneRecords DEF w
<1>4. Moves(d, disk[d], w, dag[d], cursor[d], round[d]) /\ log' = log
      /\ emitted' = emitted \cup ToSet(w.ops) /\ running' = running
  BY KindsHere DEF DebounceFires, Moves, recorded
<1> HIDE DEF w
<1>5. /\ AreOps(All \cup ToSet(w.ops)) /\ IsDev(All \cup ToSet(w.ops), d, disk[d], w)
      /\ \A op \in ToSet(w.ops) \ ToSet(dev[d].ops) : op.id[1] = "op" => op.id[3] = d
      /\ GuardsRedone(w, disk[d])
  BY <1>1, <1>3 DEF Records
<1>6. IsRound(All \cup ToSet(w.ops), Len(log), d, disk[d], round[d], w)
  BY DEF IsRound
<1> QED BY <1>4, <1>5, <1>6, RecordingStep

LEMMA BeginRoundKinds ==
  ASSUME KindsInv, PendingInv, NEW d \in Devices, BeginRound(d)
  PROVE  KindsInv'
<1> DEFINE v == FlushFiles(dev[d], d, armed[d])
           w == CaptureFiles(v, d, Files)
           r == [phase |-> "captured"]
<1>1. Moves(d, disk[d], w, dag[d], cursor[d], r) /\ log' = log
      /\ emitted' = emitted \cup ToSet(w.ops) /\ running' = running
  BY KindsHere DEF BeginRound, Moves
<1>2. GuardsRedone(dev[d], disk[d])
  BY KindsHere DEF BeginRound, CanSync, Flushing
<1>3. \A f \in Files : IsText(disk[d][f])
  BY KindsHere DEF IsText
<1>4. Records(All, d, "flush", dev[d], v, armed[d])
  <2>1. armed[d] \in SUBSET Files
    BY DEF PendingInv
  <2>2. AreOps(All) /\ IsDev(All, d, disk[d], dev[d]) /\ \A f \in armed[d] : IsText(disk[d][f])
    BY <1>3, <2>1, KindsHere
  <2> QED BY <1>2, <2>1, <2>2, FilesRecords DEF FlushFiles
<1> HIDE DEF v
<1>5. AreOps(All \cup ToSet(v.ops)) /\ IsDev(All \cup ToSet(v.ops), d, disk[d], v)
      /\ GuardsRedone(v, disk[d])
  BY <1>2, <1>4 DEF Records
<1>6. Records(All \cup ToSet(v.ops), d, "scan", v, w, Files)
  BY <1>3, <1>5, FilesRecords DEF CaptureFiles
<1> HIDE DEF w, r
<1>7. (All \cup ToSet(v.ops)) \cup ToSet(w.ops) = All \cup ToSet(w.ops)
  BY <1>6 DEF Records
<1>8. /\ AreOps(All \cup ToSet(w.ops)) /\ IsDev(All \cup ToSet(w.ops), d, disk[d], w)
      /\ GuardsRedone(w, disk[d])
  BY <1>5, <1>6, <1>7 DEF Records
<1>9. \A op \in ToSet(w.ops) \ ToSet(dev[d].ops) : op.id[1] = "op" => op.id[3] = d
  BY <1>4, <1>6 DEF Records
<1>10. IsRound(All \cup ToSet(w.ops), Len(log), d, disk[d], r, w)
  BY DEF IsRound, r
<1> QED BY <1>1, <1>8, <1>9, <1>10, RecordingStep

LEMMA StartKinds ==
  ASSUME KindsInv, PendingInv, NEW d \in Devices, Start(d)
  PROVE  KindsInv'
<1> DEFINE w == CaptureFiles(dev[d], d, Files)
<1>1. Moves(d, disk[d], w, dag[d], cursor[d], round[d]) /\ log' = log
      /\ emitted' = emitted \cup ToSet(w.ops)
  BY KindsHere DEF Start, Moves, PendingInv
<1>2. round[d] = NoRound
  BY DEF Start, PendingInv, RoundOf
<1>3. Records(All, d, "scan", dev[d], w, Files)
  <2>1. \A f \in Files : IsText(disk[d][f])
    BY KindsHere DEF IsText
  <2>2. AreOps(All) /\ IsDev(All, d, disk[d], dev[d])
    BY KindsHere
  <2> QED BY <2>1, <2>2, FilesRecords DEF CaptureFiles
<1> HIDE DEF w
<1>4. /\ AreOps(All \cup ToSet(w.ops)) /\ IsDev(All \cup ToSet(w.ops), d, disk[d], w)
      /\ \A op \in ToSet(w.ops) \ ToSet(dev[d].ops) : op.id[1] = "op" => op.id[3] = d
      /\ \A f \in Files : w.reg[f].hash = disk[d][f]
  BY <1>3 DEF Records
<1>5. GuardsRedone(w, disk[d])
  BY <1>4 DEF GuardsRedone, IsDev, KeepsRedone
<1>6. IsRound(All \cup ToSet(w.ops), Len(log), d, disk[d], round[d], w)
  BY <1>2 DEF IsRound
<1> QED BY <1>1, <1>4, <1>5, <1>6, RecordingStep

----------------------------------------------------------------------------
(* Pull, push, failed rounds, crashes *)

\* A step that records nothing, but may send ops to the server.
LEMMA SendingStep ==
  ASSUME KindsInv, PendingInv, NEW d \in Devices, NEW t, NEW v, NEW g, NEW c, NEW r,
         Moves(d, t, v, g, c, r), emitted' = emitted,
         Len(log') \in Nat, Len(log) <= Len(log'), ToSet(log') \subseteq All,
         IsDevice(All, Len(log'), d, t, v, g, c, r, running'[d])
  PROVE  KindsInv'
<1>1. /\ emitted' = emitted \cup {} /\ All \cup {} = All
      /\ \A op \in {} \ All : op.id[1] = "op" => op.id[3] = d
  OBVIOUS
<1>2. Len(log) \in Nat /\ ToSet(log') \subseteq All \cup {} /\ AreOps(All \cup {})
  BY KindsHere
<1>3. IsDevice(All \cup {}, Len(log'), d, t, v, g, c, r, running'[d])
  BY <1>1
<1> QED BY <1>1, <1>2, <1>3, KindsStep

\* The entries of a snapshot.
LEMMA SnapKinds ==
  ASSUME KindsInv, PendingInv, NEW d \in Devices
  PROVE  IsSnap(All, SnapshotOf(d))
<1>1. IsReg(All, dev[d].reg) /\ \A f \in Files : IsText(disk[d][f])
  BY KindsHere DEF IsDev, IsText
<1>2. ASSUME NEW f \in DOMAIN SnapshotOf(d) PROVE f \in Files /\ IsEntry(All, f, SnapshotOf(d)[f])
  <2>1. f \in Files /\ SnapshotOf(d)[f] = [dev[d].reg[f] EXCEPT !.hash = disk[d][f]]
    BY DEF SnapshotOf
  <2>2. IsEntry(All, f, dev[d].reg[f]) /\ IsText(disk[d][f])
    BY <1>1, <2>1 DEF IsReg
  <2> QED BY <2>1, <2>2 DEF IsEntry
<1> QED BY <1>2 DEF IsSnap

LEMMA PullKinds ==
  ASSUME KindsInv, PendingInv, NEW d \in Devices, Pull(d)
  PROVE  KindsInv'
<1>1. PICK missing : round' = [round EXCEPT ![d] =
          [phase |-> IF dev[d].ops = <<>> THEN "merge" ELSE "push",
           snap |-> SnapshotOf(d), ops |-> dev[d].ops, clock |-> dev[d].clock,
           start |-> StartCursor(d), pulled |-> SubSeq(log, StartCursor(d) + 1, Len(log)),
           missing |-> missing]]
  BY DEF Pull
<1> DEFINE n == StartCursor(d)
           r == [phase |-> IF dev[d].ops = <<>> THEN "merge" ELSE "push",
                 snap |-> SnapshotOf(d), ops |-> dev[d].ops, clock |-> dev[d].clock,
                 start |-> n, pulled |-> SubSeq(log, n + 1, Len(log)),
                 missing |-> missing]
<1>2. Moves(d, disk[d], dev[d], dag[d], n, r) /\ UNCHANGED <<log, running, emitted>>
  BY <1>1, KindsHere DEF Pull, Moves
<1>3. n \in 0..Len(log)
  BY KindsHere DEF StartCursor
<1>4. IsPull(All, Len(log), r)
  <2>1. IsSeq(log) /\ n + 1 \in Nat /\ Len(log) \in Nat /\ n + 1 >= 1 /\ Len(log) <= Len(log)
    BY <1>3, KindsHere
  <2> HIDE DEF n
  <2>2. /\ IsSeq(r.pulled) /\ ToSet(r.pulled) \subseteq ToSet(log)
        /\ Len(r.pulled) = IF n + 1 <= Len(log) THEN Len(log) - (n + 1) + 1 ELSE 0
    BY <2>1, SubMembers
  <2> QED BY <1>3, <2>1, <2>2, KindsHere DEF IsPull
<1>5. IsSnap(All, r.snap) /\ IsSeq(r.ops) /\ ToSet(r.ops) \subseteq All
  BY SnapKinds, KindsHere DEF IsDev, Kept
<1>6. /\ DOMAIN r = {"phase", "snap", "ops", "clock", "start", "pulled", "missing"}
      /\ r.clock = dev[d].clock /\ r.phase \in {"push", "merge"}
  OBVIOUS
<1> HIDE DEF n, r
<1>7. IsRound(All, Len(log), d, disk[d], r, dev[d])
  BY <1>4, <1>5, <1>6 DEF IsRound, Pushes
<1>8. IsDevice(All, Len(log), d, disk[d], dev[d], dag[d], n, r, running'[d])
  <2>1. ~ Flushing(round[d]) /\ running' = running
    BY <1>2 DEF Pull, InPhase, Flushing
  <2> QED BY <1>3, <1>7, <2>1, KindsHere DEF IsDevice
<1> QED BY <1>2, <1>8, SilentStep

\* What a device has when nothing is pending.
LEMMA NothingPending ==
  ASSUME NEW E, NEW d, NEW t, NEW v, IsDev(E, d, t, v), NEW w, w = [v EXCEPT !.ops = <<>>]
  PROVE  IsDev(E, d, t, w) /\ GuardsRedone(w, t) /\ w.clock = v.clock /\ w.reg = v.reg
<1>1. /\ DOMAIN w = DOMAIN v /\ w.ops = <<>> /\ w.reg = v.reg /\ w.clock = v.clock
  BY DEF IsDev, Kept
<1>2. ToSet(w.ops) = {} /\ IsSeq(w.ops) /\ DOMAIN w.ops = {}
  BY <1>1, NoMembers, ShortSeqs
<1> QED BY <1>1, <1>2 DEF IsDev, Kept, DistinctIds, KeepsRedone, GuardsRedone

LEMMA PushKinds ==
  ASSUME KindsInv, PendingInv, NEW d \in Devices, Push(d)
  PROVE  KindsInv'
<1> DEFINE w == [dev[d] EXCEPT !.ops = <<>>]
           r == [round[d] EXCEPT !.phase = "merge"]
<1>1. Moves(d, disk[d], w, dag[d], cursor[d], r) /\ UNCHANGED <<running, emitted>>
  BY KindsHere DEF Push, Moves, history
<1>2. Pushes(All, Len(log), round[d], dev[d]) /\ "phase" \in DOMAIN round[d]
  BY KindsHere DEF Push, InPhase, IsRound
<1>3. /\ Len(log) \in Nat /\ Len(log') \in Nat /\ Len(log) <= Len(log')
      /\ ToSet(log') \subseteq All
  <2>1. IsSeq(log) /\ IsSeq(round[d].ops)
    BY <1>2, KindsHere DEF Pushes
  <2>2. log' = AppendOps(round[d].ops)
    BY DEF Push
  <2>3. /\ ToSet(log') \subseteq ToSet(log) \cup ToSet(round[d].ops)
        /\ Len(log) \in Nat /\ Len(log') \in Nat /\ Len(log) <= Len(log')
    BY <2>1, <2>2, AppendOpsMembers
  <2> QED BY <1>2, <2>3, KindsHere DEF Pushes
<1>4. /\ DOMAIN r = DOMAIN round[d] /\ r.phase = "merge" /\ r.snap = round[d].snap
      /\ r.ops = round[d].ops /\ r.clock = round[d].clock /\ r.start = round[d].start
      /\ r.pulled = round[d].pulled
  BY <1>2 DEF Pushes
<1>5. IsDev(All, d, disk[d], w) /\ GuardsRedone(w, disk[d]) /\ w.clock = dev[d].clock
  BY KindsHere, NothingPending
<1> HIDE DEF w, r
<1>6. Pushes(All, Len(log'), r, w)
  <2>1. IsPull(All, Len(log), r)
    BY <1>2, <1>4 DEF Pushes, IsPull
  <2>2. IsPull(All, Len(log'), r)
    BY <1>3, <2>1, PullGrows
  <2> QED BY <1>2, <1>4, <1>5, <2>2 DEF Pushes
<1>7. IsRound(All, Len(log'), d, disk[d], r, w)
  BY <1>2, <1>4, <1>6 DEF IsRound
<1>8. IsDevice(All, Len(log'), d, disk[d], w, dag[d], cursor[d], r, running'[d])
  BY <1>3, <1>5, <1>7, KindsHere DEF IsDevice
<1> QED BY <1>1, <1>3, <1>8, SendingStep

LEMMA RoundFailsKinds ==
  ASSUME KindsInv, PendingInv, NEW d \in Devices, RoundFails(d)
  PROVE  KindsInv'
<1>1. Moves(d, disk[d], dev[d], dag[d], cursor[d], NoRound) /\ UNCHANGED <<running, emitted>>
  BY KindsHere DEF RoundFails, Moves
<1>2. /\ Len(log) \in Nat /\ Len(log') \in Nat /\ Len(log) <= Len(log')
      /\ ToSet(log') \subseteq All
  <2>1. CASE log' = log
    BY <2>1, KindsHere
  <2>2. CASE InPhase(d, "push") /\ \E k \in 0..Len(round[d].ops) :
                                      log' = AppendOps(SubSeq(round[d].ops, 1, k))
    <3>1. PICK k \in 0..Len(round[d].ops) : log' = AppendOps(SubSeq(round[d].ops, 1, k))
      BY <2>2
    <3>2. Pushes(All, Len(log), round[d], dev[d]) /\ IsSeq(round[d].ops)
      BY <2>2, KindsHere DEF InPhase, IsRound, Pushes
    <3>3. Len(round[d].ops) \in Nat
      BY <3>2 DEF IsSeq
    <3>4. k \in Nat /\ 1 \in Nat /\ 1 >= 1 /\ k <= Len(round[d].ops)
      BY <3>1, <3>3
    <3>5. /\ IsSeq(SubSeq(round[d].ops, 1, k))
          /\ ToSet(SubSeq(round[d].ops, 1, k)) \subseteq ToSet(round[d].ops)
      BY <3>2, <3>4, SubMembers
    <3>6. /\ ToSet(log') \subseteq ToSet(log) \cup ToSet(SubSeq(round[d].ops, 1, k))
          /\ Len(log) \in Nat /\ Len(log') \in Nat /\ Len(log) <= Len(log')
      BY <3>1, <3>5, KindsHere, AppendOpsMembers
    <3> QED BY <3>2, <3>5, <3>6, KindsHere DEF Pushes
  <2> QED BY <2>1, <2>2 DEF RoundFails
<1>3. ~ Flushing(round[d])
  BY DEF RoundFails, InPhase, Flushing
<1>4. IsDevice(All, Len(log'), d, disk[d], dev[d], dag[d], cursor[d], NoRound, running'[d])
  BY <1>1, <1>2, <1>3, KindsHere DEF IsDevice, IsRound
<1> QED BY <1>1, <1>2, <1>4, SendingStep

LEMMA CrashKinds ==
  ASSUME KindsInv, PendingInv, NEW d \in Devices, Crash(d)
  PROVE  KindsInv'
<1>1. Moves(d, disk[d], dev[d], dag[d], cursor[d], NoRound) /\ UNCHANGED <<log, emitted>>
      /\ running'[d] = FALSE
  BY KindsHere DEF Crash, Moves, PendingInv
<1>2. IsDevice(All, Len(log), d, disk[d], dev[d], dag[d], cursor[d], NoRound, running'[d])
  BY <1>1, KindsHere DEF IsDevice, IsRound
<1> QED BY <1>1, <1>2, SilentStep

LEMMA GraphLostKinds ==
  ASSUME KindsInv, PendingInv, NEW d \in Devices, GraphLost(d)
  PROVE  KindsInv'
<1>1. Moves(d, disk[d], dev[d], EmptyDag, cursor[d], round[d])
      /\ UNCHANGED <<log, emitted, running>>
  BY KindsHere DEF GraphLost, Moves
<1>2. IsGraph(All, EmptyDag)
  <2>1. DOMAIN EmptyDag = {}
    BY DEF EmptyDag
  <2> QED BY <2>1, FS_EmptySet DEF IsGraph
<1>3. IsDevice(All, Len(log), d, disk[d], dev[d], EmptyDag, cursor[d], round[d], running'[d])
  BY <1>1, <1>2, KindsHere DEF IsDevice
<1> QED BY <1>1, <1>3, SilentStep

----------------------------------------------------------------------------
(* Greatest members *)

\* A finite set has a member that no other is above, in any strict order R.
LEMMA FiniteTop ==
  ASSUME NEW S, IsFiniteSet(S), S # {}, NEW R,
         \A x, y, z \in S : <<x, y>> \in R /\ <<y, z>> \in R => <<x, z>> \in R,
         \A x \in S : <<x, x>> \notin R
  PROVE  \E x \in S : \A y \in S : <<y, x>> \notin R
<1> DEFINE above(x) == {y \in S : <<y, x>> \in R}
           sizes == {Cardinality(above(x)) : x \in S}
<1>1. \A x \in S : IsFiniteSet(above(x)) /\ Cardinality(above(x)) \in Nat
  BY FS_Subset, FS_CardinalityType
<1>6. \A x, y \in S : (y \in above(x) <=> <<y, x>> \in R) /\ above(x) \subseteq S
  OBVIOUS
<1> HIDE DEF above
<1>2. sizes \in SUBSET Nat /\ sizes # {}
  BY <1>1
<1> HIDE DEF sizes
<1>3. PICK n \in sizes : \A m \in sizes : n <= m
  BY <1>2, LeastNat
<1> USE DEF sizes
<1>4. PICK x \in S : n = Cardinality(above(x))
  OBVIOUS
<1>5. ASSUME NEW y \in S, <<y, x>> \in R PROVE FALSE
  <2>1. above(y) \subseteq above(x) /\ y \in above(x) /\ y \notin above(y)
    BY <1>5, <1>6
  <2>2. Cardinality(above(x)) <= Cardinality(above(y))
    BY <1>3, <1>4
  <2>3. Cardinality(above(y)) <= Cardinality(above(x))
        /\ (Cardinality(above(y)) = Cardinality(above(x)) => above(y) = above(x))
    BY <1>1, <2>1, FS_Subset
  <2>4. Cardinality(above(y)) = Cardinality(above(x))
    BY <1>1, <2>2, <2>3
  <2> QED BY <2>1, <2>3, <2>4
<1> QED BY <1>5

LEMMA MaxOf ==
  ASSUME NEW S \in SUBSET Nat, IsFiniteSet(S), S # {}
  PROVE  Max(S) \in S /\ \A y \in S : y <= Max(S)
<1> DEFINE R == {p \in S \X S : p[1] > p[2]}
<1>1. \A x, y \in S : <<x, y>> \in R <=> x > y
  OBVIOUS
<1>2. /\ \A x, y, z \in S : <<x, y>> \in R /\ <<y, z>> \in R => <<x, z>> \in R
      /\ \A x \in S : <<x, x>> \notin R
  BY <1>1
<1> HIDE DEF R
<1>3. PICK x \in S : \A y \in S : <<y, x>> \notin R
  BY <1>2, FiniteTop
<1>4. ASSUME NEW y \in S PROVE x >= y
  <2>1. x \in Nat /\ y \in Nat /\ ~ (y > x)
    BY <1>1, <1>3
  <2> QED BY <2>1
<1>5. Max(S) \in S /\ \A y \in S : Max(S) >= y
  BY <1>4 DEF Max
<1> QED BY <1>5

Later(a, i, b, j) ==
    \/ a[1] > b[1]
    \/ a[1] = b[1] /\ a[2] > b[2]
    \/ a = b /\ i < j

LEMMA LaterOrder ==
  /\ \A a, b, c \in Nat \X Nat : \A i, j, k \in Nat :
        Later(a, i, b, j) /\ Later(b, j, c, k) => Later(a, i, c, k)
  /\ \A a \in Nat \X Nat : \A i \in Nat : ~ Later(a, i, a, i)
  /\ \A a, b \in Nat \X Nat : \A i, j \in Nat :
        ~ Later(b, j, a, i) => AtLeast(a, b) /\ (a = b => i <= j)
<1>1. \A a, b \in Nat \X Nat : a = b <=> a[1] = b[1] /\ a[2] = b[2]
  OBVIOUS
<1>2. \A a \in Nat \X Nat : a[1] \in Nat /\ a[2] \in Nat
  OBVIOUS
<1>3. ASSUME NEW a \in Nat \X Nat, NEW b \in Nat \X Nat, NEW c \in Nat \X Nat,
             NEW i \in Nat, NEW j \in Nat, NEW k \in Nat,
             Later(a, i, b, j), Later(b, j, c, k)
      PROVE  Later(a, i, c, k)
  BY <1>2, <1>3 DEF Later
<1>4. \A a \in Nat \X Nat : \A i \in Nat : ~ Later(a, i, a, i)
  BY <1>2 DEF Later
<1>5. ASSUME NEW a \in Nat \X Nat, NEW b \in Nat \X Nat, NEW i \in Nat, NEW j \in Nat,
             ~ Later(b, j, a, i)
      PROVE  AtLeast(a, b) /\ (a = b => i <= j)
  BY <1>2, <1>5 DEF Later, AtLeast
<1> QED BY <1>3, <1>4, <1>5

\* The entry that the pulled ops project for a file is made of one of its ops.
LEMMA RemoteKinds ==
  ASSUME NEW E, AreOps(E), NEW ops, IsSeq(ops), ToSet(ops) \subseteq E, NEW d, NEW f
  PROVE  \/ RemoteEntry(d, ops, f) = NoEntry
         \/ \E x : /\ IsText(x.hash) /\ x.head \in Versions(E, f)
                   /\ RemoteEntry(d, ops, f) = Entry(f, x)
<1> DEFINE F == Foreign(d, ops, f)
           R == {p \in F \X F : Later(ops[p[1]].hlc, p[1], ops[p[2]].hlc, p[2])}
<1> SUFFICES ASSUME F # {}
             PROVE  \E x : /\ IsText(x.hash) /\ x.head \in Versions(E, f)
                           /\ RemoteEntry(d, ops, f) = Entry(f, x)
  BY DEF RemoteEntry
<1>1. DOMAIN ops = 1..Len(ops) /\ Len(ops) \in Nat
  BY DEF IsSeq
<1>2. F \in SUBSET Nat /\ F \subseteq 1..Len(ops) /\ \A i \in F : ops[i].file = f
  BY <1>1 DEF Foreign
<1>3. IsFiniteSet(F)
  <2>1. IsFiniteSet(1..Len(ops))
    BY <1>1, FS_Interval
  <2> HIDE DEF F
  <2> QED BY <1>2, <2>1, FS_Subset
<1>4. \A i \in F : ops[i] \in E /\ IsOp(E, ops[i])
  BY <1>1, <1>2 DEF ToSet, AreOps
<1>5. \A i \in F : ops[i].hlc \in Nat \X Nat
  BY <1>4, DevicesAssumption DEF IsOp
<1> HIDE DEF F
<1>6. \A i, j \in F : <<i, j>> \in R <=> Later(ops[i].hlc, i, ops[j].hlc, j)
  OBVIOUS
<1> HIDE DEF R
<1>7. /\ \A x, y, z \in F : <<x, y>> \in R /\ <<y, z>> \in R => <<x, z>> \in R
      /\ \A x \in F : <<x, x>> \notin R
  <2>1. ASSUME NEW x \in F, NEW y \in F, NEW z \in F, <<x, y>> \in R, <<y, z>> \in R
        PROVE  <<x, z>> \in R
    <3>1. Later(ops[x].hlc, x, ops[y].hlc, y) /\ Later(ops[y].hlc, y, ops[z].hlc, z)
      BY <1>6, <2>1
    <3>2. x \in Nat /\ y \in Nat /\ z \in Nat
      BY <1>2
    <3>3. ops[x].hlc \in Nat \X Nat /\ ops[y].hlc \in Nat \X Nat /\ ops[z].hlc \in Nat \X Nat
      BY <1>5
    <3> DEFINE a == ops[x].hlc
               b == ops[y].hlc
               c == ops[z].hlc
    <3>4. Later(a, x, c, z)
      <4>1. /\ a \in Nat \X Nat /\ b \in Nat \X Nat /\ c \in Nat \X Nat
            /\ Later(a, x, b, y) /\ Later(b, y, c, z)
        BY <3>1, <3>3
      <4> HIDE DEF a, b, c
      <4>2. \A i, j, k \in Nat : Later(a, i, b, j) /\ Later(b, j, c, k) => Later(a, i, c, k)
        BY <4>1, LaterOrder
      <4> QED BY <3>2, <4>1, <4>2
    <3> QED BY <1>6, <3>4
  <2>2. \A x \in F : <<x, x>> \notin R
    BY <1>2, <1>5, <1>6, LaterOrder
  <2> QED BY <2>1, <2>2
<1>8. PICK i \in F : \A j \in F : <<j, i>> \notin R
  BY <1>3, <1>7, FiniteTop
<1>9. ASSUME NEW j \in F
      PROVE  AtLeast(ops[i].hlc, ops[j].hlc) /\ (ops[i].hlc = ops[j].hlc => i <= j)
  <2>1. ~ Later(ops[j].hlc, j, ops[i].hlc, i)
    BY <1>6, <1>8
  <2>2. i \in Nat /\ j \in Nat /\ ops[i].hlc \in Nat \X Nat /\ ops[j].hlc \in Nat \X Nat
    BY <1>2, <1>5
  <2> QED BY <2>1, <2>2, LaterOrder
<1> DEFINE best == CHOOSE k \in F : \A j \in F :
                      /\ AtLeast(ops[k].hlc, ops[j].hlc)
                      /\ ops[k].hlc = ops[j].hlc => k <= j
           x == [hash |-> ops[best].hash, hlc |-> ops[best].hlc, head |-> ops[best].id,
                 conf |-> {}]
<1>10. best \in F
  BY <1>9
<1>11. RemoteEntry(d, ops, f) = Entry(f, x)
  BY DEF RemoteEntry, F
<1> HIDE DEF best
<1>12. IsText(x.hash) /\ x.head \in Versions(E, f)
  BY <1>2, <1>4, <1>10 DEF Versions, IsOp
<1> HIDE DEF x
<1> QED BY <1>11, <1>12

LEMMA LatestKinds ==
  ASSUME NEW E, AreOps(E), NEW ops, IsSeq(ops), ToSet(ops) \subseteq E, NEW d
  PROVE  LatestTime(d, ops) \in Nat
<1> DEFINE F == {j \in DOMAIN ops : ops[j].hlc[2] # d}
           first == [i \in F |-> ops[i].hlc[1]]
           T == {ops[i].hlc[1] : i \in F}
<1>1. IsFiniteSet(F)
  <2>1. DOMAIN ops = 1..Len(ops) /\ Len(ops) \in Nat
    BY DEF IsSeq
  <2>2. IsFiniteSet(1..Len(ops))
    BY <2>1, FS_Interval
  <2> QED BY <2>1, <2>2, FS_Subset
<1>2. IsFiniteSet(T)
  <2>1. first \in Surjection(F, T)
    BY DEF Surjection
  <2> HIDE DEF F, T, first
  <2> QED BY <1>1, <2>1, FS_Surjection
<1>3. T \subseteq Nat
  <2>1. \A i \in F : IsOp(E, ops[i])
    BY DEF ToSet, AreOps
  <2> QED BY <2>1 DEF IsOp
<1>4. LatestTime(d, ops) = Max({0} \cup T)
  BY DEF LatestTime
<1> HIDE DEF T, F
<1>5. {0} \cup T \in SUBSET Nat /\ IsFiniteSet({0} \cup T) /\ {0} \cup T # {}
  <2>1. IsFiniteSet({0})
    BY FS_Singleton
  <2>2. IsFiniteSet({0} \cup T)
    BY <1>2, <2>1, FS_Union
  <2>3. \A y \in {0} \cup T : y \in Nat
    BY <1>3
  <2> QED BY <2>2, <2>3
<1>6. Max({0} \cup T) \in {0} \cup T
  BY <1>5, MaxOf
<1> QED BY <1>4, <1>5, <1>6

LEMMA MaxOfTwo ==
  ASSUME NEW m \in Nat, NEW n \in Nat
  PROVE  Max({m, n}) \in Nat /\ m <= Max({m, n}) /\ n <= Max({m, n})
<1>1. IsFiniteSet({m, n})
  <2>1. IsFiniteSet({m} \cup {n}) /\ {m} \cup {n} = {m, n}
    BY FS_Singleton, FS_Union
  <2> QED BY <2>1
<1>2. {m, n} \in SUBSET Nat /\ {m, n} # {}
  OBVIOUS
<1>3. Max({m, n}) \in {m, n} /\ \A y \in {m, n} : y <= Max({m, n})
  BY <1>1, <1>2, MaxOf
<1> QED BY <1>3

\* A later clock, and nothing else that matters.
LEMMA ClockMoves ==
  ASSUME NEW E, AreOps(E), NEW d, NEW t, NEW v, IsDev(E, d, t, v), NEW n \in Nat, v.clock <= n,
         NEW w, w = [v EXCEPT !.clock = n]
  PROVE  /\ IsDev(E, d, t, w) /\ w.clock = n /\ w.reg = v.reg /\ w.ops = v.ops
         /\ GuardsRedone(v, t) => GuardsRedone(w, t)
<1>1. DOMAIN w = DOMAIN v /\ w.ops = v.ops /\ w.reg = v.reg /\ w.clock = n
  BY DEF IsDev, Kept
<1>2. StampsUpTo(E, d, n)
  <2>1. ASSUME NEW op \in E, op.id[1] = "op", op.id[3] = d PROVE op.id[2] <= n
    <3>1. op.id[2] <= v.clock /\ v.clock \in Nat
      BY <2>1 DEF IsDev, StampsUpTo
    <3>2. IsOp(E, op)
      BY DEF AreOps
    <3>3. op.id[2] \in Nat
      BY <2>1, <3>2 DEF IsOp, IsEdit, IsMerge
    <3> QED BY <3>1, <3>3
  <2> QED BY <2>1 DEF StampsUpTo
<1> QED BY <1>1, <1>2 DEF IsDev, Kept, KeepsRedone, GuardsRedone

----------------------------------------------------------------------------
(* The merge step *)

LEMMA SnapshotKinds ==
  ASSUME NEW d \in Devices, NEW E, IsReg(E, dev[d].reg), IsSnap(E, round[d].snap), NEW f \in Files
  PROVE  IsEntry(E, f, Snapshot(d)[f])
<1>1. Snapshot(d)[f] = IF f \in DOMAIN round[d].snap THEN round[d].snap[f] ELSE dev[d].reg[f]
  BY DEF Snapshot, LocalState
<1> QED BY <1>1 DEF IsReg, IsSnap

LEMMA ActKinds ==
  ASSUME NullsApart, NEW E, AreOps(E), NEW d \in Devices,
         IsReg(E, dev[d].reg), IsSnap(E, round[d].snap),
         NEW g, IsGraph(E, g), NEW ops, IsSeq(ops), ToSet(ops) \subseteq E,
         NEW f \in Files, NEW missing,
         NEW act, act = MergeAction(d, g, f, Snapshot(d)[f], RemoteEntry(d, ops, f), missing),
         act.type \notin {"no_op", "send_remote"}
  PROVE  IsAct(E, f, act)
<1> DEFINE e == Snapshot(d)[f]
           re == RemoteEntry(d, ops, f)
<1>1. IsEntry(E, f, e)
  BY SnapshotKinds
<1>2. re # NoEntry
  <2>1. SendRemote.type = "send_remote"
    BY DEF SendRemote
  <2> QED BY <2>1 DEF MergeAction
<1>3. PICK x : IsText(x.hash) /\ x.head \in Versions(E, f) /\ re = Entry(f, x)
  BY <1>2, RemoteKinds
<1>4. act = classifyAndResolve(g, Entry(f, e), Entry(f, x), Staged(d, g, e), RemoteStaged(e, re, missing))
  BY <1>2, <1>3 DEF MergeAction
<1> HIDE DEF e, re
<1>5. IsFiniteSet(DOMAIN g) /\ IsText(e.hash) /\ e.head \in Versions(E, f)
  BY <1>1 DEF IsGraph, IsEntry
<1>6. act.type \in {"no_op", "send_remote"} \/ IsAct(E, f, act)
  BY <1>3, <1>4, <1>5, DecisionKinds
<1> QED BY <1>6

LEMMA MergeKinds ==
  ASSUME NullsApart, KindsInv, PendingInv, NEW d \in Devices, Merge(d)
  PROVE  KindsInv'
<1> DEFINE g == GraphWith(d)
           acts == [f \in Files |-> MergeAction(d, g, f, Snapshot(d)[f],
                                       RemoteEntry(d, round[d].pulled, f), round[d].missing)]
           n == Max({round[d].clock, LatestTime(d, round[d].pulled)})
           w == [dev[d] EXCEPT !.clock = n]
           r == [phase |-> "apply", snap |-> round[d].snap, start |-> round[d].start,
                 pulled |-> round[d].pulled, missing |-> round[d].missing, acts |-> acts,
                 todo |-> {f \in Files : acts[f].type \notin {"no_op", "send_remote"}},
                 reg |-> dev[d].reg, blobs |-> {}, minted |-> <<>>, deferred |-> {}]
<1>1. Moves(d, disk[d], w, g, cursor[d], r) /\ UNCHANGED <<log, running, emitted>>
  <2>1. /\ dag' = [dag EXCEPT ![d] = g] /\ UNCHANGED <<log, disk, cursor, running, emitted>>
        /\ dev' = [dev EXCEPT ![d].clock = n]
    BY DEF Merge
  <2>2. dev' = [dev EXCEPT ![d] = w]
    <3> HIDE DEF n
    <3> QED BY <2>1 DEF PendingInv
  <2>3. round' = [round EXCEPT ![d] = r]
    <3> HIDE DEF acts
    <3>1. round' = [round EXCEPT ![d] =
                 [phase |-> "apply", snap |-> @.snap, start |-> @.start, pulled |-> @.pulled,
                  missing |-> @.missing, acts |-> acts,
                  todo |-> {f \in Files : acts[f].type \notin {"no_op", "send_remote"}},
                  reg |-> dev[d].reg, blobs |-> {}, minted |-> <<>>, deferred |-> {}]]
      BY DEF Merge, acts
    <3> QED BY <3>1 DEF PendingInv
  <2> HIDE DEF w, r, g
  <2> QED BY <2>1, <2>2, <2>3, KindsHere DEF Moves
<1>2. Pushes(All, Len(log), round[d], dev[d])
  BY KindsHere DEF Merge, InPhase, IsRound
<1>3. /\ IsSnap(All, round[d].snap) /\ IsPull(All, Len(log), round[d])
      /\ round[d].clock = dev[d].clock /\ IsSeq(round[d].ops) /\ ToSet(round[d].ops) \subseteq All
      /\ IsSeq(round[d].pulled) /\ ToSet(round[d].pulled) \subseteq All
  BY <1>2 DEF Pushes, IsPull
<1>4. /\ AreOps(All) /\ IsDev(All, d, disk[d], dev[d]) /\ IsGraph(All, dag[d])
      /\ IsReg(All, dev[d].reg) /\ dev[d].clock \in Nat
  BY KindsHere DEF IsDev
<1>5. IsGraph(All, g)
  <2>1. /\ IsSeq(round[d].ops \o round[d].pulled)
        /\ ToSet(round[d].ops \o round[d].pulled) = ToSet(round[d].ops) \cup ToSet(round[d].pulled)
    BY <1>3, ConcatMembers
  <2>2. ToSet(round[d].ops \o round[d].pulled) \subseteq All
    BY <1>3, <2>1
  <2> QED BY <1>4, <2>1, <2>2, RecordEdgesGraph DEF GraphWith
<1>6. n \in Nat /\ dev[d].clock <= n
  <2>1. LatestTime(d, round[d].pulled) \in Nat
    BY <1>3, <1>4, LatestKinds
  <2> QED BY <1>3, <1>4, <2>1, MaxOfTwo
<1> HIDE DEF g, n
<1>7. IsDev(All, d, disk[d], w) /\ w.ops = dev[d].ops
  BY <1>4, <1>6, ClockMoves
<1>8. dev[d].ops = <<>>
  BY DEF PendingInv, Merge, InPhase, RoundOf
<1>9. GuardsRedone(w, disk[d])
  <2>1. ToSet(w.ops) = {}
    BY <1>7, <1>8, NoMembers
  <2> QED BY <2>1 DEF GuardsRedone
<1>10. \A f \in r.todo : f \in Files /\ IsAct(All, f, r.acts[f])
  <2> SUFFICES ASSUME NEW f \in Files, acts[f].type \notin {"no_op", "send_remote"}
               PROVE  IsAct(All, f, acts[f])
    OBVIOUS
  <2> DEFINE a == acts[f]
  <2>1. /\ a.type \notin {"no_op", "send_remote"}
        /\ a = MergeAction(d, g, f, Snapshot(d)[f],
                           RemoteEntry(d, round[d].pulled, f), round[d].missing)
    OBVIOUS
  <2> HIDE DEF a
  <2>2. IsAct(All, f, a)
    BY <1>3, <1>4, <1>5, <2>1, ActKinds
  <2> QED BY <2>2 DEF a
<1>11. Applies(All, Len(log), disk[d], r)
  <2>1. IsPull(All, Len(log), r) /\ IsSnap(All, r.snap)
    BY <1>3 DEF IsPull
  <2>2. /\ DOMAIN r = {"phase", "snap", "start", "pulled", "missing", "acts", "todo", "reg",
                       "blobs", "minted", "deferred"}
        /\ r.minted = <<>> /\ r.deferred = {} /\ r.reg = dev[d].reg
    OBVIOUS
  <2> HIDE DEF r
  <2>3. IsSeq(r.minted) /\ DOMAIN r.minted = {} /\ All \cup ToSet(r.minted) = All
    BY <2>2, ShortSeqs, NoMembers
  <2> QED BY <1>4, <1>10, <2>1, <2>2, <2>3 DEF Applies
<1>12. r.phase = "apply" /\ "phase" \in DOMAIN r
  OBVIOUS
<1> HIDE DEF r, w
<1>13. IsDevice(All, Len(log), d, disk[d], w, g, cursor[d], r, running'[d])
  BY <1>5, <1>7, <1>9, <1>11, <1>12, KindsHere DEF IsDevice, IsRound
<1> QED BY <1>1, <1>13, SilentStep

----------------------------------------------------------------------------
(* The applicator: a file is written *)

\* The entry of a file after an action.
LEMMA AdoptedKinds ==
  ASSUME NEW E, NEW E2, E \subseteq E2, NEW d, NEW f, NEW e, IsEntry(E2, f, e),
         NEW act, IsAct(E, f, act), NEW n,
         act.type = "write_merge" => MergeOp(d, f, act.content, n, act.parents) \in E2
  PROVE  /\ IsEntry(E2, f, Adopted(d, e, act, n)) /\ Adopted(d, e, act, n).hash = act.content
         /\ act.type # "conflict" => Adopted(d, e, act, n).conf = {}
<1> DEFINE a == Adopted(d, e, act, n)
<1>1. Versions(E, f) \subseteq Versions(E2, f) /\ IsText(act.content)
  BY VersionsGrow DEF IsAct
<1>2. Cardinality({}) = 0
  BY FS_EmptySet
<1>3. CASE act.type = "write_local"
  <2>1. a = [hash |-> act.content, hlc |-> act.hlc, head |-> act.head, conf |-> {}]
    BY <1>3 DEF Adopted
  <2>2. act.head \in Versions(E2, f)
    BY <1>1, <1>3 DEF IsAct
  <2> QED BY <1>1, <1>2, <2>1, <2>2 DEF IsEntry
<1>4. CASE act.type = "write_merge"
  <2>1. a = [hash |-> act.content, hlc |-> <<n, d>>,
             head |-> <<"merge", act.content, act.parents>>, conf |-> {}]
    BY <1>4 DEF Adopted
  <2>2. <<"merge", act.content, act.parents>> \in Versions(E2, f)
    BY <1>4 DEF Versions, MergeOp
  <2> QED BY <1>1, <1>2, <2>1, <2>2 DEF IsEntry
<1>5. CASE act.type = "conflict"
  <2>1. a = [e EXCEPT !.hash = act.content, !.hlc = <<n, d>>, !.conf = act.parents]
    BY <1>5 DEF Adopted
  <2>2. DOMAIN e = {"hash", "hlc", "head", "conf"} /\ e.head \in Versions(E2, f)
    BY DEF IsEntry
  <2>3. /\ DOMAIN a = DOMAIN e /\ a.hash = act.content /\ a.conf = act.parents /\ a.head = e.head
    BY <2>1, <2>2
  <2>4. act.parents \subseteq Versions(E2, f) /\ Cardinality(act.parents) = 2
    BY <1>1, <1>5 DEF IsAct
  <2> HIDE DEF a
  <2>5. IsEntry(E2, f, a)
    BY <1>1, <2>2, <2>3, <2>4 DEF IsEntry
  <2> QED BY <1>5, <2>3, <2>5 DEF a
<1> QED BY <1>3, <1>4, <1>5 DEF IsAct

LEMMA DeferKinds ==
  ASSUME KindsInv, PendingInv, NEW d \in Devices, NEW f \in Files,
         InPhase(d, "apply"), f \in round[d].todo,
         UNCHANGED <<log, disk, dev, dag, cursor, running, emitted>>,
         round' = [round EXCEPT ![d].todo = @ \ {f}, ![d].deferred = @ \cup {f}]
  PROVE  KindsInv'
<1> DEFINE r == [round[d] EXCEPT !.todo = @ \ {f}, !.deferred = @ \cup {f}]
<1>1. Moves(d, disk[d], dev[d], dag[d], cursor[d], r)
  <2>1. round' = [round EXCEPT ![d] = r]
    BY DEF PendingInv
  <2> HIDE DEF r
  <2> QED BY <2>1, KindsHere DEF Moves
<1>2. Applies(All, Len(log), disk[d], round[d])
  BY KindsHere DEF InPhase, IsRound
<1>3. /\ DOMAIN r = DOMAIN round[d] /\ r.phase = "apply"
      /\ r.todo = round[d].todo \ {f} /\ r.deferred = round[d].deferred \cup {f}
      /\ r.snap = round[d].snap /\ r.start = round[d].start /\ r.pulled = round[d].pulled
      /\ r.acts = round[d].acts /\ r.minted = round[d].minted /\ r.reg = round[d].reg
  BY <1>2 DEF Applies, InPhase
<1> HIDE DEF r
<1>4. \A op : IsMinted(All, disk[d], round[d], op) => IsMinted(All, disk[d], r, op)
  BY <1>3 DEF IsMinted
<1>5. IsPull(All, Len(log), r)
  BY <1>2, <1>3 DEF Applies, IsPull
<1>6. Applies(All, Len(log), disk[d], r)
  <2>1. r.todo \cap r.deferred = {} /\ r.todo \subseteq Files /\ r.deferred \subseteq Files
    BY <1>2, <1>3 DEF Applies
  <2> QED BY <1>2, <1>3, <1>4, <1>5, <2>1 DEF Applies
<1>7. "phase" \in DOMAIN r
  BY <1>2, <1>3 DEF Applies
<1>8. ~ Flushing(round[d])
  BY DEF InPhase, Flushing
<1>9. IsDevice(All, Len(log), d, disk[d], dev[d], dag[d], cursor[d], r, running'[d])
  BY <1>3, <1>6, <1>7, <1>8, KindsHere DEF IsDevice, IsRound
<1> QED BY <1>1, <1>9, SilentStep

LEMMA ApplyKinds ==
  ASSUME NullsApart, KindsInv, PendingInv, NEW d \in Devices, NEW f \in Files,
         ApplyFile(d, f) \/ ApplyThrows(d, f)
  PROVE  KindsInv'
<1>1. CASE ApplyThrows(d, f) \/ (ApplyFile(d, f) /\ Drifted(d, f, Snapshot(d)))
  BY <1>1, DeferKinds DEF ApplyFile, ApplyThrows, history
<1>2. CASE ApplyFile(d, f) /\ ~ Drifted(d, f, Snapshot(d))
  <2> DEFINE act == round[d].acts[f]
             n   == IF act.type = "write_local" THEN dev[d].clock ELSE dev[d].clock + 1
             m   == Minted(d, f, act, n)
             x   == Adopted(d, round[d].reg[f], act, n)
             t   == [disk[d] EXCEPT ![f] = act.content]
             w   == [dev[d] EXCEPT !.clock = n]
             r   == [round[d] EXCEPT !.todo = @ \ {f}, !.blobs = @ \cup {act.content},
                                     !.reg[f] = x, !.minted = @ \o m]
  <2>1. Moves(d, t, w, dag[d], cursor[d], r) /\ UNCHANGED <<log, running, emitted>>
    <3>1. /\ disk' = [disk EXCEPT ![d][f] = act.content] /\ dev' = [dev EXCEPT ![d].clock = n]
          /\ round' = [round EXCEPT ![d] = r]
          /\ UNCHANGED <<log, dag, cursor, running, emitted>>
      BY <1>2 DEF ApplyFile, history
    <3>2. disk' = [disk EXCEPT ![d] = t]
      <4> HIDE DEF act
      <4> QED BY <3>1 DEF KindsInv
    <3>3. dev' = [dev EXCEPT ![d] = w]
      <4> HIDE DEF n
      <4> QED BY <3>1 DEF PendingInv
    <3> HIDE DEF t, w, r
    <3> QED BY <3>1, <3>2, <3>3, KindsHere DEF Moves
  <2>2. InPhase(d, "apply") /\ f \in round[d].todo
    BY <1>2 DEF ApplyFile
  <2>3. Applies(All, Len(log), disk[d], round[d])
    BY <2>2, KindsHere DEF InPhase, IsRound
  <2>4. /\ AreOps(All) /\ IsDev(All, d, disk[d], dev[d]) /\ dev[d].clock \in Nat
        /\ disk[d] \in [Files -> SUBSET Pairs]
    BY KindsHere DEF IsDev
  <2>5. dev[d].ops = <<>> /\ ~ Flushing(round[d])
    BY <2>2 DEF PendingInv, InPhase, RoundOf, Flushing
  <2>6. IsAct(All, f, act)
    BY <2>2, <2>3 DEF Applies
  <2>7. n \in Nat /\ dev[d].clock <= n
    BY <2>4
  <2>8. m = <<>> \/ m = <<MergeOp(d, f, act.content, n, act.parents)>>
    BY DEF Minted
  <2>9. act.type = "write_merge" => m = <<MergeOp(d, f, act.content, n, act.parents)>>
    BY DEF Minted
  <2>10. act.type # "write_merge" => m = <<>>
    BY DEF Minted
  <2> HIDE DEF act, n, m, x
  <2>11. /\ DOMAIN r = DOMAIN round[d] /\ r.phase = "apply" /\ r.snap = round[d].snap
         /\ r.start = round[d].start /\ r.pulled = round[d].pulled /\ r.acts = round[d].acts
         /\ r.todo = round[d].todo \ {f} /\ r.deferred = round[d].deferred
         /\ r.minted = round[d].minted \o m
         /\ r.reg = [round[d].reg EXCEPT ![f] = x]
    BY <2>2, <2>3 DEF Applies, InPhase
  <2>12. t \in [Files -> SUBSET Pairs] /\ t[f] = act.content /\ \A y \in Files \ {f} : t[y] = disk[d][y]
    BY <2>4, <2>6 DEF IsAct, IsText
  <2>13. IsDev(All, d, disk[d], w) /\ w.ops = <<>>
    BY <2>4, <2>5, <2>7, ClockMoves
  <2> HIDE DEF t, w, r
  <2>14. IsDev(All, d, t, w) /\ GuardsRedone(w, t)
    <3>1. ToSet(w.ops) = {}
      BY <2>13, NoMembers
    <3> QED BY <2>13, <3>1 DEF IsDev, KeepsRedone, GuardsRedone
  <2>15. Applies(All, Len(log), t, r)
    <3> DEFINE old == round[d].minted
               op  == MergeOp(d, f, act.content, n, act.parents)
               E2  == All \cup ToSet(r.minted)
    <3>1. /\ IsSeq(old) /\ f \in Files /\ f \notin round[d].deferred
          /\ \A i \in DOMAIN old : IsMinted(All, disk[d], round[d], old[i])
          /\ \A i, j \in DOMAIN old : old[i].file = old[j].file => i = j
          /\ IsReg(All \cup ToSet(old), round[d].reg)
          /\ IsPull(All, Len(log), round[d]) /\ IsSnap(All, round[d].snap)
          /\ round[d].todo \subseteq Files /\ round[d].deferred \subseteq Files
          /\ round[d].todo \cap round[d].deferred = {}
          /\ \A y \in round[d].todo : IsAct(All, y, round[d].acts[y])
      BY <2>2, <2>3 DEF Applies
    <3>2. IsSeq(m) /\ DOMAIN m \subseteq {1} /\ (DOMAIN m # {} => m[1] = op /\ act.type = "write_merge")
          /\ (act.type = "write_merge" => ToSet(m) = {op}) /\ Len(m) \in {0, 1}
      BY <2>8, <2>9, <2>10, ShortSeqs, NoMembers
    <3>3. /\ op.file = f /\ op.hash = act.content /\ op.parents = act.parents
          /\ op.id = <<"merge", op.hash, op.parents>> /\ op.hlc = <<n, d>>
      BY DEF MergeOp
    <3> HIDE DEF old, op
    <3>4. /\ ToSet(r.minted) = ToSet(old) \cup ToSet(m) /\ IsSeq(r.minted)
          /\ Len(old) \in Nat /\ DOMAIN old = 1..Len(old) /\ DOMAIN m = 1..Len(m)
          /\ DOMAIN r.minted = 1..(Len(old) + Len(m))
          /\ \A i \in 1..Len(old) : r.minted[i] = old[i]
          /\ \A i \in 1..Len(m) : r.minted[Len(old) + i] = m[i]
      <4>1. r.minted = old \o m
        BY <2>11 DEF old
      <4>2. IsSeq(old) /\ IsSeq(m)
        BY <3>1, <3>2
      <4> DEFINE both == old \o m
      <4>3. /\ ToSet(both) = ToSet(old) \cup ToSet(m) /\ IsSeq(both)
            /\ Len(old) \in Nat /\ DOMAIN old = 1..Len(old) /\ DOMAIN m = 1..Len(m)
            /\ DOMAIN both = 1..(Len(old) + Len(m))
            /\ \A i \in 1..Len(old) : both[i] = old[i]
            /\ \A i \in 1..Len(m) : both[Len(old) + i] = m[i]
        BY <4>2, ConcatMembers
      <4>4. both = r.minted
        BY <4>1
      <4> HIDE DEF both
      <4> QED BY <4>3, <4>4
    <3> HIDE DEF E2
    <3>5. x = Adopted(d, round[d].reg[f], act, n)
      BY DEF x
    <3>6. /\ IsEntry(E2, f, x) /\ x.hash = act.content
          /\ act.type # "conflict" => x.conf = {}
      <4>1. All \subseteq E2 /\ (act.type = "write_merge" => op \in E2)
        BY <3>2, <3>4 DEF E2
      <4>2. IsEntry(All \cup ToSet(old), f, round[d].reg[f]) /\ All \cup ToSet(old) \subseteq E2
        BY <3>1, <3>4 DEF E2, IsReg
      <4>3. IsEntry(E2, f, round[d].reg[f])
        BY <4>2, EntryGrows
      <4>4. /\ All \subseteq E2 /\ IsEntry(E2, f, round[d].reg[f]) /\ IsAct(All, f, act)
            /\ act.type = "write_merge" => MergeOp(d, f, act.content, n, act.parents) \in E2
        BY <2>6, <4>1, <4>3 DEF op
      <4> HIDE DEF act, n
      <4> DEFINE e == round[d].reg[f]
                 y == Adopted(d, e, act, n)
      <4>5. IsEntry(E2, f, e)
        BY <4>4
      <4> HIDE DEF e
      <4>6. /\ IsEntry(E2, f, y) /\ y.hash = act.content
            /\ act.type # "conflict" => y.conf = {}
        BY <4>4, <4>5, AdoptedKinds
      <4>7. x = y
        BY <3>5 DEF e
      <4> QED BY <4>6, <4>7
    <3>7. DOMAIN round[d].reg = Files /\ r.reg[f] = x /\ r.reg = [y \in Files |-> r.reg[y]]
          /\ \A y \in Files \ {f} : r.reg[y] = round[d].reg[y]
      <4>1. DOMAIN round[d].reg = Files
        BY <3>1 DEF IsReg
      <4> QED BY <2>11, <3>1, <4>1
    <3>8. IsReg(E2, r.reg)
      <4>1. ASSUME NEW y \in Files \ {f} PROVE IsEntry(E2, y, r.reg[y])
        <5>1. IsEntry(All \cup ToSet(old), y, round[d].reg[y]) /\ All \cup ToSet(old) \subseteq E2
          BY <3>1, <3>4 DEF E2, IsReg
        <5> QED BY <3>7, <5>1, EntryGrows
      <4> QED BY <3>6, <3>7, <4>1 DEF IsReg
    <3>9. ASSUME NEW i \in DOMAIN old
          PROVE  IsMinted(All, t, r, old[i]) /\ old[i].file # f
      <4>1. IsMinted(All, disk[d], round[d], old[i]) /\ f \in round[d].todo
        BY <2>2, <3>1
      <4>2. old[i].file \in Files /\ old[i].file # f
        BY <4>1 DEF IsMinted, IsOp
      <4>3. r.reg[old[i].file] = round[d].reg[old[i].file] /\ t[old[i].file] = disk[d][old[i].file]
        BY <2>12, <3>7, <4>2
      <4> QED BY <2>11, <4>1, <4>2, <4>3 DEF IsMinted
    <3>10. ASSUME act.type = "write_merge" PROVE IsMinted(All, t, r, op)
      <4>1. act.parents \subseteq Versions(All, f) /\ act.parents # {} /\ IsText(act.content)
        BY <2>6, <3>10 DEF IsAct
      <4>2. IsMerge(op) /\ IsOp(All, op)
        BY <2>7, <3>1, <3>3, <4>1 DEF IsMerge, IsOp
      <4>3. f \notin r.todo \cup r.deferred /\ r.reg[f].conf = {}
        BY <2>11, <3>1, <3>6, <3>7, <3>10
      <4> QED BY <2>12, <3>3, <4>1, <4>2, <4>3 DEF IsMinted
    <3>11. ASSUME NEW i \in DOMAIN r.minted
           PROVE  /\ IsMinted(All, t, r, r.minted[i])
                  /\ i \in DOMAIN old => r.minted[i] = old[i] /\ r.minted[i].file # f
                  /\ i \notin DOMAIN old => r.minted[i] = op /\ i = Len(old) + 1
      <4>1. CASE i \in DOMAIN old
        BY <3>4, <3>9, <4>1
      <4>2. CASE i \notin DOMAIN old
        <5>1. i = Len(old) + 1 /\ Len(m) = 1
          BY <3>2, <3>4, <4>2
        <5>2. r.minted[i] = op /\ act.type = "write_merge"
          BY <3>2, <3>4, <5>1
        <5> QED BY <3>10, <4>2, <5>1, <5>2
      <4> QED BY <4>1, <4>2
    <3>12. ASSUME NEW i \in DOMAIN r.minted, NEW j \in DOMAIN r.minted,
                  r.minted[i].file = r.minted[j].file
           PROVE  i = j
      BY <3>1, <3>3, <3>11, <3>12
    <3>13. IsPull(All, Len(log), r) /\ IsSnap(All, r.snap)
      BY <2>11, <3>1 DEF IsPull
    <3>14. /\ r.todo \subseteq Files /\ r.deferred \subseteq Files /\ r.todo \cap r.deferred = {}
           /\ \A y \in r.todo : IsAct(All, y, r.acts[y])
      BY <2>11, <3>1
    <3>15. DOMAIN r = {"phase", "snap", "start", "pulled", "missing", "acts", "todo", "reg", "blobs",
                       "minted", "deferred"}
      BY <2>3, <2>11 DEF Applies
    <3> QED BY <3>4, <3>8, <3>11, <3>12, <3>13, <3>14, <3>15 DEF Applies, E2
  <2>16. "phase" \in DOMAIN r
    BY <2>3, <2>11 DEF Applies
  <2>17. IsDevice(All, Len(log), d, t, w, dag[d], cursor[d], r, running'[d])
    BY <2>11, <2>12, <2>14, <2>15, <2>16, KindsHere DEF IsDevice, IsRound
  <2> QED BY <2>1, <2>17, SilentStep
<1> QED BY <1>1, <1>2

----------------------------------------------------------------------------
(* The applicator: the merge nodes are emitted *)

\* Merge nodes over versions there are, one per file.
AreMinted(E, s) ==
    /\ IsSeq(s)
    /\ \A i \in DOMAIN s : /\ IsOp(E, s[i]) /\ IsMerge(s[i]) /\ s[i].parents # {}
                           /\ s[i].parents \subseteq Versions(E, s[i].file)
    /\ \A i, j \in DOMAIN s : s[i].file = s[j].file => i = j

LEMMA MintedKinds ==
  ASSUME NEW E, AreOps(E), NEW s, AreMinted(E, s)
  PROVE  /\ AreOps(E \cup ToSet(s)) /\ DistinctIds(s)
         /\ \A op \in ToSet(s) : op.id[1] # "op"
<1> DEFINE M == ToSet(s)
<1>1. \A op \in M : /\ IsOp(E, op) /\ IsMerge(op) /\ op.parents # {}
                    /\ op.parents \subseteq Versions(E, op.file)
  BY DEF AreMinted, ToSet
<1>2. \A i \in DOMAIN s : s[i] \in M
  BY DEF ToSet
<1> HIDE DEF M
<1>3. ASSUME NEW op \in M, NEW a, IsOp(E, a), a.id = op.id PROVE a.file = op.file
  <2>1. a.id = <<"merge", op.hash, op.parents>> /\ op.parents # {}
        /\ op.parents \subseteq Versions(E, op.file)
    BY <1>1, <1>3 DEF IsMerge
  <2> QED BY <1>3, <2>1, MergeFile
<1>4. \A op \in M : \A a \in E \cup M : a.id = op.id => a.file = op.file
  BY <1>1, <1>3 DEF AreOps
<1>5. AreOps(E \cup M)
  BY <1>1, <1>4, NewOps
<1>6. DistinctIds(s)
  BY <1>1, <1>2, <1>3 DEF DistinctIds, AreMinted
<1>7. \A op \in M : op.id[1] # "op"
  BY <1>1 DEF IsMerge
<1> QED BY <1>5, <1>6, <1>7 DEF M

\* A merge node over the two heads of a file is a node of that file.
LEMMA RedoneFile ==
  ASSUME NEW E, AreOps(E), NEW op, IsOp(E, op), NEW reg, NEW f \in Files, IsEntry(E, f, reg[f]),
         Redone(reg, f, op)
  PROVE  op.file = f
<1>1. /\ op.id = <<"merge", op.hash, reg[f].conf>> /\ reg[f].conf # {}
      /\ reg[f].conf \subseteq Versions(E, f)
  BY DEF Redone, IsEntry
<1> QED BY <1>1, MergeFile

\* A file for which a node was minted has one head.
LEMMA MintedNotRedone ==
  ASSUME NEW E, AreOps(E), NEW s, AreMinted(E, s), NEW reg, IsReg(E \cup ToSet(s), reg),
         \A i \in DOMAIN s : reg[s[i].file].conf = {}
  PROVE  \A op \in ToSet(s), f \in Files : ~ Redone(reg, f, op)
<1> DEFINE E2 == E \cup ToSet(s)
<1>1. AreOps(E2) /\ E \subseteq E2
  BY MintedKinds
<1> SUFFICES ASSUME NEW op \in ToSet(s), NEW f \in Files, Redone(reg, f, op) PROVE FALSE
  OBVIOUS
<1>2. reg[op.file].conf = {} /\ op \in E2
  BY DEF ToSet
<1>3. IsOp(E2, op) /\ IsEntry(E2, f, reg[f])
  BY <1>1, <1>2 DEF AreOps, IsReg
<1> HIDE DEF E2
<1>4. op.file = f
  BY <1>1, <1>3, RedoneFile
<1> QED BY <1>2, <1>4 DEF Redone

\* Nothing is pending; the nodes of minted and the files of S are to be recorded.
Cleared(E, d, v, minted, S) ==
    /\ Kept(v) /\ v.ops = <<>> /\ v.clock \in Nat /\ StampsUpTo(E, d, v.clock)
    /\ AreMinted(E, minted) /\ IsReg(E \cup ToSet(minted), v.reg)
    /\ \A i \in DOMAIN minted : v.reg[minted[i].file].conf = {}
    /\ S \in SUBSET Files /\ \A f \in S : IsText(disk[d][f])

\* They are recorded, and make w of v.
Emits(E, d, v, minted, S, w) ==
    /\ AreOps(E \cup ToSet(w.ops)) /\ IsDev(E \cup ToSet(w.ops), d, disk[d], w)
    /\ GuardsRedone(w, disk[d]) /\ v.clock <= w.clock
    /\ ToSet(minted) \subseteq ToSet(w.ops) /\ \A f \in Files \ S : w.reg[f] = v.reg[f]
    /\ \A op \in ToSet(w.ops) \ ToSet(minted) :
          /\ op.file \in S /\ op.hash = disk[d][op.file]
          /\ op.id[1] = "op" => op.id[3] = d

LEMMA EmitKinds ==
  ASSUME NEW E, AreOps(E), NEW d \in Devices,
         NEW v, NEW minted, NEW S, Cleared(E, d, v, minted, S)
  PROVE  Emits(E, d, v, minted, S, Emit(v, d, minted, S))
<1> USE DEF Cleared
<1> DEFINE w == Emit(v, d, minted, S)
<1> DEFINE u == [v EXCEPT !.ops = @ \o minted]
           E2 == E \cup ToSet(minted)
<1>1. DOMAIN u = DOMAIN v /\ u.reg = v.reg /\ u.clock = v.clock /\ u.ops = v.ops \o minted
  BY DEF Kept
<1>2. IsSeq(u.ops) /\ ToSet(u.ops) = ToSet(minted) /\ DistinctIds(u.ops)
  <2>1. IsSeq(v.ops \o minted) /\ v.ops \o minted = minted
    <3>1. minted \in Seq({minted[i] : i \in DOMAIN minted}) /\ IsSeq(<<>>)
      BY ShortSeqs DEF AreMinted, IsSeq
    <3>2. <<>> \o minted = minted
      BY <3>1
    <3>3. IsSeq(minted)
      BY DEF AreMinted
    <3> QED BY <3>2, <3>3
  <2> QED BY <1>1, <2>1, MintedKinds
<1> HIDE DEF u, w
<1>3. AreOps(E2) /\ IsReg(E2, u.reg)
  BY <1>1, MintedKinds
<1>4. StampsUpTo(E2, d, u.clock)
  BY <1>1, MintedKinds DEF StampsUpTo
<1>5. \A op \in ToSet(u.ops), f \in Files : ~ Redone(u.reg, f, op)
  BY <1>1, <1>2, MintedNotRedone
<1>6. KeepsRedone(u, disk[d]) /\ GuardsRedone(u, disk[d])
  BY <1>5 DEF KeepsRedone, GuardsRedone
<1>7. IsDev(E2, d, disk[d], u)
  BY <1>1, <1>2, <1>3, <1>4, <1>6 DEF IsDev, Kept
<1> HIDE DEF E2
<1>8. w = RecordFiles(u, d, S, "flush")
  BY DEF Emit, FlushFiles, u, w
<1>9. Records(E2, d, "flush", u, w, S)
  <2>1. Records(E2, d, "flush", u, RecordFiles(u, d, S, "flush"), S)
    BY <1>3, <1>6, <1>7, FilesRecords
  <2> QED BY <1>8, <2>1
<1>10. E2 \cup ToSet(w.ops) = E \cup ToSet(w.ops)
  BY <1>2, <1>9 DEF Records, E2
<1>11. Emits(E, d, v, minted, S, w)
  BY <1>1, <1>2, <1>6, <1>9, <1>10 DEF Records, Emits
<1> QED BY <1>11 DEF w

\* What is kept counts only field by field.
LEMMA SameFields ==
  ASSUME NEW E, NEW d, NEW t, NEW v, NEW w, DOMAIN w = DOMAIN v,
         w.reg = v.reg, w.ops = v.ops, w.clock = v.clock
  PROVE  /\ IsDev(E, d, t, v) => IsDev(E, d, t, w)
         /\ GuardsRedone(v, t) => GuardsRedone(w, t)
BY DEF IsDev, Kept, KeepsRedone, GuardsRedone

LEMMA ApplyEmitsKinds ==
  ASSUME NullsApart, KindsInv, PendingInv, NEW d \in Devices, ApplyEmits(d)
  PROVE  KindsInv'
<1> DEFINE c == [dev[d] EXCEPT !.ops = <<>>, !.store = @ \cup round[d].blobs, !.reg = round[d].reg]
           v == Emit(c, d, round[d].minted, round[d].deferred)
           w == [v EXCEPT !.reg = dev[d].reg]
           r == [round[d] EXCEPT !.phase = "flush", !.reg = v.reg]
           E2 == All \cup ToSet(w.ops)
           t == disk[d]
<1>1. Moves(d, disk[d], w, dag[d], cursor[d], r) /\ UNCHANGED <<log, running>>
      /\ emitted' = emitted \cup ToSet(v.ops)
  <2>1. /\ dev' = [dev EXCEPT ![d] = w] /\ UNCHANGED <<log, disk, dag, cursor, running>>
        /\ emitted' = emitted \cup ToSet(v.ops)
        /\ round' = [round EXCEPT ![d].phase = "flush", ![d].reg = v.reg]
    BY DEF ApplyEmits
  <2>2. round' = [round EXCEPT ![d] = r]
    <3> HIDE DEF v
    <3> QED BY <2>1 DEF PendingInv
  <2> HIDE DEF w, r
  <2> QED BY <2>1, <2>2, KindsHere DEF Moves
<1>2. /\ Applies(All, Len(log), t, round[d]) /\ round[d].phase = "apply" /\ round[d].todo = {}
  BY KindsHere DEF ApplyEmits, InPhase, IsRound
<1>3. AreOps(All) /\ IsDev(All, d, t, dev[d]) /\ t \in [Files -> SUBSET Pairs]
  BY KindsHere
<1>4. /\ DOMAIN c = DOMAIN dev[d] /\ c.ops = <<>> /\ c.reg = round[d].reg /\ c.clock = dev[d].clock
      /\ Kept(c)
  BY <1>3, ShortSeqs DEF IsDev, Kept
<1>5. \A i \in DOMAIN round[d].minted : IsMinted(All, t, round[d], round[d].minted[i])
  BY <1>2 DEF Applies
<1>6. AreMinted(All, round[d].minted) /\ IsReg(All \cup ToSet(round[d].minted), c.reg)
      /\ \A i \in DOMAIN round[d].minted : c.reg[round[d].minted[i].file].conf = {}
  BY <1>2, <1>4, <1>5 DEF Applies, AreMinted, IsMinted
<1>7. round[d].deferred \in SUBSET Files /\ \A f \in round[d].deferred : IsText(disk[d][f])
  BY <1>2, <1>3 DEF Applies, IsText
<1>8. c.clock \in Nat /\ StampsUpTo(All, d, c.clock)
  BY <1>3, <1>4 DEF IsDev
<1> HIDE DEF c
<1>9. /\ AreOps(All \cup ToSet(v.ops)) /\ IsDev(All \cup ToSet(v.ops), d, t, v)
      /\ GuardsRedone(v, t) /\ c.clock <= v.clock
      /\ ToSet(round[d].minted) \subseteq ToSet(v.ops)
      /\ \A op \in ToSet(v.ops) \ ToSet(round[d].minted) :
            /\ op.file \in round[d].deferred /\ op.hash = t[op.file]
            /\ op.id[1] = "op" => op.id[3] = d
  <2> HIDE DEF v
  <2>1. Cleared(All, d, c, round[d].minted, round[d].deferred)
    BY <1>4, <1>6, <1>7, <1>8 DEF Cleared
  <2>2. Emits(All, d, c, round[d].minted, round[d].deferred, v)
    BY <1>3, <2>1, EmitKinds DEF v
  <2> QED BY <2>2 DEF Emits
<1> HIDE DEF v
<1>10. DOMAIN w = DOMAIN v /\ w.ops = v.ops /\ w.clock = v.clock /\ w.reg = dev[d].reg
  BY <1>9 DEF IsDev, Kept
<1>11. /\ DOMAIN r = DOMAIN round[d] /\ r.phase = "flush" /\ r.reg = v.reg
       /\ r.start = round[d].start /\ r.pulled = round[d].pulled /\ r.snap = round[d].snap
  BY <1>2 DEF Applies
<1> HIDE DEF w, r
<1>12. AreOps(E2) /\ All \subseteq E2
  BY <1>9, <1>10
<1>13. \A op \in ToSet(w.ops) : op.id[1] = "op" => op.id[3] = d
  BY <1>6, <1>9, <1>10, <1>3, MintedKinds
<1>14. KeepsRedone(w, t)
  <2> SUFFICES ASSUME NEW op \in ToSet(w.ops), NEW f \in Files, Redone(w.reg, f, op)
               PROVE  op.hash \subseteq t[f] /\ ~ hasConflictMarkers(t[f])
    BY DEF KeepsRedone
  <2>1. IsOp(E2, op) /\ IsEntry(E2, f, w.reg[f])
    <3>1. IsEntry(All, f, dev[d].reg[f])
      BY <1>3 DEF IsDev, IsReg
    <3>2. op \in E2
      OBVIOUS
    <3> HIDE DEF E2
    <3> QED BY <1>10, <1>12, <3>1, <3>2, EntryGrows DEF AreOps
  <2> HIDE DEF E2
  <2>2. op.file = f
    BY <1>12, <2>1, RedoneFile
  <2>3. CASE op \in ToSet(round[d].minted)
    <3>1. IsMinted(All, t, round[d], op)
      BY <1>5, <2>3 DEF ToSet
    <3> QED BY <2>2, <3>1 DEF IsMinted, Redone
  <2>4. CASE op \notin ToSet(round[d].minted)
    BY <1>9, <1>10, <2>2, <2>4 DEF Redone
  <2> QED BY <2>3, <2>4
<1>15. IsDev(E2, d, t, v)
  BY <1>9, <1>10
<1>16. IsReg(E2, w.reg)
  <2> HIDE DEF E2
  <2> QED BY <1>3, <1>10, <1>12, RegGrows DEF IsDev
<1> HIDE DEF E2
<1>17. IsDev(E2, d, t, w)
  BY <1>10, <1>14, <1>15, <1>16 DEF IsDev, Kept
<1>18. Flushes(E2, Len(log), d, t, r, w)
  <2> DEFINE x == [w EXCEPT !.reg = r.reg]
  <2>1. DOMAIN x = DOMAIN v /\ x.reg = v.reg /\ x.ops = v.ops /\ x.clock = v.clock
    BY <1>10, <1>11, <1>17 DEF IsDev, Kept
  <2> HIDE DEF x
  <2>2. IsDev(E2, d, t, x) /\ GuardsRedone(x, t)
    BY <1>9, <1>15, <2>1, SameFields
  <2>3. IsPull(All, Len(log), round[d])
    BY <1>2 DEF Applies
  <2>4. IsPull(E2, Len(log), r)
    BY <1>11, <1>12, <2>3 DEF IsPull
  <2> QED BY <1>2, <1>11, <2>2, <2>4 DEF Flushes, Applies, x
<1>19. IsRound(E2, Len(log), d, t, r, w) /\ Flushing(r)
  <2>1. "phase" \in DOMAIN r
    BY <1>2, <1>11 DEF Applies
  <2> QED BY <1>11, <1>18, <2>1 DEF IsRound, Flushing, NullsApart
<1>20. /\ AreOps(All \cup ToSet(w.ops)) /\ IsDev(All \cup ToSet(w.ops), d, disk[d], w)
       /\ IsRound(All \cup ToSet(w.ops), Len(log), d, disk[d], r, w)
       /\ emitted' = emitted \cup ToSet(w.ops)
  BY <1>1, <1>10, <1>12, <1>17, <1>19 DEF E2
<1> QED BY <1>1, <1>13, <1>19, <1>20, RecordingStep

----------------------------------------------------------------------------
(* The flush of the applicator, and the passes of the folds *)

LEMMA ApplyFlushesKinds ==
  ASSUME KindsInv, PendingInv, NEW d \in Devices, ApplyFlushes(d)
  PROVE  KindsInv'
<1> DEFINE w == [dev[d] EXCEPT !.reg = round[d].reg]
           r == [phase |-> "fold", start |-> round[d].start, pulled |-> round[d].pulled,
                 missing |-> round[d].missing, deferred |-> round[d].deferred,
                 attempted |-> {}, folded |-> TRUE]
<1>1. Moves(d, disk[d], w, dag[d], cursor[d], r) /\ UNCHANGED <<log, running, emitted>>
  <2>1. /\ dev' = [dev EXCEPT ![d] = w] /\ round' = [round EXCEPT ![d] = r]
        /\ UNCHANGED <<log, disk, dag, cursor, running, emitted>>
    BY DEF ApplyFlushes, PendingInv, history
  <2> HIDE DEF w, r
  <2> QED BY <2>1, KindsHere DEF Moves
<1>2. Flushes(All, Len(log), d, disk[d], round[d], dev[d])
  BY KindsHere DEF ApplyFlushes, InPhase, IsRound
<1>3. IsDev(All, d, disk[d], w) /\ GuardsRedone(w, disk[d])
  BY <1>2 DEF Flushes
<1>4. /\ {"phase", "start", "pulled", "missing", "deferred", "attempted", "folded"} \subseteq DOMAIN r
      /\ r.phase = "fold"
  OBVIOUS
<1>5. IsPull(All, Len(log), r)
  BY <1>2 DEF Flushes, IsPull
<1> HIDE DEF w, r
<1>6. IsRound(All, Len(log), d, disk[d], r, w)
  BY <1>4, <1>5 DEF IsRound, Folds
<1>7. IsDevice(All, Len(log), d, disk[d], w, dag[d], cursor[d], r, running'[d])
  BY <1>3, <1>6, KindsHere DEF IsDevice
<1> QED BY <1>1, <1>7, SilentStep

\* The choice of a leaf to fold.
LEMMA FirstIdIn ==
  ASSUME NEW E, AreOps(E), NEW S, IsFiniteSet(S), S # {}, \A v \in S : \E op \in E : op.id = v
  PROVE  FirstId(S) \in S
<1> DEFINE P == {v \in S : v[1] = "op"}
           R == {p \in P \X P : Later(<<p[2][2], p[2][3]>>, 0, <<p[1][2], p[1][3]>>, 0)}
<1>1. CASE P = {}
  BY <1>1 DEF FirstId
<1>2. CASE P # {}
  <2>1. IsFiniteSet(P)
    BY FS_Subset
  <2>2. ASSUME NEW v \in P PROVE <<v[2], v[3]>> \in Nat \X Nat
    <3>1. PICK op \in E : op.id = v
      OBVIOUS
    <3>2. IsOp(E, op)
      BY DEF AreOps
    <3>3. v[1] = "op"
      OBVIOUS
    <3>4. v[2] \in Nat /\ v[3] \in Devices
      BY <3>1, <3>2, <3>3 DEF IsOp, IsEdit, IsMerge
    <3> QED BY <3>4, DevicesAssumption
  <2>3. FirstId(S) = CHOOSE v \in P : \A w \in P : AtLeast(<<w[2], w[3]>>, <<v[2], v[3]>>)
    BY <1>2 DEF FirstId
  <2>4. P \subseteq S
    OBVIOUS
  <2> HIDE DEF P
  <2>5. \A x, y \in P : <<y, x>> \in R <=> Later(<<x[2], x[3]>>, 0, <<y[2], y[3]>>, 0)
    OBVIOUS
  <2> HIDE DEF R
  <2>6. /\ \A x, y, z \in P : <<x, y>> \in R /\ <<y, z>> \in R => <<x, z>> \in R
        /\ \A x \in P : <<x, x>> \notin R
    <3>1. ASSUME NEW x \in P, NEW y \in P, NEW z \in P, <<x, y>> \in R, <<y, z>> \in R
          PROVE  <<x, z>> \in R
      <4> DEFINE a == <<x[2], x[3]>>
                 b == <<y[2], y[3]>>
                 c == <<z[2], z[3]>>
      <4>1. a \in Nat \X Nat /\ b \in Nat \X Nat /\ c \in Nat \X Nat
        BY <2>2
      <4>2. Later(b, 0, a, 0) /\ Later(c, 0, b, 0)
        BY <2>5, <3>1
      <4>3. <<x, z>> \in R <=> Later(c, 0, a, 0)
        BY <2>5
      <4> HIDE DEF a, b, c
      <4>4. Later(c, 0, a, 0)
        BY <4>1, <4>2, LaterOrder
      <4> QED BY <4>3, <4>4
    <3>2. \A x \in P : <<x, x>> \notin R
      BY <2>2, <2>5, LaterOrder
    <3> QED BY <3>1, <3>2
  <2>7. PICK v \in P : \A w \in P : <<w, v>> \notin R
    BY <1>2, <2>1, <2>6, FiniteTop
  <2>8. ASSUME NEW w \in P PROVE AtLeast(<<w[2], w[3]>>, <<v[2], v[3]>>)
    <3>1. ~ Later(<<v[2], v[3]>>, 0, <<w[2], w[3]>>, 0)
      BY <2>5, <2>7
    <3> QED BY <2>2, <3>1, LaterOrder
  <2> QED BY <2>3, <2>4, <2>8
<1> QED BY <1>1, <1>2

\* The leaves to fold are versions that were pulled.
LEMMA LeafKinds ==
  ASSUME NEW E, AreOps(E), NEW d, NEW g, IsGraph(E, g), IsSeq(round[d].pulled),
         ToSet(round[d].pulled) \subseteq E, NEW f, NEW head, Extras(d, g, f, head) # {}
  PROVE  \E i \in DOMAIN round[d].pulled :
            /\ round[d].pulled[i].id = FirstId(Extras(d, g, f, head))
            /\ round[d].pulled[i].file = f
<1> DEFINE S == Extras(d, g, f, head)
<1>1. ASSUME NEW v \in S
      PROVE  /\ v \in DOMAIN g /\ \E op \in E : op.id = v
             /\ \E i \in DOMAIN round[d].pulled : round[d].pulled[i].id = v /\ round[d].pulled[i].file = f
  <2>1. v \in DOMAIN g /\ g[v].file = f /\ v \in Ids(round[d].pulled)
    BY DEF Extras, leaves
  <2>2. PICK op \in E : op.id = v /\ op.file = f
    BY <2>1 DEF IsGraph
  <2>3. PICK i \in DOMAIN round[d].pulled : round[d].pulled[i].id = v
    BY <2>1 DEF Ids
  <2>4. round[d].pulled[i] \in E
    BY DEF ToSet
  <2>5. round[d].pulled[i].file = f
    BY <2>2, <2>3, <2>4 DEF AreOps
  <2> QED BY <2>1, <2>2, <2>3, <2>5
<1> HIDE DEF S
<1>2. IsFiniteSet(S)
  <2>1. S \subseteq DOMAIN g
    BY <1>1
  <2> QED BY <2>1, FS_Subset DEF IsGraph
<1>3. S # {}
  BY DEF S
<1>4. FirstId(S) \in S
  BY <1>1, <1>2, <1>3, FirstIdIn
<1> QED BY <1>1, <1>4 DEF S

LEMMA FoldPassKinds ==
  ASSUME KindsInv, PendingInv, NEW d \in Devices, FoldPass(d)
  PROVE  KindsInv'
<1> DEFINE g == RecordEdges(dag[d], dev[d].ops)
           leaf == [f \in Foldable(d, g) |-> FirstId(Extras(d, g, f, dev[d].reg[f].head))]
           r == [phase |-> "foldfile", start |-> round[d].start, pulled |-> round[d].pulled,
                 missing |-> round[d].missing, deferred |-> round[d].deferred, folded |-> FALSE,
                 attempted |-> round[d].attempted, snap |-> SnapshotOf(d),
                 clock |-> dev[d].clock, leaf |-> leaf]
<1>1. Moves(d, disk[d], dev[d], g, cursor[d], r) /\ UNCHANGED <<log, running, emitted>>
  <2>1. /\ dag' = [dag EXCEPT ![d] = g] /\ round' = [round EXCEPT ![d] = r]
        /\ UNCHANGED <<log, disk, dev, cursor, running, emitted>>
    <3>1. round' = [round EXCEPT ![d] =
                 [phase |-> "foldfile", start |-> @.start, pulled |-> @.pulled,
                  missing |-> @.missing, deferred |-> @.deferred, folded |-> FALSE,
                  attempted |-> @.attempted, snap |-> SnapshotOf(d), clock |-> dev[d].clock,
                  leaf |-> leaf]]
      BY DEF FoldPass
    <3>2. round' = [round EXCEPT ![d] = r]
      <4> HIDE DEF leaf
      <4> QED BY <3>1 DEF PendingInv
    <3> HIDE DEF r
    <3> QED BY <3>2 DEF FoldPass, history
  <2> HIDE DEF g, r
  <2> QED BY <2>1, KindsHere DEF Moves
<1>2. Folds(All, Len(log), round[d]) /\ IsPull(All, Len(log), round[d]) /\ ~ Flushing(round[d])
  BY KindsHere DEF FoldPass, InPhase, IsRound, Folds, Flushing
<1>3. AreOps(All) /\ IsGraph(All, dag[d]) /\ IsSeq(dev[d].ops) /\ ToSet(dev[d].ops) \subseteq All
      /\ dev[d].clock \in Nat
  BY KindsHere DEF IsDev, Kept
<1>4. IsGraph(All, g)
  BY <1>3, RecordEdgesGraph
<1> HIDE DEF g
<1>5. \A f \in DOMAIN leaf : f \in Files /\ \E i \in DOMAIN round[d].pulled :
           round[d].pulled[i].id = leaf[f] /\ round[d].pulled[i].file = f
  <2>1. \A f \in Foldable(d, g) : f \in Files /\ Extras(d, g, f, dev[d].reg[f].head) # {}
    BY DEF Foldable, Touched
  <2>2. IsSeq(round[d].pulled) /\ ToSet(round[d].pulled) \subseteq All
    BY <1>2 DEF IsPull
  <2> QED BY <1>3, <1>4, <2>1, <2>2, LeafKinds
<1> HIDE DEF leaf
<1>6. /\ DOMAIN r = {"phase", "start", "pulled", "missing", "deferred", "attempted", "folded",
                     "snap", "clock", "leaf"}
      /\ r.phase = "foldfile" /\ r.clock = dev[d].clock /\ r.snap = SnapshotOf(d)
      /\ r.leaf = leaf /\ r.pulled = round[d].pulled /\ r.start = round[d].start
  OBVIOUS
<1> HIDE DEF r
<1>7. FoldsFiles(All, r) /\ Folds(All, Len(log), r)
  <2>1. IsSnap(All, SnapshotOf(d))
    BY SnapKinds
  <2>2. IsPull(All, Len(log), r)
    BY <1>2, <1>6 DEF IsPull
  <2> QED BY <1>3, <1>5, <1>6, <2>1, <2>2 DEF FoldsFiles, Folds
<1>8. IsRound(All, Len(log), d, disk[d], r, dev[d])
  BY <1>6, <1>7 DEF IsRound
<1>9. IsDevice(All, Len(log), d, disk[d], dev[d], g, cursor[d], r, running'[d])
  BY <1>1, <1>2, <1>4, <1>8, KindsHere DEF IsDevice
<1> QED BY <1>1, <1>9, SilentStep

LEMMA FoldDoneKinds ==
  ASSUME KindsInv, PendingInv, NEW d \in Devices, NEW f, NEW missing, InPhase(d, "foldfile"),
         FoldDone(d, f, missing)
  PROVE  \E r : /\ round' = [round EXCEPT ![d] = r] /\ ~ Flushing(r)
                /\ \A E2, t, w : All \subseteq E2 => IsRound(E2, Len(log), d, t, r, w)
<1> DEFINE left   == DOMAIN round[d].leaf \ {f}
           passed == round[d].attempted \cup {round[d].leaf[f]}
           absent == round[d].missing \cup missing
           folds  == round[d].folded \/ missing = {}
           leaf   == [x \in left |-> round[d].leaf[x]]
           r1 == [phase |-> "fold", start |-> round[d].start, pulled |-> round[d].pulled,
                  missing |-> absent, deferred |-> round[d].deferred,
                  attempted |-> passed, folded |-> folds]
           r2 == [round[d] EXCEPT !.missing = absent, !.attempted = passed,
                                  !.folded = folds, !.leaf = leaf]
           r == IF left = {} THEN r1 ELSE r2
<1>1. round' = [round EXCEPT ![d] = r]
  BY DEF FoldDone
<1>2. FoldsFiles(All, round[d]) /\ Folds(All, Len(log), round[d]) /\ round[d].phase = "foldfile"
  BY KindsHere DEF InPhase, IsRound
<1>3. /\ DOMAIN r2 = DOMAIN round[d] /\ r2.phase = "foldfile" /\ r2.start = round[d].start
      /\ r2.pulled = round[d].pulled /\ r2.snap = round[d].snap /\ r2.clock = round[d].clock
      /\ r2.leaf = leaf
  <2> HIDE DEF absent, passed, folds, leaf
  <2> QED BY <1>2 DEF FoldsFiles
<1>4. /\ {"phase", "start", "pulled", "missing", "deferred", "attempted", "folded"} \subseteq DOMAIN r1
      /\ r1.phase = "fold" /\ r1.start = round[d].start /\ r1.pulled = round[d].pulled
  OBVIOUS
<1>5. /\ DOMAIN leaf \subseteq DOMAIN round[d].leaf /\ \A x \in DOMAIN leaf : leaf[x] = round[d].leaf[x]
  OBVIOUS
<1> HIDE DEF r1, r2, leaf
<1>6. ASSUME NEW E2, All \subseteq E2, NEW t, NEW w PROVE IsRound(E2, Len(log), d, t, r, w)
  <2>1. IsPull(All, Len(log), round[d]) /\ IsSnap(All, round[d].snap)
    BY <1>2 DEF Folds, FoldsFiles
  <2>2. IsPull(E2, Len(log), r1) /\ IsPull(E2, Len(log), r2) /\ IsSnap(E2, r2.snap)
    BY <1>3, <1>4, <1>6, <2>1, SnapGrows DEF IsPull
  <2>3. IsRound(E2, Len(log), d, t, r1, w)
    BY <1>4, <2>2 DEF IsRound, Folds
  <2>4. FoldsFiles(E2, r2) /\ Folds(E2, Len(log), r2)
    BY <1>2, <1>3, <1>5, <2>2 DEF FoldsFiles, Folds
  <2>5. IsRound(E2, Len(log), d, t, r2, w)
    BY <1>2, <1>3, <2>4 DEF IsRound, FoldsFiles
  <2> QED BY <2>3, <2>5
<1>7. ~ Flushing(r)
  BY <1>3, <1>4 DEF Flushing
<1> QED BY <1>1, <1>6, <1>7

LEMMA FoldMissingKinds ==
  ASSUME KindsInv, PendingInv, NEW d \in Devices, NEW f \in Files, FoldMissing(d, f)
  PROVE  KindsInv'
<1>1. PICK r : /\ round' = [round EXCEPT ![d] = r] /\ ~ Flushing(r)
               /\ \A E2, t, w : All \subseteq E2 => IsRound(E2, Len(log), d, t, r, w)
  BY FoldDoneKinds DEF FoldMissing
<1>2. Moves(d, disk[d], dev[d], dag[d], cursor[d], r) /\ UNCHANGED <<log, running, emitted>>
  BY <1>1, KindsHere DEF FoldMissing, Moves
<1>3. ~ Flushing(round[d])
  BY DEF FoldMissing, InPhase, Flushing
<1>4. IsDevice(All, Len(log), d, disk[d], dev[d], dag[d], cursor[d], r, running'[d])
  BY <1>1, <1>2, <1>3, KindsHere DEF IsDevice
<1> QED BY <1>2, <1>4, SilentStep

\* safeCursor is between where the pull began and where it ended.
LEMMA SafeCursorKinds ==
  ASSUME NEW E, NEW n \in Nat, NEW r, IsPull(E, n, r)
  PROVE  safeCursor(r) \in 0..(r.start + Len(r.pulled)) /\ safeCursor(r) \in 0..n
<1> DEFINE B == {i \in DOMAIN r.pulled : r.pulled[i].hash \in r.missing}
           c == safeCursor(r)
<1>1. /\ r.start \in Nat /\ Len(r.pulled) \in Nat
      /\ r.start + Len(r.pulled) <= n /\ DOMAIN r.pulled = 1..Len(r.pulled)
  BY DEF IsPull, IsSeq
<1>2. B \subseteq 1..Len(r.pulled)
  BY <1>1
<1>3. ASSUME B # {} PROVE Min(B) \in 1..Len(r.pulled)
  <2>1. B \in SUBSET Nat
    BY <1>1, <1>2
  <2> HIDE DEF B
  <2>2. \E k \in B : \A m \in B : k <= m
    BY <1>3, <2>1, LeastNat
  <2>3. Min(B) \in B
    BY <2>2 DEF Min
  <2> QED BY <1>2, <2>3
<1>4. c \in {r.start, r.start + Len(r.pulled)} \/ (B # {} /\ c = r.start + Min(B) - 1)
  BY DEF safeCursor
<1> HIDE DEF B, c
<1>5. c \in 0..(r.start + Len(r.pulled)) /\ c \in 0..n
  BY <1>1, <1>3, <1>4
<1> QED BY <1>5 DEF c

LEMMA SaveCursorKinds ==
  ASSUME KindsInv, PendingInv, NEW d \in Devices, SaveCursor(d)
  PROVE  KindsInv'
<1> DEFINE g == RecordEdges(dag[d], dev[d].ops)
           c == safeCursor(round[d])
<1>1. PICK h \in {g, dag[d]} : dag' = [dag EXCEPT ![d] = h]
  BY KindsHere DEF SaveCursor
<1>2. Moves(d, disk[d], dev[d], h, c, NoRound) /\ UNCHANGED <<log, running, emitted>>
  BY <1>1, KindsHere DEF SaveCursor, Moves, history
<1>3. IsPull(All, Len(log), round[d]) /\ ~ Flushing(round[d])
  BY KindsHere DEF SaveCursor, InPhase, IsRound, Folds, Flushing
<1>4. IsGraph(All, h)
  <2>1. AreOps(All) /\ IsGraph(All, dag[d]) /\ IsSeq(dev[d].ops) /\ ToSet(dev[d].ops) \subseteq All
    BY KindsHere DEF IsDev, Kept
  <2> HIDE DEF g
  <2>2. IsGraph(All, g)
    BY <2>1, RecordEdgesGraph DEF g
  <2> QED BY <1>1, <2>1, <2>2
<1>5. c \in 0..Len(log)
  BY <1>3, KindsHere, SafeCursorKinds
<1> HIDE DEF c, g
<1>6. IsDevice(All, Len(log), d, disk[d], dev[d], h, c, NoRound, running'[d])
  BY <1>2, <1>3, <1>4, <1>5, KindsHere DEF IsDevice, IsRound
<1> QED BY <1>2, <1>6, SilentStep

----------------------------------------------------------------------------
(* A fold of one leaf *)

LEMMA MaxOfThree ==
  ASSUME NEW k \in Nat, NEW m \in Nat, NEW n \in Nat
  PROVE  Max({k, m, n}) \in Nat /\ k <= Max({k, m, n})
<1>1. IsFiniteSet({k, m, n})
  <2>1. IsFiniteSet({k}) /\ IsFiniteSet({m}) /\ IsFiniteSet({n})
    BY FS_Singleton
  <2>2. IsFiniteSet({k} \cup {m})
    BY <2>1, FS_Union
  <2>3. IsFiniteSet(({k} \cup {m}) \cup {n})
    BY <2>1, <2>2, FS_Union
  <2>4. ({k} \cup {m}) \cup {n} = {k, m, n}
    OBVIOUS
  <2> QED BY <2>3, <2>4
<1>2. {k, m, n} \in SUBSET Nat /\ {k, m, n} # {}
  OBVIOUS
<1>3. Max({k, m, n}) \in {k, m, n} /\ \A y \in {k, m, n} : y <= Max({k, m, n})
  BY <1>1, <1>2, MaxOf
<1> QED BY <1>3

\* A device whose pending ops are dropped, with a later clock and registry reg.
LEMMA ClearedKinds ==
  ASSUME NEW E, AreOps(E), NEW d, NEW t, NEW v, IsDev(E, d, t, v), NEW n \in Nat, v.clock <= n,
         NEW w, DOMAIN w = DOMAIN v, w.ops = <<>>, w.clock = n,
         NEW minted, AreMinted(E, minted), IsReg(E \cup ToSet(minted), w.reg),
         \A i \in DOMAIN minted : w.reg[minted[i].file].conf = {},
         NEW S \in SUBSET Files, \A f \in S : IsText(disk[d][f])
  PROVE  Cleared(E, d, w, minted, S)
<1>1. StampsUpTo(E, d, n)
  <2> DEFINE x == [v EXCEPT !.clock = n]
  <2>1. IsDev(E, d, t, x) /\ x.clock = n
    BY ClockMoves
  <2> QED BY <2>1 DEF IsDev
<1>2. Kept(w)
  BY ShortSeqs DEF IsDev, Kept
<1> QED BY <1>1, <1>2 DEF Cleared

\* No node is minted over nothing.
LEMMA NoneMinted == ASSUME NEW E PROVE AreMinted(E, <<>>) /\ E \cup ToSet(<<>>) = E
<1>1. IsSeq(<<>>) /\ ToSet(<<>>) = {} /\ DOMAIN <<>> = {}
  BY ShortSeqs, NoMembers
<1> QED BY <1>1 DEF AreMinted

\* The node that an action mints.
LEMMA ActMinted ==
  ASSUME NEW E, NEW d \in Devices, NEW f \in Files, NEW act, IsAct(E, f, act), NEW n \in Nat
  PROVE  /\ AreMinted(E, Minted(d, f, act, n))
         /\ \A i \in DOMAIN Minted(d, f, act, n) :
               Minted(d, f, act, n)[i].file = f /\ act.type = "write_merge"
         /\ act.type = "write_merge" =>
               MergeOp(d, f, act.content, n, act.parents) \in ToSet(Minted(d, f, act, n))
<1> DEFINE m == Minted(d, f, act, n)
           op == MergeOp(d, f, act.content, n, act.parents)
<1>1. CASE act.type # "write_merge"
  <2>1. m = <<>>
    BY <1>1 DEF Minted
  <2> HIDE DEF m
  <2>2. DOMAIN m = {} /\ AreMinted(E, m)
    BY <2>1, NoneMinted
  <2> QED BY <1>1, <2>2 DEF m
<1>2. CASE act.type = "write_merge"
  <2>1. m = <<op>>
    BY <1>2 DEF Minted
  <2>2. /\ op.file = f /\ op.hash = act.content /\ op.parents = act.parents
        /\ op.id = <<"merge", op.hash, op.parents>> /\ op.hlc = <<n, d>>
    BY DEF MergeOp
  <2>3. act.parents \subseteq Versions(E, f) /\ act.parents # {} /\ IsText(act.content)
    BY <1>2 DEF IsAct
  <2> HIDE DEF m, op
  <2>4. IsMerge(op) /\ IsOp(E, op)
    BY <2>2, <2>3 DEF IsMerge, IsOp
  <2>5. IsSeq(m) /\ ToSet(m) = {op} /\ DOMAIN m = {1} /\ m[1] = op
    BY <2>1, ShortSeqs, NoMembers
  <2>6. AreMinted(E, m)
    BY <2>2, <2>3, <2>4, <2>5 DEF AreMinted
  <2> QED BY <1>2, <2>2, <2>5, <2>6 DEF m, op
<1> QED BY <1>1, <1>2

\* A device that is good for the texts t after it has recorded what it has pending.
Recorded(d, t, w) ==
    /\ AreOps(All \cup ToSet(w.ops)) /\ IsDev(All \cup ToSet(w.ops), d, t, w)
    /\ GuardsRedone(w, t)
    /\ \A op \in ToSet(w.ops) : op.id[1] = "op" => op.id[3] = d

LEMMA EmitsRecorded ==
  ASSUME AreOps(All), NEW d \in Devices, NEW v, NEW minted, NEW S, Cleared(All, d, v, minted, S)
  PROVE  Recorded(d, disk[d], Emit(v, d, minted, S))
<1> DEFINE w == Emit(v, d, minted, S)
<1>1. Emits(All, d, v, minted, S, w)
  BY EmitKinds
<1> HIDE DEF w
<1>2. \A op \in ToSet(minted) : op.id[1] # "op"
  BY MintedKinds DEF Cleared
<1>3. Recorded(d, disk[d], w)
  BY <1>1, <1>2 DEF Emits, Recorded
<1> QED BY <1>3 DEF w

\* With no file to be captured again, the texts do not matter.
LEMMA EmitsMinted ==
  ASSUME AreOps(All), NEW d \in Devices, NEW v, NEW minted, Cleared(All, d, v, minted, {}), NEW t
  PROVE  Recorded(d, t, Emit(v, d, minted, {}))
<1> DEFINE w == Emit(v, d, minted, {})
<1>1. Emits(All, d, v, minted, {}, w) /\ Recorded(d, disk[d], w)
  BY EmitKinds, EmitsRecorded
<1> HIDE DEF w
<1>2. \A op \in ToSet(minted), f \in Files : ~ Redone(v.reg, f, op)
  BY MintedNotRedone DEF Cleared
<1>3. \A op \in ToSet(w.ops) : op \in ToSet(minted)
  BY <1>1 DEF Emits
<1>4. \A f \in Files : w.reg[f] = v.reg[f]
  BY <1>1 DEF Emits
<1>5. \A op \in ToSet(w.ops), f \in Files : ~ Redone(w.reg, f, op)
  BY <1>2, <1>3, <1>4 DEF Redone
<1>6. KeepsRedone(w, t) /\ GuardsRedone(w, t)
  BY <1>5 DEF KeepsRedone, GuardsRedone
<1>7. Recorded(d, t, w)
  BY <1>1, <1>6 DEF Recorded, IsDev
<1> QED BY <1>7 DEF w

LEMMA FoldFileKinds ==
  ASSUME NullsApart, KindsInv, PendingInv, NEW d \in Devices, NEW f \in Files, FoldFile(d, f)
  PROVE  KindsInv'
<1> DEFINE leaf == OpOf(d, round[d].leaf[f])
           e    == [hash |-> leaf.hash, hlc |-> leaf.hlc, head |-> leaf.id, conf |-> {}]
           re   == Entry(f, e)
           le   == Snapshot(d)[f]
           act  == classifyAndResolve(dag[d], Entry(f, le), re, Staged(d, dag[d], le), {re.hash})
           time == Max({dev[d].clock, round[d].clock, leaf.hlc[1]})
           n    == IF act.type = "write_local" THEN time ELSE time + 1
           idle == act.type \in {"no_op", "send_remote"}
           skip == Drifted(d, f, Snapshot(d))
           v0   == [dev[d] EXCEPT !.ops = <<>>, !.clock = time]
           x    == Adopted(d, dev[d].reg[f], act, n)
           v1   == [v0 EXCEPT !.clock = n, !.store = @ \cup {act.content}, !.reg[f] = x]
           m    == Minted(d, f, act, n)
           w    == IF idle THEN v0 ELSE IF skip THEN Emit(v0, d, <<>>, {f}) ELSE Emit(v1, d, m, {})
           t    == IF idle \/ skip THEN disk[d] ELSE [disk[d] EXCEPT ![f] = act.content]
<1>1. /\ dev' = [dev EXCEPT ![d] = w] /\ emitted' = emitted \cup ToSet(w.ops)
      /\ disk' = IF idle \/ skip THEN disk ELSE [disk EXCEPT ![d][f] = act.content]
      /\ UNCHANGED <<log, dag, cursor, running>> /\ FoldDone(d, f, {})
      /\ InPhase(d, "foldfile") /\ f \in DOMAIN round[d].leaf
  BY DEF FoldFile
<1>2. PICK r : /\ round' = [round EXCEPT ![d] = r] /\ ~ Flushing(r)
               /\ \A E2, u, y : All \subseteq E2 => IsRound(E2, Len(log), d, u, r, y)
  BY <1>1, FoldDoneKinds
<1>3. disk' = [disk EXCEPT ![d] = t]
  <2> HIDE DEF act, idle, skip
  <2> QED BY <1>1, KindsHere DEF KindsInv
<1>4. Moves(d, t, w, dag[d], cursor[d], r)
  <2> HIDE DEF t, w
  <2> QED BY <1>1, <1>2, <1>3, KindsHere DEF Moves
<1>5. FoldsFiles(All, round[d]) /\ Folds(All, Len(log), round[d])
  BY <1>1, KindsHere DEF InPhase, IsRound
<1>6. /\ AreOps(All) /\ IsDev(All, d, disk[d], dev[d]) /\ IsReg(All, dev[d].reg)
      /\ dev[d].clock \in Nat /\ IsGraph(All, dag[d]) /\ disk[d] \in [Files -> SUBSET Pairs]
      /\ DOMAIN dev[d] = {"reg", "ops", "clock", "store"}
  BY KindsHere DEF IsDev, Kept
<1>7. IsOp(All, leaf) /\ leaf \in All /\ leaf.file = f
  <2>1. \E i \in DOMAIN round[d].pulled :
           round[d].pulled[i].id = round[d].leaf[f] /\ round[d].pulled[i].file = f
    BY <1>1, <1>5 DEF FoldsFiles
  <2> DEFINE i == CHOOSE i \in DOMAIN round[d].pulled : round[d].pulled[i].id = round[d].leaf[f]
  <2>2. i \in DOMAIN round[d].pulled /\ round[d].pulled[i].id = round[d].leaf[f]
    BY <2>1
  <2>3. leaf = round[d].pulled[i]
    BY DEF OpOf
  <2> HIDE DEF i, leaf
  <2>4. ToSet(round[d].pulled) \subseteq All
    BY <1>5 DEF Folds, IsPull
  <2>5. \A k \in DOMAIN round[d].pulled : round[d].pulled[k] \in All
    BY <2>4 DEF ToSet
  <2>6. leaf.file = f
    BY <1>6, <2>1, <2>2, <2>3, <2>5 DEF AreOps
  <2> QED BY <1>6, <2>2, <2>3, <2>5, <2>6 DEF AreOps
<1> HIDE DEF leaf
<1>8. time \in Nat /\ dev[d].clock <= time /\ n \in Nat /\ dev[d].clock <= n
  <2>1. round[d].clock \in Nat /\ leaf.hlc[1] \in Nat
    BY <1>5, <1>7 DEF FoldsFiles, IsOp
  <2>2. time \in Nat /\ dev[d].clock <= time
    BY <1>6, <2>1, MaxOfThree
  <2> HIDE DEF time, act
  <2> QED BY <1>6, <2>2
<1>9. idle \/ IsAct(All, f, act)
  <2>1. IsEntry(All, f, le)
    BY <1>5, <1>6, SnapshotKinds DEF FoldsFiles
  <2>2. IsText(e.hash) /\ e.head \in Versions(All, f)
    BY <1>7 DEF IsOp, Versions
  <2>3. IsFiniteSet(DOMAIN dag[d]) /\ IsText(le.hash) /\ le.head \in Versions(All, f)
    BY <1>6, <2>1 DEF IsGraph, IsEntry
  <2> HIDE DEF e, le
  <2> QED BY <1>6, <2>2, <2>3, DecisionKinds
<1> HIDE DEF act, time, n, x
<1>10. /\ DOMAIN v0 = DOMAIN dev[d] /\ v0.ops = <<>> /\ v0.clock = time /\ v0.reg = dev[d].reg
  BY <1>6
<1>11. /\ DOMAIN v1 = DOMAIN dev[d] /\ v1.ops = <<>> /\ v1.clock = n
       /\ v1.reg = [dev[d].reg EXCEPT ![f] = x]
  BY <1>6
<1> HIDE DEF v0, v1, idle, skip
<1>12. \A S \in SUBSET Files : Cleared(All, d, v0, <<>>, S)
  <2>1. \A S \in SUBSET Files : \A y \in S : IsText(disk[d][y])
    BY <1>6 DEF IsText
  <2>2. AreMinted(All, <<>>) /\ IsReg(All \cup ToSet(<<>>), v0.reg) /\ DOMAIN <<>> = {}
    <3>1. AreMinted(All, <<>>) /\ All \cup ToSet(<<>>) = All
      BY NoneMinted
    <3>2. DOMAIN <<>> = {}
      OBVIOUS
    <3> QED BY <1>6, <1>10, <3>1, <3>2
  <2> QED BY <1>6, <1>8, <1>10, <2>1, <2>2, ClearedKinds
<1>13. ASSUME idle PROVE Recorded(d, t, w)
  <2>1. ToSet(v0.ops) = {} /\ DOMAIN v0.ops = {}
    BY <1>10, NoMembers
  <2>2. IsDev(All, d, disk[d], v0) /\ GuardsRedone(v0, disk[d])
    <3>1. Cleared(All, d, v0, <<>>, {})
      BY <1>12
    <3> QED BY <1>6, <1>10, <2>1, <3>1
         DEF Cleared, IsDev, DistinctIds, KeepsRedone, GuardsRedone
  <2>3. Recorded(d, disk[d], v0)
    BY <1>6, <2>1, <2>2 DEF Recorded
  <2> QED BY <1>13, <2>3
<1>14. ASSUME ~ idle, skip PROVE Recorded(d, t, w)
  <2>1. Recorded(d, disk[d], Emit(v0, d, <<>>, {f}))
    BY <1>6, <1>12, EmitsRecorded
  <2> QED BY <1>14, <2>1
<1>15. ASSUME ~ idle, ~ skip PROVE Recorded(d, t, w) /\ IsText(act.content)
  <2>1. IsAct(All, f, act)
    BY <1>9, <1>15
  <2>2. /\ AreMinted(All, m)
        /\ \A i \in DOMAIN m : m[i].file = f /\ act.type = "write_merge"
        /\ act.type = "write_merge" => MergeOp(d, f, act.content, n, act.parents) \in ToSet(m)
    BY <1>8, <2>1, ActMinted
  <2> HIDE DEF m
  <2> DEFINE E2 == All \cup ToSet(m)
  <2>3. All \subseteq E2
        /\ (act.type = "write_merge" => MergeOp(d, f, act.content, n, act.parents) \in E2)
    BY <2>2
  <2> HIDE DEF E2
  <2>4. IsReg(E2, dev[d].reg)
    BY <1>6, <2>3, RegGrows
  <2>5. IsEntry(E2, f, x) /\ (act.type # "conflict" => x.conf = {})
    <3>1. IsEntry(E2, f, dev[d].reg[f])
      BY <2>4 DEF IsReg
    <3> QED BY <2>1, <2>3, <3>1, AdoptedKinds DEF x
  <2>6. IsReg(E2, v1.reg) /\ v1.reg[f] = x
    <3>1. DOMAIN dev[d].reg = Files
      BY <2>4 DEF IsReg
    <3> QED BY <1>11, <2>4, <2>5, <3>1 DEF IsReg
  <2>7. \A i \in DOMAIN m : v1.reg[m[i].file].conf = {}
    BY <2>2, <2>5, <2>6
  <2>8. Cleared(All, d, v1, m, {})
    BY <1>6, <1>8, <1>11, <2>2, <2>6, <2>7, ClearedKinds DEF E2
  <2>9. Recorded(d, t, Emit(v1, d, m, {}))
    BY <1>6, <2>8, EmitsMinted
  <2> QED BY <1>15, <2>1, <2>9 DEF IsAct
<1>16. Recorded(d, t, w)
  BY <1>13, <1>14, <1>15
<1>17. t \in [Files -> SUBSET Pairs]
  BY <1>6, <1>15 DEF IsText
<1> HIDE DEF t, w
<1>18. IsRound(All \cup ToSet(w.ops), Len(log), d, t, r, w)
  BY <1>2
<1>19. /\ log' = log /\ emitted' = emitted \cup ToSet(w.ops)
       /\ AreOps(All \cup ToSet(w.ops)) /\ IsDev(All \cup ToSet(w.ops), d, t, w)
       /\ \A op \in ToSet(w.ops) \ ToSet(dev[d].ops) : op.id[1] = "op" => op.id[3] = d
       /\ running'[d] /\ ~ Flushing(r) => GuardsRedone(w, t)
  BY <1>1, <1>16 DEF Recorded
<1> QED BY <1>4, <1>17, <1>18, <1>19, WritingStep

----------------------------------------------------------------------------
(* Every step *)

LEMMA IdleKinds ==
  ASSUME KindsInv, PendingInv, UNCHANGED vars
  PROVE  KindsInv'
<1>1. PICK d \in Devices : TRUE
  BY DevicesAssumption
<1>2. /\ UNCHANGED <<log, disk, dev, dag, cursor, round, running, emitted>>
  BY DEF vars
<1>3. Moves(d, disk[d], dev[d], dag[d], cursor[d], round[d])
  BY <1>2, KindsHere DEF Moves
<1>4. IsDevice(All, Len(log), d, disk[d], dev[d], dag[d], cursor[d], round[d], running'[d])
  BY <1>2, KindsHere
<1> QED BY <1>2, <1>3, <1>4, SilentStep

LEMMA KindsNext ==
  ASSUME NullsApart, KindsInv, PendingInv, [Next]_vars
  PROVE  KindsInv'
<1>1. CASE UNCHANGED vars
  BY <1>1, IdleKinds
<1>2. CASE \E d \in Devices :
             \/ BeginRound(d) \/ Pull(d) \/ Push(d) \/ Merge(d) \/ ApplyEmits(d)
             \/ ApplyFlushes(d) \/ FoldPass(d) \/ SaveCursor(d) \/ RoundFails(d)
             \/ Crash(d) \/ Start(d) \/ GraphLost(d)
  BY <1>2, BeginRoundKinds, PullKinds, PushKinds, MergeKinds, ApplyEmitsKinds, ApplyFlushesKinds,
     FoldPassKinds, SaveCursorKinds, RoundFailsKinds, CrashKinds, StartKinds, GraphLostKinds
<1>3. CASE \E d \in Devices, f \in Files :
             \/ ApplyFile(d, f) \/ ApplyThrows(d, f) \/ FoldFile(d, f) \/ FoldMissing(d, f)
  BY <1>3, ApplyKinds, FoldFileKinds, FoldMissingKinds
<1>4. CASE \E d \in Devices, f \in Files :
             \/ Calm(d, f) /\ UserResolve(d, f)
             \/ \E e \in Typable[d] : UserEdit(d, f, e)
             \/ round[d] = NoRound /\ DebounceFires(d, f)
  BY <1>4, UserResolveKinds, UserEditKinds, DebounceKinds
<1> QED BY <1>1, <1>2, <1>3, <1>4 DEF Next

----------------------------------------------------------------------------
(* From the kinds to the types, and the theorem *)

\* The server has the first version of every file.
RootsKept == \A f \in Files : Root(f).id \in Ids(log)

LEMMA RootsInOrder ==
  ASSUME Init
  PROVE  \E n \in Nat : log \in Injection(1..n, {Root(f) : f \in Files})
                          /\ log \in Surjection(1..n, {Root(f) : f \in Files})
<1> DEFINE S == {Root(f) : f \in Files}
           n == Cardinality(S)
<1>1. IsFiniteSet(S)
  <2> DEFINE first == [f \in Files |-> Root(f)]
  <2>1. first \in Surjection(Files, S)
    BY DEF Surjection
  <2> QED BY <2>1, DevicesAssumption, FS_Surjection
<1>3. log = SetToSeq(S)
  BY DEF Init
<1> HIDE DEF S
<1>4. n \in Nat /\ ExistsBijection(1..n, S)
  BY <1>1, FS_CardinalityType
<1>5. \E g \in [1..n -> S] : IsInjective(g)
  BY <1>4 DEF ExistsBijection, Bijection, Injection, IsInjective
<1>6. log \in [1..n -> S] /\ IsInjective(log)
  BY <1>3, <1>5 DEF SetToSeq
<1>7. log \in Injection(1..n, S)
  BY <1>6 DEF Injection, IsInjective
<1>8. IsFiniteSet(1..n) /\ Cardinality(1..n) = n
  BY <1>4, FS_Interval
<1>9. log \in Surjection(1..n, S)
  BY <1>1, <1>7, <1>8, FS_Injection
<1> QED BY <1>4, <1>7, <1>9 DEF S

LEMMA InitRoots == ASSUME Init PROVE RootsKept
<1> DEFINE S == {Root(f) : f \in Files}
<1>1. PICK n \in Nat : log \in Injection(1..n, S) /\ log \in Surjection(1..n, S)
  BY RootsInOrder
<1>2. \A s \in S : \E i \in DOMAIN log : log[i] = s
  <2> HIDE DEF S
  <2> QED BY <1>1 DEF Surjection
<1>3. \A f \in Files : Root(f) \in S
  OBVIOUS
<1> HIDE DEF S
<1> QED BY <1>2, <1>3 DEF RootsKept, Ids

LEMMA RootsStep ==
  ASSUME RootsKept, PendingInv, [Next]_vars
  PROVE  RootsKept'
<1>1. Ids(log) \subseteq Ids(log')
  BY PendingStep DEF Carries
<1>2. \A f \in Files : Root(f).id \in Ids(log')
  BY <1>1 DEF RootsKept
<1>3. Ids(log)' = Ids(log') /\ \A f \in Files : (Root(f).id)' = Root(f).id
  BY DEF Ids, Root, EditOp
<1> QED BY <1>2, <1>3 DEF RootsKept

\* A version of a file is a version of the truth.
LEMMA VersionsAreTrue ==
  ASSUME KindsInv, RootsKept, NEW f
  PROVE  Versions(All, f) \subseteq DOMAIN Truth
<1> DEFINE ops == ToSet(log) \cup emitted
<1>1. DOMAIN Truth = {op.id : op \in ops}
  BY DEF Truth
<1>2. ASSUME NEW op \in All PROVE op.id \in {o.id : o \in ops}
  <2>1. CASE op \in emitted
    BY <2>1
  <2>2. CASE op \in {Root(x) : x \in Files}
    <3>1. PICK i \in DOMAIN log : log[i].id = op.id
      BY <2>2 DEF RootsKept, Ids
    <3>2. log[i] \in ToSet(log)
      BY <3>1 DEF ToSet
    <3> QED BY <3>1, <3>2
  <2> QED BY <2>1, <2>2 DEF All
<1> QED BY <1>1, <1>2 DEF Versions

LEMMA KindsGiveTypes ==
  ASSUME KindsInv, PendingInv, RootsKept
  PROVE  TypeOK
<1>1. ASSUME NEW i \in DOMAIN log PROVE log[i].file \in Files /\ log[i].hash \subseteq Pairs
  <2>1. log[i] \in All
    BY DEF KindsInv, ToSet
  <2> QED BY <2>1 DEF KindsInv, AreOps, IsOp, IsText
<1>2. ASSUME NEW d \in Devices
      PROVE  /\ cursor[d] \in 0..Len(log)
             /\ armed[d] \subseteq Files /\ running[d] \in BOOLEAN
             /\ round[d] # NoRound => running[d]
  BY KindsHere DEF PendingInv, RoundOf
<1>3. ASSUME NEW d \in Devices
      PROVE  IsInjective([i \in DOMAIN dev[d].ops |-> dev[d].ops[i].id])
  <2>1. DistinctIds(dev[d].ops)
    BY KindsHere DEF IsDev
  <2> QED BY <2>1 DEF DistinctIds, IsInjective
<1>4. ASSUME NEW d \in Devices, NEW f \in Files
      PROVE  /\ disk[d][f] \subseteq Pairs /\ Heads(d, f) \subseteq DOMAIN Truth
             /\ Cardinality(dev[d].reg[f].conf) \in {0, 2}
  <2>1. IsEntry(All, f, dev[d].reg[f])
    BY KindsHere DEF IsDev, IsReg
  <2>2. disk[d][f] \subseteq Pairs
    BY KindsHere
  <2> QED BY <2>1, <2>2, VersionsAreTrue DEF IsEntry, Heads
<1> QED BY <1>1, <1>2, <1>3, <1>4 DEF TypeOK

\* Spec implies TypeOK: for any devices, files, texts, edits and faults, through captures,
\* pulls, pushes, merges, applied and emitted actions, folds, crashes and lost graphs, a
\* device's cursor never passes the end of the server's log (safeCursor), no id is pending
\* twice (recordOp, the merge nodes of the applicator and of the flushes), and every head
\* and conflict head names a version that a device recorded, of conflict heads none or two
\* (conflictHeads).
THEOREM TypesHold == NullsApart /\ Spec => []TypeOK
<1> DEFINE Kinds == KindsInv /\ PendingInv /\ RootsKept
<1>1. Init => Kinds
  BY InitKinds, InitPending, InitRoots
<1>2. NullsApart /\ Kinds /\ [Next]_vars => Kinds'
  BY KindsNext, PendingStep, RootsStep
<1>3. Kinds => TypeOK
  BY KindsGiveTypes
<1>4. ASSUME NullsApart PROVE Spec => []TypeOK
  <2>1. Kinds /\ [Next]_vars => Kinds'
    BY <1>2, <1>4
  <2> QED BY <1>1, <1>3, <2>1, PTL DEF Spec
<1> QED BY <1>4

----------------------------------------------------------------------------
(* The server has no op twice *)

LEMMA InitDistinct == ASSUME Init PROVE DistinctIds(log)
<1> DEFINE S == {Root(f) : f \in Files}
<1>1. PICK n \in Nat : log \in Injection(1..n, S)
  BY RootsInOrder
<1>2. \A a, b \in S : a.id = b.id => a = b
  BY RootKinds
<1> HIDE DEF S
<1>3. /\ \A i \in DOMAIN log : log[i] \in S
      /\ \A i, j \in DOMAIN log : log[i] = log[j] => i = j
  BY <1>1 DEF Injection, IsInjective
<1> QED BY <1>2, <1>3 DEF DistinctIds

LEMMA SubDistinct ==
  ASSUME NEW s, IsSeq(s), DistinctIds(s), NEW k \in 0..Len(s)
  PROVE  IsSeq(SubSeq(s, 1, k)) /\ DistinctIds(SubSeq(s, 1, k))
<1>1. s \in Seq({s[i] : i \in DOMAIN s}) /\ DOMAIN s = 1..Len(s) /\ Len(s) \in Nat
  BY DEF IsSeq
<1>2. DOMAIN SubSeq(s, 1, k) = 1..k /\ \A i \in 1..k : SubSeq(s, 1, k)[i] = s[i]
  BY <1>1
<1>3. IsSeq(SubSeq(s, 1, k))
  BY <1>1, SubMembers
<1>4. 1..k \subseteq DOMAIN s
  BY <1>1
<1> QED BY <1>2, <1>3, <1>4 DEF DistinctIds

\* A round sends what was pending, or the beginning of it.
LEMMA SentDistinct ==
  ASSUME KindsInv, PendingInv, NEW d \in Devices, Push(d) \/ RoundFails(d)
  PROVE  log' = log \/ \E s : IsSeq(s) /\ DistinctIds(s) /\ log' = AppendOps(s)
<1> SUFFICES ASSUME log' # log
             PROVE  \E s : IsSeq(s) /\ DistinctIds(s) /\ log' = AppendOps(s)
  OBVIOUS
<1> DEFINE ops == round[d].ops
<1>1. InPhase(d, "push") /\ (\/ log' = AppendOps(ops)
                              \/ \E k \in 0..Len(ops) : log' = AppendOps(SubSeq(ops, 1, k)))
  BY DEF Push, RoundFails
<1>2. ops = dev[d].ops
  BY <1>1 DEF PendingInv, RoundOf, InPhase
<1>3. IsSeq(ops) /\ DistinctIds(ops)
  BY <1>2, KindsHere DEF IsDev, Kept
<1> HIDE DEF ops
<1> QED BY <1>1, <1>3, SubDistinct

LEMMA LogStep ==
  ASSUME KindsInv, PendingInv, [Next]_vars
  PROVE  log' = log \/ \E s : IsSeq(s) /\ DistinctIds(s) /\ log' = AppendOps(s)
<1>1. CASE \E d \in Devices : Push(d) \/ RoundFails(d)
  BY <1>1, SentDistinct
<1>2. CASE \E d \in Devices :
             \/ BeginRound(d) \/ Pull(d) \/ Merge(d) \/ ApplyEmits(d) \/ ApplyFlushes(d)
             \/ FoldPass(d) \/ SaveCursor(d) \/ Crash(d) \/ Start(d) \/ GraphLost(d)
  <2> SUFFICES ASSUME NEW d \in Devices,
                      \/ BeginRound(d) \/ Pull(d) \/ Merge(d) \/ ApplyEmits(d) \/ ApplyFlushes(d)
                      \/ FoldPass(d) \/ SaveCursor(d) \/ Crash(d) \/ Start(d) \/ GraphLost(d)
               PROVE  log' = log
    BY <1>2
  <2>1. BeginRound(d) \/ Pull(d) => log' = log
    BY DEF BeginRound, Pull
  <2>2. Merge(d) \/ FoldPass(d) => log' = log
    BY DEF Merge, FoldPass
  <2>3. ApplyEmits(d) \/ ApplyFlushes(d) => log' = log
    BY DEF ApplyEmits, ApplyFlushes
  <2>4. SaveCursor(d) \/ Crash(d) \/ Start(d) \/ GraphLost(d) => log' = log
    BY DEF SaveCursor, Crash, Start, GraphLost
  <2> QED BY <2>1, <2>2, <2>3, <2>4
<1>3. CASE \E d \in Devices, f \in Files :
             \/ ApplyFile(d, f) \/ ApplyThrows(d, f) \/ FoldFile(d, f) \/ FoldMissing(d, f)
             \/ UserResolve(d, f) \/ DebounceFires(d, f) \/ \E e \in Typable[d] : UserEdit(d, f, e)
  <2> SUFFICES ASSUME NEW d \in Devices, NEW f \in Files,
                      \/ ApplyFile(d, f) \/ ApplyThrows(d, f) \/ FoldFile(d, f) \/ FoldMissing(d, f)
                      \/ UserResolve(d, f) \/ DebounceFires(d, f)
                      \/ \E e \in Typable[d] : UserEdit(d, f, e)
               PROVE  log' = log
    BY <1>3
  <2>1. ApplyFile(d, f) \/ ApplyThrows(d, f) => log' = log
    BY DEF ApplyFile, ApplyThrows
  <2>2. FoldFile(d, f) => log' = log
    BY DEF FoldFile
  <2>3. FoldMissing(d, f) => log' = log
    BY DEF FoldMissing
  <2>4. UserResolve(d, f) \/ DebounceFires(d, f) => log' = log
    BY DEF UserResolve, DebounceFires
  <2>5. \A e : UserEdit(d, f, e) => log' = log
    BY DEF UserEdit
  <2> QED BY <2>1, <2>2, <2>3, <2>4, <2>5
<1> QED BY <1>1, <1>2, <1>3 DEF Next, vars

LEMMA DistinctStep ==
  ASSUME KindsInv, PendingInv, DistinctIds(log), [Next]_vars
  PROVE  DistinctIds(log)'
<1>1. DistinctIds(log')
  BY LogStep, KindsHere, AppendOpsMembers, DevicesAssumption
<1> QED BY <1>1 DEF DistinctIds

\* For any devices, files, texts, edits and faults, no version id comes twice in the
\* server's log, though a round repeats what a failed one had sent already, or sent in part,
\* and a merge node is recorded from its content and parents, by any device that has them.
THEOREM ServerTakesAnOpOnce == NullsApart /\ Spec => []DistinctIds(log)
<1> DEFINE Kinds == KindsInv /\ PendingInv /\ DistinctIds(log)
<1>1. Init => Kinds
  BY InitKinds, InitPending, InitDistinct
<1>2. NullsApart /\ Kinds /\ [Next]_vars => Kinds'
  BY KindsNext, PendingStep, DistinctStep
<1>3. ASSUME NullsApart PROVE Spec => []DistinctIds(log)
  <2>1. Kinds /\ [Next]_vars => Kinds'
    BY <1>2, <1>3
  <2> QED BY <1>1, <2>1, PTL DEF Spec
<1> QED BY <1>3

----------------------------------------------------------------------------
(* The graph knows what the cursor has passed *)

\* The first n ops of a log s are versions of the graph g.
Passed(s, g, n) == \A i \in 1..n : s[i].id \in DOMAIN g

\* What a device has consumed is in its graph, unless the graph is lost: then the next
\* round pulls from the start (dagNeedsRebuild).
PassedIsInGraph == \A d \in Devices : dag[d] # EmptyDag => Passed(log, dag[d], cursor[d])

Sending == {"push", "merge"}
Writing == {"apply", "flush", "fold", "foldfile"}

Sends(r)  == r # NoRound /\ r.phase \in Sending
Writes(r) == r # NoRound /\ r.phase \in Writing

\* The same with what a round r holds.  The cursor is where its pull began; up to the merge
\* the pulled ops are those that follow, from then on they are in the graph.
PassedOf(s, g, c, r) ==
    /\ g # EmptyDag => Passed(s, g, c)
    /\ Sends(r) => /\ c = r.start /\ (g = EmptyDag => c = 0)
                   /\ \A i \in DOMAIN r.pulled : s[r.start + i] = r.pulled[i]
    /\ Writes(r) => c = r.start /\ Passed(s, g, r.start + Len(r.pulled))

PassedInv == \A d \in Devices : PassedOf(log, dag[d], cursor[d], round[d])

\* The log only grows.
LogExtended ==
    /\ Len(log) \in Nat /\ Len(log') \in Nat /\ Len(log) <= Len(log')
    /\ \A i \in 1..Len(log) : log'[i] = log[i]

LEMMA LogExtends ==
  ASSUME KindsInv, PendingInv, [Next]_vars
  PROVE  LogExtended
BY LogStep, KindsHere, AppendOpsMembers, DevicesAssumption DEF LogExtended

\* A round that has pulled.
LEMMA PulledKinds ==
  ASSUME KindsInv, PendingInv, NEW d \in Devices, Sends(round[d]) \/ Writes(round[d])
  PROVE  /\ round[d].start \in Nat /\ Len(round[d].pulled) \in Nat
         /\ round[d].start + Len(round[d].pulled) \in 0..Len(log)
         /\ DOMAIN round[d].pulled = 1..Len(round[d].pulled) /\ IsSeq(round[d].pulled)
<1>1. IsPull(All, Len(log), round[d])
  BY KindsHere DEF IsRound, Pushes, Applies, Flushes, Folds, Sends, Writes, Sending, Writing
<1> QED BY <1>1, KindsHere DEF IsPull, IsSeq

LEMMA PassedGrows ==
  ASSUME KindsInv, PendingInv, LogExtended, NEW d \in Devices,
         PassedOf(log, dag[d], cursor[d], round[d])
  PROVE  PassedOf(log', dag[d], cursor[d], round[d])
<1> DEFINE g == dag[d]
           r == round[d]
<1>1. \A n \in 0..Len(log) : Passed(log, g, n) => Passed(log', g, n)
  BY DEF Passed, LogExtended
<1>2. cursor[d] \in 0..Len(log)
  BY KindsHere
<1>3. ASSUME Sends(r), NEW i \in DOMAIN r.pulled PROVE log'[r.start + i] = r.pulled[i]
  <2>1. /\ r.start \in Nat /\ Len(r.pulled) \in Nat /\ i \in 1..Len(r.pulled)
        /\ r.start + Len(r.pulled) \in 0..Len(log) /\ Len(log) \in Nat
    BY <1>3, PulledKinds DEF LogExtended
  <2>2. r.start + i \in 1..Len(log)
    <3> HIDE DEF r
    <3> QED BY <2>1
  <2> QED BY <1>3, <2>2 DEF LogExtended, PassedOf
<1>4. Writes(r) => r.start + Len(r.pulled) \in 0..Len(log)
  BY PulledKinds
<1> QED BY <1>1, <1>2, <1>3, <1>4 DEF PassedOf

\* What a step of device d has to establish.
LEMMA PassedStep ==
  ASSUME KindsInv, PendingInv, PassedInv, LogExtended, NEW d \in Devices, NEW g, NEW c, NEW r,
         dag' = [dag EXCEPT ![d] = g], cursor' = [cursor EXCEPT ![d] = c],
         round' = [round EXCEPT ![d] = r],
         PassedOf(log', dag[d], cursor[d], round[d]) => PassedOf(log', g, c, r)
  PROVE  PassedInv'
<1>1. ASSUME NEW e \in Devices PROVE PassedOf(log', dag[e], cursor[e], round[e])
  BY PassedGrows DEF PassedInv
<1>2. ASSUME NEW e \in Devices PROVE PassedOf(log', dag'[e], cursor'[e], round'[e])
  <2>1. CASE e = d
    <3>1. dag'[d] = g /\ cursor'[d] = c /\ round'[d] = r
      BY DEF KindsInv, PendingInv
    <3> QED BY <1>1, <2>1, <3>1
  <2>2. CASE e # d
    <3>1. dag'[e] = dag[e] /\ cursor'[e] = cursor[e] /\ round'[e] = round[e]
      BY <2>2 DEF KindsInv, PendingInv
    <3> QED BY <1>1, <3>1
  <2> QED BY <2>1, <2>2
<1>3. ASSUME NEW e \in Devices PROVE PassedOf(log, dag[e], cursor[e], round[e])'
  <2>1. PassedOf(log', dag'[e], cursor'[e], round'[e])
    BY <1>2
  <2> QED BY <2>1
<1> QED BY <1>3 DEF PassedInv

\* The graph may grow once the ops are in it, and the round go on or end.
LEMMA GoesOn ==
  ASSUME NEW s, NEW g, NEW c, NEW r, PassedOf(s, g, c, r),
         NEW g2, NEW r2,
         \/ g2 = g /\ ~ Sends(r2) /\ ~ Writes(r2)
         \/ g2 = g /\ Sends(r) /\ r2.phase \in Sending /\ r2.start = r.start /\ r2.pulled = r.pulled
         \/ /\ DOMAIN g \subseteq DOMAIN g2 /\ Writes(r) /\ r2.phase \in Writing
            /\ r2.start = r.start /\ r2.pulled = r.pulled
            /\ r.start \in Nat /\ Len(r.pulled) \in Nat
  PROVE  PassedOf(s, g2, c, r2)
<1>1. ASSUME Writes(r), DOMAIN g \subseteq DOMAIN g2, r.start \in Nat, Len(r.pulled) \in Nat
      PROVE  Passed(s, g2, c) /\ Passed(s, g2, r.start + Len(r.pulled))
  <2>1. c = r.start /\ Passed(s, g, r.start + Len(r.pulled))
    BY <1>1 DEF PassedOf
  <2>2. 1..c \subseteq 1..(r.start + Len(r.pulled))
    BY <1>1, <2>1
  <2> QED BY <1>1, <2>1, <2>2 DEF Passed
<1>2. /\ r2.phase \in Sending => ~ Writes(r2)
      /\ r2.phase \in Writing => ~ Sends(r2)
  BY DEF Sends, Writes, Sending, Writing
<1> QED BY <1>1, <1>2 DEF PassedOf
LEMMA GoesStep ==
  ASSUME KindsInv, PendingInv, PassedInv, LogExtended, NEW d \in Devices, NEW g2, NEW r2,
         dag' = [dag EXCEPT ![d] = g2], cursor' = cursor, round' = [round EXCEPT ![d] = r2],
         \/ g2 = dag[d] /\ ~ Sends(r2) /\ ~ Writes(r2)
         \/ /\ g2 = dag[d] /\ Sends(round[d]) /\ r2.phase \in Sending
            /\ r2.start = round[d].start /\ r2.pulled = round[d].pulled
         \/ /\ DOMAIN dag[d] \subseteq DOMAIN g2 /\ Writes(round[d]) /\ r2.phase \in Writing
            /\ r2.start = round[d].start /\ r2.pulled = round[d].pulled
  PROVE  PassedInv'
<1>1. cursor' = [cursor EXCEPT ![d] = cursor[d]]
  BY KindsHere
<1>2. Writes(round[d]) => round[d].start \in Nat /\ Len(round[d].pulled) \in Nat
  BY PulledKinds
<1>3. PassedOf(log', dag[d], cursor[d], round[d]) => PassedOf(log', g2, cursor[d], r2)
  BY <1>2, GoesOn
<1> QED BY <1>1, <1>3, PassedStep

\* A step that touches neither graph, cursor nor round.
LEMMA PassedStays ==
  ASSUME KindsInv, PendingInv, PassedInv, LogExtended, UNCHANGED <<dag, cursor, round>>
  PROVE  PassedInv'
<1>1. PICK d \in Devices : TRUE
  BY DevicesAssumption
<1>2. /\ dag' = [dag EXCEPT ![d] = dag[d]] /\ cursor' = [cursor EXCEPT ![d] = cursor[d]]
      /\ round' = [round EXCEPT ![d] = round[d]]
  BY KindsHere
<1> DEFINE g == dag[d]
           c == cursor[d]
           r == round[d]
<1>3. /\ dag' = [dag EXCEPT ![d] = g] /\ cursor' = [cursor EXCEPT ![d] = c]
      /\ round' = [round EXCEPT ![d] = r]
      /\ PassedOf(log', dag[d], cursor[d], round[d]) => PassedOf(log', g, c, r)
  BY <1>2
<1> HIDE DEF g, c, r
<1> QED BY <1>3, PassedStep

LEMMA EndPassed ==
  ASSUME KindsInv, PendingInv, PassedInv, LogExtended, NEW d \in Devices,
         BeginRound(d) \/ RoundFails(d) \/ Crash(d)
  PROVE  PassedInv'
<1>1. PICK r2 : r2 \in {NoRound, [phase |-> "captured"]} /\ round' = [round EXCEPT ![d] = r2]
  BY DEF BeginRound, RoundFails, Crash
<1>2. dag' = dag /\ cursor' = cursor
  BY DEF BeginRound, RoundFails, Crash
<1>3. dag' = [dag EXCEPT ![d] = dag[d]]
  BY <1>2, KindsHere
<1>4. ~ Sends(r2) /\ ~ Writes(r2)
  BY <1>1 DEF Sends, Writes, Sending, Writing
<1> QED BY <1>1, <1>2, <1>3, <1>4, GoesStep

LEMMA GraphLostPassed ==
  ASSUME KindsInv, PendingInv, PassedInv, LogExtended, NEW d \in Devices, GraphLost(d)
  PROVE  PassedInv'
<1>1. /\ dag' = [dag EXCEPT ![d] = EmptyDag] /\ cursor' = [cursor EXCEPT ![d] = cursor[d]]
      /\ round' = [round EXCEPT ![d] = round[d]] /\ round[d] = NoRound
  BY KindsHere DEF GraphLost
<1>2. PassedOf(log', EmptyDag, cursor[d], round[d])
  BY <1>1 DEF PassedOf, Sends, Writes
<1> QED BY <1>1, <1>2, PassedStep

LEMMA PullPassed ==
  ASSUME KindsInv, PendingInv, PassedInv, LogExtended, NEW d \in Devices, Pull(d)
  PROVE  PassedInv'
<1> DEFINE n   == StartCursor(d)
           ops == SubSeq(log, n + 1, Len(log))
<1>1. PICK r : /\ round' = [round EXCEPT ![d] = r] /\ r.phase \in {"push", "merge"}
               /\ r.start = n /\ r.pulled = ops
  <2>1. PICK missing : round' = [round EXCEPT ![d] =
            [phase |-> IF dev[d].ops = <<>> THEN "merge" ELSE "push",
             snap |-> SnapshotOf(d), ops |-> dev[d].ops, clock |-> dev[d].clock,
             start |-> n, pulled |-> ops, missing |-> missing]]
    BY DEF Pull
  <2> DEFINE r == [phase |-> IF dev[d].ops = <<>> THEN "merge" ELSE "push",
                   snap |-> SnapshotOf(d), ops |-> dev[d].ops, clock |-> dev[d].clock,
                   start |-> n, pulled |-> ops, missing |-> missing]
  <2> HIDE DEF n, ops
  <2>2. r.phase \in {"push", "merge"} /\ r.start = n /\ r.pulled = ops
    OBVIOUS
  <2>3. round' = [round EXCEPT ![d] = r]
    BY <2>1
  <2> HIDE DEF r
  <2> QED BY <2>2, <2>3
<1>2. /\ dag' = [dag EXCEPT ![d] = dag[d]] /\ cursor' = [cursor EXCEPT ![d] = n] /\ log' = log
  BY KindsHere DEF Pull
<1>3. IsSeq(log) /\ Len(log) \in Nat /\ cursor[d] \in 0..Len(log)
  BY KindsHere
<1>4. n \in 0..Len(log) /\ (dag[d] = EmptyDag => n = 0) /\ (dag[d] # EmptyDag => n = cursor[d])
  BY <1>3 DEF StartCursor
<1> HIDE DEF n
<1>5. \A i \in DOMAIN ops : log[n + i] = ops[i]
  <2>1. log \in Seq({log[i] : i \in DOMAIN log})
    BY <1>3 DEF IsSeq
  <2>2. n \in Nat /\ Len(log) \in Nat /\ n + 1 \in Nat
    BY <1>3, <1>4
  <2>3. /\ Len(ops) \in Nat /\ DOMAIN ops = 1..Len(ops)
        /\ \A i \in 1..Len(ops) : ops[i] = log[n + 1 + i - 1]
    BY <2>1, <2>2
  <2> HIDE DEF ops
  <2>4. \A i \in 1..Len(ops) : n + 1 + i - 1 = n + i
    BY <2>2, <2>3
  <2> QED BY <2>3, <2>4
<1> HIDE DEF ops
<1>6. dag[d] # EmptyDag => Passed(log', dag[d], n)
  BY <1>2, <1>4 DEF PassedInv, PassedOf
<1>7. PassedOf(log', dag[d], n, r)
  <2>1. ~ Writes(r)
    BY <1>1 DEF Writes, Writing
  <2> QED BY <1>1, <1>2, <1>4, <1>5, <1>6, <2>1 DEF PassedOf
<1> QED BY <1>1, <1>2, <1>7, PassedStep

LEMMA PushPassed ==
  ASSUME KindsInv, PendingInv, PassedInv, LogExtended, NEW d \in Devices, Push(d)
  PROVE  PassedInv'
<1> DEFINE r == [round[d] EXCEPT !.phase = "merge"]
<1>1. /\ round' = [round EXCEPT ![d] = r] /\ dag' = [dag EXCEPT ![d] = dag[d]] /\ cursor' = cursor
  BY KindsHere DEF Push
<1>2. Sends(round[d]) /\ "phase" \in DOMAIN round[d]
  BY KindsHere DEF Push, InPhase, Sends, Sending, IsRound
<1>3. Pushes(All, Len(log), round[d], dev[d])
  BY <1>2, KindsHere DEF Sends, Sending, IsRound
<1>4. r.phase \in Sending /\ r.start = round[d].start /\ r.pulled = round[d].pulled
  BY <1>2, <1>3 DEF Pushes, Sending
<1> HIDE DEF r
<1> QED BY <1>1, <1>2, <1>4, GoesStep

LEMMA MergePassed ==
  ASSUME KindsInv, PendingInv, PassedInv, LogExtended, NEW d \in Devices, Merge(d)
  PROVE  PassedInv'
<1> DEFINE g    == GraphWith(d)
           ops  == round[d].ops
           pull == round[d].pulled
           n    == round[d].start
<1>1. PICK r : /\ round' = [round EXCEPT ![d] = r] /\ r.phase = "apply"
               /\ r.start = n /\ r.pulled = pull
  <2> DEFINE acts == [f \in Files |-> MergeAction(d, g, f, Snapshot(d)[f],
                                       RemoteEntry(d, round[d].pulled, f), round[d].missing)]
             todo == {f \in Files : acts[f].type \notin {"no_op", "send_remote"}}
             r == [phase |-> "apply", snap |-> round[d].snap, start |-> round[d].start,
                   pulled |-> round[d].pulled, missing |-> round[d].missing, acts |-> acts,
                   todo |-> todo, reg |-> dev[d].reg, blobs |-> {}, minted |-> <<>>,
                   deferred |-> {}]
  <2>1. round' = [round EXCEPT ![d] =
                 [phase |-> "apply", snap |-> @.snap, start |-> @.start, pulled |-> @.pulled,
                  missing |-> @.missing, acts |-> acts, todo |-> todo,
                  reg |-> dev[d].reg, blobs |-> {}, minted |-> <<>>, deferred |-> {}]]
    BY DEF Merge
  <2> HIDE DEF acts, todo, g
  <2>2. round' = [round EXCEPT ![d] = r]
    BY <2>1 DEF PendingInv
  <2>3. r.phase = "apply" /\ r.start = n /\ r.pulled = pull
    OBVIOUS
  <2> HIDE DEF r
  <2> QED BY <2>2, <2>3
<1>2. /\ dag' = [dag EXCEPT ![d] = g] /\ cursor' = [cursor EXCEPT ![d] = cursor[d]]
  BY KindsHere DEF Merge
<1>3. Pushes(All, Len(log), round[d], dev[d]) /\ Sends(round[d])
  BY KindsHere DEF Merge, InPhase, IsRound, Sends, Sending
<1>4. /\ IsSeq(ops) /\ ToSet(ops) \subseteq All /\ IsSeq(pull) /\ ToSet(pull) \subseteq All
      /\ n \in Nat /\ Len(pull) \in Nat /\ DOMAIN pull = 1..Len(pull)
  BY <1>3, PulledKinds DEF Pushes, IsPull
<1>5. AreOps(All) /\ IsGraph(All, dag[d]) /\ cursor[d] \in Nat
  BY KindsHere
<1>6. IsSeq(ops \o pull) /\ ToSet(ops \o pull) \subseteq All
  <2>1. IsSeq(ops \o pull) /\ ToSet(ops \o pull) = ToSet(ops) \cup ToSet(pull)
    BY <1>4, ConcatMembers
  <2> QED BY <1>4, <2>1
<1>7. DOMAIN g = DOMAIN dag[d] \cup Ids(ops \o pull)
  BY <1>5, <1>6, RecordEdgesGraph DEF GraphWith
<1>8. \A i \in 1..Len(pull) : pull[i].id \in Ids(ops \o pull)
  <2>1. /\ Len(ops) \in Nat /\ DOMAIN (ops \o pull) = 1..(Len(ops) + Len(pull))
        /\ \A i \in 1..Len(pull) : (ops \o pull)[Len(ops) + i] = pull[i]
    <3> HIDE DEF ops, pull
    <3> QED BY <1>4, ConcatMembers
  <2> HIDE DEF ops, pull
  <2>2. \A i \in 1..Len(pull) : Len(ops) + i \in 1..(Len(ops) + Len(pull))
    BY <1>4, <2>1
  <2> QED BY <2>1, <2>2 DEF Ids
<1> HIDE DEF g
<1>9. ASSUME PassedOf(log', dag[d], cursor[d], round[d]) PROVE PassedOf(log', g, cursor[d], r)
  <2>1. /\ cursor[d] = n /\ (dag[d] = EmptyDag => n = 0)
        /\ \A i \in DOMAIN pull : log'[n + i] = pull[i]
        /\ (dag[d] # EmptyDag => Passed(log', dag[d], n))
    BY <1>3, <1>9 DEF PassedOf
  <2> HIDE DEF n, pull, ops
  <2>2. Passed(log', dag[d], n)
    BY <2>1 DEF Passed
  <2>3. \A i \in 1..(n + Len(pull)) : log'[i].id \in DOMAIN g
    <3> SUFFICES ASSUME NEW i \in 1..(n + Len(pull)) PROVE log'[i].id \in DOMAIN g
      OBVIOUS
    <3>1. CASE i \in 1..n
      BY <1>7, <2>2, <3>1 DEF Passed
    <3>2. CASE i \notin 1..n
      <4>1. i - n \in 1..Len(pull) /\ n + (i - n) = i
        BY <1>4, <3>2
      <4>2. log'[n + (i - n)] = pull[i - n]
        BY <1>4, <2>1, <4>1
      <4> QED BY <1>7, <1>8, <4>1, <4>2
    <3> QED BY <3>1, <3>2
  <2>4. Passed(log', g, n)
    BY <1>7, <2>2 DEF Passed
  <2>5. ~ Sends(r)
    BY <1>1 DEF Sends, Sending
  <2> QED BY <1>1, <2>1, <2>3, <2>4, <2>5 DEF PassedOf, Passed
<1> QED BY <1>1, <1>2, <1>9, PassedStep

LEMMA ApplyPassed ==
  ASSUME KindsInv, PendingInv, PassedInv, LogExtended, NEW d \in Devices, NEW f \in Files,
         ApplyFile(d, f) \/ ApplyThrows(d, f)
  PROVE  PassedInv'
<1>1. Writes(round[d]) /\ Applies(All, Len(log), disk[d], round[d]) /\ round[d].phase = "apply"
  BY KindsHere DEF ApplyFile, ApplyThrows, InPhase, IsRound, Writes, Writing
<1>2. dag' = [dag EXCEPT ![d] = dag[d]] /\ cursor' = cursor
  BY KindsHere DEF ApplyFile, ApplyThrows
<1>3. ASSUME round' = [round EXCEPT ![d].todo = @ \ {f}, ![d].deferred = @ \cup {f}]
      PROVE  PassedInv'
  <2> DEFINE r == [round[d] EXCEPT !.todo = @ \ {f}, !.deferred = @ \cup {f}]
  <2>1. round' = [round EXCEPT ![d] = r]
    BY <1>3 DEF PendingInv
  <2>2. r.phase \in Writing /\ r.start = round[d].start /\ r.pulled = round[d].pulled
    BY <1>1 DEF Applies, Writing
  <2> HIDE DEF r
  <2> QED BY <1>1, <1>2, <2>1, <2>2, GoesStep
<1>4. ASSUME ApplyFile(d, f), ~ Drifted(d, f, Snapshot(d)) PROVE PassedInv'
  <2> DEFINE act == round[d].acts[f]
             k   == IF act.type = "write_local" THEN dev[d].clock ELSE dev[d].clock + 1
             x   == Adopted(d, round[d].reg[f], act, k)
             m   == Minted(d, f, act, k)
             r == [round[d] EXCEPT !.todo = @ \ {f}, !.blobs = @ \cup {act.content},
                                   !.reg[f] = x, !.minted = @ \o m]
  <2>1. round' = [round EXCEPT ![d] = r]
    BY <1>4 DEF ApplyFile
  <2>2. r.phase \in Writing /\ r.start = round[d].start /\ r.pulled = round[d].pulled
    <3> HIDE DEF x, m
    <3> QED BY <1>1 DEF Applies, Writing
  <2> HIDE DEF r
  <2> QED BY <1>1, <1>2, <2>1, <2>2, GoesStep
<1> QED BY <1>3, <1>4 DEF ApplyFile, ApplyThrows

LEMMA WritePassed ==
  ASSUME KindsInv, PendingInv, PassedInv, LogExtended, NEW d \in Devices,
         ApplyEmits(d) \/ ApplyFlushes(d)
  PROVE  PassedInv'
<1>1. dag' = [dag EXCEPT ![d] = dag[d]] /\ cursor' = cursor
  BY KindsHere DEF ApplyEmits, ApplyFlushes
<1>2. ASSUME ApplyEmits(d) PROVE PassedInv'
  <2> DEFINE c == [dev[d] EXCEPT !.ops = <<>>, !.store = @ \cup round[d].blobs,
                                 !.reg = round[d].reg]
             v == Emit(c, d, round[d].minted, round[d].deferred)
             r == [round[d] EXCEPT !.phase = "flush", !.reg = v.reg]
  <2>1. Writes(round[d]) /\ Applies(All, Len(log), disk[d], round[d])
    BY <1>2, KindsHere DEF ApplyEmits, InPhase, IsRound, Writes, Writing
  <2>2. round' = [round EXCEPT ![d].phase = "flush", ![d].reg = v.reg]
    BY <1>2 DEF ApplyEmits
  <2> HIDE DEF v
  <2>3. round' = [round EXCEPT ![d] = r]
    BY <2>2 DEF PendingInv
  <2>4. r.phase \in Writing /\ r.start = round[d].start /\ r.pulled = round[d].pulled
    BY <2>1 DEF Applies, Writing
  <2> HIDE DEF r
  <2> QED BY <1>1, <2>1, <2>3, <2>4, GoesStep
<1>3. ASSUME ApplyFlushes(d) PROVE PassedInv'
  <2> DEFINE r == [phase |-> "fold", start |-> round[d].start, pulled |-> round[d].pulled,
                   missing |-> round[d].missing, deferred |-> round[d].deferred,
                   attempted |-> {}, folded |-> TRUE]
  <2>1. Writes(round[d])
    BY <1>3 DEF ApplyFlushes, InPhase, Writes, Writing
  <2>2. round' = [round EXCEPT ![d] = r]
    BY <1>3 DEF ApplyFlushes, PendingInv
  <2>3. r.phase \in Writing /\ r.start = round[d].start /\ r.pulled = round[d].pulled
    BY DEF Writing
  <2> HIDE DEF r
  <2> QED BY <1>1, <2>1, <2>2, <2>3, GoesStep
<1> QED BY <1>2, <1>3

LEMMA FoldDonePassed ==
  ASSUME KindsInv, PendingInv, PassedInv, LogExtended, NEW d \in Devices, NEW f, NEW missing,
         InPhase(d, "foldfile"), FoldDone(d, f, missing), UNCHANGED <<dag, cursor>>
  PROVE  PassedInv'
<1> DEFINE left   == DOMAIN round[d].leaf \ {f}
           passed == round[d].attempted \cup {round[d].leaf[f]}
           absent == round[d].missing \cup missing
           folds  == round[d].folded \/ missing = {}
           leaf   == [x \in left |-> round[d].leaf[x]]
           r1 == [phase |-> "fold", start |-> round[d].start, pulled |-> round[d].pulled,
                  missing |-> absent, deferred |-> round[d].deferred,
                  attempted |-> passed, folded |-> folds]
           r2 == [round[d] EXCEPT !.missing = absent, !.attempted = passed,
                                  !.folded = folds, !.leaf = leaf]
           r == IF left = {} THEN r1 ELSE r2
<1>1. round' = [round EXCEPT ![d] = r]
  BY DEF FoldDone
<1>2. FoldsFiles(All, round[d]) /\ Writes(round[d]) /\ round[d].phase = "foldfile"
  BY KindsHere DEF InPhase, IsRound, Writes, Writing
<1>3. dag' = [dag EXCEPT ![d] = dag[d]] /\ cursor' = cursor
  BY KindsHere
<1>4. r2.phase = "foldfile" /\ r2.start = round[d].start /\ r2.pulled = round[d].pulled
  <2> HIDE DEF absent, passed, folds, leaf
  <2> QED BY <1>2 DEF FoldsFiles
<1>5. r1.phase = "fold" /\ r1.start = round[d].start /\ r1.pulled = round[d].pulled
  OBVIOUS
<1> HIDE DEF r1, r2
<1>6. r.phase \in Writing /\ r.start = round[d].start /\ r.pulled = round[d].pulled
  BY <1>4, <1>5 DEF Writing
<1> HIDE DEF r
<1> QED BY <1>1, <1>2, <1>3, <1>6, GoesStep

LEMMA FoldPassed ==
  ASSUME KindsInv, PendingInv, PassedInv, LogExtended, NEW d \in Devices, FoldPass(d)
  PROVE  PassedInv'
<1> DEFINE g == RecordEdges(dag[d], dev[d].ops)
           leaf == [f \in Foldable(d, g) |-> FirstId(Extras(d, g, f, dev[d].reg[f].head))]
           r == [phase |-> "foldfile", start |-> round[d].start, pulled |-> round[d].pulled,
                 missing |-> round[d].missing, deferred |-> round[d].deferred, folded |-> FALSE,
                 attempted |-> round[d].attempted, snap |-> SnapshotOf(d),
                 clock |-> dev[d].clock, leaf |-> leaf]
<1>1. round' = [round EXCEPT ![d] = r]
  <2>1. round' = [round EXCEPT ![d] =
               [phase |-> "foldfile", start |-> @.start, pulled |-> @.pulled,
                missing |-> @.missing, deferred |-> @.deferred, folded |-> FALSE,
                attempted |-> @.attempted, snap |-> SnapshotOf(d), clock |-> dev[d].clock,
                leaf |-> leaf]]
    BY DEF FoldPass
  <2> HIDE DEF leaf
  <2> QED BY <2>1 DEF PendingInv
<1>2. r.phase \in Writing /\ r.start = round[d].start /\ r.pulled = round[d].pulled
  BY DEF Writing
<1> HIDE DEF r
<1>3. /\ dag' = [dag EXCEPT ![d] = g] /\ cursor' = cursor /\ Writes(round[d])
  BY DEF FoldPass, InPhase, Writes, Writing
<1>4. DOMAIN dag[d] \subseteq DOMAIN g
  <2>1. AreOps(All) /\ IsGraph(All, dag[d]) /\ IsSeq(dev[d].ops) /\ ToSet(dev[d].ops) \subseteq All
    BY KindsHere DEF IsDev, Kept
  <2> HIDE DEF g
  <2>2. DOMAIN g = DOMAIN dag[d] \cup Ids(dev[d].ops)
    BY <2>1, RecordEdgesGraph DEF g
  <2> QED BY <2>2
<1> HIDE DEF g
<1> QED BY <1>1, <1>2, <1>3, <1>4, GoesStep

\* The cursor that is saved is not behind what was pulled, and that is in the graph.
LEMMA SaveCursorPassed ==
  ASSUME KindsInv, PendingInv, PassedInv, LogExtended, NEW d \in Devices, SaveCursor(d)
  PROVE  PassedInv'
<1> DEFINE g == RecordEdges(dag[d], dev[d].ops)
           c == safeCursor(round[d])
<1>1. PICK h \in {g, dag[d]} : dag' = [dag EXCEPT ![d] = h]
  BY KindsHere DEF SaveCursor
<1>2. cursor' = [cursor EXCEPT ![d] = c] /\ round' = [round EXCEPT ![d] = NoRound]
      /\ Writes(round[d])
  BY DEF SaveCursor, InPhase, Writes, Writing
<1>3. DOMAIN dag[d] \subseteq DOMAIN h
  <2>1. AreOps(All) /\ IsGraph(All, dag[d]) /\ IsSeq(dev[d].ops) /\ ToSet(dev[d].ops) \subseteq All
    BY KindsHere DEF IsDev, Kept
  <2> HIDE DEF g
  <2>2. DOMAIN g = DOMAIN dag[d] \cup Ids(dev[d].ops)
    BY <2>1, RecordEdgesGraph DEF g
  <2> QED BY <1>1, <2>2
<1>4. /\ round[d].start \in Nat /\ Len(round[d].pulled) \in Nat
      /\ c \in 0..(round[d].start + Len(round[d].pulled))
  <2> HIDE DEF c
  <2>1. IsPull(All, Len(log), round[d])
    BY KindsHere DEF SaveCursor, InPhase, IsRound, Folds
  <2> QED BY <1>2, <2>1, SafeCursorKinds, PulledKinds DEF c
<1> HIDE DEF c, g
<1>5. ASSUME PassedOf(log', dag[d], cursor[d], round[d]) PROVE PassedOf(log', h, c, NoRound)
  <2>1. Passed(log', dag[d], round[d].start + Len(round[d].pulled))
    BY <1>2, <1>5 DEF PassedOf
  <2>2. 1..c \subseteq 1..(round[d].start + Len(round[d].pulled))
    BY <1>4
  <2>3. Passed(log', h, c)
    BY <1>3, <2>1, <2>2 DEF Passed
  <2> QED BY <2>3 DEF PassedOf, Sends, Writes
<1> QED BY <1>1, <1>2, <1>5, PassedStep

LEMMA InitPassed == ASSUME Init PROVE PassedInv
<1>1. KindsInv /\ PendingInv
  BY InitKinds, InitPending
<1>2. PICK d \in Devices : TRUE
  BY DevicesAssumption
<1>3. IsSeq(log) /\ ToSet(log) \subseteq All /\ AreOps(All)
  BY <1>1, KindsHere
<1>4. IsGraph(All, EmptyDag)
  <2>1. DOMAIN EmptyDag = {}
    BY DEF EmptyDag
  <2> QED BY <2>1, FS_EmptySet DEF IsGraph
<1>5. DOMAIN RecordEdges(EmptyDag, log) = DOMAIN EmptyDag \cup Ids(log)
  BY <1>3, <1>4, RecordEdgesGraph
<1>6. DOMAIN log = 1..Len(log)
  BY <1>3 DEF IsSeq
<1>7. Passed(log, RecordEdges(EmptyDag, log), Len(log))
  BY <1>5, <1>6 DEF Passed, Ids
<1>8. ASSUME NEW e \in Devices PROVE PassedOf(log, dag[e], cursor[e], round[e])
  <2>1. /\ dag[e] = RecordEdges(EmptyDag, log) /\ cursor[e] = Len(log) /\ round[e] = NoRound
    BY DEF Init
  <2> QED BY <1>7, <2>1 DEF PassedOf, Sends, Writes
<1> QED BY <1>8 DEF PassedInv

LEMMA PassedNext ==
  ASSUME KindsInv, PendingInv, PassedInv, [Next]_vars
  PROVE  PassedInv'
<1>1. LogExtended
  BY LogExtends
<1>2. CASE UNCHANGED <<dag, cursor, round>>
  BY <1>1, <1>2, PassedStays
<1>3. CASE \E d \in Devices :
             \/ BeginRound(d) \/ Pull(d) \/ Push(d) \/ Merge(d) \/ ApplyEmits(d)
             \/ ApplyFlushes(d) \/ FoldPass(d) \/ SaveCursor(d) \/ RoundFails(d)
             \/ Crash(d) \/ GraphLost(d)
  BY <1>1, <1>3, EndPassed, PullPassed, PushPassed, MergePassed, WritePassed, FoldPassed,
     SaveCursorPassed, GraphLostPassed
<1>4. CASE \E d \in Devices, f \in Files : ApplyFile(d, f) \/ ApplyThrows(d, f)
  BY <1>1, <1>4, ApplyPassed
<1>5. CASE \E d \in Devices, f \in Files : FoldFile(d, f) \/ FoldMissing(d, f)
  <2>1. PICK d \in Devices, f \in Files : FoldFile(d, f) \/ FoldMissing(d, f)
    BY <1>5
  <2>2. PICK missing : FoldDone(d, f, missing)
    BY <2>1 DEF FoldFile, FoldMissing
  <2>3. InPhase(d, "foldfile")
    BY <2>1 DEF FoldFile, FoldMissing
  <2>4. UNCHANGED <<dag, cursor>>
    BY <2>1 DEF FoldFile, FoldMissing
  <2> QED BY <1>1, <2>2, <2>3, <2>4, FoldDonePassed
<1>6. CASE \E d \in Devices : Start(d)
  BY <1>2, <1>6 DEF Start
<1>7. CASE \E d \in Devices, f \in Files :
             \/ UserResolve(d, f) \/ DebounceFires(d, f) \/ \E e \in Typable[d] : UserEdit(d, f, e)
  BY <1>2, <1>7 DEF UserResolve, UserEdit, DebounceFires
<1>8. CASE UNCHANGED vars
  BY <1>2, <1>8 DEF vars
<1> QED BY <1>3, <1>4, <1>5, <1>6, <1>7, <1>8 DEF Next

\* For any devices, files, texts, edits and faults, every op that the saved cursor has passed
\* is a version of the device's graph, unless the graph is lost, and then the next round pulls
\* from the start: a round records the versions it pulled before it saves the cursor, and
\* puts the cursor back before it pulls for a lost graph (recordVersionEdges, saveCursor,
\* dagNeedsRebuild).  So no op is passed by that a later merge could not find in the graph.
THEOREM PassedOpsAreInTheGraph == NullsApart /\ Spec => []PassedIsInGraph
<1> DEFINE Kinds == KindsInv /\ PendingInv /\ PassedInv
<1>1. Init => Kinds
  BY InitKinds, InitPending, InitPassed
<1>2. NullsApart /\ Kinds /\ [Next]_vars => Kinds'
  BY KindsNext, PendingStep, PassedNext
<1>3. Kinds => PassedIsInGraph
  BY DEF PassedInv, PassedOf, PassedIsInGraph
<1>4. ASSUME NullsApart PROVE Spec => []PassedIsInGraph
  <2>1. Kinds /\ [Next]_vars => Kinds'
    BY <1>2, <1>4
  <2> QED BY <1>1, <1>3, <2>1, PTL DEF Spec
<1> QED BY <1>4
=============================================================================
