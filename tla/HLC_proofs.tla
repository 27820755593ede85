----------------------------- MODULE HLC_proofs -----------------------------
(***************************************************************************)
(* The properties of HLC for every set of devices, every range of the wall *)
(* clock and every number of ops.                                          *)
(***************************************************************************)
EXTENDS HLC, TLAPS

----------------------------------------------------------------------------
(* Lemmas about the order *)

\* "At or before" is transitive.
LEMMA NotAfterTransitive ==
    ASSUME NEW a \in Stamps, NEW b \in Stamps, NEW c \in Stamps, NotAfter(a, b), NotAfter(b, c)
    PROVE  NotAfter(a, c)
BY DEF Stamps, NotAfter, EarlierTime, SameTime

\* A stamp of now() is a stamp of the same device, and after everything that is not
\* after the clock, whatever the wall clock reads.
LEMMA NowDominates ==
    ASSUME TypeOK, NEW d \in Devices, NEW w \in 0..MaxWall, current[d].device = d
    PROVE  /\ Now(d, w) \in Stamps /\ Now(d, w).device = d
           /\ \A t \in Stamps : NotAfter(t, current[d]) =>
                EarlierTime(t, Now(d, w)) /\ NotAfter(t, Now(d, w)) /\ Before(t, Now(d, w)) /\ t # Now(d, w)
<1>1. current[d] \in Stamps
    BY DEF TypeOK
<1>2. CASE w > current[d].wall
    <2>1. Now(d, w) = [wall |-> w, counter |-> 0, device |-> d]
        BY <1>2 DEF Now
    <2> QED BY <1>1, <1>2, <2>1, MaxWallAssumption DEF Stamps, NotAfter, Before, EarlierTime, SameTime
<1>3. CASE ~(w > current[d].wall)
    <2>1. Now(d, w) = [current[d] EXCEPT !.counter = @ + 1]
        BY <1>3 DEF Now
    <2>2. /\ Now(d, w) \in Stamps /\ Now(d, w).device = d
          /\ Now(d, w).wall = current[d].wall /\ Now(d, w).counter = current[d].counter + 1
        BY <1>1, <2>1 DEF Stamps
    <2> QED BY <1>1, <2>2 DEF Stamps, NotAfter, Before, EarlierTime, SameTime
<1> QED BY <1>2, <1>3

\* What setCurrent adopts is a stamp of this device, not before either of its sources.
LEMMA AdoptDominates ==
    ASSUME NEW d \in Devices, NEW a \in Stamps, NEW m \in Stamps
    PROVE  /\ Adopt(d, MergedHlc(a, m)) \in Stamps
           /\ Adopt(d, MergedHlc(a, m)).device = d
           /\ NotAfter(a, Adopt(d, MergedHlc(a, m)))
           /\ NotAfter(m, Adopt(d, MergedHlc(a, m)))
           /\ \A t \in Stamps : ~Before(m, t) => NotAfter(t, Adopt(d, MergedHlc(a, m)))
<1> DEFINE r == Adopt(d, MergedHlc(a, m))
<1>0. Devices \subseteq Nat
    BY DevicesAssumption
<1>1. CASE Before(a, m)
    <2>1. r = [m EXCEPT !.device = d]
        BY <1>1 DEF Adopt, MergedHlc, hlcMax
    <2>2. r \in Stamps /\ r.device = d /\ r.wall = m.wall /\ r.counter = m.counter
        BY <2>1 DEF Stamps
    <2> HIDE DEF r
    <2>3. NotAfter(a, r) /\ NotAfter(m, r) /\ \A t \in Stamps : ~Before(m, t) => NotAfter(t, r)
        BY <1>0, <1>1, <2>2 DEF Stamps, NotAfter, Before, EarlierTime, SameTime
    <2> QED BY <2>2, <2>3 DEF r
<1>2. CASE ~Before(a, m)
    <2>1. r = [a EXCEPT !.device = d]
        BY <1>2 DEF Adopt, MergedHlc, hlcMax
    <2>2. r \in Stamps /\ r.device = d /\ r.wall = a.wall /\ r.counter = a.counter
        BY <2>1 DEF Stamps
    <2> HIDE DEF r
    <2>3. NotAfter(a, r) /\ NotAfter(m, r) /\ \A t \in Stamps : ~Before(m, t) => NotAfter(t, r)
        BY <1>0, <1>2, <2>2 DEF Stamps, NotAfter, Before, EarlierTime, SameTime
    <2> QED BY <2>2, <2>3 DEF r
<1> QED BY <1>1, <1>2

----------------------------------------------------------------------------
(* The inductive invariant *)

\* Every stamp a device holds as its own carries its id.
OwnInv ==
    \A d \in Devices :
        /\ current[d].device = d /\ saved[d].device = d
        /\ \A t \in fresh[d] \cup journal[d] : t.device = d
        /\ round[d] # NoRound => \A t \in round[d].push : t.device = d /\ t \in fresh[d] \cup journal[d]

\* Everything a device could collide with or must dominate.
Bound(d) == Durable(d) \cup fresh[d] \cup seen[d] \cup merged[d]

\* A device outside the two windows has a clock at or after all of that, and a round
\* whose reading of the clock is still the clock.
CoverInv ==
    \A d \in Devices \ exposed :
        /\ \A t \in Bound(d) : NotAfter(t, current[d])
        /\ round[d] # NoRound => round[d].hlc = current[d]

IInv == TypeOK /\ OwnInv /\ CoverInv /\ StampsUniqueUnlessExposed

LEMMA InitInv == Init => IInv
<1> SUFFICES ASSUME Init PROVE IInv
    OBVIOUS
<1>1. \A d \in Devices : Zero(d) \in Stamps /\ Zero(d).device = d
    BY MaxWallAssumption DEF Zero, Stamps
<1>2. TypeOK
    BY <1>1 DEF Init, TypeOK
<1>3. OwnInv
    BY <1>1 DEF Init, OwnInv
<1>4. CoverInv
    BY DEF Init, CoverInv, Bound, Durable
<1>5. StampsUniqueUnlessExposed
    BY DEF Init, StampsUniqueUnlessExposed
<1> QED BY <1>2, <1>3, <1>4, <1>5 DEF IInv

\* Every step keeps it.
LEMMA NextInv ==
    ASSUME IInv, [Next]_vars
    PROVE  IInv'
<1> USE DEF IInv
<1>1. ASSUME NEW d \in Devices, NEW w \in 0..MaxWall, Record(d, w) PROVE IInv'
    <2>1. /\ Now(d, w) \in Stamps /\ Now(d, w).device = d
          /\ \A t \in Stamps : NotAfter(t, current[d]) => NotAfter(t, Now(d, w)) /\ t # Now(d, w)
        BY NowDominates DEF OwnInv
    <2> DEFINE n == Now(d, w)
    <2>2. /\ current' = [current EXCEPT ![d] = n] /\ fresh' = [fresh EXCEPT ![d] = @ \cup {n}]
          /\ count' = [count EXCEPT ![d] = @ + 1]
          /\ reused' = reused \cup ({n} \cap (Durable(d) \cup fresh[d]))
          /\ exposed' = IF round[d] # NoRound THEN exposed \cup {d} ELSE exposed
          /\ UNCHANGED <<saved, journal, log, round, merged, seen>>
        BY <1>1 DEF Record
    <2>n. n \in Stamps /\ n.device = d
        BY <2>1
    <2> HIDE DEF n
    <2>3. TypeOK'
        BY <2>2, <2>n DEF TypeOK
    <2>4. OwnInv'
        BY <2>2, <2>n DEF OwnInv, TypeOK
    <2>5. Bound(d) \subseteq Stamps /\ NotAfter(n, n)
        BY <2>n DEF Bound, Durable, TypeOK, NotAfter, SameTime
    <2>6. d \notin exposed' => round[d] = NoRound /\ d \notin exposed
        BY <2>2
    <2>7. CoverInv'
        <3> SUFFICES ASSUME NEW e \in Devices, e \notin exposed'
                     PROVE  /\ \A t \in Bound(e)' : NotAfter(t, current'[e])
                            /\ round'[e] # NoRound => round'[e].hlc = current'[e]
            BY DEF CoverInv
        <3>1. CASE e = d
            <4>1. Bound(d)' \subseteq Bound(d) \cup {n} /\ current'[d] = n
                BY <2>2 DEF Bound, Durable, TypeOK
            <4>2. \A t \in Bound(d) : NotAfter(t, n)
                BY <2>1, <2>5, <2>6, <3>1 DEF CoverInv, n
            <4> QED BY <2>2, <2>5, <2>6, <3>1, <4>1, <4>2
        <3>2. CASE e # d
            <4>1. Bound(e)' = Bound(e) /\ current'[e] = current[e] /\ round' = round /\ e \notin exposed
                BY <2>2, <3>2 DEF Bound, Durable, TypeOK
            <4> QED BY <4>1 DEF CoverInv
        <3> QED BY <3>1, <3>2
    <2>8. StampsUniqueUnlessExposed'
        <3>1. CASE d \in exposed'
            <4>1. exposed \subseteq exposed' /\ reused' \subseteq reused \cup {n}
                BY <2>2
            <4> QED BY <2>n, <3>1, <4>1 DEF StampsUniqueUnlessExposed
        <3>2. CASE d \notin exposed'
            <4>1. n \notin Bound(d)
                BY <2>1, <2>5, <2>6, <3>2 DEF CoverInv, n
            <4>2. reused' = reused /\ exposed \subseteq exposed'
                BY <2>2, <4>1 DEF Bound
            <4> QED BY <4>2 DEF StampsUniqueUnlessExposed
        <3> QED BY <3>1, <3>2
    <2> QED BY <2>3, <2>4, <2>7, <2>8
<1>2. ASSUME NEW d \in Devices, AppendResolves(d) PROVE IInv'
    <2>1. /\ journal' = [journal EXCEPT ![d] = @ \cup fresh[d]] /\ fresh' = [fresh EXCEPT ![d] = {}]
          /\ UNCHANGED <<current, saved, log, round, merged, seen, count, reused, exposed>>
        BY <1>2 DEF AppendResolves
    <2>2. TypeOK'
        BY <2>1 DEF TypeOK
    <2>3. OwnInv'
        BY <2>1 DEF OwnInv, TypeOK
    <2>4. \A e \in Devices : Bound(e)' = Bound(e)
        BY <2>1 DEF Bound, Durable, TypeOK
    <2>5. CoverInv'
        BY <2>1, <2>4 DEF CoverInv
    <2> QED BY <2>1, <2>2, <2>3, <2>5 DEF StampsUniqueUnlessExposed
<1>3. ASSUME NEW d \in Devices, SaveClock(d) PROVE IInv'
    <2>1. /\ saved' = [saved EXCEPT ![d] = current[d]]
          /\ UNCHANGED <<current, fresh, journal, log, round, merged, seen, count, reused, exposed>>
        BY <1>3 DEF SaveClock
    <2>2. TypeOK' /\ OwnInv'
        BY <2>1 DEF TypeOK, OwnInv
    <2>3. \A e \in Devices : Bound(e)' = Bound(e)
        BY <2>1 DEF Bound, Durable
    <2> QED BY <2>1, <2>2, <2>3 DEF CoverInv, StampsUniqueUnlessExposed
<1>4. ASSUME NEW d \in Devices, BeginRound(d) PROVE IInv'
    <2> DEFINE r == [hlc |-> current[d], push |-> fresh[d] \cup journal[d],
                     pull |-> {t \in log : t.device # d} \ seen[d]]
    <2>1. /\ round' = [round EXCEPT ![d] = r]
          /\ UNCHANGED <<current, saved, fresh, journal, log, merged, seen, count, reused, exposed>>
        BY <1>4 DEF BeginRound
    <2>2. r \in Rounds /\ r.hlc = current[d] /\ r.push = fresh[d] \cup journal[d]
        BY DEF Rounds, TypeOK
    <2> HIDE DEF r
    <2>3. TypeOK'
        BY <2>1, <2>2 DEF TypeOK
    <2>4. OwnInv'
        BY <2>1, <2>2 DEF OwnInv, TypeOK
    <2>5. \A e \in Devices : Bound(e)' = Bound(e)
        BY <2>1 DEF Bound, Durable
    <2>6. CoverInv'
        BY <2>1, <2>2, <2>5 DEF CoverInv, TypeOK
    <2> QED BY <2>1, <2>3, <2>4, <2>6 DEF StampsUniqueUnlessExposed
<1>5. ASSUME NEW d \in Devices, Push(d) PROVE IInv'
    <2>1. /\ round[d] # NoRound /\ round[d] \in Rounds /\ log' = log \cup round[d].push
          /\ UNCHANGED <<current, saved, fresh, journal, round, merged, seen, count, reused, exposed>>
        BY <1>5 DEF Push, TypeOK
    <2>2. TypeOK'
        BY <2>1 DEF TypeOK, Rounds
    <2>3. OwnInv'
        BY <2>1 DEF OwnInv
    <2>4. \A e \in Devices : Bound(e)' = Bound(e)
        BY <2>1 DEF Bound, Durable, OwnInv
    <2>5. CoverInv'
        BY <2>1, <2>4 DEF CoverInv
    <2> QED BY <2>1, <2>2, <2>3, <2>5 DEF StampsUniqueUnlessExposed
<1>6. ASSUME NEW d \in Devices, Abort(d) PROVE IInv'
    <2>1. /\ round' = [round EXCEPT ![d] = NoRound]
          /\ UNCHANGED <<current, saved, fresh, journal, log, merged, seen, count, reused, exposed>>
        BY <1>6 DEF Abort
    <2>2. TypeOK' /\ OwnInv'
        BY <2>1 DEF TypeOK, OwnInv
    <2>3. \A e \in Devices : Bound(e)' = Bound(e)
        BY <2>1 DEF Bound, Durable
    <2>4. CoverInv'
        BY <2>1, <2>3 DEF CoverInv, TypeOK
    <2> QED BY <2>1, <2>2, <2>4 DEF StampsUniqueUnlessExposed
<1>7. ASSUME NEW d \in Devices, SetCurrent(d) PROVE IInv'
    <2>1. /\ round[d] # NoRound /\ round[d] \in Rounds
          /\ merged' = [merged EXCEPT ![d] = round[d].pull]
          /\ round' = [round EXCEPT ![d] = NoRound]
          /\ UNCHANGED <<saved, fresh, journal, log, seen, count, reused, exposed>>
        BY <1>7 DEF SetCurrent, TypeOK
    <2>2. PICK m \in round[d].pull \cup {Zero(d)} :
            /\ \A t \in round[d].pull : ~Before(m, t)
            /\ current' = [current EXCEPT ![d] = Adopt(d, MergedHlc(round[d].hlc, m))]
        BY <1>7 DEF SetCurrent
    <2> DEFINE c == Adopt(d, MergedHlc(round[d].hlc, m))
    <2>3. m \in Stamps /\ round[d].hlc \in Stamps /\ round[d].pull \subseteq Stamps
        BY <2>1, MaxWallAssumption DEF Rounds, Zero, Stamps
    <2>4. /\ c \in Stamps /\ c.device = d /\ NotAfter(round[d].hlc, c)
          /\ \A t \in Stamps : ~Before(m, t) => NotAfter(t, c)
        BY <2>3, AdoptDominates
    <2>5. current' = [current EXCEPT ![d] = c]
        BY <2>2
    <2> HIDE DEF c
    <2>6. TypeOK'
        BY <2>1, <2>3, <2>4, <2>5 DEF TypeOK
    <2>7. OwnInv'
        BY <2>1, <2>4, <2>5 DEF OwnInv, TypeOK
    <2>8. CoverInv'
        <3> SUFFICES ASSUME NEW e \in Devices, e \notin exposed'
                     PROVE  /\ \A t \in Bound(e)' : NotAfter(t, current'[e])
                            /\ round'[e] # NoRound => round'[e].hlc = current'[e]
            BY DEF CoverInv
        <3>1. CASE e = d
            <4>1. Bound(d)' \subseteq Bound(d) \cup round[d].pull /\ current'[d] = c /\ round'[d] = NoRound
                BY <2>1, <2>5 DEF Bound, Durable, TypeOK
            <4>2. \A t \in Bound(d) : t \in Stamps /\ NotAfter(t, round[d].hlc)
                BY <2>1, <3>1 DEF CoverInv, Bound, Durable, TypeOK
            <4>3. \A t \in Bound(d) : NotAfter(t, c)
                BY <2>3, <2>4, <4>2, NotAfterTransitive
            <4>4. \A t \in round[d].pull : NotAfter(t, c)
                BY <2>2, <2>3, <2>4
            <4> QED BY <3>1, <4>1, <4>3, <4>4
        <3>2. CASE e # d
            <4>1. Bound(e)' = Bound(e) /\ current'[e] = current[e] /\ round'[e] = round[e] /\ e \notin exposed
                BY <2>1, <2>5, <3>2 DEF Bound, Durable, TypeOK
            <4> QED BY <4>1 DEF CoverInv
        <3> QED BY <3>1, <3>2
    <2> QED BY <2>1, <2>6, <2>7, <2>8 DEF StampsUniqueUnlessExposed
<1>8. ASSUME NEW d \in Devices, SaveCursor(d) PROVE IInv'
    <2>1. /\ seen' = [seen EXCEPT ![d] = @ \cup merged[d]] /\ merged' = [merged EXCEPT ![d] = {}]
          /\ UNCHANGED <<current, saved, fresh, journal, log, round, count, reused, exposed>>
        BY <1>8 DEF SaveCursor
    <2>2. TypeOK' /\ OwnInv'
        BY <2>1 DEF TypeOK, OwnInv
    <2>3. \A e \in Devices : Bound(e)' = Bound(e)
        BY <2>1 DEF Bound, Durable, TypeOK
    <2> QED BY <2>1, <2>2, <2>3 DEF CoverInv, StampsUniqueUnlessExposed
<1>9. ASSUME NEW d \in Devices, Crash(d) PROVE IInv'
    <2>1. /\ current' = [current EXCEPT ![d] = saved[d]] /\ fresh' = [fresh EXCEPT ![d] = {}]
          /\ round' = [round EXCEPT ![d] = NoRound] /\ merged' = [merged EXCEPT ![d] = {}]
          /\ exposed' = IF ClockLags(d) THEN exposed \cup {d} ELSE exposed
          /\ UNCHANGED <<saved, journal, log, seen, count, reused>>
        BY <1>9 DEF Crash, Seed
    <2>2. TypeOK'
        BY <2>1 DEF TypeOK
    <2>3. OwnInv'
        BY <2>1 DEF OwnInv, TypeOK
    <2>4. CoverInv'
        <3> SUFFICES ASSUME NEW e \in Devices, e \notin exposed'
                     PROVE  /\ \A t \in Bound(e)' : NotAfter(t, current'[e])
                            /\ round'[e] # NoRound => round'[e].hlc = current'[e]
            BY DEF CoverInv
        <3>1. CASE e = d
            <4>1. ~ClockLags(d)
                BY <2>1, <3>1
            <4>2. Bound(d)' = Durable(d) \cup seen[d] /\ current'[d] = saved[d] /\ round'[d] = NoRound
                BY <2>1 DEF Bound, Durable, TypeOK
            <4> QED BY <3>1, <4>1, <4>2 DEF ClockLags
        <3>2. CASE e # d
            <4>1. Bound(e)' = Bound(e) /\ current'[e] = current[e] /\ round'[e] = round[e] /\ e \notin exposed
                BY <2>1, <3>2 DEF Bound, Durable, TypeOK
            <4> QED BY <4>1 DEF CoverInv
        <3> QED BY <3>1, <3>2
    <2> QED BY <2>1, <2>2, <2>3, <2>4 DEF StampsUniqueUnlessExposed
<1>10. CASE UNCHANGED vars
    <2>1. \A e \in Devices : Bound(e)' = Bound(e)
        BY <1>10 DEF vars, Bound, Durable
    <2> QED BY <1>10, <2>1 DEF vars, TypeOK, OwnInv, CoverInv, StampsUniqueUnlessExposed
<1> QED BY <1>1, <1>2, <1>3, <1>4, <1>5, <1>6, <1>7, <1>8, <1>9, <1>10 DEF Next

----------------------------------------------------------------------------
(* The theorems *)

\* The invariant, type correctness among its parts.
THEOREM Invariance == Spec => [](TypeOK /\ IInv)
<1>1. IInv /\ [Next]_vars => IInv'
    BY NextInv
<1>2. IInv => TypeOK
    BY DEF IInv
<1> QED BY <1>1, <1>2, InitInv, PTL DEF Spec

\* Op ids are unique unless a device met one of the two windows (operations.ts:42-45).
THEOREM UniqueStamps == Spec => []StampsUniqueUnlessExposed
<1>1. IInv => StampsUniqueUnlessExposed
    BY DEF IInv
<1> QED BY <1>1, Invariance, PTL

\* A device stamps its own id only (hlc.ts:73-77).
THEOREM OwnStamps == Spec => []StampsCarryTheirDevice
<1>1. IInv => StampsCarryTheirDevice
    BY DEF IInv, OwnInv, StampsCarryTheirDevice
<1> QED BY <1>1, Invariance, PTL

\* A stamp dominates every durable own op and every foreign op before the cursor, unless
\* the device met one of the two windows (hlc.ts:70-72).
THEOREM Domination == Spec => IssueDominates
<1>1. ASSUME IInv, [Next]_vars
      PROVE  [\A d \in Devices \ exposed' :
                count'[d] > count[d] =>
                  \A t \in Durable(d) \cup fresh[d] \cup seen[d] \cup merged[d] :
                    Before(t, current'[d])]_vars
    <2> SUFFICES ASSUME Next, NEW e \in Devices, e \notin exposed', count'[e] > count[e],
                        NEW t \in Bound(e)
                 PROVE  Before(t, current'[e])
        BY <1>1 DEF Bound
    <2>1. TypeOK /\ OwnInv /\ CoverInv
        BY <1>1 DEF IInv
    <2>2. ASSUME count' = count PROVE FALSE
        BY <2>1, <2>2 DEF TypeOK
    <2>3. PICK d \in Devices, w \in 0..MaxWall : Record(d, w)
        BY <2>2 DEF Next, AppendResolves, SaveClock, BeginRound, Push, Abort, SetCurrent,
                    SaveCursor, Crash
    <2>4. /\ count' = [count EXCEPT ![d] = @ + 1] /\ current' = [current EXCEPT ![d] = Now(d, w)]
          /\ exposed' = IF round[d] # NoRound THEN exposed \cup {d} ELSE exposed
        BY <2>3 DEF Record
    <2>5. e = d
        BY <2>1, <2>4 DEF TypeOK
    <2>6. e \notin exposed /\ current'[e] = Now(d, w)
        BY <2>1, <2>4, <2>5 DEF TypeOK
    <2>7. t \in Stamps /\ NotAfter(t, current[d])
        BY <2>1, <2>5, <2>6 DEF CoverInv, Bound, Durable, TypeOK
    <2>8. current[d].device = d
        BY <2>1 DEF OwnInv
    <2> QED BY <2>1, <2>5, <2>6, <2>7, <2>8, NowDominates
<1> QED BY <1>1, Invariance, PTL DEF Spec, IssueDominates
=============================================================================
