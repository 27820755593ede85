-------------------------------- MODULE HLC --------------------------------
(***************************************************************************)
(* The hybrid logical clock (src/src/core/hlc.ts) in the life of a device: *)
(* now() stamps every op, the stamp is the op's id (core/operations.ts),   *)
(* the clock is saved to hlc.json after the op (core/operation-logger.ts,  *)
(* finishOpLog), and a sync round overwrites it with setCurrent.           *)
(*                                                                         *)
(* A round reads the clock once (buildLocalIdentity), pulls, pushes, and   *)
(* only then sets the clock to the maximum of that reading and the pulled  *)
(* stamps.  The vault listener is on all that time.  The wall clock may    *)
(* jump either way, and a crash may hit at any point; the clock then       *)
(* restarts from hlc.json.  A device id is a number: what matters of it is *)
(* its order.                                                              *)
(***************************************************************************)
EXTENDS Integers, FiniteSets

CONSTANTS
    Devices,        \* device ids
    MaxWall,        \* bound: wall clock readings are 0..MaxWall
    MaxOps,         \* bound: MaxOps[d] ops are recorded by device d
    NoRound         \* no round between its clock reading and setCurrent

ASSUME DevicesAssumption == Devices \subseteq Nat
ASSUME MaxWallAssumption == MaxWall \in Nat
ASSUME MaxOpsAssumption  == MaxOps \in [Devices -> Nat]

Stamps == [wall : 0..MaxWall, counter : Nat, device : Devices]

\* A round between its clock reading and setCurrent.
Rounds == [hlc : Stamps, push : SUBSET Stamps, pull : SUBSET Stamps]
ASSUME NoRoundAssumption == NoRound \notin Rounds

VARIABLES
    current,      \* current[d]: the clock in memory
    saved,        \* saved[d]: the clock in hlc.json
    fresh,        \* fresh[d]: stamps of recorded ops that are not on disk yet
    journal,      \* journal[d]: stamps of the ops that reached the oplog file
    log,          \* stamps of the ops on the server
    round,        \* round[d]: clock reading, ops to push, stamps pulled
    merged,       \* merged[d]: stamps merged by the round that has to save its cursor
    seen,         \* seen[d]: foreign stamps up to the saved cursor
    \* history, read by no action
    count,        \* count[d]: ops recorded
    reused,       \* stamps issued while an op on disk or on the server had them
    exposed       \* devices that met one of the two windows below

vars == <<current, saved, fresh, journal, log, round, merged, seen, count, reused, exposed>>

----------------------------------------------------------------------------
(* The order of stamps *)

\* wallTime, then counter: what setCurrent keeps of a stamp.
EarlierTime(a, b) == a.wall < b.wall \/ (a.wall = b.wall /\ a.counter < b.counter)
SameTime(a, b)    == a.wall = b.wall /\ a.counter = b.counter
NotAfter(a, b)    == EarlierTime(a, b) \/ SameTime(a, b)

\* hlcCompare(a, b) < 0: the device id breaks ties.
Before(a, b) == EarlierTime(a, b) \/ (SameTime(a, b) /\ a.device < b.device)

hlcMax(a, b) == IF Before(a, b) THEN b ELSE a

Zero(d) == [wall |-> 0, counter |-> 0, device |-> d]

\* Fault: now() that trusts the wall clock.
NowTrustsWall(d, w) ==
    IF w # current[d].wall
    THEN [wall |-> w, counter |-> 0, device |-> d]
    ELSE [current[d] EXCEPT !.counter = @ + 1]

\* now() at wall clock reading w: that reading if it is ahead of the clock, else one
\* more of the clock's own wall time.
Now(d, w) ==
    IF w > current[d].wall
    THEN [wall |-> w, counter |-> 0, device |-> current[d].device]
    ELSE [current[d] EXCEPT !.counter = @ + 1]

\* The ops of device d that a restart or a peer can still see.
Durable(d) == journal[d] \cup {t \in log : t.device = d}

----------------------------------------------------------------------------
Init ==
    /\ current = [d \in Devices |-> Zero(d)] /\ saved = current
    /\ fresh = [d \in Devices |-> {}] /\ journal = fresh /\ seen = fresh /\ merged = fresh
    /\ log = {} /\ reused = {} /\ exposed = {}
    /\ round = [d \in Devices |-> NoRound]
    /\ count = [d \in Devices |-> 0]

\* Any handler that stamps an op: now(), then the op is recorded in memory.  The wall
\* clock reads w, which may be less than it read before (NTP, manual change).
Record(d, w) ==
    /\ count[d] < MaxOps[d]
    /\ current' = [current EXCEPT ![d] = Now(d, w)]
    /\ fresh' = [fresh EXCEPT ![d] = @ \cup {Now(d, w)}]
    /\ count' = [count EXCEPT ![d] = @ + 1]
    /\ reused' = reused \cup ({Now(d, w)} \cap (Durable(d) \cup fresh[d]))
    /\ exposed' = IF round[d] # NoRound THEN exposed \cup {d} ELSE exposed
    /\ UNCHANGED <<saved, journal, log, round, merged, seen>>

\* The journal append resolves; the clock is saved after it.
AppendResolves(d) ==
    /\ fresh[d] # {}
    /\ journal' = [journal EXCEPT ![d] = @ \cup fresh[d]]
    /\ fresh' = [fresh EXCEPT ![d] = {}]
    /\ UNCHANGED <<current, saved, log, round, merged, seen, count, reused, exposed>>

\* hlcStore.save(getCurrent()): after an append, after a round, on unload.
SaveClock(d) ==
    /\ saved[d] # current[d]
    /\ saved' = [saved EXCEPT ![d] = current[d]]
    /\ UNCHANGED <<current, fresh, journal, log, round, merged, seen, count, reused, exposed>>

\* buildLocalIdentity reads the clock and copies the pending ops; the pull follows,
\* and own ops are left out of what it brings.
BeginRound(d) ==
    /\ round[d] = NoRound /\ merged[d] = {}
    /\ round' = [round EXCEPT ![d] =
                   [hlc |-> current[d], push |-> fresh[d] \cup journal[d],
                    pull |-> {t \in log : t.device # d} \ seen[d]]]
    /\ UNCHANGED <<current, saved, fresh, journal, log, merged, seen, count, reused, exposed>>

\* The ops copied at the start reach the server.
Push(d) ==
    /\ round[d] # NoRound
    /\ ~ round[d].push \subseteq log
    /\ log' = log \cup round[d].push
    /\ UNCHANGED <<current, saved, fresh, journal, round, merged, seen, count, reused, exposed>>

\* The round fails or is cancelled before setCurrent.
Abort(d) ==
    /\ round[d] # NoRound
    /\ round' = [round EXCEPT ![d] = NoRound]
    /\ UNCHANGED <<current, saved, fresh, journal, log, merged, seen, count, reused, exposed>>

\* Fault: setCurrent gets the pulled stamp alone.
RemoteOnly(local, remote) == remote

\* mergedHlc = hlcMax(local.hlc, remote.hlc), both read before the pull.
MergedHlc(local, remote) == hlcMax(local, remote)

\* setCurrent keeps the wall time and counter of a stamp and its own device id.
Adopt(d, m) == [m EXCEPT !.device = d]

\* setCurrent(mergedHlc), where the pulled maximum is the zero stamp when nothing came.
SetCurrent(d) ==
    /\ round[d] # NoRound
    /\ round[d].push \subseteq log
    /\ \E m \in round[d].pull \cup {Zero(d)} :
        /\ \A t \in round[d].pull : ~Before(m, t)
        /\ current' = [current EXCEPT ![d] = Adopt(d, MergedHlc(round[d].hlc, m))]
    /\ merged' = [merged EXCEPT ![d] = round[d].pull]
    /\ round' = [round EXCEPT ![d] = NoRound]
    /\ UNCHANGED <<saved, fresh, journal, log, seen, count, reused, exposed>>

\* The cursor is saved when the merge is applied; the clock is saved after it.
SaveCursor(d) ==
    /\ merged[d] # {}
    /\ seen' = [seen EXCEPT ![d] = @ \cup merged[d]]
    /\ merged' = [merged EXCEPT ![d] = {}]
    /\ UNCHANGED <<current, saved, fresh, journal, log, round, count, reused, exposed>>

\* hlc.json is behind an op on disk, an op pushed or a stamp before the cursor.
ClockLags(d) == \E t \in Durable(d) \cup seen[d] : ~NotAfter(t, saved[d])

\* Fault: a missing hlc.json leaves the clock without a value.
Unseeded(d) == NoRound

\* The clock a restart begins with: hlc.json's.
Seed(d) == saved[d]

\* The plugin dies and starts again from hlc.json; ops that were not on disk are gone.
Crash(d) ==
    /\ current' = [current EXCEPT ![d] = Seed(d)]
    /\ fresh' = [fresh EXCEPT ![d] = {}]
    /\ round' = [round EXCEPT ![d] = NoRound]
    /\ merged' = [merged EXCEPT ![d] = {}]
    /\ exposed' = IF ClockLags(d) THEN exposed \cup {d} ELSE exposed
    /\ UNCHANGED <<saved, journal, log, seen, count, reused>>

Next ==
    \E d \in Devices :
        \/ \E w \in 0..MaxWall : Record(d, w)
        \/ AppendResolves(d) \/ SaveClock(d)
        \/ BeginRound(d) \/ Push(d) \/ Abort(d) \/ SetCurrent(d) \/ SaveCursor(d)
        \/ Crash(d)

Spec == Init /\ [][Next]_vars

----------------------------------------------------------------------------
(* Properties *)

\* Every variable holds a value the code could hold.
TypeOK ==
    /\ current \in [Devices -> Stamps] /\ saved \in [Devices -> Stamps]
    /\ fresh \in [Devices -> SUBSET Stamps] /\ journal \in [Devices -> SUBSET Stamps]
    /\ seen \in [Devices -> SUBSET Stamps] /\ merged \in [Devices -> SUBSET Stamps]
    /\ log \subseteq Stamps /\ reused \subseteq Stamps /\ exposed \subseteq Devices
    /\ round \in [Devices -> {NoRound} \cup Rounds]
    /\ count \in [Devices -> Nat]

\* "hlcToString(hlc) is a collision-free, deterministic op id" (operations.ts:42-45),
\* and only two windows can break it: an op stamped between a round's clock reading
\* and its setCurrent, and a crash while hlc.json lags behind what is durable.  A wall
\* clock that jumps back is no third one.
StampsUniqueUnlessExposed == \A t \in reused : t.device \in exposed

\* "A freshly minted op dominates the remote it supersedes" (hlc.ts:70-72): every stamp
\* a device issues is after each of its own durable ops and after each foreign op
\* before its cursor, unless the device met one of the two windows.
IssueDominates ==
    [][\A d \in Devices \ exposed' :
         count'[d] > count[d] =>
            \A t \in Durable(d) \cup fresh[d] \cup seen[d] \cup merged[d] :
                Before(t, current'[d])]_vars

\* No device stamps an op in another's name: the id's device part keeps two devices'
\* ops apart even when setCurrent adopts a foreign stamp (hlc.ts:73-77).
StampsCarryTheirDevice ==
    \A d \in Devices : current[d].device = d /\ \A t \in fresh[d] \cup journal[d] : t.device = d

\* "Monotonically increasing per device" (hlc.ts:7): while the plugin runs, the clock
\* never goes back.
SessionMonotone ==
    [][\A d \in Devices : ~Crash(d) => NotAfter(current[d], current'[d])]_vars
=============================================================================
