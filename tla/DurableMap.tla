----------------------------- MODULE DurableMap -----------------------------
(***************************************************************************)
(* What a persisted map promises its callers, whatever the files it is     *)
(* kept in: the map in memory, the map a restart would bring back, and the *)
(* keys the two may differ in because the store still owes them a write.   *)
(* A key nobody owes is the same in both, so a crash loses only what is    *)
(* owed.                                                                   *)
(***************************************************************************)
CONSTANTS Keys, Values, Absent      \* Absent: the value of a key that is not there

VARIABLES
    map,      \* in memory
    saved,    \* what a restart brings back
    owed      \* the keys whose present value is not known to be saved

durable == <<map, saved, owed>>

Maps == [Keys -> Values \cup {Absent}]

Init ==
    /\ map = [k \in Keys |-> Absent]
    /\ saved = map
    /\ owed = {}

\* Some keys change, and are owed from then on.
Change ==
    \E S \in SUBSET Keys :
        /\ map' \in Maps
        /\ \A k \in Keys \ S : map'[k] = map[k]
        /\ owed' = owed \cup S
        /\ saved' = saved

\* Some keys reach the disk as they are in memory; those alone may be settled.
Save ==
    \E S \in SUBSET Keys :
        /\ saved' = [k \in Keys |-> IF k \in S THEN map[k] ELSE saved[k]]
        /\ owed' \subseteq owed /\ owed \ owed' \subseteq S
        /\ map' = map

\* Nothing is written or lost, but a settled key may be owed again.
OweMore == owed \subseteq owed' /\ owed' \subseteq Keys /\ UNCHANGED <<map, saved>>

\* A crash, possibly in the middle of a save, and the restart after it.
Restart ==
    \E S \in SUBSET Keys :
        /\ saved' = [k \in Keys |-> IF k \in S THEN map[k] ELSE saved[k]]
        /\ map' = saved'
        /\ owed' = {}

Next == Change \/ Save \/ OweMore \/ Restart

Spec == Init /\ [][Next]_durable
=============================================================================
