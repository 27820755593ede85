------------------------------ MODULE Capture ------------------------------
(***************************************************************************)
(* How what a user does to a file becomes ops (core/operation-logger.ts):  *)
(* the live handlers and the debounce timer, the capture pass that compares *)
(* the vault with the registry before listening and before every round,    *)
(* and the files both write to - the registry and the op log - one after   *)
(* the other.  OpLog.tla and FileRegistry.tla say what happens inside each *)
(* file; here it is what a crash between the two leaves, and what a second *)
(* call finds.                                                             *)
(*                                                                         *)
(* One path of one device.  Other files exist and do not change.  A call   *)
(* is a chain of awaits; a step ends at the next one, and a write that     *)
(* lands and what the call does then are one step.  Peers write nothing: a *)
(* round pushes, clears and stops listening for a while.                   *)
(***************************************************************************)
EXTENDS Naturals, SequencesExt

CONSTANTS
    Texts, NoText,
    NoEntry,        \* no entry in the path index
    Callers,        \* the chains of awaits that may be under way at once
    Excused,        \* the windows after which the properties say nothing more
    MaxActs,        \* bound: what the user does
    MaxFaults       \* bound: crashes and rounds that fail

(***************************************************************************)
(* The windows that the properties may excuse, each met by legal steps:    *)
(*   "registry first"  a crash after the registry's save, before the op's  *)
(*   "head last"       a crash after the op's append, before the head's save *)
(*   "restored"        an update of a file whose entry is a tombstone      *)
(*   "pruned"          a create is taken back that the server already has  *)
(*   "twice"           a second delete event finds the tombstone of the first *)
(*   "create first"    a create event is delivered before the delete it followed *)
(***************************************************************************)
Windows == {"registry first", "head last", "restored", "pruned", "twice", "create first"}

ASSUME TextsAssumption   == NoText \notin Texts
ASSUME BoundsAssumption  == MaxActs \in Nat /\ MaxFaults \in Nat
ASSUME ExcusedAssumption == Excused \subseteq Windows

VARIABLES
    text, stat,     \* the file, and its time and size
    listed,         \* the app's index of it: [there, stat], behind by what is not delivered
    phase,          \* "off", "startup", "listening", or "deaf" while a round applies
    events,         \* what the watcher has not yet delivered
    touched,        \* the startup's dirty set is not empty
    armed,          \* the debounce timer runs
    entry, saved,   \* the registry's entry of the path, in memory and on disk
    deferSave,      \* saves are suspended
    ops, durable,   \* the pending ops, in memory and on disk: sets, as ids tell their order
    server,         \* the ops that the server has
    call,           \* call[c]: what caller c is doing
    clock, acts, faults,
    unseen,         \* observed: a change that no handler saw and no pass has listed since
    slips           \* observed: the windows that were met

vault  == <<text, stat, acts>>
OnDisk == [there |-> text # NoText, stat |-> stat]
watch  == <<phase, events, touched, armed, listed>>
files  == <<saved, durable>>
memory == <<entry, deferSave, ops, clock>>
vars   == <<vault, watch, files, memory, server, call, faults, unseen, slips>>

Idle == [pc |-> "idle", job |-> "none", text |-> NoText, stat |-> 0, had |-> FALSE,
         parents |-> {}, op |-> 0, changed |-> FALSE, again |-> FALSE]

At(c, pc) == call[c].pc = pc
AllIdle   == \A c \in Callers : At(c, "idle")

Goes(c, pc)    == call' = [call EXCEPT ![c].pc = pc]
Moves(c, next) == call' = [call EXCEPT ![c] = next]

\* A handler is over; inside a round the capture pass follows.
Ends(c) == Moves(c, IF call[c].job = "round" THEN [Idle EXCEPT !.pc = "list", !.job = "round"] ELSE Idle)

----------------------------------------------------------------------------
(* Ops and entries *)

Op(id, type, file, t, parents) ==
    [id |-> id, type |-> type, file |-> file, text |-> t, parents |-> parents]

HeadOf(e) == IF e.head = 0 THEN {} ELSE {e.head}

NewEntry(t, st) == [file |-> clock + 1, text |-> t, head |-> 0, stat |-> st, deleted |-> FALSE]

\* registerFile: a tombstone of this session comes back under its id.
registerFile(t, st) ==
    CASE entry = NoEntry -> NewEntry(t, st)
      [] entry # NoEntry /\ entry.deleted -> [entry EXCEPT !.deleted = FALSE, !.text = t, !.stat = st]
      [] OTHER -> entry

\* save: suspended, or written at once.
Save == IF deferSave THEN saved ELSE entry

----------------------------------------------------------------------------
(* The user, and the watcher *)

Change(t) ==
    /\ acts < MaxActs /\ t # text
    /\ text' = t /\ acts' = acts + 1 /\ stat' = acts + 1
    /\ IF phase = "off" THEN unseen' = TRUE /\ UNCHANGED events
       ELSE /\ events' = Append(events, CASE t = NoText -> "delete"
                                          [] t # NoText /\ text = NoText -> "create"
                                          [] OTHER -> "modify")
            /\ UNCHANGED unseen
    /\ UNCHANGED <<phase, touched, armed, listed, files, memory, server, call, faults, slips>>

\* A delete and what follows it come in no certain order.
Delivered(k) ==
    /\ k \in DOMAIN events /\ \A j \in 1..k - 1 : events[j] = "delete"
    /\ events' = RemoveAt(events, k)
    /\ listed' = OnDisk

\* flushModify: an untracked file is created.
Modify(c, job) ==
    Moves(c, [Idle EXCEPT !.pc = "read", !.job = job, !.had = entry # NoEntry])

handleCreate(c, k) ==
    /\ phase = "listening" /\ At(c, "idle") /\ events[k] = "create" /\ Delivered(k)
    /\ Moves(c, [Idle EXCEPT !.pc = "read", !.job = "live"])
    /\ UNCHANGED <<vault, phase, touched, armed, files, memory, server, faults, unseen, slips>>

handleModify(k) ==
    /\ phase = "listening" /\ events[k] = "modify" /\ Delivered(k)
    /\ armed' = TRUE
    /\ UNCHANGED <<vault, phase, touched, files, memory, server, call, faults, unseen, slips>>

handleDelete(c, k) ==
    /\ phase = "listening" /\ At(c, "idle") /\ events[k] = "delete" /\ Delivered(k)
    /\ IF entry = NoEntry THEN UNCHANGED call
       ELSE Moves(c, [Idle EXCEPT !.pc = "exists", !.job = "live"])
    /\ UNCHANGED <<vault, phase, touched, armed, files, memory, server, faults, unseen, slips>>

\* Before listening the watcher only notes the path; while a round applies nobody listens.
Unheard(k) ==
    /\ phase \in {"startup", "deaf"} /\ Delivered(k)
    /\ touched' = (touched \/ phase = "startup")
    /\ unseen' = TRUE
    /\ UNCHANGED <<vault, phase, armed, files, memory, server, call, faults, slips>>

DebounceFires(c) ==
    /\ armed /\ phase = "listening" /\ At(c, "idle")
    /\ armed' = FALSE
    /\ Modify(c, "live")
    /\ UNCHANGED <<vault, phase, events, touched, listed, files, memory, server, faults, unseen, slips>>

----------------------------------------------------------------------------
(* The handlers, await by await                                            *)

\* files.read
Reads(c) ==
    /\ At(c, "read")
    /\ IF text = NoText \/ ~ listed.there THEN Ends(c)
       ELSE Moves(c, [call[c] EXCEPT !.pc = "hash", !.text = text])
    /\ UNCHANGED <<vault, watch, files, memory, server, faults, unseen, slips>>

\* handleCreate, the content hashed: registerFile, and its save.
Registers(c) ==
    /\ At(c, "hash") /\ ~ call[c].had
    /\ entry' = registerFile(call[c].text, 0)
    /\ Moves(c, [call[c] EXCEPT !.pc = IF entry' = entry THEN "put" ELSE "save"])
    /\ slips' = slips \cup IF entry'.text # call[c].text THEN {"create first"} ELSE {}
    /\ UNCHANGED <<vault, watch, files, deferSave, ops, clock, server, faults, unseen>>

\* flushModify, the content hashed: nothing new, or the head is taken as parent.
Hashed(c) ==
    /\ At(c, "hash") /\ call[c].had
    /\ IF call[c].text = entry.text THEN Ends(c)
       ELSE Moves(c, [call[c] EXCEPT !.pc = "stored", !.parents = HeadOf(entry)])
    /\ slips' = slips \cup IF entry.deleted /\ call[c].text # entry.text THEN {"restored"} ELSE {}
    /\ UNCHANGED <<vault, watch, files, memory, server, faults, unseen>>

updateContentHash(c) ==
    /\ At(c, "stored")
    /\ entry' = [entry EXCEPT !.text = call[c].text]
    /\ Goes(c, "save")
    /\ UNCHANGED <<vault, watch, files, deferSave, ops, clock, server, faults, unseen, slips>>

\* handleDelete, files.exists: a delete that comes late is a modify.
Exists(c) ==
    /\ At(c, "exists")
    /\ IF listed.there
       THEN Moves(c, [call[c] EXCEPT !.pc = "read", !.had = TRUE]) /\ UNCHANGED <<entry, slips>>
       ELSE /\ Goes(c, "saveDeleted")
            /\ entry' = [entry EXCEPT !.deleted = TRUE]
            /\ slips' = slips \cup IF entry.deleted THEN {"twice"} ELSE {}
    /\ UNCHANGED <<vault, watch, files, deferSave, ops, clock, server, faults, unseen>>

\* recordOp: the op is pending, and its append is under way.
Records(c, type, t, parents) ==
    /\ clock' = clock + 1
    /\ ops' = ops \cup {Op(clock + 1, type, entry.file, t, parents)}
    /\ Moves(c, [call[c] EXCEPT !.pc = "append", !.op = clock + 1])

\* The registry's save lands.
Saves(c) ==
    /\ At(c, "save") \/ At(c, "put")
    /\ saved' = IF At(c, "put") THEN saved ELSE Save
    /\ Records(c, IF call[c].had THEN "update" ELSE "create", call[c].text, call[c].parents)
    /\ UNCHANGED <<vault, watch, durable, entry, deferSave, server, faults, unseen, slips>>

\* Fault: only the create is taken back.
PruneCreateOnly(file) == {o \in ops : o.file # file \/ o.type # "create"}

\* pruneCreateDeletePair: the create and all ops of the file.
pruneCreateDeletePair(file) == {o \in ops : o.file # file}

SavesDeleted(c) ==
    /\ At(c, "saveDeleted")
    /\ saved' = Save
    /\ IF \E o \in ops : o.file = entry.file /\ o.type = "create"
       THEN /\ ops' = pruneCreateDeletePair(entry.file)
            /\ Goes(c, "rewrite")
            /\ slips' = slips \cup IF \E o \in server : o.file = entry.file THEN {"pruned"} ELSE {}
            /\ UNCHANGED clock
       ELSE Records(c, "delete", entry.text, HeadOf(entry)) /\ UNCHANGED slips
    /\ UNCHANGED <<vault, watch, durable, entry, deferSave, server, faults, unseen>>

\* appendOpLog lands, and setHeadVersion.
Appends(c) ==
    /\ At(c, "append")
    /\ durable' = ops
    /\ entry' = [entry EXCEPT !.head = call[c].op]
    /\ Goes(c, "head")
    /\ UNCHANGED <<vault, watch, saved, deferSave, ops, clock, server, faults, unseen, slips>>

HeadSaved(c) ==
    /\ At(c, "head")
    /\ saved' = Save
    /\ Ends(c)
    /\ UNCHANGED <<vault, watch, durable, memory, server, faults, unseen, slips>>

\* rewriteOpLog lands.
Rewrites(c) ==
    /\ At(c, "rewrite")
    /\ durable' = ops
    /\ Ends(c)
    /\ UNCHANGED <<vault, watch, saved, memory, server, faults, unseen, slips>>

----------------------------------------------------------------------------
(* The capture pass                                                        *)

\* Fault: an empty listing is believed.
TrustsListing(cold) == ~ listed.there \/ cold

\* The file is missing from a listing that can be trusted: one that is empty while files
\* are tracked comes from a vault that has not been read yet.
Vanished(cold) == ~ listed.there /\ ~ cold

\* files.list, and the gate by time and size; or a delete, which awaits nothing.
Lists(c) ==
    /\ At(c, "list")
    /\ deferSave' = TRUE
    /\ \E cold \in {FALSE, phase = "startup"} :
          /\ unseen' = (unseen /\ cold)
          /\ CASE listed.there /\ ~ cold /\ (entry = NoEntry \/ entry.stat # listed.stat) ->
                     /\ Moves(c, [call[c] EXCEPT !.pc = "scan", !.stat = listed.stat, !.had = entry # NoEntry])
                     /\ UNCHANGED <<entry, ops, clock>>
               [] Vanished(cold) /\ entry # NoEntry /\ ~ entry.deleted ->
                     /\ clock' = clock + 1
                     /\ ops' = ops \cup {Op(clock + 1, "delete", entry.file, entry.text, HeadOf(entry))}
                     /\ entry' = [entry EXCEPT !.deleted = TRUE, !.head = clock + 1]
                     /\ Moves(c, [call[c] EXCEPT !.pc = "flush", !.changed = TRUE])
               [] OTHER -> Goes(c, "flush") /\ UNCHANGED <<entry, ops, clock>>
    /\ UNCHANGED <<vault, watch, files, server, faults, slips>>

Scans(c) ==
    /\ At(c, "scan")
    /\ IF text = NoText \/ ~ listed.there THEN Goes(c, "flush")
       ELSE Moves(c, [call[c] EXCEPT !.pc = "drift", !.text = text])
    /\ UNCHANGED <<vault, watch, files, memory, server, faults, unseen, slips>>

\* The content is as recorded: only the stat is taken (recordStat).  Or it is stored.
Drifts(c) ==
    /\ At(c, "drift")
    /\ slips' = slips \cup IF call[c].had /\ entry.deleted THEN {"restored"} ELSE {}
    /\ IF call[c].had /\ entry.text = call[c].text
       THEN entry' = [entry EXCEPT !.stat = call[c].stat] /\ Goes(c, "flush")
       ELSE Goes(c, "captured") /\ UNCHANGED entry
    /\ UNCHANGED <<vault, watch, files, deferSave, ops, clock, server, faults, unseen>>

\* The op of a file that was not tracked, or that drifted: entry, op and head at once.
Captures(c) ==
    /\ At(c, "captured")
    /\ LET k == call[c]
           e == IF k.had THEN [entry EXCEPT !.text = k.text, !.stat = k.stat]
                ELSE registerFile(k.text, k.stat)
           parents == IF k.had THEN HeadOf(entry) ELSE {}
       IN  /\ ops' = ops \cup {Op(clock + 1, IF k.had THEN "update" ELSE "create", e.file, k.text, parents)}
           /\ entry' = [e EXCEPT !.head = clock + 1]
    /\ clock' = clock + 1
    /\ Moves(c, [call[c] EXCEPT !.pc = "flush", !.changed = TRUE])
    /\ UNCHANGED <<vault, watch, files, deferSave, server, faults, unseen, slips>>

\* The last checkpoint: the registry first.
Flushes(c) ==
    /\ At(c, "flush")
    /\ saved' = entry
    /\ Goes(c, "log")
    /\ UNCHANGED <<vault, watch, durable, memory, server, faults, unseen, slips>>

\* One pass more when something was touched in the first (MAX_RECONCILE_PASSES).
Reconciles(c) == call[c].job = "startup" /\ touched /\ ~ call[c].again

\* The op log follows, if there is anything new; then the startup listens and a round pushes.
Logs(c) ==
    /\ At(c, "log")
    /\ durable' = IF call[c].changed THEN ops ELSE durable
    /\ deferSave' = FALSE
    /\ IF Reconciles(c)
       THEN /\ Moves(c, [Idle EXCEPT !.pc = "list", !.job = "startup", !.again = TRUE])
            /\ touched' = FALSE /\ UNCHANGED phase
       ELSE /\ phase' = IF call[c].job = "startup" THEN "listening" ELSE phase
            /\ Moves(c, IF call[c].job = "startup" THEN Idle ELSE [Idle EXCEPT !.pc = "push", !.job = "round"])
            /\ UNCHANGED touched
    /\ UNCHANGED <<vault, events, armed, listed, saved, entry, ops, clock, server, faults, unseen, slips>>

----------------------------------------------------------------------------
(* Rounds, crashes and starts                                              *)

\* triggerSync and the coordinator: timers are flushed, then the pass runs.
BeginRound(c) ==
    /\ phase = "listening" /\ At(c, "idle")
    /\ \A d \in Callers : call[d].job # "round"
    /\ armed' = FALSE
    /\ IF armed THEN Modify(c, "round") ELSE Moves(c, [Idle EXCEPT !.pc = "list", !.job = "round"])
    /\ UNCHANGED <<vault, phase, events, touched, listed, files, memory, server, faults, unseen, slips>>

\* pushPendingOps, and clearPendingOps up to its rewrite.
Push(c) ==
    /\ At(c, "push")
    /\ server' = server \cup ops
    /\ ops' = {}
    /\ Goes(c, "clear")
    /\ UNCHANGED <<vault, watch, files, entry, deferSave, clock, faults, unseen, slips>>

\* Fault: a failed push forgets what it tried to push.
RoundFailsCleared(c) ==
    /\ At(c, "push") /\ faults < MaxFaults
    /\ faults' = faults + 1
    /\ ops' = {}
    /\ Moves(c, Idle)
    /\ UNCHANGED <<vault, watch, files, entry, deferSave, clock, server, unseen, slips>>

\* The server may have them all the same.
RoundFails(c) ==
    /\ At(c, "push") /\ faults < MaxFaults
    /\ faults' = faults + 1
    /\ server' \in {server, server \cup ops}
    /\ Moves(c, Idle)
    /\ UNCHANGED <<vault, watch, files, memory, unseen, slips>>

\* The rewrite lands, and applyActions stops listening.
StopsListening(c) ==
    /\ At(c, "clear")
    /\ durable' = ops
    /\ phase' = "deaf" /\ armed' = FALSE
    /\ unseen' = (unseen \/ armed)
    /\ Goes(c, "apply")
    /\ UNCHANGED <<vault, events, touched, listed, saved, memory, server, faults, slips>>

RoundEnds(c) ==
    /\ At(c, "apply")
    /\ phase' = "listening"
    /\ Moves(c, Idle)
    /\ UNCHANGED <<vault, events, touched, armed, listed, files, memory, server, faults, unseen, slips>>

\* What a crash leaves behind: the registry may be ahead of the op log or its head behind.
Slipped ==
    {w \in {"registry first"} : \E c \in Callers :
        At(c, "append") \/ At(c, "put") \/ At(c, "rewrite") \/ (At(c, "log") /\ call[c].changed)}
    \cup {w \in {"head last"} : \E c \in Callers : At(c, "head")}

Crash ==
    /\ phase # "off" /\ faults < MaxFaults
    /\ faults' = faults + 1
    /\ phase' = "off" /\ events' = <<>> /\ armed' = FALSE /\ touched' = FALSE
    /\ entry' = NoEntry /\ deferSave' = FALSE /\ ops' = {}
    /\ call' = [c \in Callers |-> Idle]
    /\ unseen' = (unseen \/ events # <<>> \/ armed \/ ~ AllIdle)
    /\ slips' = slips \cup Slipped
    /\ UNCHANGED <<vault, listed, files, clock, server>>

\* load: a tombstone is not indexed again; the watcher notes paths while the pass runs.
Start(c) ==
    /\ phase = "off"
    /\ phase' = "startup" /\ listed' = OnDisk
    /\ entry' = IF saved = NoEntry \/ saved.deleted THEN NoEntry ELSE saved
    /\ ops' = durable
    /\ Moves(c, [Idle EXCEPT !.pc = "list", !.job = "startup"])
    /\ UNCHANGED <<vault, events, touched, armed, files, deferSave, clock, server, faults, unseen, slips>>

----------------------------------------------------------------------------

Init ==
    /\ text \in Texts \cup {NoText} /\ stat = 0 /\ listed = OnDisk /\ acts = 0
    /\ phase = "off" /\ events = <<>> /\ touched = FALSE /\ armed = FALSE
    /\ entry = NoEntry /\ saved = NoEntry /\ deferSave = FALSE
    /\ ops = {} /\ durable = {} /\ server = {}
    /\ call = [c \in Callers |-> Idle]
    /\ clock = 0 /\ faults = 0
    /\ unseen = TRUE /\ slips = {}

Step(c) ==
    \/ Reads(c) \/ Registers(c) \/ Hashed(c) \/ updateContentHash(c) \/ Exists(c)
    \/ Saves(c) \/ SavesDeleted(c) \/ Appends(c) \/ HeadSaved(c) \/ Rewrites(c)
    \/ Lists(c) \/ Scans(c) \/ Drifts(c) \/ Captures(c) \/ Flushes(c) \/ Logs(c)
    \/ Push(c) \/ StopsListening(c) \/ RoundEnds(c)

Delivers ==
    \E k \in DOMAIN events :
        \/ handleModify(k)
        \/ Unheard(k)
        \/ \E c \in Callers : handleCreate(c, k) \/ handleDelete(c, k)

Next ==
    \/ \E t \in Texts \cup {NoText} : Change(t)
    \/ Delivers
    \/ \E c \in Callers :
          Step(c) \/ DebounceFires(c) \/ BeginRound(c) \/ RoundFails(c) \/ Start(c)
    \/ Crash

\* Writes land or reject; the watcher delivers and timers fire, also between rounds that
\* follow each other closely; the app is opened again; the interval starts rounds.
Fairness ==
    /\ \A c \in Callers : WF_vars(Step(c)) /\ WF_vars(Start(c)) /\ WF_vars(BeginRound(c))
    /\ SF_vars(Delivers)
    /\ SF_vars(\E c \in Callers : DebounceFires(c))

Spec     == Init /\ [][Next]_vars
FairSpec == Spec /\ Fairness

----------------------------------------------------------------------------
(* Properties                                                              *)

Recorded == server \cup ops \cup durable

Types  == {"create", "update", "delete"}
Jobs   == {"none", "live", "startup", "round"}
Passes == {"scan", "drift", "captured", "flush", "log"}
PCs    == {"idle", "list", "read", "hash", "stored", "save", "put", "append", "head", "exists",
           "saveDeleted", "rewrite", "push", "clear", "apply"} \cup Passes

Entries == [file : Nat, text : Texts, head : Nat, stat : Nat, deleted : BOOLEAN]
Ops     == [id : Nat, type : Types, file : Nat, text : Texts, parents : SUBSET Nat]
Calls   == [pc : PCs, job : Jobs, text : Texts \cup {NoText}, stat : Nat, had : BOOLEAN,
            parents : SUBSET Nat, op : Nat, changed : BOOLEAN, again : BOOLEAN]

ASSUME NoEntryAssumption == NoEntry \notin Entries

\* What the variables hold; an entry names the op that made it last, once there is one, and
\* saves are only suspended by a pass.
TypeOK ==
    /\ text \in Texts \cup {NoText} /\ stat \in Nat /\ listed \in [there : BOOLEAN, stat : Nat]
    /\ phase \in {"off", "startup", "listening", "deaf"}
    /\ events \in Seq({"create", "modify", "delete"})
    /\ touched \in BOOLEAN /\ armed \in BOOLEAN /\ deferSave \in BOOLEAN /\ unseen \in BOOLEAN
    /\ clock \in Nat /\ acts \in Nat /\ faults \in Nat
    /\ {entry, saved} \subseteq Entries \cup {NoEntry}
    /\ \A e \in {entry, saved} \ {NoEntry} : e.head <= clock
    /\ Recorded \subseteq Ops
    /\ \A o \in Recorded : o.id \in 1..clock /\ o.parents \subseteq 1..clock
    /\ call \in [Callers -> Calls]
    /\ \A c \in Callers : call[c].op <= clock /\ call[c].parents \subseteq 1..clock
    /\ deferSave => \E c \in Callers : call[c].pc \in Passes
    /\ slips \subseteq Windows

\* What a peer that applied these ops would have.
Newest(S) == {o \in S : \A p \in S : p.file = o.file => p.id <= o.id}
Live(S)   == {o \in Newest(S) : o.type # "delete"}

\* The ops say what the vault holds, and the registry names the op that says it.
Told(S) ==
    IF text = NoText THEN Live(S) = {} /\ (entry = NoEntry \/ entry.deleted)
    ELSE /\ entry # NoEntry /\ ~ entry.deleted /\ entry.text = text
         /\ {<<o.id, o.file, o.text>> : o \in Live(S)} = {<<entry.head, entry.file, text>>}

Quiet == phase = "listening" /\ AllIdle /\ events = <<>> /\ ~ armed /\ ~ unseen

Excepted == slips \cap Excused # {}

\* When no handler, timer or change is outstanding, the ops of this device tell of the file
\* what is in the vault, and so does the registry - after any interleaving of the user with
\* handlers, passes and rounds, and any crash and start (flushModify, captureOfflineChanges).
QuietTextIsTold == (Quiet /\ ~ Excepted) => Told(server \cup ops)

\* The ops of this device form one line of history: what an op has as parent was recorded,
\* and no two ops have the same (flushModify, parentVersion and setHeadVersion).
OwnHistoryIsALine ==
    ~ Excepted =>
        /\ \A o \in Recorded : o.parents \subseteq {p.id : p \in Recorded}
        /\ \A o, p \in Recorded : o.id # p.id /\ o.parents # {} => o.parents # p.parents

\* What a user leaves in the vault gets to the server, whatever failed or crashed on the
\* way (captureOfflineChangesAndReconcile, sync).
TextReachesTheServer == []<>(Excepted \/ Told(server))
=============================================================================
