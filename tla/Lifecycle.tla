------------------------------ MODULE Lifecycle ------------------------------
(* The plugin around a sync round: what starts a round, what may not run      *)
(* beside one, and what happens to a device's sync history when the user      *)
(* turns it to another vault (main.ts, sync-coordinator.ts,                   *)
(* sync-state-store.ts, vault-binding-store.ts, sync-cancellation.ts).        *)
(*                                                                            *)
(* A call is one chain of awaits: a trigger of the timer or of the user, a    *)
(* maintenance command, a vault switch.  Each step below ends at an await, so *)
(* several calls interleave as the event loop would interleave them.  The     *)
(* merge itself is Sync.tla's and Vault.tla's: here a round only mixes the    *)
(* history of the vault it talks to into the stores, and settles conflicts.   *)
EXTENDS Naturals, Sequences, FiniteSets

CONSTANTS
  Callers,    \* the chains of awaits that may be under way at once
  Vaults,     \* the server vaults the settings may name
  Blank,      \* settings.vaultId = '': disconnected
  None,       \* no value: no binding marker, no cancel token
  Files,      \* the files a delete or binary conflict may arise on
  Standing,   \* those a standing delete policy settles without the user
  MaxCrashes  \* bound: how often the application stops

ASSUME ValuesAssumption == None \notin Vaults \union {Blank} \union Callers /\ Blank \notin Vaults
ASSUME BoundAssumption  == MaxCrashes \in Nat

VARIABLES
  vault,         \* settings.vaultId, saved with the settings
  binding,       \* vault-binding.json
  stores,        \* the vaults whose history each local store holds
  syncing,       \* syncInProgress
  starting,      \* startupCaptureInProgress
  collecting,    \* gcInProgress
  token,         \* syncCancelToken: the call whose round a cancel reaches
  call,          \* what each caller is doing
  roundConflicts,\* the coordinator's descriptors of the round in flight
  listed,        \* syncState.conflicts
  decision,      \* the files with an entry in syncState.pendingDecisions
  lastGc,        \* syncState.lastGcAt against the GC interval
  conflict,      \* the files whose heads do conflict, as a merge would find
  spent,         \* history: the pending decisions a round has already applied
  listedBy,      \* history: the vault of the round that wrote listed
  answer,        \* history: the vault whose conflict the user answered, per file
  crashes

history  == <<binding, stores>>
flags    == <<syncing, starting, collecting, token>>
told     == <<spent, listedBy, answer>>
findings == <<roundConflicts, listed, decision, lastGc, conflict, told>>
vars     == <<vault, history, flags, call, findings, crashes>>

Stores == {"ops", "registry", "cursor", "dag"}
Idle   == [at |-> "idle", kind |-> "sync", source |-> "auto", goal |-> None,
           round |-> None, cancelled |-> FALSE, left |-> <<>>,
           deferred |-> {}]

Unanswered == [f \in Files |-> None]

(* A switch that overlaps a trigger leaves a round without a vault.           *)
TypeOK ==
  /\ vault \in Vaults \union {Blank}
  /\ binding \in Vaults \union {Blank, None}
  /\ stores \in [Stores -> SUBSET (Vaults \union {Blank})]
  /\ syncing \in BOOLEAN /\ starting \in BOOLEAN /\ collecting \in BOOLEAN
  /\ token \in Callers \union {None}
  /\ DOMAIN call = Callers
  /\ \A c \in Callers : /\ call[c].round \in Vaults \union {Blank, None}
                        /\ call[c].deferred \subseteq Files
                        /\ call[c].at = "collect" => collecting
  /\ roundConflicts \subseteq Files /\ listed \subseteq Files
  /\ spent \subseteq decision /\ decision \subseteq Files /\ conflict \subseteq Files
  /\ listedBy \in Vaults \union {Blank, None}
  /\ answer \in [Files -> Vaults \union {Blank, None}]
  /\ lastGc \in {"never", "recent", "due"}

Init ==
  /\ vault \in Vaults \union {Blank}
  /\ binding = None
  /\ stores = [s \in Stores |-> {}]
  /\ syncing = FALSE /\ starting = TRUE /\ collecting = FALSE
  /\ token = None
  /\ call = [c \in Callers |-> Idle]
  /\ roundConflicts = {} /\ listed = {} /\ decision = {} /\ conflict = {}
  /\ spent = {} /\ listedBy = None /\ answer = Unanswered
  /\ lastGc = "never"
  /\ crashes = 0

-----------------------------------------------------------------------------
(* Calls.                                                                     *)

At(c, where) == call[c].at = where
Goes(c, where) == call' = [call EXCEPT ![c].at = where]
Returns(c) == call' = [call EXCEPT ![c] = Idle]
Busy == syncing \/ starting

Capturing(h) == [h EXCEPT !["ops"] = @ \union h["registry"]]

(* triggerSync's first three guards, read without an await.                   *)
MayTrigger == ~starting /\ ~syncing /\ vault # Blank

TriggerSync(c, source) ==
  /\ At(c, "idle") /\ MayTrigger
  /\ call' = [call EXCEPT ![c] = [Idle EXCEPT !.at = "binding", !.source = source]]
  /\ UNCHANGED <<vault, history, flags, findings, crashes>>

(* A command that ends in triggerSync('manual').                              *)
TriggersAtTheEnd(c) ==
  /\ At(c, "trigger")
  /\ call' = [call EXCEPT ![c] =
                IF MayTrigger
                THEN [Idle EXCEPT !.at = "binding", !.source = "manual"]
                ELSE Idle]
  /\ UNCHANGED <<vault, history, flags, findings, crashes>>

checkVaultBinding(c) ==
  /\ At(c, "binding")
  /\ binding' = IF binding = None THEN vault ELSE binding
  /\ CASE binding \in {None, vault} -> Goes(c, "unlock")
       [] binding \notin {None, vault} /\ call[c].source = "manual" ->
            call' = [call EXCEPT ![c].at = "modal", ![c].kind = "rebind"]
       [] OTHER -> Returns(c)
  /\ UNCHANGED <<vault, stores, flags, findings, crashes>>

(* The key is there or is derived; the round begins without another await.    *)
BeginsRound(c) ==
  /\ At(c, "unlock")
  /\ syncing' = TRUE
  /\ roundConflicts' = {}
  /\ Goes(c, "capture")
  /\ UNCHANGED <<vault, history, starting, collecting, token, listed, decision,
                 lastGc, conflict, told, crashes>>

StaysLocked(c) ==
  /\ At(c, "unlock")
  /\ Returns(c)
  /\ UNCHANGED <<vault, history, flags, findings, crashes>>

-----------------------------------------------------------------------------
(* The round: SyncCoordinator.sync around ServerSyncClient.runSync.           *)

CapturesAndConnects(c) ==
  /\ At(c, "capture")
  /\ stores' = Capturing(stores)
  /\ token' = c
  /\ call' = [call EXCEPT ![c].at = "pull", ![c].round = vault,
                          ![c].cancelled = FALSE]
  /\ UNCHANGED <<vault, binding, syncing, starting, collecting, findings, crashes>>

Pull(c) ==
  /\ At(c, "pull") /\ ~call[c].cancelled
  /\ Goes(c, "push")
  /\ UNCHANGED <<vault, history, flags, findings, crashes>>

Push(c) ==
  /\ At(c, "push") /\ ~call[c].cancelled
  /\ stores' = [stores EXCEPT !["ops"] = {}]
  /\ Goes(c, "apply")
  /\ UNCHANGED <<vault, binding, flags, findings, crashes>>

(* throwIfCancelled at the checkpoints before the vault is written.           *)
StopsAtCheckpoint(c) ==
  /\ call[c].at \in {"pull", "push"} /\ call[c].cancelled
  /\ Goes(c, "finally")
  /\ UNCHANGED <<vault, history, flags, findings, crashes>>

(* A round may reject at any await, the writes after its merge included: of   *)
(* the clock before the outcome is recorded, of the settings after it.        *)
MayReject == {"capture", "pull", "push", "save", "record", "maintain"}

(* Fault: the release of the flag is not in a finally block.                  *)
FailsHoldingTheFlag(c) ==
  /\ call[c].at \in MayReject
  /\ Returns(c)
  /\ UNCHANGED <<vault, history, flags, findings, crashes>>

RoundFails(c) ==
  /\ call[c].at \in MayReject
  /\ Goes(c, "finally")
  /\ UNCHANGED <<vault, history, flags, findings, crashes>>

(* What the merge finds in conflict: unreachable content strands a file, so   *)
(* it is not asked about; a decided file is settled unless its write throws;  *)
(* a standing policy answers for the user; the rest are deferred and listed.  *)
Merging(round) ==
  [stores EXCEPT !["dag"] = @ \union {round}, !["registry"] = @ \union {round},
                 !["ops"] = stores["registry"] \union {round}]

Answered == decision \union Standing

Apply(c) ==
  /\ At(c, "apply")
  /\ \E stranded \in SUBSET conflict :
     \E failed \in SUBSET ((conflict \ stranded) \intersect Answered) :
       LET asked   == conflict \ stranded
           applied == (asked \intersect Answered) \ failed
       IN  /\ roundConflicts' = roundConflicts \union (asked \ Answered)
           /\ conflict' = conflict \ applied
           /\ spent' = spent \union (applied \intersect decision)
           /\ answer' = [f \in Files |-> IF f \in applied THEN None ELSE answer[f]]
           /\ call' = [call EXCEPT ![c].at = "save",
                                   ![c].deferred = asked \ Answered]
  /\ stores' = Merging(call[c].round)
  /\ UNCHANGED <<vault, binding, flags, listed, decision, lastGc, listedBy, crashes>>

(* More than MAX_ACTION_FAILURES actions threw: the apply rethrows.           *)
ApplyRejects(c) ==
  /\ At(c, "apply")
  /\ stores' = Merging(call[c].round)
  /\ Goes(c, "finally")
  /\ UNCHANGED <<vault, binding, flags, findings, crashes>>

SaveCursor(c) ==
  /\ At(c, "save")
  /\ stores' = [stores EXCEPT !["cursor"] = {call[c].round}]
  /\ Goes(c, "record")
  /\ UNCHANGED <<vault, binding, flags, findings, crashes>>

(* setRound keeps only the decisions whose conflict this round deferred.      *)
NoneLive == {}    \* fault: every recorded decision counts as consumed
StillLive == roundConflicts

recordRoundOutcome(c) ==
  /\ At(c, "record")
  /\ listed' = roundConflicts
  /\ decision' = decision \intersect StillLive
  /\ spent' = spent \intersect StillLive
  /\ listedBy' = IF roundConflicts = {} THEN None ELSE call[c].round
  /\ answer' = [f \in Files |-> IF f \in call[c].deferred THEN answer[f] ELSE None]
  /\ Goes(c, "maintain")
  /\ UNCHANGED <<vault, history, flags, roundConflicts, lastGc, conflict, crashes>>

(* gcDue: never means seed the window, not run; a pass already under way      *)
(* answers at once, and the clock is stamped all the same.                    *)
maybeRunGc(c) ==
  /\ At(c, "maintain")
  /\ IF lastGc = "due" /\ ~collecting
     THEN collecting' = TRUE /\ Goes(c, "collect") /\ UNCHANGED lastGc
     ELSE lastGc' = "recent" /\ Goes(c, "finally") /\ UNCHANGED collecting
  /\ lastGc # "recent"
  /\ UNCHANGED <<vault, history, syncing, starting, token, roundConflicts, listed,
                 decision, conflict, told, crashes>>

GcNotDue(c) ==
  /\ At(c, "maintain") /\ lastGc = "recent"
  /\ Goes(c, "finally")
  /\ UNCHANGED <<vault, history, flags, findings, crashes>>

(* The pass ends or throws: its finally clears the flag, and a round's stamp  *)
(* follows either way.                                                        *)
GcEnds(c) ==
  /\ At(c, "collect")
  /\ collecting' = FALSE
  /\ IF call[c].kind = "clear"
     THEN Returns(c) /\ UNCHANGED lastGc
     ELSE Goes(c, "finally") /\ lastGc' = "recent"
  /\ UNCHANGED <<vault, history, syncing, starting, token, roundConflicts, listed,
                 decision, conflict, told, crashes>>

(* triggerSync's finally block.                                               *)
RoundEnds(c) ==
  /\ At(c, "finally")
  /\ syncing' = FALSE
  /\ token' = None
  /\ Returns(c)
  /\ UNCHANGED <<vault, history, starting, collecting, findings, crashes>>

cancelSync ==
  /\ token # None
  /\ ~call[token].cancelled
  /\ call' = [call EXCEPT ![token].cancelled = TRUE]
  /\ UNCHANGED <<vault, history, flags, findings, crashes>>

-----------------------------------------------------------------------------
(* Maintenance and the vault switch.                                          *)

(* clearContentCache and optimizeContentIndex refuse beside a round, and      *)
(* raise no flag a round would read.                                          *)
ClearCache(c) ==
  /\ At(c, "idle") /\ ~Busy /\ ~collecting
  /\ collecting' = TRUE
  /\ call' = [call EXCEPT ![c] = [Idle EXCEPT !.at = "collect", !.kind = "clear"]]
  /\ UNCHANGED <<vault, history, syncing, starting, token, findings, crashes>>

Asks(c, kind, goal) ==
  call' = [call EXCEPT ![c] = [Idle EXCEPT !.at = "modal", !.kind = kind,
                                           !.goal = goal]]

switchVault(c, goal) ==
  /\ At(c, "idle") /\ goal # vault /\ ~Busy
  /\ IF vault = Blank
     THEN call' = [call EXCEPT ![c] = [Idle EXCEPT !.at = "agreed", !.kind = "switch",
                                                   !.goal = goal]]
     ELSE Asks(c, "switch", goal)
  /\ UNCHANGED <<vault, history, flags, findings, crashes>>

rebuildLocalStateFromScratch(c) ==
  /\ At(c, "idle") /\ ~Busy /\ vault # Blank
  /\ Asks(c, "rebuild", None)
  /\ UNCHANGED <<vault, history, flags, findings, crashes>>

rebaselineToServer(c) ==
  /\ At(c, "idle") /\ vault # Blank
  /\ Asks(c, "rebaseline", None)
  /\ UNCHANGED <<vault, history, flags, findings, crashes>>

(* resetSyncState asks only when operations are pending; either way it ends   *)
(* in a capture over the registry it keeps.                                   *)
resetSyncState(c) ==
  /\ At(c, "idle")
  /\ stores' = Capturing(stores)
  /\ UNCHANGED <<vault, binding, flags, call, findings, crashes>>

recheckConflicts(c) ==
  /\ At(c, "idle")
  /\ stores' = [stores EXCEPT !["cursor"] = {}]
  /\ call' = [call EXCEPT ![c] = [Idle EXCEPT !.at = "trigger"]]
  /\ UNCHANGED <<vault, binding, flags, findings, crashes>>

Confirm(c) ==
  /\ At(c, "modal")
  /\ Goes(c, IF call[c].kind = "rebaseline" THEN "baseline" ELSE "agreed")
  /\ UNCHANGED <<vault, history, flags, findings, crashes>>

Decline(c) ==
  /\ At(c, "modal")
  /\ Returns(c)
  /\ UNCHANGED <<vault, history, flags, findings, crashes>>

WipeOrder == <<"ops", "registry", "cursor", "dag">>

(* Fault: the new binding is saved before the old vault's stores are wiped.   *)
BindsBeforeWipe(c) ==
  /\ At(c, "agreed")
  /\ vault' = IF call[c].kind = "switch" THEN call[c].goal ELSE vault
  /\ binding' = vault'
  /\ call' = [call EXCEPT ![c].at = "wipe", ![c].left = WipeOrder]
  /\ UNCHANGED <<stores, flags, findings, crashes>>

(* A switch saves the settings first; the wipe then clears store by store.    *)
BeginsWipe(c) ==
  /\ At(c, "agreed")
  /\ vault' = IF call[c].kind = "switch" THEN call[c].goal ELSE vault
  /\ call' = [call EXCEPT ![c].at = "wipe", ![c].left = WipeOrder]
  /\ UNCHANGED <<history, flags, findings, crashes>>

WipesStore(c) ==
  /\ At(c, "wipe") /\ call[c].left # <<>>
  /\ stores' = [stores EXCEPT ![Head(call[c].left)] = {}]
  /\ call' = [call EXCEPT ![c].left = Tail(@)]
  /\ UNCHANGED <<vault, binding, flags, findings, crashes>>

WipesSyncState(c) ==
  /\ At(c, "wipe") /\ call[c].left = <<>>
  /\ listed' = {} /\ decision' = {} /\ spent' = {} /\ lastGc' = "never"
  /\ listedBy' = None /\ answer' = Unanswered
  /\ Goes(c, IF call[c].kind = "rebuild" THEN "baseline" ELSE "bind")
  /\ UNCHANGED <<vault, history, flags, roundConflicts, conflict, crashes>>

(* A rebind goes on with its round; a switch re-baselines unless it was a     *)
(* disconnection.                                                             *)
Binds(c) ==
  /\ At(c, "bind")
  /\ binding' = IF call[c].kind = "switch" THEN call[c].goal ELSE vault
  /\ CASE call[c].kind = "rebind" -> Goes(c, "unlock")
       [] call[c].goal = Blank -> Returns(c)
       [] OTHER -> Goes(c, "baseline")
  /\ UNCHANGED <<vault, stores, flags, findings, crashes>>

captureAllAsBaseline(c) ==
  /\ At(c, "baseline")
  /\ stores' = Capturing(stores)
  /\ Goes(c, "trigger")
  /\ UNCHANGED <<vault, binding, flags, findings, crashes>>

-----------------------------------------------------------------------------
(* The panel, the vault, the peers, the clock and the application.            *)

(* The panel records what the user picked, then triggers a round, which is    *)
(* refused while one is running.                                              *)
applyDeleteBinaryDecisions(f) ==
  /\ f \in listed
  /\ decision' = decision \union {f}
  /\ spent' = spent \ {f}
  /\ answer' = [answer EXCEPT ![f] = listedBy]
  /\ \/ Busy /\ UNCHANGED call
     \/ \E c \in Callers :
          /\ At(c, "idle")
          /\ call' = [call EXCEPT ![c] = [Idle EXCEPT !.at = "trigger"]]
  /\ UNCHANGED <<vault, history, flags, roundConflicts, listed, lastGc, conflict,
                 listedBy, crashes>>

Edit ==
  /\ ~starting /\ \A c \in Callers : ~At(c, "apply")
  /\ stores["ops"] # Capturing(stores)["ops"]
  /\ stores' = Capturing(stores)
  /\ UNCHANGED <<vault, binding, flags, call, findings, crashes>>

PeerConflicts(f) ==
  /\ vault # Blank /\ f \notin conflict
  /\ conflict' = conflict \union {f}
  /\ UNCHANGED <<vault, history, flags, call, roundConflicts, listed, decision,
                 lastGc, told, crashes>>

GcFallsDue ==
  /\ lastGc = "recent"
  /\ lastGc' = "due"
  /\ UNCHANGED <<vault, history, flags, call, roundConflicts, listed, decision,
                 conflict, told, crashes>>

StartupCaptured ==
  /\ starting
  /\ starting' = FALSE
  /\ stores' = Capturing(stores)
  /\ UNCHANGED <<vault, binding, syncing, collecting, token, call, findings, crashes>>

(* The application stops at any await and starts again; while it was down     *)
(* data.json may have been restored or edited to name another vault.          *)
Crash(v) ==
  /\ crashes < MaxCrashes
  /\ crashes' = crashes + 1
  /\ vault' = v
  /\ syncing' = FALSE /\ starting' = TRUE /\ collecting' = FALSE /\ token' = None
  /\ call' = [c \in Callers |-> Idle]
  /\ roundConflicts' = {}
  /\ UNCHANGED <<history, listed, decision, lastGc, conflict, told>>

Round(c) ==
  \/ CapturesAndConnects(c) \/ Pull(c) \/ Push(c) \/ StopsAtCheckpoint(c)
  \/ RoundFails(c) \/ Apply(c) \/ ApplyRejects(c) \/ SaveCursor(c)
  \/ recordRoundOutcome(c) \/ maybeRunGc(c) \/ GcNotDue(c) \/ GcEnds(c)
  \/ RoundEnds(c)

(* What the event loop carries on by itself once a call is under way.         *)
Runs(c) ==
  \/ TriggersAtTheEnd(c) \/ checkVaultBinding(c) \/ BeginsRound(c) \/ StaysLocked(c)
  \/ Round(c)
  \/ BeginsWipe(c) \/ WipesStore(c) \/ WipesSyncState(c) \/ Binds(c)
  \/ captureAllAsBaseline(c)

Asked(c) ==
  \/ \E source \in {"manual", "auto"} : TriggerSync(c, source)
  \/ ClearCache(c)
  \/ \E goal \in Vaults \union {Blank} : switchVault(c, goal)
  \/ rebuildLocalStateFromScratch(c) \/ rebaselineToServer(c)
  \/ resetSyncState(c) \/ recheckConflicts(c)
  \/ Confirm(c) \/ Decline(c)

Next ==
  \/ \E c \in Callers : Runs(c) \/ Asked(c)
  \/ cancelSync
  \/ \E f \in Files : applyDeleteBinaryDecisions(f) \/ PeerConflicts(f)
  \/ Edit \/ GcFallsDue \/ StartupCaptured
  \/ \E v \in Vaults \union {Blank} : Crash(v)

(* Awaited I/O settles: the HTTP client bounds every call by a timeout and    *)
(* the local stores resolve or reject.  No fairness for the user or the peers.*)
Fairness ==
  /\ \A c \in Callers : WF_vars(Runs(c))
  /\ WF_vars(StartupCaptured)

Spec == Init /\ [][Next]_vars /\ Fairness

-----------------------------------------------------------------------------
(* Properties.                                                                *)

Merges(c) == call[c].at \in {"pull", "push", "apply", "save"}
InRound(c) == Merges(c) \/ call[c].at \in {"capture", "record", "maintain"}
Wiping == \E c \in Callers : At(c, "wipe") /\ call[c].left = <<>>

(* A round never merges over the history of another vault than the one it     *)
(* talks to: whatever crash cut a switch or a wipe short, and whatever vault  *)
(* the settings name afterwards, the registry, the graph and the cursor are   *)
(* the vault's own or empty (checkVaultBinding, wipeLocalSyncState,           *)
(* switchVault).                                                              *)
OwnHistory ==
  \A c \in Callers : Merges(c) =>
    \A s \in Stores \ {"ops"} : stores[s] \subseteq {call[c].round}

(* What a round pushes to a vault was captured over that vault's history: no  *)
(* edit between two clears of a wipe keeps the old vault's parents.           *)
OwnOperations ==
  \A c \in Callers : At(c, "push") => stores["ops"] \subseteq {call[c].round}

(* At most one round is under way: triggerSync reads syncInProgress before    *)
(* two awaits and sets it after them.                                         *)
OneRound == \A c, d \in Callers : InRound(c) /\ InRound(d) => c = d

(* A garbage collection never overlaps a round (maybeRunGc runs inside one,   *)
(* clearContentCache refuses beside one).                                     *)
GcAlone ==
  \A c, d \in Callers : InRound(c) /\ At(d, "collect") => c = d

(* A round goes by the answers the user gave about conflicts of its own vault,*)
(* and by all of them: one picked in the panel while a round was running, or  *)
(* before a round that failed, still counts in the next, and none outlives a  *)
(* switch of vaults that a crash cut short.  An answer ends when a round has  *)
(* applied it, with a wipe, or when a round records an outcome that does not  *)
(* defer its file (recordDecision, getDecision, setRound, wipeLocalSyncState).*)
AnswersCount ==
  \A c \in Callers : At(c, "apply") =>
    decision \ spent = {f \in Files : answer[f] = call[c].round}

(* setRound says it drops a decision whose conflict is gone, consumed and     *)
(* resolved or vanished: then one not applied yet stays while the file        *)
(* conflicts, but for a wipe.                                                 *)
DropsWithTheConflict ==
  [][\A f \in (decision \ spent) \ decision' : f \in conflict => Wiping]_vars

(* A pending decision answers one conflict: once a round has applied it, it   *)
(* does not settle a later conflict of the file the user was never shown      *)
(* (decideDeleteConflict, decideBinaryConflict and setRound).                 *)
AnswersOneConflict ==
  [][\A f \in spent : f \in conflict => f \in conflict' \union Standing]_vars

(* Every busy flag is released: a round that fails, is cancelled or has to    *)
(* collect garbage gives "Sync now" back, and so does the startup capture.    *)
FlagsReleased ==
  /\ syncing ~> ~syncing
  /\ collecting ~> ~collecting
  /\ starting ~> ~starting

=============================================================================
