--------------------------- MODULE Lifecycle_proofs ---------------------------
(* That a device which is turned from vault to vault never mixes their          *)
(* histories, nor lets an answer of the user about one vault count in another,  *)
(* for any number of vaults, files and crashes, as long as one chain of awaits  *)
(* is under way at a time.                                                      *)
EXTENDS Lifecycle, TLAPS

-----------------------------------------------------------------------------
(* The kinds of the state, for any number of callers.                           *)

Places == {"idle", "binding", "modal", "agreed", "wipe", "bind", "baseline", "trigger", "unlock",
           "capture", "pull", "push", "apply", "save", "record", "maintain", "collect", "finally"}

Kinds == {"sync", "rebind", "switch", "rebuild", "rebaseline", "clear"}

\* What WipesStore leaves of WipeOrder.
Rests == {<<"ops", "registry", "cursor", "dag">>, <<"registry", "cursor", "dag">>,
          <<"cursor", "dag">>, <<"dag">>, <<>>}

Calls == [at : Places, kind : Kinds, source : {"manual", "auto"},
          goal : Vaults \union {Blank, None}, round : Vaults \union {Blank, None},
          cancelled : BOOLEAN, left : Rests, deferred : SUBSET Files]

CallsTyped ==
  /\ binding \in Vaults \union {Blank, None} /\ call \in [Callers -> Calls] /\ crashes \in Nat

\* No two collections run at the same time.
OneCollects == \A c, d \in Callers : At(c, "collect") /\ At(d, "collect") => c = d

\* A round talks to a vault, and a switch has a goal.
CallsFit ==
  \A c \in Callers :
    /\ Merges(c) => call[c].round \in Vaults \union {Blank}
    /\ call[c].kind = "switch" => call[c].goal \in Vaults \union {Blank}

TypesInv == TypeOK /\ CallsTyped /\ OneCollects /\ CallsFit

-----------------------------------------------------------------------------
(* The history of one vault at a time.                                          *)

Alone == \A c, d \in Callers : c = d

Shared == Stores \ {"ops"}

\* What the stores hold is the history of the vault that the marker names.
BoundHistory == \A s \in Shared : stores[s] \subseteq {binding}

\* A round begins once the marker names the vault of the settings, and stays with it.
RoundIsBound ==
  \A c \in Callers :
    /\ call[c].at \in {"unlock", "capture"} => binding = vault
    /\ Merges(c) => call[c].round = binding

\* The marker is set when every store has been wiped.
WipedBeforeBound ==
  \A c \in Callers :
    /\ At(c, "wipe") =>
          \A s \in Shared : stores[s] = {} \/ \E i \in 1..Len(call[c].left) : call[c].left[i] = s
    /\ At(c, "bind") => \A s \in Shared : stores[s] = {}

HistoryInv == TypesInv /\ BoundHistory /\ RoundIsBound /\ WipedBeforeBound

-----------------------------------------------------------------------------
(* The answers of the user.                                                     *)

\* A decision not applied yet is an answer about the vault that the marker names.
AnswersAreBound ==
  /\ decision \ spent = {f \in Files : answer[f] # None}
  /\ \A f \in Files : answer[f] \in {None, binding}

\* The panel lists conflicts of that vault.
ListedIsBound == listed # {} => listedBy = binding /\ listedBy # None

\* Before its merge a round has described no conflict, after it those it defers; it records them
\* under the vault it talked to.
RoundDescribes ==
  \A c \in Callers :
    /\ call[c].at \in {"capture", "pull", "push", "apply"} => roundConflicts = {}
    /\ call[c].at \in {"save", "record"} => call[c].deferred = roundConflicts
    /\ At(c, "record") => call[c].round = binding /\ binding # None

\* The marker is set when nothing is listed or answered.
ForgottenBeforeBound ==
  \A c \in Callers : At(c, "bind") => listed = {} /\ \A f \in Files : answer[f] = None

AnswersInv == AnswersAreBound /\ ListedIsBound /\ RoundDescribes /\ ForgottenBeforeBound

-----------------------------------------------------------------------------
(* What the calls and the stores are made of.                                 *)

USE DEF told

LEMMA IdleIsACall == Idle \in Calls
BY DEF Idle, Calls, Places, Kinds, Rests

\* What a command of the user begins with.
LEMMA CommandsAreCalls ==
  \A p \in Places : /\ [Idle EXCEPT !.at = p] \in Calls
                    /\ \A k \in Kinds :
                         /\ [Idle EXCEPT !.at = p, !.kind = k] \in Calls
                         /\ \A g \in Vaults \union {Blank, None} :
                              [Idle EXCEPT !.at = p, !.kind = k, !.goal = g] \in Calls
<1>1. "sync" \in Kinds /\ <<>> \in Rests
  BY DEF Kinds, Rests
<1>2. ASSUME NEW p \in Places PROVE [Idle EXCEPT !.at = p] \in Calls
  BY <1>1 DEF Idle, Calls
<1>3. ASSUME NEW p \in Places, NEW k \in Kinds PROVE [Idle EXCEPT !.at = p, !.kind = k] \in Calls
  BY <1>1 DEF Idle, Calls
<1>4. ASSUME NEW p \in Places, NEW k \in Kinds, NEW g \in Vaults \union {Blank, None}
      PROVE  [Idle EXCEPT !.at = p, !.kind = k, !.goal = g] \in Calls
  BY <1>1 DEF Idle, Calls
<1> QED BY <1>2, <1>3, <1>4

\* An update of a call's fields is a call.
LEMMA FieldsOfACall ==
  ASSUME NEW r \in Calls
  PROVE  /\ \A p \in Places : [r EXCEPT !.at = p] \in Calls
         /\ \A v \in Vaults \union {Blank, None} : [r EXCEPT !.round = v] \in Calls
         /\ \A b \in BOOLEAN : [r EXCEPT !.cancelled = b] \in Calls
         /\ \A l \in Rests : [r EXCEPT !.left = l] \in Calls
         /\ \A S \in SUBSET Files : [r EXCEPT !.deferred = S] \in Calls
         /\ \A k \in Kinds : [r EXCEPT !.kind = k] \in Calls
BY DEF Calls

\* A call that goes on is a call.
LEMMA GoesToACall ==
  ASSUME call \in [Callers -> Calls], NEW c \in Callers, NEW p \in Places, Goes(c, p)
  PROVE  call'[c] \in Calls
<1>1. call'[c] = [call[c] EXCEPT !.at = p]
  BY DEF Goes
<1>2. call[c] \in Calls
  OBVIOUS
<1> QED BY <1>1, <1>2, FieldsOfACall

\* No step puts anything but vaults into a store.
LEMMA StoresStay ==
  ASSUME TypeOK, NEW v \in Vaults \union {Blank}
  PROVE  /\ Capturing(stores) \in [Stores -> SUBSET (Vaults \union {Blank})]
         /\ Merging(v) \in [Stores -> SUBSET (Vaults \union {Blank})]
         /\ [stores EXCEPT !["cursor"] = {v}] \in [Stores -> SUBSET (Vaults \union {Blank})]
BY DEF TypeOK, Capturing, Merging, Stores

\* What is left of a wipe after a store is cleared, and that nothing but that store is taken off.
LEMMA TailOfARest ==
  ASSUME NEW l \in Rests, l # <<>>
  PROVE  /\ Tail(l) \in Rests /\ Head(l) \in Stores
         /\ l \in Seq(Stores)
         /\ \A s : (\E i \in 1..Len(l) : l[i] = s) => s = Head(l) \/ \E i \in 1..Len(Tail(l)) : Tail(l)[i] = s
<1>1. CASE l = <<"ops", "registry", "cursor", "dag">>
  BY <1>1 DEF Rests, Stores
<1>2. CASE l = <<"registry", "cursor", "dag">>
  BY <1>2 DEF Rests, Stores
<1>3. CASE l = <<"cursor", "dag">>
  BY <1>3 DEF Rests, Stores
<1>4. CASE l = <<"dag">>
  BY <1>4 DEF Rests, Stores
<1> QED BY <1>1, <1>2, <1>3, <1>4 DEF Rests

\* A step that changes nothing preserves both invariants.
LEMMA StandingStill ==
  ASSUME TypesInv, UNCHANGED vars
  PROVE  TypesInv' /\ (HistoryInv => HistoryInv')
<1> USE DEF vars, history, flags, findings
<1>1. TypesInv'
  BY DEF TypesInv, TypeOK, CallsTyped, OneCollects, CallsFit, Merges, At
<1>2. ASSUME HistoryInv PROVE HistoryInv'
  BY <1>1, <1>2
     DEF HistoryInv, BoundHistory, RoundIsBound, WipedBeforeBound, Merges, At
<1> QED BY <1>1, <1>2

\* Before the first step every call is idle and every store is empty.
LEMMA StartsTyped == Init => TypesInv /\ HistoryInv
<1> SUFFICES ASSUME Init PROVE TypesInv /\ HistoryInv
  OBVIOUS
<1> USE DEF Init
<1>1. \A c \in Callers : call[c] = Idle
  OBVIOUS
<1>2. TypesInv
  BY <1>1, IdleIsACall, ValuesAssumption
     DEF Idle, Unanswered, TypesInv, TypeOK, CallsTyped, OneCollects, CallsFit, Merges, At
<1>3. HistoryInv
  BY <1>1, <1>2
     DEF Idle, HistoryInv, Shared, BoundHistory, RoundIsBound, WipedBeforeBound, Merges, At
<1> QED BY <1>2, <1>3

-----------------------------------------------------------------------------
(* Every step preserves the types: one lemma per action.                      *)

LEMMA TriggerSyncTypes ==
  ASSUME TypesInv, NEW c \in Callers, NEW src \in {"manual", "auto"}, TriggerSync(c, src)
  PROVE  TypesInv'
<1> USE ValuesAssumption
   DEF TypesInv, CallsTyped, TriggerSync, At, MayTrigger, history, flags, findings
<1>1. /\ call'[c] \in Calls
      /\ call' = [call EXCEPT ![c] = call'[c]]
  <2>1. call' = [call EXCEPT ![c] = call'[c]]
    OBVIOUS
  <2>2. call'[c] \in Calls
    BY IdleIsACall DEF Calls, Places, Kinds, Rests, TypeOK
  <2> QED BY <2>1, <2>2
<1>2. CallsTyped'
  BY <1>1, IdleIsACall DEF TypeOK, Calls, Places
<1>3. TypeOK'
  BY <1>1, <1>2, IdleIsACall DEF TypeOK, OneCollects, CallsFit, Merges, Calls, Idle
<1>4. OneCollects'
  BY <1>1, <1>2 DEF TypeOK, OneCollects, Calls, Idle
<1>5. CallsFit'
  BY <1>1, <1>2 DEF TypeOK, CallsFit, Merges, Calls, Idle
<1> QED BY <1>2, <1>3, <1>4, <1>5

LEMMA TriggersAtTheEndTypes ==
  ASSUME TypesInv, NEW c \in Callers, TriggersAtTheEnd(c)
  PROVE  TypesInv'
<1> USE ValuesAssumption
   DEF TypesInv, CallsTyped, TriggersAtTheEnd, At, MayTrigger, history, flags, findings
<1>1. /\ call'[c] \in Calls
      /\ call' = [call EXCEPT ![c] = call'[c]]
  <2>1. call' = [call EXCEPT ![c] = call'[c]]
    OBVIOUS
  <2>2. [Idle EXCEPT !.at = "binding", !.source = "manual"] \in Calls
    BY DEF Idle, Calls, Places, Kinds, Rests
  <2>3. call'[c] \in Calls
    BY <2>2, IdleIsACall
  <2> QED BY <2>1, <2>3
<1>2. CallsTyped'
  BY <1>1, IdleIsACall DEF TypeOK, Calls, Places
<1>3. TypeOK'
  BY <1>1, <1>2, IdleIsACall DEF TypeOK, OneCollects, CallsFit, Merges, Calls, Idle
<1>4. OneCollects'
  BY <1>1, <1>2 DEF TypeOK, OneCollects, Calls, Idle
<1>5. CallsFit'
  BY <1>1, <1>2 DEF TypeOK, CallsFit, Merges, Calls, Idle
<1> QED BY <1>2, <1>3, <1>4, <1>5

LEMMA checkVaultBindingTypes ==
  ASSUME TypesInv, NEW c \in Callers, checkVaultBinding(c)
  PROVE  TypesInv'
<1> USE ValuesAssumption
   DEF TypesInv, CallsTyped, checkVaultBinding, At, Goes, Returns, flags, findings
<1>1. /\ call'[c] \in Calls
      /\ call' = [call EXCEPT ![c] = call'[c]]
  <2>1. call' = [call EXCEPT ![c] = call'[c]]
    OBVIOUS
  <2>2. \/ \E p \in Places : Goes(c, p)
        \/ call'[c] = Idle
        \/ call'[c] = [[call[c] EXCEPT !.at = "modal"] EXCEPT !.kind = "rebind"]
    BY DEF Places
  <2>3. call[c] \in Calls /\ "modal" \in Places /\ "rebind" \in Kinds
    BY DEF Places, Kinds
  <2>4. [[call[c] EXCEPT !.at = "modal"] EXCEPT !.kind = "rebind"] \in Calls
    BY <2>3, FieldsOfACall
  <2>5. call'[c] \in Calls
    BY <2>2, <2>4, IdleIsACall, GoesToACall
  <2> QED BY <2>1, <2>5
<1>2. CallsTyped'
  BY <1>1, IdleIsACall DEF TypeOK, Calls, Places
<1>3. TypeOK'
  BY <1>1, <1>2, IdleIsACall DEF TypeOK, OneCollects, CallsFit, Merges, Calls, Idle
<1>4. OneCollects'
  BY <1>1, <1>2 DEF TypeOK, OneCollects, Calls, Idle
<1>5. CallsFit'
  BY <1>1, <1>2 DEF TypeOK, CallsFit, Merges, Calls, Idle
<1> QED BY <1>2, <1>3, <1>4, <1>5

LEMMA BeginsRoundTypes ==
  ASSUME TypesInv, NEW c \in Callers, BeginsRound(c)
  PROVE  TypesInv'
<1> USE ValuesAssumption DEF TypesInv, CallsTyped, BeginsRound, At, Goes, history
<1>1. /\ call'[c] \in Calls
      /\ call' = [call EXCEPT ![c] = call'[c]]
  <2>1. call' = [call EXCEPT ![c] = call'[c]]
    OBVIOUS
  <2>2. \E p \in Places : Goes(c, p)
    BY DEF Places
  <2>3. call'[c] \in Calls
    BY <2>2, GoesToACall
  <2> QED BY <2>1, <2>3
<1>2. CallsTyped'
  BY <1>1, IdleIsACall DEF TypeOK, Calls, Places
<1>3. TypeOK'
  BY <1>1, <1>2, IdleIsACall DEF TypeOK, OneCollects, CallsFit, Merges, Calls, Idle
<1>4. OneCollects'
  BY <1>1, <1>2 DEF TypeOK, OneCollects, Calls, Idle
<1>5. CallsFit'
  BY <1>1, <1>2 DEF TypeOK, CallsFit, Merges, Calls, Idle
<1> QED BY <1>2, <1>3, <1>4, <1>5

LEMMA StaysLockedTypes ==
  ASSUME TypesInv, NEW c \in Callers, StaysLocked(c)
  PROVE  TypesInv'
<1> USE ValuesAssumption
   DEF TypesInv, CallsTyped, StaysLocked, At, Returns, history, flags, findings
<1>1. /\ call'[c] \in Calls
      /\ call' = [call EXCEPT ![c] = call'[c]]
  <2>1. call' = [call EXCEPT ![c] = call'[c]]
    OBVIOUS
  <2>2. call'[c] \in Calls
    BY IdleIsACall DEF Calls, Places, Kinds, Rests, TypeOK
  <2> QED BY <2>1, <2>2
<1>2. CallsTyped'
  BY <1>1, IdleIsACall DEF TypeOK, Calls, Places
<1>3. TypeOK'
  BY <1>1, <1>2, IdleIsACall DEF TypeOK, OneCollects, CallsFit, Merges, Calls, Idle
<1>4. OneCollects'
  BY <1>1, <1>2 DEF TypeOK, OneCollects, Calls, Idle
<1>5. CallsFit'
  BY <1>1, <1>2 DEF TypeOK, CallsFit, Merges, Calls, Idle
<1> QED BY <1>2, <1>3, <1>4, <1>5

LEMMA CapturesAndConnectsTypes ==
  ASSUME TypesInv, NEW c \in Callers, CapturesAndConnects(c)
  PROVE  TypesInv'
<1> USE ValuesAssumption DEF TypesInv, CallsTyped, CapturesAndConnects, At, findings
<1>1. /\ call'[c] \in Calls
      /\ call' = [call EXCEPT ![c] = call'[c]]
  <2>1. call' = [call EXCEPT ![c] = call'[c]]
    OBVIOUS
  <2>2. call'[c] = [call[c] EXCEPT !.at = "pull", !.round = vault, !.cancelled = FALSE]
    OBVIOUS
  <2>a. /\ call[c] \in Calls /\ vault \in Vaults \union {Blank, None} /\ FALSE \in BOOLEAN
        /\ "pull" \in Places
    BY DEF TypeOK, Places
  <2> HIDE DEF CapturesAndConnects, TypesInv, CallsTyped
  <2>b. [call[c] EXCEPT !.at = "pull"] \in Calls
    BY <2>a, FieldsOfACall
  <2>d. [[call[c] EXCEPT !.at = "pull"] EXCEPT !.round = vault] \in Calls
    BY <2>a, <2>b, FieldsOfACall
  <2>e. [[[call[c] EXCEPT !.at = "pull"] EXCEPT !.round = vault] EXCEPT !.cancelled = FALSE] \in Calls
    BY <2>a, <2>d, FieldsOfACall
  <2>3. call'[c] \in Calls
    BY <2>2, <2>e
  <2> QED BY <2>1, <2>3
<1>2. CallsTyped'
  BY <1>1, IdleIsACall DEF TypeOK, Calls, Places
<1>3. TypeOK'
  BY <1>1, <1>2, IdleIsACall, StoresStay DEF TypeOK, OneCollects, CallsFit, Merges, Calls, Idle
<1>4. OneCollects'
  BY <1>1, <1>2 DEF TypeOK, OneCollects, Calls, Idle
<1>5. CallsFit'
  BY <1>1, <1>2 DEF TypeOK, CallsFit, Merges, Calls, Idle
<1> QED BY <1>2, <1>3, <1>4, <1>5

LEMMA PullTypes ==
  ASSUME TypesInv, NEW c \in Callers, Pull(c)
  PROVE  TypesInv'
<1> USE ValuesAssumption DEF TypesInv, CallsTyped, Pull, At, Goes, history, flags, findings
<1>1. /\ call'[c] \in Calls
      /\ call' = [call EXCEPT ![c] = call'[c]]
  <2>1. call' = [call EXCEPT ![c] = call'[c]]
    OBVIOUS
  <2>2. \E p \in Places : Goes(c, p)
    BY DEF Places
  <2>3. call'[c] \in Calls
    BY <2>2, GoesToACall
  <2> QED BY <2>1, <2>3
<1>2. CallsTyped'
  BY <1>1, IdleIsACall DEF TypeOK, Calls, Places
<1>3. TypeOK'
  BY <1>1, <1>2, IdleIsACall DEF TypeOK, OneCollects, CallsFit, Merges, Calls, Idle
<1>4. OneCollects'
  BY <1>1, <1>2 DEF TypeOK, OneCollects, Calls, Idle
<1>5. CallsFit'
  BY <1>1, <1>2 DEF TypeOK, CallsFit, Merges, Calls, Idle
<1> QED BY <1>2, <1>3, <1>4, <1>5

LEMMA PushTypes ==
  ASSUME TypesInv, NEW c \in Callers, Push(c)
  PROVE  TypesInv'
<1> USE ValuesAssumption DEF TypesInv, CallsTyped, Push, At, Goes, flags, findings
<1>1. /\ call'[c] \in Calls
      /\ call' = [call EXCEPT ![c] = call'[c]]
  <2>1. call' = [call EXCEPT ![c] = call'[c]]
    OBVIOUS
  <2>2. \E p \in Places : Goes(c, p)
    BY DEF Places
  <2>3. call'[c] \in Calls
    BY <2>2, GoesToACall
  <2> QED BY <2>1, <2>3
<1>2. CallsTyped'
  BY <1>1, IdleIsACall DEF TypeOK, Calls, Places
<1>3. TypeOK'
  <2>1. stores' \in [Stores -> SUBSET (Vaults \union {Blank})]
    BY DEF TypeOK, Stores
  <2>2. \A d \in Callers : At(d, "collect")' => collecting'
    BY <1>1 DEF TypeOK
  <2> QED BY <1>2, <2>1, <2>2 DEF TypeOK, Calls
<1>4. OneCollects'
  BY <1>1, <1>2 DEF TypeOK, OneCollects, Calls, Idle
<1>5. CallsFit'
  BY <1>1, <1>2 DEF TypeOK, CallsFit, Merges, Calls, Idle
<1> QED BY <1>2, <1>3, <1>4, <1>5

LEMMA StopsAtCheckpointTypes ==
  ASSUME TypesInv, NEW c \in Callers, StopsAtCheckpoint(c)
  PROVE  TypesInv'
<1> USE ValuesAssumption DEF TypesInv, CallsTyped, StopsAtCheckpoint, Goes, history, flags, findings
<1>1. /\ call'[c] \in Calls
      /\ call' = [call EXCEPT ![c] = call'[c]]
  <2>1. call' = [call EXCEPT ![c] = call'[c]]
    OBVIOUS
  <2>2. \E p \in Places : Goes(c, p)
    BY DEF Places
  <2>3. call'[c] \in Calls
    BY <2>2, GoesToACall
  <2> QED BY <2>1, <2>3
<1>2. CallsTyped'
  BY <1>1, IdleIsACall DEF TypeOK, Calls, Places
<1>3. TypeOK'
  BY <1>1, <1>2, IdleIsACall DEF TypeOK, OneCollects, CallsFit, Merges, Calls, Idle, At
<1>4. OneCollects'
  BY <1>1, <1>2 DEF TypeOK, OneCollects, Calls, Idle, At
<1>5. CallsFit'
  BY <1>1, <1>2 DEF TypeOK, CallsFit, Merges, Calls, Idle
<1> QED BY <1>2, <1>3, <1>4, <1>5

LEMMA RoundFailsTypes ==
  ASSUME TypesInv, NEW c \in Callers, RoundFails(c)
  PROVE  TypesInv'
<1> USE ValuesAssumption DEF TypesInv, CallsTyped, RoundFails, Goes, history, flags, findings
<1>1. /\ call'[c] \in Calls
      /\ call' = [call EXCEPT ![c] = call'[c]]
  <2>1. call' = [call EXCEPT ![c] = call'[c]]
    OBVIOUS
  <2>2. \E p \in Places : Goes(c, p)
    BY DEF Places
  <2>3. call'[c] \in Calls
    BY <2>2, GoesToACall
  <2> QED BY <2>1, <2>3
<1>2. CallsTyped'
  BY <1>1, IdleIsACall DEF TypeOK, Calls, Places
<1>3. TypeOK'
  BY <1>1, <1>2, IdleIsACall DEF TypeOK, OneCollects, CallsFit, Merges, Calls, Idle, At
<1>4. OneCollects'
  BY <1>1, <1>2 DEF TypeOK, OneCollects, Calls, Idle, At
<1>5. CallsFit'
  BY <1>1, <1>2 DEF TypeOK, CallsFit, Merges, Calls, Idle
<1> QED BY <1>2, <1>3, <1>4, <1>5

LEMMA ApplyTypes ==
  ASSUME TypesInv, NEW c \in Callers, Apply(c)
  PROVE  TypesInv'
<1> USE ValuesAssumption DEF TypesInv, CallsTyped, Apply, At, flags
<1>1. /\ call'[c] \in Calls
      /\ call' = [call EXCEPT ![c] = call'[c]]
  <2>1. call' = [call EXCEPT ![c] = call'[c]]
    OBVIOUS
  <2>2. \E S \in SUBSET Files : call'[c] = [[call[c] EXCEPT !.at = "save"] EXCEPT !.deferred = S]
    BY DEF TypeOK
  <2>3. call[c] \in Calls /\ "save" \in Places
    BY DEF Places
  <2>4. [call[c] EXCEPT !.at = "save"] \in Calls
    BY <2>3, FieldsOfACall
  <2> HIDE DEF Apply, TypesInv, CallsTyped, flags
  <2>5. PICK S \in SUBSET Files : call'[c] = [[call[c] EXCEPT !.at = "save"] EXCEPT !.deferred = S]
    BY <2>2
  <2>6. [[call[c] EXCEPT !.at = "save"] EXCEPT !.deferred = S] \in Calls
    BY <2>4, FieldsOfACall
  <2> QED BY <2>1, <2>5, <2>6
<1>2. CallsTyped'
  BY <1>1, IdleIsACall DEF TypeOK, Calls, Places
<1>3. TypeOK'
  BY <1>1, <1>2, IdleIsACall, StoresStay DEF TypeOK, OneCollects, CallsFit, Merges, Calls, Idle
<1>4. OneCollects'
  BY <1>1, <1>2 DEF TypeOK, OneCollects, Calls, Idle
<1>5. CallsFit'
  BY <1>1, <1>2 DEF TypeOK, CallsFit, Merges, Calls, Idle
<1> QED BY <1>2, <1>3, <1>4, <1>5

LEMMA ApplyRejectsTypes ==
  ASSUME TypesInv, NEW c \in Callers, ApplyRejects(c)
  PROVE  TypesInv'
<1> USE ValuesAssumption DEF TypesInv, CallsTyped, ApplyRejects, At, Goes, flags, findings
<1>1. /\ call'[c] \in Calls
      /\ call' = [call EXCEPT ![c] = call'[c]]
  <2>1. call' = [call EXCEPT ![c] = call'[c]]
    OBVIOUS
  <2>2. \E p \in Places : Goes(c, p)
    BY DEF Places
  <2>3. call'[c] \in Calls
    BY <2>2, GoesToACall
  <2> QED BY <2>1, <2>3
<1>2. CallsTyped'
  BY <1>1, IdleIsACall DEF TypeOK, Calls, Places
<1>3. TypeOK'
  BY <1>1, <1>2, IdleIsACall, StoresStay DEF TypeOK, OneCollects, CallsFit, Merges, Calls, Idle
<1>4. OneCollects'
  BY <1>1, <1>2 DEF TypeOK, OneCollects, Calls, Idle
<1>5. CallsFit'
  BY <1>1, <1>2 DEF TypeOK, CallsFit, Merges, Calls, Idle
<1> QED BY <1>2, <1>3, <1>4, <1>5

LEMMA SaveCursorTypes ==
  ASSUME TypesInv, NEW c \in Callers, SaveCursor(c)
  PROVE  TypesInv'
<1> USE ValuesAssumption DEF TypesInv, CallsTyped, SaveCursor, At, Goes, flags, findings
<1>1. /\ call'[c] \in Calls
      /\ call' = [call EXCEPT ![c] = call'[c]]
  <2>1. call' = [call EXCEPT ![c] = call'[c]]
    OBVIOUS
  <2>2. \E p \in Places : Goes(c, p)
    BY DEF Places
  <2>3. call'[c] \in Calls
    BY <2>2, GoesToACall
  <2> QED BY <2>1, <2>3
<1>2. CallsTyped'
  BY <1>1, IdleIsACall DEF TypeOK, Calls, Places
<1>3. TypeOK'
  BY <1>1, <1>2, IdleIsACall, StoresStay DEF TypeOK, OneCollects, CallsFit, Merges, Calls, Idle
<1>4. OneCollects'
  BY <1>1, <1>2 DEF TypeOK, OneCollects, Calls, Idle
<1>5. CallsFit'
  BY <1>1, <1>2 DEF TypeOK, CallsFit, Merges, Calls, Idle
<1> QED BY <1>2, <1>3, <1>4, <1>5

LEMMA recordRoundOutcomeTypes ==
  ASSUME TypesInv, NEW c \in Callers, recordRoundOutcome(c)
  PROVE  TypesInv'
<1> USE ValuesAssumption
   DEF TypesInv, CallsTyped, recordRoundOutcome, At, Goes, StillLive, history, flags
<1>1. /\ call'[c] \in Calls
      /\ call' = [call EXCEPT ![c] = call'[c]]
  <2>1. call' = [call EXCEPT ![c] = call'[c]]
    OBVIOUS
  <2>2. \E p \in Places : Goes(c, p)
    BY DEF Places
  <2>3. call'[c] \in Calls
    BY <2>2, GoesToACall
  <2> QED BY <2>1, <2>3
<1>2. CallsTyped'
  BY <1>1, IdleIsACall DEF TypeOK, Calls, Places
<1>3. TypeOK'
  BY <1>1, <1>2, IdleIsACall DEF TypeOK, OneCollects, CallsFit, Merges, Calls, Idle
<1>4. OneCollects'
  BY <1>1, <1>2 DEF TypeOK, OneCollects, Calls, Idle
<1>5. CallsFit'
  BY <1>1, <1>2 DEF TypeOK, CallsFit, Merges, Calls, Idle
<1> QED BY <1>2, <1>3, <1>4, <1>5

LEMMA maybeRunGcTypes ==
  ASSUME TypesInv, NEW c \in Callers, maybeRunGc(c)
  PROVE  TypesInv'
<1> USE ValuesAssumption DEF TypesInv, CallsTyped, maybeRunGc, At, Goes, history
<1>1. /\ call'[c] \in Calls
      /\ call' = [call EXCEPT ![c] = call'[c]]
  <2>1. call' = [call EXCEPT ![c] = call'[c]]
    OBVIOUS
  <2>2. \E p \in Places : Goes(c, p)
    BY DEF Places
  <2>3. call'[c] \in Calls
    BY <2>2, GoesToACall
  <2> QED BY <2>1, <2>3
<1>a. /\ \/ call'[c].at = "collect" /\ collecting' = TRUE /\ ~collecting /\ lastGc' = lastGc
         \/ call'[c].at = "finally" /\ collecting' = collecting /\ lastGc' = "recent"
      /\ call'[c].round = call[c].round
  BY DEF Calls
<1>2. CallsTyped'
  BY <1>1, IdleIsACall DEF TypeOK, Calls, Places
<1>b. /\ collecting' \in BOOLEAN /\ lastGc' \in {"never", "recent", "due"}
      /\ \A d \in Callers : At(d, "collect")' => collecting'
  BY <1>a, <1>1 DEF TypeOK
<1>3. TypeOK'
  BY <1>b, <1>2 DEF TypeOK, Calls
<1>4. OneCollects'
  BY <1>a, <1>1, <1>2 DEF TypeOK, OneCollects, Calls, Idle
<1>5. CallsFit'
  BY <1>a, <1>1, <1>2 DEF TypeOK, CallsFit, Merges, Calls, Idle
<1> QED BY <1>2, <1>3, <1>4, <1>5

LEMMA GcNotDueTypes ==
  ASSUME TypesInv, NEW c \in Callers, GcNotDue(c)
  PROVE  TypesInv'
<1> USE ValuesAssumption DEF TypesInv, CallsTyped, GcNotDue, At, Goes, history, flags, findings
<1>1. /\ call'[c] \in Calls
      /\ call' = [call EXCEPT ![c] = call'[c]]
  <2>1. call' = [call EXCEPT ![c] = call'[c]]
    OBVIOUS
  <2>2. \E p \in Places : Goes(c, p)
    BY DEF Places
  <2>3. call'[c] \in Calls
    BY <2>2, GoesToACall
  <2> QED BY <2>1, <2>3
<1>2. CallsTyped'
  BY <1>1, IdleIsACall DEF TypeOK, Calls, Places
<1>3. TypeOK'
  BY <1>1, <1>2, IdleIsACall DEF TypeOK, OneCollects, CallsFit, Merges, Calls, Idle
<1>4. OneCollects'
  BY <1>1, <1>2 DEF TypeOK, OneCollects, Calls, Idle
<1>5. CallsFit'
  BY <1>1, <1>2 DEF TypeOK, CallsFit, Merges, Calls, Idle
<1> QED BY <1>2, <1>3, <1>4, <1>5

LEMMA GcEndsTypes ==
  ASSUME TypesInv, NEW c \in Callers, GcEnds(c)
  PROVE  TypesInv'
<1> USE ValuesAssumption DEF TypesInv, CallsTyped, GcEnds, At, Goes, Returns, history
<1>1. /\ call'[c] \in Calls
      /\ call' = [call EXCEPT ![c] = call'[c]]
  <2>1. call' = [call EXCEPT ![c] = call'[c]]
    OBVIOUS
  <2>2. call'[c] = Idle \/ call'[c] = [call[c] EXCEPT !.at = "finally"]
    OBVIOUS
  <2>3. call'[c] \in Calls
    BY <2>2, IdleIsACall DEF Calls, Places, Kinds, Rests
  <2> QED BY <2>1, <2>3
<1>a. \/ call[c].kind = "clear" /\ call'[c] = Idle /\ lastGc' = lastGc
      \/ call[c].kind # "clear" /\ call'[c].at = "finally" /\ lastGc' = "recent"
             /\ call'[c].round = call[c].round
  BY DEF Calls
<1>2. CallsTyped'
  BY <1>1, IdleIsACall DEF TypeOK, Calls, Places
<1>b. collecting' = FALSE /\ At(c, "collect") /\ \A d \in Callers : d # c => ~At(d, "collect")
  BY DEF OneCollects
<1>3. TypeOK'
  <2>1. \A d \in Callers : /\ call'[d].round \in Vaults \union {Blank, None}
                          /\ call'[d].deferred \subseteq Files
                          /\ call'[d].at # "collect"
    BY <1>a, <1>b, <1>1, <1>2 DEF Calls, Idle
  <2>2. lastGc' \in {"never", "recent", "due"}
    BY <1>a DEF TypeOK
  <2> QED BY <1>b, <1>1, <1>2, <2>1, <2>2 DEF TypeOK
<1>4. OneCollects'
  BY <1>a, <1>1, <1>2 DEF TypeOK, OneCollects, Calls, Idle
<1>5. CallsFit'
  BY <1>a, <1>1, <1>2 DEF TypeOK, CallsFit, Merges, Calls, Idle
<1> QED BY <1>2, <1>3, <1>4, <1>5

LEMMA RoundEndsTypes ==
  ASSUME TypesInv, NEW c \in Callers, RoundEnds(c)
  PROVE  TypesInv'
<1> USE ValuesAssumption DEF TypesInv, CallsTyped, RoundEnds, At, Returns, history, findings
<1>1. /\ call'[c] \in Calls
      /\ call' = [call EXCEPT ![c] = call'[c]]
  <2>1. call' = [call EXCEPT ![c] = call'[c]]
    OBVIOUS
  <2>2. call'[c] \in Calls
    BY IdleIsACall DEF Calls, Places, Kinds, Rests, TypeOK
  <2> QED BY <2>1, <2>2
<1>2. CallsTyped'
  BY <1>1, IdleIsACall DEF TypeOK, Calls, Places
<1>3. TypeOK'
  BY <1>1, <1>2, IdleIsACall DEF TypeOK, OneCollects, CallsFit, Merges, Calls, Idle
<1>4. OneCollects'
  BY <1>1, <1>2 DEF TypeOK, OneCollects, Calls, Idle
<1>5. CallsFit'
  BY <1>1, <1>2 DEF TypeOK, CallsFit, Merges, Calls, Idle
<1> QED BY <1>2, <1>3, <1>4, <1>5

LEMMA ClearCacheTypes ==
  ASSUME TypesInv, NEW c \in Callers, ClearCache(c)
  PROVE  TypesInv'
<1> USE ValuesAssumption DEF TypesInv, CallsTyped, ClearCache, At, history, findings, Busy
<1>1. /\ call'[c] \in Calls
      /\ call' = [call EXCEPT ![c] = call'[c]]
  <2>1. call' = [call EXCEPT ![c] = call'[c]]
    OBVIOUS
  <2>2. call'[c] \in Calls
    BY CommandsAreCalls DEF Places, Kinds
  <2> QED BY <2>1, <2>2
<1>2. CallsTyped'
  BY <1>1, IdleIsACall DEF TypeOK, Calls, Places
<1>3. TypeOK'
  BY <1>1, <1>2, IdleIsACall DEF TypeOK, OneCollects, CallsFit, Merges, Calls, Idle
<1>4. OneCollects'
  BY <1>1, <1>2 DEF TypeOK, OneCollects, Calls, Idle
<1>5. CallsFit'
  BY <1>1, <1>2 DEF TypeOK, CallsFit, Merges, Calls, Idle
<1> QED BY <1>2, <1>3, <1>4, <1>5

LEMMA switchVaultTypes ==
  ASSUME TypesInv, NEW c \in Callers, NEW goal \in Vaults \union {Blank}, switchVault(c, goal)
  PROVE  TypesInv'
<1> USE ValuesAssumption
   DEF TypesInv, CallsTyped, switchVault, At, Asks, history, flags, findings, Busy
<1>1. /\ call'[c] \in Calls
      /\ call' = [call EXCEPT ![c] = call'[c]]
  <2>1. call' = [call EXCEPT ![c] = call'[c]]
    OBVIOUS
  <2>2. /\ [Idle EXCEPT !.at = "agreed", !.kind = "switch", !.goal = goal] \in Calls
        /\ [Idle EXCEPT !.at = "modal", !.kind = "switch", !.goal = goal] \in Calls
    BY DEF Idle, Calls, Places, Kinds, Rests
  <2>3. call'[c] \in Calls
    BY <2>2
  <2> QED BY <2>1, <2>3
<1>a. /\ call'[c].at \in {"agreed", "modal"} /\ call'[c].kind = "switch" /\ call'[c].goal = goal
      /\ call'[c].round = None /\ call'[c].deferred = {}
  <2>1. CASE vault = Blank
    <3>1. call'[c] = [Idle EXCEPT !.at = "agreed", !.kind = "switch", !.goal = goal]
      BY <2>1
    <3> QED BY <3>1 DEF Idle
  <2>2. CASE vault # Blank
    <3>1. call'[c] = [Idle EXCEPT !.at = "modal", !.kind = "switch", !.goal = goal]
      BY <2>2
    <3> QED BY <3>1 DEF Idle
  <2> QED BY <2>1, <2>2
<1>2. CallsTyped'
  BY <1>1, IdleIsACall DEF TypeOK, Calls, Places
<1>3. TypeOK'
  BY <1>a, <1>1, <1>2, IdleIsACall DEF TypeOK, OneCollects, CallsFit, Merges, Calls, Idle
<1>4. OneCollects'
  BY <1>a, <1>1, <1>2 DEF TypeOK, OneCollects, Calls, Idle
<1>5. CallsFit'
  BY <1>a, <1>1, <1>2 DEF TypeOK, CallsFit, Merges, Calls, Idle
<1> QED BY <1>2, <1>3, <1>4, <1>5

LEMMA rebuildLocalStateFromScratchTypes ==
  ASSUME TypesInv, NEW c \in Callers, rebuildLocalStateFromScratch(c)
  PROVE  TypesInv'
<1> USE ValuesAssumption
   DEF TypesInv, CallsTyped, rebuildLocalStateFromScratch, At, Asks, history, flags, findings, Busy
<1>1. /\ call'[c] \in Calls
      /\ call' = [call EXCEPT ![c] = call'[c]]
  <2>1. call' = [call EXCEPT ![c] = call'[c]]
    OBVIOUS
  <2>2. call'[c] \in Calls
    BY CommandsAreCalls DEF Places, Kinds
  <2> QED BY <2>1, <2>2
<1>2. CallsTyped'
  BY <1>1, IdleIsACall DEF TypeOK, Calls, Places
<1>3. TypeOK'
  BY <1>1, <1>2, IdleIsACall DEF TypeOK, OneCollects, CallsFit, Merges, Calls, Idle
<1>4. OneCollects'
  BY <1>1, <1>2 DEF TypeOK, OneCollects, Calls, Idle
<1>5. CallsFit'
  BY <1>1, <1>2 DEF TypeOK, CallsFit, Merges, Calls, Idle
<1> QED BY <1>2, <1>3, <1>4, <1>5

LEMMA rebaselineToServerTypes ==
  ASSUME TypesInv, NEW c \in Callers, rebaselineToServer(c)
  PROVE  TypesInv'
<1> USE ValuesAssumption
   DEF TypesInv, CallsTyped, rebaselineToServer, At, Asks, history, flags, findings
<1>1. /\ call'[c] \in Calls
      /\ call' = [call EXCEPT ![c] = call'[c]]
  <2>1. call' = [call EXCEPT ![c] = call'[c]]
    OBVIOUS
  <2>2. call'[c] \in Calls
    BY CommandsAreCalls DEF Places, Kinds
  <2> QED BY <2>1, <2>2
<1>2. CallsTyped'
  BY <1>1, IdleIsACall DEF TypeOK, Calls, Places
<1>3. TypeOK'
  BY <1>1, <1>2, IdleIsACall DEF TypeOK, OneCollects, CallsFit, Merges, Calls, Idle
<1>4. OneCollects'
  BY <1>1, <1>2 DEF TypeOK, OneCollects, Calls, Idle
<1>5. CallsFit'
  BY <1>1, <1>2 DEF TypeOK, CallsFit, Merges, Calls, Idle
<1> QED BY <1>2, <1>3, <1>4, <1>5

LEMMA resetSyncStateTypes ==
  ASSUME TypesInv, NEW c \in Callers, resetSyncState(c)
  PROVE  TypesInv'
<1> USE ValuesAssumption DEF TypesInv, CallsTyped, resetSyncState, At, flags, findings
<1>1. /\ call'[c] \in Calls
      /\ call' = [call EXCEPT ![c] = call'[c]]
  <2>1. call' = [call EXCEPT ![c] = call'[c]]
    OBVIOUS
  <2>2. call'[c] \in Calls
    BY IdleIsACall DEF Calls, Places, Kinds, Rests, TypeOK
  <2> QED BY <2>1, <2>2
<1>2. CallsTyped'
  BY <1>1, IdleIsACall DEF TypeOK, Calls, Places
<1>3. TypeOK'
  BY <1>1, <1>2, IdleIsACall, StoresStay DEF TypeOK, OneCollects, CallsFit, Merges, Calls, Idle
<1>4. OneCollects'
  BY <1>1, <1>2 DEF TypeOK, OneCollects, Calls, Idle
<1>5. CallsFit'
  BY <1>1, <1>2 DEF TypeOK, CallsFit, Merges, Calls, Idle
<1> QED BY <1>2, <1>3, <1>4, <1>5

LEMMA recheckConflictsTypes ==
  ASSUME TypesInv, NEW c \in Callers, recheckConflicts(c)
  PROVE  TypesInv'
<1> USE ValuesAssumption DEF TypesInv, CallsTyped, recheckConflicts, At, flags, findings
<1>1. /\ call'[c] \in Calls
      /\ call' = [call EXCEPT ![c] = call'[c]]
  <2>1. call' = [call EXCEPT ![c] = call'[c]]
    OBVIOUS
  <2>2. call'[c] \in Calls
    BY CommandsAreCalls DEF Places, Kinds
  <2> QED BY <2>1, <2>2
<1>2. CallsTyped'
  BY <1>1, IdleIsACall DEF TypeOK, Calls, Places
<1>3. TypeOK'
  BY <1>1, <1>2, IdleIsACall, StoresStay DEF TypeOK, OneCollects, CallsFit, Merges, Calls, Idle
<1>4. OneCollects'
  BY <1>1, <1>2 DEF TypeOK, OneCollects, Calls, Idle
<1>5. CallsFit'
  BY <1>1, <1>2 DEF TypeOK, CallsFit, Merges, Calls, Idle
<1> QED BY <1>2, <1>3, <1>4, <1>5

LEMMA ConfirmTypes ==
  ASSUME TypesInv, NEW c \in Callers, Confirm(c)
  PROVE  TypesInv'
<1> USE ValuesAssumption DEF TypesInv, CallsTyped, Confirm, At, Goes, history, flags, findings
<1>1. /\ call'[c] \in Calls
      /\ call' = [call EXCEPT ![c] = call'[c]]
  <2>1. call' = [call EXCEPT ![c] = call'[c]]
    OBVIOUS
  <2>2. \E p \in Places : Goes(c, p)
    BY DEF Places
  <2>3. call'[c] \in Calls
    BY <2>2, GoesToACall
  <2> QED BY <2>1, <2>3
<1>2. CallsTyped'
  BY <1>1, IdleIsACall DEF TypeOK, Calls, Places
<1>3. TypeOK'
  BY <1>1, <1>2, IdleIsACall DEF TypeOK, OneCollects, CallsFit, Merges, Calls, Idle
<1>4. OneCollects'
  BY <1>1, <1>2 DEF TypeOK, OneCollects, Calls, Idle
<1>5. CallsFit'
  BY <1>1, <1>2 DEF TypeOK, CallsFit, Merges, Calls, Idle
<1> QED BY <1>2, <1>3, <1>4, <1>5

LEMMA DeclineTypes ==
  ASSUME TypesInv, NEW c \in Callers, Decline(c)
  PROVE  TypesInv'
<1> USE ValuesAssumption DEF TypesInv, CallsTyped, Decline, At, Returns, history, flags, findings
<1>1. /\ call'[c] \in Calls
      /\ call' = [call EXCEPT ![c] = call'[c]]
  <2>1. call' = [call EXCEPT ![c] = call'[c]]
    OBVIOUS
  <2>2. call'[c] \in Calls
    BY IdleIsACall DEF Calls, Places, Kinds, Rests, TypeOK
  <2> QED BY <2>1, <2>2
<1>2. CallsTyped'
  BY <1>1, IdleIsACall DEF TypeOK, Calls, Places
<1>3. TypeOK'
  BY <1>1, <1>2, IdleIsACall DEF TypeOK, OneCollects, CallsFit, Merges, Calls, Idle
<1>4. OneCollects'
  BY <1>1, <1>2 DEF TypeOK, OneCollects, Calls, Idle
<1>5. CallsFit'
  BY <1>1, <1>2 DEF TypeOK, CallsFit, Merges, Calls, Idle
<1> QED BY <1>2, <1>3, <1>4, <1>5

LEMMA BeginsWipeTypes ==
  ASSUME TypesInv, NEW c \in Callers, BeginsWipe(c)
  PROVE  TypesInv'
<1> USE ValuesAssumption
   DEF TypesInv, CallsTyped, BeginsWipe, At, WipeOrder, history, flags, findings
<1>1. /\ call'[c] \in Calls
      /\ call' = [call EXCEPT ![c] = call'[c]]
  <2>1. call' = [call EXCEPT ![c] = call'[c]]
    OBVIOUS
  <2>2. call'[c] = [call[c] EXCEPT !.at = "wipe", !.left = WipeOrder]
    OBVIOUS
  <2>a. call[c] \in Calls /\ "wipe" \in Places /\ WipeOrder \in Rests
    BY DEF Places, Rests
  <2> HIDE DEF BeginsWipe, TypesInv, CallsTyped, WipeOrder
  <2>b. [call[c] EXCEPT !.at = "wipe"] \in Calls
    BY <2>a, FieldsOfACall
  <2>d. [[call[c] EXCEPT !.at = "wipe"] EXCEPT !.left = WipeOrder] \in Calls
    BY <2>a, <2>b, FieldsOfACall
  <2>3. call'[c] \in Calls
    BY <2>2, <2>d
  <2> QED BY <2>1, <2>3
<1>2. CallsTyped'
  BY <1>1, IdleIsACall DEF TypeOK, Calls, Places
<1>3. TypeOK'
  BY <1>1, <1>2, IdleIsACall DEF TypeOK, OneCollects, CallsFit, Merges, Calls, Idle
<1>4. OneCollects'
  BY <1>1, <1>2 DEF TypeOK, OneCollects, Calls, Idle
<1>5. CallsFit'
  BY <1>1, <1>2 DEF TypeOK, CallsFit, Merges, Calls, Idle
<1> QED BY <1>2, <1>3, <1>4, <1>5

LEMMA WipesStoreTypes ==
  ASSUME TypesInv, NEW c \in Callers, WipesStore(c)
  PROVE  TypesInv'
<1> USE ValuesAssumption DEF TypesInv, CallsTyped, WipesStore, At, flags, findings
<1>1. /\ call'[c] \in Calls
      /\ call' = [call EXCEPT ![c] = call'[c]]
  <2>1. call' = [call EXCEPT ![c] = call'[c]]
    OBVIOUS
  <2>2. Tail(call[c].left) \in Rests
    BY TailOfARest DEF Calls
  <2>a. call'[c] = [call[c] EXCEPT !.left = Tail(call[c].left)] /\ call[c] \in Calls
    OBVIOUS
  <2>3. call'[c] \in Calls
    BY <2>2, <2>a, FieldsOfACall
  <2> QED BY <2>1, <2>3
<1>2. CallsTyped'
  BY <1>1, IdleIsACall DEF TypeOK, Calls, Places
<1>3. TypeOK'
  BY <1>1, <1>2, IdleIsACall, StoresStay DEF TypeOK, OneCollects, CallsFit, Merges, Calls, Idle
<1>4. OneCollects'
  BY <1>1, <1>2 DEF TypeOK, OneCollects, Calls, Idle
<1>5. CallsFit'
  BY <1>1, <1>2 DEF TypeOK, CallsFit, Merges, Calls, Idle
<1> QED BY <1>2, <1>3, <1>4, <1>5

LEMMA WipesSyncStateTypes ==
  ASSUME TypesInv, NEW c \in Callers, WipesSyncState(c)
  PROVE  TypesInv'
<1> USE ValuesAssumption DEF TypesInv, CallsTyped, WipesSyncState, At, Goes, history, flags
<1>1. /\ call'[c] \in Calls
      /\ call' = [call EXCEPT ![c] = call'[c]]
  <2>1. call' = [call EXCEPT ![c] = call'[c]]
    OBVIOUS
  <2>2. \E p \in Places : Goes(c, p)
    BY DEF Places
  <2>3. call'[c] \in Calls
    BY <2>2, GoesToACall
  <2> QED BY <2>1, <2>3
<1>2. CallsTyped'
  BY <1>1, IdleIsACall DEF TypeOK, Calls, Places
<1>3. TypeOK'
  BY <1>1, <1>2, IdleIsACall DEF TypeOK, Unanswered, OneCollects, CallsFit, Merges, Calls, Idle
<1>4. OneCollects'
  BY <1>1, <1>2 DEF TypeOK, OneCollects, Calls, Idle
<1>5. CallsFit'
  BY <1>1, <1>2 DEF TypeOK, CallsFit, Merges, Calls, Idle
<1> QED BY <1>2, <1>3, <1>4, <1>5

LEMMA BindsTypes ==
  ASSUME TypesInv, NEW c \in Callers, Binds(c)
  PROVE  TypesInv'
<1> USE ValuesAssumption DEF TypesInv, CallsTyped, Binds, At, Goes, Returns, flags, findings
<1>1. /\ call'[c] \in Calls
      /\ call' = [call EXCEPT ![c] = call'[c]]
  <2>1. call' = [call EXCEPT ![c] = call'[c]]
    OBVIOUS
  <2>2. (\E p \in Places : Goes(c, p)) \/ call'[c] = Idle
    BY DEF Places
  <2>3. call'[c] \in Calls
    BY <2>2, GoesToACall, IdleIsACall
  <2> QED BY <2>1, <2>3
<1>2. CallsTyped'
  BY <1>1, IdleIsACall DEF TypeOK, Calls, Places
<1>3. TypeOK'
  BY <1>1, <1>2, IdleIsACall DEF TypeOK, OneCollects, CallsFit, Merges, Calls, Idle
<1>4. OneCollects'
  BY <1>1, <1>2 DEF TypeOK, OneCollects, Calls, Idle
<1>5. CallsFit'
  BY <1>1, <1>2 DEF TypeOK, CallsFit, Merges, Calls, Idle
<1> QED BY <1>2, <1>3, <1>4, <1>5

LEMMA captureAllAsBaselineTypes ==
  ASSUME TypesInv, NEW c \in Callers, captureAllAsBaseline(c)
  PROVE  TypesInv'
<1> USE ValuesAssumption DEF TypesInv, CallsTyped, captureAllAsBaseline, At, Goes, flags, findings
<1>1. /\ call'[c] \in Calls
      /\ call' = [call EXCEPT ![c] = call'[c]]
  <2>1. call' = [call EXCEPT ![c] = call'[c]]
    OBVIOUS
  <2>2. \E p \in Places : Goes(c, p)
    BY DEF Places
  <2>3. call'[c] \in Calls
    BY <2>2, GoesToACall
  <2> QED BY <2>1, <2>3
<1>2. CallsTyped'
  BY <1>1, IdleIsACall DEF TypeOK, Calls, Places
<1>3. TypeOK'
  BY <1>1, <1>2, IdleIsACall, StoresStay DEF TypeOK, OneCollects, CallsFit, Merges, Calls, Idle
<1>4. OneCollects'
  BY <1>1, <1>2 DEF TypeOK, OneCollects, Calls, Idle
<1>5. CallsFit'
  BY <1>1, <1>2 DEF TypeOK, CallsFit, Merges, Calls, Idle
<1> QED BY <1>2, <1>3, <1>4, <1>5

LEMMA cancelSyncTypes ==
  ASSUME TypesInv, cancelSync
  PROVE  TypesInv'
<1> USE ValuesAssumption DEF TypesInv, CallsTyped, cancelSync, history, flags, findings
<1>1. token \in Callers /\ call' = [call EXCEPT ![token] = [call[token] EXCEPT !.cancelled = TRUE]]
  BY DEF TypeOK
<1>a. [call[token] EXCEPT !.cancelled = TRUE] \in Calls
  BY <1>1, FieldsOfACall
<1>2. CallsTyped'
  BY <1>1, <1>a DEF TypeOK
<1>3. TypeOK'
  BY <1>2, IdleIsACall DEF TypeOK, OneCollects, CallsFit, Merges, Calls, Idle, At
<1>4. OneCollects'
  BY <1>2 DEF TypeOK, OneCollects, Calls, Idle, At
<1>5. CallsFit'
  BY <1>2 DEF TypeOK, CallsFit, Merges, Calls, Idle
<1> QED BY <1>2, <1>3, <1>4, <1>5

LEMMA applyDeleteBinaryDecisionsTypes ==
  ASSUME TypesInv, NEW f \in Files, applyDeleteBinaryDecisions(f)
  PROVE  TypesInv'
<1> USE ValuesAssumption
   DEF TypesInv, CallsTyped, applyDeleteBinaryDecisions, At, history, flags, Busy
<1>2. CallsTyped'
  BY IdleIsACall DEF TypeOK, Calls, Places
<1>3. TypeOK'
  BY <1>2, IdleIsACall DEF TypeOK, OneCollects, CallsFit, Merges, Calls, Idle
<1>4. OneCollects'
  BY <1>2 DEF TypeOK, OneCollects, Calls, Idle
<1>5. CallsFit'
  BY <1>2 DEF TypeOK, CallsFit, Merges, Calls, Idle
<1> QED BY <1>2, <1>3, <1>4, <1>5

LEMMA PeerConflictsTypes ==
  ASSUME TypesInv, NEW f \in Files, PeerConflicts(f)
  PROVE  TypesInv'
<1> USE ValuesAssumption DEF TypesInv, CallsTyped, PeerConflicts, history, flags
<1>2. CallsTyped'
  BY IdleIsACall DEF TypeOK, Calls, Places
<1>3. TypeOK'
  BY <1>2, IdleIsACall DEF TypeOK, OneCollects, CallsFit, Merges, Calls, Idle, At
<1>4. OneCollects'
  BY <1>2 DEF TypeOK, OneCollects, Calls, Idle, At
<1>5. CallsFit'
  BY <1>2 DEF TypeOK, CallsFit, Merges, Calls, Idle
<1> QED BY <1>2, <1>3, <1>4, <1>5

LEMMA EditTypes ==
  ASSUME TypesInv, Edit
  PROVE  TypesInv'
<1> USE ValuesAssumption DEF TypesInv, CallsTyped, Edit, At, flags, findings
<1>2. CallsTyped'
  BY IdleIsACall DEF TypeOK, Calls, Places
<1>3. TypeOK'
  BY <1>2, IdleIsACall, StoresStay DEF TypeOK, OneCollects, CallsFit, Merges, Calls, Idle
<1>4. OneCollects'
  BY <1>2 DEF TypeOK, OneCollects, Calls, Idle
<1>5. CallsFit'
  BY <1>2 DEF TypeOK, CallsFit, Merges, Calls, Idle
<1> QED BY <1>2, <1>3, <1>4, <1>5

LEMMA GcFallsDueTypes ==
  ASSUME TypesInv, GcFallsDue
  PROVE  TypesInv'
<1> USE ValuesAssumption DEF TypesInv, CallsTyped, GcFallsDue, history, flags
<1>2. CallsTyped'
  BY IdleIsACall DEF TypeOK, Calls, Places
<1>3. TypeOK'
  BY <1>2, IdleIsACall DEF TypeOK, OneCollects, CallsFit, Merges, Calls, Idle, At
<1>4. OneCollects'
  BY <1>2 DEF TypeOK, OneCollects, Calls, Idle, At
<1>5. CallsFit'
  BY <1>2 DEF TypeOK, CallsFit, Merges, Calls, Idle
<1> QED BY <1>2, <1>3, <1>4, <1>5

LEMMA StartupCapturedTypes ==
  ASSUME TypesInv, StartupCaptured
  PROVE  TypesInv'
<1> USE ValuesAssumption DEF TypesInv, CallsTyped, StartupCaptured, findings
<1>2. CallsTyped'
  BY IdleIsACall DEF TypeOK, Calls, Places
<1>3. TypeOK'
  BY <1>2, IdleIsACall, StoresStay DEF TypeOK, OneCollects, CallsFit, Merges, Calls, Idle, At
<1>4. OneCollects'
  BY <1>2 DEF TypeOK, OneCollects, Calls, Idle, At
<1>5. CallsFit'
  BY <1>2 DEF TypeOK, CallsFit, Merges, Calls, Idle
<1> QED BY <1>2, <1>3, <1>4, <1>5

LEMMA CrashTypes ==
  ASSUME TypesInv, NEW v \in Vaults \union {Blank}, Crash(v)
  PROVE  TypesInv'
<1> USE ValuesAssumption DEF TypesInv, CallsTyped, Crash, history
<1>2. CallsTyped'
  BY IdleIsACall DEF TypeOK, Calls, Places
<1>3. TypeOK'
  BY <1>2, IdleIsACall DEF TypeOK, OneCollects, CallsFit, Merges, Calls, Idle, At
<1>4. OneCollects'
  BY <1>2 DEF TypeOK, OneCollects, Calls, Idle, At
<1>5. CallsFit'
  BY <1>2 DEF TypeOK, CallsFit, Merges, Calls, Idle
<1> QED BY <1>2, <1>3, <1>4, <1>5

LEMMA StepTypes == ASSUME TypesInv, [Next]_vars PROVE TypesInv'
<1>1. ASSUME NEW c \in Callers, Runs(c) \/ Asked(c) PROVE TypesInv'
  BY <1>1,
     TriggerSyncTypes, TriggersAtTheEndTypes, checkVaultBindingTypes, BeginsRoundTypes,
     StaysLockedTypes, CapturesAndConnectsTypes, PullTypes, PushTypes, StopsAtCheckpointTypes,
     RoundFailsTypes, ApplyTypes, ApplyRejectsTypes, SaveCursorTypes, recordRoundOutcomeTypes,
     maybeRunGcTypes, GcNotDueTypes, GcEndsTypes, RoundEndsTypes, ClearCacheTypes,
     switchVaultTypes, rebuildLocalStateFromScratchTypes, rebaselineToServerTypes,
     resetSyncStateTypes, recheckConflictsTypes, ConfirmTypes, DeclineTypes, BeginsWipeTypes,
     WipesStoreTypes, WipesSyncStateTypes, BindsTypes, captureAllAsBaselineTypes
     DEF Runs, Asked, Round
<1>2. ASSUME NEW f \in Files, applyDeleteBinaryDecisions(f) \/ PeerConflicts(f) PROVE TypesInv'
  BY <1>2, applyDeleteBinaryDecisionsTypes, PeerConflictsTypes
<1>3. ASSUME cancelSync \/ Edit \/ GcFallsDue \/ StartupCaptured PROVE TypesInv'
  BY <1>3, cancelSyncTypes, EditTypes, GcFallsDueTypes, StartupCapturedTypes
<1>4. ASSUME NEW v \in Vaults \union {Blank}, Crash(v) PROVE TypesInv'
  BY <1>4, CrashTypes
<1> QED BY <1>1, <1>2, <1>3, <1>4, StandingStill DEF Next

-----------------------------------------------------------------------------
(* Every step preserves the history of one vault: what the action does to the  *)
(* call, the stores and the marker, then the conjuncts of the invariant.        *)

LEMMA TriggerSyncKeeps ==
  ASSUME Alone, HistoryInv, TypesInv', NEW c \in Callers, NEW src \in {"manual", "auto"}, TriggerSync(c, src)
  PROVE  HistoryInv'
<1> USE DEF HistoryInv
<1>1. Callers = {c}
  BY DEF Alone
<1>2. /\ call'[c].at = "binding"
      /\ stores' = stores /\ binding' = binding /\ vault' = vault
  BY ValuesAssumption
     DEF TriggerSync, At, Idle, history, findings, TypesInv, TypeOK, CallsTyped, Calls
<1>3. BoundHistory'
  BY <1>1, <1>2, ValuesAssumption
     DEF TypesInv, TypeOK, BoundHistory, RoundIsBound, WipedBeforeBound, Merges, At, Shared
<1>4. WipedBeforeBound'
  BY <1>1, <1>2 DEF WipedBeforeBound, At
<1>5. RoundIsBound'
  BY <1>1, <1>2 DEF RoundIsBound, Merges
<1> QED BY <1>3, <1>4, <1>5

LEMMA TriggersAtTheEndKeeps ==
  ASSUME Alone, HistoryInv, TypesInv', NEW c \in Callers, TriggersAtTheEnd(c)
  PROVE  HistoryInv'
<1> USE DEF HistoryInv
<1>1. Callers = {c}
  BY DEF Alone
<1>2. /\ call'[c].at \in {"idle", "binding"}
      /\ stores' = stores /\ binding' = binding /\ vault' = vault
  BY ValuesAssumption
     DEF TriggersAtTheEnd, At, Idle, history, findings, TypesInv, TypeOK, CallsTyped, Calls
<1>3. BoundHistory'
  BY <1>1, <1>2, ValuesAssumption
     DEF TypesInv, TypeOK, BoundHistory, RoundIsBound, WipedBeforeBound, Merges, At, Shared
<1>4. WipedBeforeBound'
  BY <1>1, <1>2 DEF WipedBeforeBound, At
<1>5. RoundIsBound'
  BY <1>1, <1>2 DEF RoundIsBound, Merges
<1> QED BY <1>3, <1>4, <1>5

LEMMA checkVaultBindingKeeps ==
  ASSUME Alone, HistoryInv, TypesInv', NEW c \in Callers, checkVaultBinding(c)
  PROVE  HistoryInv'
<1> USE DEF HistoryInv
<1>1. Callers = {c}
  BY DEF Alone
<1>2. /\ stores' = stores /\ vault' = vault
      /\ binding' = IF binding = None THEN vault ELSE binding
      /\ \/ call'[c].at = "unlock" /\ binding' = vault
         \/ call'[c].at \in {"modal", "idle"}
  BY ValuesAssumption
     DEF checkVaultBinding, At, Idle, Goes, Returns, findings, TypesInv, TypeOK, CallsTyped, Calls
<1>3. BoundHistory'
  BY <1>1, <1>2, ValuesAssumption
     DEF TypesInv, TypeOK, BoundHistory, RoundIsBound, WipedBeforeBound, Merges, At, Shared
<1>4. WipedBeforeBound'
  BY <1>1, <1>2 DEF WipedBeforeBound, At
<1>5. RoundIsBound'
  BY <1>1, <1>2 DEF RoundIsBound, Merges
<1> QED BY <1>3, <1>4, <1>5

LEMMA BeginsRoundKeeps ==
  ASSUME Alone, HistoryInv, TypesInv', NEW c \in Callers, BeginsRound(c)
  PROVE  HistoryInv'
<1> USE DEF HistoryInv
<1>1. Callers = {c}
  BY DEF Alone
<1>2. /\ call[c].at = "unlock" /\ call'[c].at = "capture"
      /\ stores' = stores /\ binding' = binding /\ vault' = vault
  BY ValuesAssumption DEF BeginsRound, At, Goes, history, TypesInv, TypeOK, CallsTyped, Calls
<1>3. BoundHistory'
  BY <1>1, <1>2, ValuesAssumption
     DEF TypesInv, TypeOK, BoundHistory, RoundIsBound, WipedBeforeBound, Merges, At, Shared
<1>4. WipedBeforeBound'
  BY <1>1, <1>2 DEF WipedBeforeBound, At
<1>5. RoundIsBound'
  BY <1>1, <1>2 DEF RoundIsBound, Merges
<1> QED BY <1>3, <1>4, <1>5

LEMMA StaysLockedKeeps ==
  ASSUME Alone, HistoryInv, TypesInv', NEW c \in Callers, StaysLocked(c)
  PROVE  HistoryInv'
<1> USE DEF HistoryInv
<1>1. Callers = {c}
  BY DEF Alone
<1>2. /\ call'[c].at = "idle"
      /\ stores' = stores /\ binding' = binding /\ vault' = vault
  BY ValuesAssumption
     DEF StaysLocked, At, Idle, Returns, history, findings, TypesInv, TypeOK, CallsTyped, Calls
<1>3. BoundHistory'
  BY <1>1, <1>2, ValuesAssumption
     DEF TypesInv, TypeOK, BoundHistory, RoundIsBound, WipedBeforeBound, Merges, At, Shared
<1>4. WipedBeforeBound'
  BY <1>1, <1>2 DEF WipedBeforeBound, At
<1>5. RoundIsBound'
  BY <1>1, <1>2 DEF RoundIsBound, Merges
<1> QED BY <1>3, <1>4, <1>5

LEMMA CapturesAndConnectsKeeps ==
  ASSUME Alone, HistoryInv, TypesInv', NEW c \in Callers, CapturesAndConnects(c)
  PROVE  HistoryInv'
<1> USE DEF HistoryInv
<1>1. Callers = {c}
  BY DEF Alone
<1>2. /\ call[c].at = "capture" /\ call'[c].at = "pull" /\ call'[c].round = vault
      /\ binding' = binding /\ vault' = vault
      /\ \A s \in Shared : stores'[s] = stores[s]
  BY ValuesAssumption
     DEF CapturesAndConnects, At, Capturing, Shared, Stores, TypesInv, TypeOK, CallsTyped, Calls
<1>3. BoundHistory'
  BY <1>1, <1>2, ValuesAssumption
     DEF TypesInv, TypeOK, BoundHistory, RoundIsBound, WipedBeforeBound, Merges, At, Shared
<1>4. WipedBeforeBound'
  BY <1>1, <1>2 DEF WipedBeforeBound, At
<1>5. RoundIsBound'
  BY <1>1, <1>2 DEF RoundIsBound, Merges
<1> QED BY <1>3, <1>4, <1>5

LEMMA PullKeeps ==
  ASSUME Alone, HistoryInv, TypesInv', NEW c \in Callers, Pull(c)
  PROVE  HistoryInv'
<1> USE DEF HistoryInv
<1>1. Callers = {c}
  BY DEF Alone
<1>2. /\ call[c].at = "pull" /\ call'[c].at = "push"
      /\ call'[c].round = call[c].round /\ call'[c].left = call[c].left
      /\ stores' = stores /\ binding' = binding /\ vault' = vault
  BY ValuesAssumption DEF Pull, At, Goes, history, findings, TypesInv, TypeOK, CallsTyped, Calls
<1>3. BoundHistory'
  BY <1>1, <1>2, ValuesAssumption
     DEF TypesInv, TypeOK, BoundHistory, RoundIsBound, WipedBeforeBound, Merges, At, Shared
<1>4. WipedBeforeBound'
  BY <1>1, <1>2 DEF WipedBeforeBound, At
<1>5. RoundIsBound'
  BY <1>1, <1>2 DEF RoundIsBound, Merges
<1> QED BY <1>3, <1>4, <1>5

LEMMA PushKeeps ==
  ASSUME Alone, HistoryInv, TypesInv', NEW c \in Callers, Push(c)
  PROVE  HistoryInv'
<1> USE DEF HistoryInv
<1>1. Callers = {c}
  BY DEF Alone
<1>2. /\ call[c].at = "push" /\ call'[c].at = "apply"
      /\ call'[c].round = call[c].round /\ call'[c].left = call[c].left
      /\ binding' = binding /\ vault' = vault
      /\ \A s \in Shared : stores'[s] = stores[s]
  BY ValuesAssumption DEF Push, At, Goes, Shared, Stores, TypesInv, TypeOK, CallsTyped, Calls
<1>3. BoundHistory'
  BY <1>1, <1>2, ValuesAssumption
     DEF TypesInv, TypeOK, BoundHistory, RoundIsBound, WipedBeforeBound, Merges, At, Shared
<1>4. WipedBeforeBound'
  BY <1>1, <1>2 DEF WipedBeforeBound, At
<1>5. RoundIsBound'
  BY <1>1, <1>2 DEF RoundIsBound, Merges
<1> QED BY <1>3, <1>4, <1>5

LEMMA StopsAtCheckpointKeeps ==
  ASSUME Alone, HistoryInv, TypesInv', NEW c \in Callers, StopsAtCheckpoint(c)
  PROVE  HistoryInv'
<1> USE DEF HistoryInv
<1>1. Callers = {c}
  BY DEF Alone
<1>2. /\ call'[c].at = "finally"
      /\ stores' = stores /\ binding' = binding /\ vault' = vault
  BY ValuesAssumption
     DEF StopsAtCheckpoint, At, Goes, history, findings, TypesInv, TypeOK, CallsTyped, Calls
<1>3. BoundHistory'
  BY <1>1, <1>2, ValuesAssumption
     DEF TypesInv, TypeOK, BoundHistory, RoundIsBound, WipedBeforeBound, Merges, At, Shared
<1>4. WipedBeforeBound'
  BY <1>1, <1>2 DEF WipedBeforeBound, At
<1>5. RoundIsBound'
  BY <1>1, <1>2 DEF RoundIsBound, Merges
<1> QED BY <1>3, <1>4, <1>5

LEMMA RoundFailsKeeps ==
  ASSUME Alone, HistoryInv, TypesInv', NEW c \in Callers, RoundFails(c)
  PROVE  HistoryInv'
<1> USE DEF HistoryInv
<1>1. Callers = {c}
  BY DEF Alone
<1>2. /\ call'[c].at = "finally"
      /\ stores' = stores /\ binding' = binding /\ vault' = vault
  BY ValuesAssumption
     DEF RoundFails, At, Goes, history, findings, TypesInv, TypeOK, CallsTyped, Calls
<1>3. BoundHistory'
  BY <1>1, <1>2, ValuesAssumption
     DEF TypesInv, TypeOK, BoundHistory, RoundIsBound, WipedBeforeBound, Merges, At, Shared
<1>4. WipedBeforeBound'
  BY <1>1, <1>2 DEF WipedBeforeBound, At
<1>5. RoundIsBound'
  BY <1>1, <1>2 DEF RoundIsBound, Merges
<1> QED BY <1>3, <1>4, <1>5

LEMMA ApplyKeeps ==
  ASSUME Alone, HistoryInv, TypesInv', NEW c \in Callers, Apply(c)
  PROVE  HistoryInv'
<1> USE DEF HistoryInv
<1>1. Callers = {c}
  BY DEF Alone
<1>2. /\ call[c].at = "apply" /\ call'[c].at = "save" /\ call'[c].round = call[c].round
      /\ binding' = binding /\ vault' = vault
      /\ \A s \in Shared : stores'[s] \subseteq stores[s] \union {call[c].round}
  BY ValuesAssumption DEF Apply, At, Merging, Shared, Stores, TypesInv, TypeOK, CallsTyped, Calls
<1>3. BoundHistory'
  BY <1>1, <1>2, ValuesAssumption
     DEF TypesInv, TypeOK, BoundHistory, RoundIsBound, WipedBeforeBound, Merges, At, Shared
<1>4. WipedBeforeBound'
  BY <1>1, <1>2 DEF WipedBeforeBound, At
<1>5. RoundIsBound'
  BY <1>1, <1>2 DEF RoundIsBound, Merges
<1> QED BY <1>3, <1>4, <1>5

LEMMA ApplyRejectsKeeps ==
  ASSUME Alone, HistoryInv, TypesInv', NEW c \in Callers, ApplyRejects(c)
  PROVE  HistoryInv'
<1> USE DEF HistoryInv
<1>1. Callers = {c}
  BY DEF Alone
<1>2. /\ call[c].at = "apply" /\ call'[c].at = "finally"
      /\ binding' = binding /\ vault' = vault
      /\ \A s \in Shared : stores'[s] \subseteq stores[s] \union {call[c].round}
  BY ValuesAssumption
     DEF ApplyRejects, At, Goes, Merging, Shared, Stores, findings, TypesInv, TypeOK, CallsTyped, Calls
<1>3. BoundHistory'
  BY <1>1, <1>2, ValuesAssumption
     DEF TypesInv, TypeOK, BoundHistory, RoundIsBound, WipedBeforeBound, Merges, At, Shared
<1>4. WipedBeforeBound'
  BY <1>1, <1>2 DEF WipedBeforeBound, At
<1>5. RoundIsBound'
  BY <1>1, <1>2 DEF RoundIsBound, Merges
<1> QED BY <1>3, <1>4, <1>5

LEMMA SaveCursorKeeps ==
  ASSUME Alone, HistoryInv, TypesInv', NEW c \in Callers, SaveCursor(c)
  PROVE  HistoryInv'
<1> USE DEF HistoryInv
<1>1. Callers = {c}
  BY DEF Alone
<1>2. /\ call[c].at = "save" /\ call'[c].at = "record"
      /\ binding' = binding /\ vault' = vault
      /\ \A s \in Shared : stores'[s] \subseteq stores[s] \union {call[c].round}
  BY ValuesAssumption
     DEF SaveCursor, At, Goes, Shared, Stores, findings, TypesInv, TypeOK, CallsTyped, Calls
<1>3. BoundHistory'
  BY <1>1, <1>2, ValuesAssumption
     DEF TypesInv, TypeOK, BoundHistory, RoundIsBound, WipedBeforeBound, Merges, At, Shared
<1>4. WipedBeforeBound'
  BY <1>1, <1>2 DEF WipedBeforeBound, At
<1>5. RoundIsBound'
  BY <1>1, <1>2 DEF RoundIsBound, Merges
<1> QED BY <1>3, <1>4, <1>5

LEMMA recordRoundOutcomeKeeps ==
  ASSUME Alone, HistoryInv, TypesInv', NEW c \in Callers, recordRoundOutcome(c)
  PROVE  HistoryInv'
<1> USE DEF HistoryInv
<1>1. Callers = {c}
  BY DEF Alone
<1>2. /\ call'[c].at = "maintain"
      /\ stores' = stores /\ binding' = binding /\ vault' = vault
  BY ValuesAssumption DEF recordRoundOutcome, At, Goes, history, TypesInv, TypeOK, CallsTyped, Calls
<1>3. BoundHistory'
  BY <1>1, <1>2, ValuesAssumption
     DEF TypesInv, TypeOK, BoundHistory, RoundIsBound, WipedBeforeBound, Merges, At, Shared
<1>4. WipedBeforeBound'
  BY <1>1, <1>2 DEF WipedBeforeBound, At
<1>5. RoundIsBound'
  BY <1>1, <1>2 DEF RoundIsBound, Merges
<1> QED BY <1>3, <1>4, <1>5

LEMMA maybeRunGcKeeps ==
  ASSUME Alone, HistoryInv, TypesInv', NEW c \in Callers, maybeRunGc(c)
  PROVE  HistoryInv'
<1> USE DEF HistoryInv
<1>1. Callers = {c}
  BY DEF Alone
<1>2. /\ call'[c].at \in {"collect", "finally"}
      /\ stores' = stores /\ binding' = binding /\ vault' = vault
  BY ValuesAssumption DEF maybeRunGc, At, Goes, history, TypesInv, TypeOK, CallsTyped, Calls
<1>3. BoundHistory'
  BY <1>1, <1>2, ValuesAssumption
     DEF TypesInv, TypeOK, BoundHistory, RoundIsBound, WipedBeforeBound, Merges, At, Shared
<1>4. WipedBeforeBound'
  BY <1>1, <1>2 DEF WipedBeforeBound, At
<1>5. RoundIsBound'
  BY <1>1, <1>2 DEF RoundIsBound, Merges
<1> QED BY <1>3, <1>4, <1>5

LEMMA GcNotDueKeeps ==
  ASSUME Alone, HistoryInv, TypesInv', NEW c \in Callers, GcNotDue(c)
  PROVE  HistoryInv'
<1> USE DEF HistoryInv
<1>1. Callers = {c}
  BY DEF Alone
<1>2. /\ call'[c].at = "finally"
      /\ stores' = stores /\ binding' = binding /\ vault' = vault
  BY ValuesAssumption DEF GcNotDue, At, Goes, history, findings, TypesInv, TypeOK, CallsTyped, Calls
<1>3. BoundHistory'
  BY <1>1, <1>2, ValuesAssumption
     DEF TypesInv, TypeOK, BoundHistory, RoundIsBound, WipedBeforeBound, Merges, At, Shared
<1>4. WipedBeforeBound'
  BY <1>1, <1>2 DEF WipedBeforeBound, At
<1>5. RoundIsBound'
  BY <1>1, <1>2 DEF RoundIsBound, Merges
<1> QED BY <1>3, <1>4, <1>5

LEMMA GcEndsKeeps ==
  ASSUME Alone, HistoryInv, TypesInv', NEW c \in Callers, GcEnds(c)
  PROVE  HistoryInv'
<1> USE DEF HistoryInv
<1>1. Callers = {c}
  BY DEF Alone
<1>2. /\ call'[c].at \in {"idle", "finally"}
      /\ stores' = stores /\ binding' = binding /\ vault' = vault
  BY ValuesAssumption
     DEF GcEnds, At, Idle, Goes, Returns, history, TypesInv, TypeOK, CallsTyped, Calls
<1>3. BoundHistory'
  BY <1>1, <1>2, ValuesAssumption
     DEF TypesInv, TypeOK, BoundHistory, RoundIsBound, WipedBeforeBound, Merges, At, Shared
<1>4. WipedBeforeBound'
  BY <1>1, <1>2 DEF WipedBeforeBound, At
<1>5. RoundIsBound'
  BY <1>1, <1>2 DEF RoundIsBound, Merges
<1> QED BY <1>3, <1>4, <1>5

LEMMA RoundEndsKeeps ==
  ASSUME Alone, HistoryInv, TypesInv', NEW c \in Callers, RoundEnds(c)
  PROVE  HistoryInv'
<1> USE DEF HistoryInv
<1>1. Callers = {c}
  BY DEF Alone
<1>2. /\ call'[c].at = "idle"
      /\ stores' = stores /\ binding' = binding /\ vault' = vault
  BY ValuesAssumption
     DEF RoundEnds, At, Idle, Returns, history, findings, TypesInv, TypeOK, CallsTyped, Calls
<1>3. BoundHistory'
  BY <1>1, <1>2, ValuesAssumption
     DEF TypesInv, TypeOK, BoundHistory, RoundIsBound, WipedBeforeBound, Merges, At, Shared
<1>4. WipedBeforeBound'
  BY <1>1, <1>2 DEF WipedBeforeBound, At
<1>5. RoundIsBound'
  BY <1>1, <1>2 DEF RoundIsBound, Merges
<1> QED BY <1>3, <1>4, <1>5

LEMMA ClearCacheKeeps ==
  ASSUME Alone, HistoryInv, TypesInv', NEW c \in Callers, ClearCache(c)
  PROVE  HistoryInv'
<1> USE DEF HistoryInv
<1>1. Callers = {c}
  BY DEF Alone
<1>2. /\ call'[c].at = "collect"
      /\ stores' = stores /\ binding' = binding /\ vault' = vault
  BY ValuesAssumption
     DEF ClearCache, At, Idle, history, findings, TypesInv, TypeOK, CallsTyped, Calls
<1>3. BoundHistory'
  BY <1>1, <1>2, ValuesAssumption
     DEF TypesInv, TypeOK, BoundHistory, RoundIsBound, WipedBeforeBound, Merges, At, Shared
<1>4. WipedBeforeBound'
  BY <1>1, <1>2 DEF WipedBeforeBound, At
<1>5. RoundIsBound'
  BY <1>1, <1>2 DEF RoundIsBound, Merges
<1> QED BY <1>3, <1>4, <1>5

LEMMA switchVaultKeeps ==
  ASSUME Alone, HistoryInv, TypesInv', NEW c \in Callers, NEW goal \in Vaults \union {Blank}, switchVault(c, goal)
  PROVE  HistoryInv'
<1> USE DEF HistoryInv
<1>1. Callers = {c}
  BY DEF Alone
<1>2. /\ call'[c].at \in {"agreed", "modal"}
      /\ stores' = stores /\ binding' = binding /\ vault' = vault
  <2>1. CASE vault = Blank
    <3>1. call'[c] = [Idle EXCEPT !.at = "agreed", !.kind = "switch", !.goal = goal]
      BY <2>1 DEF switchVault, Asks, history, findings, TypesInv, TypeOK, CallsTyped
    <3> QED BY <3>1 DEF Idle, switchVault, Asks, history, findings, TypesInv, TypeOK, CallsTyped
  <2>2. CASE vault # Blank
    <3>1. call'[c] = [Idle EXCEPT !.at = "modal", !.kind = "switch", !.goal = goal]
      BY <2>2 DEF switchVault, Asks, history, findings, TypesInv, TypeOK, CallsTyped
    <3> QED BY <3>1 DEF Idle, switchVault, Asks, history, findings, TypesInv, TypeOK, CallsTyped
  <2> QED BY <2>1, <2>2
<1>3. BoundHistory'
  BY <1>1, <1>2, ValuesAssumption
     DEF TypesInv, TypeOK, BoundHistory, RoundIsBound, WipedBeforeBound, Merges, At, Shared
<1>4. WipedBeforeBound'
  BY <1>1, <1>2 DEF WipedBeforeBound, At
<1>5. RoundIsBound'
  BY <1>1, <1>2 DEF RoundIsBound, Merges
<1> QED BY <1>3, <1>4, <1>5

LEMMA rebuildLocalStateFromScratchKeeps ==
  ASSUME Alone, HistoryInv, TypesInv', NEW c \in Callers, rebuildLocalStateFromScratch(c)
  PROVE  HistoryInv'
<1> USE DEF HistoryInv
<1>1. Callers = {c}
  BY DEF Alone
<1>2. /\ call'[c].at = "modal"
      /\ stores' = stores /\ binding' = binding /\ vault' = vault
  BY ValuesAssumption
     DEF rebuildLocalStateFromScratch, At, Idle, Asks, history, findings, TypesInv, TypeOK, CallsTyped, Calls
<1>3. BoundHistory'
  BY <1>1, <1>2, ValuesAssumption
     DEF TypesInv, TypeOK, BoundHistory, RoundIsBound, WipedBeforeBound, Merges, At, Shared
<1>4. WipedBeforeBound'
  BY <1>1, <1>2 DEF WipedBeforeBound, At
<1>5. RoundIsBound'
  BY <1>1, <1>2 DEF RoundIsBound, Merges
<1> QED BY <1>3, <1>4, <1>5

LEMMA rebaselineToServerKeeps ==
  ASSUME Alone, HistoryInv, TypesInv', NEW c \in Callers, rebaselineToServer(c)
  PROVE  HistoryInv'
<1> USE DEF HistoryInv
<1>1. Callers = {c}
  BY DEF Alone
<1>2. /\ call'[c].at = "modal"
      /\ stores' = stores /\ binding' = binding /\ vault' = vault
  BY ValuesAssumption
     DEF rebaselineToServer, At, Idle, Asks, history, findings, TypesInv, TypeOK, CallsTyped, Calls
<1>3. BoundHistory'
  BY <1>1, <1>2, ValuesAssumption
     DEF TypesInv, TypeOK, BoundHistory, RoundIsBound, WipedBeforeBound, Merges, At, Shared
<1>4. WipedBeforeBound'
  BY <1>1, <1>2 DEF WipedBeforeBound, At
<1>5. RoundIsBound'
  BY <1>1, <1>2 DEF RoundIsBound, Merges
<1> QED BY <1>3, <1>4, <1>5

LEMMA resetSyncStateKeeps ==
  ASSUME Alone, HistoryInv, TypesInv', NEW c \in Callers, resetSyncState(c)
  PROVE  HistoryInv'
<1> USE DEF HistoryInv
<1>1. Callers = {c}
  BY DEF Alone
<1>2. /\ call[c].at = "idle" /\ call' = call /\ binding' = binding /\ vault' = vault
      /\ \A s \in Shared : stores'[s] = stores[s]
  BY ValuesAssumption
     DEF resetSyncState, At, Capturing, Shared, Stores, TypesInv, TypeOK, CallsTyped, Calls
<1>3. BoundHistory'
  BY <1>1, <1>2, ValuesAssumption
     DEF TypesInv, TypeOK, BoundHistory, RoundIsBound, WipedBeforeBound, Merges, At, Shared
<1>4. WipedBeforeBound'
  BY <1>1, <1>2 DEF WipedBeforeBound, At
<1>5. RoundIsBound'
  BY <1>1, <1>2 DEF RoundIsBound, Merges
<1> QED BY <1>3, <1>4, <1>5

LEMMA recheckConflictsKeeps ==
  ASSUME Alone, HistoryInv, TypesInv', NEW c \in Callers, recheckConflicts(c)
  PROVE  HistoryInv'
<1> USE DEF HistoryInv
<1>1. Callers = {c}
  BY DEF Alone
<1>2. /\ call'[c].at = "trigger" /\ binding' = binding /\ vault' = vault
      /\ \A s \in Shared : stores'[s] \subseteq stores[s]
  BY ValuesAssumption
     DEF recheckConflicts, At, Idle, Shared, Stores, TypesInv, TypeOK, CallsTyped, Calls
<1>3. BoundHistory'
  BY <1>1, <1>2, ValuesAssumption
     DEF TypesInv, TypeOK, BoundHistory, RoundIsBound, WipedBeforeBound, Merges, At, Shared
<1>4. WipedBeforeBound'
  BY <1>1, <1>2 DEF WipedBeforeBound, At
<1>5. RoundIsBound'
  BY <1>1, <1>2 DEF RoundIsBound, Merges
<1> QED BY <1>3, <1>4, <1>5

LEMMA ConfirmKeeps ==
  ASSUME Alone, HistoryInv, TypesInv', NEW c \in Callers, Confirm(c)
  PROVE  HistoryInv'
<1> USE DEF HistoryInv
<1>1. Callers = {c}
  BY DEF Alone
<1>2. /\ call'[c].at \in {"baseline", "agreed"}
      /\ stores' = stores /\ binding' = binding /\ vault' = vault
  BY ValuesAssumption DEF Confirm, At, Goes, history, findings, TypesInv, TypeOK, CallsTyped, Calls
<1>3. BoundHistory'
  BY <1>1, <1>2, ValuesAssumption
     DEF TypesInv, TypeOK, BoundHistory, RoundIsBound, WipedBeforeBound, Merges, At, Shared
<1>4. WipedBeforeBound'
  BY <1>1, <1>2 DEF WipedBeforeBound, At
<1>5. RoundIsBound'
  BY <1>1, <1>2 DEF RoundIsBound, Merges
<1> QED BY <1>3, <1>4, <1>5

LEMMA DeclineKeeps ==
  ASSUME Alone, HistoryInv, TypesInv', NEW c \in Callers, Decline(c)
  PROVE  HistoryInv'
<1> USE DEF HistoryInv
<1>1. Callers = {c}
  BY DEF Alone
<1>2. /\ call'[c].at = "idle"
      /\ stores' = stores /\ binding' = binding /\ vault' = vault
  BY ValuesAssumption
     DEF Decline, At, Idle, Returns, history, findings, TypesInv, TypeOK, CallsTyped, Calls
<1>3. BoundHistory'
  BY <1>1, <1>2, ValuesAssumption
     DEF TypesInv, TypeOK, BoundHistory, RoundIsBound, WipedBeforeBound, Merges, At, Shared
<1>4. WipedBeforeBound'
  BY <1>1, <1>2 DEF WipedBeforeBound, At
<1>5. RoundIsBound'
  BY <1>1, <1>2 DEF RoundIsBound, Merges
<1> QED BY <1>3, <1>4, <1>5

LEMMA BeginsWipeKeeps ==
  ASSUME Alone, HistoryInv, TypesInv', NEW c \in Callers, BeginsWipe(c)
  PROVE  HistoryInv'
<1> USE DEF HistoryInv
<1>1. Callers = {c}
  BY DEF Alone
<1>2. /\ call'[c].at = "wipe" /\ stores' = stores /\ binding' = binding
      /\ \A s \in Shared : \E i \in 1..Len(call'[c].left) : call'[c].left[i] = s
  <2>1. /\ call'[c].at = "wipe" /\ stores' = stores /\ binding' = binding
        /\ call'[c].left = WipeOrder
    BY DEF BeginsWipe, history, TypesInv, CallsTyped, Calls
  <2>2. \A s \in Shared : \E i \in 1..Len(WipeOrder) : WipeOrder[i] = s
    <3>1. /\ WipeOrder[2] = "registry" /\ WipeOrder[3] = "cursor" /\ WipeOrder[4] = "dag"
          /\ 2 \in 1..Len(WipeOrder) /\ 3 \in 1..Len(WipeOrder) /\ 4 \in 1..Len(WipeOrder)
      BY DEF WipeOrder
    <3> QED BY <3>1 DEF Shared, Stores
  <2> QED BY <2>1, <2>2
<1>3. BoundHistory'
  BY <1>1, <1>2, ValuesAssumption
     DEF TypesInv, TypeOK, BoundHistory, RoundIsBound, WipedBeforeBound, Merges, At, Shared
<1>4. WipedBeforeBound'
  BY <1>1, <1>2 DEF WipedBeforeBound, At
<1>5. RoundIsBound'
  BY <1>1, <1>2 DEF RoundIsBound, Merges
<1> QED BY <1>3, <1>4, <1>5

LEMMA WipesStoreKeeps ==
  ASSUME Alone, HistoryInv, TypesInv', NEW c \in Callers, WipesStore(c)
  PROVE  HistoryInv'
<1> USE DEF HistoryInv
<1>1. Callers = {c}
  BY DEF Alone
<1>2. /\ call[c].at = "wipe" /\ call'[c].at = "wipe" /\ call[c].left # <<>> /\ call'[c].left = Tail(call[c].left)
      /\ call[c].left \in Rests
      /\ binding' = binding /\ vault' = vault
      /\ \A s \in Shared : stores'[s] = IF s = Head(call[c].left) THEN {} ELSE stores[s]
  BY ValuesAssumption DEF WipesStore, At, Shared, Stores, TypesInv, TypeOK, CallsTyped, Calls
<1>3. BoundHistory'
  BY <1>1, <1>2, ValuesAssumption
     DEF TypesInv, TypeOK, BoundHistory, RoundIsBound, WipedBeforeBound, Merges, At, Shared
<1>4. WipedBeforeBound'
  <2>1. \A s \in Shared : stores[s] = {} \/ \E i \in 1..Len(call[c].left) : call[c].left[i] = s
    BY <1>2 DEF WipedBeforeBound, At
  <2>2. \A s : (\E i \in 1..Len(call[c].left) : call[c].left[i] = s)
               => s = Head(call[c].left) \/ \E i \in 1..Len(Tail(call[c].left)) : Tail(call[c].left)[i] = s
    BY <1>2, TailOfARest
  <2>3. \A s \in Shared : stores'[s] = {} \/ \E i \in 1..Len(call'[c].left) : call'[c].left[i] = s
    <3> TAKE s \in Shared
    <3>1. CASE stores[s] = {}
      BY <1>2, <3>1
    <3>2. CASE \E i \in 1..Len(call[c].left) : call[c].left[i] = s
      BY <1>2, <2>2, <3>2
    <3> QED BY <2>1, <3>1, <3>2
  <2> QED BY <1>1, <1>2, <2>3 DEF WipedBeforeBound, At
<1>5. RoundIsBound'
  BY <1>1, <1>2 DEF RoundIsBound, Merges
<1> QED BY <1>3, <1>4, <1>5

LEMMA WipesSyncStateKeeps ==
  ASSUME Alone, HistoryInv, TypesInv', NEW c \in Callers, WipesSyncState(c)
  PROVE  HistoryInv'
<1> USE DEF HistoryInv
<1>1. Callers = {c}
  BY DEF Alone
<1>2. /\ call[c].at = "wipe" /\ call[c].left = <<>> /\ call'[c].at \in {"baseline", "bind"}
      /\ stores' = stores /\ binding' = binding /\ vault' = vault
  BY ValuesAssumption DEF WipesSyncState, At, Goes, history, TypesInv, TypeOK, CallsTyped, Calls
<1>3. BoundHistory'
  BY <1>1, <1>2, ValuesAssumption
     DEF TypesInv, TypeOK, BoundHistory, RoundIsBound, WipedBeforeBound, Merges, At, Shared
<1>4. WipedBeforeBound'
  BY <1>1, <1>2 DEF WipedBeforeBound, At
<1>5. RoundIsBound'
  BY <1>1, <1>2 DEF RoundIsBound, Merges
<1> QED BY <1>3, <1>4, <1>5

LEMMA BindsKeeps ==
  ASSUME Alone, HistoryInv, TypesInv', NEW c \in Callers, Binds(c)
  PROVE  HistoryInv'
<1> USE DEF HistoryInv
<1>1. Callers = {c}
  BY DEF Alone
<1>2. /\ call[c].at = "bind" /\ stores' = stores /\ vault' = vault
      /\ \/ call'[c].at = "unlock" /\ binding' = vault
         \/ call'[c].at \in {"idle", "baseline"}
  BY ValuesAssumption DEF Binds, At, Idle, Goes, Returns, TypesInv, TypeOK, CallsTyped, Calls
<1>3. BoundHistory'
  BY <1>1, <1>2, ValuesAssumption
     DEF TypesInv, TypeOK, BoundHistory, RoundIsBound, WipedBeforeBound, Merges, At, Shared
<1>4. WipedBeforeBound'
  BY <1>1, <1>2 DEF WipedBeforeBound, At
<1>5. RoundIsBound'
  BY <1>1, <1>2 DEF RoundIsBound, Merges
<1> QED BY <1>3, <1>4, <1>5

LEMMA captureAllAsBaselineKeeps ==
  ASSUME Alone, HistoryInv, TypesInv', NEW c \in Callers, captureAllAsBaseline(c)
  PROVE  HistoryInv'
<1> USE DEF HistoryInv
<1>1. Callers = {c}
  BY DEF Alone
<1>2. /\ call'[c].at = "trigger" /\ binding' = binding /\ vault' = vault
      /\ \A s \in Shared : stores'[s] = stores[s]
  BY ValuesAssumption
     DEF captureAllAsBaseline, At, Goes, Capturing, Shared, Stores, TypesInv, TypeOK, CallsTyped, Calls
<1>3. BoundHistory'
  BY <1>1, <1>2, ValuesAssumption
     DEF TypesInv, TypeOK, BoundHistory, RoundIsBound, WipedBeforeBound, Merges, At, Shared
<1>4. WipedBeforeBound'
  BY <1>1, <1>2 DEF WipedBeforeBound, At
<1>5. RoundIsBound'
  BY <1>1, <1>2 DEF RoundIsBound, Merges
<1> QED BY <1>3, <1>4, <1>5

LEMMA cancelSyncKeeps ==
  ASSUME Alone, HistoryInv, TypesInv', cancelSync
  PROVE  HistoryInv'
<1> USE DEF HistoryInv
<1>1. /\ binding' = binding
      /\ vault' = vault
      /\ \A s \in Shared : stores'[s] = stores[s]
      /\ \A c \in Callers : /\ call'[c].at = call[c].at /\ call'[c].round = call[c].round
                          /\ call'[c].left = call[c].left
  BY ValuesAssumption DEF cancelSync, history, findings, TypesInv, TypeOK, CallsTyped, Calls
<1>2. BoundHistory' /\ WipedBeforeBound'
  BY <1>1 DEF BoundHistory, WipedBeforeBound, At
<1>3. RoundIsBound'
  BY <1>1 DEF RoundIsBound, Merges
<1> QED BY <1>2, <1>3

LEMMA PeerConflictsKeeps ==
  ASSUME Alone, HistoryInv, TypesInv', NEW f \in Files, PeerConflicts(f)
  PROVE  HistoryInv'
<1> USE DEF HistoryInv
<1>1. /\ binding' = binding
      /\ vault' = vault
      /\ \A s \in Shared : stores'[s] = stores[s]
      /\ \A c \in Callers : /\ call'[c].at = call[c].at /\ call'[c].round = call[c].round
                          /\ call'[c].left = call[c].left
  BY ValuesAssumption DEF PeerConflicts, history, TypesInv, TypeOK, CallsTyped, Calls
<1>2. BoundHistory' /\ WipedBeforeBound'
  BY <1>1 DEF BoundHistory, WipedBeforeBound, At
<1>3. RoundIsBound'
  BY <1>1 DEF RoundIsBound, Merges
<1> QED BY <1>2, <1>3

LEMMA EditKeeps ==
  ASSUME Alone, HistoryInv, TypesInv', Edit
  PROVE  HistoryInv'
<1> USE DEF HistoryInv
<1>1. /\ binding' = binding
      /\ vault' = vault
      /\ \A s \in Shared : stores'[s] = stores[s]
      /\ \A c \in Callers : /\ call'[c].at = call[c].at /\ call'[c].round = call[c].round
                          /\ call'[c].left = call[c].left
  BY ValuesAssumption
     DEF Edit, Capturing, Shared, Stores, findings, TypesInv, TypeOK, CallsTyped, Calls
<1>2. BoundHistory' /\ WipedBeforeBound'
  BY <1>1 DEF BoundHistory, WipedBeforeBound, At
<1>3. RoundIsBound'
  BY <1>1 DEF RoundIsBound, Merges
<1> QED BY <1>2, <1>3

LEMMA GcFallsDueKeeps ==
  ASSUME Alone, HistoryInv, TypesInv', GcFallsDue
  PROVE  HistoryInv'
<1> USE DEF HistoryInv
<1>1. /\ binding' = binding
      /\ vault' = vault
      /\ \A s \in Shared : stores'[s] = stores[s]
      /\ \A c \in Callers : /\ call'[c].at = call[c].at /\ call'[c].round = call[c].round
                          /\ call'[c].left = call[c].left
  BY ValuesAssumption DEF GcFallsDue, history, TypesInv, TypeOK, CallsTyped, Calls
<1>2. BoundHistory' /\ WipedBeforeBound'
  BY <1>1 DEF BoundHistory, WipedBeforeBound, At
<1>3. RoundIsBound'
  BY <1>1 DEF RoundIsBound, Merges
<1> QED BY <1>2, <1>3

LEMMA StartupCapturedKeeps ==
  ASSUME Alone, HistoryInv, TypesInv', StartupCaptured
  PROVE  HistoryInv'
<1> USE DEF HistoryInv
<1>1. /\ binding' = binding
      /\ vault' = vault
      /\ \A s \in Shared : stores'[s] = stores[s]
      /\ \A c \in Callers : /\ call'[c].at = call[c].at /\ call'[c].round = call[c].round
                          /\ call'[c].left = call[c].left
  BY ValuesAssumption
     DEF StartupCaptured, Capturing, Shared, Stores, findings, TypesInv, TypeOK, CallsTyped, Calls
<1>2. BoundHistory' /\ WipedBeforeBound'
  BY <1>1 DEF BoundHistory, WipedBeforeBound, At
<1>3. RoundIsBound'
  BY <1>1 DEF RoundIsBound, Merges
<1> QED BY <1>2, <1>3

LEMMA applyDeleteBinaryDecisionsKeeps ==
  ASSUME Alone, HistoryInv, TypesInv', NEW f \in Files, applyDeleteBinaryDecisions(f)
  PROVE  HistoryInv'
<1> USE DEF HistoryInv
<1>1. /\ binding' = binding
      /\ vault' = vault
      /\ \A s \in Shared : stores'[s] = stores[s]
      /\ \A c \in Callers : call'[c] = call[c] \/ call'[c].at = "trigger"
  BY ValuesAssumption
     DEF applyDeleteBinaryDecisions, Idle, history, TypesInv, TypeOK, CallsTyped, Calls
<1>2. BoundHistory' /\ WipedBeforeBound'
  BY <1>1 DEF BoundHistory, WipedBeforeBound, At
<1>3. RoundIsBound'
  BY <1>1 DEF RoundIsBound, Merges
<1> QED BY <1>2, <1>3

LEMMA CrashKeeps ==
  ASSUME Alone, HistoryInv, TypesInv', NEW v \in Vaults \union {Blank}, Crash(v)
  PROVE  HistoryInv'
<1> USE DEF HistoryInv
<1>1. /\ binding' = binding
      /\ \A s \in Shared : stores'[s] = stores[s]
      /\ \A c \in Callers : call'[c].at = "idle"
  BY ValuesAssumption DEF Crash, Idle, history, TypesInv, TypeOK, CallsTyped, Calls
<1>2. BoundHistory' /\ WipedBeforeBound'
  BY <1>1 DEF BoundHistory, WipedBeforeBound, At
<1>3. RoundIsBound'
  BY <1>1 DEF RoundIsBound, Merges
<1> QED BY <1>2, <1>3

LEMMA StepKeeps == ASSUME Alone, HistoryInv, TypesInv', [Next]_vars PROVE HistoryInv'
<1> USE DEF HistoryInv
<1>1. ASSUME NEW c \in Callers, Runs(c) \/ Asked(c) PROVE HistoryInv'
  BY <1>1,
     TriggerSyncKeeps, TriggersAtTheEndKeeps, checkVaultBindingKeeps, BeginsRoundKeeps,
     StaysLockedKeeps, CapturesAndConnectsKeeps, PullKeeps, PushKeeps, StopsAtCheckpointKeeps,
     RoundFailsKeeps, ApplyKeeps, ApplyRejectsKeeps, SaveCursorKeeps, recordRoundOutcomeKeeps,
     maybeRunGcKeeps, GcNotDueKeeps, GcEndsKeeps, RoundEndsKeeps, ClearCacheKeeps,
     switchVaultKeeps, rebuildLocalStateFromScratchKeeps, rebaselineToServerKeeps,
     resetSyncStateKeeps, recheckConflictsKeeps, ConfirmKeeps, DeclineKeeps, BeginsWipeKeeps,
     WipesStoreKeeps, WipesSyncStateKeeps, BindsKeeps, captureAllAsBaselineKeeps
     DEF Runs, Asked, Round
<1>2. ASSUME NEW f \in Files, applyDeleteBinaryDecisions(f) \/ PeerConflicts(f) PROVE HistoryInv'
  BY <1>2, applyDeleteBinaryDecisionsKeeps, PeerConflictsKeeps
<1>3. ASSUME cancelSync \/ Edit \/ GcFallsDue \/ StartupCaptured PROVE HistoryInv'
  BY <1>3, cancelSyncKeeps, EditKeeps, GcFallsDueKeeps, StartupCapturedKeeps
<1>4. ASSUME NEW v \in Vaults \union {Blank}, Crash(v) PROVE HistoryInv'
  BY <1>4, CrashKeeps
<1> QED BY <1>1, <1>2, <1>3, <1>4, StandingStill DEF Next

-----------------------------------------------------------------------------
(* Every step keeps the answers.                                              *)

\* A step that leaves the answers, what the panel lists and the marker alone, and takes no call to
\* the merge but from a round, past it but with what it deferred, or to the end of a wipe.
Undisturbed ==
  /\ UNCHANGED <<binding, roundConflicts, listed, decision, told>>
  /\ \A c \in Callers :
       /\ call'[c].at \in {"capture", "pull", "push", "apply"} =>
            call[c].at \in {"capture", "pull", "push", "apply"}
       /\ call'[c].at \in {"save", "record"} =>
            call[c].at \in {"save", "record"} /\ call'[c].deferred = call[c].deferred
       /\ call'[c].at = "record" => call'[c].round = binding /\ binding # None
       /\ call'[c].at = "bind" => call[c].at = "bind"

LEMMA UndisturbedKeeps == ASSUME AnswersInv, Undisturbed PROVE AnswersInv'
BY DEF AnswersInv, AnswersAreBound, ListedIsBound, RoundDescribes, ForgottenBeforeBound, Undisturbed, At

\* What the steps of a call that leave the answers alone are.
LEMMA CommandsDoNotDisturb ==
  ASSUME TypesInv, AnswersInv, NEW c \in Callers,
         \/ \E source \in {"manual", "auto"} : TriggerSync(c, source)
         \/ TriggersAtTheEnd(c) \/ StaysLocked(c) \/ ClearCache(c)
         \/ \E goal \in Vaults \union {Blank} : switchVault(c, goal)
         \/ rebuildLocalStateFromScratch(c) \/ rebaselineToServer(c) \/ resetSyncState(c)
         \/ recheckConflicts(c) \/ Confirm(c) \/ Decline(c) \/ BeginsWipe(c) \/ WipesStore(c)
         \/ captureAllAsBaseline(c)
  PROVE  Undisturbed
<1>1. /\ UNCHANGED <<binding, findings>>
      /\ \A d \in Callers : \/ call'[d] = call[d]
                            \/ call'[d].at \in {"idle", "binding", "modal", "agreed", "wipe", "collect",
                                                "baseline", "trigger"}
  <2>1. CASE \E source \in {"manual", "auto"} : TriggerSync(c, source)
    BY <2>1 DEF TriggerSync, Idle, history, findings, TypesInv, CallsTyped
  <2>2. CASE TriggersAtTheEnd(c)
    BY <2>2 DEF TriggersAtTheEnd, Idle, history, findings, TypesInv, CallsTyped
  <2>3. CASE StaysLocked(c) \/ Decline(c)
    BY <2>3 DEF StaysLocked, Decline, Returns, Idle, history, findings, TypesInv, CallsTyped
  <2>4. CASE ClearCache(c) \/ recheckConflicts(c)
    BY <2>4 DEF ClearCache, recheckConflicts, Idle, history, findings, TypesInv, CallsTyped
  <2>5. CASE \E goal \in Vaults \union {Blank} : switchVault(c, goal)
    <3>1. PICK goal \in Vaults \union {Blank} : switchVault(c, goal)
      BY <2>5
    <3>2. CASE vault = Blank
      BY <3>1, <3>2 DEF switchVault, Idle, history, findings, TypesInv, CallsTyped
    <3>3. CASE vault # Blank
      BY <3>1, <3>3 DEF switchVault, Asks, Idle, history, findings, TypesInv, CallsTyped
    <3> QED BY <3>2, <3>3
  <2>6. CASE rebuildLocalStateFromScratch(c) \/ rebaselineToServer(c)
    BY <2>6 DEF rebuildLocalStateFromScratch, rebaselineToServer, Asks, Idle, history, findings,
                TypesInv, CallsTyped
  <2>7. CASE resetSyncState(c)
    BY <2>7 DEF resetSyncState
  <2>8. CASE Confirm(c) \/ BeginsWipe(c) \/ WipesStore(c) \/ captureAllAsBaseline(c)
    BY <2>8 DEF Confirm, BeginsWipe, WipesStore, captureAllAsBaseline, At, Goes, history, findings,
                TypesInv, CallsTyped, Calls
  <2> QED BY <2>1, <2>2, <2>3, <2>4, <2>5, <2>6, <2>7, <2>8
<1> QED BY <1>1 DEF Undisturbed, findings, AnswersInv, RoundDescribes, At

\* What the steps of a round that leave the answers alone are.
LEMMA RoundsDoNotDisturb ==
  ASSUME HistoryInv, AnswersInv, NEW c \in Callers,
         \/ CapturesAndConnects(c) \/ Pull(c) \/ Push(c) \/ StopsAtCheckpoint(c) \/ RoundFails(c)
         \/ ApplyRejects(c) \/ SaveCursor(c) \/ maybeRunGc(c) \/ GcNotDue(c) \/ GcEnds(c)
         \/ RoundEnds(c)
  PROVE  Undisturbed
<1> USE DEF HistoryInv, TypesInv, CallsTyped
<1>1. ASSUME CapturesAndConnects(c) \/ Pull(c) \/ Push(c) PROVE Undisturbed
  <2>1. /\ UNCHANGED <<binding, findings>>
        /\ call[c].at \in {"capture", "pull", "push"} /\ call'[c].at \in {"pull", "push", "apply"}
        /\ \A d \in Callers : d # c => call'[d] = call[d]
    BY <1>1 DEF CapturesAndConnects, Pull, Push, At, Goes, history, findings, Calls
  <2> QED BY <2>1 DEF Undisturbed, findings, AnswersInv, RoundDescribes, At
<1>2. ASSUME StopsAtCheckpoint(c) \/ RoundFails(c) \/ ApplyRejects(c) \/ GcNotDue(c) \/ RoundEnds(c)
      PROVE  Undisturbed
  <2>1. /\ UNCHANGED <<binding, findings>>
        /\ call'[c].at \in {"finally", "idle"}
        /\ \A d \in Callers : d # c => call'[d] = call[d]
    BY <1>2 DEF StopsAtCheckpoint, RoundFails, ApplyRejects, GcNotDue, RoundEnds, Goes, Returns, Idle,
                history, findings, Calls
  <2> QED BY <2>1 DEF Undisturbed, findings, AnswersInv, RoundDescribes, At
<1>3. ASSUME maybeRunGc(c) \/ GcEnds(c) PROVE Undisturbed
  <2>1. /\ UNCHANGED <<binding, roundConflicts, listed, decision, told>>
        /\ call'[c].at \in {"collect", "finally", "idle"}
        /\ \A d \in Callers : d # c => call'[d] = call[d]
    BY <1>3 DEF maybeRunGc, GcEnds, Goes, Returns, Idle, history, Calls
  <2> QED BY <2>1 DEF Undisturbed, AnswersInv, RoundDescribes, At
<1>4. ASSUME SaveCursor(c) PROVE Undisturbed
  <2>1. /\ UNCHANGED <<binding, findings>>
        /\ call[c].at = "save" /\ call'[c].at = "record"
        /\ call'[c].deferred = call[c].deferred /\ call'[c].round = call[c].round
        /\ \A d \in Callers : d # c => call'[d] = call[d]
    BY <1>4 DEF SaveCursor, At, Goes, findings, Calls
  <2>2. call[c].round = binding /\ binding # None
    BY <2>1, ValuesAssumption DEF RoundIsBound, CallsFit, Merges
  <2> QED BY <2>1, <2>2 DEF Undisturbed, findings, AnswersInv, RoundDescribes, At
<1> QED BY <1>1, <1>2, <1>3, <1>4

\* What the steps of no call that leave the answers alone are.
LEMMA SurroundingsDoNotDisturb ==
  ASSUME TypesInv, AnswersInv,
         \/ cancelSync \/ Edit \/ GcFallsDue \/ StartupCaptured \/ \E f \in Files : PeerConflicts(f)
  PROVE  Undisturbed
<1>1. /\ UNCHANGED <<binding, roundConflicts, listed, decision, told>>
      /\ \A c \in Callers : /\ call'[c].at = call[c].at /\ call'[c].round = call[c].round
                            /\ call'[c].deferred = call[c].deferred
  BY DEF cancelSync, Edit, GcFallsDue, StartupCaptured, PeerConflicts, history, findings, TypesInv,
         CallsTyped, Calls
<1> QED BY <1>1 DEF Undisturbed, AnswersInv, RoundDescribes, At

\* The first marker is set when nothing is listed or answered.
LEMMA checkVaultBindingAnswers ==
  ASSUME TypesInv, AnswersInv, NEW c \in Callers, Alone, checkVaultBinding(c)
  PROVE  AnswersInv'
<1>1. /\ UNCHANGED findings /\ call'[c].at \in {"unlock", "modal", "idle"}
      /\ binding # None => binding' = binding
  BY DEF checkVaultBinding, Goes, Returns, Idle, TypesInv, CallsTyped, Calls
<1>2. Callers = {c}
  BY DEF Alone
<1>3. AnswersAreBound' /\ ListedIsBound'
  BY <1>1 DEF AnswersInv, AnswersAreBound, ListedIsBound, findings
<1> QED BY <1>1, <1>2, <1>3 DEF AnswersInv, RoundDescribes, ForgottenBeforeBound, At

LEMMA BeginsRoundAnswers ==
  ASSUME TypesInv, AnswersInv, NEW c \in Callers, Alone, BeginsRound(c)
  PROVE  AnswersInv'
<1>1. /\ UNCHANGED <<binding, listed, decision, told>> /\ roundConflicts' = {}
      /\ call'[c].at = "capture"
  BY DEF BeginsRound, Goes, history, TypesInv, CallsTyped, Calls
<1>2. Callers = {c}
  BY DEF Alone
<1> QED BY <1>1, <1>2
        DEF AnswersInv, AnswersAreBound, ListedIsBound, RoundDescribes, ForgottenBeforeBound, At

\* A round uses an answer up when it applies it.
LEMMA ApplyAnswers ==
  ASSUME TypesInv, AnswersInv, NEW c \in Callers, Alone, Apply(c)
  PROVE  AnswersInv'
<1>1. PICK deferred \in SUBSET Files, applied \in SUBSET Files :
        /\ roundConflicts' = roundConflicts \union deferred
        /\ spent' = spent \union (applied \intersect decision)
        /\ answer' = [f \in Files |-> IF f \in applied THEN None ELSE answer[f]]
        /\ call'[c].at = "save" /\ call'[c].deferred = deferred
  <2>1. PICK stranded \in SUBSET conflict :
          \E failed \in SUBSET ((conflict \ stranded) \intersect Answered) :
            LET asked   == conflict \ stranded
                applied == (asked \intersect Answered) \ failed
            IN  /\ roundConflicts' = roundConflicts \union (asked \ Answered)
                /\ spent' = spent \union (applied \intersect decision)
                /\ answer' = [f \in Files |-> IF f \in applied THEN None ELSE answer[f]]
                /\ call' = [call EXCEPT ![c].at = "save", ![c].deferred = asked \ Answered]
    BY DEF Apply
  <2>2. PICK failed \in SUBSET ((conflict \ stranded) \intersect Answered) :
          LET asked   == conflict \ stranded
              applied == (asked \intersect Answered) \ failed
          IN  /\ roundConflicts' = roundConflicts \union (asked \ Answered)
              /\ spent' = spent \union (applied \intersect decision)
              /\ answer' = [f \in Files |-> IF f \in applied THEN None ELSE answer[f]]
              /\ call' = [call EXCEPT ![c].at = "save", ![c].deferred = asked \ Answered]
    BY <2>1
  <2>3. /\ (conflict \ stranded) \ Answered \in SUBSET Files
        /\ ((conflict \ stranded) \intersect Answered) \ failed \in SUBSET Files
    BY DEF TypesInv, TypeOK
  <2>4. call'[c].at = "save" /\ call'[c].deferred = (conflict \ stranded) \ Answered
    BY <2>2 DEF TypesInv, CallsTyped, Calls
  <2> QED BY <2>2, <2>3, <2>4
<1>2. /\ UNCHANGED <<binding, listed, decision, listedBy>> /\ roundConflicts = {}
  BY DEF Apply, AnswersInv, RoundDescribes, At
<1>3. Callers = {c}
  BY DEF Alone
<1>4. AnswersAreBound'
  BY <1>1, <1>2 DEF AnswersInv, AnswersAreBound
<1>5. ListedIsBound' /\ RoundDescribes' /\ ForgottenBeforeBound'
  BY <1>1, <1>2, <1>3 DEF AnswersInv, ListedIsBound, RoundDescribes, ForgottenBeforeBound, At
<1> QED BY <1>4, <1>5 DEF AnswersInv

\* A round keeps the answers about the files it defers.
LEMMA recordRoundOutcomeAnswers ==
  ASSUME TypesInv, AnswersInv, NEW c \in Callers, Alone, recordRoundOutcome(c)
  PROVE  AnswersInv'
<1>1. /\ call[c].deferred = roundConflicts /\ call[c].round = binding /\ binding # None
      /\ roundConflicts \subseteq Files
  BY DEF recordRoundOutcome, AnswersInv, RoundDescribes, At, TypesInv, TypeOK
<1>2. /\ UNCHANGED <<binding, roundConflicts>> /\ listed' = roundConflicts
      /\ decision' = decision \intersect roundConflicts /\ spent' = spent \intersect roundConflicts
      /\ listedBy' = IF roundConflicts = {} THEN None ELSE call[c].round
      /\ answer' = [f \in Files |-> IF f \in call[c].deferred THEN answer[f] ELSE None]
      /\ call'[c].at = "maintain"
  BY DEF recordRoundOutcome, StillLive, Goes, history, TypesInv, CallsTyped, Calls
<1>3. Callers = {c}
  BY DEF Alone
<1>4. AnswersAreBound'
  BY <1>1, <1>2 DEF AnswersInv, AnswersAreBound
<1>5. ListedIsBound' /\ RoundDescribes' /\ ForgottenBeforeBound'
  BY <1>1, <1>2, <1>3 DEF ListedIsBound, RoundDescribes, ForgottenBeforeBound, At
<1> QED BY <1>4, <1>5 DEF AnswersInv

LEMMA WipesSyncStateAnswers ==
  ASSUME TypesInv, AnswersInv, NEW c \in Callers, Alone, WipesSyncState(c)
  PROVE  AnswersInv'
<1>1. /\ UNCHANGED <<binding, roundConflicts>> /\ call'[c].at \in {"baseline", "bind"}
      /\ listed' = {} /\ decision' = {} /\ spent' = {} /\ answer' = Unanswered
  BY DEF WipesSyncState, Goes, history, TypesInv, CallsTyped, Calls
<1>2. Callers = {c}
  BY DEF Alone
<1> QED BY <1>1, <1>2
        DEF AnswersInv, AnswersAreBound, ListedIsBound, RoundDescribes, ForgottenBeforeBound, At, Unanswered

LEMMA BindsAnswers ==
  ASSUME TypesInv, AnswersInv, NEW c \in Callers, Alone, Binds(c)
  PROVE  AnswersInv'
<1>1. /\ UNCHANGED findings /\ call'[c].at \in {"unlock", "idle", "baseline"}
      /\ listed = {} /\ \A f \in Files : answer[f] = None
  BY DEF Binds, Goes, Returns, Idle, AnswersInv, ForgottenBeforeBound, At, TypesInv, CallsTyped, Calls
<1>2. Callers = {c}
  BY DEF Alone
<1>3. AnswersAreBound' /\ ListedIsBound'
  BY <1>1 DEF AnswersInv, AnswersAreBound, ListedIsBound, findings
<1> QED BY <1>1, <1>2, <1>3 DEF AnswersInv, RoundDescribes, ForgottenBeforeBound, At

\* What the user is asked about is a conflict of the vault that the marker names.
LEMMA applyDeleteBinaryDecisionsAnswers ==
  ASSUME TypesInv, AnswersInv, NEW f \in Files, applyDeleteBinaryDecisions(f)
  PROVE  AnswersInv'
<1>1. /\ UNCHANGED <<binding, roundConflicts, listed, listedBy>>
      /\ decision' = decision \union {f} /\ spent' = spent \ {f}
      /\ answer' = [answer EXCEPT ![f] = listedBy]
      /\ \A c \in Callers : call'[c] = call[c] \/ call'[c].at = "trigger"
  BY DEF applyDeleteBinaryDecisions, Idle, history, TypesInv, CallsTyped, Calls
<1>2. f \in listed /\ listedBy = binding /\ listedBy # None
  BY DEF applyDeleteBinaryDecisions, AnswersInv, ListedIsBound
<1>3. AnswersAreBound'
  BY <1>1, <1>2 DEF AnswersInv, AnswersAreBound, TypesInv, TypeOK
<1>4. ListedIsBound' /\ RoundDescribes' /\ ForgottenBeforeBound'
  BY <1>1, <1>2 DEF AnswersInv, ListedIsBound, RoundDescribes, ForgottenBeforeBound, At
<1> QED BY <1>3, <1>4 DEF AnswersInv

LEMMA CrashAnswers ==
  ASSUME AnswersInv, NEW v \in Vaults \union {Blank}, Crash(v)
  PROVE  AnswersInv'
<1>1. /\ UNCHANGED <<binding, listed, decision, told>>
      /\ \A c \in Callers : call'[c].at = "idle"
  BY DEF Crash, Idle, history
<1> QED BY <1>1
        DEF AnswersInv, AnswersAreBound, ListedIsBound, RoundDescribes, ForgottenBeforeBound, At

LEMMA StepKeepsAnswers ==
  ASSUME Alone, HistoryInv, AnswersInv, [Next]_vars
  PROVE  AnswersInv'
<1>1. TypesInv
  BY DEF HistoryInv
<1>2. ASSUME NEW c \in Callers, Runs(c) \/ Asked(c) PROVE AnswersInv'
  BY <1>1, <1>2, CommandsDoNotDisturb, RoundsDoNotDisturb, UndisturbedKeeps,
     checkVaultBindingAnswers, BeginsRoundAnswers, ApplyAnswers, recordRoundOutcomeAnswers,
     WipesSyncStateAnswers, BindsAnswers
     DEF Runs, Asked, Round
<1>3. ASSUME \/ cancelSync \/ Edit \/ GcFallsDue \/ StartupCaptured
             \/ \E f \in Files : PeerConflicts(f)
      PROVE  AnswersInv'
  BY <1>1, <1>3, SurroundingsDoNotDisturb, UndisturbedKeeps
<1>4. ASSUME NEW f \in Files, applyDeleteBinaryDecisions(f) PROVE AnswersInv'
  BY <1>1, <1>4, applyDeleteBinaryDecisionsAnswers
<1>5. ASSUME NEW v \in Vaults \union {Blank}, Crash(v) PROVE AnswersInv'
  BY <1>5, CrashAnswers
<1>6. ASSUME UNCHANGED vars PROVE AnswersInv'
  BY <1>6 DEF vars, findings, history, AnswersInv, AnswersAreBound, ListedIsBound, RoundDescribes,
              ForgottenBeforeBound, At
<1> QED BY <1>2, <1>3, <1>4, <1>5, <1>6 DEF Next

-----------------------------------------------------------------------------
(* What is proved.                                                              *)

LEMMA TypesInvHolds == Spec => []TypesInv
<1>1. Init => TypesInv
  BY StartsTyped
<1>2. TypesInv /\ [Next]_vars => TypesInv'
  BY StepTypes
<1> QED BY <1>1, <1>2, PTL DEF Spec

\* The kinds of the state hold for any number of chains of awaits: in particular the lock that a
\* garbage collection takes (collecting) is held by one call at most.
THEOREM TypesHold == Spec => []TypeOK
<1>1. TypesInv => TypeOK
  BY DEF TypesInv
<1> QED BY <1>1, TypesInvHolds, PTL

\* No two garbage collections run at the same time, whoever asked for them: gcInProgress is read
\* and set without an await between (maybeRunGc, clearContentCache).
THEOREM CollectionsNeverOverlap == Spec => []OneCollects
<1>1. TypesInv => OneCollects
  BY DEF TypesInv
<1> QED BY <1>1, TypesInvHolds, PTL

\* The strengthened invariant, for one chain of awaits at a time.
LEMMA HistoryHolds == Spec /\ Alone => []HistoryInv
<1> SUFFICES ASSUME Alone PROVE Spec => []HistoryInv
  OBVIOUS
<1>1. Init => HistoryInv
  BY StartsTyped
<1>2. HistoryInv /\ [Next]_vars => HistoryInv'
  BY StepTypes, StepKeeps DEF HistoryInv
<1> QED BY <1>1, <1>2, PTL DEF Spec

\* A device that is turned from vault to vault, with crashes at any await, never merges a round
\* over the history of another vault (checkVaultBinding, wipeLocalSyncState, switchVault): for any
\* number of vaults, files and crashes, when one chain of awaits is under way at a time.
THEOREM HistoriesStayApart == Spec /\ Alone => []OwnHistory
<1>1. HistoryInv => OwnHistory
  BY DEF HistoryInv, BoundHistory, RoundIsBound, Shared, OwnHistory
<1> QED BY <1>1, HistoryHolds, PTL

\* A round goes by all the answers the user gave about its own vault's conflicts and by no other
\* (recordDecision, getDecision, setRound, wipeLocalSyncState), through decisions picked while a
\* round runs, failed rounds and wipes cut short by a crash, under the same hypothesis.  An answer
\* ends when it is applied, wiped, or not deferred by the round that records its outcome.
THEOREM AnswersAlwaysCount == Spec /\ Alone => []AnswersCount
<1> SUFFICES ASSUME Alone PROVE Spec => []AnswersCount
  OBVIOUS
<1>1. Init => AnswersInv
  BY DEF Init, Idle, Unanswered, AnswersInv, AnswersAreBound, ListedIsBound, RoundDescribes,
         ForgottenBeforeBound, At
<1>2. HistoryInv /\ AnswersInv /\ [Next]_vars => AnswersInv'
  BY StepKeepsAnswers
<1>3. HistoryInv /\ AnswersInv => AnswersCount
  <2> SUFFICES ASSUME HistoryInv, AnswersInv, NEW c \in Callers, At(c, "apply")
               PROVE  decision \ spent = {f \in Files : answer[f] = call[c].round}
    BY DEF AnswersCount
  <2>1. call[c].round = binding /\ binding # None
    BY ValuesAssumption DEF HistoryInv, TypesInv, RoundIsBound, CallsFit, Merges, At
  <2> QED BY <2>1 DEF AnswersInv, AnswersAreBound
<1> QED BY <1>1, <1>2, <1>3, HistoryHolds, PTL DEF Spec

=============================================================================
