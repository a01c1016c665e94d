----------------------------- MODULE TpkPlugin ------------------------------
(***************************************************************************)
(* crates/tauri-plugin-tpk/src/state.rs: the commands over the planner and *)
(* the store.  check, download and reset take the operation lock, and give *)
(* up the store's mutex while they wait for the network; notify_ready takes*)
(* the mutex only.  What a check found is kept for the next download.      *)
(*                                                                         *)
(* A store operation is one step here: what its writes go through, and     *)
(* what a crash between them leaves, is TpkStore's subject.                *)
(***************************************************************************)
EXTENDS TpkPlan

CONSTANTS
    Channels,      \* the offers a channel may make
    Corruptible,   \* packs that may fail to load
    LoadReasons,   \* reasons such a failure is recorded under
    MaxClock       \* bound on the wall clock

ASSUME PluginAssumption ==
    /\ \A offer \in Channels : offer \subseteq Packs /\ WellFormed(offer)
    /\ LoadReasons \subseteq Reasons
    /\ MaxClock \in Nat

\* Packs as "tpk pack" builds them: a patch sits on a chain of patches on a
\* base (cmd_pack.rs:141 and 379), with rising versions (manifest.rs:410).
ASSUME PacksAsBuilt ==
    /\ IsFiniteSet(Packs)
    /\ \A p \in Packs :
        /\ IsPatch(p) <=> Meta[p].parent # NoPack
        /\ IsPatch(p) => LET parent == Meta[Meta[p].parent]
                         IN  /\ parent.id = Meta[p].id /\ parent.ver < Meta[p].ver
                             /\ parent.kind \in {"base", "patch"}

VARIABLES
    state, verdicts,   \* what the store keeps
    up,                \* whether the app runs
    unrecorded,        \* failed layers setup has still to record
    operation,         \* who holds TpkState.operation: "none", "check", "update", "download"
    seen,              \* what check_locked read before the request
    pending            \* TpkState.pending: the packs to fetch

store == <<state, verdicts>>
pluginVars == <<store, up, unrecorded, operation, seen, pending, now>>

NoPlan == {NoPack}   \* nothing was checked yet
NothingToFetch == {}
HasWork(plan) == plan \notin {NoPlan, NothingToFetch}

Versions(layers) ==
    [id \in Ids |-> Highest({0} \cup {Meta[p].ver : p \in {q \in layers : Meta[q].id = id}})]

InstalledVersions(s, vs) == Versions(InstalledLayers(s, vs))

\* What stage_for_shell accepts.
Stageable(s, vs, batch) ==
    /\ ~\E p \in batch : Blocks(vs, p)
    /\ RevisionAccepted(s, vs, batch)
    /\ FloorsReached(s, Revision(s, vs, batch), batch)

NothingSeen == [installed |-> NewState.floor, floor |-> NewState.floor]

\* An error is kept for status(), unless it cannot be written.
ErrorKept == \E code \in ErrorCodes \cup {state.lastError} : state' = [state EXCEPT !.lastError = code]

-----------------------------------------------------------------------------
\* setup: open, boot and load; nothing is seeded.
StartApp ==
    /\ ~up
    /\ LET read == BackfillVersionFloor(state, verdicts)
           vs   == Condemn(verdicts, Condemned(read), "not_acknowledged", now)
       IN  /\ state' = Promoted(Tried(read), vs)
           /\ verdicts' = vs
           /\ unrecorded' \in SUBSET (Live(state', vs) \cap Corruptible)
    /\ up' = TRUE
    /\ UNCHANGED <<operation, seen, pending, now>>

RecordLayerFailure ==
    /\ up
    /\ \E p \in unrecorded, reason \in LoadReasons :
        /\ verdicts' = Record(verdicts, Release(p), reason, now)
        /\ unrecorded' = unrecorded \ {p}
    /\ UNCHANGED <<state, up, operation, seen, pending, now>>

EndApp ==
    /\ up
    /\ up' = FALSE
    /\ unrecorded' = {}
    /\ operation' = "none"
    /\ seen' = NothingSeen
    /\ pending' = NoPlan
    /\ UNCHANGED <<store, now>>

Commands == up /\ unrecorded = {}

-----------------------------------------------------------------------------
\* check_locked up to the request.  download checks first when nothing is
\* pending, and auto_update always.
CheckPossible == Commands /\ operation = "none" /\ ~Degraded(state)

BeginCheck ==
    /\ CheckPossible
    /\ seen' = [installed |-> InstalledVersions(state, verdicts), floor |-> state.floor]
    /\ operation' \in {"check", "update"}
    /\ UNCHANGED <<store, up, unrecorded, pending, now>>

\* The channel cannot be fetched, is not accepted, or is not observed.
CheckFails ==
    /\ operation \in {"check", "update"}
    /\ ErrorKept
    /\ operation' = "none"
    /\ seen' = NothingSeen
    /\ UNCHANGED <<verdicts, up, unrecorded, pending, now>>

\* The channel is observed and planned against what was read earlier.
PlanOffer(offer) ==
    /\ operation \in {"check", "update"}
    /\ pending' = Plan(offer, verdicts, seen.installed, seen.floor)
    /\ state' = [state EXCEPT !.lastError = "none"]
    /\ operation' = IF operation = "update" /\ HasWork(pending') THEN "download" ELSE "none"
    /\ seen' = NothingSeen
    /\ UNCHANGED <<verdicts, up, unrecorded, now>>

\* download takes whatever the last check found.
BeginDownload ==
    /\ Commands
    /\ operation = "none"
    /\ HasWork(pending)
    /\ operation' = "download"
    /\ UNCHANGED <<store, up, unrecorded, seen, pending, now>>

\* A request or the staging fails: the plan stays for another try.
DownloadFails ==
    /\ operation = "download"
    /\ ErrorKept
    /\ operation' = "none"
    /\ UNCHANGED <<verdicts, up, unrecorded, seen, pending, now>>

StagePending ==
    /\ operation = "download"
    /\ Stageable(state, verdicts, pending)
    /\ state' = [state EXCEPT !.staged = Revision(state, verdicts, pending),
                              !.lastError = "none"]
    /\ pending' = NothingToFetch
    /\ operation' = "none"
    /\ UNCHANGED <<verdicts, up, unrecorded, seen, now>>

\* Not under the operation lock.
AcknowledgeReady ==
    /\ Commands
    /\ state' = Acknowledged(state)
    /\ UNCHANGED <<verdicts, up, unrecorded, operation, seen, pending, now>>

\* Mutant: a reset leaves the plan in place.
ResetContentOnly(clearBlacklist) ==
    /\ Commands
    /\ operation = "none"
    /\ state' = Cleared(state)
    /\ verdicts' = IF clearBlacklist THEN NoVerdicts ELSE verdicts
    /\ UNCHANGED <<up, unrecorded, operation, seen, pending, now>>

\* An error after the state was published, when the blacklist could not be
\* saved, returns before the plan is dropped.
ResetContent(clearBlacklist) ==
    /\ Commands
    /\ operation = "none"
    /\ state' = Cleared(state)
    /\ verdicts' = IF clearBlacklist THEN NoVerdicts ELSE verdicts
    /\ \/ pending' = NoPlan
       \/ verdicts' # verdicts /\ UNCHANGED pending
    /\ UNCHANGED <<up, unrecorded, operation, seen, now>>

PassTime ==
    /\ now < MaxClock
    /\ now' = now + 1
    /\ UNCHANGED <<store, up, unrecorded, operation, seen, pending>>

-----------------------------------------------------------------------------
PluginInit ==
    /\ state = NewState
    /\ verdicts = NoVerdicts
    /\ up = FALSE
    /\ unrecorded = {}
    /\ operation = "none"
    /\ seen = NothingSeen
    /\ pending = NoPlan
    /\ now = 0

PluginNext ==
    \/ StartApp \/ RecordLayerFailure \/ EndApp
    \/ BeginCheck \/ CheckFails
    \/ \E offer \in Channels : PlanOffer(offer)
    \/ BeginDownload \/ DownloadFails \/ StagePending
    \/ AcknowledgeReady
    \/ \E clearBlacklist \in BOOLEAN : ResetContent(clearBlacklist)
    \/ PassTime

PluginSpec == PluginInit /\ [][PluginNext]_pluginVars

-----------------------------------------------------------------------------
PlanNow(offer) == Plan(offer, verdicts, InstalledVersions(state, verdicts), state.floor)

\* What counts as installed is what the app runs on.  Not so while a trial
\* runs without a layer of the committed stack, see PlansAlwaysStage.
InstalledIsLive == InstalledVersions(state, verdicts) = Versions(Live(state, verdicts))

(***************************************************************************)
(* The planner asks for nothing that staging would refuse: its view of     *)
(* what is installed agrees with the stack staging builds on, so no check  *)
(* leads to a download that is doomed (state.rs:522, store.rs:200).        *)
(***************************************************************************)
PlansStage ==
    CheckPossible /\ InstalledIsLive => \A offer \in Channels :
        LET batch == PlanNow(offer)
        IN  HasWork(batch) => Stageable(state, verdicts, batch)

\* And so in every state in which a check may begin.
PlansAlwaysStage ==
    CheckPossible => \A offer \in Channels :
        LET batch == PlanNow(offer)
        IN  HasWork(batch) => Stageable(state, verdicts, batch)

(***************************************************************************)
(* If some packs of a channel can be staged and advance an id, replacing   *)
(* nothing by an older base on the way, the planner finds some to fetch:   *)
(* neither a floor left by a reset nor a dead end or an older base in the  *)
(* channel hides the way (plan.rs:197 and 263).                            *)
(***************************************************************************)
Advances(batch) ==
    LET installed == InstalledVersions(state, verdicts)
    IN  \A p \in batch : Meta[p].ver > installed[Meta[p].id]

PlanFindsAWay ==
    CheckPossible /\ InstalledIsLive => \A offer \in Channels :
        (\E batch \in (SUBSET Usable(offer, verdicts)) \ {{}} :
            Advances(batch) /\ Stageable(state, verdicts, batch))
        => HasWork(PlanNow(offer))

(***************************************************************************)
(* One update is enough: once a plan is staged and acknowledged, the same  *)
(* channel has nothing more to fetch (plan.rs:145).                        *)
(***************************************************************************)
PlanConverges ==
    CheckPossible /\ InstalledIsLive => \A offer \in Channels :
        LET batch == PlanNow(offer)
            after == RaiseVersionFloor([state EXCEPT
                        !.committed = Revision(state, verdicts, batch),
                        !.booting = NoRev,
                        !.pointer = "committed"])
        IN  HasWork(batch) =>
                Plan(offer, verdicts, InstalledVersions(after, verdicts), after.floor) = {}

\* No layer of the store's revisions has a verdict, not even one that ran out.
LoadsWhole ==
    \A p \in Layers(state.committed) \cup Layers(state.booting) :
        verdicts[Release(p)].reason = "none"

\* What a check that waits for its answer has read as installed is still what
\* the app runs on.
SeenIsLive ==
    operation \in {"check", "update"} => seen.installed = Versions(Live(state, verdicts))

PendingStageable == Stageable(state, verdicts, pending)

(***************************************************************************)
(* A plan is good when it is kept, although it was made from what was read *)
(* before the request, and it stays good while the app runs, whatever      *)
(* notify_ready and the clock do in between (state.rs:159 and 411).  Not so*)
(* after a reset that reports an error, nor once a layer failed to load: a *)
(* block that runs out changes what is installed under a check, and        *)
(* notify_ready raises the floor to a layer that the plan was made without.*)
(***************************************************************************)
PendingIsGood ==
    [][/\ LoadsWhole /\ SeenIsLive
       /\ HasWork(pending')
       /\ pending' # pending \/ PendingStageable
       => \/ PendingStageable'
          \/ state' = Cleared(state) /\ verdicts' # verdicts]_pluginVars
=============================================================================
