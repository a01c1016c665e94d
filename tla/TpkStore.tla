------------------------------ MODULE TpkStore ------------------------------
(***************************************************************************)
(* crates/tpk-store: the layer pool, the three-state machine, the          *)
(* blacklist and the two files that hold them, as the plugin's setup and   *)
(* commands drive it (crates/tauri-plugin-tpk/src/lib.rs and state.rs).    *)
(*                                                                         *)
(* One process at a time owns the store and every operation holds its      *)
(* mutex, so operations do not interleave with each other.  They interleave*)
(* with the end of the process and with the loss of power: an operation is *)
(* a call that advances one file write at a time.                          *)
(***************************************************************************)
EXTENDS TpkRevisions

CONSTANTS
    Seeds,                    \* the packs of the bundled seed directory
    Batches,                  \* the sets of packs a channel offers together
    Corruptible,              \* packs that may fail to load
    LoadReasons,              \* reasons such a failure is recorded under
    MaxWatermark, MaxEpoch,   \* bounds on what channels carry
    MaxClock,                 \* bound on the wall clock
    MaxFaults,                \* bound on failed writes of state and blacklist
    FlushedBeforeOpen         \* whether renames reach the medium before a restart

ASSUME StoreAssumption ==
    /\ Seeds \subseteq Packs
    /\ Batches \subseteq (SUBSET Packs) \ {{}}
    /\ LoadReasons \subseteq Reasons
    /\ MaxWatermark \in Nat
    /\ MaxEpoch \in Nat \ {0}
    /\ MaxClock \in Nat
    /\ MaxFaults \in Nat
    /\ FlushedBeforeOpen \in BOOLEAN

VARIABLES
    state, verdicts,     \* Store.state and Store.blacklist in memory
    statePending,        \* Store.state_write_pending
    verdictsPending,     \* Store.blacklist_pending
    persisted,           \* Store.state_persisted
    visible,             \* state.json and blacklist.json as a read finds them
    durable,             \* the same as a loss of power would leave them
    pool, durablePool,   \* the files of layers/, likewise
    phase,               \* how far the launch is
    call,                \* the operation in progress
    runtime,             \* Store.runtime_layers
    unrecorded,          \* failed layers setup has still to record
    faults               \* failed writes so far

memory == <<state, verdicts, statePending, verdictsPending, persisted>>
disk == <<visible, durable>>
layerFiles == <<pool, durablePool>>
process == <<phase, call, runtime, unrecorded>>
vars == <<memory, disk, layerFiles, process, now, faults>>

-----------------------------------------------------------------------------
(***************************************************************************)
(* File writes.  write_via_temp writes and syncs a temporary file, renames *)
(* it and syncs the directory: it may fail before the rename, or after it  *)
(* with the new bytes visible ("unsynced"), or succeed, which also makes   *)
(* every earlier rename in that directory durable.  A process killed       *)
(* between the rename and the sync is "unsynced" followed by Kill.         *)
(***************************************************************************)
WriteOutcomes == {"ok", "unsynced", "failed"}

\* Mutant: the directory is not synced after the rename.
WriteRootUnsynced(new, outcome) ==
    /\ outcome # "ok" => faults < MaxFaults
    /\ visible' = IF outcome = "failed" THEN visible ELSE new
    /\ durable' = durable
    /\ faults' = IF outcome = "ok" THEN faults ELSE faults + 1

WriteRoot(new, outcome) ==
    /\ outcome # "ok" => faults < MaxFaults
    /\ visible' = IF outcome = "failed" THEN visible ELSE new
    /\ durable' = IF outcome = "ok" THEN new ELSE durable
    /\ faults' = IF outcome = "ok" THEN faults ELSE faults + 1

WriteState(s, outcome) == WriteRoot([visible EXCEPT !.state = s], outcome)
WriteBlacklist(vs, outcome) == WriteRoot([visible EXCEPT !.verdicts = vs], outcome)

\* Mutant: the directory is synced only when a pack was written.
SyncedIfWritten(batch) == IF batch \subseteq pool THEN durablePool ELSE pool \cup batch

\* write_revision stores every pack, then syncs layers/ whether or not it
\* had to write one: a file left by a failed attempt is reused unwritten.
SyncedLayers(batch) == pool \cup batch
StoreLayers(batch) ==
    /\ pool' = pool \cup batch
    /\ durablePool' = SyncedLayers(batch)

\* write_revision stops early: some packs are stored, and at most the last of
\* them was renamed and not synced.
StoreSomeLayers(batch) ==
    \E whole \in SUBSET (batch \ pool) :
        \E last \in SUBSET ((batch \ pool) \ whole) :
            /\ Cardinality(last) <= 1
            /\ pool' = pool \cup whole \cup last
            /\ durablePool' = IF whole = {} THEN durablePool ELSE pool \cup whole

-----------------------------------------------------------------------------
(***************************************************************************)
(* Transactions.  transaction_with_order computes a candidate, writes what *)
(* changed, and publishes the candidate in memory.  boot saves the         *)
(* blacklist first; every other operation saves the state first.           *)
(***************************************************************************)
Ops == {"seed", "boot", "commit", "stage", "reset", "observe", "record", "error"}
Steps == {"condemn", "state", "verdicts", "publish", "trailing", "gc"}

Calls == [op : Ops, step : Steps, state : States, verdicts : [Releases -> Verdict]]
NoCall == [op |-> "none", step |-> "none", state |-> NewState, verdicts |-> NoVerdicts]

StateChanged(s) == s # state
VerdictsChanged(vs) == vs # verdicts

\* The write after the state has been dealt with.
StepAfterState(op, s, vs) ==
    IF op # "boot" /\ VerdictsChanged(vs) /\ ~StateChanged(s) THEN "verdicts" ELSE "publish"

\* A staged revision differs from every other by its number.
StepAfterCondemn(op, s, vs) ==
    IF op = "stage" \/ StateChanged(s) \/ statePending \/ ~persisted THEN "state"
    ELSE StepAfterState(op, s, vs)

\* Mutant: boot saves the state first, as every other operation does.
FirstStepStateFirst(op, s, vs) == StepAfterCondemn(op, s, vs)

FirstStep(op, s, vs) ==
    IF op = "boot" /\ VerdictsChanged(vs) THEN "condemn" ELSE StepAfterCondemn(op, s, vs)

Begin(op, s, vs) ==
    /\ call = NoCall
    /\ ~verdictsPending
    /\ call' = [op |-> op, step |-> FirstStep(op, s, vs), state |-> s, verdicts |-> vs]

Advance(step) == call' = [call EXCEPT !.step = step]

\* The process no longer has a store: it ended, or setup gave up on it.
Forget ==
    /\ state' = NewState
    /\ verdicts' = NoVerdicts
    /\ statePending' = FALSE
    /\ verdictsPending' = FALSE
    /\ persisted' = FALSE
    /\ phase' = "down"
    /\ call' = NoCall
    /\ runtime' = {}
    /\ unrecorded' = {}

\* A write failed: nothing is published.  Setup survives a seed that failed,
\* and leaves the plugin inert for this launch when boot fails.
GiveUp(pendingState) ==
    IF call.op = "boot" THEN Forget
    ELSE /\ call' = NoCall
         /\ phase' = IF call.op = "seed" THEN "seeded" ELSE phase
         /\ statePending' = pendingState
         /\ UNCHANGED <<state, verdicts, verdictsPending, persisted, runtime, unrecorded>>

\* boot: the condemnations are durable before the trial they judge is dropped,
\* and hold in memory even if the state write then fails.
SaveCondemned ==
    /\ call.step = "condemn"
    /\ \E outcome \in WriteOutcomes :
        /\ WriteBlacklist(call.verdicts, outcome)
        /\ \/ /\ outcome = "ok"
              /\ verdicts' = call.verdicts
              /\ Advance(StepAfterCondemn(call.op, call.state, call.verdicts))
              /\ UNCHANGED <<state, statePending, verdictsPending, persisted,
                             phase, runtime, unrecorded>>
           \/ outcome # "ok" /\ GiveUp(statePending)
    /\ UNCHANGED <<layerFiles, now>>

\* A failed write may have left the new bytes visible, so it is repeated by
\* the next transaction whatever that changes.
SaveState ==
    /\ call.step = "state"
    /\ \E outcome \in WriteOutcomes :
        /\ WriteState(call.state, outcome)
        /\ \/ /\ outcome = "ok"
              /\ statePending' = FALSE
              /\ persisted' = TRUE
              /\ Advance(StepAfterState(call.op, call.state, call.verdicts))
              /\ UNCHANGED <<state, verdicts, verdictsPending, phase, runtime, unrecorded>>
           \/ outcome # "ok" /\ GiveUp(TRUE)
    /\ UNCHANGED <<layerFiles, now>>

\* Only the blacklist changed.
SaveVerdicts ==
    /\ call.step = "verdicts"
    /\ \E outcome \in WriteOutcomes :
        /\ WriteBlacklist(call.verdicts, outcome)
        /\ \/ outcome = "ok" /\ Advance("publish")
                /\ UNCHANGED <<memory, phase, runtime, unrecorded>>
           \/ outcome # "ok" /\ GiveUp(statePending)
    /\ UNCHANGED <<layerFiles, now>>

\* What follows a transaction that returned Ok.
Return ==
    \/ /\ call.op \in {"commit", "reset"}
       /\ Advance("gc")
       /\ UNCHANGED <<phase, runtime>>
    \/ /\ call.op = "boot"
       /\ call' = NoCall
       /\ phase' = "booted"
       /\ runtime' = Live(call.state, call.verdicts)
    \/ /\ call.op = "seed"
       /\ call' = NoCall
       /\ phase' = "seeded"
       /\ UNCHANGED runtime
    \/ /\ call.op \in Ops \ {"commit", "reset", "boot", "seed"}
       /\ call' = NoCall
       /\ UNCHANGED <<phase, runtime>>

\* When both files changed, the blacklist follows the published state, and a
\* failure to save it is retried instead of undoing the state.
Publish ==
    /\ call.step = "publish"
    /\ state' = call.state
    /\ verdicts' = call.verdicts
    /\ IF call.op # "boot" /\ StateChanged(call.state) /\ VerdictsChanged(call.verdicts)
       THEN /\ verdictsPending' = TRUE
            /\ Advance("trailing")
            /\ UNCHANGED <<phase, runtime>>
       ELSE Return /\ UNCHANGED verdictsPending
    /\ UNCHANGED <<statePending, persisted, disk, layerFiles, unrecorded, now, faults>>

SaveTrailingVerdicts ==
    /\ call.step = "trailing"
    /\ \E outcome \in WriteOutcomes :
        /\ WriteBlacklist(call.verdicts, outcome)
        /\ \/ /\ outcome = "ok"
              /\ verdictsPending' = FALSE
              /\ Return
              /\ UNCHANGED <<state, verdicts, statePending, persisted, unrecorded>>
           \/ outcome # "ok" /\ GiveUp(statePending)
    /\ UNCHANGED <<layerFiles, now>>

\* The next transaction starts by saving the blacklist it still owes.
RetryVerdicts ==
    /\ call = NoCall
    /\ verdictsPending
    /\ \E outcome \in WriteOutcomes :
        /\ WriteBlacklist(verdicts, outcome)
        /\ verdictsPending' = (outcome # "ok")
    /\ UNCHANGED <<state, verdicts, statePending, persisted, layerFiles, process, now>>

\* Mutant: the collector forgets the running resolver.
GarbageOfRunning == IF statePending THEN {} ELSE pool \ Referenced(state)

\* gc removes what neither a revision nor the running resolver needs.  It can
\* be interrupted, and it ignores a file it cannot remove.
Garbage == IF statePending THEN {} ELSE pool \ (Referenced(state) \cup runtime)

CollectGarbage ==
    /\ call.step = "gc"
    /\ \E removed \in SUBSET Garbage :
        /\ pool' = pool \ removed
        /\ durablePool' = durablePool \ removed
    /\ call' = NoCall
    /\ UNCHANGED <<memory, disk, phase, runtime, unrecorded, now, faults>>

-----------------------------------------------------------------------------
(***************************************************************************)
(* A launch: open, seed, boot, load the layers, record those that failed.  *)
(***************************************************************************)
Open ==
    /\ phase = "down"
    /\ FlushedBeforeOpen => visible = durable /\ pool = durablePool
    /\ LET onDisk == visible.state
           read   == IF onDisk = NoState THEN NewState ELSE onDisk
           filled == BackfillVersionFloor(read, visible.verdicts)
       IN  /\ state' = filled
           /\ verdicts' = visible.verdicts
           /\ persisted' = (onDisk # NoState)
           /\ \/ filled = read /\ UNCHANGED <<disk, faults>>
              \/ filled # read /\ \E outcome \in WriteOutcomes : WriteState(filled, outcome)
    /\ phase' = "opened"
    /\ UNCHANGED <<statePending, verdictsPending, layerFiles, call, runtime,
                   unrecorded, now>>

SeedNotNeeded ==
    /\ phase = "opened"
    /\ call = NoCall
    /\ state.committed # NoRev \/ Seeds = {}
    /\ phase' = "seeded"
    /\ UNCHANGED <<memory, disk, layerFiles, call, runtime, unrecorded, now, faults>>

\* A seed is committed at once and on top of whatever is active.
Seeded == RaiseVersionFloor(
            [state EXCEPT !.committed = Revision(state, verdicts, Seeds),
                          !.pointer = "committed"])

SeedIfAbsent ==
    /\ phase = "opened"
    /\ state.committed = NoRev
    /\ Seeds # {}
    /\ \/ /\ RevisionAccepted(state, verdicts, Seeds)
          /\ StoreLayers(Seeds)
          /\ Begin("seed", Seeded, verdicts)
          /\ UNCHANGED phase
       \/ /\ call = NoCall
          /\ StoreSomeLayers(Seeds)
          /\ phase' = "seeded"
          /\ UNCHANGED call
    /\ UNCHANGED <<memory, disk, runtime, unrecorded, now, faults>>

Boot ==
    /\ phase = "seeded"
    /\ LET vs == Condemn(verdicts, Condemned(state), "not_acknowledged", now)
       IN  Begin("boot", Promoted(Tried(state), vs), vs)
    /\ UNCHANGED <<memory, disk, layerFiles, phase, runtime, unrecorded, now, faults>>

\* A layer below the key epoch floor, or a missing one, cannot load; another
\* may turn out to be damaged.  A signature failure earns no strike.
Outdated == {p \in runtime : Meta[p].epoch < state.epoch}

LoadLayers ==
    /\ phase = "booted"
    /\ \E damaged \in SUBSET (runtime \cap Corruptible) :
        LET failed == damaged \cup (runtime \ pool)
        IN  /\ runtime' = runtime \ (failed \cup Outdated)
            /\ unrecorded' = failed
    /\ phase' = "running"
    /\ UNCHANGED <<memory, disk, layerFiles, call, now, faults>>

\* setup ignores the outcome of recording a failure.
RecordFailure ==
    /\ phase = "running"
    /\ \E p \in unrecorded, reason \in LoadReasons :
        /\ Begin("record", state, Record(verdicts, Release(p), reason, now))
        /\ unrecorded' = unrecorded \ {p}
    /\ UNCHANGED <<memory, disk, layerFiles, phase, runtime, now, faults>>

-----------------------------------------------------------------------------
(***************************************************************************)
(* Operations of a running process.                                        *)
(***************************************************************************)
Ready == phase = "running" /\ unrecorded = {}

OnlyBegins == UNCHANGED <<memory, disk, layerFiles, phase, runtime, unrecorded, now, faults>>

NotifyReady ==
    /\ Ready
    /\ Begin("commit", Acknowledged(state), verdicts)
    /\ OnlyBegins

\* A plan asks for packs newer than what is installed.
Offered(batch) ==
    /\ batch \in Batches
    /\ ~Degraded(state)
    /\ \A q \in batch : \A p \in InstalledLayers(state, verdicts) :
          Meta[p].id = Meta[q].id => Meta[p].ver < Meta[q].ver

Stage(batch) ==
    /\ Ready
    /\ Offered(batch)
    /\ ~\E p \in batch : Blocks(verdicts, p)
    /\ \/ /\ RevisionAccepted(state, verdicts, batch)
          /\ FloorsReached(state, Revision(state, verdicts, batch), batch)
          /\ StoreLayers(batch)
          /\ Begin("stage", [state EXCEPT !.staged = Revision(state, verdicts, batch),
                                          !.lastError = "none"], verdicts)
       \/ call = NoCall /\ ~verdictsPending /\ StoreSomeLayers(batch) /\ UNCHANGED call
    /\ UNCHANGED <<memory, disk, phase, runtime, unrecorded, now, faults>>

Reset(clearBlacklist) ==
    /\ Ready
    /\ Begin("reset", Cleared(state), IF clearBlacklist THEN NoVerdicts ELSE verdicts)
    /\ OnlyBegins

\* A channel manifest was accepted: its watermark and key epoch only rise.
ObserveChannel(watermark, epoch) ==
    /\ Ready
    /\ watermark >= state.watermark
    /\ epoch >= state.epoch
    /\ Begin("observe", [state EXCEPT !.watermark = Larger(@, watermark),
                                      !.epoch = Larger(@, epoch),
                                      !.lastError = "none"], verdicts)
    /\ OnlyBegins

RecordLastError(code) ==
    /\ Ready
    /\ state.lastError # code
    /\ Begin("error", [state EXCEPT !.lastError = code], verdicts)
    /\ OnlyBegins

-----------------------------------------------------------------------------
(***************************************************************************)
(* The environment.                                                        *)
(***************************************************************************)
Kill ==
    /\ phase # "down"
    /\ Forget
    /\ UNCHANGED <<disk, layerFiles, now, faults>>

PowerLoss ==
    /\ Forget
    /\ visible' = durable
    /\ pool' = durablePool
    /\ UNCHANGED <<durable, durablePool, now, faults>>

\* The kernel writes a rename back on its own.
WriteBack ==
    /\ \/ durable' = [durable EXCEPT !.state = visible.state] /\ UNCHANGED durablePool
       \/ durable' = [durable EXCEPT !.verdicts = visible.verdicts] /\ UNCHANGED durablePool
       \/ durablePool' = pool /\ UNCHANGED durable
    /\ UNCHANGED <<memory, visible, pool, process, now, faults>>

Tick ==
    /\ now < MaxClock
    /\ call = NoCall
    /\ now' = now + 1
    /\ UNCHANGED <<memory, disk, layerFiles, process, faults>>

-----------------------------------------------------------------------------
Init ==
    /\ state = NewState
    /\ verdicts = NoVerdicts
    /\ statePending = FALSE
    /\ verdictsPending = FALSE
    /\ persisted = FALSE
    /\ visible = [state |-> NoState, verdicts |-> NoVerdicts]
    /\ durable = visible
    /\ pool = {}
    /\ durablePool = {}
    /\ phase = "down"
    /\ call = NoCall
    /\ runtime = {}
    /\ unrecorded = {}
    /\ now = 0
    /\ faults = 0

Launch == Open \/ SeedNotNeeded \/ SeedIfAbsent \/ Boot \/ LoadLayers \/ RecordFailure

Operation ==
    \/ NotifyReady
    \/ \E batch \in Batches : Stage(batch)
    \/ \E clearBlacklist \in BOOLEAN : Reset(clearBlacklist)
    \/ \E w \in 0 .. MaxWatermark, e \in 1 .. MaxEpoch : ObserveChannel(w, e)
    \/ \E code \in ErrorCodes : RecordLastError(code)

Progress == SaveCondemned \/ SaveState \/ SaveVerdicts \/ Publish
            \/ SaveTrailingVerdicts \/ RetryVerdicts \/ CollectGarbage

Environment == Kill \/ PowerLoss \/ WriteBack \/ Tick

Next == Launch \/ Operation \/ Progress \/ Environment

Spec == Init /\ [][Next]_vars

-----------------------------------------------------------------------------
MemoryOK ==
    /\ state \in States
    /\ verdicts \in [Releases -> Verdict]
    /\ statePending \in BOOLEAN
    /\ verdictsPending \in BOOLEAN
    /\ persisted \in BOOLEAN

RootFiles == [state : States \cup {NoState}, verdicts : [Releases -> Verdict]]

DiskOK ==
    /\ visible \in RootFiles
    /\ durable \in RootFiles
    /\ faults \in 0 .. MaxFaults

LayerFilesOK ==
    /\ pool \in SUBSET Packs
    /\ durablePool \in SUBSET Packs

ProcessOK ==
    /\ phase \in {"down", "opened", "seeded", "booted", "running"}
    /\ call \in Calls \cup {NoCall}
    /\ runtime \in SUBSET Packs
    /\ unrecorded \in SUBSET Packs

\* Every variable holds what its file or field can hold.
TypeOK == MemoryOK /\ DiskOK /\ LayerFilesOK /\ ProcessOK /\ now \in 0 .. MaxClock

(***************************************************************************)
(* Any state.json that a later launch can read, whether the process was    *)
(* killed or power was lost at any point of any operation, names only      *)
(* packs whose files that launch finds in the pool.  This is what the      *)
(* directory syncs of write_revision, the order layers-then-state and the  *)
(* root set of gc are for (store.rs:471, 578 and 768).  Holds under        *)
(* FlushedBeforeOpen: without it a launch may read a state whose rename    *)
(* was never flushed, and the collection after a notify_ready that changes *)
(* nothing takes what the state on the medium still names.                 *)
(***************************************************************************)
ReadableStateResolves ==
    /\ Referenced(visible.state) \subseteq durablePool
    /\ Referenced(durable.state) \subseteq durablePool
    /\ durablePool \subseteq pool

(***************************************************************************)
(* gc never takes a file from under the running resolver, nor one that the *)
(* state in memory or the candidate being written needs.  Holds under      *)
(* FlushedBeforeOpen, as ReadableStateResolves does.                       *)
(***************************************************************************)
NeededLayersPresent ==
    phase # "down" => Referenced(state) \cup Referenced(call.state) \cup runtime \subseteq pool

(***************************************************************************)
(* Why the two hold.  Everything the store may still write, publish or     *)
(* serve is flushed to the pool; and once no write is in doubt, what the   *)
(* files on disk name is among what the collector keeps.                   *)
(***************************************************************************)
Covers(s) == Referenced(visible.state) \cup Referenced(durable.state) \subseteq Referenced(s)

StateWritten == call.step \in {"verdicts", "publish", "trailing", "gc"}

PoolAccounted ==
    /\ ReadableStateResolves
    /\ phase = "down" => call = NoCall /\ runtime = {}
    /\ phase # "down" =>
          Referenced(state) \cup Referenced(call.state) \cup runtime \subseteq durablePool
    /\ call.step \in {"verdicts", "trailing", "gc"} => call.state = state
    /\ phase # "down" /\ ~statePending =>
          Covers(IF StateWritten THEN call.state ELSE state)

(***************************************************************************)
(* A rollback condemns what the trial brought and never a layer of the     *)
(* revision it falls back to (store.rs:300).                               *)
(***************************************************************************)
RollbackSparesCommitted ==
    [][call.op = "boot" /\ phase' # "down" =>
         \A p \in Layers(state.committed) :
            IsActive(verdicts'[Release(p)], now) => IsActive(verdicts[Release(p)], now)]_vars

(***************************************************************************)
(* check_parents looks only at incoming packs, since inherited layers      *)
(* passed when they were staged (store.rs:833).  Within one TTL a revision *)
(* that holds a patch without the pack it was made for is therefore one    *)
(* whose base the blacklist took away (store.rs:747), never one that       *)
(* lost it to a replacement, a rollback or a crash.                        *)
(***************************************************************************)
WithoutParent(rev) ==
    {p \in Layers(rev) : Meta[p].parent # NoPack /\ Meta[p].parent \notin Layers(rev)}

StacksClosed ==
    now < TransientTtl =>
        \A rev \in {state.staged, state.booting, state.committed} :
            \A p \in WithoutParent(rev) : Blocks(verdicts, Meta[p].parent)

(***************************************************************************)
(* A patch whose parent is missing is not applied on its own               *)
(* (spec/tpk-v1.md:341): no revision the store writes holds one.          *)
(***************************************************************************)
PatchesNeverAlone ==
    \A rev \in {state.staged, state.booting, state.committed} : WithoutParent(rev) = {}

-----------------------------------------------------------------------------
(***************************************************************************)
(* Fairness.  The app is closed and started again for ever, and a launch   *)
(* that is interrupted again and again is completed some day.              *)
(***************************************************************************)
Fairness ==
    /\ WF_vars(Kill)
    /\ WF_vars(WriteBack)
    /\ SF_vars(Open)
    /\ SF_vars(SeedNotNeeded)
    /\ SF_vars(SeedIfAbsent)
    /\ SF_vars(Boot)
    /\ SF_vars(SaveCondemned)
    /\ SF_vars(SaveState)
    /\ SF_vars(Publish)

FairSpec == Spec /\ Fairness

(***************************************************************************)
(* No revision stays on trial for ever: it is acknowledged, rolled back or *)
(* forgotten, whatever writes fail and wherever the launches are cut.      *)
(***************************************************************************)
TrialEnds ==
    \A rev \in Revisions :
        (OnTrial(visible.state) /\ visible.state.booting = rev)
            ~> ~(OnTrial(visible.state) /\ visible.state.booting = rev)

=============================================================================
