-------------------------- MODULE TpkVerdictProofs --------------------------
(***************************************************************************)
(* Proofs about the blacklist in use and about what becomes of revisions,  *)
(* for every set of packs and every pattern of failed writes, kills and    *)
(* losses of power: what a rollback condemns and spares; that a permanent  *)
(* verdict keeps its release from loading; within one TTL, that a release  *)
(* whose trial was rolled back is not served again, that a patch is without*)
(* its parent only where the blacklist took the parent, and what an        *)
(* acknowledgement can move a pack id to; and that the store implements    *)
(* TpkLifecycle.                                                           *)
(***************************************************************************)
EXTENDS TpkStoreRefines, TpkStoreProofs

-----------------------------------------------------------------------------
(***************************************************************************)
(* What recording and condemning do to verdicts.                           *)
(***************************************************************************)
Permanent(vs) == {r \in Releases : vs[r].reason \in PermanentReasons}

LEMMA PruneKeepsPermanent ==
    ASSUME NEW vs \in [Releases -> Verdict], NEW t \in Nat
    PROVE  /\ Prune(vs, t) \in [Releases -> Verdict]
           /\ Permanent(Prune(vs, t)) = Permanent(vs)
           /\ \A r \in Releases : IsActive(Prune(vs, t)[r], t) => IsActive(vs[r], t)
<1>1. Prune(vs, t) \in [Releases -> Verdict]
    BY PruneType
<1>2. \A r \in Releases : Prune(vs, t)[r] = IF OutOfTime(vs[r], t) THEN Absent ELSE vs[r]
    BY DEF Prune
<1>3. \A r \in Releases : OutOfTime(vs[r], t) => vs[r].reason \notin PermanentReasons
    BY DEF OutOfTime, TransientReasons, PermanentReasons
<1>4. Absent.reason \notin PermanentReasons
    BY DEF Absent, PermanentReasons
<1>5. Permanent(Prune(vs, t)) = Permanent(vs)
    BY <1>2, <1>3, <1>4 DEF Permanent
<1>6. \A r \in Releases : IsActive(Prune(vs, t)[r], t) => IsActive(vs[r], t)
    BY <1>2 DEF IsActive
<1>. QED  BY <1>1, <1>5, <1>6

LEMMA StrikeKeepsPermanent ==
    ASSUME NEW v \in Verdict, NEW reason \in Reasons, NEW t \in Nat
    PROVE  /\ v.reason \in PermanentReasons => Strike(v, reason, t).reason \in PermanentReasons
           /\ reason \notin PermanentReasons /\ v.reason \notin PermanentReasons
                => Strike(v, reason, t).reason \notin PermanentReasons
<1>1. CASE v = Absent
    <2>1. Strike(v, reason, t).reason = reason /\ v.reason = "none"
        BY <1>1 DEF Strike, Absent
    <2>. QED  BY <2>1 DEF PermanentReasons
<1>2. CASE v # Absent
    <2>1. Strike(v, reason, t).reason = IF reason \in PermanentReasons THEN reason ELSE v.reason
        BY <1>2 DEF Strike
    <2>. QED  BY <2>1
<1>. QED  BY <1>1, <1>2

\* A record adds at most the release it is about.
LEMMA RecordPermanent ==
    ASSUME NEW vs \in [Releases -> Verdict], NEW r \in Releases,
           NEW reason \in Reasons, NEW t \in Nat
    PROVE  /\ Permanent(vs) \subseteq Permanent(Record(vs, r, reason, t))
           /\ Permanent(Record(vs, r, reason, t)) \subseteq Permanent(vs) \cup {r}
<1>. DEFINE pruned == Prune(vs, t)  new == Record(vs, r, reason, t)
<1>1. pruned \in [Releases -> Verdict] /\ Permanent(pruned) = Permanent(vs)
    BY PruneKeepsPermanent
<1>2. new = [pruned EXCEPT ![r] = Strike(pruned[r], reason, t)]
    BY DEF Record
<1>. HIDE DEF pruned, new
<1>3. /\ new[r] = Strike(pruned[r], reason, t)
      /\ \A q \in Releases : q # r => new[q] = pruned[q]
    BY <1>1, <1>2
<1>4. pruned[r].reason \in PermanentReasons => new[r].reason \in PermanentReasons
    BY <1>1, <1>3, StrikeKeepsPermanent
<1>5. Permanent(pruned) \subseteq Permanent(new) /\ Permanent(new) \subseteq Permanent(pruned) \cup {r}
    BY <1>3, <1>4 DEF Permanent
<1>. QED  BY <1>1, <1>5 DEF new

\* A rollback makes no verdict permanent, and touches no other release.
LEMMA CondemnPermanent ==
    ASSUME NEW vs \in [Releases -> Verdict], NEW rs, NEW t \in Nat
    PROVE  /\ Permanent(Condemn(vs, rs, "not_acknowledged", t)) = Permanent(vs)
           /\ \A r \in Releases \ rs :
                IsActive(Condemn(vs, rs, "not_acknowledged", t)[r], t) => IsActive(vs[r], t)
<1>. DEFINE pruned == Prune(vs, t)  new == Condemn(vs, rs, "not_acknowledged", t)
<1>1. CASE rs = {}
    BY <1>1 DEF Condemn
<1>2. CASE rs # {}
    <2>1. /\ pruned \in [Releases -> Verdict] /\ Permanent(pruned) = Permanent(vs)
          /\ \A r \in Releases : IsActive(pruned[r], t) => IsActive(vs[r], t)
        BY PruneKeepsPermanent
    <2>2. \A r \in Releases : new[r] =
                IF r \in rs
                THEN [Strike(pruned[r], "not_acknowledged", t) EXCEPT !.count = TransientStrikes]
                ELSE pruned[r]
        BY <1>2 DEF Condemn
    <2>. HIDE DEF pruned, new
    <2>3. \A r \in Releases \ rs : new[r] = pruned[r]
        BY <2>2
    <2>4. ASSUME NEW r \in Releases, r \in rs
          PROVE  new[r].reason \in PermanentReasons <=> pruned[r].reason \in PermanentReasons
        <3>1. "not_acknowledged" \in Reasons /\ "not_acknowledged" \notin PermanentReasons
            BY DEF Reasons, TransientReasons, PermanentReasons
        <3>2. pruned[r] \in Verdict
            BY <2>1
        <3>3. Strike(pruned[r], "not_acknowledged", t) \in Entries
            BY <3>1, <3>2, StrikeType
        <3>4. new[r].reason = Strike(pruned[r], "not_acknowledged", t).reason
            BY <2>2, <2>4, <3>3 DEF Entries
        <3>. QED  BY <3>1, <3>2, <3>4, StrikeKeepsPermanent
    <2>5. Permanent(new) = Permanent(pruned)
        BY <2>3, <2>4 DEF Permanent
    <2>6. \A r \in Releases \ rs : IsActive(new[r], t) => IsActive(vs[r], t)
        BY <2>1, <2>3
    <2>. QED  BY <2>1, <2>5, <2>6 DEF new
<1>. QED  BY <1>1, <1>2

\* A launch loads nothing that is barred.
LEMMA LiveSpared ==
    ASSUME NEW s \in States, NEW vs \in [Releases -> Verdict], NEW p \in Live(s, vs)
    PROVE  Release(p) \in Releases \ Permanent(vs)
<1>1. p \in Packs /\ Release(p) \in Releases
    BY LayersType, ReleaseType DEF Live
<1>2. ~IsActive(vs[Release(p)], now)
    BY DEF Live, Blocks
<1>3. Absent.reason \notin PermanentReasons
    BY DEF Absent, PermanentReasons
<1>. QED  BY <1>1, <1>2, <1>3 DEF IsActive, Permanent

LEMMA NothingBarred == Permanent(NoVerdicts) = {}
BY DEF Permanent, NoVerdicts, Absent, PermanentReasons

-----------------------------------------------------------------------------
(***************************************************************************)
(* Rollbacks.  While boot is in progress, what it is about to put on the   *)
(* blacklist blocks no layer of the committed revision.                    *)
(***************************************************************************)
SparesInv ==
    /\ phase = "down" => call = NoCall
    /\ call.op = "boot" =>
         \A p \in Layers(state.committed) :
            IsActive(call.verdicts[Release(p)], now) => IsActive(verdicts[Release(p)], now)

\* In a launch that goes on, boot changes the verdicts to its candidate's.
LEMMA BootVerdicts ==
    ASSUME TypeOK, SparesInv, [Next]_vars, call.op = "boot", phase' # "down"
    PROVE  /\ verdicts' \in {verdicts, call.verdicts}
           /\ call' = NoCall \/ (/\ call'.op = "boot" /\ call'.verdicts = call.verdicts
                                 /\ state' = state /\ now' = now)
<1>1. call # NoCall /\ phase # "down" /\ call \in Calls
    BY DEF NoCall, SparesInv, TypeOK, ProcessOK
<1>2. CASE UNCHANGED vars
    BY <1>2 DEF vars, memory, process
<1>3. CASE Launch
    BY <1>1, <1>3
    DEF Launch, Open, SeedNotNeeded, SeedIfAbsent, Boot, LoadLayers, RecordFailure, Begin, memory
<1>4. CASE Operation
    BY <1>1, <1>4
    DEF Operation, NotifyReady, Stage, Reset, ObserveChannel, RecordLastError, Begin
<1>5. CASE Progress
    <2>1. CASE SaveCondemned
        BY <1>1, <2>1 DEF SaveCondemned, GiveUp, Forget, Advance, Calls
    <2>2. CASE SaveState
        BY <1>1, <2>2 DEF SaveState, GiveUp, Forget, Advance, Calls
    <2>3. CASE SaveVerdicts
        BY <1>1, <2>3 DEF SaveVerdicts, GiveUp, Forget, Advance, Calls, memory
    <2>4. CASE Publish
        BY <2>4 DEF Publish, Return
    <2>5. CASE SaveTrailingVerdicts
        BY <2>5 DEF SaveTrailingVerdicts, Return, GiveUp, Forget
    <2>6. CASE RetryVerdicts
        BY <1>1, <2>6 DEF RetryVerdicts
    <2>7. CASE CollectGarbage
        BY <2>7 DEF CollectGarbage, memory
    <2>. QED  BY <1>5, <2>1, <2>2, <2>3, <2>4, <2>5, <2>6, <2>7 DEF Progress
<1>6. CASE Environment
    BY <1>1, <1>6 DEF Environment, Kill, PowerLoss, WriteBack, Tick, Forget, memory, process
<1>. QED  BY <1>2, <1>3, <1>4, <1>5, <1>6 DEF Next

\* No step starts a boot but Boot, and nothing but Forget takes a store down.
LEMMA BootBegins ==
    ASSUME TypeOK, SparesInv, Next, call.op # "boot"
    PROVE  call'.op # "boot" \/ Boot
<1>1. NoCall.op # "boot"
    BY DEF NoCall
<1>2. CASE Launch
    BY <1>1, <1>2
    DEF Launch, Open, SeedNotNeeded, SeedIfAbsent, LoadLayers, RecordFailure, Begin
<1>3. CASE Operation
    <2>1. \A op, s, vs : Begin(op, s, vs) => call'.op = op
        BY DEF Begin
    <2>2. NotifyReady => call'.op = "commit"
        BY <2>1 DEF NotifyReady
    <2>3. \A batch \in Batches : Stage(batch) => call'.op = "stage" \/ call' = call
        BY <2>1 DEF Stage
    <2>4. \A clear \in BOOLEAN : Reset(clear) => call'.op = "reset"
        BY <2>1 DEF Reset
    <2>5. \A w, e : ObserveChannel(w, e) => call'.op = "observe"
        BY <2>1 DEF ObserveChannel
    <2>6. \A code : RecordLastError(code) => call'.op = "error"
        BY <2>1 DEF RecordLastError
    <2>. QED  BY <1>3, <2>2, <2>3, <2>4, <2>5, <2>6 DEF Operation
<1>4. CASE Progress
    <2>1. CASE call \in Calls
        <3>1. \A step : Advance(step) => call'.op = call.op
            BY <2>1 DEF Advance, Calls
        <3>2. \A b : GiveUp(b) => call' = NoCall
            BY DEF GiveUp, Forget
        <3>3. Return => call'.op = call.op \/ call' = NoCall
            BY <3>1 DEF Return
        <3>. QED
            BY <1>1, <1>4, <3>1, <3>2, <3>3
            DEF Progress, SaveCondemned, SaveState, SaveVerdicts, Publish, SaveTrailingVerdicts,
                RetryVerdicts, CollectGarbage, process
    <2>2. CASE call = NoCall
        BY <1>1, <1>4, <2>2
        DEF Progress, SaveCondemned, SaveState, SaveVerdicts, Publish, SaveTrailingVerdicts,
            RetryVerdicts, CollectGarbage, process, NoCall
    <2>. QED  BY <2>1, <2>2 DEF TypeOK, ProcessOK
<1>5. CASE Environment
    BY <1>1, <1>5 DEF Environment, Kill, PowerLoss, WriteBack, Tick, Forget, process
<1>. QED  BY <1>2, <1>3, <1>4, <1>5 DEF Next

LEMMA DownIsIdle ==
    ASSUME TypeOK, SparesInv, Next, phase' = "down"
    PROVE  call' = NoCall
<1>1. NoCall.step = "none"
    BY DEF NoCall
<1>2. CASE Launch
    BY <1>2
    DEF Launch, Open, SeedNotNeeded, SeedIfAbsent, Boot, LoadLayers, RecordFailure, Begin, SparesInv
<1>3. CASE Operation
    BY <1>3
    DEF Operation, NotifyReady, Stage, Reset, ObserveChannel, RecordLastError, Begin, Ready,
        OnlyBegins
<1>4. CASE Progress
    <2>1. CASE phase = "down"
        BY <1>1, <1>4, <2>1
        DEF SparesInv, Progress, SaveCondemned, SaveState, SaveVerdicts, Publish,
            SaveTrailingVerdicts, RetryVerdicts, CollectGarbage, process
    <2>2. CASE phase # "down"
        BY <1>4, <2>2
        DEF Progress, SaveCondemned, SaveState, SaveVerdicts, Publish, Return, GiveUp, Forget,
            SaveTrailingVerdicts, RetryVerdicts, CollectGarbage, process
    <2>. QED  BY <2>1, <2>2
<1>5. CASE Environment
    BY <1>5 DEF Environment, Kill, PowerLoss, WriteBack, Tick, Forget, process, SparesInv
<1>. QED  BY <1>2, <1>3, <1>4, <1>5 DEF Next

LEMMA SparesInvKept ==
    ASSUME OneBuildEach, TypeOK, SparesInv, [Next]_vars
    PROVE  SparesInv'
<1>1. CASE UNCHANGED vars
    BY <1>1 DEF SparesInv, vars, memory, process, Layers
<1>2. CASE Next
    <2>1. (phase = "down" => call = NoCall)'
        BY <1>2, DownIsIdle
    <2>2. ASSUME call'.op = "boot", Boot
          PROVE  (\A p \in Layers(state.committed) :
                    IsActive(call.verdicts[Release(p)], now) => IsActive(verdicts[Release(p)], now))'
        <3>. DEFINE rs == Condemned(state)
                    vs == Condemn(verdicts, rs, "not_acknowledged", now)
        <3>1. state \in States /\ verdicts \in [Releases -> Verdict] /\ now \in Nat
            BY StoreAssumption DEF TypeOK, MemoryOK
        <3>2. call'.verdicts = vs /\ UNCHANGED <<state, verdicts, now>>
            BY <2>2 DEF Boot, Begin, memory
        <3>3. ASSUME NEW p \in Layers(state.committed) PROVE Release(p) \in Releases \ rs
            <4>1. p \in Packs /\ Release(p) \in Releases
                BY <3>1, LayersType, ReleaseType
            <4>2. ASSUME Release(p) \in rs PROVE FALSE
                <5>1. PICK q \in state.booting \ Layers(state.committed) : Release(p) = Release(q)
                    BY <4>2 DEF Condemned
                <5>2. OnTrial(state)
                    BY <4>2 DEF Condemned
                <5>3. q \in Packs
                    BY <3>1, <5>1, <5>2 DEF OnTrial, States, Revisions
                <5>. QED  BY <4>1, <5>1, <5>3 DEF OneBuildEach
            <4>. QED  BY <4>1, <4>2
        <3>4. \A r \in Releases \ rs : IsActive(vs[r], now) => IsActive(verdicts[r], now)
            BY <3>1, CondemnPermanent
        <3>. HIDE DEF rs, vs
        <3>5. Layers(state.committed)' = Layers(state.committed)
            BY <3>2 DEF Layers
        <3>6. \A p \in Layers(state.committed) :
                IsActive(call'.verdicts[Release(p)], now) => IsActive(verdicts[Release(p)], now)
            BY <3>2, <3>3, <3>4
        <3>. QED  BY <3>2, <3>5, <3>6
    <2>3. ASSUME call'.op = "boot", call.op = "boot"
          PROVE  (\A p \in Layers(state.committed) :
                    IsActive(call.verdicts[Release(p)], now) => IsActive(verdicts[Release(p)], now))'
        <3>1. phase' # "down"
            BY <2>1, <2>3 DEF NoCall
        <3>2. /\ verdicts' \in {verdicts, call.verdicts} /\ call'.verdicts = call.verdicts
              /\ state' = state /\ now' = now
            BY <2>3, <3>1, BootVerdicts DEF NoCall
        <3>3. Layers(state.committed)' = Layers(state.committed)
            BY <3>2 DEF Layers
        <3>4. \A p \in Layers(state.committed) :
                IsActive(call.verdicts[Release(p)], now) => IsActive(verdicts'[Release(p)], now)
            BY <2>3, <3>2 DEF SparesInv
        <3>. QED  BY <3>2, <3>3, <3>4
    <2>. QED  BY <1>2, <2>1, <2>2, <2>3, BootBegins DEF SparesInv
<1>. QED  BY <1>1, <1>2

(***************************************************************************)
(* A rollback never puts a layer of the revision it falls back to on the   *)
(* blacklist, at no step of the launch that rolls back (store.rs:300).     *)
(***************************************************************************)
THEOREM RollbackAlwaysSparesCommitted ==
    ASSUME OneBuildEach PROVE Spec => RollbackSparesCommitted
<1>1. Init => SparesInv
    BY DEF Init, SparesInv, NoCall
<1>2. TypeOK /\ SparesInv /\ [Next]_vars => SparesInv'
    BY SparesInvKept
<1>3. TypeOK /\ SparesInv /\ [Next]_vars =>
        [call.op = "boot" /\ phase' # "down" =>
            \A p \in Layers(state.committed) :
                IsActive(verdicts'[Release(p)], now) => IsActive(verdicts[Release(p)], now)]_vars
    BY BootVerdicts DEF SparesInv
<1>. QED  BY <1>1, <1>2, <1>3, TypeCorrect, PTL DEF Spec, RollbackSparesCommitted

-----------------------------------------------------------------------------
(***************************************************************************)
(* Barred releases.  Verdicts that bar are in both files and in memory, and*)
(* whatever replaces them in either holds them too, a reset excepted.      *)
(* Before the app runs, while a launch still records its failures, the     *)
(* files hold every verdict that memory has: that is why a failure whose   *)
(* verdict was there already need not be written again.  What the resolver *)
(* serves is apart from all of them and from what is still to be recorded. *)
(***************************************************************************)
Early == phase \in {"opened", "seeded", "booted"} \/ unrecorded # {} \/ call.op = "record"
Settling == IF call.step = "publish" THEN call.verdicts ELSE verdicts
OnDisk(vs) ==
    Permanent(vs) \subseteq Permanent(visible.verdicts) \cap Permanent(durable.verdicts)

CallShape ==
    /\ phase = "down" => call = NoCall /\ ~verdictsPending
    /\ call.op = "record" => call.state = state /\ ~verdictsPending
    /\ call.op = "boot" => phase = "seeded"
    /\ call.op = "seed" => phase = "opened"
    /\ call.op = "reset" => ~Early
    /\ call.step = "condemn" => call.op = "boot"
    /\ call.step = "trailing" => call.verdicts = verdicts
    /\ call.op # "record" => Permanent(call.verdicts) \subseteq Permanent(verdicts)
    /\ call # NoCall =>
          \/ Permanent(verdicts) \subseteq Permanent(call.verdicts)
          \/ call.op = "reset" /\ Permanent(call.verdicts) = {}

BarredHeld ==
    /\ barred \subseteq Permanent(visible.verdicts) \cap Permanent(durable.verdicts)
    /\ phase # "down" => barred \subseteq Permanent(verdicts)

Apart ==
    /\ phase \in {"down", "opened", "seeded"} => runtime = {} /\ unrecorded = {}
    /\ \A p \in runtime : Release(p) \notin Permanent(verdicts) \cup Permanent(call.verdicts)
    /\ \A p \in runtime, q \in unrecorded : Release(p) # Release(q)

FilesHold == Early /\ ~verdictsPending => OnDisk(Settling)

BarredInv == CallShape /\ BarredHeld /\ Apart /\ FilesHold

LEMMA OnlyRecordBars ==
    ASSUME RecordBarred,
           call.op # "record" \/ call.step # "publish" \/ phase' = "down" \/ call' = call
    PROVE  barred' \subseteq barred
BY DEF RecordBarred, Returning

LEMMA NoCallIsIdle ==
    /\ NoCall.op = "none" /\ NoCall.step = "none" /\ NoCall.state = NewState
    /\ Permanent(NoCall.verdicts) = {}
BY NothingBarred DEF NoCall

\* What a call writes holds what bars afterwards.
LEMMA WrittenHolds ==
    ASSUME BarredInv, RecordBarred, call # NoCall, call' # call,
           call.op # "record" \/ call.step # "publish"
    PROVE  barred' \subseteq Permanent(call.verdicts)
<1>1. barred' \subseteq barred /\ barred \subseteq Permanent(verdicts)
    BY OnlyRecordBars DEF BarredInv, CallShape, BarredHeld
<1>2. CASE Permanent(verdicts) \subseteq Permanent(call.verdicts)
    BY <1>1, <1>2
<1>3. CASE call.op = "reset"
    BY <1>1, <1>3 DEF RecordBarred, ResetRequested
<1>. QED  BY <1>2, <1>3 DEF BarredInv, CallShape

\* Steps that leave the verdicts, the files and the call as they were.
LEMMA QuietKeepsBarred ==
    ASSUME BarredInv, barred' \subseteq barred,
           verdicts' = verdicts, verdictsPending' = verdictsPending, call' = call,
           visible'.verdicts = visible.verdicts,
           durable'.verdicts = visible.verdicts \/ durable'.verdicts = durable.verdicts,
           call.op = "record" => state' = state,
           \/ phase' = phase
           \/ call = NoCall /\ phase = "opened" /\ phase' = "seeded",
           runtime' = runtime, unrecorded' = unrecorded
    PROVE  BarredInv'
<1>1. Early' => Early
    BY NoCallIsIdle DEF Early
<1>2. CallShape'
    BY <1>1, NoCallIsIdle DEF BarredInv, CallShape, Permanent
<1>3. BarredHeld'
    BY DEF BarredInv, BarredHeld, Permanent
<1>4. Apart'
    BY DEF BarredInv, Apart, Permanent
<1>5. FilesHold'
    BY <1>1 DEF BarredInv, FilesHold, OnDisk, Settling, Permanent
<1>. QED  BY <1>2, <1>3, <1>4, <1>5 DEF BarredInv

LEMMA ForgetKeepsBarred ==
    ASSUME Forget,
           barred' \subseteq Permanent(visible'.verdicts) \cap Permanent(durable'.verdicts)
    PROVE  BarredInv'
<1>1. /\ phase' = "down" /\ call' = NoCall /\ runtime' = {} /\ unrecorded' = {}
      /\ verdictsPending' = FALSE
    BY DEF Forget
<1>2. ~Early'
    BY <1>1, NoCallIsIdle DEF Early
<1>3. Permanent(call.verdicts)' = {}
    BY <1>1, NoCallIsIdle DEF Permanent
<1>. QED
    BY <1>1, <1>2, <1>3, NoCallIsIdle
    DEF BarredInv, CallShape, BarredHeld, Apart, FilesHold, Permanent

\* Beginning an operation.
LEMMA BeginKeepsBarred ==
    ASSUME BarredInv, RecordBarred,
           UNCHANGED <<memory, disk, phase, runtime>>, unrecorded' \subseteq unrecorded,
           phase # "down",
           NEW op, NEW s, NEW vs, Begin(op, s, vs),
           op = "record" => s = state /\ unrecorded # {},
           op = "boot" => phase = "seeded",
           op = "seed" => phase = "opened",
           op = "reset" => phase = "running" /\ unrecorded = {},
           op # "record" => Permanent(vs) \subseteq Permanent(verdicts),
           \/ Permanent(verdicts) \subseteq Permanent(vs)
           \/ op = "reset" /\ Permanent(vs) = {},
           \A p \in runtime : Release(p) \notin Permanent(vs)
    PROVE  BarredInv'
<1>1. /\ call = NoCall /\ ~verdictsPending /\ call'.op = op /\ call'.state = s
      /\ call'.verdicts = vs /\ call'.step = FirstStep(op, s, vs)
    BY DEF Begin
<1>2. Permanent(verdicts)' = Permanent(verdicts) /\ Permanent(call.verdicts)' = Permanent(vs)
    BY <1>1 DEF Permanent, memory
<1>3. barred' \subseteq barred
    BY <1>1, OnlyRecordBars, NoCallIsIdle
<1>4. BarredHeld'
    BY <1>2, <1>3 DEF BarredInv, BarredHeld, Permanent, memory, disk
<1>5. /\ call'.step = "condemn" => op = "boot"
      /\ call'.step # "trailing"
      /\ call'.step = "publish" => op = "boot" \/ s # state \/ vs = verdicts
    BY <1>1 DEF FirstStep, StepAfterCondemn, StepAfterState, StateChanged, VerdictsChanged
<1>6. Early' => Early \/ op = "record"
    BY <1>1 DEF Early
<1>7. CallShape'
    BY <1>1, <1>2, <1>5, <1>6 DEF CallShape, Early, memory
<1>8. Apart'
    BY <1>1, <1>2 DEF BarredInv, Apart
<1>9. FilesHold'
    <2>1. ASSUME Early' PROVE OnDisk(Settling)'
        <3>1. Early
            BY <1>6, <2>1 DEF Early
        <3>2. OnDisk(verdicts)
            BY <1>1, <3>1, NoCallIsIdle DEF BarredInv, FilesHold, Settling
        <3>3. Permanent(Settling)' \subseteq Permanent(verdicts)
            BY <1>1, <1>2, <1>5 DEF Settling, Permanent
        <3>. QED  BY <3>2, <3>3 DEF OnDisk, Permanent, disk
    <2>. QED  BY <2>1 DEF FilesHold
<1>. QED  BY <1>4, <1>7, <1>8, <1>9 DEF BarredInv

LEMMA OpenKeepsBarred ==
    ASSUME FlushedBeforeOpen, TypeOK, BarredInv, Open, RecordBarred
    PROVE  BarredInv'
<1>1. /\ phase = "down" /\ phase' = "opened" /\ call = NoCall /\ call' = NoCall
      /\ runtime = {} /\ unrecorded = {} /\ runtime' = {} /\ unrecorded' = {}
    BY DEF Open, BarredInv, CallShape, Apart
<1>2. barred' \subseteq barred
    BY <1>1, OnlyRecordBars
<1>3. /\ verdicts' = visible.verdicts /\ visible'.verdicts = visible.verdicts
      /\ durable'.verdicts = visible.verdicts
    BY DEF Open, disk, WriteState, WriteRoot, TypeOK, DiskOK, RootFiles
<1>4. BarredHeld'
    BY <1>2, <1>3 DEF BarredInv, BarredHeld, Permanent
<1>5. Permanent(call.verdicts)' = {} /\ Settling' = verdicts'
    BY <1>1, NoCallIsIdle DEF Permanent, Settling
<1>6. FilesHold'
    BY <1>3, <1>5 DEF FilesHold, OnDisk, Permanent
<1>7. CallShape' /\ Apart'
    BY <1>1, <1>5, NoCallIsIdle DEF CallShape, Apart
<1>. QED  BY <1>4, <1>6, <1>7 DEF BarredInv

LEMMA LaunchKeepsBarred ==
    ASSUME OneBuildEach, FlushedBeforeOpen, TypeOK, BarredInv, Launch, RecordBarred
    PROVE  BarredInv'
<1>0. /\ state \in States /\ verdicts \in [Releases -> Verdict] /\ now \in Nat
      /\ runtime \in SUBSET Packs /\ unrecorded \in SUBSET Packs
    BY StoreAssumption DEF TypeOK, MemoryOK, ProcessOK
<1>1. CASE Open
    BY <1>1, OpenKeepsBarred
<1>2. CASE SeedNotNeeded
    <2>1. barred' \subseteq barred
        BY <1>2, OnlyRecordBars DEF SeedNotNeeded
    <2>. QED
        BY <1>2, <2>1, QuietKeepsBarred DEF SeedNotNeeded, memory, disk
<1>3. CASE SeedIfAbsent
    <2>1. CASE Begin("seed", Seeded, verdicts) /\ UNCHANGED phase
        <3>1. runtime = {}
            BY <1>3 DEF SeedIfAbsent, BarredInv, Apart
        <3>. QED
            BY <1>3, <2>1, <3>1, BeginKeepsBarred DEF SeedIfAbsent
    <2>2. CASE call = NoCall /\ phase' = "seeded" /\ UNCHANGED call
        <3>1. barred' \subseteq barred
            BY <2>2, OnlyRecordBars
        <3>. QED
            BY <1>3, <2>2, <3>1, QuietKeepsBarred DEF SeedIfAbsent, memory, disk
    <2>. QED  BY <1>3, <2>1, <2>2 DEF SeedIfAbsent
<1>4. CASE Boot
    <2>. DEFINE vs == Condemn(verdicts, Condemned(state), "not_acknowledged", now)
                s == Promoted(Tried(state), vs)
    <2>1. Begin("boot", s, vs) /\ phase = "seeded"
        BY <1>4 DEF Boot
    <2>2. Permanent(vs) = Permanent(verdicts)
        BY <1>0, CondemnPermanent
    <2>3. runtime = {}
        BY <2>1 DEF BarredInv, Apart
    <2>. HIDE DEF vs, s
    <2>. QED
        BY <1>4, <2>1, <2>2, <2>3, BeginKeepsBarred DEF Boot
<1>5. CASE LoadLayers
    <2>1. PICK failed :
            /\ runtime' \in SUBSET (runtime \ failed)
            /\ unrecorded' = failed
            /\ failed \in SUBSET runtime
        BY <1>5 DEF LoadLayers
    <2>2. /\ phase = "booted" /\ phase' = "running"
          /\ UNCHANGED <<memory, disk, layerFiles, call, now>>
        BY <1>5 DEF LoadLayers
    <2>3. barred' \subseteq barred
        BY <2>2, OnlyRecordBars
    <2>4. Early /\ call.op \notin {"reset", "boot", "seed"}
        BY <2>2 DEF Early, BarredInv, CallShape
    <2>5. CallShape'
        BY <2>2, <2>4 DEF BarredInv, CallShape, memory, Permanent
    <2>6. BarredHeld'
        BY <2>2, <2>3 DEF BarredInv, BarredHeld, memory, disk, Permanent
    <2>7. Apart'
        <3>1. \A p \in runtime', q \in unrecorded' : Release(p) # Release(q)
            BY <1>0, <2>1 DEF OneBuildEach
        <3>. QED  BY <2>1, <2>2, <3>1 DEF BarredInv, Apart, memory, Permanent
    <2>8. FilesHold'
        BY <2>2, <2>4 DEF BarredInv, FilesHold, memory, disk, Permanent, OnDisk, Settling
    <2>. QED  BY <2>5, <2>6, <2>7, <2>8 DEF BarredInv
<1>6. CASE RecordFailure
    <2>1. PICK p \in unrecorded, reason \in LoadReasons :
            /\ Begin("record", state, Record(verdicts, Release(p), reason, now))
            /\ unrecorded' = unrecorded \ {p}
        BY <1>6 DEF RecordFailure
    <2>. DEFINE vs == Record(verdicts, Release(p), reason, now)
    <2>2. Release(p) \in Releases /\ reason \in Reasons
        BY <1>0, StoreAssumption, ReleaseType
    <2>3. /\ Permanent(verdicts) \subseteq Permanent(vs)
          /\ Permanent(vs) \subseteq Permanent(verdicts) \cup {Release(p)}
        BY <1>0, <2>2, RecordPermanent
    <2>4. Begin("record", state, vs)
        BY <2>1
    <2>. HIDE DEF vs
    <2>5. \A q \in runtime : Release(q) \notin Permanent(vs)
        BY <2>3 DEF BarredInv, Apart
    <2>6. phase = "running" /\ UNCHANGED <<memory, disk, phase, runtime>>
        BY <1>6 DEF RecordFailure
    <2>7. unrecorded' \subseteq unrecorded /\ unrecorded # {}
        BY <2>1
    <2>. QED
        BY <2>3, <2>4, <2>5, <2>6, <2>7, BeginKeepsBarred
<1>. QED  BY <1>1, <1>2, <1>3, <1>4, <1>5, <1>6 DEF Launch

LEMMA OperationKeepsBarred ==
    ASSUME TypeOK, BarredInv, Operation, RecordBarred
    PROVE  BarredInv'
<1>1. ASSUME NEW op \in {"commit", "stage", "observe", "error"}, NEW s, Begin(op, s, verdicts),
             phase = "running", UNCHANGED <<memory, disk, phase, runtime, unrecorded>>
      PROVE  BarredInv'
    <2>1. \A p \in runtime : Release(p) \notin Permanent(verdicts)
        BY DEF BarredInv, Apart
    <2>. QED  BY <1>1, <2>1, BeginKeepsBarred
<1>2. CASE NotifyReady
    BY <1>1, <1>2 DEF NotifyReady, Ready, OnlyBegins
<1>3. ASSUME NEW batch \in Batches, Stage(batch) PROVE BarredInv'
    <2>. DEFINE s == [state EXCEPT !.staged = Revision(state, verdicts, batch),
                                   !.lastError = "none"]
    <2>1. phase = "running" /\ UNCHANGED <<memory, disk, phase, runtime, unrecorded>>
        BY <1>3 DEF Stage, Ready
    <2>2. Begin("stage", s, verdicts) \/ UNCHANGED call
        BY <1>3 DEF Stage
    <2>. HIDE DEF s
    <2>3. CASE Begin("stage", s, verdicts)
        BY <1>1, <2>1, <2>3
    <2>4. CASE UNCHANGED call
        <3>1. barred' \subseteq barred
            BY <2>4, OnlyRecordBars
        <3>2. /\ verdicts' = verdicts /\ verdictsPending' = verdictsPending
              /\ call' = call /\ state' = state
            BY <2>1, <2>4 DEF memory
        <3>3. runtime' = runtime /\ unrecorded' = unrecorded /\ phase' = phase
            BY <2>1
        <3>4. /\ visible'.verdicts = visible.verdicts
              /\ durable'.verdicts = durable.verdicts
            BY <2>1 DEF disk
        <3>. HIDE <1>3
        <3>. QED  BY <3>1, <3>2, <3>3, <3>4, QuietKeepsBarred
    <2>. QED  BY <2>2, <2>3, <2>4
<1>4. ASSUME NEW clear \in BOOLEAN, Reset(clear) PROVE BarredInv'
    <2>. DEFINE vs == IF clear THEN NoVerdicts ELSE verdicts
    <2>1. /\ phase = "running" /\ unrecorded = {} /\ unrecorded' = unrecorded
          /\ UNCHANGED <<memory, disk, phase, runtime>>
          /\ Begin("reset", Cleared(state), vs)
        BY <1>4 DEF Reset, Ready, OnlyBegins
    <2>2. \/ vs = verdicts
          \/ Permanent(vs) = {}
        BY NothingBarred
    <2>. HIDE DEF vs
    <2>3. \A p \in runtime : Release(p) \notin Permanent(vs)
        BY <2>2 DEF BarredInv, Apart
    <2>. QED  BY <2>1, <2>2, <2>3, BeginKeepsBarred
<1>5. ASSUME NEW w, NEW e, ObserveChannel(w, e) PROVE BarredInv'
    <2>. DEFINE s == [state EXCEPT !.watermark = Larger(@, w), !.epoch = Larger(@, e),
                                   !.lastError = "none"]
    <2>1. Begin("observe", s, verdicts)
        BY <1>5 DEF ObserveChannel
    <2>. HIDE DEF s
    <2>2. phase = "running" /\ UNCHANGED <<memory, disk, phase, runtime, unrecorded>>
        BY <1>5 DEF ObserveChannel, Ready, OnlyBegins
    <2>. QED  BY <1>1, <2>1, <2>2
<1>6. ASSUME NEW code, RecordLastError(code) PROVE BarredInv'
    <2>. DEFINE s == [state EXCEPT !.lastError = code]
    <2>1. Begin("error", s, verdicts)
        BY <1>6 DEF RecordLastError
    <2>. HIDE DEF s
    <2>2. phase = "running" /\ UNCHANGED <<memory, disk, phase, runtime, unrecorded>>
        BY <1>6 DEF RecordLastError, Ready, OnlyBegins
    <2>. QED  BY <1>1, <2>1, <2>2
<1>. QED  BY <1>2, <1>3, <1>4, <1>5, <1>6 DEF Operation

LEMMA EnvironmentKeepsBarred ==
    ASSUME TypeOK, BarredInv, Environment, RecordBarred
    PROVE  BarredInv'
<1>1. CASE Kill
    <2>1. Forget /\ UNCHANGED <<visible, durable>> /\ barred' \subseteq barred
        BY <1>1, OnlyRecordBars DEF Kill, Forget, disk
    <2>. QED  BY <2>1, ForgetKeepsBarred DEF BarredInv, BarredHeld
<1>2. CASE PowerLoss
    <2>1. Forget /\ visible' = durable /\ durable' = durable /\ barred' \subseteq barred
        BY <1>2, OnlyRecordBars DEF PowerLoss, Forget
    <2>. QED  BY <2>1, ForgetKeepsBarred DEF BarredInv, BarredHeld
<1>3. CASE WriteBack
    <2>1. barred' \subseteq barred
        BY <1>3, OnlyRecordBars DEF WriteBack, process
    <2>2. /\ visible' = visible
          /\ durable'.verdicts \in {visible.verdicts, durable.verdicts}
        BY <1>3 DEF WriteBack, TypeOK, DiskOK, RootFiles
    <2>. QED  BY <1>3, <2>1, <2>2, QuietKeepsBarred DEF WriteBack, process, memory
<1>4. CASE Tick
    <2>1. barred' \subseteq barred
        BY <1>4, OnlyRecordBars DEF Tick, process
    <2>. QED  BY <1>4, <2>1, QuietKeepsBarred DEF Tick, process, memory, disk
<1>. QED  BY <1>1, <1>2, <1>3, <1>4 DEF Environment

-----------------------------------------------------------------------------
LEMMA Advanced ==
    ASSUME call \in Calls, NEW step, Advance(step)
    PROVE  /\ call'.step = step /\ call'.op = call.op /\ call'.state = call.state
           /\ call'.verdicts = call.verdicts
           /\ step # call.step => call' # call
BY DEF Advance, Calls

LEMMA WrittenVerdicts ==
    ASSUME TypeOK, NEW vs, NEW outcome \in WriteOutcomes, WriteBlacklist(vs, outcome)
    PROVE  /\ visible'.verdicts = visible.verdicts \/ visible'.verdicts = vs
           /\ durable'.verdicts = durable.verdicts \/ durable'.verdicts = vs
           /\ outcome = "ok" => visible'.verdicts = vs /\ durable'.verdicts = vs
BY DEF TypeOK, DiskOK, RootFiles, WriteBlacklist, WriteRoot, WriteOutcomes

LEMMA UnwrittenVerdicts ==
    ASSUME TypeOK, NEW s, NEW outcome \in WriteOutcomes, WriteState(s, outcome)
    PROVE  /\ visible'.verdicts = visible.verdicts
           /\ durable'.verdicts = durable.verdicts \/ durable'.verdicts = visible.verdicts
           /\ outcome = "ok" => durable'.verdicts = visible.verdicts
BY DEF TypeOK, DiskOK, RootFiles, WriteState, WriteRoot, WriteOutcomes

LEMMA GiveUpKeepsBarred ==
    ASSUME BarredInv, RecordBarred, NEW pending, GiveUp(pending),
           call # NoCall, call.step # "publish",
           \/ visible'.verdicts = visible.verdicts \/ visible'.verdicts = call.verdicts,
           \/ durable'.verdicts = durable.verdicts \/ durable'.verdicts = call.verdicts
           \/ durable'.verdicts = visible.verdicts
    PROVE  BarredInv'
<1>1. call' = NoCall
    BY DEF GiveUp, Forget
<1>2. barred' \subseteq barred /\ barred' \subseteq Permanent(call.verdicts)
    BY <1>1, OnlyRecordBars, WrittenHolds
<1>3. barred' \subseteq Permanent(visible'.verdicts) \cap Permanent(durable'.verdicts)
    BY <1>2 DEF BarredInv, BarredHeld
<1>4. CASE call.op = "boot"
    BY <1>3, <1>4, ForgetKeepsBarred DEF GiveUp
<1>5. CASE call.op # "boot"
    <2>1. /\ phase' = IF call.op = "seed" THEN "seeded" ELSE phase
          /\ verdicts' = verdicts /\ verdictsPending' = verdictsPending
          /\ runtime' = runtime /\ unrecorded' = unrecorded
        BY <1>5 DEF GiveUp
    <2>2. phase # "down" /\ phase' # "down" /\ (call.op = "seed" => phase = "opened")
        BY <2>1 DEF BarredInv, CallShape
    <2>3. CallShape'
        BY <1>1, <2>2, NoCallIsIdle DEF CallShape, Permanent
    <2>4. BarredHeld'
        BY <1>2, <1>3, <2>1, <2>2 DEF BarredInv, BarredHeld, Permanent
    <2>5. Apart'
        BY <1>1, <2>1, <2>2, NoCallIsIdle DEF BarredInv, Apart, Permanent
    <2>6. ASSUME Early', ~verdictsPending' PROVE OnDisk(Settling)'
        <3>1. Early /\ ~verdictsPending
            BY <1>1, <2>1, <2>2, <2>6, NoCallIsIdle DEF Early
        <3>2. Permanent(verdicts) \subseteq Permanent(call.verdicts)
            BY <3>1 DEF BarredInv, CallShape
        <3>3. OnDisk(verdicts)
            BY <3>1 DEF BarredInv, FilesHold, Settling
        <3>4. Settling' = verdicts
            BY <1>1, <2>1, NoCallIsIdle DEF Settling
        <3>. QED  BY <3>2, <3>3, <3>4 DEF OnDisk, Permanent
    <2>. QED  BY <2>3, <2>4, <2>5, <2>6 DEF BarredInv, FilesHold
<1>. QED  BY <1>4, <1>5

LEMMA ReturnKeepsBarred ==
    ASSUME TypeOK, BarredInv, call \in Calls, call # NoCall, Return, BarredHeld',
           verdicts' = call.verdicts, unrecorded' = unrecorded,
           Early /\ ~verdictsPending' => OnDisk(verdicts)'
    PROVE  BarredInv'
<1>0. /\ phase # "down" /\ (call.op = "seed" => phase = "opened")
      /\ (call.op = "boot" => phase = "seeded")
    BY DEF BarredInv, CallShape
<1>1. \/ /\ call.op \in {"commit", "reset"} /\ Advance("gc")
         /\ phase' = phase /\ runtime' = runtime
      \/ /\ call' = NoCall /\ call.op # "boot" /\ runtime' = runtime
         /\ phase' = IF call.op = "seed" THEN "seeded" ELSE phase
      \/ /\ call' = NoCall /\ call.op = "boot" /\ phase' = "booted"
         /\ runtime' = Live(call.state, call.verdicts)
    BY DEF Return
<1>2. \/ /\ call'.op \in {"commit", "reset"} /\ call'.op = call.op /\ call'.step = "gc"
         /\ call'.verdicts = call.verdicts /\ phase' = phase
      \/ call' = NoCall
    BY <1>1, Advanced
<1>3. phase' # "down"
    BY <1>0, <1>1
<1>4. Early' => Early
    BY <1>0, <1>1, <1>2, NoCallIsIdle DEF Early
<1>5. CallShape'
    BY <1>2, <1>3, <1>4, NoCallIsIdle DEF BarredInv, CallShape, Permanent
<1>6. Apart'
    <2>1. ASSUME NEW p \in runtime' PROVE Release(p) \notin Permanent(call.verdicts)
        <3>1. CASE runtime' = runtime
            BY <2>1, <3>1 DEF BarredInv, Apart
        <3>2. CASE runtime' = Live(call.state, call.verdicts)
            BY <2>1, <3>2, LiveSpared DEF Calls
        <3>. QED  BY <1>1, <3>1, <3>2
    <2>2. Permanent(call.verdicts)' \subseteq Permanent(call.verdicts)
        BY <1>2, NoCallIsIdle DEF Permanent
    <2>3. Permanent(verdicts)' = Permanent(call.verdicts)
        BY DEF Permanent
    <2>4. unrecorded' = {} \/ runtime' = runtime
        BY <1>0, <1>1 DEF BarredInv, Apart
    <2>5. phase' \in {"down", "opened", "seeded"} => runtime' = {} /\ unrecorded' = {}
        BY <1>0, <1>1 DEF BarredInv, Apart
    <2>. QED  BY <2>1, <2>2, <2>3, <2>4, <2>5 DEF BarredInv, Apart
<1>7. FilesHold'
    BY <1>2, <1>4, NoCallIsIdle DEF FilesHold, Settling, OnDisk, Permanent
<1>. QED  BY <1>5, <1>6, <1>7 DEF BarredInv

LEMMA SaveKeepsBarred ==
    ASSUME TypeOK, BarredInv, RecordBarred, call \in Calls, call # NoCall,
           SaveCondemned \/ SaveState \/ SaveVerdicts \/ SaveTrailingVerdicts
    PROVE  BarredInv'
<1>0. phase # "down"
    BY DEF BarredInv, CallShape
<1>1. CASE SaveCondemned
    <2>1. PICK outcome \in WriteOutcomes :
            /\ WriteBlacklist(call.verdicts, outcome)
            /\ \/ /\ outcome = "ok"
                  /\ verdicts' = call.verdicts
                  /\ Advance(StepAfterCondemn(call.op, call.state, call.verdicts))
                  /\ phase' = phase /\ runtime' = runtime /\ unrecorded' = unrecorded
               \/ GiveUp(statePending)
        BY <1>1 DEF SaveCondemned
    <2>2. call.step = "condemn" /\ call.op = "boot" /\ phase = "seeded"
        BY <1>1 DEF SaveCondemned, BarredInv, CallShape
    <2>3. CASE GiveUp(statePending)
        BY <2>1, <2>2, <2>3, WrittenVerdicts, GiveUpKeepsBarred
    <2>4. CASE outcome = "ok" /\ ~GiveUp(statePending)
        <3>1. /\ visible'.verdicts = call.verdicts /\ durable'.verdicts = call.verdicts
              /\ verdicts' = call.verdicts
            BY <2>1, <2>4, WrittenVerdicts
        <3>2. StepAfterCondemn(call.op, call.state, call.verdicts) \in {"state", "publish"}
            BY <2>2 DEF StepAfterCondemn, StepAfterState
        <3>3. /\ call'.op = "boot" /\ call'.verdicts = call.verdicts
              /\ call'.step \in {"state", "publish"} /\ call' # call
            BY <2>1, <2>2, <2>4, <3>2, Advanced
        <3>4. barred' \subseteq Permanent(call.verdicts)
            BY <2>2, <3>3, WrittenHolds
        <3>5. /\ runtime' = {} /\ unrecorded' = {} /\ phase' = "seeded"
            BY <2>1, <2>2, <2>4 DEF BarredInv, Apart
        <3>. QED
            BY <3>1, <3>3, <3>4, <3>5, NoCallIsIdle
            DEF BarredInv, CallShape, BarredHeld, Apart, FilesHold, OnDisk, Settling, Permanent
    <2>. QED  BY <2>1, <2>3, <2>4
<1>2. CASE SaveState
    <2>1. PICK outcome \in WriteOutcomes :
            /\ WriteState(call.state, outcome)
            /\ \/ /\ outcome = "ok"
                  /\ Advance(StepAfterState(call.op, call.state, call.verdicts))
                  /\ verdicts' = verdicts /\ verdictsPending' = verdictsPending
                  /\ state' = state
                  /\ phase' = phase /\ runtime' = runtime /\ unrecorded' = unrecorded
               \/ GiveUp(TRUE)
        BY <1>2 DEF SaveState
    <2>2. call.step = "state"
        BY <1>2 DEF SaveState
    <2>3. CASE GiveUp(TRUE)
        BY <2>1, <2>2, <2>3, UnwrittenVerdicts, GiveUpKeepsBarred
    <2>4. CASE outcome = "ok" /\ ~GiveUp(TRUE)
        <3>1. /\ visible'.verdicts = visible.verdicts /\ durable'.verdicts = visible.verdicts
            BY <2>1, <2>4, UnwrittenVerdicts
        <3>2. /\ StepAfterState(call.op, call.state, call.verdicts) \in {"verdicts", "publish"}
              /\ StepAfterState(call.op, call.state, call.verdicts) = "publish" =>
                    call.op # "record" \/ call.verdicts = verdicts
            BY DEF StepAfterState, StateChanged, VerdictsChanged, BarredInv, CallShape
        <3>3. /\ call'.op = call.op /\ call'.verdicts = call.verdicts /\ call'.state = call.state
              /\ call'.step \in {"verdicts", "publish"} /\ call' # call
              /\ call'.step = "publish" => call.op # "record" \/ call.verdicts = verdicts
            BY <2>1, <2>2, <2>4, <3>2, Advanced
        <3>4. barred' \subseteq barred
            BY <2>2, OnlyRecordBars
        <3>5. /\ verdicts' = verdicts /\ verdictsPending' = verdictsPending /\ state' = state
              /\ phase' = phase /\ runtime' = runtime /\ unrecorded' = unrecorded
            BY <2>1, <2>4
        <3>6. Early' = Early
            BY <3>3, <3>5 DEF Early
        <3>7. CallShape'
            BY <1>0, <3>3, <3>5, <3>6, NoCallIsIdle DEF BarredInv, CallShape, Permanent
        <3>8. BarredHeld' /\ Apart'
            BY <3>1, <3>3, <3>4, <3>5 DEF BarredInv, BarredHeld, Apart, Permanent
        <3>9. FilesHold'
            <4>1. Permanent(Settling)' \subseteq Permanent(verdicts)
                BY <3>3, <3>5 DEF BarredInv, CallShape, Settling, Permanent
            <4>2. Settling = verdicts
                BY <2>2 DEF Settling
            <4>. QED  BY <3>1, <3>5, <3>6, <4>1, <4>2
                      DEF BarredInv, FilesHold, OnDisk, Permanent
        <3>. QED  BY <3>7, <3>8, <3>9 DEF BarredInv
    <2>. QED  BY <2>1, <2>3, <2>4
<1>3. CASE SaveVerdicts
    <2>1. PICK outcome \in WriteOutcomes :
            /\ WriteBlacklist(call.verdicts, outcome)
            /\ \/ /\ outcome = "ok"
                  /\ Advance("publish")
                  /\ verdicts' = verdicts /\ verdictsPending' = verdictsPending
                  /\ state' = state
                  /\ phase' = phase /\ runtime' = runtime /\ unrecorded' = unrecorded
               \/ GiveUp(statePending)
        BY <1>3 DEF SaveVerdicts, memory
    <2>2. call.step = "verdicts"
        BY <1>3 DEF SaveVerdicts
    <2>3. CASE GiveUp(statePending)
        BY <2>1, <2>2, <2>3, WrittenVerdicts, GiveUpKeepsBarred
    <2>4. CASE outcome = "ok" /\ ~GiveUp(statePending)
        <3>1. /\ visible'.verdicts = call.verdicts /\ durable'.verdicts = call.verdicts
            BY <2>1, <2>4, WrittenVerdicts
        <3>3. /\ call'.op = call.op /\ call'.verdicts = call.verdicts /\ call'.state = call.state
              /\ call'.step = "publish" /\ call' # call
            BY <2>1, <2>2, <2>4, Advanced
        <3>4. barred' \subseteq barred /\ barred' \subseteq Permanent(call.verdicts)
            BY <2>2, <3>3, OnlyRecordBars, WrittenHolds
        <3>5. /\ verdicts' = verdicts /\ verdictsPending' = verdictsPending /\ state' = state
              /\ phase' = phase /\ runtime' = runtime /\ unrecorded' = unrecorded
            BY <2>1, <2>4
        <3>6. Early' = Early
            BY <3>3, <3>5 DEF Early
        <3>7. CallShape'
            BY <1>0, <3>3, <3>5, <3>6, NoCallIsIdle DEF BarredInv, CallShape, Permanent
        <3>8. BarredHeld' /\ Apart'
            BY <3>1, <3>3, <3>4, <3>5 DEF BarredInv, BarredHeld, Apart, Permanent
        <3>9. FilesHold'
            BY <3>1, <3>3 DEF FilesHold, OnDisk, Settling, Permanent
        <3>. QED  BY <3>7, <3>8, <3>9 DEF BarredInv
    <2>. QED  BY <2>1, <2>3, <2>4
<1>4. CASE SaveTrailingVerdicts
    <2>1. PICK outcome \in WriteOutcomes :
            /\ WriteBlacklist(call.verdicts, outcome)
            /\ \/ /\ outcome = "ok"
                  /\ Return
                  /\ verdicts' = verdicts
                  /\ unrecorded' = unrecorded
               \/ GiveUp(statePending)
        BY <1>4 DEF SaveTrailingVerdicts
    <2>2. call.step = "trailing" /\ call.verdicts = verdicts
        BY <1>4 DEF SaveTrailingVerdicts, BarredInv, CallShape
    <2>3. CASE GiveUp(statePending)
        BY <2>1, <2>2, <2>3, WrittenVerdicts, GiveUpKeepsBarred
    <2>4. CASE outcome = "ok" /\ ~GiveUp(statePending)
        <3>1. /\ visible'.verdicts = call.verdicts /\ durable'.verdicts = call.verdicts
            BY <2>1, <2>4, WrittenVerdicts
        <3>2. barred' \subseteq barred
            BY <2>2, OnlyRecordBars
        <3>3. BarredHeld'
            BY <1>0, <2>1, <2>2, <2>4, <3>1, <3>2 DEF BarredInv, BarredHeld, Permanent
        <3>4. OnDisk(verdicts)'
            BY <2>1, <2>2, <2>4, <3>1 DEF OnDisk, Permanent
        <3>. QED  BY <2>1, <2>2, <2>4, <3>3, <3>4, ReturnKeepsBarred
    <2>. QED  BY <2>1, <2>3, <2>4
<1>. QED  BY <1>1, <1>2, <1>3, <1>4

LEMMA PublishKeepsBarred ==
    ASSUME TypeOK, BarredInv, RecordBarred, call \in Calls, call # NoCall, Publish
    PROVE  BarredInv'
<1>1. /\ call.step = "publish" /\ verdicts' = call.verdicts /\ state' = call.state
      /\ visible' = visible /\ durable' = durable /\ unrecorded' = unrecorded
      /\ phase # "down"
    BY DEF Publish, disk, BarredInv, CallShape
<1>2. \/ /\ call.op # "boot" /\ call.state # state /\ verdictsPending' = TRUE
         /\ Advance("trailing") /\ phase' = phase /\ runtime' = runtime
      \/ Return /\ verdictsPending' = verdictsPending
    BY DEF Publish, StateChanged
<1>3. call' # call
    BY <1>1, <1>2, Advanced, NoCallIsIdle DEF Return
<1>4. barred' \subseteq Permanent(call.verdicts)
                        \cap Permanent(visible.verdicts) \cap Permanent(durable.verdicts)
    <2>1. CASE call.op # "record"
        BY <1>3, <2>1, OnlyRecordBars, WrittenHolds DEF BarredInv, BarredHeld
    <2>2. CASE call.op = "record"
        <3>1. OnDisk(call.verdicts)
            BY <1>1, <2>2 DEF BarredInv, CallShape, FilesHold, Early, Settling
        <3>2. barred \subseteq Permanent(call.verdicts)
            BY <1>1, <2>2 DEF BarredInv, CallShape, BarredHeld
        <3>3. barred' \subseteq barred \cup Permanent(call.verdicts)
            BY DEF RecordBarred, Permanent
        <3>. QED  BY <3>1, <3>2, <3>3 DEF OnDisk
    <2>. QED  BY <2>1, <2>2
<1>5. BarredHeld'
    BY <1>1, <1>4 DEF BarredHeld, Permanent
<1>6. CASE /\ call.op # "boot" /\ call.state # state /\ verdictsPending' = TRUE
           /\ Advance("trailing") /\ phase' = phase /\ runtime' = runtime
    <2>1. /\ call'.op = call.op /\ call'.verdicts = call.verdicts /\ call'.step = "trailing"
        BY <1>6, Advanced
    <2>2. call.op # "record"
        BY <1>6 DEF BarredInv, CallShape
    <2>3. Early' => Early
        BY <1>1, <1>6, <2>1 DEF Early
    <2>4. CallShape'
        BY <1>1, <1>6, <2>1, <2>2, <2>3 DEF BarredInv, CallShape, Permanent
    <2>5. Apart'
        BY <1>1, <1>6, <2>1 DEF BarredInv, Apart, Permanent
    <2>6. FilesHold'
        BY <1>6 DEF FilesHold
    <2>. QED  BY <1>5, <2>4, <2>5, <2>6 DEF BarredInv
<1>7. CASE Return /\ verdictsPending' = verdictsPending
    <2>1. Early /\ ~verdictsPending' => OnDisk(verdicts)'
        BY <1>1, <1>7 DEF BarredInv, FilesHold, Settling, OnDisk, Permanent
    <2>. QED  BY <1>1, <1>5, <1>7, <2>1, ReturnKeepsBarred
<1>. QED  BY <1>2, <1>6, <1>7

LEMMA RetryKeepsBarred ==
    ASSUME TypeOK, BarredInv, RecordBarred, RetryVerdicts
    PROVE  BarredInv'
<1>1. PICK outcome \in WriteOutcomes :
        /\ WriteBlacklist(verdicts, outcome)
        /\ verdictsPending' = (outcome # "ok")
    BY DEF RetryVerdicts
<1>2. /\ call = NoCall /\ call' = call /\ phase' = phase /\ runtime' = runtime
      /\ unrecorded' = unrecorded /\ verdicts' = verdicts /\ state' = state
      /\ phase # "down"
    BY DEF RetryVerdicts, process, BarredInv, CallShape
<1>3. barred' \subseteq barred
    BY <1>2, OnlyRecordBars
<1>4. BarredHeld'
    BY <1>1, <1>2, <1>3, WrittenVerdicts DEF BarredInv, BarredHeld, Permanent
<1>5. CallShape' /\ Apart'
    BY <1>2, NoCallIsIdle DEF BarredInv, CallShape, Apart, Early, Permanent
<1>6. ASSUME Early', ~verdictsPending' PROVE OnDisk(Settling)'
    <2>1. visible'.verdicts = verdicts /\ durable'.verdicts = verdicts
        BY <1>1, <1>6, WrittenVerdicts
    <2>. QED  BY <1>2, <2>1, NoCallIsIdle DEF OnDisk, Settling, Permanent
<1>. QED  BY <1>4, <1>5, <1>6 DEF BarredInv, FilesHold

LEMMA CollectKeepsBarred ==
    ASSUME TypeOK, BarredInv, RecordBarred, CollectGarbage
    PROVE  BarredInv'
<1>1. /\ call.step = "gc" /\ call' = NoCall /\ verdicts' = verdicts
      /\ verdictsPending' = verdictsPending /\ visible' = visible /\ durable' = durable
      /\ phase' = phase /\ runtime' = runtime /\ unrecorded' = unrecorded
    BY DEF CollectGarbage, memory, disk
<1>2. barred' \subseteq barred /\ phase # "down"
    BY <1>1, OnlyRecordBars, NoCallIsIdle DEF BarredInv, CallShape
<1>3. BarredHeld'
    BY <1>1, <1>2 DEF BarredInv, BarredHeld, Permanent
<1>4. CallShape' /\ Apart'
    BY <1>1, <1>2, NoCallIsIdle DEF BarredInv, CallShape, Apart, Permanent
<1>5. ASSUME Early', ~verdictsPending' PROVE OnDisk(Settling)'
    <2>1. Early /\ Settling = verdicts /\ Settling' = verdicts
        BY <1>1, <1>5, NoCallIsIdle DEF Early, Settling
    <2>2. OnDisk(verdicts)
        BY <1>1, <1>5, <2>1 DEF BarredInv, FilesHold
    <2>. QED  BY <1>1, <2>1, <2>2 DEF OnDisk, Permanent
<1>. QED  BY <1>3, <1>4, <1>5 DEF BarredInv, FilesHold

LEMMA BarredInvKept ==
    ASSUME OneBuildEach, FlushedBeforeOpen, TypeOK, BarredInv, Next, RecordBarred
    PROVE  BarredInv'
<1>1. CASE Launch
    BY <1>1, LaunchKeepsBarred
<1>2. CASE Operation
    BY <1>2, OperationKeepsBarred
<1>3. CASE Environment
    BY <1>3, EnvironmentKeepsBarred
<1>4. CASE Progress
    <2>1. call \in Calls \cup {NoCall}
        BY DEF TypeOK, ProcessOK
    <2>2. call # NoCall => call \in Calls
        BY <2>1
    <2>3. CASE SaveCondemned \/ SaveState \/ SaveVerdicts \/ SaveTrailingVerdicts
        <3>1. call # NoCall
            BY <2>3, NoCallIsIdle
            DEF SaveCondemned, SaveState, SaveVerdicts, SaveTrailingVerdicts
        <3>. QED  BY <2>2, <2>3, <3>1, SaveKeepsBarred
    <2>4. CASE Publish
        <3>1. call # NoCall
            BY <2>4, NoCallIsIdle DEF Publish
        <3>. QED  BY <2>2, <2>4, <3>1, PublishKeepsBarred
    <2>5. CASE RetryVerdicts
        BY <2>5, RetryKeepsBarred
    <2>6. CASE CollectGarbage
        BY <2>6, CollectKeepsBarred
    <2>. QED  BY <1>4, <2>3, <2>4, <2>5, <2>6 DEF Progress
<1>. QED  BY <1>1, <1>2, <1>3, <1>4 DEF Next

(***************************************************************************)
(* A release whose permanent verdict was recorded is never served again    *)
(* before a reset is asked to clear the blacklist: no failed write, kill   *)
(* or loss of power brings it back (blacklist.rs:98, store.rs:985).        *)
(***************************************************************************)
THEOREM BarredAlwaysStaysOut ==
    ASSUME OneBuildEach, FlushedBeforeOpen PROVE HistorySpec => []BarredNeverLoads
<1>1. Init /\ HistoryInit => BarredInv
    <2>. SUFFICES ASSUME Init, HistoryInit PROVE BarredInv
        OBVIOUS
    <2>1. /\ phase = "down" /\ call = NoCall /\ verdictsPending = FALSE
          /\ runtime = {} /\ unrecorded = {} /\ barred = {} /\ ~Early
        BY NoCallIsIdle DEF Init, HistoryInit, Early
    <2>. QED
        BY <2>1, NoCallIsIdle DEF BarredInv, CallShape, BarredHeld, Apart, FilesHold
<1>2. TypeOK /\ BarredInv /\ [HistoryNext]_allVars => BarredInv'
    <2>. SUFFICES ASSUME TypeOK, BarredInv, [HistoryNext]_allVars PROVE BarredInv'
        OBVIOUS
    <2>1. CASE UNCHANGED allVars
        BY <2>1, QuietKeepsBarred DEF allVars, vars, memory, disk, process, history
    <2>2. CASE HistoryNext
        BY <2>2, BarredInvKept DEF HistoryNext
    <2>. QED  BY <2>1, <2>2
<1>3. BarredInv => BarredNeverLoads
    BY DEF BarredInv, BarredHeld, Apart, BarredNeverLoads
<1>. QED  BY <1>1, <1>2, <1>3, HistoryObserves, TypeCorrect, PTL DEF HistorySpec

-----------------------------------------------------------------------------
(***************************************************************************)
(* Within one TTL no verdict lapses.                                       *)
(***************************************************************************)
LEMMA NothingExpires ==
    ASSUME NEW vs \in [Releases -> Verdict], NEW t \in Nat, t < TransientTtl
    PROVE  /\ Prune(vs, t) = vs
           /\ \A r \in Releases : IsActive(vs[r], t) <=> r \in Standing(vs)
<1>1. ASSUME NEW r \in Releases PROVE ~OutOfTime(vs[r], t)
    <2>1. vs[r] \in Verdict
        BY <1>1
    <2>2. vs[r].first \in Nat
        BY <2>1 DEF Verdict, Entries, Absent
    <2>. QED  BY <2>2, VerdictsAssumption DEF OutOfTime
<1>2. Prune(vs, t) = [r \in Releases |-> vs[r]]
    BY <1>1 DEF Prune
<1>. QED  BY <1>1, <1>2 DEF IsActive, Standing, Stands

LEMMA StrikeStands ==
    ASSUME NEW v \in Verdict, NEW reason \in Reasons, NEW t \in Nat, Stands(v)
    PROVE  Stands(Strike(v, reason, t))
<1>1. v \in Entries /\ v # Absent
    BY DEF Stands, Verdict
<1>2. Strike(v, reason, t) =
        [count  |-> IF v.count < TransientStrikes THEN v.count + 1 ELSE v.count,
         reason |-> IF reason \in PermanentReasons THEN reason ELSE v.reason,
         first  |-> v.first]
    BY <1>1 DEF Strike
<1>3. v.count \in 1 .. TransientStrikes
    BY <1>1 DEF Entries
<1>4. Strike(v, reason, t).count >= 1 /\ Strike(v, reason, t).count >= v.count
    BY <1>2, <1>3, VerdictsAssumption
<1>5. Strike(v, reason, t) # Absent
    BY <1>4 DEF Absent
<1>6. v.reason \in PermanentReasons => Strike(v, reason, t).reason \in PermanentReasons
    BY <1>2
<1>7. v.count >= TransientStrikes => Strike(v, reason, t).count >= TransientStrikes
    BY <1>2, <1>3, VerdictsAssumption
<1>. QED  BY <1>5, <1>6, <1>7 DEF Stands

LEMMA RecordStands ==
    ASSUME NEW vs \in [Releases -> Verdict], NEW r \in Releases, NEW reason \in Reasons,
           NEW t \in Nat, t < TransientTtl
    PROVE  Standing(vs) \subseteq Standing(Record(vs, r, reason, t))
<1>1. Record(vs, r, reason, t) = [vs EXCEPT ![r] = Strike(vs[r], reason, t)]
    BY NothingExpires DEF Record
<1>2. vs[r] \in Verdict
    OBVIOUS
<1>. QED  BY <1>1, <1>2, StrikeStands DEF Standing

\* What a rollback condemns stands at once.
LEMMA CondemnStands ==
    ASSUME NEW vs \in [Releases -> Verdict], NEW rs \in SUBSET Releases, NEW t \in Nat
    PROVE  /\ rs \subseteq Standing(Condemn(vs, rs, "not_acknowledged", t))
           /\ t < TransientTtl =>
                Standing(vs) \subseteq Standing(Condemn(vs, rs, "not_acknowledged", t))
<1>. DEFINE new == Condemn(vs, rs, "not_acknowledged", t)
<1>1. CASE rs = {}
    BY <1>1 DEF Condemn
<1>2. CASE rs # {}
    <2>1. \A r \in Releases : new[r] =
                IF r \in rs
                THEN [Strike(Prune(vs, t)[r], "not_acknowledged", t)
                        EXCEPT !.count = TransientStrikes]
                ELSE Prune(vs, t)[r]
        BY <1>2 DEF Condemn
    <2>. HIDE DEF new
    <2>2. ASSUME NEW r \in rs PROVE Stands(new[r])
        <3>1. Prune(vs, t)[r] \in Verdict /\ "not_acknowledged" \in Reasons
            BY PruneType DEF Reasons, TransientReasons
        <3>2. Strike(Prune(vs, t)[r], "not_acknowledged", t) \in Entries
            BY <3>1, StrikeType
        <3>3. new[r].count = TransientStrikes
            BY <2>1, <3>2 DEF Entries
        <3>. QED  BY <3>3, VerdictsAssumption DEF Stands, Absent
    <2>3. rs \subseteq Standing(new)
        BY <2>2 DEF Standing
    <2>4. ASSUME t < TransientTtl PROVE Standing(vs) \subseteq Standing(new)
        BY <2>1, <2>2, <2>4, NothingExpires DEF Standing
    <2>. QED  BY <2>3, <2>4 DEF new
<1>. QED  BY <1>1, <1>2

LEMMA CondemnedType ==
    ASSUME NEW s \in States
    PROVE  Condemned(s) \in SUBSET Releases
<1>1. s.booting \in Revisions \cup {NoRev}
    BY DEF States
<1>2. OnTrial(s) => s.booting \subseteq Packs
    BY <1>1 DEF OnTrial, Revisions
<1>. QED  BY <1>2, ReleaseType DEF Condemned

LEMMA NothingStands == Standing(NoVerdicts) = {}
BY DEF Standing, Stands, NoVerdicts

LEMMA VerdictMemory ==
    ASSUME TypeOK
    PROVE  /\ verdicts \in [Releases -> Verdict]
           /\ visible.verdicts \in [Releases -> Verdict]
           /\ durable.verdicts \in [Releases -> Verdict]
           /\ state \in States /\ now \in Nat
           /\ call \in Calls \cup {NoCall}
           /\ call.verdicts \in [Releases -> Verdict]
           /\ call.state \in States
BY StoreAssumption, NewStateType
DEF TypeOK, MemoryOK, DiskOK, RootFiles, ProcessOK, Calls, NoCall, NoVerdicts, Verdict

-----------------------------------------------------------------------------
(***************************************************************************)
(* The steps of the store, told apart by what they do to blacklist.json    *)
(* and to the revisions that rest on it.                                   *)
(***************************************************************************)
Stored == {visible.verdicts, durable.verdicts}
Files == {visible.state, durable.state}
Slots(s) == {s.staged, s.booting, s.committed}
Bare(s) == Slots(s) = {NoRev}

\* The new revisions of a state, if any, were checked when composed.
Composed(s, batch) ==
    /\ batch \subseteq Packs
    /\ ParentsMatch(Revision(state, verdicts, batch), batch)
    /\ Slots(s) \subseteq Slots(state) \cup {Revision(state, verdicts, batch)}

\* What an operation makes of the verdicts, and of the slots.
Ruling(op, s, vs) ==
    \/ op = "seed" /\ phase = "opened" /\ vs = verdicts /\ Composed(s, Seeds)
    \/ /\ op = "stage" /\ phase = "running" /\ vs = verdicts
       /\ \E batch \in Batches : Composed(s, batch) /\ ~\E p \in batch : Blocks(verdicts, p)
    \/ /\ op = "boot" /\ phase = "seeded"
       /\ vs = Condemn(verdicts, Condemned(state), "not_acknowledged", now)
       /\ Slots(s) \subseteq Slots(state) \cup {NoRev}
    \/ /\ op \in {"commit", "observe", "error"} /\ phase = "running" /\ vs = verdicts
       /\ Slots(s) \subseteq Slots(state) \cup {NoRev}
    \/ /\ op = "record" /\ phase = "running" /\ s = state
       /\ \E r \in Releases, reason \in Reasons : vs = Record(verdicts, r, reason, now)
    \/ op = "reset" /\ phase = "running" /\ Bare(s) /\ vs \in {NoVerdicts, verdicts}

Waits ==
    /\ UNCHANGED <<state, statePending, verdicts, call>>
    /\ runtime' \subseteq runtime
    /\ Files' \subseteq Files
    /\ \/ Stored' \subseteq Stored /\ verdictsPending' = verdictsPending
       \/ /\ phase # "down" /\ call = NoCall /\ verdictsPending
          /\ Stored' \subseteq Stored \cup {verdicts}
          /\ ~verdictsPending' => Stored' = {verdicts}
    /\ \/ phase' = phase
       \/ call = NoCall /\ phase = "opened" /\ phase' = "seeded"
       \/ call = NoCall /\ phase = "booted" /\ phase' = "running"

Starts ==
    /\ phase = "down" /\ phase' = "opened" /\ call' = call
    /\ UNCHANGED <<statePending, verdictsPending, runtime>>
    /\ Stored = {verdicts'} /\ Stored' = {verdicts'}
    /\ \A t \in Files' \cup {state'} : \E s \in Files : Slots(t) = Slots(s)

Asks ==
    /\ call = NoCall /\ ~verdictsPending /\ phase # "down" /\ phase' = phase
    /\ UNCHANGED <<memory, disk, runtime>>
    /\ call' \in Calls
    /\ Ruling(call'.op, call'.state, call'.verdicts)
    /\ \/ call'.step = "condemn" /\ call'.op = "boot"
       \/ call'.step = "state" /\ (call'.op = "boot" => call'.verdicts = verdicts)
       \/ call'.step = "verdicts" /\ call'.op # "boot" /\ call'.state = state
       \/ call'.step = "publish" /\ call'.verdicts = verdicts

SavesVerdicts ==
    /\ call.step \in {"condemn", "verdicts"} /\ phase # "down" /\ phase' = phase
    /\ Stored' = {call.verdicts} /\ Files' \subseteq Files
    /\ UNCHANGED <<state, statePending, verdictsPending, runtime>>
    /\ Continues
    /\ \/ /\ call.step = "condemn" /\ call'.step \in {"state", "publish"}
          /\ verdicts' = call.verdicts
       \/ call.step = "verdicts" /\ call'.step = "publish" /\ verdicts' = verdicts

SavesState ==
    /\ call.step = "state" /\ phase # "down" /\ phase' = phase
    /\ Files' = {call.state} /\ Stored' \subseteq Stored
    /\ UNCHANGED <<state, verdicts, verdictsPending, runtime>>
    /\ Continues
    /\ \/ call'.step = "verdicts" /\ call.op # "boot" /\ call.state = state
       \/ call'.step = "publish" /\
             (call.op = "boot" \/ call.verdicts = verdicts \/ call.state # state)

Announces ==
    /\ call.step = "publish" /\ phase # "down"
    /\ state' = call.state /\ verdicts' = call.verdicts
    /\ UNCHANGED <<statePending, disk>>
    /\ \/ /\ call.op # "boot" /\ call.state # state /\ call.verdicts # verdicts
          /\ Continues /\ call'.step = "trailing"
          /\ verdictsPending' /\ phase' = phase /\ runtime' = runtime
       \/ /\ verdictsPending' = verdictsPending /\ phase' = phase /\ runtime' = runtime
          /\ \/ call.op \in {"commit", "reset"} /\ Continues /\ call'.step = "gc"
             \/ call.op \notin {"seed", "boot"} /\ call' = NoCall
       \/ /\ verdictsPending' = verdictsPending /\ call' = NoCall
          /\ \/ /\ call.op = "boot" /\ phase' = "booted"
                /\ runtime' = Live(call.state, call.verdicts)
             \/ call.op = "seed" /\ phase' = "seeded" /\ runtime' = runtime

SavesOwed ==
    /\ call.step = "trailing" /\ phase # "down" /\ phase' = phase
    /\ Stored' = {call.verdicts} /\ Files' \subseteq Files
    /\ UNCHANGED <<state, statePending, verdicts, runtime>>
    /\ ~verdictsPending'
    /\ Continues /\ call'.step = "gc"

Tidies ==
    /\ call.step = "gc" /\ phase # "down" /\ phase' = phase
    /\ UNCHANGED <<memory, disk, runtime>>
    /\ call' = NoCall

GivesUp ==
    /\ call.step \in {"state", "verdicts", "trailing"} /\ phase # "down"
    /\ call.op # "boot"
    /\ call' = NoCall
    /\ phase' = (IF call.op = "seed" THEN "seeded" ELSE phase)
    /\ UNCHANGED <<state, verdicts, verdictsPending, runtime>>
    /\ \/ /\ call.step = "state"
          /\ Stored' \subseteq Stored /\ Files' \subseteq Files \cup {call.state}
       \/ /\ call.step # "state" /\ statePending' = statePending
          /\ Stored' \subseteq Stored \cup {call.verdicts} /\ Files' \subseteq Files

Stops ==
    /\ phase' = "down" /\ call' = NoCall /\ runtime' = {} /\ state' = NewState
    /\ ~statePending' /\ ~verdictsPending'
    /\ \/ Stored' \subseteq Stored /\ Files' \subseteq Files
       \/ /\ call.step = "state" /\ call.op = "boot"
          /\ Stored' \subseteq Stored /\ Files' \subseteq Files \cup {call.state}
       \/ /\ call.step = "condemn"
          /\ Stored' \subseteq Stored \cup {call.verdicts} /\ Files' \subseteq Files

Turn == Waits \/ Starts \/ Asks \/ SavesVerdicts \/ SavesState \/ Announces \/ SavesOwed
        \/ Tidies \/ GivesUp \/ Stops

(***************************************************************************)
(* The shape of calls.  Only a reset owes a blacklist it has published,    *)
(* and then no revision is left that rested on the one before.             *)
(***************************************************************************)
CallInv ==
    /\ call.step = "condemn" => call.op = "boot"
    /\ call.step = "verdicts" => call.op # "boot"
    /\ call.op \in {"seed", "stage", "commit", "observe", "error"} => call.verdicts = verdicts
    /\ call.op = "boot" /\ call.step # "condemn" => call.verdicts = verdicts
    /\ call.op = "record" => call.state = state
    /\ call.op = "reset" => Bare(call.state) /\ call.verdicts \in {NoVerdicts, verdicts}
    /\ call.step \in {"trailing", "gc"} => call.verdicts = verdicts
    /\ call.step = "trailing" => call.op = "reset"

LaunchInv ==
    /\ call.op = "boot" => Condemned(state) \subseteq Standing(call.verdicts)
    /\ phase \in {"opened", "seeded"} /\ call.step # "condemn" => Stored = {verdicts}
    /\ phase \in {"down", "opened", "seeded"} => runtime = {}
    /\ phase = "down" => state = NewState

OwedInv ==
    verdictsPending => /\ call.step \in {"none", "trailing"} /\ phase = "running"
                       /\ Bare(state) /\ ~statePending /\ verdicts = NoVerdicts

RulingInv == CallInv /\ LaunchInv /\ OwedInv

-----------------------------------------------------------------------------
(***************************************************************************)
(* Every step is one of these.                                             *)
(***************************************************************************)
LEMMA SlotsOfNew == Bare(NewState) /\ Bare(NoState)
BY DEF Bare, Slots, NewState, NoState

LEMMA BlacklistWriteTurn ==
    ASSUME DiskOK, NEW vs, NEW outcome \in WriteOutcomes, WriteBlacklist(vs, outcome)
    PROVE  /\ Files' \subseteq Files
           /\ Stored' \subseteq Stored \cup {vs}
           /\ outcome = "ok" => Stored' = {vs}
BY DEF WriteBlacklist, WriteRoot, DiskOK, RootFiles, Files, Stored

LEMMA StateWriteTurn ==
    ASSUME DiskOK, NEW s, NEW outcome \in WriteOutcomes, WriteState(s, outcome)
    PROVE  /\ Stored' \subseteq Stored
           /\ Files' \subseteq Files \cup {s}
           /\ outcome = "ok" => Files' = {s}
BY DEF WriteState, WriteRoot, DiskOK, RootFiles, Files, Stored

LEMMA AsksCase ==
    ASSUME TypeOK, phase # "down", phase' = phase, UNCHANGED <<memory, disk, runtime>>,
           NEW op \in Ops, NEW s \in States, NEW vs \in [Releases -> Verdict],
           Begin(op, s, vs), Ruling(op, s, vs)
    PROVE  Asks
<1>1. /\ call = NoCall /\ ~verdictsPending
      /\ call' = [op |-> op, step |-> FirstStep(op, s, vs), state |-> s, verdicts |-> vs]
    BY DEF Begin
<1>2. call' \in Calls
    BY BeginType
<1>3. \/ FirstStep(op, s, vs) = "condemn" /\ op = "boot"
      \/ FirstStep(op, s, vs) = "state" /\ (op = "boot" => vs = verdicts)
      \/ FirstStep(op, s, vs) = "verdicts" /\ op # "boot" /\ s = state
      \/ FirstStep(op, s, vs) = "publish" /\ vs = verdicts
    BY DEF FirstStep, StepAfterCondemn, StepAfterState, StateChanged, VerdictsChanged
<1>. QED  BY <1>1, <1>2, <1>3 DEF Asks

LEMMA LaunchSlots ==
    ASSUME NEW s \in States, NEW vs
    PROVE  Slots(Promoted(Tried(s), vs)) \subseteq Slots(s) \cup {NoRev}
<1>1. Tried(s) \in States
    BY TriedType
<1>2. Slots(Tried(s)) \subseteq Slots(s) \cup {NoRev}
    BY DEF Tried, Slots, States
<1>3. \A t \in States : Slots(Promoted(t, vs)) \subseteq Slots(t) \cup {NoRev}
    <2>. SUFFICES ASSUME NEW t \in States
                  PROVE  Slots(Promoted(t, vs)) \subseteq Slots(t) \cup {NoRev}
        OBVIOUS
    <2>. QED  BY DEF Promoted, Slots, States
<1>. QED  BY <1>1, <1>2, <1>3

LEMMA AcknowledgedSlots ==
    ASSUME NEW s \in States
    PROVE  Slots(Acknowledged(s)) \subseteq Slots(s) \cup {NoRev}
<1>1. CASE ~OnTrial(s)
    BY <1>1 DEF Acknowledged
<1>2. CASE OnTrial(s)
    <2>. DEFINE a == [s EXCEPT !.committed = s.booting, !.booting = NoRev,
                               !.pointer = "committed", !.attempts = 0,
                               !.rollbacks = 0, !.lastError = "none"]
    <2>1. Slots(a) = {s.staged, NoRev, s.booting}
        BY DEF Slots, States
    <2>2. Acknowledged(s) = [a EXCEPT !.floor = Raise(@, {Release(p) : p \in Layers(a.committed)})]
        BY <1>2 DEF Acknowledged, RaiseVersionFloor
    <2>3. Slots(Acknowledged(s)) = Slots(a)
        BY <2>2 DEF Slots, States
    <2>. QED  BY <2>1, <2>3 DEF Slots
<1>. QED  BY <1>1, <1>2

LEMMA LaunchTurns ==
    ASSUME FlushedBeforeOpen, TypeOK, Backbone, Launch
    PROVE  Turn
<1>0. /\ state \in States /\ verdicts \in [Releases -> Verdict] /\ now \in Nat
      /\ visible \in RootFiles /\ durable \in RootFiles /\ DiskOK
    BY VerdictMemory DEF TypeOK, DiskOK
<1>1. CASE Open
    <2>. DEFINE onDisk == visible.state
                read == IF onDisk = NoState THEN NewState ELSE onDisk
                filled == BackfillVersionFloor(read, visible.verdicts)
    <2>1. read \in States /\ Slots(read) = Slots(onDisk)
        BY <1>0, NewStateType, SlotsOfNew DEF RootFiles, Bare
    <2>2. Slots(filled) = Slots(read)
        BY <2>1 DEF BackfillVersionFloor, Slots, States
    <2>3. /\ phase = "down" /\ phase' = "opened" /\ call' = call
          /\ UNCHANGED <<statePending, verdictsPending, runtime>>
          /\ verdicts' = visible.verdicts /\ state' = filled /\ visible = durable
          /\ \/ UNCHANGED disk
             \/ \E outcome \in WriteOutcomes : WriteState(filled, outcome)
        BY <1>1 DEF Open
    <2>. HIDE DEF read, filled
    <2>4. Stored = {verdicts'} /\ Files = {onDisk}
        BY <2>3 DEF Stored, Files
    <2>5. Stored' \subseteq Stored /\ Files' \subseteq Files \cup {filled}
        <3>1. CASE UNCHANGED disk
            BY <3>1 DEF disk, Stored, Files
        <3>2. CASE \E outcome \in WriteOutcomes : WriteState(filled, outcome)
            BY <1>0, <3>2, StateWriteTurn
        <3>. QED  BY <2>3, <3>1, <3>2
    <2>6. Stored' = {verdicts'}
        BY <2>4, <2>5 DEF Stored
    <2>7. \A t \in Files' \cup {state'} : \E s \in Files : Slots(t) = Slots(s)
        BY <2>1, <2>2, <2>3, <2>4, <2>5
    <2>. QED  BY <2>3, <2>4, <2>6, <2>7 DEF Starts, Turn
<1>2. CASE SeedNotNeeded
    BY <1>2 DEF SeedNotNeeded, memory, disk, Stored, Files, Waits, Turn
<1>3. CASE SeedIfAbsent
    <2>0. phase = "opened" /\ UNCHANGED <<memory, disk, runtime>>
        BY <1>3 DEF SeedIfAbsent
    <2>1. CASE /\ RevisionAccepted(state, verdicts, Seeds)
               /\ Begin("seed", Seeded, verdicts) /\ UNCHANGED phase
        <3>. DEFINE rev == Revision(state, verdicts, Seeds)
                    s == [state EXCEPT !.committed = rev, !.pointer = "committed"]
        <3>1. rev \in Revisions
            BY <1>0, StoreAssumption, RevisionType
        <3>2. s \in States /\ Slots(s) = {state.staged, state.booting, rev}
            BY <1>0, <3>1 DEF States, Slots
        <3>3. Seeded = RaiseVersionFloor(s)
            BY DEF Seeded
        <3>. HIDE DEF s, rev
        <3>4. Seeded \in States /\ Slots(Seeded) = Slots(s)
            BY <3>2, <3>3, RaiseVersionFloorType DEF RaiseVersionFloor, States, Slots
        <3>5. Composed(Seeded, Seeds)
            BY <2>1, <3>2, <3>4, StoreAssumption DEF Composed, RevisionAccepted, Slots, rev
        <3>6. Asks
            BY <1>0, <2>0, <2>1, <3>4, <3>5, AsksCase DEF Ruling, Ops
        <3>. QED  BY <3>6 DEF Turn
    <2>2. CASE call = NoCall /\ phase' = "seeded" /\ UNCHANGED call
        BY <2>0, <2>2 DEF memory, disk, Stored, Files, Waits, Turn
    <2>. QED  BY <1>3, <2>1, <2>2 DEF SeedIfAbsent
<1>4. CASE Boot
    <2>. DEFINE vs == Condemn(verdicts, Condemned(state), "not_acknowledged", now)
                s == Promoted(Tried(state), vs)
    <2>1. /\ Begin("boot", s, vs) /\ phase = "seeded" /\ phase' = phase
          /\ UNCHANGED <<memory, disk, runtime>>
        BY <1>4 DEF Boot
    <2>2. vs \in [Releases -> Verdict]
        BY <1>0, CondemnType DEF Reasons, TransientReasons
    <2>3. s \in States /\ Slots(s) \subseteq Slots(state) \cup {NoRev}
        BY <1>0, TriedType, PromotedType, LaunchSlots
    <2>4. Ruling("boot", s, vs)
        BY <2>1, <2>3 DEF Ruling
    <2>. HIDE DEF s, vs
    <2>5. Asks
        BY <2>1, <2>2, <2>3, <2>4, AsksCase DEF Ops
    <2>. QED  BY <2>5 DEF Turn
<1>5. CASE LoadLayers
    <2>1. phase = "booted" /\ phase' = "running" /\ UNCHANGED <<memory, disk, call>>
        BY <1>5 DEF LoadLayers
    <2>2. runtime' \subseteq runtime
        BY <1>5 DEF LoadLayers
    <2>3. call = NoCall
        <3>1. call # NoCall => call.op \in Ops
            BY VerdictMemory DEF Calls
        <3>. QED  BY <2>1, <3>1 DEF Backbone, PhaseInv, Ops
    <2>. QED  BY <2>1, <2>2, <2>3 DEF memory, disk, Stored, Files, Waits, Turn
<1>6. CASE RecordFailure
    <2>1. PICK p \in unrecorded, reason \in LoadReasons :
            Begin("record", state, Record(verdicts, Release(p), reason, now))
        BY <1>6 DEF RecordFailure
    <2>2. Release(p) \in Releases /\ reason \in Reasons
        BY StoreAssumption, ReleaseType DEF TypeOK, ProcessOK
    <2>3. Record(verdicts, Release(p), reason, now) \in [Releases -> Verdict]
        BY <1>0, <2>2, RecordType
    <2>4. phase = "running" /\ phase' = phase /\ UNCHANGED <<memory, disk, runtime>>
        BY <1>6 DEF RecordFailure
    <2>5. Asks
        BY <1>0, <2>1, <2>2, <2>3, <2>4, AsksCase DEF Ruling, Ops
    <2>. QED  BY <2>5 DEF Turn
<1>. QED  BY <1>1, <1>2, <1>3, <1>4, <1>5, <1>6 DEF Launch

LEMMA OperationTurns ==
    ASSUME TypeOK, Operation
    PROVE  Turn
<1>0. /\ state \in States /\ verdicts \in [Releases -> Verdict] /\ NoVerdicts \in [Releases -> Verdict]
      /\ now \in Nat
    BY VerdictMemory DEF NoVerdicts, Verdict
<1>1. ASSUME NEW op \in Ops, NEW s \in States, NEW vs \in {NoVerdicts, verdicts},
             Begin(op, s, vs), Ruling(op, s, vs), Ready,
             UNCHANGED <<memory, disk, phase, runtime>>
      PROVE  Turn
    BY <1>0, <1>1, AsksCase DEF Ready, Turn
<1>2. CASE NotifyReady
    <2>1. Acknowledged(state) \in States
        BY <1>0, AcknowledgedType
    <2>2. Ready /\ Begin("commit", Acknowledged(state), verdicts)
            /\ UNCHANGED <<memory, disk, phase, runtime>>
        BY <1>2 DEF NotifyReady, OnlyBegins
    <2>3. Ruling("commit", Acknowledged(state), verdicts)
        BY <1>0, <2>2, AcknowledgedSlots DEF Ruling, Ready
    <2>. QED  BY <1>1, <2>1, <2>2, <2>3 DEF Ops
<1>3. ASSUME NEW batch \in Batches, Stage(batch) PROVE Turn
    <2>. DEFINE rev == Revision(state, verdicts, batch)
                s == [state EXCEPT !.staged = rev, !.lastError = "none"]
    <2>1. Ready /\ UNCHANGED <<memory, disk, phase, runtime>>
        BY <1>3 DEF Stage
    <2>2. rev \in Revisions /\ batch \subseteq Packs
        BY <1>0, StoreAssumption, RevisionType
    <2>3. s \in States /\ Slots(s) = {rev, state.booting, state.committed}
        BY <1>0, <2>2 DEF States, Slots
    <2>4. \/ RevisionAccepted(state, verdicts, batch) /\ Begin("stage", s, verdicts)
          \/ UNCHANGED call
        BY <1>3 DEF Stage
    <2>. HIDE DEF s, rev
    <2>5. CASE RevisionAccepted(state, verdicts, batch) /\ Begin("stage", s, verdicts)
        <3>1. Composed(s, batch)
            BY <2>2, <2>3, <2>5 DEF Composed, RevisionAccepted, Slots, rev
        <3>2. Ruling("stage", s, verdicts)
            BY <1>3, <2>1, <3>1 DEF Ruling, Stage, Ready
        <3>. QED  BY <1>1, <2>1, <2>3, <2>5, <3>2 DEF Ops
    <2>6. CASE UNCHANGED call
        BY <2>1, <2>6 DEF memory, disk, Stored, Files, Waits, Turn
    <2>. QED  BY <2>4, <2>5, <2>6
<1>4. ASSUME NEW clear \in BOOLEAN, Reset(clear) PROVE Turn
    <2>1. PICK vs \in {NoVerdicts, verdicts} : Begin("reset", Cleared(state), vs)
        BY <1>4 DEF Reset
    <2>2. Cleared(state) \in States
        BY <1>0, NewStateType DEF Cleared, States
    <2>3. Bare(Cleared(state))
        BY <1>0, ClearedFields DEF Bare, Slots
    <2>4. Ready /\ UNCHANGED <<memory, disk, phase, runtime>>
        BY <1>4 DEF Reset, OnlyBegins
    <2>. QED  BY <1>1, <2>1, <2>2, <2>3, <2>4 DEF Ruling, Ready, Ops
<1>5. ASSUME NEW w \in 0 .. MaxWatermark, NEW e \in 1 .. MaxEpoch, ObserveChannel(w, e)
      PROVE  Turn
    <2>. DEFINE s == [state EXCEPT !.watermark = Larger(@, w), !.epoch = Larger(@, e),
                                   !.lastError = "none"]
    <2>1. w \in Nat /\ e \in Nat
        BY StoreAssumption
    <2>2. s \in States /\ Slots(s) = Slots(state)
        BY <1>0, <2>1 DEF States, Larger, Slots
    <2>3. Begin("observe", s, verdicts) /\ Ready /\ UNCHANGED <<memory, disk, phase, runtime>>
        BY <1>5 DEF ObserveChannel, OnlyBegins
    <2>. HIDE DEF s
    <2>. QED  BY <1>1, <2>2, <2>3 DEF Ruling, Ready, Ops
<1>6. ASSUME NEW code \in ErrorCodes, RecordLastError(code) PROVE Turn
    <2>. DEFINE s == [state EXCEPT !.lastError = code]
    <2>1. s \in States /\ Slots(s) = Slots(state)
        BY <1>0 DEF States, Slots
    <2>2. Begin("error", s, verdicts) /\ Ready /\ UNCHANGED <<memory, disk, phase, runtime>>
        BY <1>6 DEF RecordLastError, OnlyBegins
    <2>. HIDE DEF s
    <2>. QED  BY <1>1, <2>1, <2>2 DEF Ruling, Ready, Ops
<1>. QED  BY <1>2, <1>3, <1>4, <1>5, <1>6 DEF Operation

LEMMA EnvironmentTurns ==
    ASSUME TypeOK, Environment
    PROVE  Turn
<1>1. CASE Kill
    BY <1>1 DEF Kill, Forget, disk, Stored, Files, Stops, Turn
<1>2. CASE PowerLoss
    BY <1>2 DEF PowerLoss, Forget, Stored, Files, Stops, Turn
<1>3. CASE WriteBack
    <2>1. Stored' \subseteq Stored /\ Files' \subseteq Files
        BY <1>3 DEF WriteBack, TypeOK, DiskOK, RootFiles, Stored, Files
    <2>. QED  BY <1>3, <2>1 DEF WriteBack, process, memory, Waits, Turn
<1>4. CASE Tick
    BY <1>4 DEF Tick, process, memory, disk, Stored, Files, Waits, Turn
<1>. QED  BY <1>1, <1>2, <1>3, <1>4 DEF Environment

LEMMA GiveUpTurn ==
    ASSUME call \in Calls, phase # "down", NEW b \in BOOLEAN, GiveUp(b),
           \/ /\ call.step = "state"
              /\ Stored' \subseteq Stored /\ Files' \subseteq Files \cup {call.state}
           \/ /\ call.step \in {"verdicts", "trailing"} /\ call.op # "boot" /\ b = statePending
              /\ Stored' \subseteq Stored \cup {call.verdicts} /\ Files' \subseteq Files
           \/ /\ call.step = "condemn" /\ call.op = "boot"
              /\ Stored' \subseteq Stored \cup {call.verdicts} /\ Files' \subseteq Files
    PROVE  Turn
<1>1. CASE call.op = "boot"
    BY <1>1 DEF GiveUp, Forget, Stops, Turn
<1>2. CASE call.op # "boot"
    BY <1>2 DEF GiveUp, GivesUp, Turn
<1>. QED  BY <1>1, <1>2

LEMMA ProgressTurns ==
    ASSUME TypeOK, PoolAccounted, Backbone, CallInv, OwedInv, Progress
    PROVE  Turn
<1>. USE DEF TypeOK
<1>0. ASSUME call.step # "none"
      PROVE  /\ call \in Calls /\ call # NoCall /\ phase # "down"
             /\ \A step : Advance(step) => Continues /\ call'.step = step
    BY <1>0, InCall, IdleCall DEF PoolAccounted, Advance, Continues, Calls
<1>1. CASE SaveCondemned
    <2>1. call.step = "condemn" /\ call.op = "boot"
        BY <1>1 DEF SaveCondemned, CallInv
    <2>2. PICK outcome \in WriteOutcomes :
            /\ WriteBlacklist(call.verdicts, outcome)
            /\ \/ /\ outcome = "ok"
                  /\ verdicts' = call.verdicts
                  /\ Advance(StepAfterCondemn(call.op, call.state, call.verdicts))
                  /\ UNCHANGED <<state, statePending, verdictsPending, phase, runtime>>
               \/ outcome # "ok" /\ GiveUp(statePending)
        BY <1>1 DEF SaveCondemned
    <2>3. CASE outcome # "ok"
        BY <1>0, <2>1, <2>2, <2>3, BlacklistWriteTurn, GiveUpTurn DEF MemoryOK
    <2>4. CASE outcome = "ok"
        <3>1. call'.step \in {"state", "publish"}
            BY <1>0, <2>1, <2>2, <2>4 DEF StepAfterCondemn, StepAfterState
        <3>2. SavesVerdicts
            BY <1>0, <2>1, <2>2, <2>4, <3>1, BlacklistWriteTurn DEF SavesVerdicts
        <3>. QED  BY <3>2 DEF Turn
    <2>. QED  BY <2>3, <2>4
<1>2. CASE SaveState
    <2>1. call.step = "state"
        BY <1>2 DEF SaveState
    <2>2. PICK outcome \in WriteOutcomes :
            /\ WriteState(call.state, outcome)
            /\ \/ /\ outcome = "ok"
                  /\ Advance(StepAfterState(call.op, call.state, call.verdicts))
                  /\ UNCHANGED <<state, verdicts, verdictsPending, phase, runtime>>
               \/ outcome # "ok" /\ GiveUp(TRUE)
        BY <1>2 DEF SaveState
    <2>3. CASE outcome # "ok"
        BY <1>0, <2>1, <2>2, <2>3, StateWriteTurn, GiveUpTurn
    <2>4. CASE outcome = "ok"
        <3>1. \/ call'.step = "verdicts" /\ call.op # "boot" /\ call.state = state
              \/ call'.step = "publish" /\
                    (call.op = "boot" \/ call.verdicts = verdicts \/ call.state # state)
            BY <1>0, <2>1, <2>2, <2>4 DEF StepAfterState, StateChanged, VerdictsChanged
        <3>2. SavesState
            BY <1>0, <2>1, <2>2, <2>4, <3>1, StateWriteTurn DEF SavesState
        <3>. QED  BY <3>2 DEF Turn
    <2>. QED  BY <2>3, <2>4
<1>3. CASE SaveVerdicts
    <2>1. call.step = "verdicts" /\ call.op # "boot"
        BY <1>3 DEF SaveVerdicts, CallInv
    <2>2. PICK outcome \in WriteOutcomes :
            /\ WriteBlacklist(call.verdicts, outcome)
            /\ \/ outcome = "ok" /\ Advance("publish") /\ UNCHANGED <<memory, phase, runtime>>
               \/ outcome # "ok" /\ GiveUp(statePending)
        BY <1>3 DEF SaveVerdicts
    <2>3. CASE outcome # "ok"
        BY <1>0, <2>1, <2>2, <2>3, BlacklistWriteTurn, GiveUpTurn DEF MemoryOK
    <2>4. CASE outcome = "ok"
        BY <1>0, <2>1, <2>2, <2>4, BlacklistWriteTurn DEF SavesVerdicts, memory, Turn
    <2>. QED  BY <2>3, <2>4
<1>4. CASE Publish
    <2>1. /\ call.step = "publish" /\ call.op \in Ops /\ phase # "down"
          /\ state' = call.state /\ verdicts' = call.verdicts
          /\ UNCHANGED <<statePending, disk>>
        BY <1>0, <1>4 DEF Publish, Calls
    <2>2. CASE /\ call.op # "boot" /\ call.state # state /\ call.verdicts # verdicts
               /\ verdictsPending' = TRUE /\ Advance("trailing")
               /\ UNCHANGED <<phase, runtime>>
        BY <1>0, <2>1, <2>2 DEF Announces, Turn
    <2>3. CASE Return /\ UNCHANGED verdictsPending
        BY <1>0, <2>1, <2>3 DEF Return, Announces, Turn
    <2>. QED  BY <1>4, <2>2, <2>3 DEF Publish, StateChanged, VerdictsChanged
<1>5. CASE SaveTrailingVerdicts
    <2>1. call.step = "trailing" /\ call.op = "reset"
        BY <1>5 DEF SaveTrailingVerdicts, CallInv
    <2>2. PICK outcome \in WriteOutcomes :
            /\ WriteBlacklist(call.verdicts, outcome)
            /\ \/ /\ outcome = "ok" /\ verdictsPending' = FALSE /\ Return
                  /\ UNCHANGED <<state, verdicts, statePending>>
               \/ outcome # "ok" /\ GiveUp(statePending)
        BY <1>5 DEF SaveTrailingVerdicts
    <2>3. CASE outcome # "ok"
        BY <1>0, <2>1, <2>2, <2>3, BlacklistWriteTurn, GiveUpTurn DEF MemoryOK
    <2>4. CASE outcome = "ok"
        BY <1>0, <2>1, <2>2, <2>4, BlacklistWriteTurn DEF Return, SavesOwed, Turn
    <2>. QED  BY <2>3, <2>4
<1>6. CASE RetryVerdicts
    <2>1. PICK outcome \in WriteOutcomes :
            WriteBlacklist(verdicts, outcome) /\ verdictsPending' = (outcome # "ok")
        BY <1>6 DEF RetryVerdicts
    <2>2. /\ call = NoCall /\ verdictsPending
          /\ UNCHANGED <<state, verdicts, statePending, call, phase, runtime>>
        BY <1>6 DEF RetryVerdicts, process
    <2>3. phase # "down"
        BY <2>2 DEF OwedInv
    <2>. QED  BY <2>1, <2>2, <2>3, BlacklistWriteTurn DEF Waits, Turn
<1>7. CASE CollectGarbage
    BY <1>0, <1>7 DEF CollectGarbage, Tidies, Turn
<1>. QED  BY <1>1, <1>2, <1>3, <1>4, <1>5, <1>6, <1>7 DEF Progress

LEMMA EveryStepIsATurn ==
    ASSUME FlushedBeforeOpen, TypeOK, PoolAccounted, Backbone, RulingInv, [Next]_vars
    PROVE  Turn
<1>1. CASE UNCHANGED vars
    BY <1>1 DEF vars, memory, disk, process, Stored, Files, Waits, Turn
<1>. QED
    BY <1>1, LaunchTurns, OperationTurns, ProgressTurns, EnvironmentTurns DEF Next, RulingInv

LEMMA RulingKept ==
    ASSUME FlushedBeforeOpen, TypeOK, PoolAccounted, Backbone, RulingInv, [Next]_vars
    PROVE  RulingInv'
<1>0. /\ NoCall.op = "none" /\ NoCall.step = "none"
      /\ call = NoCall \/ call.op \in Ops
      /\ call.op \in Ops \ {"boot", "seed"} => phase = "running"
      /\ CallInv /\ LaunchInv /\ OwedInv
    BY IdleCall, VerdictMemory DEF Calls, Backbone, PhaseInv, RulingInv, Ops
<1>1. CASE Waits
    <2>1. CallInv'
        BY <1>0, <1>1 DEF Waits, CallInv, Bare, Slots
    <2>2. LaunchInv'
        BY <1>0, <1>1 DEF Waits, LaunchInv, OwedInv, Stored
    <2>3. OwedInv'
        BY <1>0, <1>1 DEF Waits, OwedInv, Bare, Slots
    <2>. QED  BY <2>1, <2>2, <2>3 DEF RulingInv
<1>2. CASE Starts
    <2>1. call = NoCall
        BY <1>2 DEF Starts, Backbone, PhaseInv
    <2>. QED  BY <1>0, <1>2, <2>1 DEF Starts, CallInv, LaunchInv, OwedInv, RulingInv
<1>3. CASE Asks
    <2>. USE <1>0, <1>3 DEF Asks, Ruling, memory, disk
    <2>1. call'.op \in Ops /\ call'.step \notin {"trailing", "gc"}
        BY DEF Calls
    <2>2. CallInv'
        BY <2>1 DEF CallInv, Ops, Bare, Slots
    <2>3. call'.op = "boot" => Condemned(state) \subseteq Standing(call'.verdicts)
        BY VerdictMemory, CondemnedType, CondemnStands
    <2>4. LaunchInv'
        BY <2>3 DEF LaunchInv, Stored
    <2>. QED  BY <2>2, <2>4 DEF OwedInv, RulingInv
<1>4. CASE SavesVerdicts
    <2>. USE <1>0, <1>4 DEF SavesVerdicts, Continues
    <2>1. CallInv'
        BY DEF CallInv, Bare, Slots
    <2>2. phase \in {"opened", "seeded"} => call.op \in {"boot", "seed"}
        BY DEF SavesVerdicts
    <2>3. phase \in {"opened", "seeded"} => call.verdicts = verdicts \/ verdicts' = call.verdicts
        BY <2>2 DEF CallInv
    <2>4. phase \in {"opened", "seeded"} => Stored' = {verdicts'}
        BY <2>3
    <2>5. call'.op = "boot" => Condemned(state) \subseteq Standing(call'.verdicts)
        BY DEF LaunchInv
    <2>6. LaunchInv'
        BY <2>4, <2>5 DEF LaunchInv
    <2>. QED  BY <2>1, <2>6 DEF OwedInv, RulingInv
<1>5. CASE SavesState
    <2>. USE <1>0, <1>5 DEF SavesState, Continues
    <2>1. CallInv'
        BY DEF CallInv, Bare, Slots
    <2>2. LaunchInv'
        BY DEF LaunchInv, Stored
    <2>. QED  BY <2>1, <2>2 DEF OwedInv, RulingInv
<1>6. CASE Announces
    <2>. USE <1>0, <1>6 DEF Announces
    <2>0. call.op \in Ops /\ ~verdictsPending /\ ~statePending
        BY DEF OwedInv, Backbone, SyncInv, StateWritten
    <2>1. call'.step = "trailing" => call.op = "reset" /\ call.verdicts = NoVerdicts
        BY <2>0 DEF CallInv, Ops
    <2>2. CallInv'
        BY <2>0, <2>1 DEF Continues, CallInv, Bare, Slots, Ops
    <2>3. Stored' = Stored /\ phase' # "down"
        BY DEF Stored, disk
    <2>4. phase' \in {"opened", "seeded"} =>
            call.op = "seed" /\ verdicts' = verdicts /\ runtime' = runtime
        BY <2>0, <2>1 DEF CallInv, Ops
    <2>5. phase' \in {"opened", "seeded"} => Stored = {verdicts} /\ runtime = {}
        BY <2>4 DEF Backbone, PhaseInv, LaunchInv
    <2>6. call'.op # "boot"
        BY DEF Continues
    <2>7. LaunchInv'
        BY <2>3, <2>4, <2>5, <2>6 DEF LaunchInv
    <2>8. OwedInv'
        BY <2>0, <2>1 DEF Continues, CallInv, OwedInv, Bare, Slots, Ops
    <2>. QED  BY <2>2, <2>7, <2>8 DEF RulingInv
<1>7. CASE SavesOwed
    <2>. USE <1>0, <1>7 DEF SavesOwed, Continues
    <2>1. CallInv'
        BY DEF CallInv, Bare, Slots
    <2>2. LaunchInv'
        BY DEF CallInv, LaunchInv, Ops
    <2>. QED  BY <2>1, <2>2 DEF OwedInv, RulingInv
<1>8. CASE Tidies
    <2>1. phase = "running"
        BY <1>0, <1>8 DEF Tidies, Backbone, PhaseInv
    <2>. QED  BY <1>0, <1>8, <2>1 DEF Tidies, CallInv, LaunchInv, OwedInv, RulingInv, memory
<1>9. CASE GivesUp
    <2>. USE <1>0, <1>9 DEF GivesUp
    <2>1. CallInv'
        BY DEF CallInv
    <2>2. call.op \in Ops
        BY DEF GivesUp
    <2>3. phase' \in {"opened", "seeded"} =>
            call.op = "seed" /\ call.verdicts = verdicts /\ Stored = {verdicts} /\ runtime = {}
        BY <2>2 DEF CallInv, LaunchInv, Backbone, PhaseInv
    <2>4. phase' \in {"opened", "seeded"} => Stored' = {verdicts'} /\ runtime' = {}
        BY <2>3 DEF Stored
    <2>5. LaunchInv'
        BY <2>4 DEF LaunchInv
    <2>6. OwedInv'
        BY DEF OwedInv, Bare, Slots, CallInv
    <2>. QED  BY <2>1, <2>5, <2>6 DEF RulingInv
<1>10. CASE Stops
    BY <1>0, <1>10 DEF Stops, CallInv, LaunchInv, OwedInv, RulingInv
<1>. QED
    BY <1>1, <1>2, <1>3, <1>4, <1>5, <1>6, <1>7, <1>8, <1>9, <1>10, EveryStepIsATurn DEF Turn

LEMMA RulingAlways == ASSUME FlushedBeforeOpen PROVE Spec => []RulingInv
<1>1. Init => RulingInv
    BY IdleCall DEF Init, RulingInv, CallInv, LaunchInv, OwedInv
<1>2. TypeOK /\ PoolAccounted /\ Backbone /\ RulingInv /\ [Next]_vars => RulingInv'
    BY RulingKept
<1>. QED  BY <1>1, <1>2, TypeCorrect, PoolAccountedAlways, BackboneAlways, PTL DEF Spec

-----------------------------------------------------------------------------
(***************************************************************************)
(* Rolled back releases.  Within one TTL no operation but a reset takes    *)
(* away a verdict that stands, and what was condemned stands in memory and *)
(* on both sides of the disk: a launch has nowhere to forget it from.      *)
(***************************************************************************)
Held == IF phase = "down" THEN Stored ELSE Stored \cup {verdicts}
Clears == call.op = "reset" /\ call.verdicts # verdicts

JudgedInv ==
    now < TransientTtl /\ call.op \notin {"none", "reset"} =>
        Standing(verdicts) \subseteq Standing(call.verdicts)

RolledInv ==
    now < TransientTtl =>
        /\ \A vs \in Held : condemned \subseteq Standing(vs)
        /\ \A p \in runtime : Release(p) \notin condemned

LEMMA TimeGoesOn ==
    ASSUME TypeOK, [Next]_vars
    PROVE  now \in Nat /\ now' \in {now, now + 1}
<1>1. Launch => now' = now
    BY DEF Launch, Open, SeedNotNeeded, SeedIfAbsent, Boot, LoadLayers, RecordFailure
<1>2. Operation => now' = now
    BY DEF Operation, NotifyReady, Stage, Reset, ObserveChannel, RecordLastError, OnlyBegins
<1>3. Progress => now' = now
    BY DEF Progress, SaveCondemned, SaveState, SaveVerdicts, Publish,
           SaveTrailingVerdicts, RetryVerdicts, CollectGarbage
<1>4. Environment => now' \in {now, now + 1}
    BY DEF Environment, Kill, PowerLoss, WriteBack, Tick
<1>. QED  BY <1>1, <1>2, <1>3, <1>4, VerdictMemory DEF Next, vars

LEMMA JudgedKept ==
    ASSUME FlushedBeforeOpen, TypeOK, PoolAccounted, Backbone, RulingInv, JudgedInv, [Next]_vars
    PROVE  JudgedInv'
<1>. SUFFICES ASSUME now' < TransientTtl, call'.op \notin {"none", "reset"}
              PROVE  Standing(verdicts') \subseteq Standing(call'.verdicts)
    BY DEF JudgedInv, Standing, Stands, Releases, Release
<1>0. /\ now \in Nat /\ now < TransientTtl /\ NoCall.op = "none"
      /\ call = NoCall \/ call.op \in Ops
    BY IdleCall, TimeGoesOn, VerdictMemory, VerdictsAssumption DEF Calls
<1>1. call.op \notin {"none", "reset"} => Standing(verdicts) \subseteq Standing(call.verdicts)
    BY <1>0 DEF JudgedInv
<1>2. CASE Asks
    <2>1. verdicts' = verdicts /\ Ruling(call'.op, call'.state, call'.verdicts)
        BY <1>2 DEF Asks, memory
    <2>. QED  BY <1>0, <2>1, VerdictMemory, CondemnedType, CondemnStands, RecordStands DEF Ruling
<1>3. CASE SavesVerdicts \/ SavesState \/ SavesOwed
    <2>1. /\ call'.op = call.op /\ call'.verdicts = call.verdicts
          /\ verdicts' \in {verdicts, call.verdicts}
        BY <1>3 DEF SavesVerdicts, SavesState, SavesOwed, Continues
    <2>. QED  BY <1>1, <2>1
<1>4. CASE Announces
    BY <1>0, <1>4 DEF Announces, Continues
<1>5. CASE Waits \/ Starts
    BY <1>0, <1>1, <1>5 DEF Waits, Starts, Backbone, PhaseInv
<1>6. CASE Tidies \/ GivesUp \/ Stops
    BY <1>0, <1>6 DEF Tidies, GivesUp, Stops
<1>. QED  BY <1>2, <1>3, <1>4, <1>5, <1>6, EveryStepIsATurn DEF Turn

LEMMA JudgedAlways == ASSUME FlushedBeforeOpen PROVE Spec => []JudgedInv
<1>1. Init => JudgedInv
    BY IdleCall DEF Init, JudgedInv
<1>. QED
    BY <1>1, JudgedKept, TypeCorrect, PoolAccountedAlways, BackboneAlways, RulingAlways, PTL
    DEF Spec

LEMMA RolledKept ==
    ASSUME FlushedBeforeOpen, TypeOK, PoolAccounted, Backbone, RulingInv, JudgedInv, RolledInv,
           [Next]_vars, RecordCondemned
    PROVE  RolledInv'
<1>. SUFFICES ASSUME now' < TransientTtl
              PROVE  /\ \A vs \in Held' : condemned' \subseteq Standing(vs)
                     /\ \A p \in runtime' : Release(p) \notin condemned'
    BY DEF RolledInv
<1>0. /\ now \in Nat /\ now < TransientTtl
      /\ NoCall.op = "none" /\ NoCall.step = "none"
      /\ call = NoCall \/ call.op \in Ops
    BY IdleCall, TimeGoesOn, VerdictMemory, VerdictsAssumption DEF Calls
<1>1. /\ call.op \notin {"none", "reset"} => Standing(verdicts) \subseteq Standing(call.verdicts)
      /\ \A vs \in Held : condemned \subseteq Standing(vs)
      /\ \A p \in runtime : Release(p) \notin condemned
    BY <1>0 DEF JudgedInv, RolledInv
<1>2. CallInv /\ LaunchInv /\ OwedInv
    BY DEF RulingInv
<1>3. Stored \subseteq Held /\ (phase # "down" => verdicts \in Held)
    BY DEF Held
\* What is condemned from now on stands already.
<1>4. Writing("boot") => /\ runtime = {} /\ Stored = {verdicts} /\ call.verdicts = verdicts
                         /\ Condemned(state) \subseteq Standing(verdicts) /\ phase = "seeded"
    BY <1>2 DEF Writing, CallInv, LaunchInv, Backbone, PhaseInv
<1>5. condemned' \subseteq condemned \cup (IF Writing("boot") THEN Condemned(state) ELSE {})
    BY DEF RecordCondemned
<1>6. \A vs \in Held : condemned' \subseteq Standing(vs)
    BY <1>1, <1>4, <1>5 DEF Held
<1>7. \A p \in runtime : Release(p) \notin condemned'
    BY <1>1, <1>4, <1>5
<1>8. call.op # "none" /\ call' # call => condemned' \subseteq Standing(call.verdicts)
    <2>1. CASE Clears /\ call' # call
        BY <2>1 DEF Clears, ResetRequested, RecordCondemned
    <2>2. CASE call.op # "none" /\ ~Clears
        <3>1. phase # "down"
            BY <1>0, <2>2 DEF Backbone, PhaseInv
        <3>2. condemned' \subseteq Standing(verdicts)
            BY <1>3, <1>6, <3>1
        <3>. QED  BY <1>1, <2>2, <3>2 DEF Clears
    <2>. QED  BY <2>1, <2>2
<1>9. CASE Waits
    <2>1. Held' \subseteq Held
        BY <1>9 DEF Waits, Held
    <2>. QED  BY <1>1, <1>6, <1>7, <1>9, <2>1 DEF Waits
<1>10. CASE Starts
    <2>1. call' = NoCall /\ Held' \subseteq Held
        BY <1>10 DEF Starts, Held, Backbone, PhaseInv
    <2>. QED  BY <1>0, <1>6, <1>7, <1>10, <2>1 DEF Starts
<1>11. CASE Asks
    <2>1. /\ verdicts' = verdicts /\ Held' = Held /\ runtime' = runtime
          /\ Ruling(call'.op, call'.state, call'.verdicts)
        BY <1>11 DEF Asks, Held, Stored, memory, disk
    <2>. QED  BY <1>6, <1>7, <2>1
<1>12. CASE SavesVerdicts
    <2>1. /\ Held' \subseteq Held \cup {call.verdicts} /\ runtime' = runtime /\ call' # call
          /\ call'.op = call.op /\ call'.verdicts = call.verdicts
          /\ verdicts' \in {verdicts, call.verdicts}
        BY <1>12 DEF SavesVerdicts, Continues, Held
    <2>2. call.op # "none"
        BY <1>0, <1>12 DEF SavesVerdicts, Ops
    <2>. QED  BY <1>1, <1>6, <1>7, <1>8, <2>1, <2>2
<1>13. CASE SavesState
    <2>1. /\ Held' \subseteq Held /\ runtime' = runtime /\ verdicts' = verdicts
          /\ call'.op = call.op /\ call'.verdicts = call.verdicts
        BY <1>13 DEF SavesState, Continues, Held
    <2>. QED  BY <1>1, <1>6, <1>7, <2>1
<1>14. CASE Announces
    <2>1. Held' = Stored \cup {call.verdicts} /\ verdicts' = call.verdicts
        BY <1>14 DEF Announces, Held, Stored, disk
    <2>2. call' # call /\ call.op # "none"
        BY <1>0, <1>14 DEF Announces, Ops
    <2>3. condemned' \subseteq Standing(call.verdicts)
        BY <1>8, <2>2
    <2>4. \A p \in runtime' : Release(p) \notin condemned'
        <3>1. CASE runtime' = runtime
            BY <1>7, <3>1
        <3>2. CASE runtime' = Live(call.state, call.verdicts)
            <4>. SUFFICES ASSUME NEW p \in Live(call.state, call.verdicts)
                          PROVE  Release(p) \notin Standing(call.verdicts)
                BY <2>3, <3>2
            <4>1. p \in Packs /\ Release(p) \in Releases
                BY VerdictMemory, LayersType, ReleaseType DEF Live
            <4>2. ~IsActive(call.verdicts[Release(p)], now)
                BY DEF Live, Blocks
            <4>. QED  BY <1>0, <4>1, <4>2, VerdictMemory, NothingExpires
        <3>. QED  BY <1>14, <3>1, <3>2 DEF Announces
    <2>5. call'.op # "none" => call'.verdicts = call.verdicts
        BY <1>0, <1>14 DEF Announces, Continues
    <2>. QED  BY <1>3, <1>6, <2>1, <2>3, <2>4, <2>5
<1>15. CASE SavesOwed
    <2>1. /\ Held' \subseteq Held \cup {call.verdicts} /\ runtime' = runtime
          /\ verdicts' = verdicts /\ call'.op = call.op /\ call'.verdicts = call.verdicts
        BY <1>15 DEF SavesOwed, Continues, Held
    <2>2. call.verdicts = verdicts /\ phase # "down"
        BY <1>2, <1>15 DEF SavesOwed, CallInv
    <2>. QED  BY <1>1, <1>3, <1>6, <1>7, <2>1, <2>2
<1>16. CASE Tidies
    BY <1>0, <1>6, <1>7, <1>16 DEF Tidies, Held, Stored, memory, disk
<1>17. CASE GivesUp
    <2>1. /\ Held' \subseteq Held \cup {call.verdicts} /\ runtime' = runtime /\ call' = NoCall
          /\ call.op # "none" /\ call' # call
        BY <1>0, <1>17 DEF GivesUp, Held, Ops
    <2>. QED  BY <1>0, <1>6, <1>7, <1>8, <2>1
<1>18. CASE Stops
    <2>1. runtime' = {} /\ call' = NoCall /\ Held' = Stored'
        BY <1>18 DEF Stops, Held
    <2>2. \A vs \in Stored' : condemned' \subseteq Standing(vs)
        <3>1. CASE Stored' \subseteq Stored
            BY <1>3, <1>6, <3>1
        <3>2. CASE call.step = "condemn" /\ Stored' \subseteq Stored \cup {call.verdicts}
            <4>1. call.op # "none" /\ call' # call
                BY <1>0, <2>1, <3>2 DEF Ops
            <4>. QED  BY <1>3, <1>6, <1>8, <3>2, <4>1
        <3>. QED  BY <1>18, <3>1, <3>2 DEF Stops
    <2>. QED  BY <1>0, <2>1, <2>2
<1>. QED
    BY <1>9, <1>10, <1>11, <1>12, <1>13, <1>14, <1>15, <1>16, <1>17, <1>18, EveryStepIsATurn
    DEF Turn

LEMMA RolledAlways == ASSUME FlushedBeforeOpen PROVE HistorySpec => []RolledInv
<1>1. Init /\ HistoryInit => RolledInv
    BY IdleCall DEF Init, HistoryInit, RolledInv
<1>2. TypeOK /\ PoolAccounted /\ Backbone /\ RulingInv /\ JudgedInv /\ RolledInv
        /\ [HistoryNext]_allVars => RolledInv'
    <2>. SUFFICES ASSUME TypeOK, PoolAccounted, Backbone, RulingInv, JudgedInv,
                         RolledInv, [HistoryNext]_allVars
                  PROVE  RolledInv'
        OBVIOUS
    <2>1. CASE UNCHANGED allVars
        BY <2>1 DEF allVars, vars, memory, disk, process, history, RolledInv, Held, Stored
    <2>2. CASE HistoryNext
        BY <2>2, RolledKept DEF HistoryNext
    <2>. QED  BY <2>1, <2>2
<1>. QED
    BY <1>1, <1>2, HistoryObserves, TypeCorrect, PoolAccountedAlways, BackboneAlways,
       RulingAlways, JudgedAlways, PTL
    DEF HistorySpec

(***************************************************************************)
(* Within one TTL a release whose trial was rolled back is never served    *)
(* again before a reset is asked to clear the blacklist, wherever the      *)
(* launch that rolled it back was cut (transaction_with_order,             *)
(* store.rs:967).                                                          *)
(***************************************************************************)
THEOREM RolledBackStaysOut ==
    ASSUME FlushedBeforeOpen PROVE HistorySpec => []RolledBackNeverLoads
<1>1. RolledInv => RolledBackNeverLoads
    BY DEF RolledInv, RolledBackNeverLoads
<1>. QED  BY <1>1, RolledAlways, PTL

-----------------------------------------------------------------------------
(***************************************************************************)
(* Stacks.  A patch and its parent belong to the same pack, and the parent *)
(* is missing only where its release stands on the blacklist.  That must   *)
(* hold of every state a launch may read with every blacklist it may read, *)
(* so what a revision left out must stand on the disk before it does.      *)
(***************************************************************************)
Released(s) == {Release(p) : p \in Referenced(s)}

Supported(p, rev, vs) ==
    Meta[p].parent # NoPack =>
        /\ Meta[Meta[p].parent].id = Meta[p].id
        /\ Meta[p].parent \in Layers(rev) \/ Release(Meta[p].parent) \in Standing(vs)

Closed(s, vs) == \A rev \in Slots(s) : \A p \in Layers(rev) : Supported(p, rev, vs)

Current == IF call.step = "publish" THEN call.verdicts ELSE verdicts

StackInv ==
    now < TransientTtl =>
        /\ \A s \in Files \cup {state, call.state}, vs \in Held : Closed(s, vs)
        /\ phase # "down" /\ ~verdictsPending =>
             \A vs \in Stored :
                Standing(Current) \cap (Released(state) \cup Released(call.state)) \subseteq Standing(vs)

LEMMA ReferencedSlots ==
    ASSUME NEW s
    PROVE  /\ \A p : p \in Referenced(s) <=> \E rev \in Slots(s) : p \in Layers(rev)
           /\ Layers(NoRev) = {}
BY DEF Referenced, Slots, Layers

LEMMA ClosedFacts ==
    ASSUME NEW s, NEW t
    PROVE  /\ Bare(s) => Released(s) = {} /\ \A vs : Closed(s, vs)
           /\ Slots(t) \subseteq Slots(s) \cup {NoRev} =>
                Released(t) \subseteq Released(s) /\ \A vs : Closed(s, vs) => Closed(t, vs)
           /\ \A vs, ws : Standing(vs) \subseteq Standing(ws) /\ Closed(s, vs) => Closed(s, ws)
<1>1. Bare(s) => Released(s) = {} /\ \A vs : Closed(s, vs)
    BY ReferencedSlots DEF Bare, Released, Closed
<1>2. Slots(t) \subseteq Slots(s) \cup {NoRev} => Released(t) \subseteq Released(s)
    BY ReferencedSlots DEF Released
<1>3. Slots(t) \subseteq Slots(s) \cup {NoRev} => \A vs : Closed(s, vs) => Closed(t, vs)
    BY ReferencedSlots DEF Closed
<1>4. \A vs, ws : Standing(vs) \subseteq Standing(ws) /\ Closed(s, vs) => Closed(s, ws)
    BY DEF Closed, Supported
<1>. QED  BY <1>1, <1>2, <1>3, <1>4

\* A revision drops a parent and keeps the patch only where the parent stands
\* on the blacklist: a pack that replaces the parent replaces the patch too.
LEMMA ComposedIsClosed ==
    ASSUME TypeOK, now < TransientTtl, NEW batch \in SUBSET Packs, NEW t \in States,
           Composed(t, batch), NEW vs, Closed(state, vs),
           Standing(verdicts) \cap Released(state) \subseteq Standing(vs)
    PROVE  Closed(t, vs)
<1>. DEFINE rev == Revision(state, verdicts, batch)
<1>0. /\ state \in States /\ verdicts \in [Releases -> Verdict] /\ now \in Nat
      /\ rev \in Revisions /\ rev # NoRev /\ Layers(rev) = rev
    <2>1. state \in States /\ verdicts \in [Releases -> Verdict] /\ now \in Nat
        BY VerdictMemory
    <2>2. rev \in Revisions
        BY <2>1, RevisionType
    <2>. QED  BY <2>1, <2>2, NoSuchRevision DEF Layers
<1>1. rev = Inherited(state, verdicts, batch) \cup batch
    BY DEF Revision
<1>2. ParentsMatch(rev, batch) /\ Slots(t) \subseteq Slots(state) \cup {rev}
    BY DEF Composed
<1>3. \A p \in Active(state) : p \in Packs /\ p \in Referenced(state)
    BY <1>0, LayersType DEF Active, Referenced
<1>. HIDE DEF rev
<1>4. ASSUME NEW p \in rev PROVE Supported(p, rev, vs)
    <2>1. CASE p \in batch
        BY <1>0, <1>2, <2>1 DEF ParentsMatch, Supported
    <2>2. CASE p \in Inherited(state, verdicts, batch)
        <3>. SUFFICES ASSUME Meta[p].parent # NoPack
                      PROVE  /\ Meta[Meta[p].parent].id = Meta[p].id
                             /\ Meta[p].parent \in rev \/ Release(Meta[p].parent) \in Standing(vs)
            BY <1>0 DEF Supported
        <3>. DEFINE d == Meta[p].parent
                    active == IF state.pointer = "booting" THEN state.booting ELSE state.committed
        <3>1. /\ p \in Active(state)
              /\ ~\E q \in batch : Meta[q].id = Meta[p].id /\ Meta[q].kind # "patch"
            BY <2>2 DEF Inherited
        <3>2. active \in Slots(state) /\ Active(state) = Layers(active)
            BY DEF Slots, Active
        <3>3. Supported(p, active, vs)
            BY <3>1, <3>2 DEF Closed
        <3>4. Meta[d].id = Meta[p].id /\ (d \in Active(state) \/ Release(d) \in Standing(vs))
            BY <3>2, <3>3 DEF Supported
        <3>5. CASE d \in Active(state)
            <4>1. CASE d \in rev
                BY <3>4, <4>1
            <4>2. CASE d \notin rev
                <5>1. Blocks(verdicts, d)
                    BY <1>1, <3>1, <3>4, <3>5, <4>2 DEF Inherited
                <5>2. d \in Packs /\ Release(d) \in Releases /\ Release(d) \in Released(state)
                    BY <1>3, <3>5, ReleaseType DEF Released
                <5>3. Release(d) \in Standing(verdicts)
                    BY <1>0, <5>1, <5>2, NothingExpires DEF Blocks
                <5>. QED  BY <3>4, <5>2, <5>3
            <4>. QED  BY <4>1, <4>2
        <3>. QED  BY <3>4, <3>5
    <2>. QED  BY <1>1, <2>1, <2>2
<1>. QED  BY <1>0, <1>2, <1>4 DEF Closed

\* What a staged revision brings does not stand on the blacklist.
LEMMA ComposedIsClear ==
    ASSUME TypeOK, now < TransientTtl, NEW batch \in SUBSET Packs, NEW t,
           Composed(t, batch), ~\E p \in batch : Blocks(verdicts, p)
    PROVE  Standing(verdicts) \cap Released(t) \subseteq Released(state)
<1>0. verdicts \in [Releases -> Verdict] /\ now \in Nat
    BY VerdictMemory
<1>1. \A p \in batch : Release(p) \notin Standing(verdicts)
    <2>. SUFFICES ASSUME NEW p \in batch PROVE Release(p) \notin Standing(verdicts)
        OBVIOUS
    <2>1. Release(p) \in Releases /\ ~IsActive(verdicts[Release(p)], now)
        BY ReleaseType DEF Blocks
    <2>. QED  BY <1>0, <2>1, NothingExpires
<1>2. \A p \in Inherited(state, verdicts, batch) : p \in Referenced(state)
    BY DEF Inherited, Active, Referenced
<1>3. Slots(t) \subseteq Slots(state) \cup {Revision(state, verdicts, batch)}
    BY DEF Composed
<1>4. \A p : p \in Layers(Revision(state, verdicts, batch)) => p \in Referenced(state) \cup batch
    BY <1>2 DEF Revision, Layers
<1>5. \A p \in Referenced(t) : p \in Referenced(state) \cup batch
    BY <1>3, <1>4, ReferencedSlots
<1>. QED  BY <1>1, <1>5 DEF Released

LEMMA StackKept ==
    ASSUME FlushedBeforeOpen, TypeOK, TypeOK', PoolAccounted, Backbone, RulingInv, JudgedInv, StackInv,
           [Next]_vars
    PROVE  StackInv'
<1>. SUFFICES ASSUME now' < TransientTtl
              PROVE  /\ \A s \in Files' \cup {state', call'.state}, vs \in Held' : Closed(s, vs)
                     /\ phase' # "down" /\ ~verdictsPending' =>
                          \A vs \in Stored' :
                             Standing(Current') \cap (Released(state') \cup Released(call'.state))
                                \subseteq Standing(vs)
    BY DEF StackInv, Closed, Supported, Standing, Released, Release, Releases, Stands, Slots,
           Layers, Referenced
<1>0. /\ now \in Nat /\ now < TransientTtl
      /\ NoCall.op = "none" /\ NoCall.step = "none" /\ Bare(NoCall.state) /\ Bare(NewState)
      /\ call = NoCall \/ call.op \in Ops
      /\ call.step # "none" => call.op \in Ops
    BY IdleCall, SlotsOfNew, TimeGoesOn, VerdictMemory, VerdictsAssumption DEF Calls
<1>1. /\ call.op \notin {"none", "reset"} => Standing(verdicts) \subseteq Standing(call.verdicts)
      /\ \A s \in Files \cup {state, call.state}, vs \in Held : Closed(s, vs)
      /\ phase # "down" /\ ~verdictsPending =>
           \A vs \in Stored :
              Standing(Current) \cap (Released(state) \cup Released(call.state)) \subseteq Standing(vs)
    BY <1>0 DEF JudgedInv, StackInv
<1>2. CallInv /\ LaunchInv /\ OwedInv
    BY DEF RulingInv
<1>3. Stored \subseteq Held /\ (phase # "down" => verdicts \in Held) /\ (phase' # "down" => Held' = Stored' \cup {verdicts'})
    BY DEF Held
<1>4. \A vs : Closed(NewState, vs) /\ Closed(NoCall.state, vs)
    BY <1>0, ClosedFacts
<1>5. Released(NoCall.state) = {} /\ Released(NewState) = {}
    BY <1>0, ClosedFacts
\* What is about to be saved or published can be read with what is there.
<1>6. ASSUME call.op # "none", call.op = "reset" => StateWritten
      PROVE  \A s \in Files \cup {call.state} : Closed(s, call.verdicts)
    <2>1. phase # "down" /\ verdicts \in Held
        BY <1>0, <1>3, <1>6 DEF Backbone, PhaseInv
    <2>2. CASE call.op # "reset"
        BY <1>1, <1>6, <2>1, <2>2, ClosedFacts
    <2>3. CASE call.op = "reset"
        <3>1. Same(visible.state, call.state) /\ Same(durable.state, call.state) /\ Bare(call.state)
            BY <1>2, <1>6, <2>1, <2>3 DEF Backbone, SyncInv, Reported, CallInv
        <3>2. \A s \in Files : Bare(s)
            BY <3>1 DEF Files, Same, SameTrial, Bare, Slots
        <3>. QED  BY <3>1, <3>2, ClosedFacts
    <2>. QED  BY <2>2, <2>3
<1>7. ASSUME call.op # "none", call.op = "reset" => StateWritten /\ call.state = state
      PROVE  \A s \in Files \cup {state, call.state} : Closed(s, call.verdicts)
    <2>1. phase # "down" /\ verdicts \in Held
        BY <1>0, <1>3, <1>7 DEF Backbone, PhaseInv
    <2>2. Closed(state, call.verdicts)
        BY <1>1, <1>6, <1>7, <2>1, ClosedFacts
    <2>. QED  BY <1>6, <1>7, <2>2
<1>8. CASE Waits
    <2>1. /\ Held' \subseteq Held /\ Files' \subseteq Files /\ state' = state /\ call' = call
          /\ Current' = Current
        BY <1>8 DEF Waits, Held, Current
    <2>2. ASSUME phase' # "down", ~verdictsPending'
          PROVE  \A vs \in Stored' :
                   Standing(Current) \cap (Released(state) \cup Released(call.state)) \subseteq Standing(vs)
        <3>1. CASE Stored' \subseteq Stored /\ verdictsPending' = verdictsPending
            BY <1>1, <1>8, <2>2, <3>1 DEF Waits
        <3>2. CASE call = NoCall /\ Stored' = {verdicts}
            BY <1>0, <3>2 DEF Current
        <3>. QED  BY <1>8, <2>2, <3>1, <3>2 DEF Waits
    <2>. QED  BY <1>1, <2>1, <2>2
<1>9. CASE Starts
    <2>1. /\ call' = NoCall /\ phase' = "opened" /\ Stored = {verdicts'} /\ Stored' = {verdicts'}
          /\ \A t \in Files' \cup {state'} : \E s \in Files : Slots(t) = Slots(s)
        BY <1>9 DEF Starts, Backbone, PhaseInv
    <2>2. Held' \subseteq Held
        BY <1>3, <2>1
    <2>3. \A t \in Files' \cup {state'}, vs \in Held' : Closed(t, vs)
        BY <1>1, <2>1, <2>2, ClosedFacts
    <2>. QED  BY <1>0, <1>4, <2>1, <2>3 DEF Current
<1>10. CASE Asks
    <2>1. /\ verdicts' = verdicts /\ Held' = Held /\ Stored' = Stored /\ Files' = Files
          /\ state' = state /\ call = NoCall /\ ~verdictsPending /\ phase # "down"
          /\ Ruling(call'.op, call'.state, call'.verdicts)
          /\ Current = verdicts /\ Current' = verdicts
        BY <1>0, <1>10 DEF Asks, Held, Stored, Files, Current, memory, disk
    <2>2. /\ call'.state \in States /\ Seeds \in SUBSET Packs
          /\ \A batch \in Batches : batch \in SUBSET Packs
        <3>1. call'.state \in States
            BY <1>10 DEF Asks, Calls
        <3>. QED  BY <3>1, StoreAssumption
    <2>3. /\ \A vs \in Stored : Standing(verdicts) \cap Released(state) \subseteq Standing(vs)
          /\ \A vs \in Held : Standing(verdicts) \cap Released(state) \subseteq Standing(vs)
        BY <1>1, <2>1 DEF Held
    <2>4. \A vs \in Held : Closed(call'.state, vs)
        <3>1. CASE Bare(call'.state) \/ Slots(call'.state) \subseteq Slots(state) \cup {NoRev}
            BY <1>1, <2>1, <3>1, ClosedFacts
        <3>2. CASE \E batch \in SUBSET Packs : Composed(call'.state, batch)
            BY <1>0, <1>1, <2>2, <2>3, <3>2, ComposedIsClosed
        <3>. QED  BY <2>1, <2>2, <3>1, <3>2 DEF Ruling
    <2>5. \A vs \in Stored : Standing(verdicts) \cap Released(call'.state) \subseteq Standing(vs)
        <3>1. CASE Bare(call'.state) \/ Slots(call'.state) \subseteq Slots(state) \cup {NoRev}
            BY <2>3, <3>1, ClosedFacts
        <3>2. CASE \E batch \in SUBSET Packs : /\ Composed(call'.state, batch)
                                               /\ ~\E p \in batch : Blocks(verdicts, p)
            <4>1. Standing(verdicts) \cap Released(call'.state) \subseteq Released(state)
                BY <1>0, <3>2, ComposedIsClear
            <4>. QED  BY <2>3, <4>1
        <3>3. CASE phase = "opened"
            <4>1. Stored = {verdicts}
                BY <1>0, <1>2, <2>1, <3>3 DEF LaunchInv
            <4>. QED  BY <4>1
        <3>. QED  BY <2>1, <2>2, <3>1, <3>2, <3>3 DEF Ruling
    <2>. QED  BY <1>1, <2>1, <2>3, <2>4, <2>5
<1>11. CASE SavesVerdicts
    <2>1. /\ Stored' = {call.verdicts} /\ Held' \subseteq {call.verdicts, verdicts}
          /\ Files' \subseteq Files /\ state' = state /\ call'.state = call.state
          /\ Current' = call.verdicts /\ phase # "down"
        <3>1. Current' = call.verdicts
            BY <1>11 DEF SavesVerdicts, Continues, Current
        <3>2. Held' \subseteq {call.verdicts, verdicts}
            BY <1>11 DEF SavesVerdicts, Held
        <3>. QED  BY <1>11, <3>1, <3>2 DEF SavesVerdicts, Continues
    <2>2. call.op # "none" /\ (call.op = "reset" => StateWritten /\ call.state = state)
        BY <1>0, <1>2, <1>11 DEF SavesVerdicts, StateWritten, CallInv, PoolAccounted, Ops
    <2>3. \A s \in Files \cup {state, call.state} : Closed(s, call.verdicts)
        BY <1>7, <2>2
    <2>. QED  BY <1>1, <1>3, <2>1, <2>3
<1>12. CASE SavesState
    <2>1. /\ Held' \subseteq Held /\ Stored' \subseteq Stored /\ Files' = {call.state}
          /\ state' = state /\ call'.state = call.state /\ verdictsPending' = verdictsPending
          /\ phase # "down" /\ Current = verdicts
        BY <1>12 DEF SavesState, Continues, Held, Current
    <2>2. Standing(Current') \subseteq Standing(Current)
        <3>1. Current' \in {verdicts, NoVerdicts}
            BY <1>0, <1>2, <1>12 DEF SavesState, Continues, Current, CallInv, Ops
        <3>. QED  BY <2>1, <3>1, NothingStands
    <2>. QED  BY <1>1, <2>1, <2>2
<1>13. CASE Announces
    <2>1. /\ Stored' = Stored /\ Files' = Files /\ state' = call.state /\ verdicts' = call.verdicts
          /\ Held' = Stored \cup {call.verdicts} /\ phase # "down" /\ StateWritten
          /\ call' = NoCall \/ call'.state = call.state
          /\ Current = call.verdicts
        BY <1>13 DEF Announces, Continues, Stored, Files, Held, disk, StateWritten, Current
    <2>2. Current' = call.verdicts
        BY <1>0, <1>13 DEF Announces, Current
    <2>3. call.op # "none" /\ ~verdictsPending
        BY <1>0, <1>2, <1>13 DEF Announces, OwedInv, Ops
    <2>4. \A s \in Files \cup {call.state} : Closed(s, call.verdicts)
        BY <1>6, <2>1, <2>3
    <2>. QED  BY <1>1, <1>3, <1>4, <1>5, <2>1, <2>2, <2>3, <2>4
<1>14. CASE SavesOwed
    <2>1. /\ call.verdicts = verdicts /\ phase # "down" /\ Stored' = {verdicts}
          /\ Held' \subseteq Held /\ Files' \subseteq Files /\ state' = state
          /\ call'.state = call.state
        BY <1>2, <1>14 DEF SavesOwed, CallInv, Continues, Held
    <2>2. Current' = verdicts
        BY <1>14 DEF SavesOwed, Current
    <2>. QED  BY <1>1, <2>1, <2>2
<1>15. CASE Tidies
    <2>1. /\ Held' = Held /\ Stored' = Stored /\ Files' = Files /\ state' = state
          /\ call' = NoCall /\ verdictsPending' = verdictsPending /\ phase # "down"
          /\ Current' = Current
        BY <1>0, <1>15 DEF Tidies, Held, Stored, Files, Current, memory, disk
    <2>. QED  BY <1>1, <1>4, <1>5, <2>1
<1>16. CASE GivesUp
    <2>1. /\ call' = NoCall /\ state' = state /\ verdicts' = verdicts /\ phase # "down"
          /\ verdictsPending' = verdictsPending /\ Current = verdicts /\ Current' = verdicts
        BY <1>0, <1>16 DEF GivesUp, Current
    <2>2. CASE Stored' \subseteq Stored /\ Files' \subseteq Files \cup {call.state}
        <3>1. Held' \subseteq Held
            BY <2>1, <2>2 DEF Held
        <3>. QED  BY <1>1, <1>4, <1>5, <2>1, <2>2, <3>1
    <2>3. CASE /\ call.step \in {"verdicts", "trailing"}
               /\ Stored' \subseteq Stored \cup {call.verdicts} /\ Files' \subseteq Files
        <3>1. call.op # "none" /\ StateWritten /\ call.state = state
            BY <1>0, <2>3 DEF StateWritten, PoolAccounted, Ops
        <3>2. \A s \in Files \cup {state} : Closed(s, call.verdicts)
            BY <1>7, <3>1
        <3>3. Held' \subseteq Held \cup {call.verdicts}
            BY <2>1, <2>3 DEF Held
        <3>4. Standing(verdicts) \cap Released(state) \subseteq Standing(call.verdicts)
            <4>1. call.op = "reset" => Released(state) = {}
                BY <1>2, <3>1, ClosedFacts DEF CallInv
            <4>. QED  BY <1>1, <3>1, <4>1
        <3>. QED  BY <1>1, <1>4, <1>5, <2>1, <2>3, <3>2, <3>3, <3>4
    <2>. QED  BY <1>16, <2>2, <2>3 DEF GivesUp
<1>17. CASE Stops
    <2>1. phase' = "down" /\ state' = NewState /\ call' = NoCall /\ Held' = Stored'
        BY <1>17 DEF Stops, Held
    <2>2. CASE Stored' \subseteq Stored /\ Files' \subseteq Files \cup {call.state}
        BY <1>1, <1>3, <1>4, <2>1, <2>2
    <2>3. CASE /\ call.step = "condemn"
               /\ Stored' \subseteq Stored \cup {call.verdicts} /\ Files' \subseteq Files
        <3>1. call.op # "none" /\ call.op # "reset"
            BY <1>2, <2>3 DEF CallInv
        <3>2. \A s \in Files : Closed(s, call.verdicts)
            BY <1>6, <3>1
        <3>. QED  BY <1>1, <1>3, <1>4, <2>1, <2>3, <3>2
    <2>. QED  BY <1>17, <2>2, <2>3 DEF Stops
<1>. QED
    BY <1>8, <1>9, <1>10, <1>11, <1>12, <1>13, <1>14, <1>15, <1>16, <1>17, EveryStepIsATurn
    DEF Turn

LEMMA StackAlways == ASSUME FlushedBeforeOpen PROVE Spec => []StackInv
<1>1. ASSUME Init PROVE StackInv
    <2>1. \A s \in Files \cup {state, call.state} : Bare(s)
        BY <1>1, IdleCall, SlotsOfNew DEF Init, Files
    <2>2. phase = "down"
        BY <1>1 DEF Init
    <2>. QED  BY <2>1, <2>2, ClosedFacts DEF StackInv
<1>. QED
    BY <1>1, StackKept, TypeCorrect, PoolAccountedAlways, BackboneAlways, RulingAlways,
       JudgedAlways, PTL
    DEF Spec

(***************************************************************************)
(* Within one TTL a patch stands in a revision without its parent only     *)
(* where the blacklist keeps the parent out (active_entries_excluding_     *)
(* blacklist, store.rs:747), after any crash the files can be read after.  *)
(***************************************************************************)
THEOREM StacksAlwaysClosed == ASSUME FlushedBeforeOpen PROVE Spec => []StacksClosed
<1>1. ASSUME TypeOK, RulingInv, StackInv PROVE StacksClosed
    <2>. SUFFICES ASSUME now < TransientTtl, NEW rev \in Slots(state),
                         NEW p \in Layers(rev), Meta[p].parent # NoPack,
                         Meta[p].parent \notin Layers(rev)
                  PROVE  Blocks(verdicts, Meta[p].parent)
        BY DEF StacksClosed, WithoutParent, Slots
    <2>1. phase # "down"
        BY <1>1, SlotsOfNew DEF RulingInv, LaunchInv, Bare, Layers
    <2>2. Closed(state, verdicts)
        BY <1>1, <2>1 DEF StackInv, Held
    <2>3. Release(Meta[p].parent) \in Standing(verdicts)
        BY <2>2 DEF Closed, Supported
    <2>4. verdicts \in [Releases -> Verdict] /\ now \in Nat
        BY <1>1, VerdictMemory
    <2>. QED  BY <2>3, <2>4, NothingExpires DEF Blocks, Standing
<1>. QED  BY <1>1, TypeCorrect, RulingAlways, StackAlways, PTL
-----------------------------------------------------------------------------
(***************************************************************************)
(* Downgrades within one TTL.  The floor is compared when a revision is    *)
(* staged; the invariant is that a revision that waits, or is on trial, has*)
(* kept up with what was acknowledged since, unless a bundled pack or a    *)
(* conviction accounts for the difference.                                 *)
(***************************************************************************)
\* The stack a launch serves, and what an update of it was built on.
Stack(s) == Layers(IF OnTrial(s) THEN s.booting ELSE s.committed)
Pending(s) == {s.staged} \cup (IF OnTrial(s) THEN {s.booting} ELSE {})

\* What a pending revision brings, neither bundled nor acknowledged already.
Extra(rev, s) == Layers(rev) \ ((Layers(s.committed) \cap Stack(s)) \cup Seeds)

Excused(rev, vs, i, ver) == Offers(rev \cup Seeds, i, ver) \/ Convicted(vs, i, ver)

\* A pending revision meets the floor in every id it brings something to; and
\* a staged one is no step back from the stack it is to replace.
Due(s, vs, floor) ==
    /\ \A rev \in Pending(s) : \A p \in Extra(rev, s) :
          Excused(rev, vs, Meta[p].id, floor[Meta[p].id])
    /\ s.staged # NoRev =>
          \A p \in Stack(s) : Excused(s.staged, vs, Meta[p].id, Meta[p].ver)

Sure(s) == s.pointer = "booting" => s.booting # NoRev

SureInv ==
    /\ \A s \in Files \cup {state, call.state} : Sure(s)
    /\ call.op \in {"seed", "commit"} => ~OnTrial(call.state)

DueInv ==
    now < TransientTtl =>
        \A s \in Files \cup {state, call.state}, vs \in Held : Due(s, vs, promised.floor)

-----------------------------------------------------------------------------
LEMMA ExcusedLater ==
    ASSUME NEW rev, NEW vs, NEW ws, NEW i, NEW ver, Excused(rev, vs, i, ver),
           Standing(vs) \subseteq Standing(ws)
    PROVE  Excused(rev, ws, i, ver)
BY DEF Excused, Convicted, Standing

LEMMA DueFacts ==
    ASSUME NEW s, NEW t, NEW floor
    PROVE  /\ Bare(s) => \A vs : Due(s, vs, floor)
           /\ Same(t, s) => \A vs : Due(s, vs, floor) => Due(t, vs, floor)
           /\ \A vs, ws : Standing(vs) \subseteq Standing(ws) /\ Due(s, vs, floor)
                 => Due(s, ws, floor)
<1>1. ASSUME Bare(s), NEW vs PROVE Due(s, vs, floor)
    <2>1. s.staged = NoRev /\ s.booting = NoRev /\ ~OnTrial(s)
        BY <1>1 DEF Bare, Slots, OnTrial
    <2>2. Pending(s) = {NoRev} /\ Extra(NoRev, s) = {}
        BY <2>1 DEF Pending, Extra, Layers
    <2>. QED  BY <2>1, <2>2 DEF Due
<1>2. ASSUME Same(t, s), NEW vs, Due(s, vs, floor) PROVE Due(t, vs, floor)
    <2>1. t.staged = s.staged /\ Pending(t) = Pending(s) /\ Stack(t) = Stack(s)
        BY <1>2 DEF Same, SameTrial, Pending, Stack
    <2>2. \A rev : Extra(rev, t) = Extra(rev, s)
        BY <1>2, <2>1 DEF Extra, Same, SameTrial
    <2>. QED  BY <1>2, <2>1, <2>2 DEF Due
<1>3. ASSUME NEW vs, NEW ws, Standing(vs) \subseteq Standing(ws), Due(s, vs, floor)
      PROVE  Due(s, ws, floor)
    BY <1>3, ExcusedLater DEF Due
<1>. QED  BY <1>1, <1>2, <1>3

\* Packs, their ids and their versions.
LEMMA PackParts ==
    ASSUME NEW p \in Packs
    PROVE  /\ Meta[p].id \in Ids /\ Meta[p].ver \in Nat
           /\ Release(p) \in Releases /\ Release(p) = <<Meta[p].id, Meta[p].ver>>
BY RevisionsAssumption, ReleaseType DEF Release

\* An excuse at a version is one at every lower version.
LEMMA ExcusedBelow ==
    ASSUME NEW rev \in SUBSET Packs, NEW vs, NEW i, NEW high \in Nat, NEW low \in Nat, low <= high,
           Excused(rev, vs, i, high)
    PROVE  Excused(rev, vs, i, low)
<1>1. CASE Offers(rev \cup Seeds, i, high)
    <2>1. PICK q \in rev \cup Seeds : Meta[q].id = i /\ Meta[q].ver >= high
        BY <1>1 DEF Offers
    <2>2. q \in Packs
        BY <2>1, StoreAssumption
    <2>3. Meta[q].ver >= low
        BY <2>1, <2>2, PackParts
    <2>. QED  BY <2>1, <2>3 DEF Excused, Offers
<1>2. CASE Convicted(vs, i, high)
    <2>1. PICK r \in Releases : r[1] = i /\ r[2] >= high /\ Stands(vs[r])
        BY <1>2 DEF Convicted
    <2>2. PICK p \in Packs : r = Release(p)
        BY <2>1 DEF Releases
    <2>3. r[2] \in Nat
        BY <2>2, PackParts
    <2>4. r[2] >= low
        BY <2>1, <2>3
    <2>. QED  BY <2>1, <2>4 DEF Excused, Convicted
<1>. QED  BY <1>1, <1>2 DEF Excused

LEMMA PackExcuses ==
    ASSUME NEW rev, NEW vs, NEW p \in Packs
    PROVE  /\ p \in rev \cup Seeds => Excused(rev, vs, Meta[p].id, Meta[p].ver)
           /\ Release(p) \in Standing(vs) => Excused(rev, vs, Meta[p].id, Meta[p].ver)
           /\ \A q \in rev : Meta[q].id = Meta[p].id /\ Meta[p].ver < Meta[q].ver /\ q \in Packs
                 => Excused(rev, vs, Meta[p].id, Meta[p].ver)
<1>1. Meta[p].ver \in Nat /\ Meta[p].ver >= Meta[p].ver
    BY PackParts
<1>2. p \in rev \cup Seeds => Excused(rev, vs, Meta[p].id, Meta[p].ver)
    BY <1>1 DEF Excused, Offers
<1>3. ASSUME Release(p) \in Standing(vs) PROVE Convicted(vs, Meta[p].id, Meta[p].ver)
    <2>1. Release(p)[1] = Meta[p].id /\ Release(p)[2] = Meta[p].ver
        BY DEF Release
    <2>. QED  BY <1>1, <1>3, <2>1 DEF Convicted, Standing
<1>4. ASSUME NEW q \in rev, Meta[q].id = Meta[p].id, Meta[p].ver < Meta[q].ver, q \in Packs
      PROVE  Offers(rev \cup Seeds, Meta[p].id, Meta[p].ver)
    <2>1. Meta[q].ver >= Meta[p].ver
        BY <1>4, PackParts
    <2>. QED  BY <1>4, <2>1 DEF Offers
<1>. QED  BY <1>2, <1>3, <1>4 DEF Excused

\* States that hold the same revisions, one on trial when the other is.
SameSlots(t, s) ==
    /\ t.staged = s.staged /\ t.booting = s.booting /\ t.committed = s.committed
    /\ OnTrial(t) <=> OnTrial(s)

LEMMA SameDue ==
    ASSUME NEW s, NEW t, SameSlots(t, s), NEW vs, NEW floor, Due(s, vs, floor)
    PROVE  Due(t, vs, floor)
<1>1. t.staged = s.staged /\ Pending(t) = Pending(s) /\ Stack(t) = Stack(s)
    BY DEF SameSlots, Pending, Stack
<1>2. \A rev : Extra(rev, t) = Extra(rev, s)
    BY <1>1 DEF Extra, SameSlots
<1>. QED  BY <1>1, <1>2 DEF Due

LEMMA StackFacts ==
    ASSUME NEW s \in States
    PROVE  /\ Sure(s) => Active(s) = Stack(s)
           /\ Stack(s) \subseteq Packs
           /\ \A p \in Stack(s) : p \in Layers(s.booting) \cup Layers(s.committed)
           /\ OnTrial(s) => Stack(s) = s.booting /\ s.booting \in SUBSET Packs
           /\ ~OnTrial(s) => Stack(s) = Layers(s.committed)
<1>1. Sure(s) => Active(s) = Stack(s)
    BY DEF Sure, Active, Stack, OnTrial
<1>2. Layers(s.booting) \subseteq Packs /\ Layers(s.committed) \subseteq Packs
    BY StateFields, LayersType DEF Revisions, Layers
<1>3. OnTrial(s) => Stack(s) = s.booting
    BY DEF OnTrial, Stack, Layers
<1>4. ~OnTrial(s) => Stack(s) = Layers(s.committed)
    BY DEF Stack
<1>. QED  BY <1>1, <1>2, <1>3, <1>4 DEF Stack, Layers

-----------------------------------------------------------------------------
(***************************************************************************)
(* What each operation asks for, and that it keeps up with the floors.     *)
(***************************************************************************)
Updated(batch) ==
    [state EXCEPT !.staged = Revision(state, verdicts, batch), !.lastError = "none"]

Plan(op, s) ==
    \/ op = "seed" /\ state.committed = NoRev /\ s = Seeded
    \/ op = "boot" /\ \E vs : s = Promoted(Tried(state), vs)
    \/ op = "commit" /\ s = Acknowledged(state)
    \/ /\ op = "stage"
       /\ \E batch \in Batches :
             /\ Offered(batch)
             /\ FloorsReached(state, Revision(state, verdicts, batch), batch)
             /\ s = Updated(batch)
    \/ op = "reset" /\ s = Cleared(state)
    \/ op \in {"observe", "record", "error"} /\ SameSlots(s, state) /\ s.pointer = state.pointer

LEMMA BeginPlan ==
    ASSUME NEW op, NEW s, NEW vs, Begin(op, s, vs)
    PROVE  call'.op = op /\ call'.state = s
BY DEF Begin

LEMMA PlanCase ==
    ASSUME TypeOK, Next, call = NoCall, call' # NoCall
    PROVE  Plan(call'.op, call'.state)
<1>0. state \in States /\ NoCall.step = "none"
    BY VerdictMemory, IdleCall
<1>1. CASE Launch
    <2>1. Begin("seed", Seeded, verdicts) /\ SeedIfAbsent => Plan(call'.op, call'.state)
        BY BeginPlan DEF Plan, SeedIfAbsent
    <2>2. Boot => Plan(call'.op, call'.state)
        <3>. SUFFICES ASSUME Boot PROVE Plan(call'.op, call'.state)
            OBVIOUS
        <3>1. PICK vs : Begin("boot", Promoted(Tried(state), vs), vs)
            BY DEF Boot
        <3>. QED  BY <3>1, BeginPlan DEF Plan
    <2>3. RecordFailure => Plan(call'.op, call'.state)
        <3>. SUFFICES ASSUME RecordFailure PROVE Plan(call'.op, call'.state)
            OBVIOUS
        <3>1. PICK vs : Begin("record", state, vs)
            BY DEF RecordFailure
        <3>. QED  BY <3>1, BeginPlan DEF Plan, SameSlots
    <2>4. Open \/ SeedNotNeeded \/ LoadLayers => call' = call
        BY DEF Open, SeedNotNeeded, LoadLayers
    <2>5. SeedIfAbsent => call' = call \/ Begin("seed", Seeded, verdicts)
        BY DEF SeedIfAbsent
    <2>. QED  BY <1>1, <2>1, <2>2, <2>3, <2>4, <2>5 DEF Launch
<1>2. CASE Operation
    <2>1. ASSUME NotifyReady PROVE Plan(call'.op, call'.state)
        BY <2>1, BeginPlan DEF NotifyReady, Plan
    <2>2. ASSUME NEW batch \in Batches, Stage(batch) PROVE Plan(call'.op, call'.state)
        <3>1. /\ Offered(batch)
              /\ FloorsReached(state, Revision(state, verdicts, batch), batch)
              /\ Begin("stage", Updated(batch), verdicts)
            BY <2>2 DEF Stage, Updated
        <3>. QED  BY <3>1, BeginPlan DEF Plan
    <2>3. ASSUME NEW clear \in BOOLEAN, Reset(clear) PROVE Plan(call'.op, call'.state)
        <3>1. PICK vs : Begin("reset", Cleared(state), vs)
            BY <2>3 DEF Reset
        <3>. QED  BY <3>1, BeginPlan DEF Plan
    <2>4. ASSUME NEW w \in 0 .. MaxWatermark, NEW e \in 1 .. MaxEpoch, ObserveChannel(w, e)
          PROVE  Plan(call'.op, call'.state)
        <3>. DEFINE s == [state EXCEPT !.watermark = Larger(@, w), !.epoch = Larger(@, e),
                                       !.lastError = "none"]
        <3>1. Begin("observe", s, verdicts)
            BY <2>4 DEF ObserveChannel
        <3>2. SameSlots(s, state) /\ s.pointer = state.pointer
            BY <1>0 DEF SameSlots, OnTrial, States
        <3>. HIDE DEF s
        <3>. QED  BY <3>1, <3>2, BeginPlan DEF Plan
    <2>5. ASSUME NEW code \in ErrorCodes, RecordLastError(code) PROVE Plan(call'.op, call'.state)
        <3>. DEFINE s == [state EXCEPT !.lastError = code]
        <3>1. Begin("error", s, verdicts)
            BY <2>5 DEF RecordLastError
        <3>2. SameSlots(s, state) /\ s.pointer = state.pointer
            BY <1>0 DEF SameSlots, OnTrial, States
        <3>. HIDE DEF s
        <3>. QED  BY <3>1, <3>2, BeginPlan DEF Plan
    <2>. QED  BY <1>2, <2>1, <2>2, <2>3, <2>4, <2>5 DEF Operation
<1>3. CASE Progress
    BY <1>0, <1>3 DEF Progress, SaveCondemned, SaveState, SaveVerdicts, Publish,
       SaveTrailingVerdicts, RetryVerdicts, CollectGarbage, process
<1>4. CASE Environment
    BY <1>4 DEF Environment, Kill, PowerLoss, Forget, WriteBack, Tick, process
<1>. QED  BY <1>1, <1>2, <1>3, <1>4 DEF Next

\* A layer of the active stack is kept, blocked, or replaced by a newer one.
LEMMA LayerAnswered ==
    ASSUME TypeOK, now < TransientTtl, NEW batch \in SUBSET Packs, NEW vs,
           Standing(verdicts) \cap Released(state) \subseteq Standing(vs),
           \A q \in batch : \A p \in InstalledLayers(state, verdicts) :
              Meta[p].id = Meta[q].id => Meta[p].ver < Meta[q].ver,
           NEW p \in Active(state)
    PROVE  Excused(Revision(state, verdicts, batch), vs, Meta[p].id, Meta[p].ver)
<1>. DEFINE rev == Revision(state, verdicts, batch)
<1>0. /\ state \in States /\ verdicts \in [Releases -> Verdict] /\ now \in Nat
      /\ p \in Packs /\ p \in Referenced(state)
    BY VerdictMemory, LayersType
<1>1. CASE p \in rev
    BY <1>0, <1>1, PackExcuses
<1>2. CASE Blocks(verdicts, p)
    <2>1. Release(p) \in Standing(verdicts)
        BY <1>0, <1>2, ReleaseType, NothingExpires DEF Blocks
    <2>2. Release(p) \in Released(state)
        BY <1>0 DEF Released
    <2>. QED  BY <1>0, <2>1, <2>2, PackExcuses
<1>3. CASE p \notin rev /\ ~Blocks(verdicts, p)
    <2>1. PICK q \in batch : Meta[q].id = Meta[p].id
        BY <1>3 DEF Revision, Inherited
    <2>2. p \in InstalledLayers(state, verdicts)
        BY <1>3 DEF InstalledLayers, Active
    <2>3. Meta[p].ver < Meta[q].ver /\ q \in rev /\ q \in Packs
        BY <2>1, <2>2 DEF Revision
    <2>. QED  BY <1>0, <2>1, <2>3, PackExcuses
<1>. QED  BY <1>1, <1>2, <1>3

LEMMA UpdateDue ==
    ASSUME TypeOK, now < TransientTtl, NEW floor \in [Ids -> Nat],
           \A i \in Ids : state.floor[i] >= floor[i],
           Sure(state), NEW vs, Due(state, vs, floor),
           Standing(verdicts) \cap Released(state) \subseteq Standing(vs),
           NEW batch \in Batches, Offered(batch),
           FloorsReached(state, Revision(state, verdicts, batch), batch)
    PROVE  Due(Updated(batch), vs, floor)
<1>. DEFINE rev == Revision(state, verdicts, batch)  t == Updated(batch)
<1>0. /\ state \in States /\ batch \in SUBSET Packs /\ rev \in Revisions
      /\ rev # NoRev /\ rev \in SUBSET Packs /\ Layers(rev) = rev
      /\ state.floor \in [Ids -> Nat]
    <2>1. state \in States /\ batch \in SUBSET Packs
        BY VerdictMemory, StoreAssumption
    <2>2. rev \in Revisions
        BY <2>1, RevisionType
    <2>. QED  BY <2>1, <2>2, NoSuchRevision, StateParts DEF Layers, Revisions
<1>1. /\ t.staged = rev /\ t.booting = state.booting /\ t.committed = state.committed
      /\ OnTrial(t) <=> OnTrial(state)
    BY <1>0 DEF Updated, OnTrial, States
<1>2. Stack(t) = Stack(state) /\ Active(state) = Stack(state)
    BY <1>0, <1>1, StackFacts DEF Stack
<1>3. \A r : Extra(r, t) = Extra(r, state)
    BY <1>1, <1>2 DEF Extra
<1>4. \A p \in Stack(state) : Excused(rev, vs, Meta[p].id, Meta[p].ver)
    <2>1. \A q \in batch : \A p \in InstalledLayers(state, verdicts) :
              Meta[p].id = Meta[q].id => Meta[p].ver < Meta[q].ver
        BY DEF Offered
    <2>. QED  BY <1>0, <1>2, <2>1, LayerAnswered
<1>. HIDE DEF t
<1>5. ASSUME NEW p \in Extra(rev, state)
      PROVE  Excused(rev, vs, Meta[p].id, floor[Meta[p].id])
    <2>. DEFINE i == Meta[p].id
    <2>0. p \in rev /\ p \in Packs /\ i \in Ids /\ floor[i] \in Nat /\ p \notin Seeds
        BY <1>0, PackParts DEF Extra
    <2>1. CASE p \in batch
        <3>1. PICK q \in rev : Meta[q].id = i /\ Meta[q].ver >= state.floor[i]
            BY <2>1 DEF FloorsReached
        <3>2. Meta[q].ver >= floor[i]
            <4>1. Meta[q].ver \in Nat /\ state.floor[i] \in Nat /\ state.floor[i] >= floor[i]
                BY <1>0, <2>0, <3>1, PackParts
            <4>. QED  BY <2>0, <3>1, <4>1
        <3>. QED  BY <3>1, <3>2 DEF Excused, Offers
    <2>2. CASE p \notin batch
        <3>1. p \in Stack(state) /\ p \notin Layers(state.committed)
            BY <1>2, <2>0, <2>2 DEF Revision, Inherited, Extra
        <3>2. OnTrial(state) /\ state.booting = Stack(state) /\ state.booting \in SUBSET Packs
            BY <1>0, <3>1, StackFacts
        <3>3. state.booting \in Pending(state) /\ p \in Extra(state.booting, state)
            <4>1. Layers(state.booting) = state.booting
                BY <3>2 DEF OnTrial, Layers
            <4>. QED  BY <2>0, <3>1, <3>2, <4>1 DEF Pending, Extra
        <3>4. Excused(state.booting, vs, i, floor[i])
            BY <3>3 DEF Due
        <3>5. CASE Offers(state.booting \cup Seeds, i, floor[i])
            <4>1. PICK q \in state.booting \cup Seeds : Meta[q].id = i /\ Meta[q].ver >= floor[i]
                BY <3>5 DEF Offers
            <4>2. CASE q \in Seeds
                BY <4>1, <4>2 DEF Excused, Offers
            <4>3. CASE q \in state.booting
                <5>1. Excused(rev, vs, i, Meta[q].ver) /\ Meta[q].ver \in Nat
                    BY <1>4, <3>2, <4>1, <4>3, PackParts
                <5>. QED  BY <1>0, <2>0, <4>1, <5>1, ExcusedBelow
            <4>. QED  BY <4>1, <4>2, <4>3
        <3>6. CASE Convicted(vs, i, floor[i])
            BY <3>6 DEF Excused
        <3>. QED  BY <3>4, <3>5, <3>6 DEF Excused
    <2>. QED  BY <2>1, <2>2
<1>. HIDE DEF rev
<1>6. ASSUME NEW r \in Pending(t), NEW p \in Extra(r, t)
      PROVE  Excused(r, vs, Meta[p].id, floor[Meta[p].id])
    <2>1. r = rev \/ r \in Pending(state)
        BY <1>1 DEF Pending
    <2>. QED  BY <1>3, <1>5, <1>6, <2>1 DEF Due
<1>. QED  BY <1>1, <1>2, <1>4, <1>6 DEF Due, t

LEMMA SeedDue ==
    ASSUME TypeOK, NEW floor, Sure(state), NEW vs, Due(state, vs, floor), state.committed = NoRev
    PROVE  Due(Seeded, vs, floor) /\ Seeded.pointer = "committed"
<1>. DEFINE rev == Revision(state, verdicts, Seeds)
            s == [state EXCEPT !.committed = rev, !.pointer = "committed"]
            t == Seeded
<1>0. state \in States /\ Seeds \in SUBSET Packs /\ rev \in Revisions /\ Layers(rev) = rev
    <2>1. state \in States /\ Seeds \in SUBSET Packs
        BY VerdictMemory, StoreAssumption
    <2>2. rev \in Revisions
        BY <2>1, RevisionType
    <2>. QED  BY <2>1, <2>2, NoSuchRevision DEF Layers
<1>1. /\ s.staged = state.staged /\ s.booting = state.booting /\ s.committed = rev
      /\ s.pointer = "committed" /\ s \in States
    BY <1>0 DEF States
<1>2. t = RaiseVersionFloor(s)
    BY DEF Seeded
<1>3. /\ t.staged = state.staged /\ t.booting = state.booting /\ t.committed = rev
      /\ t.pointer = "committed"
    <2>. HIDE DEF s
    <2>. QED  BY <1>1, <1>2 DEF RaiseVersionFloor, States
<1>. HIDE DEF t, s
<1>4. ~OnTrial(t) /\ Stack(t) = rev /\ Pending(t) = {state.staged}
    BY <1>0, <1>3 DEF OnTrial, Stack, Pending
<1>5. \A p \in Extra(state.staged, t) : p \in Extra(state.staged, state)
    BY <1>0, <1>3, <1>4 DEF Extra, Layers
<1>6. \A p \in Extra(state.staged, t) : Excused(state.staged, vs, Meta[p].id, floor[Meta[p].id])
    BY <1>5 DEF Due, Pending
<1>7. ASSUME state.staged # NoRev, NEW p \in rev
      PROVE  Excused(state.staged, vs, Meta[p].id, Meta[p].ver)
    <2>1. CASE p \in Seeds
        BY <1>0, <2>1, PackExcuses
    <2>2. CASE p \in Active(state)
        BY <1>0, <1>7, <2>2, StackFacts DEF Due
    <2>. QED  BY <1>7, <2>1, <2>2 DEF Revision, Inherited
<1>. QED  BY <1>3, <1>4, <1>6, <1>7 DEF Due, t

LEMMA LaunchDue ==
    ASSUME NEW s \in States, NEW ws, NEW t, t = Promoted(Tried(s), ws), NEW floor, NEW vs,
           Due(s, vs, floor)
    PROVE  Due(t, vs, floor)
<1>0. t.committed = s.committed
    BY LaunchFields
<1>1. CASE OnTrial(s) /\ OnTrial(t) /\ t.booting = s.booting /\ t.staged = s.staged
    BY <1>0, <1>1, SameDue DEF SameSlots
<1>2. CASE ~OnTrial(t) /\ t.staged = NoRev
    <2>1. Pending(t) = {NoRev} /\ Extra(NoRev, t) = {}
        BY <1>2 DEF Pending, Extra, Layers
    <2>. QED  BY <1>2, <2>1 DEF Due
<1>3. CASE ~OnTrial(s) /\ ~OnTrial(t) /\ t.staged = s.staged /\ t.booting = s.booting
    BY <1>0, <1>3, SameDue DEF SameSlots
<1>4. CASE OnTrial(t) /\ s.staged # NoRev /\ t.booting = s.staged /\ t.staged = NoRev
    <2>1. Pending(t) = {NoRev, s.staged} /\ Stack(t) = Layers(s.staged) /\ Extra(NoRev, t) = {}
        BY <1>4 DEF Pending, Stack, Extra, Layers
    <2>2. \A p \in Extra(s.staged, t) : p \in Extra(s.staged, s)
        BY <1>0, <2>1 DEF Extra
    <2>3. \A p \in Extra(s.staged, s) : Excused(s.staged, vs, Meta[p].id, floor[Meta[p].id])
        BY DEF Due, Pending
    <2>. QED  BY <1>4, <2>1, <2>2, <2>3 DEF Due
<1>. QED  BY <1>1, <1>2, <1>3, <1>4, LaunchFields

LEMMA AcknowledgedDue ==
    ASSUME NEW s \in States, NEW floor, NEW vs, Due(s, vs, floor)
    PROVE  Due(Acknowledged(s), vs, floor) /\ ~OnTrial(Acknowledged(s))
<1>. DEFINE t == Acknowledged(s)
<1>1. CASE ~OnTrial(s)
    BY <1>1, AcknowledgedFields
<1>2. CASE OnTrial(s)
    <2>1. /\ ~OnTrial(t) /\ t.committed = s.booting /\ t.booting = NoRev /\ t.staged = s.staged
        BY <1>2, AcknowledgedFields
    <2>. HIDE DEF t
    <2>2. Stack(t) = Stack(s) /\ Stack(s) = Layers(s.booting) /\ Pending(t) = {s.staged}
        BY <1>2, <2>1 DEF Stack, Pending
    <2>3. \A p \in Extra(s.staged, t) : p \in Extra(s.staged, s)
        BY <2>1, <2>2 DEF Extra
    <2>4. \A p \in Extra(s.staged, s) : Excused(s.staged, vs, Meta[p].id, floor[Meta[p].id])
        BY DEF Due, Pending
    <2>5. Due(t, vs, floor)
        BY <2>1, <2>2, <2>3, <2>4 DEF Due
    <2>. QED  BY <2>1, <2>5 DEF t
<1>. QED  BY <1>1, <1>2

LEMMA PlanDue ==
    ASSUME TypeOK, now < TransientTtl, NEW floor \in [Ids -> Nat],
           \A i \in Ids : state.floor[i] >= floor[i],
           Sure(state), NEW vs, Due(state, vs, floor),
           Standing(verdicts) \cap Released(state) \subseteq Standing(vs),
           NEW op, NEW s, Plan(op, s)
    PROVE  Due(s, vs, floor)
<1>0. state \in States
    BY VerdictMemory
<1>1. CASE op = "seed" /\ state.committed = NoRev /\ s = Seeded
    BY <1>1, SeedDue
<1>2. CASE \E ws : s = Promoted(Tried(state), ws)
    BY <1>0, <1>2, LaunchDue
<1>3. CASE s = Acknowledged(state)
    BY <1>0, <1>3, AcknowledgedDue
<1>4. CASE \E batch \in Batches :
             /\ Offered(batch)
             /\ FloorsReached(state, Revision(state, verdicts, batch), batch)
             /\ s = Updated(batch)
    BY <1>4, UpdateDue
<1>5. CASE s = Cleared(state)
    <2>1. Bare(s)
        BY <1>0, <1>5, ClearedFields DEF Bare, Slots
    <2>. QED  BY <2>1, DueFacts
<1>6. CASE SameSlots(s, state)
    BY <1>6, SameDue
<1>. QED  BY <1>1, <1>2, <1>3, <1>4, <1>5, <1>6 DEF Plan

\* The floor rises to what is committed: a staged revision is no step back
\* from that.
LEMMA DueRaised ==
    ASSUME NEW s \in States, ~OnTrial(s), NEW floor \in [Ids -> Nat], NEW vs, Due(s, vs, floor)
    PROVE  Due(s, vs, Raise(floor, Owned(s)))
<1>. DEFINE high == Raise(floor, Owned(s))
<1>0. /\ Stack(s) = Layers(s.committed) /\ Stack(s) \subseteq Packs /\ Layers(s.staged) \subseteq Packs
      /\ Owned(s) \in SUBSET (Ids \X Nat) /\ Pending(s) = {s.staged}
    BY StackFacts, StateParts, LayersType DEF Pending
<1>1. ASSUME NEW p \in Extra(s.staged, s)
      PROVE  Excused(s.staged, vs, Meta[p].id, high[Meta[p].id])
    <2>. DEFINE i == Meta[p].id
    <2>1. i \in Ids /\ s.staged # NoRev
        BY <1>0, PackParts DEF Extra, Layers
    <2>2. CASE high[i] = floor[i]
        BY <1>0, <2>2 DEF Due
    <2>3. CASE high[i] \in Tops(floor, Owned(s), i)
        <3>1. PICK r \in Owned(s) : r[1] = i /\ r[2] = high[i]
            BY <2>3 DEF Tops, Newer
        <3>2. PICK q \in Stack(s) : r = Release(q)
            BY <1>0 DEF Owned
        <3>3. Meta[q].id = i /\ Meta[q].ver = high[i]
            BY <3>1, <3>2 DEF Release
        <3>4. Excused(s.staged, vs, Meta[q].id, Meta[q].ver)
            BY <2>1, <3>2 DEF Due
        <3>. QED  BY <3>3, <3>4
    <2>. QED  BY <1>0, <2>1, <2>2, <2>3, RaiseCases
<1>. HIDE DEF high
<1>2. s.staged # NoRev => \A p \in Stack(s) : Excused(s.staged, vs, Meta[p].id, Meta[p].ver)
    BY DEF Due
<1>. QED  BY <1>0, <1>1, <1>2 DEF Due, high

\* What a launch reads holds the revisions of the file.
LEMMA OpenSlots ==
    ASSUME FlushedBeforeOpen, TypeOK, Backbone, Next, phase = "down", phase' # "down"
    PROVE  \A t \in Files' \cup {state'} :
              \E s \in Files : SameSlots(t, s) /\ (Sure(s) => Sure(t))
<1>1. call = NoCall /\ NoCall.step = "none"
    BY IdleCall DEF Backbone, PhaseInv
<1>2. Open
    <2>1. CASE Launch
        BY <2>1 DEF Launch, SeedNotNeeded, SeedIfAbsent, Boot, LoadLayers, RecordFailure
    <2>2. CASE Operation
        BY <2>2 DEF Operation, NotifyReady, Stage, Reset, ObserveChannel, RecordLastError, Ready
    <2>3. CASE Progress
        BY <1>1, <2>3 DEF Progress, SaveCondemned, SaveState, SaveVerdicts, Publish,
           SaveTrailingVerdicts, RetryVerdicts, CollectGarbage, process
    <2>4. CASE Environment
        BY <2>4 DEF Environment, Kill, PowerLoss, Forget, WriteBack, Tick, process
    <2>. QED  BY <2>1, <2>2, <2>3, <2>4 DEF Next
<1>. DEFINE onDisk == visible.state
            read == IF onDisk = NoState THEN NewState ELSE onDisk
            filled == BackfillVersionFloor(read, visible.verdicts)
<1>3. read \in States /\ onDisk \in States \cup {NoState}
    BY NewStateType DEF TypeOK, DiskOK, RootFiles
<1>4. SameSlots(read, onDisk) /\ (Sure(onDisk) => Sure(read))
    BY DEF SameSlots, OnTrial, Sure, NoState, NewState
<1>5. SameSlots(filled, read) /\ (Sure(read) => Sure(filled))
    BY <1>3 DEF BackfillVersionFloor, SameSlots, OnTrial, Sure, States
<1>6. state' = filled /\ visible.state \in Files
    BY <1>2 DEF Open, Files
<1>7. Files' \subseteq {onDisk, filled}
    <2>1. durable.state = onDisk
        BY <1>2 DEF Open
    <2>. QED  BY <1>2, <2>1 DEF Open, disk, WriteState, WriteRoot, TypeOK, DiskOK, RootFiles, Files
<1>. HIDE DEF read, filled
<1>. QED  BY <1>4, <1>5, <1>6, <1>7 DEF SameSlots

LEMMA PlanSure ==
    ASSUME TypeOK, Sure(state), NEW op, NEW s, Plan(op, s)
    PROVE  Sure(s) /\ (op \in {"seed", "commit"} => ~OnTrial(s))
<1>0. state \in States
    BY VerdictMemory
<1>1. CASE op = "seed" /\ s = Seeded
    <2>1. s.pointer = "committed"
        <3>. DEFINE u == [state EXCEPT !.committed = Revision(state, verdicts, Seeds),
                                       !.pointer = "committed"]
        <3>1. u.pointer = "committed" /\ Seeded = RaiseVersionFloor(u)
            BY <1>0 DEF Seeded, States
        <3>. HIDE DEF u
        <3>. QED  BY <1>1, <3>1 DEF RaiseVersionFloor
    <2>. QED  BY <2>1 DEF Sure, OnTrial
<1>2. CASE op = "boot" /\ \E ws : s = Promoted(Tried(state), ws)
    <2>1. Tried(state) \in States /\ Sure(Tried(state))
        BY <1>0, TriedType DEF Tried, Sure, States
    <2>2. \A u \in States : Sure(u) => \A ws : Sure(Promoted(u, ws))
        BY DEF Promoted, Sure, States
    <2>. QED  BY <1>2, <2>1, <2>2
<1>3. CASE op = "commit" /\ s = Acknowledged(state)
    <2>1. Acknowledged(state) = state \/ ~OnTrial(Acknowledged(state))
        BY <1>0, AcknowledgedFields
    <2>2. CASE ~OnTrial(state)
        BY <1>3, <2>2 DEF Acknowledged
    <2>3. CASE OnTrial(state)
        BY <1>0, <1>3, <2>3, AcknowledgedFields DEF Acknowledged, RaiseVersionFloor, Sure, States
    <2>. QED  BY <2>2, <2>3
<1>4. CASE op = "stage" /\ \E batch \in Batches : s = Updated(batch)
    BY <1>0, <1>4 DEF Updated, Sure, States
<1>5. CASE op = "reset" /\ s = Cleared(state)
    BY <1>5 DEF Cleared, NewState, Sure
<1>6. CASE op \in {"observe", "record", "error"} /\ SameSlots(s, state) /\ s.pointer = state.pointer
    BY <1>6 DEF SameSlots, Sure
<1>. QED  BY <1>1, <1>2, <1>3, <1>4, <1>5, <1>6 DEF Plan

-----------------------------------------------------------------------------
(***************************************************************************)
(* The two invariants.                                                     *)
(***************************************************************************)
LEMMA PlainSure == Sure(NewState) /\ Sure(NoCall.state)
BY IdleCall DEF Sure, NewState

LEMMA SureKept ==
    ASSUME FlushedBeforeOpen, TypeOK, PoolAccounted, Backbone, RulingInv, SureInv, [Next]_vars
    PROVE  SureInv'
<1>. SUFFICES /\ \A s \in Files' \cup {state', call'.state} : Sure(s)
              /\ call'.op \in {"seed", "commit"} => ~OnTrial(call'.state)
    BY DEF SureInv, Sure, OnTrial
<1>0. /\ \A s \in Files \cup {state, call.state} : Sure(s)
      /\ call.op \in {"seed", "commit"} => ~OnTrial(call.state)
      /\ NoCall.op = "none" /\ Sure(NewState) /\ Sure(NoCall.state)
    BY IdleCall, PlainSure DEF SureInv
<1>1. CASE Waits
    BY <1>0, <1>1 DEF Waits
<1>2. CASE Starts
    <2>1. Next /\ phase = "down" /\ phase' # "down" /\ call' = NoCall
        BY <1>2 DEF Starts, Backbone, PhaseInv, vars, process
    <2>2. \A t \in Files' \cup {state'} : \E s \in Files : Sure(s) => Sure(t)
        BY <2>1, OpenSlots
    <2>. QED  BY <1>0, <2>1, <2>2
<1>3. CASE Asks
    <2>1. Next /\ call = NoCall /\ call' # NoCall
        BY <1>0, <1>3 DEF Asks, Calls, Ops, vars, process
    <2>2. Plan(call'.op, call'.state)
        BY <2>1, PlanCase
    <2>3. Files' = Files /\ state' = state
        BY <1>3 DEF Asks, memory, disk, Files
    <2>. QED  BY <1>0, <2>2, <2>3, PlanSure
<1>4. CASE SavesVerdicts \/ SavesOwed
    BY <1>0, <1>4 DEF SavesVerdicts, SavesOwed, Continues
<1>5. CASE SavesState
    BY <1>0, <1>5 DEF SavesState, Continues
<1>6. CASE Announces
    <2>1. Files' = Files
        BY <1>6 DEF Announces, disk, Files
    <2>. QED  BY <1>0, <1>6, <2>1 DEF Announces, Continues
<1>7. CASE Tidies
    BY <1>0, <1>7 DEF Tidies, memory, disk, Files
<1>8. CASE GivesUp
    BY <1>0, <1>8 DEF GivesUp
<1>9. CASE Stops
    BY <1>0, <1>9 DEF Stops
<1>. QED
    BY <1>1, <1>2, <1>3, <1>4, <1>5, <1>6, <1>7, <1>8, <1>9, EveryStepIsATurn DEF Turn

LEMMA SureAlways == ASSUME FlushedBeforeOpen PROVE Spec => []SureInv
<1>1. ASSUME Init PROVE SureInv
    <2>1. Sure(NoState)
        BY DEF Sure, NoState, NewState
    <2>. QED  BY <1>1, <2>1, IdleCall, PlainSure DEF Init, SureInv, Files
<1>. QED
    BY <1>1, SureKept, TypeCorrect, PoolAccountedAlways, BackboneAlways, RulingAlways, PTL
    DEF Spec

LEMMA DueKept ==
    ASSUME FlushedBeforeOpen, TypeOK, TypeOK', PoolAccounted, Backbone, RulingInv, JudgedInv,
           StackInv, FloorsInv, SureInv, DueInv, [Next]_vars, RecordPromised
    PROVE  DueInv'
<1>. DEFINE floor == promised.floor
<1>. SUFFICES ASSUME now' < TransientTtl
              PROVE  \A s \in Files' \cup {state', call'.state}, vs \in Held' :
                        Due(s, vs, promised'.floor)
    BY DEF DueInv, Due, Pending, Extra, Stack, Excused, Offers, Convicted, Layers, OnTrial,
           Stands, Releases, Release
<1>0. /\ now \in Nat /\ now < TransientTtl
      /\ NoCall.op = "none" /\ NoCall.step = "none" /\ Bare(NoCall.state) /\ Bare(NewState)
      /\ call = NoCall \/ call.op \in Ops
      /\ call.step # "none" => call.op \in Ops
      /\ floor \in [Ids -> Nat] /\ call.state \in States
    BY IdleCall, SlotsOfNew, TimeGoesOn, VerdictMemory, VerdictsAssumption
    DEF Calls, FloorsInv, PromiseType
<1>1. /\ call.op \notin {"none", "reset"} => Standing(verdicts) \subseteq Standing(call.verdicts)
      /\ \A s \in Files \cup {state, call.state}, vs \in Held : Due(s, vs, floor)
      /\ \A s \in Files \cup {state, call.state} : Sure(s)
    BY <1>0 DEF JudgedInv, DueInv, SureInv
<1>2. CallInv /\ LaunchInv /\ OwedInv
    BY DEF RulingInv
<1>3. /\ Stored \subseteq Held /\ (phase # "down" => verdicts \in Held)
      /\ phase' # "down" => Held' = Stored' \cup {verdicts'}
    BY DEF Held
<1>4. \A vs, f : Due(NewState, vs, f) /\ Due(NoCall.state, vs, f)
    BY <1>0, DueFacts
\* What is about to be saved or published can be read with what is there.
<1>5. ASSUME call.op # "none", call.op = "reset" => StateWritten
      PROVE  \A s \in Files \cup {call.state} : Due(s, call.verdicts, floor)
    <2>1. phase # "down" /\ verdicts \in Held
        BY <1>0, <1>3, <1>5 DEF Backbone, PhaseInv
    <2>2. CASE call.op # "reset"
        BY <1>1, <1>5, <2>1, <2>2, DueFacts
    <2>3. CASE call.op = "reset"
        <3>1. Same(visible.state, call.state) /\ Same(durable.state, call.state) /\ Bare(call.state)
            BY <1>2, <1>5, <2>1, <2>3 DEF Backbone, SyncInv, Reported, CallInv
        <3>2. \A s \in Files : Bare(s)
            BY <3>1 DEF Files, Same, SameTrial, Bare, Slots
        <3>. QED  BY <3>1, <3>2, DueFacts
    <2>. QED  BY <2>2, <2>3
<1>6. ASSUME call.op # "none", call.op = "reset" => StateWritten /\ call.state = state
      PROVE  \A s \in Files \cup {state, call.state} : Due(s, call.verdicts, floor)
    <2>1. phase # "down" /\ verdicts \in Held
        BY <1>0, <1>3, <1>6 DEF Backbone, PhaseInv
    <2>2. Due(state, call.verdicts, floor)
        BY <1>1, <1>5, <1>6, <2>1, DueFacts
    <2>. QED  BY <1>5, <1>6, <2>2
<1>7. CASE Waits
    <2>1. Held' \subseteq Held /\ Files' \subseteq Files /\ state' = state /\ call' = call
        BY <1>7 DEF Waits, Held
    <2>2. promised' = promised
        BY <2>1, OnlyPublishPromises
    <2>. QED  BY <1>1, <2>1, <2>2
<1>8. CASE Starts
    <2>1. /\ call' = NoCall /\ phase = "down" /\ phase' = "opened" /\ Held' \subseteq Held
          /\ Next /\ promised' = promised
        BY <1>0, <1>3, <1>8, OnlyPublishPromises DEF Starts, Backbone, PhaseInv, vars, process
    <2>2. \A t \in Files' \cup {state'} : \E s \in Files : SameSlots(t, s)
        BY <2>1, OpenSlots
    <2>3. \A t \in Files' \cup {state'}, vs \in Held' : Due(t, vs, floor)
        BY <1>1, <2>1, <2>2, SameDue
    <2>. QED  BY <1>4, <2>1, <2>3
<1>9. CASE Asks
    <2>1. /\ Held' = Held /\ Files' = Files /\ state' = state
          /\ call = NoCall /\ ~verdictsPending /\ phase # "down"
          /\ call' # NoCall /\ Next /\ promised' = promised
        <3>1. call' # NoCall
            BY <1>0, <1>9 DEF Asks, Calls, Ops
        <3>. QED  BY <1>0, <1>9, <3>1, OnlyPublishPromises
                  DEF Asks, Held, Stored, Files, memory, disk, vars, process
    <2>2. Plan(call'.op, call'.state)
        BY <2>1, PlanCase
    <2>3. \A vs \in Held : Standing(verdicts) \cap Released(state) \subseteq Standing(vs)
        BY <1>0, <2>1 DEF StackInv, Current, Held
    <2>4. \A i \in Ids : state.floor[i] >= floor[i]
        BY <2>1 DEF FloorsInv, FloorsSurvive, AtLeastPromised
    <2>5. \A vs \in Held : Due(call'.state, vs, floor)
        BY <1>0, <1>1, <2>2, <2>3, <2>4, PlanDue
    <2>. QED  BY <1>1, <2>1, <2>5
<1>10. CASE SavesVerdicts
    <2>1. /\ Held' \subseteq {call.verdicts, verdicts} /\ Files' \subseteq Files /\ state' = state
          /\ call'.state = call.state /\ phase # "down" /\ promised' = promised
        <3>1. promised' = promised
            BY <1>10, OnlyPublishPromises DEF SavesVerdicts
        <3>. QED  BY <1>10, <3>1 DEF SavesVerdicts, Continues, Held
    <2>2. call.op # "none" /\ (call.op = "reset" => StateWritten /\ call.state = state)
        BY <1>0, <1>2, <1>10 DEF SavesVerdicts, StateWritten, CallInv, PoolAccounted, Ops
    <2>3. \A s \in Files \cup {state, call.state} : Due(s, call.verdicts, floor)
        BY <1>6, <2>2
    <2>. QED  BY <1>1, <1>3, <2>1, <2>3
<1>11. CASE SavesState
    <2>1. /\ Held' \subseteq Held /\ Files' = {call.state} /\ state' = state
          /\ call'.state = call.state /\ promised' = promised
        <3>1. promised' = promised
            BY <1>11, OnlyPublishPromises DEF SavesState
        <3>. QED  BY <1>11, <3>1 DEF SavesState, Continues, Held
    <2>. QED  BY <1>1, <2>1
<1>12. CASE Announces
    <2>1. /\ Files' = Files /\ state' = call.state /\ Held' = Stored \cup {call.verdicts}
          /\ call' = NoCall \/ call'.state = call.state
          /\ phase # "down" /\ StateWritten /\ ~statePending /\ call.op # "none"
        BY <1>0, <1>12 DEF Announces, Continues, Stored, Files, Held, disk, StateWritten, Ops,
           Backbone, SyncInv
    <2>2. \A s \in Files \cup {call.state}, vs \in Held' : Due(s, vs, floor)
        BY <1>1, <1>3, <1>5, <2>1
    <2>3. CASE promised'.floor = floor
        BY <1>4, <2>1, <2>2, <2>3
    <2>4. CASE call.op \in {"commit", "seed"} /\ promised'.floor = Raise(floor, Owned(call.state))
        <3>1. ~OnTrial(call.state)
            BY <2>4 DEF SureInv
        <3>2. \A vs \in Held' : Due(call.state, vs, promised'.floor)
            BY <1>0, <2>2, <2>4, <3>1, DueRaised
        <3>3. \A s \in Files : Same(s, call.state)
            BY <2>1 DEF Backbone, SyncInv, Reported, Files
        <3>4. \A s \in Files, vs \in Held' : Due(s, vs, promised'.floor)
            BY <3>2, <3>3, DueFacts
        <3>. QED  BY <1>4, <2>1, <3>2, <3>4
    <2>5. \/ promised'.floor = floor
          \/ call.op \in {"commit", "seed"} /\ promised'.floor = Raise(floor, Owned(call.state))
        BY DEF RecordPromised, FloorsInv, PromiseType, Owned, Returning
    <2>. QED  BY <2>3, <2>4, <2>5
<1>13. CASE SavesOwed
    <2>1. /\ call.verdicts = verdicts /\ Held' \subseteq Held /\ Files' \subseteq Files
          /\ state' = state /\ call'.state = call.state /\ promised' = promised
        <3>1. promised' = promised
            BY <1>13, OnlyPublishPromises DEF SavesOwed
        <3>. QED  BY <1>2, <1>13, <3>1 DEF SavesOwed, CallInv, Continues, Held
    <2>. QED  BY <1>1, <2>1
<1>14. CASE Tidies
    <2>1. Held' = Held /\ Files' = Files /\ state' = state /\ call' = NoCall /\ promised' = promised
        <3>1. promised' = promised
            BY <1>14, OnlyPublishPromises DEF Tidies
        <3>. QED  BY <1>14, <3>1 DEF Tidies, Held, Stored, Files, memory, disk
    <2>. QED  BY <1>1, <1>4, <2>1
<1>15. CASE GivesUp
    <2>1. /\ call' = NoCall /\ state' = state /\ verdicts' = verdicts /\ phase # "down"
          /\ promised' = promised
        <3>1. promised' = promised
            BY <1>15, OnlyPublishPromises DEF GivesUp
        <3>. QED  BY <1>15, <3>1 DEF GivesUp
    <2>2. CASE Stored' \subseteq Stored /\ Files' \subseteq Files \cup {call.state}
        <3>1. Held' \subseteq Held
            BY <2>1, <2>2 DEF Held
        <3>. QED  BY <1>1, <1>4, <2>1, <2>2, <3>1
    <2>3. CASE /\ call.step \in {"verdicts", "trailing"}
               /\ Stored' \subseteq Stored \cup {call.verdicts} /\ Files' \subseteq Files
        <3>1. call.op # "none" /\ StateWritten /\ call.state = state
            BY <1>0, <2>3 DEF StateWritten, PoolAccounted, Ops
        <3>2. \A s \in Files \cup {state} : Due(s, call.verdicts, floor)
            BY <1>6, <3>1
        <3>3. Held' \subseteq Held \cup {call.verdicts}
            BY <2>1, <2>3 DEF Held
        <3>. QED  BY <1>1, <1>4, <2>1, <2>3, <3>2, <3>3
    <2>. QED  BY <1>15, <2>2, <2>3 DEF GivesUp
<1>16. CASE Stops
    <2>1. /\ phase' = "down" /\ state' = NewState /\ call' = NoCall /\ Held' = Stored'
          /\ promised' = promised
        BY <1>16, OnlyPublishPromises DEF Stops, Held
    <2>2. CASE Stored' \subseteq Stored /\ Files' \subseteq Files \cup {call.state}
        BY <1>1, <1>3, <1>4, <2>1, <2>2
    <2>3. CASE /\ call.step = "condemn"
               /\ Stored' \subseteq Stored \cup {call.verdicts} /\ Files' \subseteq Files
        <3>1. call.op # "none" /\ call.op # "reset"
            BY <1>2, <2>3 DEF CallInv
        <3>2. \A s \in Files : Due(s, call.verdicts, floor)
            BY <1>5, <3>1
        <3>. QED  BY <1>1, <1>3, <1>4, <2>1, <2>3, <3>2
    <2>. QED  BY <1>16, <2>2, <2>3 DEF Stops
<1>. QED
    BY <1>7, <1>8, <1>9, <1>10, <1>11, <1>12, <1>13, <1>14, <1>15, <1>16, EveryStepIsATurn
    DEF Turn

LEMMA DueAlways == ASSUME FlushedBeforeOpen PROVE HistorySpec => []DueInv
<1>1. ASSUME Init PROVE DueInv
    <2>1. \A s \in Files \cup {state, call.state} : Bare(s)
        BY <1>1, IdleCall, SlotsOfNew DEF Init, Files
    <2>. QED  BY <2>1, DueFacts DEF DueInv
<1>2. TypeOK /\ TypeOK' /\ PoolAccounted /\ Backbone /\ RulingInv /\ JudgedInv /\ StackInv
        /\ FloorsInv /\ SureInv /\ DueInv /\ [HistoryNext]_allVars => DueInv'
    <2>. SUFFICES ASSUME TypeOK, TypeOK', PoolAccounted, Backbone, RulingInv, JudgedInv, StackInv,
                         FloorsInv, SureInv, DueInv, [HistoryNext]_allVars
                  PROVE  DueInv'
        OBVIOUS
    <2>1. CASE UNCHANGED allVars
        <3>1. [Next]_vars /\ RecordPromised
            BY <2>1 DEF allVars, vars, process, history, RecordPromised, Returning
        <3>. QED  BY <3>1, DueKept
    <2>2. CASE HistoryNext
        BY <2>2, DueKept DEF HistoryNext
    <2>. QED  BY <2>1, <2>2
<1>. QED
    BY <1>1, <1>2, HistoryObserves, TypeCorrect, PoolAccountedAlways, BackboneAlways,
       RulingAlways, JudgedAlways, StackAlways, FloorsInvAlways, SureAlways, PTL
    DEF HistorySpec

(***************************************************************************)
(* Within one TTL an acknowledged trial moves no pack id it brings to      *)
(* below a version acknowledged before, unless a bundled pack or a release *)
(* on the blacklist accounts for the difference (stage_revision,           *)
(* store.rs:449; commit_booting, store.rs:366).                            *)
(***************************************************************************)
THEOREM NothingIsDowngraded ==
    ASSUME FlushedBeforeOpen PROVE HistorySpec => NoDowngrade
<1>1. ASSUME TypeOK, Backbone, DueInv, HistoryNext, Returning("commit"), OnTrial(state),
             now < TransientTtl, NEW p \in Brought(state)
      PROVE  \/ Offers(state.booting \cup Seeds, Meta[p].id, promised.floor[Meta[p].id])
             \/ Convicted(verdicts, Meta[p].id, promised.floor[Meta[p].id])
    <2>1. phase # "down"
        BY <1>1, IdleCall DEF Backbone, PhaseInv, Returning
    <2>2. Due(state, verdicts, promised.floor)
        BY <1>1, <2>1 DEF DueInv, Held
    <2>3. state.booting \in Pending(state)
        BY <1>1 DEF Pending
    <2>4. p \in Extra(state.booting, state)
        BY <1>1 DEF Brought, Extra, Stack, OnTrial, Layers
    <2>. QED  BY <2>2, <2>3, <2>4 DEF Due, Excused
<1>2. TypeOK /\ Backbone /\ DueInv /\ [HistoryNext]_allVars =>
        [Returning("commit") /\ OnTrial(state) /\ now < TransientTtl =>
            \A i \in {Meta[p].id : p \in Brought(state)} :
                \/ Offers(state.booting \cup Seeds, i, promised.floor[i])
                \/ Convicted(verdicts, i, promised.floor[i])]_allVars
    BY <1>1
<1>. QED
    BY <1>2, HistoryObserves, TypeCorrect, BackboneAlways, DueAlways, PTL
    DEF HistorySpec, NoDowngrade

-----------------------------------------------------------------------------
(***************************************************************************)
(* The refinement: whatever state a launch reads is the one that was       *)
(* settled last, or one whole operation on from it.                        *)
(***************************************************************************)
-----------------------------------------------------------------------------
(***************************************************************************)
(* What the lifecycle shows of a state.                                    *)
(***************************************************************************)
TrialOf(s) == IF OnTrial(s) THEN s.booting ELSE NoRev
LaunchesOf(s) == IF OnTrial(s) THEN s.attempts ELSE 0

Alike(t, s) ==
    /\ t.committed = s.committed
    /\ TrialOf(t) = TrialOf(s)
    /\ t.staged = s.staged
    /\ LaunchesOf(t) = LaunchesOf(s)

InForce(vs, t) == {r \in Releases : IsActive(vs[r], t)}

LEMMA InitRefined == Init /\ HistoryInit => Lifecycle!Init
<1>. SUFFICES ASSUME Init, HistoryInit PROVE Lifecycle!Init
    OBVIOUS
<1>1. settled = NewState /\ visible.verdicts = NoVerdicts
    BY DEF Init, HistoryInit
<1>2. {r \in Releases : IsActive(NoVerdicts[r], now)} = {}
    BY DEF NoVerdicts, IsActive
<1>. QED  BY <1>1, <1>2, NothingStands DEF Lifecycle!Init, NewState, OnTrial

-----------------------------------------------------------------------------
(***************************************************************************)
(* The steps between what two states show.  A launch is judged with the    *)
(* verdicts of the medium; every other step asks none.                     *)
(***************************************************************************)
Seeding(s, t) ==
    /\ s.committed = NoRev
    /\ t.committed \in Revisions /\ Seeds \subseteq t.committed
    /\ TrialOf(t) = NoRev /\ LaunchesOf(t) = 0
    /\ t.staged = s.staged

Staging(s, t) ==
    /\ t.staged \in Revisions
    /\ t.committed = s.committed
    /\ TrialOf(t) = TrialOf(s) /\ LaunchesOf(t) = LaunchesOf(s)

Acknowledging(s, t) ==
    /\ TrialOf(s) # NoRev
    /\ t.committed = TrialOf(s)
    /\ TrialOf(t) = NoRev /\ LaunchesOf(t) = 0
    /\ t.staged = s.staged

Resetting(t) ==
    /\ t.committed = NoRev /\ t.staged = NoRev
    /\ TrialOf(t) = NoRev /\ LaunchesOf(t) = 0

Promoting(s, t, vs, c) ==
    LET rs == {Release(p) : p \in Layers(s.staged)}
    IN  /\ \/ /\ s.staged # NoRev /\ rs \cap InForce(vs, c) = {}
              /\ TrialOf(t) = s.staged /\ LaunchesOf(t) = 1
           \/ /\ s.staged # NoRev => rs \cap Standing(vs) # {}
              /\ TrialOf(t) = NoRev /\ LaunchesOf(t) = 0
        /\ t.staged = NoRev
        /\ t.committed = s.committed

Retrying(s, t) ==
    /\ TrialOf(s) # NoRev
    /\ LaunchesOf(s) + 1 < MaxBootAttempts
    /\ LaunchesOf(t) = LaunchesOf(s) + 1
    /\ TrialOf(t) = TrialOf(s) /\ t.committed = s.committed /\ t.staged = s.staged

RollingBack(s, t, vs, c) ==
    /\ TrialOf(s) # NoRev
    /\ LaunchesOf(s) + 1 >= MaxBootAttempts
    /\ {Release(p) : p \in TrialOf(s) \ Layers(s.committed)} \subseteq Standing(vs)
    /\ Promoting(s, t, vs, c)

MovesFreely(s, t) ==
    Alike(t, s) \/ Seeding(s, t) \/ Staging(s, t) \/ Acknowledging(s, t) \/ Resetting(t)

Moves(s, t, vs, c) ==
    \/ MovesFreely(s, t)
    \/ TrialOf(s) = NoRev /\ Promoting(s, t, vs, c)
    \/ Retrying(s, t)
    \/ RollingBack(s, t, vs, c)

\* A call's candidate is one move on from the state while it is not written.
CandidateMoves ==
    /\ call.step \in {"condemn", "state"} /\ call.op # "boot" => MovesFreely(state, call.state)
    /\ call.step \in {"condemn", "state"} /\ call.op = "boot" =>
          Moves(state, call.state, call.verdicts, now)

\* What was settled last is what memory, or the state just written, shows, and
\* any file is at most one move on from it.
RefInv ==
    /\ settled \in States
    /\ phase # "down" => Alike(settled, Reported)
    /\ phase # "down" => \A f \in Files : MovesFreely(settled, f)
    /\ phase = "down" => \A f \in Files, vs \in Stored : Moves(settled, f, vs, now)
    /\ CandidateMoves

-----------------------------------------------------------------------------
LEMMA AlikeIsCongruent ==
    ASSUME NEW s, NEW t, NEW u, NEW v, Alike(u, s), Alike(v, t), NEW vs, NEW c
    PROVE  /\ MovesFreely(s, t) => MovesFreely(u, v)
           /\ Moves(s, t, vs, c) => Moves(u, v, vs, c)
<1>1. MovesFreely(s, t) => MovesFreely(u, v)
    BY DEF MovesFreely, Alike, Seeding, Staging, Acknowledging, Resetting
<1>2. Promoting(s, t, vs, c) => Promoting(u, v, vs, c)
    BY DEF Promoting, Alike
<1>3. Retrying(s, t) => Retrying(u, v)
    BY DEF Retrying, Alike
<1>4. RollingBack(s, t, vs, c) => RollingBack(u, v, vs, c)
    BY <1>2 DEF RollingBack, Alike
<1>5. TrialOf(u) = TrialOf(s)
    BY DEF Alike
<1>. QED  BY <1>1, <1>2, <1>3, <1>4, <1>5 DEF Moves

LEMMA SameIsAlike ==
    ASSUME NEW s, NEW t, Same(s, t)
    PROVE  Alike(s, t) /\ Alike(t, s)
BY DEF Same, SameTrial, Alike, TrialOf, LaunchesOf

LEMMA AlikeIsAnEquality ==
    /\ \A s : Alike(s, s)
    /\ \A s, t : Alike(s, t) => Alike(t, s)
    /\ \A r, s, t : Alike(r, s) /\ Alike(s, t) => Alike(r, t)
BY DEF Alike

\* A verdict in force stands, and time only lets verdicts lapse.
LEMMA ForceLapses ==
    ASSUME NEW vs \in [Releases -> Verdict], NEW c \in Nat
    PROVE  /\ InForce(vs, c) \subseteq Standing(vs)
           /\ InForce(vs, c + 1) \subseteq InForce(vs, c)
<1>1. ASSUME NEW r \in Releases, IsActive(vs[r], c + 1) PROVE IsActive(vs[r], c)
    <2>1. vs[r].first \in Nat
        BY DEF Verdict, Entries, Absent
    <2>. QED  BY <1>1, <2>1, VerdictsAssumption DEF IsActive, OutOfTime
<1>2. ASSUME NEW r \in Releases, IsActive(vs[r], c) PROVE Stands(vs[r])
    BY <1>2 DEF IsActive, Stands
<1>. QED  BY <1>1, <1>2 DEF InForce, Standing

LEMMA MovesLater ==
    ASSUME NEW vs \in [Releases -> Verdict], NEW c \in Nat, NEW s, NEW t, Moves(s, t, vs, c)
    PROVE  Moves(s, t, vs, c + 1)
<1>1. Promoting(s, t, vs, c) => Promoting(s, t, vs, c + 1)
    BY ForceLapses DEF Promoting
<1>. QED  BY <1>1 DEF Moves, RollingBack

-----------------------------------------------------------------------------
(***************************************************************************)
(* A move is a step of the lifecycle.                                      *)
(***************************************************************************)
LEMMA JudgeStep ==
    ASSUME settled' = settled, visible'.verdicts \in [Releases -> Verdict], now' \in Nat
    PROVE  Lifecycle!Judge
<1>1. /\ InForce(visible'.verdicts, now') \subseteq Standing(visible'.verdicts)
      /\ Standing(visible'.verdicts) \subseteq Releases
    BY ForceLapses DEF Standing
<1>2. OnTrial(settled') = OnTrial(settled)
    OBVIOUS
<1>. QED  BY <1>1, <1>2 DEF Lifecycle!Judge, InForce, Standing, Stands, Releases, Release, OnTrial

LEMMA MoveStep ==
    ASSUME settled \in States, settled' \in States,
           visible.verdicts \in [Releases -> Verdict], now \in Nat,
           visible'.verdicts = visible.verdicts, now' = now,
           Moves(settled, settled', visible.verdicts, now)
    PROVE  [Lifecycle!Next]_(Lifecycle!lifecycle)
<1>. DEFINE vs == visible.verdicts  s == settled  t == settled'
<1>1. /\ InForce(vs', now') = InForce(vs, now) /\ Standing(vs') = Standing(vs)
    BY DEF InForce, Standing, Releases, Release
<1>. USE DEF TrialOf, LaunchesOf, InForce
<1>2. CASE Alike(t, s)
    BY <1>1, <1>2 DEF Alike, Lifecycle!lifecycle
<1>3. CASE Seeding(s, t)
    BY <1>1, <1>3 DEF Seeding, Revisions, Lifecycle!Next, Lifecycle!Seed, Lifecycle!verdictsKept
<1>4. CASE Staging(s, t)
    BY <1>1, <1>4 DEF Staging, Revisions, Lifecycle!Next, Lifecycle!Stage, Lifecycle!verdictsKept
<1>5. CASE Acknowledging(s, t)
    BY <1>1, <1>5
    DEF Acknowledging, Lifecycle!Next, Lifecycle!Acknowledge, Lifecycle!verdictsKept
<1>6. CASE Resetting(t)
    BY <1>1, <1>6 DEF Resetting, Lifecycle!Next, Lifecycle!Reset, Lifecycle!verdictsKept
<1>7. Promoting(s, t, vs, now) => Lifecycle!Promote
    BY <1>1
    DEF Promoting, Layers, Lifecycle!Promote, Lifecycle!ReleasesOf, Lifecycle!Layers,
        Lifecycle!verdictsKept
<1>8. CASE TrialOf(s) = NoRev /\ Promoting(s, t, vs, now)
    BY <1>7, <1>8 DEF Lifecycle!Next, Lifecycle!Launch
<1>9. CASE Retrying(s, t)
    BY <1>1, <1>9
    DEF Retrying, Lifecycle!Next, Lifecycle!Launch, Lifecycle!Retry, Lifecycle!verdictsKept
<1>10. CASE RollingBack(s, t, vs, now)
    BY <1>7, <1>10
    DEF RollingBack, Layers, Lifecycle!Next, Lifecycle!Launch, Lifecycle!RollBack, Lifecycle!Layers
<1>. QED
    BY <1>2, <1>3, <1>4, <1>5, <1>6, <1>8, <1>9, <1>10 DEF Moves, MovesFreely

-----------------------------------------------------------------------------
(***************************************************************************)
(* What a launch makes of a state, and every other candidate, is a move.   *)
(***************************************************************************)
LEMMA PromotedMoves ==
    ASSUME NEW u \in States, u.pointer = "committed", NEW vs \in [Releases -> Verdict],
           now \in Nat, NEW t, t = Promoted(u, vs)
    PROVE  Promoting(u, t, vs, now)
<1>. DEFINE rs == {Release(p) : p \in Layers(u.staged)}
<1>0. u.staged \in Revisions \cup {NoRev} /\ ~OnTrial(u)
    BY DEF States, OnTrial
<1>1. CASE u.staged = NoRev
    BY <1>0, <1>1 DEF Promoted, Promoting, TrialOf, LaunchesOf
<1>2. CASE u.staged # NoRev
    <2>1. Layers(u.staged) = u.staged /\ u.staged \subseteq Packs
        BY <1>0, <1>2 DEF Layers, Revisions
    <2>2. \A p \in u.staged : Release(p) \in Releases /\
              (Blocks(vs, p) <=> Release(p) \in InForce(vs, now))
        BY <2>1, ReleaseType DEF Blocks, InForce, Releases
    <2>3. CASE \E p \in u.staged : Blocks(vs, p)
        <3>1. t = [u EXCEPT !.staged = NoRev]
            BY <1>2, <2>3 DEF Promoted
        <3>2. t.staged = NoRev /\ t.committed = u.committed /\ ~OnTrial(t)
            BY <3>1 DEF States, OnTrial
        <3>3. rs \cap Standing(vs) # {}
            BY <2>1, <2>2, <2>3, ForceLapses
        <3>. QED  BY <3>2, <3>3 DEF Promoting, TrialOf, LaunchesOf
    <2>4. CASE ~\E p \in u.staged : Blocks(vs, p)
        <3>1. t = [u EXCEPT !.staged = NoRev, !.booting = u.staged, !.pointer = "booting",
                            !.attempts = 1]
            BY <1>2, <2>4 DEF Promoted
        <3>2. /\ t.staged = NoRev /\ t.booting = u.staged /\ t.pointer = "booting"
              /\ t.attempts = 1 /\ t.committed = u.committed
            BY <3>1 DEF States
        <3>3. rs \cap InForce(vs, now) = {}
            BY <2>1, <2>2, <2>4
        <3>. QED  BY <1>2, <3>2, <3>3 DEF Promoting, TrialOf, LaunchesOf, OnTrial
    <2>. QED  BY <2>3, <2>4
<1>. QED  BY <1>1, <1>2

LEMMA LaunchMoves ==
    ASSUME NEW s \in States, NEW vs \in [Releases -> Verdict], now \in Nat,
           Condemned(s) \subseteq Standing(vs), NEW t, t = Promoted(Tried(s), vs)
    PROVE  Moves(s, t, vs, now)
<1>. DEFINE u == Tried(s)
<1>0. u \in States
    BY TriedType
<1>1. CASE ~OnTrial(s)
    <2>1. u = s /\ TrialOf(s) = NoRev
        BY <1>1 DEF Tried, TrialOf
    <2>2. CASE s.pointer = "committed"
        BY <2>1, <2>2, PromotedMoves DEF Moves
    <2>3. CASE s.pointer # "committed"
        BY <2>1, <2>3 DEF Promoted, Moves, MovesFreely, Alike
    <2>. QED  BY <2>2, <2>3
<1>2. CASE OnTrial(s) /\ s.attempts + 1 < MaxBootAttempts
    <2>1. u = [s EXCEPT !.attempts = @ + 1]
        BY <1>2 DEF Tried
    <2>2. u.pointer # "committed"
        BY <1>2, <2>1 DEF OnTrial, States
    <2>3. t = u
        BY <2>2 DEF Promoted
    <2>. QED
        BY <1>2, <2>1, <2>3 DEF Moves, Retrying, TrialOf, LaunchesOf, OnTrial, States
<1>3. CASE OnTrial(s) /\ ~(s.attempts + 1 < MaxBootAttempts)
    <2>1. /\ u.pointer = "committed" /\ u.staged = s.staged /\ u.committed = s.committed
        BY <1>3 DEF Tried, OnTrial, States
    <2>2. s.attempts \in Nat /\ MaxBootAttempts \in Nat
        BY RevisionsAssumption DEF States
    <2>3. Promoting(u, t, vs, now)
        BY <1>0, <2>1, PromotedMoves
    <2>. HIDE DEF u
    <2>4. Promoting(s, t, vs, now)
        BY <2>1, <2>3 DEF Promoting
    <2>5. TrialOf(s) = s.booting /\ LaunchesOf(s) = s.attempts /\ s.booting # NoRev
        BY <1>3 DEF TrialOf, LaunchesOf, OnTrial
    <2>6. Condemned(s) = {Release(p) : p \in s.booting \ Layers(s.committed)}
        BY <1>3, <2>2 DEF Condemned
    <2>. QED  BY <1>3, <2>2, <2>4, <2>5, <2>6 DEF Moves, RollingBack
<1>. QED  BY <1>1, <1>2, <1>3

LEMMA DraftMoves ==
    ASSUME NEW op \in Ops \ {"boot"}, NEW s \in States, Draft(op, s), state \in States
    PROVE  MovesFreely(state, s)
<1>. USE DEF MovesFreely, TrialOf, LaunchesOf
<1>0. s.staged \in Revisions \cup {NoRev} /\ s.committed \in Revisions \cup {NoRev}
    BY DEF States
<1>1. CASE op = "seed"
    BY <1>0, <1>1 DEF Draft, Seeding
<1>2. CASE op = "commit"
    <2>1. s = Acknowledged(state)
        BY <1>2 DEF Draft
    <2>. QED  BY <2>1, AcknowledgedFields DEF Alike, Acknowledging, OnTrial
<1>3. CASE op = "stage"
    BY <1>0, <1>3 DEF Draft, SameTrial, Staging
<1>4. CASE op = "reset"
    BY <1>4, ClearedFields DEF Draft, Resetting
<1>5. CASE op \in {"observe", "record", "error"}
    BY <1>5, SameIsAlike DEF Draft
<1>. QED  BY <1>1, <1>2, <1>3, <1>4, <1>5 DEF Ops

-----------------------------------------------------------------------------
(***************************************************************************)
(* What the steps of the store leave alone.                                *)
(***************************************************************************)
LEMMA TimeStandsStill ==
    ASSUME TypeOK, Backbone, [Next]_vars,
           call # NoCall \/ call' # call \/ phase' # phase
    PROVE  now' = now
<1>1. Launch \/ Operation \/ Progress => now' = now
    BY DEF Launch, Open, SeedNotNeeded, SeedIfAbsent, Boot, LoadLayers, RecordFailure,
           Operation, NotifyReady, Stage, Reset, ObserveChannel, RecordLastError, OnlyBegins,
           Progress, SaveCondemned, SaveState, SaveVerdicts, Publish,
           SaveTrailingVerdicts, RetryVerdicts, CollectGarbage
<1>2. Environment => now' = now
    BY DEF Environment, Kill, PowerLoss, WriteBack, Tick, process
<1>. QED  BY <1>1, <1>2 DEF Next, vars

\* A state write that succeeds leaves blacklist.json alone.
LEMMA StateStepIsSave ==
    ASSUME TypeOK, Backbone, Next, call.step = "state", call'.step # "state", phase' # "down"
    PROVE  SaveState /\ visible'.verdicts = visible.verdicts /\ (call' = NoCall => statePending')
<1>1. call # NoCall /\ phase # "down"
    BY IdleCall DEF Backbone, PhaseInv
<1>2. ~Launch
    BY <1>1 DEF Launch, Open, SeedNotNeeded, SeedIfAbsent, Boot, LoadLayers, RecordFailure, Begin
<1>3. ~Operation
    BY <1>1 DEF Operation, NotifyReady, Stage, Reset, ObserveChannel, RecordLastError, Begin
<1>4. ~Environment
    BY <1>1 DEF Environment, Kill, PowerLoss, WriteBack, Tick, Forget, process
<1>5. Progress => SaveState
    BY <1>1 DEF Progress, SaveCondemned, SaveState, SaveVerdicts, Publish,
                SaveTrailingVerdicts, RetryVerdicts, CollectGarbage
<1>6. SaveState
    BY <1>2, <1>3, <1>4, <1>5 DEF Next
<1>7. PICK outcome \in WriteOutcomes :
        /\ WriteState(call.state, outcome)
        /\ \/ Advance(StepAfterState(call.op, call.state, call.verdicts))
           \/ GiveUp(TRUE)
    BY <1>6 DEF SaveState
<1>8. visible'.verdicts = visible.verdicts
    BY <1>7 DEF WriteState, WriteRoot
<1>9. call' = NoCall => statePending'
    <2>1. call \in Calls /\ NoCall.step = "none"
        BY InCall, IdleCall DEF TypeOK
    <2>2. \A step : Advance(step) => call'.step = step
        BY <2>1 DEF Advance, Calls
    <2>. QED  BY <1>7, <2>1, <2>2, StepAfterStateCases DEF GiveUp, Forget
<1>. QED  BY <1>6, <1>8, <1>9

\* While the store is down, and where a state write fails a launch, no verdict
\* reaches the medium.
LEMMA DownKeepsStored ==
    ASSUME FlushedBeforeOpen, TypeOK, PoolAccounted, Backbone, RulingInv, [Next]_vars,
           phase' = "down", phase = "down" \/ call.step = "state"
    PROVE  Stored' \subseteq Stored
<1>1. phase = "down" => call.step = "none"
    BY IdleCall DEF Backbone, PhaseInv
<1>. QED
    BY <1>1, EveryStepIsATurn
    DEF Turn, Waits, Starts, Asks, SavesVerdicts, SavesState, Announces, SavesOwed, Tidies,
        GivesUp, Stops

LEMMA OpenKeepsStored ==
    ASSUME FlushedBeforeOpen, TypeOK, PoolAccounted, Backbone, RulingInv, [Next]_vars,
           phase = "down", phase' = "opened"
    PROVE  visible'.verdicts = visible.verdicts
<1>1. Starts
    BY EveryStepIsATurn
    DEF Turn, Waits, Asks, SavesVerdicts, SavesState, Announces, SavesOwed, Tidies,
        GivesUp, Stops
<1>. QED  BY <1>1 DEF Starts, Stored

-----------------------------------------------------------------------------
(***************************************************************************)
(* What is settled stays one step behind what a launch may read.           *)
(***************************************************************************)
LEMMA UnsettledCall ==
    ASSUME PoolAccounted, call.step \in {"none", "condemn", "state", "verdicts", "trailing", "gc"}
    PROVE  Reported = state
BY DEF PoolAccounted, Reported, StateWritten

\* The step by which what is settled changes.
LEMMA SettlesByAMove ==
    ASSUME FlushedBeforeOpen, TypeOK, TypeOK', PoolAccounted, Backbone, RulingInv, RefInv, Next,
           RecordSettled, settled' # settled
    PROVE  /\ settled' \in States
           /\ visible'.verdicts = visible.verdicts /\ now' = now
           /\ Moves(settled, settled', visible.verdicts, now)
<1>1. CASE phase = "down" /\ phase' = "opened" /\ settled' = state'
    <2>1. Reads
        <3>1. call = NoCall /\ call.step = "none"
            BY <1>1, IdleCall DEF Backbone, PhaseInv
        <3>. QED
            BY <1>1, <3>1, EveryStepHasAKind
            DEF StepKind, Rests, Begins, Advances, Writes, Publishes, Ends, Fails, Dies
    <2>2. visible'.verdicts = visible.verdicts /\ now' = now
        BY <1>1, OpenKeepsStored, TimeStandsStill
    <2>3. Moves(settled, visible.state, visible.verdicts, now)
        BY <1>1 DEF RefInv, Files, Stored
    <2>4. Alike(state', visible.state)
        BY <2>1, SameIsAlike DEF Reads
    <2>5. state' \in States
        BY DEF TypeOK, MemoryOK
    <2>. QED
        BY <1>1, <2>2, <2>3, <2>4, <2>5, AlikeIsCongruent, AlikeIsAnEquality
<1>2. CASE /\ call.step = "state" /\ call'.step # "state" /\ phase' # "down"
           /\ ~statePending' /\ settled' = call.state
    <2>1. /\ visible'.verdicts = visible.verdicts
          /\ call # NoCall /\ phase # "down" /\ now' = now /\ call.state \in States
        BY <1>2, StateStepIsSave, TimeStandsStill, IdleCall, VerdictMemory
        DEF Backbone, PhaseInv
    <2>2. Alike(settled, state)
        BY <1>2, <2>1, UnsettledCall DEF RefInv
    <2>3. Moves(state, call.state, visible.verdicts, now)
        <3>1. CASE call.op # "boot"
            BY <1>2, <3>1 DEF RefInv, CandidateMoves, Moves
        <3>2. CASE call.op = "boot"
            BY <1>2, <3>2 DEF RefInv, CandidateMoves, RulingInv, CallInv, LaunchInv, Stored, Backbone, PhaseInv
        <3>. QED  BY <3>1, <3>2
    <2>. QED  BY <1>2, <2>1, <2>2, <2>3, AlikeIsCongruent, AlikeIsAnEquality
<1>. QED  BY <1>1, <1>2 DEF RecordSettled

LEMMA CandidateMovesKept ==
    ASSUME FlushedBeforeOpen, TypeOK, TypeOK', PoolAccounted, Backbone, RulingInv, RulingInv',
           CandidateMoves, [Next]_vars
    PROVE  CandidateMoves'
<1>0. NoCall.step = "none"
    BY IdleCall
<1>1. CASE Begins
    <2>1. /\ call'.op \in Ops /\ call'.state \in States /\ call'.verdicts \in [Releases -> Verdict]
          /\ call' # call /\ state \in States /\ now \in Nat /\ state' = state
          /\ Draft(call'.op, call'.state)
          /\ call'.op = "boot" => call'.state = Promoted(Tried(state), call'.verdicts)
        BY <1>1, <1>0, VerdictMemory DEF Begins, Calls, NoCall, Ops
    <2>2. now' = now
        BY <2>1, TimeStandsStill
    <2>3. ASSUME call'.op # "boot" PROVE MovesFreely(state, call'.state)
        BY <2>1, <2>3, DraftMoves
    <2>4. ASSUME call'.op = "boot" PROVE Moves(state, call'.state, call'.verdicts, now)
        <3>1. Condemned(state) \subseteq Standing(call'.verdicts)
            BY <2>1, <2>4 DEF RulingInv, LaunchInv, Condemned, OnTrial, Layers, Release,
                              Standing, Stands, Releases
        <3>. QED  BY <2>1, <2>4, <3>1, LaunchMoves
    <2>. QED  BY <2>1, <2>2, <2>3, <2>4 DEF CandidateMoves
<1>2. CASE Rests \/ Advances
    <2>1. /\ state' = state /\ call'.state = call.state /\ call'.op = call.op
          /\ call'.verdicts = call.verdicts
          /\ call'.step = call.step \/ (call'.step = "state" => call.step = "condemn")
          /\ call'.step = "condemn" => call' = call
        BY <1>2 DEF Rests, Advances, Continues
    <2>2. call'.step \in {"condemn", "state"} => now' = now
        BY <1>0, <1>2, <2>1, TimeStandsStill DEF Rests, Advances
    <2>. QED  BY <2>1, <2>2 DEF CandidateMoves
<1>3. CASE Reads \/ Writes \/ Publishes \/ Ends \/ Fails \/ Dies
    <2>1. call'.step \notin {"condemn", "state"}
        BY <1>0, <1>3 DEF Reads, Writes, Publishes, Ends, Fails, Dies
    <2>. QED  BY <2>1 DEF CandidateMoves
<1>. QED  BY <1>1, <1>2, <1>3, EveryStepHasAKind DEF StepKind

\* Memory and the files of a process that runs.
LEMMA RunningKept ==
    ASSUME FlushedBeforeOpen, TypeOK, TypeOK', PoolAccounted, Backbone, Backbone', RulingInv,
           RefInv, Next, RecordSettled, phase' # "down"
    PROVE  Alike(settled', Reported') /\ \A f \in Files' : MovesFreely(settled', f)
<1>. USE DEF Files
<1>0. NoCall.step = "none" /\ (call' = NoCall => Reported' = state')
    BY IdleCall
<1>1. CASE Reads
    <2>1. settled' = state' /\ Reported' = state'
        BY <1>0, <1>1 DEF Reads, RecordSettled
    <2>2. \A f \in Files' : Alike(f, state')
        BY <1>1, SameIsAlike, AlikeIsAnEquality DEF Reads
    <2>. QED  BY <2>1, <2>2, AlikeIsAnEquality DEF MovesFreely
<1>2. CASE Writes
    <2>1. settled' = call.state /\ Reported' = call.state
        BY <1>2 DEF Writes, RecordSettled, Reported, StateWritten, Continues
    <2>. QED  BY <1>2, <2>1, AlikeIsAnEquality DEF Writes, MovesFreely
<1>3. CASE Fails
    <2>0. /\ phase # "down" /\ call' = NoCall /\ state' = state
          /\ call.step \in {"condemn", "state", "verdicts", "trailing"} /\ call.op # "boot"
        BY <1>3 DEF Fails
    <2>1. settled' = settled /\ Reported = state
        BY <1>0, <2>0, StateStepIsSave, UnsettledCall DEF RecordSettled
    <2>2. Alike(settled', Reported')
        BY <1>0, <2>0, <2>1 DEF RefInv
    <2>3. Files' \subseteq Files \cup (IF call.step = "state" THEN {call.state} ELSE {})
        BY <1>3 DEF Fails
    <2>4. call.step = "state" => MovesFreely(settled, call.state)
        BY <2>0, <2>1, AlikeIsCongruent, AlikeIsAnEquality DEF RefInv, CandidateMoves
    <2>. QED  BY <2>0, <2>1, <2>2, <2>3, <2>4 DEF RefInv
<1>4. CASE Rests \/ Begins \/ Advances \/ Publishes \/ Ends
    <2>1. phase # "down" /\ Files' \subseteq Files /\ settled' = settled
        BY <1>0, <1>4 DEF Rests, Begins, Advances, Publishes, Ends, RecordSettled
    <2>2. Reported' = Reported
        <3>1. CASE Rests
            BY <3>1 DEF Rests, Reported, StateWritten
        <3>2. CASE Begins
            BY <1>0, <3>2, IdleCall DEF Begins, Reported, StateWritten
        <3>3. CASE Advances
            BY <3>3, UnsettledCall DEF Advances, Continues, Reported, StateWritten
        <3>4. CASE Publishes
            BY <1>0, <3>4 DEF Publishes, Continues, Reported, StateWritten
        <3>5. CASE Ends
            BY <1>0, <3>5 DEF Ends, Continues, Reported, StateWritten
        <3>. QED  BY <1>4, <3>1, <3>2, <3>3, <3>4, <3>5
    <2>. QED  BY <2>1, <2>2 DEF RefInv
<1>5. ~Dies
    BY DEF Dies
<1>. QED  BY <1>1, <1>2, <1>3, <1>4, <1>5, EveryStepHasAKind DEF StepKind

\* The files a process leaves, and what becomes of them until the next launch.
LEMMA DownKept ==
    ASSUME FlushedBeforeOpen, TypeOK, TypeOK', PoolAccounted, Backbone, Backbone', RulingInv,
           RefInv, Next, RecordSettled, phase' = "down"
    PROVE  \A f \in Files', vs \in Stored' : Moves(settled', f, vs, now')
<1>0. NoCall.step = "none" /\ settled' = settled /\ now \in Nat /\ now' \in {now, now + 1}
    BY IdleCall, TimeGoesOn DEF RecordSettled
<1>1. Rests \/ Dies
    BY EveryStepHasAKind
    DEF StepKind, Reads, Begins, Advances, Writes, Publishes, Ends, Fails, Rests, Dies
<1>2. CASE phase = "down"
    <2>1. call = NoCall
        BY <1>2 DEF Backbone, PhaseInv
    <2>2. Files' \subseteq Files
        BY <1>0, <1>1, <2>1 DEF Rests, Dies, Files
    <2>3. Stored' \subseteq Stored
        BY <1>2, DownKeepsStored
    <2>4. \A vs \in Stored : vs \in [Releases -> Verdict]
        BY VerdictMemory DEF Stored
    <2>. QED  BY <1>0, <1>2, <2>2, <2>3, <2>4, MovesLater DEF RefInv
<1>3. CASE phase # "down"
    <2>1. Dies
        BY <1>1, <1>3 DEF Rests
    <2>2. Files' \subseteq Files \cup (IF call.step = "state" THEN {call.state} ELSE {})
        BY <2>1 DEF Dies, Files
    <2>3. \A f \in Files : \A vs : Moves(settled, f, vs, now')
        BY <1>3 DEF RefInv, CandidateMoves, Moves
    <2>4. ASSUME call.step = "state", NEW vs \in Stored'
          PROVE  Moves(settled, call.state, vs, now')
        <3>1. Alike(settled, state) /\ call # NoCall
            BY <1>0, <1>3, <2>4, UnsettledCall DEF RefInv
        <3>2. now' = now
            BY <3>1, TimeStandsStill
        <3>3. CASE call.op # "boot"
            <4>1. Moves(state, call.state, vs, now')
                BY <2>4, <3>3 DEF RefInv, CandidateMoves, Moves
            <4>. QED  BY <3>1, <4>1, AlikeIsCongruent, AlikeIsAnEquality
        <3>4. CASE call.op = "boot"
            <4>1. Stored = {call.verdicts} /\ Stored' \subseteq Stored
                BY <2>4, <3>4, DownKeepsStored
                DEF RulingInv, CallInv, LaunchInv, Backbone, PhaseInv
            <4>2. Moves(state, call.state, vs, now')
                BY <2>4, <3>2, <3>4, <4>1 DEF RefInv, CandidateMoves
            <4>. QED  BY <3>1, <4>2, AlikeIsCongruent, AlikeIsAnEquality
        <3>. QED  BY <3>3, <3>4
    <2>. QED  BY <1>0, <2>2, <2>3, <2>4
<1>. QED  BY <1>2, <1>3

LEMMA RefKept ==
    ASSUME FlushedBeforeOpen, TypeOK, TypeOK', PoolAccounted, Backbone, Backbone', RulingInv,
           RulingInv', RefInv, Next, RecordSettled
    PROVE  RefInv'
<1>1. settled' \in States
    BY SettlesByAMove DEF RefInv
<1>2. CandidateMoves'
    BY CandidateMovesKept DEF RefInv, CandidateMoves
<1>. QED  BY <1>1, <1>2, RunningKept, DownKept DEF RefInv, CandidateMoves

LEMMA RefAlways == ASSUME FlushedBeforeOpen PROVE HistorySpec => []RefInv
<1>1. Init /\ HistoryInit => RefInv
    <2>. SUFFICES ASSUME Init, HistoryInit PROVE RefInv
        OBVIOUS
    <2>1. Files = {NoState} /\ phase = "down" /\ call.step = "none" /\ settled = NewState
        BY IdleCall DEF Init, HistoryInit, Files
    <2>2. Alike(NoState, NewState)
        BY DEF Alike, TrialOf, LaunchesOf, OnTrial, NoState, NewState
    <2>. QED  BY <2>1, <2>2, NewStateType DEF RefInv, CandidateMoves, Moves, MovesFreely
<1>2. TypeOK /\ TypeOK' /\ PoolAccounted /\ Backbone /\ Backbone' /\ RulingInv /\ RulingInv'
        /\ RefInv /\ [HistoryNext]_allVars => RefInv'
    <2>. SUFFICES ASSUME TypeOK, TypeOK', PoolAccounted, Backbone, Backbone', RulingInv,
                         RulingInv', RefInv, [HistoryNext]_allVars
                  PROVE  RefInv'
        OBVIOUS
    <2>1. CASE UNCHANGED allVars
        BY <2>1 DEF allVars, vars, memory, disk, process, history, RefInv, CandidateMoves,
                    Files, Stored, Reported, StateWritten
    <2>2. CASE HistoryNext
        BY <2>2, RefKept DEF HistoryNext
    <2>. QED  BY <2>1, <2>2
<1>. QED
    BY <1>1, <1>2, HistoryObserves, TypeCorrect, PoolAccountedAlways, BackboneAlways,
       RulingAlways, PTL
    DEF HistorySpec

(***************************************************************************)
(* Every launch, acknowledgement, download and reset, cut by a kill, a     *)
(* failed write or a loss of power anywhere, shows as one step of the      *)
(* lifecycle or as none (transaction_with_order, store.rs:952).            *)
(***************************************************************************)
THEOREM StoreImplementsLifecycle ==
    ASSUME FlushedBeforeOpen PROVE HistorySpec => ImplementsLifecycle
<1>1. TypeOK /\ TypeOK' /\ PoolAccounted /\ Backbone /\ RulingInv /\ RefInv
        /\ [HistoryNext]_allVars => [Lifecycle!Next]_(Lifecycle!lifecycle)
    <2>. SUFFICES ASSUME TypeOK, TypeOK', PoolAccounted, Backbone, RulingInv, RefInv,
                         [HistoryNext]_allVars
                  PROVE  [Lifecycle!Next]_(Lifecycle!lifecycle)
        OBVIOUS
    <2>1. CASE settled' = settled
        <3>1. visible'.verdicts \in [Releases -> Verdict] /\ now' \in Nat
            BY StoreAssumption DEF TypeOK, DiskOK, RootFiles
        <3>. QED  BY <2>1, <3>1, JudgeStep DEF Lifecycle!Next
    <2>2. CASE settled' # settled
        <3>1. Next /\ RecordSettled
            BY <2>2 DEF HistoryNext, allVars, history
        <3>. QED
            BY <2>2, <3>1, SettlesByAMove, MoveStep, VerdictMemory DEF RefInv
    <2>. QED  BY <2>1, <2>2
<1>. QED
    BY <1>1, InitRefined, RefAlways, HistoryObserves, TypeCorrect, PoolAccountedAlways,
       BackboneAlways, RulingAlways, PTL
    DEF HistorySpec, ImplementsLifecycle, Lifecycle!Spec
=============================================================================
