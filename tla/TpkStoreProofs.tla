--------------------------- MODULE TpkStoreProofs ---------------------------
(***************************************************************************)
(* Proofs about the store for every set of packs, every channel and every  *)
(* pattern of failed writes, kills and losses of power: types and the      *)
(* pool; and what the store has told its callers and launches have served, *)
(* that floors that were promised hold, what was acknowledged stays        *)
(* committed, and neither a launch nor a rollback goes uncounted.          *)
(***************************************************************************)
EXTENDS TpkStoreHistory, TLAPS

-----------------------------------------------------------------------------
(***************************************************************************)
(* What the helpers return.                                                *)
(***************************************************************************)
\* A new installation starts in a legal state.
LEMMA NewStateType == NewState \in States
BY RevisionsAssumption DEF NewState, States, Revisions

\* A pack's release is one of the releases, a pair of an id and a version.
LEMMA ReleaseType ==
    ASSUME NEW p \in Packs
    PROVE  /\ Release(p) \in Releases
           /\ Release(p) \in Ids \X Nat
BY RevisionsAssumption DEF Release, Releases, Ids

\* The layers of a legal state are packs, the active ones among them.
LEMMA LayersType ==
    ASSUME NEW s \in States
    PROVE  /\ Layers(s.staged) \in SUBSET Packs
           /\ Layers(s.booting) \in SUBSET Packs
           /\ Layers(s.committed) \in SUBSET Packs
           /\ Referenced(s) \in SUBSET Packs
           /\ Active(s) \in SUBSET Referenced(s)
           /\ Active(s) \in SUBSET Packs
<1>1. /\ Layers(s.staged) \in SUBSET Packs
      /\ Layers(s.booting) \in SUBSET Packs
      /\ Layers(s.committed) \in SUBSET Packs
    BY DEF States, Revisions, Layers
<1>2. /\ Referenced(s) \in SUBSET Packs
      /\ Active(s) \in SUBSET Referenced(s)
    BY <1>1 DEF Referenced, Active
<1>. QED  BY <1>1, <1>2

\* Raising a floor gives a floor, and one that is nowhere lower.
LEMMA RaiseType ==
    ASSUME NEW floor \in [Ids -> Nat], NEW rs \in SUBSET (Ids \X Nat)
    PROVE  /\ Raise(floor, rs) \in [Ids -> Nat]
           /\ \A i \in Ids : Raise(floor, rs)[i] >= floor[i]
<1>. DEFINE newer(i) == {r[2] : r \in {q \in rs : q[1] = i /\ q[2] > floor[i]}}
            top(i) == {n \in newer(i) : \A m \in newer(i) : m <= n}
            pick(i) == IF top(i) = {} THEN floor[i] ELSE CHOOSE n \in top(i) : TRUE
<1>1. \A i \in Ids : \A n \in newer(i) : n \in Nat /\ n > floor[i]
    OBVIOUS
<1>2. \A i \in Ids : top(i) # {} => pick(i) \in newer(i)
    OBVIOUS
<1>3. \A i \in Ids : pick(i) \in Nat /\ pick(i) >= floor[i]
    <2>. SUFFICES ASSUME NEW i \in Ids PROVE pick(i) \in Nat /\ pick(i) >= floor[i]
        OBVIOUS
    <2>1. CASE top(i) = {}
        BY <2>1
    <2>2. CASE top(i) # {}
        <3>. HIDE DEF newer, top, pick
        <3>1. pick(i) \in Nat /\ pick(i) > floor[i]
            BY <2>2, <1>1, <1>2
        <3>. QED  BY <3>1
    <2>. QED  BY <2>1, <2>2
<1>4. Raise(floor, rs) = [i \in Ids |-> pick(i)]
    BY DEF Raise
<1>. HIDE DEF pick
<1>. QED  BY <1>3, <1>4

-----------------------------------------------------------------------------
(***************************************************************************)
(* Verdicts stay verdicts.                                                 *)
(***************************************************************************)
LEMMA StrikeType ==
    ASSUME NEW v \in Verdict, NEW reason \in Reasons, NEW t \in Nat
    PROVE  Strike(v, reason, t) \in Entries
<1>1. CASE v = Absent
    BY <1>1, VerdictsAssumption DEF Strike, Entries
<1>2. CASE v # Absent
    <2>1. v \in Entries
        BY <1>2 DEF Verdict
    <2>. QED  BY <1>2, <2>1, VerdictsAssumption DEF Strike, Entries
<1>. QED  BY <1>1, <1>2

LEMMA PruneType ==
    ASSUME NEW vs \in [Releases -> Verdict], NEW t \in Nat
    PROVE  Prune(vs, t) \in [Releases -> Verdict]
BY DEF Prune, Verdict

LEMMA RecordType ==
    ASSUME NEW vs \in [Releases -> Verdict], NEW r \in Releases,
           NEW reason \in Reasons, NEW t \in Nat
    PROVE  Record(vs, r, reason, t) \in [Releases -> Verdict]
<1>1. Prune(vs, t) \in [Releases -> Verdict]
    BY PruneType
<1>2. Strike(Prune(vs, t)[r], reason, t) \in Verdict
    BY <1>1, StrikeType DEF Verdict
<1>. QED  BY <1>1, <1>2 DEF Record

LEMMA CondemnType ==
    ASSUME NEW vs \in [Releases -> Verdict], NEW rs,
           NEW reason \in Reasons, NEW t \in Nat
    PROVE  Condemn(vs, rs, reason, t) \in [Releases -> Verdict]
<1>1. Prune(vs, t) \in [Releases -> Verdict]
    BY PruneType
<1>2. \A r \in Releases : [Strike(Prune(vs, t)[r], reason, t) EXCEPT !.count = TransientStrikes] \in Verdict
    <2>. SUFFICES ASSUME NEW r \in Releases
                  PROVE  [Strike(Prune(vs, t)[r], reason, t) EXCEPT !.count = TransientStrikes] \in Verdict
        OBVIOUS
    <2>1. Strike(Prune(vs, t)[r], reason, t) \in Entries
        BY <1>1, StrikeType
    <2>. QED  BY <2>1, VerdictsAssumption DEF Entries, Verdict
<1>. QED  BY <1>1, <1>2 DEF Condemn

-----------------------------------------------------------------------------
(***************************************************************************)
(* The candidates the operations compute are legal states.                 *)
(***************************************************************************)
LEMMA RevisionType ==
    ASSUME NEW s \in States, NEW vs, NEW batch \in SUBSET Packs
    PROVE  /\ Revision(s, vs, batch) \in Revisions
           /\ Revision(s, vs, batch) \in SUBSET (Referenced(s) \cup batch)
BY LayersType DEF Revision, Inherited, Revisions

LEMMA FloorType ==
    ASSUME NEW s \in States, NEW rs \in SUBSET Releases
    PROVE  [s EXCEPT !.floor = Raise(@, {Release(p) : p \in Layers(s.committed)} \cup rs)] \in States
<1>1. Releases \subseteq Ids \X Nat
    BY ReleaseType DEF Releases
<1>2. {Release(p) : p \in Layers(s.committed)} \cup rs \in SUBSET (Ids \X Nat)
    BY <1>1, LayersType, ReleaseType
<1>3. s.floor \in [Ids -> Nat]
    BY DEF States
<1>4. Raise(s.floor, {Release(p) : p \in Layers(s.committed)} \cup rs) \in [Ids -> Nat]
    BY <1>2, <1>3, RaiseType
<1>. QED  BY <1>4 DEF States

LEMMA RaiseVersionFloorType ==
    ASSUME NEW s \in States
    PROVE  /\ RaiseVersionFloor(s) \in States
           /\ Referenced(RaiseVersionFloor(s)) = Referenced(s)
<1>1. RaiseVersionFloor(s) \in States
    <2>1. {Release(p) : p \in Layers(s.committed)} \cup {} = {Release(p) : p \in Layers(s.committed)}
        OBVIOUS
    <2>2. [s EXCEPT !.floor = Raise(@, {Release(p) : p \in Layers(s.committed)} \cup {})] \in States
        BY FloorType
    <2>. QED  BY <2>1, <2>2 DEF RaiseVersionFloor
<1>2. Referenced(RaiseVersionFloor(s)) = Referenced(s)
    BY DEF RaiseVersionFloor, Referenced, States
<1>. QED  BY <1>1, <1>2

LEMMA BackfillType ==
    ASSUME NEW s \in States, NEW vs \in [Releases -> Verdict]
    PROVE  /\ BackfillVersionFloor(s, vs) \in States
           /\ Referenced(BackfillVersionFloor(s, vs)) = Referenced(s)
<1>. DEFINE ran == {r \in Releases : vs[r] # Absent /\ vs[r].reason # "not_acknowledged"}
<1>1. BackfillVersionFloor(s, vs) \in States
    <2>1. ran \in SUBSET Releases
        OBVIOUS
    <2>2. [s EXCEPT !.floor = Raise(@, {Release(p) : p \in Layers(s.committed)} \cup ran)] \in States
        BY <2>1, FloorType
    <2>. QED  BY <2>2 DEF BackfillVersionFloor
<1>2. Referenced(BackfillVersionFloor(s, vs)) = Referenced(s)
    BY DEF BackfillVersionFloor, Referenced, States
<1>. QED  BY <1>1, <1>2

\* boot_inner adds no layer to what the state already names.
LEMMA TriedType ==
    ASSUME NEW s \in States
    PROVE  /\ Tried(s) \in States
           /\ Referenced(Tried(s)) \subseteq Referenced(s)
<1>1. CASE ~OnTrial(s)
    BY <1>1 DEF Tried
<1>2. CASE OnTrial(s) /\ s.attempts + 1 < MaxBootAttempts
    <2>1. s.attempts + 1 \in 0 .. MaxBootAttempts - 1
        BY <1>2, RevisionsAssumption DEF States
    <2>2. Tried(s) = [s EXCEPT !.attempts = s.attempts + 1]
        BY <1>2 DEF Tried, States
    <2>. QED  BY <2>1, <2>2 DEF States, Referenced
<1>3. CASE OnTrial(s) /\ ~(s.attempts + 1 < MaxBootAttempts)
    <2>. DEFINE r == s.rollbacks + 1
    <2>0. 0 \in 0 .. MaxBootAttempts - 1
        BY RevisionsAssumption
    <2>1. r \in Nat
        BY RevisionsAssumption DEF States
    <2>2. Tried(s) = [s EXCEPT !.booting = NoRev, !.pointer = "committed",
                               !.attempts = 0, !.rollbacks = r]
        BY <1>3 DEF Tried, States
    <2>. HIDE DEF r
    <2>3. Tried(s) \in States
        <3>. DEFINE half == [s EXCEPT !.booting = NoRev, !.pointer = "committed"]
        <3>1. half \in States
            BY DEF States
        <3>2. Tried(s) = [half EXCEPT !.attempts = 0, !.rollbacks = r]
            BY <2>2
        <3>. DEFINE rest == [half EXCEPT !.attempts = 0]
        <3>. HIDE DEF half
        <3>3. rest \in States
            BY <2>0, <3>1 DEF States
        <3>4. Tried(s) = [rest EXCEPT !.rollbacks = r]
            BY <3>2
        <3>. HIDE DEF rest
        <3>. QED  BY <2>1, <3>3, <3>4 DEF States
    <2>4. Referenced(Tried(s)) \subseteq Referenced(s)
        BY <2>2 DEF States, Referenced, Layers
    <2>. QED  BY <2>3, <2>4
<1>. QED  BY <1>1, <1>2, <1>3

LEMMA PromotedType ==
    ASSUME NEW s \in States, NEW vs
    PROVE  /\ Promoted(s, vs) \in States
           /\ Referenced(Promoted(s, vs)) \subseteq Referenced(s)
<1>1. CASE s.pointer # "committed" \/ s.staged = NoRev
    BY <1>1 DEF Promoted
<1>2. CASE s.pointer = "committed" /\ s.staged # NoRev /\ \E p \in s.staged : Blocks(vs, p)
    BY <1>2 DEF Promoted, States, Referenced, Layers
<1>3. CASE s.pointer = "committed" /\ s.staged # NoRev /\ ~\E p \in s.staged : Blocks(vs, p)
    <2>1. 1 \in 0 .. MaxBootAttempts - 1
        BY RevisionsAssumption
    <2>2. Promoted(s, vs) = [s EXCEPT !.staged = NoRev, !.booting = s.staged,
                                      !.pointer = "booting", !.attempts = 1]
        BY <1>3 DEF Promoted
    <2>. QED  BY <2>1, <2>2 DEF States, Referenced, Layers
<1>. QED  BY <1>1, <1>2, <1>3

LEMMA AcknowledgedType ==
    ASSUME NEW s \in States
    PROVE  /\ Acknowledged(s) \in States
           /\ Referenced(Acknowledged(s)) \subseteq Referenced(s)
<1>1. CASE ~OnTrial(s)
    BY <1>1 DEF Acknowledged
<1>2. CASE OnTrial(s)
    <2>. DEFINE a == [s EXCEPT !.committed = s.booting, !.booting = NoRev,
                               !.pointer = "committed", !.attempts = 0,
                               !.rollbacks = 0, !.lastError = "none"]
    <2>1. a \in States
        <3>. DEFINE half == [s EXCEPT !.committed = s.booting, !.booting = NoRev,
                                      !.pointer = "committed"]
        <3>1. half \in States
            BY DEF States
        <3>2. a = [half EXCEPT !.attempts = 0, !.rollbacks = 0, !.lastError = "none"]
            OBVIOUS
        <3>3. 0 \in 0 .. MaxBootAttempts - 1
            BY RevisionsAssumption
        <3>. HIDE DEF half, a
        <3>. QED  BY <3>1, <3>2, <3>3 DEF States
    <2>2. Referenced(a) \subseteq Referenced(s)
        BY DEF States, Referenced, Layers
    <2>3. Acknowledged(s) = RaiseVersionFloor(a)
        BY <1>2 DEF Acknowledged
    <2>. HIDE DEF a
    <2>. QED  BY <2>1, <2>2, <2>3, RaiseVersionFloorType
<1>. QED  BY <1>1, <1>2

-----------------------------------------------------------------------------
(***************************************************************************)
(* The building blocks of the actions keep the types.                      *)
(***************************************************************************)
LEMMA WriteType ==
    ASSUME DiskOK, NEW new \in RootFiles, NEW outcome \in WriteOutcomes,
           WriteRoot(new, outcome)
    PROVE  DiskOK'
BY StoreAssumption DEF DiskOK, WriteRoot

LEMMA WriteStateType ==
    ASSUME DiskOK, NEW s \in States, NEW outcome \in WriteOutcomes,
           WriteState(s, outcome)
    PROVE  DiskOK'
<1>1. [visible EXCEPT !.state = s] \in RootFiles
    BY DEF DiskOK, RootFiles
<1>. QED  BY <1>1, WriteType DEF WriteState

LEMMA WriteBlacklistType ==
    ASSUME DiskOK, NEW vs \in [Releases -> Verdict], NEW outcome \in WriteOutcomes,
           WriteBlacklist(vs, outcome)
    PROVE  DiskOK'
<1>1. [visible EXCEPT !.verdicts = vs] \in RootFiles
    BY DEF DiskOK, RootFiles
<1>. QED  BY <1>1, WriteType DEF WriteBlacklist

LEMMA BeginType ==
    ASSUME NEW op \in Ops, NEW s \in States, NEW vs \in [Releases -> Verdict],
           Begin(op, s, vs)
    PROVE  call' \in Calls
<1>1. FirstStep(op, s, vs) \in Steps
    BY DEF FirstStep, StepAfterCondemn, StepAfterState, Steps
<1>. QED  BY <1>1 DEF Begin, Calls

\* An operation that has a step to take is a call.
LEMMA InCall ==
    ASSUME ProcessOK, call.step # "none"
    PROVE  /\ call \in Calls
           /\ call.state \in States
           /\ call.verdicts \in [Releases -> Verdict]
<1>1. call \in Calls
    BY DEF ProcessOK, NoCall
<1>. QED  BY <1>1 DEF Calls

LEMMA AdvanceType ==
    ASSUME call \in Calls, NEW step \in Steps, Advance(step)
    PROVE  call' \in Calls
BY DEF Advance, Calls

LEMMA ForgetType ==
    ASSUME Forget
    PROVE  MemoryOK' /\ ProcessOK'
<1>1. NoVerdicts \in [Releases -> Verdict]
    BY DEF NoVerdicts, Verdict
<1>. QED  BY <1>1, NewStateType DEF Forget, MemoryOK, ProcessOK

LEMMA GiveUpType ==
    ASSUME MemoryOK, ProcessOK, NEW b \in BOOLEAN, GiveUp(b)
    PROVE  MemoryOK' /\ ProcessOK'
BY ForgetType DEF GiveUp, MemoryOK, ProcessOK

LEMMA ReturnType ==
    ASSUME ProcessOK, call \in Calls, Return, UNCHANGED unrecorded
    PROVE  ProcessOK'
<1>1. Live(call.state, call.verdicts) \in SUBSET Packs
    BY LayersType DEF Live, Calls
<1>2. CASE call.op \in {"commit", "reset"}
    BY <1>2, AdvanceType DEF Return, ProcessOK, Steps, Ops
<1>3. CASE call.op \notin {"commit", "reset"}
    BY <1>1, <1>3 DEF Return, ProcessOK, Ops
<1>. QED  BY <1>2, <1>3

LEMMA StoreLayersType ==
    ASSUME LayerFilesOK, NEW batch \in SUBSET Packs,
           StoreLayers(batch) \/ StoreSomeLayers(batch)
    PROVE  LayerFilesOK'
BY DEF LayerFilesOK, StoreLayers, StoreSomeLayers, SyncedLayers

-----------------------------------------------------------------------------
LEMMA InitType == Init => TypeOK
<1>. SUFFICES ASSUME Init PROVE TypeOK
    OBVIOUS
<1>1. NoVerdicts \in [Releases -> Verdict]
    BY DEF NoVerdicts, Verdict
<1>2. MemoryOK
    BY <1>1, NewStateType DEF Init, MemoryOK
<1>3. DiskOK
    BY <1>1, StoreAssumption DEF Init, DiskOK, RootFiles
<1>4. LayerFilesOK /\ ProcessOK /\ now \in 0 .. MaxClock
    BY StoreAssumption DEF Init, LayerFilesOK, ProcessOK
<1>. QED  BY <1>2, <1>3, <1>4 DEF TypeOK

\* Every step of a call in progress keeps the types.
LEMMA ProgressType == TypeOK /\ Progress => TypeOK'
<1>. SUFFICES ASSUME TypeOK, Progress PROVE TypeOK'
    OBVIOUS
<1>. USE DEF TypeOK
<1>1. CASE SaveCondemned
    <2>1. call \in Calls /\ call.state \in States /\ call.verdicts \in [Releases -> Verdict]
        BY <1>1, InCall DEF SaveCondemned
    <2>2. DiskOK'
        BY <1>1, <2>1, WriteBlacklistType DEF SaveCondemned
    <2>3. StepAfterCondemn(call.op, call.state, call.verdicts) \in Steps
        BY DEF StepAfterCondemn, StepAfterState, Steps
    <2>4. MemoryOK' /\ ProcessOK'
        <3>1. CASE GiveUp(statePending)
            BY <3>1, GiveUpType DEF MemoryOK
        <3>2. CASE /\ verdicts' = call.verdicts
                   /\ Advance(StepAfterCondemn(call.op, call.state, call.verdicts))
                   /\ UNCHANGED <<state, statePending, verdictsPending, persisted,
                                  phase, runtime, unrecorded>>
            BY <3>2, <2>1, <2>3, AdvanceType DEF MemoryOK, ProcessOK
        <3>. QED  BY <1>1, <3>1, <3>2 DEF SaveCondemned
    <2>. QED  BY <1>1, <2>2, <2>4 DEF SaveCondemned, LayerFilesOK, layerFiles
<1>2. CASE SaveState
    <2>1. call \in Calls /\ call.state \in States /\ call.verdicts \in [Releases -> Verdict]
        BY <1>2, InCall DEF SaveState
    <2>2. DiskOK'
        BY <1>2, <2>1, WriteStateType DEF SaveState
    <2>3. StepAfterState(call.op, call.state, call.verdicts) \in Steps
        BY DEF StepAfterState, Steps
    <2>4. MemoryOK' /\ ProcessOK'
        <3>1. CASE GiveUp(TRUE)
            BY <3>1, GiveUpType
        <3>2. CASE /\ statePending' = FALSE
                   /\ persisted' = TRUE
                   /\ Advance(StepAfterState(call.op, call.state, call.verdicts))
                   /\ UNCHANGED <<state, verdicts, verdictsPending, phase, runtime, unrecorded>>
            BY <3>2, <2>1, <2>3, AdvanceType DEF MemoryOK, ProcessOK
        <3>. QED  BY <1>2, <3>1, <3>2 DEF SaveState
    <2>. QED  BY <1>2, <2>2, <2>4 DEF SaveState, LayerFilesOK, layerFiles
<1>3. CASE SaveVerdicts
    <2>1. call \in Calls /\ call.verdicts \in [Releases -> Verdict]
        BY <1>3, InCall DEF SaveVerdicts
    <2>2. DiskOK'
        BY <1>3, <2>1, WriteBlacklistType DEF SaveVerdicts
    <2>3. MemoryOK' /\ ProcessOK'
        <3>1. CASE GiveUp(statePending)
            BY <3>1, GiveUpType DEF MemoryOK
        <3>2. CASE Advance("publish") /\ UNCHANGED <<memory, phase, runtime, unrecorded>>
            BY <3>2, <2>1, AdvanceType DEF MemoryOK, ProcessOK, memory, Steps
        <3>. QED  BY <1>3, <3>1, <3>2 DEF SaveVerdicts
    <2>. QED  BY <1>3, <2>2, <2>3 DEF SaveVerdicts, LayerFilesOK, layerFiles
<1>4. CASE Publish
    <2>1. call \in Calls /\ call.state \in States /\ call.verdicts \in [Releases -> Verdict]
        BY <1>4, InCall DEF Publish
    <2>2. ProcessOK'
        <3>1. CASE Return
            BY <1>4, <2>1, <3>1, ReturnType DEF Publish
        <3>2. CASE Advance("trailing") /\ UNCHANGED <<phase, runtime>>
            BY <1>4, <2>1, <3>2, AdvanceType DEF Publish, ProcessOK, Steps
        <3>. QED  BY <1>4, <3>1, <3>2 DEF Publish
    <2>3. MemoryOK'
        BY <1>4, <2>1 DEF Publish, MemoryOK
    <2>. QED  BY <1>4, <2>2, <2>3 DEF Publish, DiskOK, LayerFilesOK, disk, layerFiles
<1>5. CASE SaveTrailingVerdicts
    <2>1. call \in Calls /\ call.verdicts \in [Releases -> Verdict]
        BY <1>5, InCall DEF SaveTrailingVerdicts
    <2>2. DiskOK'
        BY <1>5, <2>1, WriteBlacklistType DEF SaveTrailingVerdicts
    <2>3. MemoryOK' /\ ProcessOK'
        <3>1. CASE GiveUp(statePending)
            BY <3>1, GiveUpType DEF MemoryOK
        <3>2. CASE /\ verdictsPending' = FALSE
                   /\ Return
                   /\ UNCHANGED <<state, verdicts, statePending, persisted, unrecorded>>
            BY <3>2, <2>1, ReturnType DEF MemoryOK
        <3>. QED  BY <1>5, <3>1, <3>2 DEF SaveTrailingVerdicts
    <2>. QED  BY <1>5, <2>2, <2>3 DEF SaveTrailingVerdicts, LayerFilesOK, layerFiles
<1>6. CASE RetryVerdicts
    <2>1. DiskOK'
        BY <1>6, WriteBlacklistType DEF RetryVerdicts, MemoryOK
    <2>. QED  BY <1>6, <2>1 DEF RetryVerdicts, MemoryOK, LayerFilesOK, ProcessOK, layerFiles, process
<1>7. CASE CollectGarbage
    BY <1>7 DEF CollectGarbage, MemoryOK, DiskOK, LayerFilesOK, ProcessOK, memory, disk
<1>. QED  BY <1>1, <1>2, <1>3, <1>4, <1>5, <1>6, <1>7 DEF Progress

\* Every step of a launch keeps the types.
LEMMA LaunchType == TypeOK /\ Launch => TypeOK'
<1>. SUFFICES ASSUME TypeOK, Launch PROVE TypeOK'
    OBVIOUS
<1>. USE DEF TypeOK
<1>1. CASE Open
    <2>. DEFINE read == IF visible.state = NoState THEN NewState ELSE visible.state
                filled == BackfillVersionFloor(read, visible.verdicts)
    <2>1. read \in States /\ visible.verdicts \in [Releases -> Verdict]
        BY NewStateType DEF DiskOK, RootFiles
    <2>2. filled \in States
        BY <2>1, BackfillType
    <2>. HIDE DEF read, filled
    <2>3. /\ state' = filled
          /\ verdicts' = visible.verdicts
          /\ persisted' \in BOOLEAN
          /\ UNCHANGED <<disk, faults>> \/ \E outcome \in WriteOutcomes : WriteState(filled, outcome)
        BY <1>1 DEF Open, read, filled
    <2>4. DiskOK'
        BY <2>2, <2>3, WriteStateType DEF DiskOK, disk
    <2>5. MemoryOK'
        BY <1>1, <2>1, <2>2, <2>3 DEF Open, MemoryOK
    <2>. QED  BY <1>1, <2>4, <2>5 DEF Open, LayerFilesOK, ProcessOK, layerFiles
<1>2. CASE SeedNotNeeded
    BY <1>2 DEF SeedNotNeeded, MemoryOK, DiskOK, LayerFilesOK, ProcessOK, memory, disk, layerFiles
<1>3. CASE SeedIfAbsent
    <2>1. LayerFilesOK'
        BY <1>3, StoreLayersType, StoreAssumption DEF SeedIfAbsent
    <2>2. Seeded \in States
        <3>. DEFINE s == [state EXCEPT !.committed = Revision(state, verdicts, Seeds),
                                       !.pointer = "committed"]
        <3>1. Revision(state, verdicts, Seeds) \in Revisions
            BY RevisionType, StoreAssumption DEF MemoryOK
        <3>2. s \in States
            BY <3>1 DEF MemoryOK, States
        <3>. QED  BY <3>2, RaiseVersionFloorType DEF Seeded
    <2>3. ProcessOK'
        <3>1. CASE Begin("seed", Seeded, verdicts) /\ UNCHANGED phase
            BY <1>3, <2>2, <3>1, BeginType DEF SeedIfAbsent, MemoryOK, ProcessOK, Ops
        <3>2. CASE phase' = "seeded" /\ UNCHANGED call
            BY <1>3, <3>2 DEF SeedIfAbsent, ProcessOK
        <3>. QED  BY <1>3, <3>1, <3>2 DEF SeedIfAbsent
    <2>. QED  BY <1>3, <2>1, <2>3 DEF SeedIfAbsent, MemoryOK, DiskOK, memory, disk
<1>4. CASE Boot
    <2>. DEFINE vs == Condemn(verdicts, Condemned(state), "not_acknowledged", now)
                s == Promoted(Tried(state), vs)
    <2>1. vs \in [Releases -> Verdict]
        BY CondemnType DEF MemoryOK, Reasons, TransientReasons
    <2>2. s \in States
        BY TriedType, PromotedType DEF MemoryOK
    <2>3. Begin("boot", s, vs)
        BY <1>4 DEF Boot
    <2>. HIDE DEF vs, s
    <2>4. call' \in Calls
        BY <2>1, <2>2, <2>3, BeginType DEF Ops
    <2>. QED
        BY <1>4, <2>4
        DEF Boot, MemoryOK, DiskOK, LayerFilesOK, ProcessOK, memory, disk, layerFiles
<1>5. CASE LoadLayers
    <2>1. runtime' \in SUBSET Packs /\ unrecorded' \in SUBSET Packs
        BY <1>5 DEF LoadLayers, ProcessOK
    <2>. QED
        BY <1>5, <2>1
        DEF LoadLayers, MemoryOK, DiskOK, LayerFilesOK, ProcessOK, memory, disk, layerFiles
<1>6. CASE RecordFailure
    <2>. PICK p \in unrecorded, reason \in LoadReasons :
              /\ Begin("record", state, Record(verdicts, Release(p), reason, now))
              /\ unrecorded' = unrecorded \ {p}
        BY <1>6 DEF RecordFailure
    <2>1. Record(verdicts, Release(p), reason, now) \in [Releases -> Verdict]
        BY RecordType, ReleaseType, StoreAssumption DEF MemoryOK, ProcessOK
    <2>2. call' \in Calls
        BY <2>1, BeginType DEF MemoryOK, Ops
    <2>. QED
        BY <1>6, <2>2
        DEF RecordFailure, MemoryOK, DiskOK, LayerFilesOK, ProcessOK, memory, disk, layerFiles
<1>. QED  BY <1>1, <1>2, <1>3, <1>4, <1>5, <1>6 DEF Launch

\* Every operation of a running process keeps the types.
LEMMA OperationType == TypeOK /\ Operation => TypeOK'
<1>. SUFFICES ASSUME TypeOK, Operation PROVE TypeOK'
    OBVIOUS
<1>. USE DEF TypeOK
<1>1. ASSUME OnlyBegins, call' \in Calls PROVE TypeOK'
    BY <1>1 DEF OnlyBegins, MemoryOK, DiskOK, LayerFilesOK, ProcessOK, memory, disk, layerFiles
<1>2. CASE NotifyReady
    <2>1. Acknowledged(state) \in States
        BY AcknowledgedType DEF MemoryOK
    <2>2. call' \in Calls
        BY <1>2, <2>1, BeginType DEF NotifyReady, MemoryOK, Ops
    <2>. QED  BY <1>1, <1>2, <2>2 DEF NotifyReady
<1>3. ASSUME NEW batch \in Batches, Stage(batch) PROVE TypeOK'
    <2>. DEFINE s == [state EXCEPT !.staged = Revision(state, verdicts, batch),
                                   !.lastError = "none"]
    <2>1. batch \in SUBSET Packs
        BY StoreAssumption
    <2>2. LayerFilesOK'
        BY <1>3, <2>1, StoreLayersType DEF Stage
    <2>3. Revision(state, verdicts, batch) \in Revisions
        BY <2>1, RevisionType DEF MemoryOK
    <2>4. s \in States
        BY <2>3 DEF MemoryOK, States
    <2>5. ProcessOK'
        <3>1. CASE Begin("stage", s, verdicts)
            BY <1>3, <2>4, <3>1, BeginType DEF Stage, MemoryOK, ProcessOK, Ops
        <3>2. CASE UNCHANGED call
            BY <1>3, <3>2 DEF Stage, ProcessOK
        <3>. QED  BY <1>3, <3>1, <3>2 DEF Stage
    <2>. QED  BY <1>3, <2>2, <2>5 DEF Stage, MemoryOK, DiskOK, memory, disk
<1>4. ASSUME NEW clearBlacklist \in BOOLEAN, Reset(clearBlacklist) PROVE TypeOK'
    <2>. DEFINE s == Cleared(state)
                vs == IF clearBlacklist THEN NoVerdicts ELSE verdicts
    <2>1. s \in States
        BY NewStateType DEF MemoryOK, States, Cleared
    <2>2. vs \in [Releases -> Verdict]
        BY DEF MemoryOK, NoVerdicts, Verdict
    <2>3. Begin("reset", s, vs)
        BY <1>4 DEF Reset
    <2>. HIDE DEF s, vs
    <2>4. call' \in Calls
        BY <2>1, <2>2, <2>3, BeginType DEF Ops
    <2>. QED  BY <1>1, <1>4, <2>4 DEF Reset
<1>5. ASSUME NEW w \in 0 .. MaxWatermark, NEW e \in 1 .. MaxEpoch, ObserveChannel(w, e) PROVE TypeOK'
    <2>. DEFINE s == [state EXCEPT !.watermark = Larger(@, w),
                                   !.epoch = Larger(@, e),
                                   !.lastError = "none"]
    <2>1. /\ Larger(state.watermark, w) \in Nat
          /\ Larger(state.epoch, e) \in Nat
        BY RevisionsAssumption DEF MemoryOK, States, Larger
    <2>2. s \in States
        BY <2>1 DEF MemoryOK, States
    <2>3. call' \in Calls
        BY <1>5, <2>2, BeginType DEF ObserveChannel, MemoryOK, Ops
    <2>. QED  BY <1>1, <1>5, <2>3 DEF ObserveChannel
<1>6. ASSUME NEW code \in ErrorCodes, RecordLastError(code) PROVE TypeOK'
    <2>1. [state EXCEPT !.lastError = code] \in States
        BY DEF MemoryOK, States
    <2>2. call' \in Calls
        BY <1>6, <2>1, BeginType DEF RecordLastError, MemoryOK, Ops
    <2>. QED  BY <1>1, <1>6, <2>2 DEF RecordLastError
<1>. QED  BY <1>2, <1>3, <1>4, <1>5, <1>6 DEF Operation

\* Kills, losses of power and the clock keep the types.
LEMMA EnvironmentType == TypeOK /\ Environment => TypeOK'
<1>. SUFFICES ASSUME TypeOK, Environment PROVE TypeOK'
    OBVIOUS
<1>. USE DEF TypeOK
<1>1. CASE Kill
    BY <1>1, ForgetType DEF Kill, DiskOK, LayerFilesOK, disk, layerFiles
<1>2. CASE PowerLoss
    BY <1>2, ForgetType DEF PowerLoss, DiskOK, LayerFilesOK
<1>3. CASE WriteBack
    <2>1. durable' \in RootFiles /\ durablePool' \in SUBSET Packs
        BY <1>3 DEF WriteBack, DiskOK, LayerFilesOK, RootFiles
    <2>. QED  BY <1>3, <2>1 DEF WriteBack, MemoryOK, DiskOK, LayerFilesOK, ProcessOK, memory, process
<1>4. CASE Tick
    BY <1>4, StoreAssumption
    DEF Tick, MemoryOK, DiskOK, LayerFilesOK, ProcessOK, memory, disk, layerFiles, process
<1>. QED  BY <1>1, <1>2, <1>3, <1>4 DEF Environment

(***************************************************************************)
(* Every variable keeps to its type: no candidate an operation computes,   *)
(* and no state a write leaves behind, is outside what the state machine   *)
(* knows.                                                                  *)
(***************************************************************************)
THEOREM TypeCorrect == Spec => []TypeOK
<1>1. TypeOK /\ [Next]_vars => TypeOK'
    <2>1. TypeOK /\ UNCHANGED vars => TypeOK'
        BY DEF TypeOK, MemoryOK, DiskOK, LayerFilesOK, ProcessOK, vars, memory, disk,
               layerFiles, process
    <2>. QED  BY <2>1, ProgressType, LaunchType, OperationType, EnvironmentType DEF Next
<1>. QED  BY <1>1, InitType, PTL DEF Spec

-----------------------------------------------------------------------------
(***************************************************************************)
(* Nothing a readable state names is ever missing from the pool.           *)
(***************************************************************************)
LEMMA NewStateRefersToNothing ==
    /\ Referenced(NewState) = {}
    /\ Referenced(NoState) = {}
    /\ NoCall.step = "none"
    /\ NoCall.state = NewState
BY DEF Referenced, Layers, NewState, NoState, NoCall

\* A transaction that writes no state has none to write.
LEMMA FirstStepCases ==
    ASSUME NEW op, NEW s, NEW vs
    PROVE  \/ FirstStep(op, s, vs) \in {"condemn", "state"}
           \/ FirstStep(op, s, vs) \in {"verdicts", "publish"} /\ s = state
BY DEF FirstStep, StepAfterCondemn, StepAfterState, StateChanged

LEMMA StepAfterStateCases ==
    ASSUME NEW op, NEW s, NEW vs
    PROVE  \/ StepAfterState(op, s, vs) = "publish"
           \/ StepAfterState(op, s, vs) = "verdicts" /\ s = state
BY DEF StepAfterState, StateChanged

\* Starting an operation, possibly after storing packs.
LEMMA BeginAccounted ==
    ASSUME PoolAccounted, phase # "down", phase' # "down",
           UNCHANGED <<memory, disk, runtime>>,
           durablePool \subseteq durablePool', durablePool' \subseteq pool',
           NEW op, NEW s, NEW vs, Begin(op, s, vs), Referenced(s) \subseteq durablePool'
    PROVE  PoolAccounted'
<1>1. ReadableStateResolves'
    BY DEF PoolAccounted, ReadableStateResolves, disk
<1>2. call = NoCall /\ call'.step = FirstStep(op, s, vs) /\ call'.state = s
    BY DEF Begin
<1>3. Referenced(state') \cup Referenced(call'.state) \cup runtime' \subseteq durablePool'
    BY <1>2 DEF PoolAccounted, memory
<1>4. call'.step \in {"verdicts", "trailing", "gc"} => call'.state = state'
    BY <1>2, FirstStepCases DEF memory
<1>5. ~statePending' => Covers(IF StateWritten THEN call.state ELSE state)'
    <2>1. ~statePending => Covers(state)
        BY <1>2, NewStateRefersToNothing DEF PoolAccounted, StateWritten
    <2>2. ~statePending' => Covers(state)'
        BY <2>1 DEF Covers, memory, disk
    <2>3. StateWritten' => call'.state = state'
        BY <1>2, FirstStepCases DEF StateWritten, memory
    <2>. QED  BY <2>2, <2>3 DEF Covers
<1>. QED  BY <1>1, <1>3, <1>4, <1>5 DEF PoolAccounted

\* A step that leaves every file that is read, and the call, as they were.
LEMMA QuietAccounted ==
    ASSUME PoolAccounted, phase # "down", phase' # "down",
           UNCHANGED <<memory, disk, call>>, runtime' \subseteq runtime,
           durablePool \subseteq durablePool', durablePool' \subseteq pool'
    PROVE  PoolAccounted'
BY DEF PoolAccounted, ReadableStateResolves, Covers, StateWritten, memory, disk

\* Giving up on a call whose state is not yet published.
LEMMA ForgetAccounted ==
    ASSUME ReadableStateResolves', Forget
    PROVE  PoolAccounted'
BY NewStateRefersToNothing DEF PoolAccounted, Forget

LEMMA LaunchAccounted ==
    ASSUME FlushedBeforeOpen, TypeOK, PoolAccounted, Launch
    PROVE  PoolAccounted'
<1>. USE DEF TypeOK
<1>1. CASE Open
    <2>. DEFINE read == IF visible.state = NoState THEN NewState ELSE visible.state
                filled == BackfillVersionFloor(read, visible.verdicts)
    <2>1. Referenced(filled) = Referenced(visible.state)
        <3>1. read \in States /\ visible.verdicts \in [Releases -> Verdict]
            BY NewStateType DEF DiskOK, RootFiles
        <3>2. Referenced(filled) = Referenced(read)
            BY <3>1, BackfillType
        <3>. QED  BY <3>2, NewStateRefersToNothing
    <2>2. visible = durable
        BY <1>1 DEF Open
    <2>3. /\ state' = filled
          /\ UNCHANGED <<disk, faults>> \/ \E outcome \in WriteOutcomes : WriteState(filled, outcome)
          /\ UNCHANGED <<statePending, layerFiles, call, runtime>>
          /\ phase = "down" /\ phase' = "opened"
        BY <1>1 DEF Open
    <2>. HIDE DEF read, filled
    <2>4. /\ Referenced(visible'.state) = Referenced(visible.state)
          /\ Referenced(durable'.state) = Referenced(visible.state)
        <3>1. CASE UNCHANGED disk
            BY <2>2, <3>1 DEF disk
        <3>2. ASSUME NEW outcome \in WriteOutcomes, WriteState(filled, outcome)
              PROVE  /\ Referenced(visible'.state) = Referenced(visible.state)
                     /\ Referenced(durable'.state) = Referenced(visible.state)
            BY <2>1, <2>2, <3>2 DEF WriteState, WriteRoot, DiskOK, RootFiles
        <3>. QED  BY <2>3, <3>1, <3>2
    <2>5. call' = NoCall /\ runtime' = {} /\ ~StateWritten'
        BY <2>3, NewStateRefersToNothing DEF PoolAccounted, StateWritten
    <2>6. ReadableStateResolves'
        BY <2>3, <2>4 DEF PoolAccounted, ReadableStateResolves, layerFiles
    <2>7. Referenced(state') \subseteq durablePool'
        BY <2>1, <2>3 DEF PoolAccounted, ReadableStateResolves, layerFiles
    <2>8. Covers(state)'
        BY <2>1, <2>3, <2>4 DEF Covers
    <2>. QED  BY <2>3, <2>5, <2>6, <2>7, <2>8, NewStateRefersToNothing DEF PoolAccounted
<1>2. CASE SeedNotNeeded
    BY <1>2, QuietAccounted
    DEF SeedNotNeeded, PoolAccounted, ReadableStateResolves, layerFiles
<1>3. CASE SeedIfAbsent
    <2>1. CASE StoreLayers(Seeds) /\ Begin("seed", Seeded, verdicts) /\ UNCHANGED phase
        <3>. DEFINE s == [state EXCEPT !.committed = Revision(state, verdicts, Seeds),
                                       !.pointer = "committed"]
        <3>1. /\ Revision(state, verdicts, Seeds) \in Revisions
              /\ Revision(state, verdicts, Seeds) \in SUBSET (Referenced(state) \cup Seeds)
            BY RevisionType, StoreAssumption DEF MemoryOK
        <3>2. s \in States
            BY <3>1 DEF MemoryOK, States
        <3>3. Referenced(s) \subseteq Referenced(state) \cup Seeds
            BY <3>1 DEF MemoryOK, States, Referenced, Layers
        <3>4. Referenced(Seeded) \subseteq Referenced(state) \cup Seeds
            BY <3>2, <3>3, RaiseVersionFloorType DEF Seeded
        <3>5. /\ durablePool \subseteq durablePool'
              /\ durablePool' \subseteq pool'
              /\ Seeds \subseteq durablePool'
            BY <2>1 DEF StoreLayers, SyncedLayers, PoolAccounted, ReadableStateResolves
        <3>6. Referenced(Seeded) \subseteq durablePool'
            BY <1>3, <3>4, <3>5 DEF SeedIfAbsent, PoolAccounted
        <3>. QED  BY <1>3, <2>1, <3>5, <3>6, BeginAccounted DEF SeedIfAbsent
    <2>2. CASE StoreSomeLayers(Seeds) /\ phase' = "seeded" /\ UNCHANGED call
        <3>1. durablePool \subseteq durablePool' /\ durablePool' \subseteq pool'
            BY <2>2 DEF StoreSomeLayers, PoolAccounted, ReadableStateResolves
        <3>. QED  BY <1>3, <2>2, <3>1, QuietAccounted DEF SeedIfAbsent
    <2>. QED  BY <1>3, <2>1, <2>2 DEF SeedIfAbsent
<1>4. CASE Boot
    <2>. DEFINE vs == Condemn(verdicts, Condemned(state), "not_acknowledged", now)
                s == Promoted(Tried(state), vs)
    <2>1. Referenced(s) \subseteq Referenced(state)
        BY TriedType, PromotedType DEF MemoryOK
    <2>2. Begin("boot", s, vs)
        BY <1>4 DEF Boot
    <2>. HIDE DEF vs, s
    <2>3. /\ phase # "down" /\ phase' # "down"
          /\ UNCHANGED <<memory, disk, runtime>>
          /\ UNCHANGED layerFiles
        BY <1>4 DEF Boot
    <2>4. durablePool \subseteq durablePool' /\ durablePool' \subseteq pool'
        BY <2>3 DEF PoolAccounted, ReadableStateResolves, layerFiles
    <2>5. Referenced(s) \subseteq durablePool'
        BY <2>1, <2>3, <2>4 DEF PoolAccounted
    <2>. QED  BY <2>2, <2>3, <2>4, <2>5, BeginAccounted
<1>5. CASE LoadLayers
    BY <1>5, QuietAccounted
    DEF LoadLayers, PoolAccounted, ReadableStateResolves, layerFiles
<1>6. CASE RecordFailure
    <2>. PICK p \in unrecorded, reason \in LoadReasons :
              Begin("record", state, Record(verdicts, Release(p), reason, now))
        BY <1>6 DEF RecordFailure
    <2>1. /\ phase # "down" /\ phase' # "down"
          /\ UNCHANGED <<memory, disk, runtime>>
          /\ UNCHANGED layerFiles
        BY <1>6 DEF RecordFailure
    <2>2. /\ durablePool \subseteq durablePool' /\ durablePool' \subseteq pool'
          /\ Referenced(state) \subseteq durablePool'
        BY <2>1 DEF PoolAccounted, ReadableStateResolves, layerFiles
    <2>. QED  BY <2>1, <2>2, BeginAccounted
<1>. QED  BY <1>1, <1>2, <1>3, <1>4, <1>5, <1>6 DEF Launch

LEMMA OperationAccounted ==
    ASSUME TypeOK, PoolAccounted, Operation
    PROVE  PoolAccounted'
<1>. USE DEF TypeOK
<1>1. ASSUME Ready, OnlyBegins, NEW op, NEW s, NEW vs, Begin(op, s, vs),
             Referenced(s) \subseteq Referenced(state)
      PROVE  PoolAccounted'
    <2>1. /\ phase # "down" /\ phase' # "down"
          /\ UNCHANGED <<memory, disk, runtime, layerFiles>>
        BY <1>1 DEF Ready, OnlyBegins
    <2>2. /\ durablePool \subseteq durablePool' /\ durablePool' \subseteq pool'
          /\ Referenced(s) \subseteq durablePool'
        BY <1>1, <2>1 DEF PoolAccounted, ReadableStateResolves, layerFiles
    <2>. QED  BY <1>1, <2>1, <2>2, BeginAccounted
<1>2. CASE NotifyReady
    BY <1>1, <1>2, AcknowledgedType DEF NotifyReady, MemoryOK
<1>3. ASSUME NEW batch \in Batches, Stage(batch) PROVE PoolAccounted'
    <2>. DEFINE s == [state EXCEPT !.staged = Revision(state, verdicts, batch),
                                   !.lastError = "none"]
    <2>1. /\ phase # "down" /\ phase' # "down"
          /\ UNCHANGED <<memory, disk, runtime>>
        BY <1>3 DEF Stage, Ready
    <2>2. CASE StoreLayers(batch) /\ Begin("stage", s, verdicts)
        <3>1. Revision(state, verdicts, batch) \in SUBSET (Referenced(state) \cup batch)
            BY RevisionType, StoreAssumption DEF MemoryOK
        <3>2. Referenced(s) \subseteq Referenced(state) \cup batch
            BY <3>1 DEF MemoryOK, States, Referenced, Layers
        <3>3. /\ durablePool \subseteq durablePool'
              /\ durablePool' \subseteq pool'
              /\ batch \subseteq durablePool'
            BY <2>2 DEF StoreLayers, SyncedLayers, PoolAccounted, ReadableStateResolves
        <3>4. Referenced(s) \subseteq durablePool'
            BY <2>1, <3>2, <3>3 DEF PoolAccounted
        <3>. HIDE DEF s
        <3>. QED  BY <2>1, <2>2, <3>3, <3>4, BeginAccounted
    <2>3. CASE StoreSomeLayers(batch) /\ UNCHANGED call
        <3>1. durablePool \subseteq durablePool' /\ durablePool' \subseteq pool'
            BY <2>3 DEF StoreSomeLayers, PoolAccounted, ReadableStateResolves
        <3>. QED  BY <2>1, <2>3, <3>1, QuietAccounted
    <2>. QED  BY <1>3, <2>2, <2>3 DEF Stage
<1>4. ASSUME NEW clearBlacklist \in BOOLEAN, Reset(clearBlacklist) PROVE PoolAccounted'
    <2>. DEFINE s == Cleared(state)
    <2>1. Referenced(s) = {}
        BY DEF Referenced, Layers, NewState, Cleared
    <2>. HIDE DEF s
    <2>. QED  BY <1>1, <1>4, <2>1 DEF Reset, s
<1>5. ASSUME NEW w \in 0 .. MaxWatermark, NEW e \in 1 .. MaxEpoch, ObserveChannel(w, e)
      PROVE  PoolAccounted'
    <2>. DEFINE s == [state EXCEPT !.watermark = Larger(@, w),
                                   !.epoch = Larger(@, e),
                                   !.lastError = "none"]
    <2>1. Referenced(s) = Referenced(state)
        BY DEF Referenced, MemoryOK, States
    <2>2. Begin("observe", s, verdicts)
        BY <1>5 DEF ObserveChannel
    <2>. HIDE DEF s
    <2>. QED  BY <1>1, <1>5, <2>1, <2>2 DEF ObserveChannel
<1>6. ASSUME NEW code \in ErrorCodes, RecordLastError(code) PROVE PoolAccounted'
    <2>1. Referenced([state EXCEPT !.lastError = code]) = Referenced(state)
        BY DEF Referenced, MemoryOK, States
    <2>. QED  BY <1>1, <1>6, <2>1 DEF RecordLastError
<1>. QED  BY <1>2, <1>3, <1>4, <1>5, <1>6 DEF Operation

\* Writing the blacklist names no other layers on disk.
LEMMA BlacklistWriteAccounted ==
    ASSUME DiskOK, ReadableStateResolves, UNCHANGED layerFiles,
           NEW vs, NEW outcome \in WriteOutcomes, WriteBlacklist(vs, outcome)
    PROVE  /\ ReadableStateResolves'
           /\ visible'.state = visible.state
           /\ durable'.state \in {visible.state, durable.state}
<1>1. /\ visible'.state = visible.state
      /\ durable'.state \in {visible.state, durable.state}
    BY DEF WriteBlacklist, WriteRoot, DiskOK, RootFiles
<1>. QED  BY <1>1 DEF ReadableStateResolves, layerFiles

\* After a transaction the published state is the one on disk.
LEMMA ReturnAccounted ==
    ASSUME PoolAccounted, ReadableStateResolves', call \in Calls, phase # "down",
           Return, call.state \in States, state' = call.state,
           ~statePending' => Covers(state)',
           Referenced(call.state) \cup runtime \subseteq durablePool'
    PROVE  PoolAccounted'
<1>1. runtime' \subseteq durablePool'
    <2>1. Live(call.state, call.verdicts) \subseteq Referenced(call.state)
        BY LayersType DEF Live
    <2>. QED  BY <2>1 DEF Return, Calls
<1>2. phase' # "down"
    BY DEF Return
<1>3. \/ call' = NoCall
      \/ call'.step = "gc" /\ call'.state = call.state
    BY DEF Return, Advance, Calls
<1>. QED
    BY <1>1, <1>2, <1>3, NewStateRefersToNothing DEF PoolAccounted, StateWritten, Covers

LEMMA ProgressAccounted ==
    ASSUME TypeOK, PoolAccounted, Progress
    PROVE  PoolAccounted'
<1>. USE DEF TypeOK
<1>1. CASE SaveCondemned
    <2>. PICK outcome \in WriteOutcomes :
            /\ WriteBlacklist(call.verdicts, outcome)
            /\ \/ /\ verdicts' = call.verdicts
                  /\ Advance(StepAfterCondemn(call.op, call.state, call.verdicts))
                  /\ UNCHANGED <<state, statePending, verdictsPending, persisted,
                                 phase, runtime, unrecorded>>
               \/ GiveUp(statePending)
        BY <1>1 DEF SaveCondemned
    <2>1. /\ call.step = "condemn" /\ UNCHANGED layerFiles
          /\ call \in Calls /\ phase # "down"
        BY <1>1, InCall, NewStateRefersToNothing DEF SaveCondemned, PoolAccounted
    <2>2. /\ ReadableStateResolves'
          /\ visible'.state = visible.state
          /\ durable'.state \in {visible.state, durable.state}
        BY <2>1, BlacklistWriteAccounted DEF PoolAccounted
    <2>3. ~statePending => Covers(state)
        BY <2>1 DEF PoolAccounted, StateWritten
    <2>4. UNCHANGED <<state, statePending>> /\ ~statePending' => Covers(state)'
        BY <2>2, <2>3 DEF Covers
    <2>5. CASE GiveUp(statePending)
        <3>1. CASE Forget
            BY <2>2, <3>1, ForgetAccounted
        <3>2. CASE ~Forget
            <4>1. /\ call' = NoCall /\ phase' # "down"
                  /\ UNCHANGED <<state, statePending, runtime>>
                BY <2>1, <2>5, <3>2 DEF GiveUp
            <4>2. ~StateWritten'
                BY <4>1, NewStateRefersToNothing DEF StateWritten
            <4>. QED
                BY <2>1, <2>2, <2>4, <4>1, <4>2, NewStateRefersToNothing
                DEF PoolAccounted, layerFiles
        <3>. QED  BY <3>1, <3>2
    <2>6. CASE /\ Advance(StepAfterCondemn(call.op, call.state, call.verdicts))
               /\ UNCHANGED <<state, statePending, verdictsPending, persisted,
                              phase, runtime, unrecorded>>
        <3>1. call'.state = call.state
            BY <2>1, <2>6 DEF Advance, Calls
        <3>2. \/ call'.step = "state"
              \/ call'.step \in {"verdicts", "publish"} /\ call.state = state
            BY <2>1, <2>6 DEF Advance, Calls, StepAfterCondemn, StepAfterState, StateChanged
        <3>. QED
            BY <2>1, <2>2, <2>4, <2>6, <3>1, <3>2 DEF PoolAccounted, StateWritten, Covers, layerFiles
    <2>. QED  BY <2>5, <2>6
<1>2. CASE SaveState
    <2>. PICK outcome \in WriteOutcomes :
            /\ WriteState(call.state, outcome)
            /\ \/ /\ outcome = "ok"
                  /\ statePending' = FALSE
                  /\ Advance(StepAfterState(call.op, call.state, call.verdicts))
                  /\ UNCHANGED <<state, verdicts, verdictsPending, phase, runtime, unrecorded>>
               \/ GiveUp(TRUE)
        BY <1>2 DEF SaveState
    <2>1. /\ call.step = "state" /\ UNCHANGED layerFiles
          /\ call \in Calls /\ phase # "down"
        BY <1>2, InCall, NewStateRefersToNothing DEF SaveState, PoolAccounted
    <2>2. /\ visible'.state \in {visible.state, call.state}
          /\ durable'.state \in {durable.state, call.state}
          /\ outcome = "ok" => visible'.state = call.state /\ durable'.state = call.state
        BY DEF WriteState, WriteRoot, DiskOK, RootFiles
    <2>3. ReadableStateResolves'
        BY <2>1, <2>2 DEF PoolAccounted, ReadableStateResolves, layerFiles
    <2>4. CASE GiveUp(TRUE)
        <3>1. CASE Forget
            BY <2>3, <3>1, ForgetAccounted
        <3>2. CASE ~Forget
            <4>1. /\ call' = NoCall /\ phase' # "down"
                  /\ UNCHANGED <<state, runtime>>
                  /\ statePending'
                BY <2>1, <2>4, <3>2 DEF GiveUp
            <4>. QED
                BY <2>1, <2>3, <4>1, NewStateRefersToNothing DEF PoolAccounted, layerFiles
        <3>. QED  BY <3>1, <3>2
    <2>5. CASE /\ outcome = "ok"
               /\ Advance(StepAfterState(call.op, call.state, call.verdicts))
               /\ UNCHANGED <<state, verdicts, verdictsPending, phase, runtime, unrecorded>>
        <3>1. call'.state = call.state
            BY <2>1, <2>5 DEF Advance, Calls
        <3>2. \/ call'.step = "publish"
              \/ call'.step = "verdicts" /\ call.state = state
            BY <2>1, <2>5, StepAfterStateCases DEF Advance, Calls
        <3>3. Covers(call.state)'
            BY <2>2, <2>5, <3>1 DEF Covers
        <3>. QED
            BY <2>1, <2>3, <2>5, <3>1, <3>2, <3>3 DEF PoolAccounted, StateWritten, layerFiles
    <2>. QED  BY <2>4, <2>5
<1>3. CASE SaveVerdicts
    <2>. PICK outcome \in WriteOutcomes :
            /\ WriteBlacklist(call.verdicts, outcome)
            /\ \/ Advance("publish") /\ UNCHANGED <<memory, phase, runtime, unrecorded>>
               \/ GiveUp(statePending)
        BY <1>3 DEF SaveVerdicts
    <2>1. /\ call.step = "verdicts" /\ UNCHANGED layerFiles
          /\ call \in Calls /\ phase # "down" /\ call.state = state
        BY <1>3, InCall, NewStateRefersToNothing DEF SaveVerdicts, PoolAccounted
    <2>2. /\ ReadableStateResolves'
          /\ visible'.state = visible.state
          /\ durable'.state \in {visible.state, durable.state}
        BY <2>1, BlacklistWriteAccounted DEF PoolAccounted
    <2>3. ~statePending => Covers(state)
        BY <2>1 DEF PoolAccounted, StateWritten
    <2>4. UNCHANGED <<state, statePending>> /\ ~statePending' => Covers(state)'
        BY <2>2, <2>3 DEF Covers
    <2>5. CASE GiveUp(statePending)
        <3>1. CASE Forget
            BY <2>2, <3>1, ForgetAccounted
        <3>2. CASE ~Forget
            <4>1. /\ call' = NoCall /\ phase' # "down"
                  /\ UNCHANGED <<state, statePending, runtime>>
                BY <2>1, <2>5, <3>2 DEF GiveUp
            <4>2. ~StateWritten'
                BY <4>1, NewStateRefersToNothing DEF StateWritten
            <4>. QED
                BY <2>1, <2>2, <2>4, <4>1, <4>2, NewStateRefersToNothing
                DEF PoolAccounted, layerFiles
        <3>. QED  BY <3>1, <3>2
    <2>6. CASE Advance("publish") /\ UNCHANGED <<memory, phase, runtime, unrecorded>>
        <3>1. call'.state = call.state /\ call'.step = "publish"
            BY <2>1, <2>6 DEF Advance, Calls
        <3>. QED
            BY <2>1, <2>2, <2>4, <2>6, <3>1
            DEF PoolAccounted, StateWritten, Covers, layerFiles, memory
    <2>. QED  BY <2>5, <2>6
<1>4. CASE Publish
    <2>1. /\ call.step = "publish" /\ call \in Calls /\ phase # "down"
          /\ state' = call.state
          /\ UNCHANGED <<statePending, persisted, disk, layerFiles, unrecorded>>
        BY <1>4, InCall, NewStateRefersToNothing DEF Publish, PoolAccounted
    <2>2. /\ ReadableStateResolves'
          /\ Referenced(call.state) \cup runtime \subseteq durablePool'
        BY <2>1 DEF PoolAccounted, ReadableStateResolves, disk, layerFiles
    <2>3. ~statePending' => Covers(state)'
        BY <2>1 DEF PoolAccounted, StateWritten, Covers, disk
    <2>4. CASE Return
        BY <2>1, <2>2, <2>3, <2>4, ReturnAccounted DEF layerFiles, Calls
    <2>5. CASE Advance("trailing") /\ UNCHANGED <<phase, runtime>>
        <3>1. call'.state = call.state
            BY <2>1, <2>5 DEF Advance, Calls
        <3>. QED  BY <2>1, <2>2, <2>3, <2>5, <3>1 DEF PoolAccounted, Covers
    <2>. QED  BY <1>4, <2>4, <2>5 DEF Publish
<1>5. CASE SaveTrailingVerdicts
    <2>. PICK outcome \in WriteOutcomes :
            /\ WriteBlacklist(call.verdicts, outcome)
            /\ \/ Return /\ UNCHANGED <<state, statePending, unrecorded>>
               \/ GiveUp(statePending)
        BY <1>5 DEF SaveTrailingVerdicts
    <2>1. /\ call.step = "trailing" /\ UNCHANGED layerFiles
          /\ call \in Calls /\ phase # "down" /\ call.state = state
        BY <1>5, InCall, NewStateRefersToNothing DEF SaveTrailingVerdicts, PoolAccounted
    <2>2. /\ ReadableStateResolves'
          /\ visible'.state = visible.state
          /\ durable'.state \in {visible.state, durable.state}
        BY <2>1, BlacklistWriteAccounted DEF PoolAccounted
    <2>3. ~statePending => Covers(state)
        BY <2>1 DEF PoolAccounted, StateWritten
    <2>4. UNCHANGED <<state, statePending>> /\ ~statePending' => Covers(state)'
        BY <2>2, <2>3 DEF Covers
    <2>5. Referenced(call.state) \cup runtime \subseteq durablePool'
        BY <2>1 DEF PoolAccounted, layerFiles
    <2>6. CASE GiveUp(statePending)
        <3>1. CASE Forget
            BY <2>2, <3>1, ForgetAccounted
        <3>2. CASE ~Forget
            <4>1. /\ call' = NoCall /\ phase' # "down"
                  /\ UNCHANGED <<state, statePending, runtime>>
                BY <2>1, <2>6, <3>2 DEF GiveUp
            <4>2. ~StateWritten'
                BY <4>1, NewStateRefersToNothing DEF StateWritten
            <4>. QED
                BY <2>1, <2>2, <2>4, <4>1, <4>2, NewStateRefersToNothing
                DEF PoolAccounted, layerFiles
        <3>. QED  BY <3>1, <3>2
    <2>7. CASE Return /\ UNCHANGED <<state, statePending, unrecorded>>
        BY <2>1, <2>2, <2>4, <2>5, <2>7, ReturnAccounted DEF Calls
    <2>. QED  BY <2>6, <2>7
<1>6. CASE RetryVerdicts
    <2>. PICK outcome \in WriteOutcomes : WriteBlacklist(verdicts, outcome)
        BY <1>6 DEF RetryVerdicts
    <2>1. /\ call = NoCall
          /\ UNCHANGED <<state, statePending, layerFiles, phase, call, runtime>>
        BY <1>6 DEF RetryVerdicts, process
    <2>2. /\ ReadableStateResolves'
          /\ visible'.state = visible.state
          /\ durable'.state \in {visible.state, durable.state}
        BY <2>1, BlacklistWriteAccounted DEF PoolAccounted
    <2>. QED
        BY <2>1, <2>2, NewStateRefersToNothing DEF PoolAccounted, StateWritten, Covers, layerFiles
<1>7. CASE CollectGarbage
    <2>. PICK removed \in SUBSET Garbage :
            pool' = pool \ removed /\ durablePool' = durablePool \ removed
        BY <1>7 DEF CollectGarbage
    <2>1. /\ call.step = "gc" /\ call' = NoCall
          /\ phase # "down"
          /\ UNCHANGED <<memory, disk, phase, runtime>>
        BY <1>7, NewStateRefersToNothing DEF CollectGarbage, PoolAccounted
    <2>2. call.state = state /\ (~statePending => Covers(state))
        BY <2>1 DEF PoolAccounted, StateWritten
    <2>3. removed \cap (Referenced(state) \cup runtime) = {}
        BY DEF Garbage
    <2>4. removed \cap (Referenced(visible.state) \cup Referenced(durable.state)) = {}
        <3>1. CASE statePending
            BY <3>1 DEF Garbage
        <3>2. CASE ~statePending
            BY <2>2, <2>3, <3>2 DEF Covers
        <3>. QED  BY <3>1, <3>2
    <2>5. ReadableStateResolves'
        BY <2>1, <2>4 DEF PoolAccounted, ReadableStateResolves, disk
    <2>6. Referenced(state') \cup runtime' \subseteq durablePool'
        BY <2>1, <2>3 DEF PoolAccounted, memory
    <2>7. ~statePending' => Covers(state)'
        BY <2>1, <2>2 DEF Covers, memory, disk
    <2>. QED
        BY <2>1, <2>5, <2>6, <2>7, NewStateRefersToNothing DEF PoolAccounted, StateWritten
<1>. QED  BY <1>1, <1>2, <1>3, <1>4, <1>5, <1>6, <1>7 DEF Progress

LEMMA EnvironmentAccounted ==
    ASSUME TypeOK, PoolAccounted, Environment
    PROVE  PoolAccounted'
<1>1. CASE Kill
    <2>1. ReadableStateResolves'
        BY <1>1 DEF Kill, PoolAccounted, ReadableStateResolves, disk, layerFiles
    <2>. QED  BY <1>1, <2>1, ForgetAccounted DEF Kill
<1>2. CASE PowerLoss
    <2>1. ReadableStateResolves'
        BY <1>2 DEF PowerLoss, PoolAccounted, ReadableStateResolves
    <2>. QED  BY <1>2, <2>1, ForgetAccounted DEF PowerLoss
<1>3. CASE WriteBack
    <2>1. /\ UNCHANGED <<memory, visible, pool, process>>
          /\ durable'.state \in {durable.state, visible.state}
          /\ durablePool \subseteq durablePool' /\ durablePool' \subseteq pool'
        BY <1>3 DEF WriteBack, PoolAccounted, ReadableStateResolves, TypeOK, DiskOK, RootFiles
    <2>2. ReadableStateResolves'
        BY <2>1 DEF PoolAccounted, ReadableStateResolves
    <2>. QED
        BY <2>1, <2>2 DEF PoolAccounted, StateWritten, Covers, memory, process
<1>4. CASE Tick
    BY <1>4
    DEF Tick, PoolAccounted, ReadableStateResolves, StateWritten, Covers, memory, disk,
        layerFiles, process
<1>. QED  BY <1>1, <1>2, <1>3, <1>4 DEF Environment

(***************************************************************************)
(* The files of the pool account for everything that is on disk or about   *)
(* to be, provided that a launch reads what the medium holds.              *)
(***************************************************************************)
THEOREM PoolAccountedAlways == ASSUME FlushedBeforeOpen PROVE Spec => []PoolAccounted
<1>1. Init => PoolAccounted
    BY NewStateRefersToNothing
    DEF Init, PoolAccounted, ReadableStateResolves
<1>2. TypeOK /\ PoolAccounted /\ [Next]_vars => PoolAccounted'
    <2>1. PoolAccounted /\ UNCHANGED vars => PoolAccounted'
        BY DEF PoolAccounted, ReadableStateResolves, StateWritten, Covers, vars, memory,
               disk, layerFiles, process
    <2>. QED
        BY <2>1, LaunchAccounted, OperationAccounted, ProgressAccounted, EnvironmentAccounted
        DEF Next
<1>. QED  BY <1>1, <1>2, TypeCorrect, PTL DEF Spec

(***************************************************************************)
(* No state.json that a launch can ever read names a pack whose file is    *)
(* missing, whatever was cut short before.                                 *)
(***************************************************************************)
THEOREM ReadableStateAlwaysResolves ==
    ASSUME FlushedBeforeOpen PROVE Spec => []ReadableStateResolves
<1>1. PoolAccounted => ReadableStateResolves
    BY DEF PoolAccounted
<1>. QED  BY <1>1, PoolAccountedAlways, PTL

(***************************************************************************)
(* gc never removes a file that the running process still needs.           *)
(***************************************************************************)
THEOREM NeededLayersAlwaysPresent ==
    ASSUME FlushedBeforeOpen PROVE Spec => []NeededLayersPresent
<1>1. PoolAccounted => NeededLayersPresent
    BY DEF PoolAccounted, ReadableStateResolves, NeededLayersPresent
<1>. QED  BY <1>1, PoolAccountedAlways, PTL
-----------------------------------------------------------------------------
(***************************************************************************)
(* Raising floors.  A floor absorbs a set of releases when raising it by   *)
(* them changes nothing.                                                   *)
(***************************************************************************)
Newer(floor, rs, i) == {r[2] : r \in {q \in rs : q[1] = i /\ q[2] > floor[i]}}
Tops(floor, rs, i) == {n \in Newer(floor, rs, i) : \A m \in Newer(floor, rs, i) : m <= n}
Absorbs(floor, rs) == \A i \in Ids : Tops(floor, rs, i) = {}
NotBelow(g, f) == \A i \in Ids : g[i] >= f[i]

LEMMA RaiseCases ==
    ASSUME NEW f \in [Ids -> Nat], NEW rs \in SUBSET (Ids \X Nat), NEW i \in Ids
    PROVE  \/ Tops(f, rs, i) = {} /\ Raise(f, rs)[i] = f[i]
           \/ Raise(f, rs)[i] \in Tops(f, rs, i)
<1>. DEFINE pick == IF Tops(f, rs, i) = {} THEN f[i] ELSE CHOOSE n \in Tops(f, rs, i) : TRUE
<1>1. Raise(f, rs)[i] = pick
    BY DEF Raise, Tops, Newer
<1>2. Tops(f, rs, i) # {} => pick \in Tops(f, rs, i)
    OBVIOUS
<1>. QED  BY <1>1, <1>2

LEMMA NewerType ==
    ASSUME NEW f \in [Ids -> Nat], NEW rs \in SUBSET (Ids \X Nat), NEW i \in Ids
    PROVE  /\ \A n \in Newer(f, rs, i) : n \in Nat /\ n > f[i]
           /\ \A g \in [Ids -> Nat] : \A n \in Newer(f, rs, i) :
                 n > g[i] => n \in Newer(g, rs, i)
BY DEF Newer

\* A floor absorbs what it was raised by.
LEMMA RaiseAbsorbs ==
    ASSUME NEW f \in [Ids -> Nat], NEW rs \in SUBSET (Ids \X Nat)
    PROVE  Absorbs(Raise(f, rs), rs)
<1>. DEFINE g == Raise(f, rs)
<1>0. g \in [Ids -> Nat] /\ NotBelow(g, f)
    BY RaiseType DEF NotBelow
<1>. HIDE DEF g
<1>. SUFFICES ASSUME NEW i \in Ids, NEW n \in Tops(g, rs, i) PROVE FALSE
    BY DEF Absorbs, g
<1>1. n \in Newer(g, rs, i) /\ n \in Nat /\ n > g[i] /\ n > f[i]
    BY <1>0, NewerType DEF Tops, NotBelow
<1>2. n \in Newer(f, rs, i)
    BY <1>0, <1>1, NewerType
<1>3. CASE Tops(f, rs, i) = {} /\ g[i] = f[i]
    <2>1. Newer(g, rs, i) = Newer(f, rs, i)
        BY <1>3 DEF Newer
    <2>. QED  BY <1>3, <2>1 DEF Tops
<1>4. CASE g[i] \in Tops(f, rs, i)
    BY <1>0, <1>1, <1>2, <1>4 DEF Tops
<1>. QED  BY <1>3, <1>4, RaiseCases DEF g

\* A higher floor absorbs what a lower one does.
LEMMA AbsorbsUpward ==
    ASSUME NEW f \in [Ids -> Nat], NEW g \in [Ids -> Nat], NotBelow(g, f),
           NEW rs \in SUBSET (Ids \X Nat), Absorbs(f, rs)
    PROVE  Absorbs(g, rs)
<1>. SUFFICES ASSUME NEW i \in Ids, NEW n \in Tops(g, rs, i) PROVE FALSE
    BY DEF Absorbs
<1>1. n \in Newer(g, rs, i) /\ n \in Nat /\ n > g[i] /\ g[i] >= f[i]
    BY NewerType DEF Tops, NotBelow
<1>2. n \in Newer(f, rs, i)
    BY <1>1, NewerType
<1>3. ASSUME NEW m \in Newer(f, rs, i) PROVE m <= n
    <2>1. m \in Nat
        BY NewerType
    <2>2. CASE m > g[i]
        BY <2>2, NewerType DEF Tops
    <2>3. CASE ~(m > g[i])
        BY <1>1, <2>1, <2>3
    <2>. QED  BY <2>2, <2>3
<1>4. n \in Tops(f, rs, i)
    BY <1>2, <1>3 DEF Tops
<1>. QED  BY <1>4 DEF Absorbs

\* A floor that absorbs releases lies above any lower floor raised by them.
LEMMA RaiseStaysBelow ==
    ASSUME NEW f \in [Ids -> Nat], NEW g \in [Ids -> Nat], NotBelow(g, f),
           NEW rs \in SUBSET (Ids \X Nat), Absorbs(g, rs)
    PROVE  NotBelow(g, Raise(f, rs))
<1>. SUFFICES ASSUME NEW i \in Ids PROVE g[i] >= Raise(f, rs)[i]
    BY DEF NotBelow
<1>1. CASE Raise(f, rs)[i] = f[i]
    BY <1>1 DEF NotBelow
<1>2. CASE Raise(f, rs)[i] \in Tops(f, rs, i)
    <2>. DEFINE n == Raise(f, rs)[i]
    <2>1. n \in Newer(f, rs, i) /\ n \in Nat /\ \A m \in Newer(f, rs, i) : m <= n
        BY <1>2, NewerType DEF Tops
    <2>. HIDE DEF n
    <2>2. ASSUME n > g[i] PROVE FALSE
        <3>1. n \in Newer(g, rs, i)
            BY <2>1, <2>2, NewerType
        <3>2. \A m \in Newer(g, rs, i) : m \in Newer(f, rs, i)
            BY NewerType DEF NotBelow
        <3>. QED  BY <2>1, <3>1, <3>2 DEF Absorbs, Tops
    <2>. QED  BY <2>1, <2>2 DEF n
<1>. QED  BY <1>1, <1>2, RaiseCases

-----------------------------------------------------------------------------
(***************************************************************************)
(* The floors.  A state settles when its floor has taken in what it        *)
(* commits; a state on disk owes nothing to another when it holds the      *)
(* floors the other may be promised by.  What is promised is at most what  *)
(* memory, the candidate and both sides of the disk hold, and once no      *)
(* write is in doubt the disk owes nothing to the state a call may report. *)
(***************************************************************************)
Owned(s) == {Release(p) : p \in Layers(s.committed)}
Settles(s) == Absorbs(s.floor, Owned(s))
Keeps(t, s) == NotBelow(t.floor, s.floor) /\ t.watermark >= s.watermark /\ t.epoch >= s.epoch
OwesNothing(t, s) ==
    Absorbs(t.floor, Owned(s)) /\ t.watermark >= s.watermark /\ t.epoch >= s.epoch
Reported == IF StateWritten THEN call.state ELSE state

PromiseType == promised \in [floor : [Ids -> Nat], watermark : Nat, epoch : Nat]

FloorsInv ==
    /\ PromiseType
    /\ FloorsSurvive
    /\ call # NoCall => AtLeastPromised(call.state)
    /\ Settles(state) /\ Settles(call.state) /\ Settles(visible.state) /\ Settles(durable.state)
    /\ StateWritten => ~statePending
    /\ phase # "down" /\ ~statePending =>
          OwesNothing(visible.state, Reported) /\ OwesNothing(durable.state, Reported)

\* AtLeastPromised for a promise given.
Reaches(s, promise) ==
    /\ \A i \in Ids : s.floor[i] >= promise.floor[i]
    /\ s.watermark >= promise.watermark
    /\ s.epoch >= promise.epoch

LEMMA StateParts ==
    ASSUME NEW s \in States \cup {NoState}
    PROVE  /\ s.floor \in [Ids -> Nat] /\ s.watermark \in Nat /\ s.epoch \in Nat
           /\ Owned(s) \in SUBSET (Ids \X Nat)
<1>1. NoState = [NewState EXCEPT !.pointer = "missing"]
    BY DEF NoState
<1>2. Layers(s.committed) \in SUBSET Packs
    BY NewStateType, LayersType, <1>1 DEF NewState, Layers
<1>. QED  BY <1>1, <1>2, NewStateType, ReleaseType DEF States, Owned, NewState

\* A state that commits nothing settles.
LEMMA EmptySettles ==
    ASSUME NEW s, s.committed = NoRev
    PROVE  Settles(s) /\ Owned(s) = {}
BY DEF Settles, Absorbs, Owned, Layers, Tops, Newer

LEMMA NewSettles == Settles(NewState) /\ Settles(NoState)
BY EmptySettles DEF NewState, NoState

LEMMA KeepsPromise ==
    ASSUME PromiseType, NEW s \in States \cup {NoState}, NEW t \in States \cup {NoState},
           AtLeastPromised(s), Keeps(t, s)
    PROVE  AtLeastPromised(t)
<1>. USE StateParts DEF PromiseType
<1>1. ASSUME NEW i \in Ids PROVE t.floor[i] >= promised.floor[i]
    <2>1. t.floor[i] >= s.floor[i] /\ s.floor[i] >= promised.floor[i]
        BY DEF Keeps, NotBelow, AtLeastPromised
    <2>. QED  BY <2>1
<1>2. t.watermark >= promised.watermark /\ t.epoch >= promised.epoch
    BY DEF Keeps, AtLeastPromised
<1>. QED  BY <1>1, <1>2 DEF AtLeastPromised

\* Raising the floor by what is committed settles a state.
LEMMA RaiseSettles ==
    ASSUME NEW s \in States
    PROVE  Settles(RaiseVersionFloor(s)) /\ Keeps(RaiseVersionFloor(s), s)
<1>. DEFINE t == RaiseVersionFloor(s)
<1>1. /\ t.floor = Raise(s.floor, Owned(s)) /\ t.committed = s.committed
      /\ t.watermark = s.watermark /\ t.epoch = s.epoch
    BY DEF RaiseVersionFloor, Owned, States
<1>2. Owned(t) = Owned(s)
    BY <1>1 DEF Owned
<1>. HIDE DEF t
<1>3. NotBelow(t.floor, s.floor)
    BY <1>1, StateParts, RaiseType DEF NotBelow
<1>4. Settles(t)
    BY <1>1, <1>2, StateParts, RaiseAbsorbs DEF Settles
<1>. QED  BY <1>1, <1>3, <1>4, StateParts DEF Keeps, t

LEMMA SameFloors ==
    ASSUME NEW s \in States \cup {NoState}, NEW t, t.floor = s.floor, t.watermark = s.watermark,
           t.epoch = s.epoch
    PROVE  Keeps(t, s)
BY StateParts DEF Keeps, NotBelow

-----------------------------------------------------------------------------
(***************************************************************************)
(* Every candidate keeps the floors of the state it is made from.          *)
(***************************************************************************)
LEMMA CandidatesKeepFloors ==
    ASSUME NEW s \in States, Settles(s)
    PROVE  /\ \A vs : Keeps(Promoted(Tried(s), vs), s) /\ Settles(Promoted(Tried(s), vs))
           /\ Keeps(Acknowledged(s), s) /\ Settles(Acknowledged(s))
           /\ Keeps(Cleared(s), s) /\ Settles(Cleared(s))
<1>1. /\ Tried(s).floor = s.floor /\ Tried(s).watermark = s.watermark
      /\ Tried(s).epoch = s.epoch /\ Tried(s).committed = s.committed
    BY DEF Tried, States
<1>2. ASSUME NEW vs
      PROVE  Keeps(Promoted(Tried(s), vs), s) /\ Settles(Promoted(Tried(s), vs))
    <2>. DEFINE t == Tried(s)  u == Promoted(t, vs)
    <2>1. t \in States
        BY TriedType
    <2>. HIDE DEF t
    <2>2. /\ u.floor = t.floor /\ u.watermark = t.watermark
          /\ u.epoch = t.epoch /\ u.committed = t.committed
        BY <2>1 DEF Promoted, States
    <2>. HIDE DEF u
    <2>3. Settles(u)
        BY <1>1, <2>2 DEF Settles, Owned, t
    <2>. QED  BY <1>1, <2>2, <2>3, SameFloors DEF t, u
<1>3. Keeps(Acknowledged(s), s) /\ Settles(Acknowledged(s))
    <2>1. CASE ~OnTrial(s)
        BY <2>1, SameFloors DEF Acknowledged
    <2>2. CASE OnTrial(s)
        <3>. DEFINE a == [s EXCEPT !.committed = s.booting, !.booting = NoRev,
                                   !.pointer = "committed", !.attempts = 0,
                                   !.rollbacks = 0, !.lastError = "none"]
        <3>1. a \in States
            <4>. DEFINE half == [s EXCEPT !.committed = s.booting, !.booting = NoRev,
                                          !.pointer = "committed"]
            <4>1. half \in States
                BY DEF States
            <4>2. a = [half EXCEPT !.attempts = 0, !.rollbacks = 0, !.lastError = "none"]
                OBVIOUS
            <4>3. 0 \in 0 .. MaxBootAttempts - 1
                BY RevisionsAssumption
            <4>. HIDE DEF half, a
            <4>. QED  BY <4>1, <4>2, <4>3 DEF States
        <3>2. a.floor = s.floor /\ a.watermark = s.watermark /\ a.epoch = s.epoch
            BY DEF States
        <3>3. Acknowledged(s) = RaiseVersionFloor(a)
            BY <2>2 DEF Acknowledged
        <3>. HIDE DEF a
        <3>. QED  BY <3>1, <3>2, <3>3, RaiseSettles DEF Keeps
    <2>. QED  BY <2>1, <2>2
<1>4. Keeps(Cleared(s), s) /\ Settles(Cleared(s))
    <2>1. /\ Cleared(s).floor = s.floor /\ Cleared(s).watermark = s.watermark
          /\ Cleared(s).epoch = s.epoch /\ Cleared(s).committed = NoRev
        BY DEF Cleared, NewState
    <2>. QED  BY <2>1, SameFloors, EmptySettles
<1>. QED  BY <1>2, <1>3, <1>4

-----------------------------------------------------------------------------
(***************************************************************************)
(* What the kinds of steps do to the floors.                               *)
(***************************************************************************)
\* Only the step that publishes a candidate tells the caller anything.
LEMMA OnlyPublishPromises ==
    ASSUME RecordPromised, call.step # "publish" \/ phase' = "down" \/ call' = call
    PROVE  promised' = promised
BY DEF RecordPromised, Returning

\* Steps that leave memory, the call and what is on disk as they were; a name
\* may reach the medium.
LEMMA QuietKeepsFloors ==
    ASSUME FloorsInv, promised' = promised,
           UNCHANGED <<state, statePending, call>>,
           visible'.state = visible.state,
           durable'.state \in {visible.state, durable.state},
           phase' = "down" <=> phase = "down"
    PROVE  FloorsInv'
<1>1. PromiseType' /\ (call # NoCall => AtLeastPromised(call.state))'
    BY DEF FloorsInv, PromiseType, AtLeastPromised
<1>2. FloorsSurvive'
    BY DEF FloorsInv, FloorsSurvive, AtLeastPromised
<1>3. Reported' = Reported /\ StateWritten' = StateWritten
    BY DEF Reported, StateWritten
<1>. QED  BY <1>1, <1>2, <1>3 DEF FloorsInv

\* Nothing is left in memory, and no write in doubt.
LEMMA ForgetKeepsFloors ==
    ASSUME FloorsInv, promised' = promised, Forget,
           AtLeastPromised(visible'.state), AtLeastPromised(durable'.state),
           Settles(visible'.state), Settles(durable'.state)
    PROVE  FloorsInv'
<1>1. PromiseType' /\ FloorsSurvive'
    BY DEF FloorsInv, PromiseType, FloorsSurvive, AtLeastPromised, Forget
<1>2. state' = NewState /\ call' = NoCall /\ phase' = "down"
    BY DEF Forget
<1>3. Settles(state') /\ Settles(call'.state)
    BY <1>2, NewSettles, NewStateRefersToNothing
<1>4. ~StateWritten'
    BY <1>2, NewStateRefersToNothing DEF StateWritten
<1>. QED  BY <1>1, <1>2, <1>3, <1>4 DEF FloorsInv

LEMMA BeginKeepsFloors ==
    ASSUME TypeOK, FloorsInv, promised' = promised,
           UNCHANGED <<state, statePending, visible, durable>>, phase # "down", phase' # "down",
           NEW op, NEW s \in States, NEW vs, Begin(op, s, vs), Keeps(s, state), Settles(s)
    PROVE  FloorsInv'
<1>1. call = NoCall /\ call'.step = FirstStep(op, s, vs) /\ call'.state = s
    BY DEF Begin
<1>2. AtLeastPromised(s)
    BY KeepsPromise DEF FloorsInv, FloorsSurvive, TypeOK, MemoryOK
<1>3. PromiseType' /\ FloorsSurvive' /\ AtLeastPromised(s)'
    BY <1>2 DEF FloorsInv, PromiseType, FloorsSurvive, AtLeastPromised
<1>4. StateWritten' => s = state /\ ~statePending
    BY <1>1 DEF StateWritten, FirstStep, StepAfterCondemn, StepAfterState, StateChanged
<1>5. Reported' = Reported
    BY <1>1, <1>4, NewStateRefersToNothing DEF Reported, StateWritten
<1>. QED  BY <1>1, <1>3, <1>4, <1>5 DEF FloorsInv

\* What the disk and memory hold in a process where no write is in doubt.
LEMMA OpenKeepsFloors ==
    ASSUME FlushedBeforeOpen, TypeOK, PoolAccounted, FloorsInv, Open, RecordPromised
    PROVE  FloorsInv'
<1>. DEFINE onDisk == visible.state
            read == IF onDisk = NoState THEN NewState ELSE onDisk
            rs == {Release(p) : p \in Layers(read.committed)}
                    \cup {r \in Releases : /\ visible.verdicts[r] # Absent
                                           /\ visible.verdicts[r].reason # "not_acknowledged"}
            filled == BackfillVersionFloor(read, visible.verdicts)
<1>1. call = NoCall /\ call' = NoCall /\ durable.state = onDisk /\ phase' # "down"
    BY DEF Open, PoolAccounted
<1>2. onDisk \in States \cup {NoState} /\ read \in States
    BY NewStateType DEF TypeOK, DiskOK, RootFiles
<1>3. /\ read.floor = onDisk.floor /\ read.committed = onDisk.committed
      /\ read.watermark = onDisk.watermark /\ read.epoch = onDisk.epoch
    BY DEF NoState, NewState
<1>4. filled \in States
    BY <1>2, BackfillType DEF TypeOK, DiskOK, RootFiles
<1>5. /\ filled.floor = Raise(read.floor, rs) /\ filled.committed = read.committed
      /\ filled.watermark = read.watermark /\ filled.epoch = read.epoch
    BY <1>2 DEF BackfillVersionFloor, States
<1>6. state' = filled /\ promised' = promised
    BY <1>1, OnlyPublishPromises DEF Open
<1>7. visible'.state \in {onDisk, filled} /\ durable'.state \in {onDisk, filled}
    BY <1>1 DEF Open, disk, WriteState, WriteRoot, TypeOK, DiskOK, RootFiles
<1>8. rs \in SUBSET (Ids \X Nat) /\ Owned(filled) = Owned(onDisk)
    BY <1>2, <1>3, <1>5, LayersType, ReleaseType DEF Owned, Releases
<1>. HIDE DEF onDisk, read, rs, filled
<1>9. Keeps(filled, onDisk)
    BY <1>2, <1>3, <1>5, <1>8, StateParts, RaiseType DEF Keeps, NotBelow
<1>10. Settles(onDisk) /\ AtLeastPromised(onDisk)
    BY DEF onDisk, FloorsInv, FloorsSurvive
<1>11. Settles(filled)
    BY <1>2, <1>4, <1>8, <1>9, <1>10, AbsorbsUpward, StateParts DEF Settles, Keeps
<1>12. AtLeastPromised(filled)
    BY <1>2, <1>4, <1>9, <1>10, KeepsPromise DEF FloorsInv
<1>13. OwesNothing(onDisk, filled) /\ OwesNothing(filled, filled)
    BY <1>2, <1>3, <1>4, <1>5, <1>8, <1>10, <1>11, StateParts DEF OwesNothing, Settles
<1>14. Reported' = filled /\ ~StateWritten'
    BY <1>1, <1>6, NewStateRefersToNothing DEF Reported, StateWritten
<1>15. FloorsSurvive' /\ PromiseType'
    BY <1>6, <1>7, <1>10, <1>12 DEF FloorsSurvive, FloorsInv, PromiseType, AtLeastPromised
<1>. QED
    BY <1>1, <1>6, <1>7, <1>10, <1>11, <1>13, <1>14, <1>15, NewSettles, NewStateRefersToNothing
    DEF FloorsInv

\* A launch takes no floor back.
LEMMA LaunchKeepsFloors ==
    ASSUME FlushedBeforeOpen, TypeOK, PoolAccounted, FloorsInv, Launch, RecordPromised
    PROVE  FloorsInv'
<1>1. CASE Open
    BY <1>1, OpenKeepsFloors
<1>2. CASE SeedNotNeeded
    <2>1. promised' = promised
        BY <1>2, OnlyPublishPromises DEF SeedNotNeeded
    <2>. QED
        BY <1>2, <2>1, QuietKeepsFloors DEF SeedNotNeeded, memory, disk
<1>3. CASE SeedIfAbsent
    <2>0. state \in States /\ phase = "opened"
        BY <1>3 DEF SeedIfAbsent, TypeOK, MemoryOK
    <2>1. CASE Begin("seed", Seeded, verdicts) /\ UNCHANGED phase
        <3>. DEFINE s == [state EXCEPT !.committed = Revision(state, verdicts, Seeds),
                                       !.pointer = "committed"]
        <3>1. promised' = promised
            BY <2>1, OnlyPublishPromises, NewStateRefersToNothing DEF Begin
        <3>2. s \in States
            BY <2>0, StoreAssumption, RevisionType DEF States
        <3>3. s.floor = state.floor /\ s.watermark = state.watermark /\ s.epoch = state.epoch
            BY <2>0 DEF States
        <3>4. Seeded = RaiseVersionFloor(s)
            BY DEF Seeded
        <3>. HIDE DEF s
        <3>5. Seeded \in States /\ Settles(Seeded) /\ Keeps(Seeded, state)
            BY <3>2, <3>3, <3>4, RaiseSettles, RaiseVersionFloorType DEF Keeps
        <3>. QED
            BY <1>3, <2>0, <2>1, <3>1, <3>5, BeginKeepsFloors DEF SeedIfAbsent, memory, disk
    <2>2. CASE call = NoCall /\ phase' = "seeded" /\ UNCHANGED call
        <3>1. promised' = promised
            BY <2>2, OnlyPublishPromises
        <3>. QED
            BY <1>3, <2>0, <2>2, <3>1, QuietKeepsFloors DEF SeedIfAbsent, memory, disk
    <2>. QED  BY <1>3, <2>1, <2>2 DEF SeedIfAbsent
<1>4. CASE Boot
    <2>. DEFINE vs == Condemn(verdicts, Condemned(state), "not_acknowledged", now)
                s == Promoted(Tried(state), vs)
    <2>1. Begin("boot", s, vs) /\ phase = "seeded" /\ phase' = phase
        BY <1>4 DEF Boot
    <2>2. state \in States /\ Settles(state)
        BY DEF TypeOK, MemoryOK, FloorsInv
    <2>3. s \in States
        BY <2>2, TriedType, PromotedType
    <2>4. Settles(s) /\ Keeps(s, state)
        BY <2>2, CandidatesKeepFloors
    <2>. HIDE DEF s, vs
    <2>5. promised' = promised
        BY <2>1, OnlyPublishPromises, NewStateRefersToNothing DEF Begin
    <2>. QED
        BY <1>4, <2>1, <2>3, <2>4, <2>5, BeginKeepsFloors DEF Boot, memory, disk
<1>5. CASE LoadLayers
    <2>1. promised' = promised
        BY <1>5, OnlyPublishPromises DEF LoadLayers
    <2>. QED
        BY <1>5, <2>1, QuietKeepsFloors DEF LoadLayers, memory, disk
<1>6. CASE RecordFailure
    <2>1. PICK vs : Begin("record", state, vs)
        BY <1>6 DEF RecordFailure
    <2>2. state \in States /\ Settles(state) /\ Keeps(state, state)
        BY SameFloors DEF TypeOK, MemoryOK, FloorsInv
    <2>3. promised' = promised
        BY <2>1, OnlyPublishPromises, NewStateRefersToNothing DEF Begin
    <2>. QED
        BY <1>6, <2>1, <2>2, <2>3, BeginKeepsFloors DEF RecordFailure, memory, disk
<1>. QED  BY <1>1, <1>2, <1>3, <1>4, <1>5, <1>6 DEF Launch

\* No operation starts from a candidate with lower floors.
LEMMA OperationKeepsFloors ==
    ASSUME TypeOK, PoolAccounted, FloorsInv, Operation, RecordPromised
    PROVE  FloorsInv'
<1>. USE DEF TypeOK
<1>0. state \in States /\ Settles(state) /\ Keeps(state, state)
    BY SameFloors DEF MemoryOK, FloorsInv
<1>1. ASSUME NEW op, NEW s \in States, NEW vs, Begin(op, s, vs), Keeps(s, state), Settles(s),
             phase = "running", UNCHANGED <<memory, disk, phase>>
      PROVE  FloorsInv'
    <2>1. promised' = promised
        BY <1>1, OnlyPublishPromises, NewStateRefersToNothing DEF Begin
    <2>. QED  BY <1>1, <2>1, BeginKeepsFloors DEF memory, disk
<1>2. ASSUME NEW s \in States, s.floor = state.floor, s.committed = state.committed,
             s.watermark >= state.watermark, s.epoch >= state.epoch
      PROVE  Keeps(s, state) /\ Settles(s)
    BY <1>0, <1>2, StateParts DEF Keeps, NotBelow, Settles, Owned
<1>3. CASE NotifyReady
    BY <1>0, <1>1, <1>3, CandidatesKeepFloors, AcknowledgedType
    DEF NotifyReady, Ready, OnlyBegins
<1>4. ASSUME NEW batch \in Batches, Stage(batch) PROVE FloorsInv'
    <2>. DEFINE s == [state EXCEPT !.staged = Revision(state, verdicts, batch),
                                   !.lastError = "none"]
    <2>1. phase = "running" /\ UNCHANGED <<memory, disk, phase>>
        BY <1>4 DEF Stage, Ready
    <2>2. Revision(state, verdicts, batch) \in Revisions
        BY <1>0, StoreAssumption, RevisionType
    <2>3. s \in States
        BY <1>0, <2>2 DEF States
    <2>4. /\ s.floor = state.floor /\ s.committed = state.committed
          /\ s.watermark >= state.watermark /\ s.epoch >= state.epoch
        BY <1>0, StateParts DEF States
    <2>5. \/ Begin("stage", s, verdicts)
          \/ UNCHANGED call
        BY <1>4 DEF Stage
    <2>. HIDE DEF s
    <2>6. CASE Begin("stage", s, verdicts)
        BY <1>1, <1>2, <2>1, <2>3, <2>4, <2>6
    <2>7. CASE UNCHANGED call
        <3>1. promised' = promised
            BY <2>7, OnlyPublishPromises
        <3>. QED  BY <2>1, <2>7, <3>1, QuietKeepsFloors DEF memory, disk
    <2>. QED  BY <2>5, <2>6, <2>7
<1>5. ASSUME NEW clear \in BOOLEAN, Reset(clear) PROVE FloorsInv'
    <2>1. Cleared(state) \in States
        BY <1>0, NewStateType DEF Cleared, States
    <2>2. Keeps(Cleared(state), state) /\ Settles(Cleared(state))
        BY <1>0, CandidatesKeepFloors
    <2>. QED  BY <1>1, <1>5, <2>1, <2>2 DEF Reset, Ready, OnlyBegins
<1>6. ASSUME NEW w \in 0 .. MaxWatermark, NEW e \in 1 .. MaxEpoch, ObserveChannel(w, e)
      PROVE  FloorsInv'
    <2>. DEFINE s == [state EXCEPT !.watermark = Larger(@, w), !.epoch = Larger(@, e),
                                   !.lastError = "none"]
    <2>1. w \in Nat /\ e \in Nat
        BY StoreAssumption
    <2>2. s \in States
        BY <1>0, <2>1 DEF States, Larger
    <2>3. /\ s.floor = state.floor /\ s.committed = state.committed
          /\ s.watermark >= state.watermark /\ s.epoch >= state.epoch
        BY <1>0, <2>1, StateParts DEF States, Larger
    <2>. HIDE DEF s
    <2>4. Begin("observe", s, verdicts)
        BY <1>6 DEF ObserveChannel, s
    <2>. QED  BY <1>1, <1>2, <1>6, <2>2, <2>3, <2>4 DEF ObserveChannel, Ready, OnlyBegins
<1>7. ASSUME NEW code \in ErrorCodes, RecordLastError(code) PROVE FloorsInv'
    <2>. DEFINE s == [state EXCEPT !.lastError = code]
    <2>1. s \in States
        BY <1>0 DEF States
    <2>2. /\ s.floor = state.floor /\ s.committed = state.committed
          /\ s.watermark >= state.watermark /\ s.epoch >= state.epoch
        BY <1>0, StateParts DEF States
    <2>. HIDE DEF s
    <2>3. Begin("error", s, verdicts)
        BY <1>7 DEF RecordLastError, s
    <2>. QED  BY <1>1, <1>2, <1>7, <2>1, <2>2, <2>3 DEF RecordLastError, Ready, OnlyBegins
<1>. QED  BY <1>3, <1>4, <1>5, <1>6, <1>7 DEF Operation

-----------------------------------------------------------------------------
(***************************************************************************)
(* The steps of a call.                                                    *)
(***************************************************************************)
\* A step after the state was dealt with that touches only the blacklist.
LEMMA VerdictStepsKeepFloors ==
    ASSUME TypeOK, PoolAccounted, FloorsInv, promised' = promised,
           call.step \in {"verdicts", "trailing", "gc"},
           call' = NoCall \/ call'.state = call.state,
           UNCHANGED <<state, statePending>>,
           visible'.state = visible.state,
           durable'.state \in {visible.state, durable.state},
           phase' # "down"
    PROVE  FloorsInv'
<1>1. call.state = state /\ phase # "down" /\ ~statePending /\ AtLeastPromised(state)
    BY NewStateRefersToNothing DEF PoolAccounted, StateWritten, FloorsInv
<1>2. PromiseType' /\ FloorsSurvive' /\ AtLeastPromised(state)'
    BY <1>1 DEF FloorsInv, PromiseType, FloorsSurvive, AtLeastPromised
<1>3. call' # NoCall => call'.state = state'
    BY <1>1
<1>4. Settles(state') /\ Settles(call'.state)
    BY <1>1, NewSettles, NewStateRefersToNothing DEF FloorsInv
<1>5. Reported' = state /\ Reported = state
    BY <1>1, <1>3, NewStateRefersToNothing DEF Reported, StateWritten
<1>6. (call # NoCall => AtLeastPromised(call.state))'
    BY <1>2, <1>3 DEF AtLeastPromised
<1>. QED  BY <1>1, <1>2, <1>4, <1>5, <1>6 DEF FloorsInv

\* A failed write that leaves each side of the disk with a state it may have.
LEMMA GiveUpKeepsFloors ==
    ASSUME TypeOK, FloorsInv, promised' = promised, NEW b, GiveUp(b), phase # "down",
           call # NoCall,
           b \/ (/\ visible'.state = visible.state
                 /\ durable'.state = durable.state
                 /\ ~b <=> ~statePending
                 /\ Reported = state),
           visible'.state \in {visible.state, call.state},
           durable'.state \in {durable.state, call.state}
    PROVE  FloorsInv'
<1>1. /\ AtLeastPromised(visible'.state) /\ AtLeastPromised(durable'.state)
      /\ Settles(visible'.state) /\ Settles(durable'.state)
    BY DEF FloorsInv, FloorsSurvive
<1>2. CASE call.op = "boot"
    BY <1>1, <1>2, ForgetKeepsFloors DEF GiveUp
<1>3. CASE call.op # "boot"
    <2>1. call' = NoCall /\ statePending' = b /\ state' = state /\ phase' # "down"
        BY <1>3 DEF GiveUp
    <2>2. Reported' = state /\ ~StateWritten'
        BY <2>1, NewStateRefersToNothing DEF Reported, StateWritten
    <2>3. PromiseType' /\ FloorsSurvive'
        BY <1>1, <2>1 DEF FloorsInv, PromiseType, FloorsSurvive, AtLeastPromised
    <2>. QED
        BY <1>1, <2>1, <2>2, <2>3, NewSettles, NewStateRefersToNothing DEF FloorsInv
<1>. QED  BY <1>2, <1>3

\* What publishing promises lies below what has been written.
LEMMA PublishPromises ==
    ASSUME TypeOK, FloorsInv, RecordPromised, call.state \in States, Settles(call.state),
           AtLeastPromised(call.state)
    PROVE  /\ PromiseType'
           /\ \A t \in States \cup {NoState} :
                 AtLeastPromised(t) /\ OwesNothing(t, call.state) => Reaches(t, promised')
<1>. DEFINE c == call.state
            raised == Raise(promised.floor, Owned(c))
<1>1. PromiseType /\ Owned(c) \in SUBSET (Ids \X Nat) /\ c.watermark \in Nat /\ c.epoch \in Nat
    BY StateParts DEF FloorsInv
<1>2. /\ promised' \in [floor : {promised.floor, raised},
                        watermark : {promised.watermark, Larger(promised.watermark, c.watermark)},
                        epoch : {promised.epoch, Larger(promised.epoch, c.epoch)}]
    BY <1>1 DEF RecordPromised, PromiseType, Owned
<1>3. raised \in [Ids -> Nat]
    BY <1>1, RaiseType DEF PromiseType
<1>4. ASSUME NEW t \in States \cup {NoState}, AtLeastPromised(t), OwesNothing(t, c)
      PROVE  Reaches(t, promised')
    <2>1. t.floor \in [Ids -> Nat] /\ t.watermark \in Nat /\ t.epoch \in Nat
        BY StateParts
    <2>2. NotBelow(t.floor, promised.floor)
        BY <1>4 DEF AtLeastPromised, NotBelow
    <2>3. NotBelow(t.floor, raised)
        BY <1>1, <1>4, <2>1, <2>2, RaiseStaysBelow DEF PromiseType, OwesNothing
    <2>4. NotBelow(t.floor, promised'.floor)
        BY <1>2, <2>2, <2>3
    <2>5. t.watermark >= promised'.watermark /\ t.epoch >= promised'.epoch
        BY <1>1, <1>2, <1>4, <2>1 DEF OwesNothing, AtLeastPromised, Larger, PromiseType
    <2>. QED  BY <2>4, <2>5 DEF Reaches, NotBelow
<1>. HIDE DEF raised
<1>5. PromiseType'
    BY <1>1, <1>2, <1>3 DEF PromiseType, Larger
<1>. QED  BY <1>4, <1>5

\* No step of a call takes a floor back or promises one it has not written.
LEMMA ProgressKeepsFloors ==
    ASSUME TypeOK, PoolAccounted, FloorsInv, Progress, RecordPromised
    PROVE  FloorsInv'
<1>. DEFINE c == call.state
<1>0. ASSUME call.step # "none"
      PROVE  /\ call \in Calls /\ c \in States /\ call # NoCall /\ phase # "down"
             /\ AtLeastPromised(c) /\ Settles(c)
    BY <1>0, InCall, NewStateRefersToNothing DEF TypeOK, PoolAccounted, FloorsInv
<1>1. CASE SaveCondemned
    <2>1. call.step = "condemn" /\ promised' = promised
        BY <1>1, OnlyPublishPromises DEF SaveCondemned
    <2>2. Reported = state
        BY <2>1 DEF Reported, StateWritten
    <2>3. PICK outcome \in WriteOutcomes :
            /\ WriteBlacklist(call.verdicts, outcome)
            /\ \/ /\ outcome = "ok"
                  /\ Advance(StepAfterCondemn(call.op, call.state, call.verdicts))
                  /\ UNCHANGED <<state, statePending, phase>>
               \/ outcome # "ok" /\ GiveUp(statePending)
        BY <1>1 DEF SaveCondemned
    <2>4. /\ visible'.state = visible.state
          /\ durable'.state \in {visible.state, durable.state}
          /\ outcome # "ok" => durable'.state = durable.state
        BY <2>3 DEF WriteBlacklist, WriteRoot, TypeOK, DiskOK, RootFiles
    <2>5. CASE outcome # "ok"
        BY <1>0, <2>1, <2>2, <2>3, <2>4, <2>5, GiveUpKeepsFloors
    <2>6. CASE outcome = "ok"
        <3>1. /\ call'.step = StepAfterCondemn(call.op, call.state, call.verdicts)
              /\ call'.state = c /\ call' # NoCall
            BY <1>0, <2>1, <2>3, <2>6 DEF Advance, Calls, NoCall, Ops
        <3>2. StateWritten' => c = state /\ ~statePending
            BY <3>1 DEF StateWritten, StepAfterCondemn, StepAfterState, StateChanged
        <3>3. Reported' = state
            BY <2>3, <2>6, <3>1, <3>2 DEF Reported
        <3>4. PromiseType' /\ FloorsSurvive' /\ Reaches(c, promised')
            BY <1>0, <2>1, <2>3, <2>4, <2>6
            DEF FloorsInv, PromiseType, FloorsSurvive, AtLeastPromised, Reaches
        <3>5. Settles(state') /\ Settles(call'.state) /\ Settles(visible'.state)
                /\ Settles(durable'.state)
            BY <1>0, <2>1, <2>3, <2>4, <2>6, <3>1 DEF FloorsInv
        <3>6. (call # NoCall => AtLeastPromised(call.state))'
            BY <3>1, <3>4 DEF AtLeastPromised, Reaches
        <3>. QED
            BY <1>0, <2>1, <2>2, <2>3, <2>4, <2>6, <3>2, <3>3, <3>4, <3>5, <3>6 DEF FloorsInv
    <2>. QED  BY <2>5, <2>6
<1>2. CASE SaveState
    <2>1. call.step = "state" /\ promised' = promised
        BY <1>2, OnlyPublishPromises DEF SaveState
    <2>2. PICK outcome \in WriteOutcomes :
            /\ WriteState(c, outcome)
            /\ \/ /\ outcome = "ok"
                  /\ statePending' = FALSE
                  /\ Advance(StepAfterState(call.op, call.state, call.verdicts))
                  /\ UNCHANGED <<state, phase>>
               \/ outcome # "ok" /\ GiveUp(TRUE)
        BY <1>2 DEF SaveState
    <2>3. /\ visible'.state \in {visible.state, c}
          /\ durable'.state \in {durable.state, c}
          /\ outcome = "ok" => visible'.state = c /\ durable'.state = c
        BY <2>2 DEF WriteState, WriteRoot, TypeOK, DiskOK, RootFiles
    <2>4. CASE outcome # "ok"
        BY <1>0, <2>1, <2>2, <2>3, <2>4, GiveUpKeepsFloors
    <2>5. CASE outcome = "ok"
        <3>1. /\ call'.step \in {"verdicts", "publish"} /\ call'.state = c
            BY <1>0, <2>1, <2>2, <2>5, StepAfterStateCases DEF Advance, Calls
        <3>2. StateWritten' /\ Reported' = c
            BY <3>1 DEF StateWritten, Reported
        <3>3. PromiseType' /\ FloorsSurvive' /\ Reaches(c, promised')
            BY <1>0, <2>1, <2>2, <2>3, <2>5
            DEF FloorsInv, PromiseType, FloorsSurvive, AtLeastPromised, Reaches
        <3>4. Settles(state') /\ Settles(call'.state) /\ Settles(visible'.state)
                /\ Settles(durable'.state)
            BY <1>0, <2>1, <2>2, <2>3, <2>5, <3>1 DEF FloorsInv
        <3>5. OwesNothing(c, c)
            BY <1>0, <2>1, StateParts DEF OwesNothing, Settles
        <3>6. (call # NoCall => AtLeastPromised(call.state))'
            BY <3>1, <3>3 DEF AtLeastPromised, Reaches
        <3>. QED
            BY <2>2, <2>3, <2>5, <3>2, <3>3, <3>4, <3>5, <3>6 DEF FloorsInv
    <2>. QED  BY <2>4, <2>5
<1>3. CASE SaveVerdicts
    <2>1. call.step = "verdicts" /\ promised' = promised /\ c = state /\ ~statePending
        BY <1>3, OnlyPublishPromises DEF SaveVerdicts, PoolAccounted, FloorsInv, StateWritten
    <2>2. PICK outcome \in WriteOutcomes :
            /\ WriteBlacklist(call.verdicts, outcome)
            /\ \/ outcome = "ok" /\ Advance("publish") /\ UNCHANGED <<memory, phase>>
               \/ outcome # "ok" /\ GiveUp(statePending)
        BY <1>3 DEF SaveVerdicts
    <2>3. /\ visible'.state = visible.state
          /\ durable'.state \in {visible.state, durable.state}
          /\ outcome # "ok" => durable'.state = durable.state
        BY <2>2 DEF WriteBlacklist, WriteRoot, TypeOK, DiskOK, RootFiles
    <2>4. Reported = state
        BY <2>1 DEF Reported
    <2>5. CASE outcome # "ok"
        BY <1>0, <2>1, <2>2, <2>3, <2>4, <2>5, GiveUpKeepsFloors
    <2>6. CASE outcome = "ok"
        <3>1. call'.state = c
            BY <1>0, <2>1, <2>2, <2>6 DEF Advance, Calls
        <3>. QED
            BY <1>0, <2>1, <2>2, <2>3, <2>6, <3>1, VerdictStepsKeepFloors DEF memory
    <2>. QED  BY <2>5, <2>6
<1>4. CASE Publish
    <2>1. call.step = "publish" /\ StateWritten /\ ~statePending
        BY <1>4 DEF Publish, StateWritten, FloorsInv
    <2>2. /\ state' = c /\ statePending' = statePending
          /\ visible' = visible /\ durable' = durable
        BY <1>4 DEF Publish, disk
    <2>3. phase' # "down" /\ (call' = NoCall \/ call'.state = c)
        BY <1>0, <1>4, <2>1 DEF Publish, Return, Advance, Calls
    <2>4. /\ PromiseType'
          /\ \A t \in States \cup {NoState} :
                AtLeastPromised(t) /\ OwesNothing(t, c) => Reaches(t, promised')
        BY <1>0, <2>1, PublishPromises
    <2>5. OwesNothing(visible.state, c) /\ OwesNothing(durable.state, c) /\ OwesNothing(c, c)
        BY <1>0, <2>1, StateParts DEF FloorsInv, Reported, OwesNothing, Settles
    <2>6. /\ Reaches(visible.state, promised')
          /\ Reaches(durable.state, promised')
          /\ Reaches(c, promised')
        BY <1>0, <2>1, <2>4, <2>5 DEF FloorsInv, FloorsSurvive, TypeOK, DiskOK, RootFiles
    <2>7. FloorsSurvive' /\ (call # NoCall => AtLeastPromised(call.state))'
        BY <2>2, <2>3, <2>6 DEF FloorsSurvive, AtLeastPromised, Reaches
    <2>8. Reported' = c
        BY <2>2, <2>3, NewStateRefersToNothing DEF Reported, StateWritten
    <2>9. Settles(state') /\ Settles(call'.state) /\ Settles(visible'.state)
            /\ Settles(durable'.state)
        BY <1>0, <2>1, <2>2, <2>3, NewSettles, NewStateRefersToNothing DEF FloorsInv
    <2>. QED  BY <2>1, <2>2, <2>4, <2>5, <2>7, <2>8, <2>9 DEF FloorsInv
<1>5. CASE SaveTrailingVerdicts
    <2>1. call.step = "trailing" /\ promised' = promised /\ c = state /\ ~statePending
        BY <1>5, OnlyPublishPromises
        DEF SaveTrailingVerdicts, PoolAccounted, FloorsInv, StateWritten
    <2>2. PICK outcome \in WriteOutcomes :
            /\ WriteBlacklist(call.verdicts, outcome)
            /\ \/ outcome = "ok" /\ Return /\ UNCHANGED <<state, statePending>>
               \/ outcome # "ok" /\ GiveUp(statePending)
        BY <1>5 DEF SaveTrailingVerdicts
    <2>3. /\ visible'.state = visible.state
          /\ durable'.state \in {visible.state, durable.state}
          /\ outcome # "ok" => durable'.state = durable.state
        BY <2>2 DEF WriteBlacklist, WriteRoot, TypeOK, DiskOK, RootFiles
    <2>4. Reported = state
        BY <2>1 DEF Reported
    <2>5. CASE outcome # "ok"
        BY <1>0, <2>1, <2>2, <2>3, <2>4, <2>5, GiveUpKeepsFloors
    <2>6. CASE outcome = "ok"
        <3>1. (call' = NoCall \/ call'.state = c) /\ phase' # "down"
            BY <1>0, <2>1, <2>2, <2>6 DEF Return, Advance, Calls
        <3>. QED
            BY <2>1, <2>2, <2>3, <2>6, <3>1, VerdictStepsKeepFloors
    <2>. QED  BY <2>5, <2>6
<1>6. CASE RetryVerdicts
    <2>1. promised' = promised
        BY <1>6, OnlyPublishPromises DEF RetryVerdicts, process
    <2>2. /\ visible'.state = visible.state
          /\ durable'.state \in {visible.state, durable.state}
        BY <1>6 DEF RetryVerdicts, WriteBlacklist, WriteRoot, TypeOK, DiskOK, RootFiles
    <2>. QED  BY <1>6, <2>1, <2>2, QuietKeepsFloors DEF RetryVerdicts, process
<1>7. CASE CollectGarbage
    <2>1. promised' = promised /\ call.step = "gc"
        BY <1>7, OnlyPublishPromises DEF CollectGarbage
    <2>. QED
        BY <1>0, <1>7, <2>1, VerdictStepsKeepFloors DEF CollectGarbage, memory, disk
<1>. QED  BY <1>1, <1>2, <1>3, <1>4, <1>5, <1>6, <1>7 DEF Progress

\* Neither a kill nor a loss of power takes a promised floor.
LEMMA EnvironmentKeepsFloors ==
    ASSUME TypeOK, PoolAccounted, FloorsInv, Environment, RecordPromised
    PROVE  FloorsInv'
<1>1. CASE Kill
    BY <1>1, OnlyPublishPromises, ForgetKeepsFloors
    DEF Kill, Forget, disk, FloorsInv, FloorsSurvive
<1>2. CASE PowerLoss
    BY <1>2, OnlyPublishPromises, ForgetKeepsFloors
    DEF PowerLoss, Forget, FloorsInv, FloorsSurvive
<1>3. CASE WriteBack
    <2>1. promised' = promised
        BY <1>3, OnlyPublishPromises DEF WriteBack, process
    <2>2. durable'.state \in {visible.state, durable.state}
        BY <1>3 DEF WriteBack, TypeOK, DiskOK, RootFiles
    <2>. QED  BY <1>3, <2>1, <2>2, QuietKeepsFloors DEF WriteBack, process, memory
<1>4. CASE Tick
    <2>1. promised' = promised
        BY <1>4, OnlyPublishPromises DEF Tick, process
    <2>. QED  BY <1>4, <2>1, QuietKeepsFloors DEF Tick, process, memory, disk
<1>. QED  BY <1>1, <1>2, <1>3, <1>4 DEF Environment

-----------------------------------------------------------------------------
(***************************************************************************)
(* The history observes: what the store guarantees without it, it          *)
(* guarantees with it.                                                     *)
(***************************************************************************)
LEMMA HistoryObserves == HistorySpec => Spec
<1>1. [HistoryNext]_allVars => [Next]_vars
    BY DEF HistoryNext, allVars
<1>. QED  BY <1>1, PTL DEF HistorySpec, Spec

LEMMA FloorsInvAlways == ASSUME FlushedBeforeOpen PROVE HistorySpec => []FloorsInv
<1>1. Init /\ HistoryInit => FloorsInv
    <2>. SUFFICES ASSUME Init, HistoryInit PROVE FloorsInv
        OBVIOUS
    <2>1. /\ visible.state = NoState /\ durable.state = NoState /\ call = NoCall
          /\ state = NewState /\ phase = "down" /\ ~StateWritten
        BY NewStateRefersToNothing DEF Init, StateWritten
    <2>2. PromiseType
        BY DEF HistoryInit, PromiseType, NewState
    <2>3. FloorsSurvive
        BY <2>1 DEF HistoryInit, FloorsSurvive, AtLeastPromised, NoState, NewState
    <2>. QED  BY <2>1, <2>2, <2>3, NewSettles, NewStateRefersToNothing DEF FloorsInv
<1>2. TypeOK /\ PoolAccounted /\ FloorsInv /\ [HistoryNext]_allVars => FloorsInv'
    <2>. SUFFICES ASSUME TypeOK, PoolAccounted, FloorsInv, [HistoryNext]_allVars
                  PROVE  FloorsInv'
        OBVIOUS
    <2>1. CASE UNCHANGED allVars
        BY <2>1, QuietKeepsFloors DEF allVars, vars, memory, disk, process, history
    <2>2. CASE HistoryNext
        BY <2>2, LaunchKeepsFloors, OperationKeepsFloors, ProgressKeepsFloors,
           EnvironmentKeepsFloors DEF HistoryNext, Next
    <2>. QED  BY <2>1, <2>2
<1>. QED
    BY <1>1, <1>2, HistoryObserves, TypeCorrect, PoolAccountedAlways, PTL
    DEF HistorySpec

(***************************************************************************)
(* The floors that operations promised by returning Ok hold in memory and  *)
(* in every state.json that a launch can read, for ever: no reset, failed  *)
(* write, kill or loss of power takes one back (store.rs:495).             *)
(***************************************************************************)
THEOREM FloorsAlwaysSurvive ==
    ASSUME FlushedBeforeOpen PROVE HistorySpec => []FloorsSurvive
<1>1. FloorsInv => FloorsSurvive
    BY DEF FloorsInv
<1>. QED  BY <1>1, FloorsInvAlways, PTL

-----------------------------------------------------------------------------
(***************************************************************************)
(* The backbone.  Two states are the same when they hold the same          *)
(* revisions and counters: a floor raised on open may not have been        *)
(* written.  Once no write is in doubt, a read finds the state that a call  *)
(* may report; and so does a loss of power, where launches read what has   *)
(* been flushed.                                                           *)
(***************************************************************************)
SameTrial(t, s) ==
    /\ t.booting = s.booting
    /\ t.committed = s.committed
    /\ t.attempts = s.attempts
    /\ t.rollbacks = s.rollbacks
    /\ OnTrial(t) <=> OnTrial(s)

Same(t, s) == SameTrial(t, s) /\ t.staged = s.staged

SyncInv ==
    /\ StateWritten \/ phase = "down" => ~statePending
    /\ phase # "down" /\ ~statePending =>
          /\ Same(visible.state, Reported)
          /\ FlushedBeforeOpen => Same(durable.state, Reported)

CandidateInv ==
    /\ call.op \in {"stage", "observe", "record", "error"} => SameTrial(call.state, state)
    /\ call.op = "boot" => call.state.committed = state.committed
    /\ call.op = "seed" => state.committed = NoRev /\ call.verdicts = verdicts
    /\ call.op = "commit" =>
          /\ ~OnTrial(call.state)
          /\ call.state = state \/ (OnTrial(state) /\ call.state.committed # NoRev)
    /\ call.step \in {"verdicts", "trailing", "gc"} => call.state = state

PhaseInv ==
    /\ phase = "down" => call = NoCall
    /\ call.op = "boot" => phase = "seeded"
    /\ call.op = "seed" => phase = "opened"
    /\ call.op \notin {"none", "boot", "seed"} => phase = "running"
    /\ call.step \in {"trailing", "gc"} => call.op \notin {"boot", "seed"}

Backbone == SyncInv /\ CandidateInv /\ PhaseInv

(***************************************************************************)
(* The steps of the store, told apart by what they do to state.json and to *)
(* the call that is to change it.                                          *)
(***************************************************************************)
\* What an operation may be called with, and the candidate it computes.
Draft(op, s) ==
    \/ /\ op = "seed" /\ phase = "opened"
       /\ Seeds # {} /\ state.committed = NoRev
       /\ ~OnTrial(s) /\ s.committed # NoRev /\ Seeds \subseteq s.committed
       /\ s.staged = state.staged /\ s.booting = state.booting
       /\ s.rollbacks = state.rollbacks
    \/ op = "boot" /\ phase = "seeded" /\ \E vs : s = Promoted(Tried(state), vs)
    \/ op = "commit" /\ phase = "running" /\ s = Acknowledged(state)
    \/ /\ op = "stage" /\ phase = "running"
       /\ ~Degraded(state) /\ SameTrial(s, state)
       /\ s.staged \notin {NoRev, state.booting}
    \/ op = "reset" /\ phase = "running" /\ s = Cleared(state)
    \/ op \in {"observe", "record", "error"} /\ phase = "running" /\ Same(s, state)

Rests ==
    /\ UNCHANGED <<state, statePending, call>>
    /\ call.op = "seed" => verdicts' = verdicts
    /\ visible'.state = visible.state
    /\ durable'.state \in {visible.state, durable.state}
    /\ \/ phase' = phase
       \/ call = NoCall /\ phase = "opened" /\ phase' = "seeded"
       \/ call = NoCall /\ phase = "booted" /\ phase' = "running"

Reads ==
    /\ phase = "down" /\ phase' = "opened"
    /\ call = NoCall /\ call' = NoCall /\ ~statePending'
    /\ Same(state', visible.state)
    /\ visible'.state \in {visible.state, state'}
    /\ durable'.state \in {durable.state, state'}
    /\ FlushedBeforeOpen => durable.state = visible.state

Begins ==
    /\ phase # "down" /\ phase' = phase
    /\ call = NoCall
    /\ UNCHANGED <<state, statePending, verdicts>>
    /\ visible'.state = visible.state /\ durable'.state = durable.state
    /\ call' \in Calls
    /\ Draft(call'.op, call'.state)
    /\ call'.op = "seed" => call'.verdicts = verdicts
    /\ call'.op = "boot" => call'.state = Promoted(Tried(state), call'.verdicts)
    /\ \/ call'.step \in {"condemn", "state"}
       \/ call'.step \in {"verdicts", "publish"} /\ call'.state = state /\ ~statePending

Continues == call'.op = call.op /\ call'.state = call.state /\ call'.verdicts = call.verdicts

\* Only the verdicts of a rollback are saved before the state.
Advances ==
    /\ call.step \in {"condemn", "verdicts"} /\ phase # "down" /\ phase' = phase
    /\ UNCHANGED <<state, statePending>>
    /\ visible'.state = visible.state
    /\ durable'.state \in {visible.state, durable.state}
    /\ Continues /\ verdicts' \in {verdicts, call.verdicts}
    /\ call'.step # call.step
    /\ \/ call'.step = "state" /\ call.step = "condemn"
       \/ call'.step \in {"verdicts", "publish"} /\ call.state = state /\ ~statePending

Writes ==
    /\ call.step = "state" /\ phase # "down" /\ phase' = phase
    /\ UNCHANGED <<state, verdicts>> /\ ~statePending'
    /\ visible'.state = call.state /\ durable'.state = call.state
    /\ Continues
    /\ call'.step = "publish" \/ (call'.step = "verdicts" /\ call.state = state)

Publishes ==
    /\ call.step = "publish" /\ phase # "down"
    /\ state' = call.state /\ ~statePending /\ ~statePending'
    /\ visible' = visible /\ durable' = durable
    /\ call' # call
    /\ \/ call' = NoCall
       \/ /\ Continues /\ verdicts' = call.verdicts
          /\ call'.step \in {"trailing", "gc"} /\ call.op \notin {"boot", "seed"}
    /\ phase' = CASE call.op = "boot" -> "booted"
                  [] call.op = "seed" -> "seeded"
                  [] OTHER -> phase

\* What follows the publication of the state.
Ends ==
    /\ call.step \in {"trailing", "gc"} /\ phase # "down" /\ phase' = phase
    /\ call.state = state /\ ~statePending
    /\ UNCHANGED <<state, statePending, verdicts>>
    /\ visible'.state = visible.state
    /\ durable'.state \in {visible.state, durable.state}
    /\ call' = NoCall \/ (Continues /\ call'.step = "gc" /\ call.step = "trailing")

Fails ==
    /\ call.step \in {"condemn", "state", "verdicts", "trailing"} /\ call.op # "boot"
    /\ phase # "down" /\ phase' = (IF call.op = "seed" THEN "seeded" ELSE phase)
    /\ call' = NoCall
    /\ state' = state /\ durable'.state = durable.state
    /\ \/ visible'.state = visible.state /\ statePending' = statePending /\ Reported = state
       \/ call.step = "state" /\ visible'.state = call.state /\ statePending'
       \/ call.step = "state" /\ visible'.state = visible.state /\ statePending'

Dies ==
    /\ phase' = "down" /\ call' = NoCall
    /\ state' = NewState /\ ~statePending'
    /\ durable'.state = durable.state
    /\ \/ visible'.state \in {visible.state, durable.state}
       \/ call.step = "state" /\ visible'.state = call.state

-----------------------------------------------------------------------------
LEMMA IdleCall ==
    /\ NoCall.op = "none" /\ NoCall.step = "none" /\ NoCall.state = NewState
    /\ call = NoCall => ~StateWritten /\ Reported = state
    /\ call' = NoCall => ~StateWritten' /\ Reported' = state'
BY DEF NoCall, StateWritten, Reported

\* A state's fields, that of a missing file included.
LEMMA StateFields ==
    ASSUME NEW s \in States \cup {NoState}
    PROVE  /\ s.staged \in Revisions \cup {NoRev}
           /\ s.booting \in Revisions \cup {NoRev}
           /\ s.committed \in Revisions \cup {NoRev}
           /\ s.attempts \in Nat
           /\ s.rollbacks \in Nat
<1>1. NoState = [NewState EXCEPT !.pointer = "missing"]
    BY DEF NoState
<1>. QED  BY <1>1, RevisionsAssumption DEF States, NewState

\* A revision is never the empty slot.
LEMMA NoSuchRevision == NoRev \notin Revisions
BY RevisionsAssumption DEF NoRev, Revisions

LEMMA AcknowledgedFields ==
    ASSUME NEW s \in States
    PROVE  \/ ~OnTrial(s) /\ Acknowledged(s) = s
           \/ /\ OnTrial(s) /\ ~OnTrial(Acknowledged(s))
              /\ Acknowledged(s).committed = s.booting
              /\ Acknowledged(s).booting = NoRev
              /\ Acknowledged(s).staged = s.staged
              /\ Acknowledged(s).rollbacks = 0
<1>1. CASE ~OnTrial(s)
    BY <1>1 DEF Acknowledged
<1>2. CASE OnTrial(s)
    <2>. DEFINE a == [s EXCEPT !.committed = s.booting, !.booting = NoRev,
                               !.pointer = "committed", !.attempts = 0,
                               !.rollbacks = 0, !.lastError = "none"]
    <2>1. /\ a.committed = s.booting /\ a.booting = NoRev /\ a.rollbacks = 0
          /\ a.pointer = "committed" /\ a.staged = s.staged
        BY DEF States
    <2>2. Acknowledged(s) = [a EXCEPT !.floor = Raise(@, {Release(p) : p \in Layers(a.committed)})]
        BY <1>2 DEF Acknowledged, RaiseVersionFloor
    <2>3. /\ Acknowledged(s).committed = a.committed /\ Acknowledged(s).booting = a.booting
          /\ Acknowledged(s).rollbacks = a.rollbacks /\ Acknowledged(s).pointer = a.pointer
          /\ Acknowledged(s).staged = a.staged
        BY <2>2 DEF States
    <2>. QED  BY <1>2, <2>1, <2>3 DEF OnTrial
<1>. QED  BY <1>1, <1>2

LEMMA ClearedFields ==
    ASSUME NEW s \in States
    PROVE  /\ Cleared(s).staged = NoRev /\ Cleared(s).booting = NoRev
           /\ Cleared(s).committed = NoRev /\ ~OnTrial(Cleared(s))
           /\ Cleared(s).rollbacks = 0
BY DEF Cleared, NewState, OnTrial

(***************************************************************************)
(* A launch goes on with the trial, ends it or starts one.                 *)
(***************************************************************************)
RolledBack(s) == IF OnTrial(s) THEN s.rollbacks + 1 ELSE s.rollbacks

LEMMA LaunchFields ==
    ASSUME NEW s \in States, NEW vs, NEW t, t = Promoted(Tried(s), vs)
    PROVE  /\ t.committed = s.committed
           /\ \/ /\ OnTrial(s) /\ OnTrial(t) /\ t.booting = s.booting /\ t.staged = s.staged
                 /\ t.attempts = s.attempts + 1 /\ t.attempts < MaxBootAttempts
                 /\ t.rollbacks = s.rollbacks
              \/ /\ ~OnTrial(t) /\ t.rollbacks = RolledBack(s)
                 /\ \/ t.staged = NoRev
                    \/ ~OnTrial(s) /\ t.staged = s.staged /\ t.booting = s.booting
              \/ /\ OnTrial(t) /\ s.staged # NoRev /\ t.booting = s.staged /\ t.staged = NoRev
                 /\ t.attempts = 1 /\ t.rollbacks = RolledBack(s)
<1>. DEFINE u == Tried(s)
<1>1. CASE OnTrial(s) /\ s.attempts + 1 < MaxBootAttempts
    <2>1. u = [s EXCEPT !.attempts = @ + 1]
        BY <1>1 DEF Tried
    <2>2. u.pointer # "committed"
        BY <1>1, <2>1 DEF OnTrial, States
    <2>3. t = u
        BY <2>2 DEF Promoted
    <2>. QED  BY <1>1, <2>1, <2>3 DEF OnTrial, States
<1>2. CASE ~(OnTrial(s) /\ s.attempts + 1 < MaxBootAttempts)
    <2>1. /\ u.committed = s.committed /\ u.staged = s.staged /\ ~OnTrial(u)
          /\ u.rollbacks = RolledBack(s)
          /\ ~OnTrial(s) => u = s
          /\ OnTrial(s) => u.pointer = "committed"
        BY <1>2 DEF Tried, RolledBack, OnTrial, States
    <2>2. u \in States
        BY TriedType
    <2>. HIDE DEF u
    <2>3. CASE u.pointer # "committed" \/ u.staged = NoRev
        <3>1. t = u
            BY <2>3 DEF Promoted, u
        <3>. QED  BY <2>1, <2>3, <3>1
    <2>4. CASE u.pointer = "committed" /\ u.staged # NoRev /\ \E p \in u.staged : Blocks(vs, p)
        <3>1. t = [u EXCEPT !.staged = NoRev]
            BY <2>4 DEF Promoted, u
        <3>. QED  BY <2>1, <2>2, <2>4, <3>1 DEF OnTrial, States
    <2>5. CASE u.pointer = "committed" /\ u.staged # NoRev /\ ~\E p \in u.staged : Blocks(vs, p)
        <3>1. t = [u EXCEPT !.staged = NoRev, !.booting = u.staged, !.pointer = "booting",
                            !.attempts = 1]
            BY <2>5 DEF Promoted, u
        <3>2. /\ t.staged = NoRev /\ t.booting = u.staged /\ t.pointer = "booting"
              /\ t.attempts = 1 /\ t.rollbacks = u.rollbacks /\ t.committed = u.committed
            BY <2>2, <3>1 DEF States
        <3>. QED  BY <2>1, <2>5, <3>2 DEF OnTrial
    <2>. QED  BY <2>3, <2>4, <2>5
<1>. QED  BY <1>1, <1>2

-----------------------------------------------------------------------------
(***************************************************************************)
(* Every step is one of the kinds.                                         *)
(***************************************************************************)
StepKind == Rests \/ Reads \/ Begins \/ Advances \/ Writes \/ Publishes \/ Ends \/ Fails \/ Dies

LEMMA BeginsCase ==
    ASSUME TypeOK, phase # "down", phase' = phase, UNCHANGED <<memory, disk>>,
           NEW op \in Ops, NEW s \in States, NEW vs \in [Releases -> Verdict],
           Begin(op, s, vs), Draft(op, s),
           op = "seed" => vs = verdicts, op = "boot" => s = Promoted(Tried(state), vs)
    PROVE  Begins
<1>1. call = NoCall /\ call' = [op |-> op, step |-> FirstStep(op, s, vs), state |-> s, verdicts |-> vs]
    BY DEF Begin
<1>2. call' \in Calls
    BY BeginType
<1>3. \/ FirstStep(op, s, vs) \in {"condemn", "state"}
      \/ FirstStep(op, s, vs) \in {"verdicts", "publish"} /\ s = state /\ ~statePending
    BY DEF FirstStep, StepAfterCondemn, StepAfterState, StateChanged
<1>. QED  BY <1>1, <1>2, <1>3 DEF Begins, memory, disk

LEMMA LaunchKinds ==
    ASSUME TypeOK, Backbone, Launch
    PROVE  StepKind
<1>. USE DEF TypeOK
<1>0. state \in States /\ verdicts \in [Releases -> Verdict] /\ now \in Nat
    BY StoreAssumption DEF MemoryOK
<1>1. CASE Open
    <2>. DEFINE onDisk == visible.state
                read == IF onDisk = NoState THEN NewState ELSE onDisk
                filled == BackfillVersionFloor(read, visible.verdicts)
    <2>1. read \in States /\ onDisk \in States \cup {NoState}
        BY NewStateType DEF DiskOK, RootFiles
    <2>2. Same(filled, read)
        BY <2>1 DEF BackfillVersionFloor, Same, SameTrial, OnTrial, States
    <2>3. Same(read, onDisk)
        BY DEF Same, SameTrial, OnTrial, NoState, NewState
    <2>4. Same(filled, onDisk)
        BY <2>2, <2>3 DEF Same, SameTrial
    <2>5. /\ phase = "down" /\ phase' = "opened"
          /\ FlushedBeforeOpen => durable.state = onDisk
        BY <1>1 DEF Open
    <2>6. call = NoCall /\ call' = NoCall /\ ~statePending' /\ state' = filled
        BY <1>1, <2>5 DEF Open, Backbone, PhaseInv, SyncInv
    <2>7. visible'.state \in {onDisk, filled} /\ durable'.state \in {durable.state, filled}
        BY <1>1, <2>5 DEF Open, disk, WriteState, WriteRoot, DiskOK, RootFiles
    <2>. HIDE DEF read, filled
    <2>. QED  BY <2>4, <2>5, <2>6, <2>7 DEF Reads, StepKind
<1>2. CASE SeedNotNeeded
    BY <1>2 DEF SeedNotNeeded, StepKind, Rests, memory, disk
<1>3. CASE SeedIfAbsent
    <2>0. phase = "opened" /\ Seeds # {} /\ state.committed = NoRev /\ UNCHANGED <<memory, disk>>
        BY <1>3 DEF SeedIfAbsent
    <2>1. CASE Begin("seed", Seeded, verdicts) /\ UNCHANGED phase
        <3>. DEFINE s == [state EXCEPT !.committed = Revision(state, verdicts, Seeds),
                                       !.pointer = "committed"]
        <3>1. Revision(state, verdicts, Seeds) \in Revisions
            BY <1>0, StoreAssumption, RevisionType
        <3>2. s \in States
            BY <1>0, <3>1 DEF States
        <3>3. /\ s.staged = state.staged /\ s.booting = state.booting
              /\ s.rollbacks = state.rollbacks /\ s.pointer = "committed"
              /\ s.committed # NoRev /\ Seeds \subseteq s.committed
            BY <1>0, <3>1, NoSuchRevision DEF States, Revision
        <3>4. Seeded = RaiseVersionFloor(s)
            BY DEF Seeded
        <3>. HIDE DEF s
        <3>5. /\ Seeded.staged = s.staged /\ Seeded.booting = s.booting
              /\ Seeded.rollbacks = s.rollbacks /\ Seeded.pointer = s.pointer
              /\ Seeded.committed = s.committed /\ Seeded \in States
            BY <3>2, <3>4, RaiseVersionFloorType DEF RaiseVersionFloor, States
        <3>6. Draft("seed", Seeded)
            BY <2>0, <3>3, <3>5 DEF Draft, OnTrial
        <3>7. "seed" \in Ops
            BY DEF Ops
        <3>8. Begins
            BY <1>0, <2>0, <2>1, <3>5, <3>6, <3>7, BeginsCase
        <3>. QED  BY <3>8 DEF StepKind
    <2>2. CASE call = NoCall /\ phase' = "seeded" /\ UNCHANGED call
        BY <2>0, <2>2 DEF StepKind, Rests, memory, disk
    <2>. QED  BY <1>3, <2>1, <2>2 DEF SeedIfAbsent
<1>4. CASE Boot
    <2>. DEFINE vs == Condemn(verdicts, Condemned(state), "not_acknowledged", now)
                s == Promoted(Tried(state), vs)
    <2>1. Begin("boot", s, vs) /\ phase = "seeded" /\ phase' = phase /\ UNCHANGED <<memory, disk>>
        BY <1>4 DEF Boot
    <2>2. vs \in [Releases -> Verdict]
        BY <1>0, CondemnType DEF Reasons, TransientReasons
    <2>3. s \in States
        BY <1>0, TriedType, PromotedType
    <2>4. Draft("boot", s)
        BY <2>1 DEF Draft
    <2>5. s = Promoted(Tried(state), vs)
        OBVIOUS
    <2>. HIDE DEF s, vs
    <2>6. Begins
        BY <2>1, <2>2, <2>3, <2>4, <2>5, BeginsCase DEF Ops
    <2>. QED  BY <2>6 DEF StepKind
<1>5. CASE LoadLayers
    <2>1. phase = "booted" /\ phase' = "running" /\ UNCHANGED <<memory, disk, call>>
        BY <1>5 DEF LoadLayers
    <2>2. call = NoCall
        <3>1. call # NoCall => call \in Calls
            BY DEF ProcessOK
        <3>2. call # NoCall => call.op \in Ops
            BY <3>1 DEF Calls
        <3>. QED  BY <2>1, <3>2 DEF Backbone, PhaseInv, Ops
    <2>. QED  BY <2>1, <2>2 DEF StepKind, Rests, memory, disk
<1>6. CASE RecordFailure
    <2>1. PICK p \in unrecorded, reason \in LoadReasons :
            Begin("record", state, Record(verdicts, Release(p), reason, now))
        BY <1>6 DEF RecordFailure
    <2>2. Record(verdicts, Release(p), reason, now) \in [Releases -> Verdict]
        BY <1>0, StoreAssumption, ReleaseType, RecordType DEF ProcessOK
    <2>3. phase = "running" /\ phase' = phase /\ UNCHANGED <<memory, disk>>
        BY <1>6 DEF RecordFailure
    <2>4. Draft("record", state)
        BY <2>3 DEF Draft, Same, SameTrial
    <2>5. Begins
        BY <1>0, <2>1, <2>2, <2>3, <2>4, BeginsCase DEF Ops
    <2>. QED  BY <2>5 DEF StepKind
<1>. QED  BY <1>1, <1>2, <1>3, <1>4, <1>5, <1>6 DEF Launch

\* An update brings a pack that is not installed.
LEMMA StagedIsNew ==
    ASSUME NEW s \in States, NEW vs, NEW batch \in Batches, ~\E p \in batch : Blocks(vs, p),
           \A q \in batch : \A p \in InstalledLayers(s, vs) :
                Meta[p].id = Meta[q].id => Meta[p].ver < Meta[q].ver
    PROVE  Revision(s, vs, batch) \notin {NoRev, s.booting}
<1>1. PICK q \in batch : q \in Packs
    BY StoreAssumption
<1>2. q \in Revision(s, vs, batch)
    BY DEF Revision
<1>3. Meta[q].ver \in Nat
    BY <1>1, RevisionsAssumption
<1>4. q \notin InstalledLayers(s, vs)
    BY <1>3
<1>5. q \notin Layers(s.booting)
    BY <1>4 DEF InstalledLayers
<1>6. q \notin NoRev
    BY <1>1, RevisionsAssumption DEF NoRev
<1>. QED  BY <1>2, <1>5, <1>6 DEF Layers

LEMMA OperationKinds ==
    ASSUME TypeOK, Backbone, Operation
    PROVE  StepKind
<1>. USE DEF TypeOK
<1>0. state \in States /\ verdicts \in [Releases -> Verdict]
    BY DEF MemoryOK
<1>1. ASSUME NEW op \in Ops \ {"seed", "boot"}, NEW s \in States, NEW vs \in [Releases -> Verdict],
             Begin(op, s, vs), Draft(op, s), Ready, UNCHANGED <<memory, disk, phase>>
      PROVE  StepKind
    BY <1>1, BeginsCase DEF Ready, StepKind
<1>2. CASE NotifyReady
    <2>1. Acknowledged(state) \in States
        BY <1>0, AcknowledgedType
    <2>. QED  BY <1>0, <1>1, <1>2, <2>1 DEF NotifyReady, OnlyBegins, Ready, Draft, Ops
<1>3. ASSUME NEW batch \in Batches, Stage(batch) PROVE StepKind
    <2>. DEFINE rev == Revision(state, verdicts, batch)
                s == [state EXCEPT !.staged = rev, !.lastError = "none"]
    <2>1. Ready /\ UNCHANGED <<memory, disk, phase>> /\ ~Degraded(state)
        BY <1>3 DEF Stage, Offered
    <2>2. rev \in Revisions
        BY <1>0, StoreAssumption, RevisionType
    <2>3. rev \notin {NoRev, state.booting}
        BY <1>0, <1>3, StagedIsNew DEF Stage, Offered
    <2>4. s \in States /\ s.staged = rev /\ SameTrial(s, state)
        BY <1>0, <2>2 DEF States, SameTrial, OnTrial
    <2>5. Begin("stage", s, verdicts) \/ UNCHANGED call
        BY <1>3 DEF Stage
    <2>. HIDE DEF s, rev
    <2>6. Draft("stage", s)
        BY <2>1, <2>3, <2>4 DEF Draft, Ready
    <2>7. CASE Begin("stage", s, verdicts)
        BY <1>0, <1>1, <2>1, <2>4, <2>6, <2>7 DEF Ops
    <2>8. CASE UNCHANGED call
        BY <2>1, <2>8 DEF StepKind, Rests, memory, disk
    <2>. QED  BY <2>5, <2>7, <2>8
<1>4. ASSUME NEW clear \in BOOLEAN, Reset(clear) PROVE StepKind
    <2>1. PICK vs \in {NoVerdicts, verdicts} : Begin("reset", Cleared(state), vs)
        BY <1>4 DEF Reset
    <2>2. vs \in [Releases -> Verdict]
        BY <1>0 DEF NoVerdicts, Verdict
    <2>3. Cleared(state) \in States
        BY <1>0, NewStateType DEF Cleared, States
    <2>. QED  BY <1>1, <1>4, <2>1, <2>2, <2>3 DEF Reset, OnlyBegins, Ready, Draft, Ops
<1>5. ASSUME NEW w \in 0 .. MaxWatermark, NEW e \in 1 .. MaxEpoch, ObserveChannel(w, e)
      PROVE  StepKind
    <2>. DEFINE s == [state EXCEPT !.watermark = Larger(@, w), !.epoch = Larger(@, e),
                                   !.lastError = "none"]
    <2>1. w \in Nat /\ e \in Nat
        BY StoreAssumption
    <2>2. s \in States /\ Same(s, state)
        BY <1>0, <2>1 DEF States, Larger, Same, SameTrial, OnTrial
    <2>3. Begin("observe", s, verdicts)
        BY <1>5 DEF ObserveChannel
    <2>. HIDE DEF s
    <2>. QED  BY <1>0, <1>1, <1>5, <2>2, <2>3 DEF ObserveChannel, OnlyBegins, Ready, Draft, Ops
<1>6. ASSUME NEW code \in ErrorCodes, RecordLastError(code) PROVE StepKind
    <2>. DEFINE s == [state EXCEPT !.lastError = code]
    <2>1. s \in States /\ Same(s, state)
        BY <1>0 DEF States, Same, SameTrial, OnTrial
    <2>2. Begin("error", s, verdicts)
        BY <1>6 DEF RecordLastError
    <2>. HIDE DEF s
    <2>. QED  BY <1>0, <1>1, <1>6, <2>1, <2>2 DEF RecordLastError, OnlyBegins, Ready, Draft, Ops
<1>. QED  BY <1>2, <1>3, <1>4, <1>5, <1>6 DEF Operation

\* What a write of the blacklist does to the states on disk.
LEMMA BlacklistWriteKinds ==
    ASSUME DiskOK, NEW vs, NEW outcome \in WriteOutcomes, WriteBlacklist(vs, outcome)
    PROVE  /\ visible'.state = visible.state
           /\ durable'.state \in {visible.state, durable.state}
           /\ outcome # "ok" => durable'.state = durable.state
BY DEF WriteBlacklist, WriteRoot, DiskOK, RootFiles

LEMMA GiveUpKinds ==
    ASSUME TypeOK, Backbone, call.step \in {"condemn", "state", "verdicts", "trailing"},
           call \in Calls, phase # "down", NEW b \in BOOLEAN, GiveUp(b),
           durable'.state = durable.state,
           \/ visible'.state = visible.state /\ b = statePending /\ Reported = state
           \/ call.step = "state" /\ visible'.state \in {visible.state, call.state} /\ b
    PROVE  Fails \/ Dies
<1>1. CASE call.op = "boot"
    BY <1>1 DEF GiveUp, Forget, Dies
<1>2. CASE call.op # "boot"
    BY <1>2 DEF GiveUp, Fails
<1>. QED  BY <1>1, <1>2

LEMMA ReturnKinds ==
    ASSUME call \in Calls, Return
    PROVE  /\ phase' = CASE call.op = "boot" -> "booted"
                         [] call.op = "seed" -> "seeded"
                         [] OTHER -> phase
           /\ \/ call' = NoCall
              \/ Continues /\ call'.step = "gc" /\ call.op \notin {"boot", "seed"}
BY DEF Return, Advance, Continues, Calls, Ops

LEMMA ProgressKinds ==
    ASSUME TypeOK, Backbone, Progress
    PROVE  StepKind
<1>. USE DEF TypeOK
<1>0. ASSUME call.step # "none"
      PROVE  /\ call \in Calls /\ call # NoCall /\ phase # "down"
             /\ \A step : Advance(step) =>
                    Continues /\ call' = [call EXCEPT !.step = step] /\ call'.step = step
    BY <1>0, InCall, IdleCall DEF Backbone, PhaseInv, Advance, Continues, Calls
<1>1. CASE SaveCondemned
    <2>1. call.step = "condemn" /\ Reported = state
        BY <1>1 DEF SaveCondemned, Reported, StateWritten
    <2>2. PICK outcome \in WriteOutcomes :
            /\ WriteBlacklist(call.verdicts, outcome)
            /\ \/ /\ outcome = "ok"
                  /\ verdicts' = call.verdicts
                  /\ Advance(StepAfterCondemn(call.op, call.state, call.verdicts))
                  /\ UNCHANGED <<state, statePending, phase>>
               \/ outcome # "ok" /\ GiveUp(statePending)
        BY <1>1 DEF SaveCondemned
    <2>3. CASE outcome # "ok"
        <3>1. Fails \/ Dies
            BY <1>0, <2>1, <2>2, <2>3, BlacklistWriteKinds, GiveUpKinds DEF MemoryOK
        <3>. QED  BY <3>1 DEF StepKind
    <2>4. CASE outcome = "ok"
        <3>1. \/ call'.step = "state"
              \/ call'.step \in {"verdicts", "publish"} /\ call.state = state /\ ~statePending
            BY <1>0, <2>1, <2>2, <2>4 DEF StepAfterCondemn, StepAfterState, StateChanged
        <3>2. Advances
            BY <1>0, <2>1, <2>2, <2>4, <3>1, BlacklistWriteKinds DEF Advances
        <3>. QED  BY <3>2 DEF StepKind
    <2>. QED  BY <2>3, <2>4
<1>2. CASE SaveState
    <2>1. call.step = "state"
        BY <1>2 DEF SaveState
    <2>2. PICK outcome \in WriteOutcomes :
            /\ WriteState(call.state, outcome)
            /\ \/ /\ outcome = "ok"
                  /\ statePending' = FALSE
                  /\ Advance(StepAfterState(call.op, call.state, call.verdicts))
                  /\ UNCHANGED <<state, verdicts, phase>>
               \/ outcome # "ok" /\ GiveUp(TRUE)
        BY <1>2 DEF SaveState
    <2>3. /\ outcome # "ok" => /\ visible'.state \in {visible.state, call.state}
                               /\ durable'.state = durable.state
          /\ outcome = "ok" => visible'.state = call.state /\ durable'.state = call.state
        BY <2>2 DEF WriteState, WriteRoot, DiskOK, RootFiles
    <2>4. CASE outcome # "ok"
        <3>1. Fails \/ Dies
            BY <1>0, <2>1, <2>2, <2>3, <2>4, GiveUpKinds
        <3>. QED  BY <3>1 DEF StepKind
    <2>5. CASE outcome = "ok"
        <3>1. call'.step = "publish" \/ (call'.step = "verdicts" /\ call.state = state)
            BY <1>0, <2>1, <2>2, <2>5 DEF StepAfterState, StateChanged
        <3>2. Writes
            BY <1>0, <2>1, <2>2, <2>3, <2>5, <3>1 DEF Writes
        <3>. QED  BY <3>2 DEF StepKind
    <2>. QED  BY <2>4, <2>5
<1>3. CASE SaveVerdicts
    <2>1. call.step = "verdicts" /\ call.state = state /\ ~statePending /\ Reported = state
        BY <1>3 DEF SaveVerdicts, Backbone, SyncInv, CandidateInv, StateWritten, Reported
    <2>2. PICK outcome \in WriteOutcomes :
            /\ WriteBlacklist(call.verdicts, outcome)
            /\ \/ outcome = "ok" /\ Advance("publish") /\ UNCHANGED <<memory, phase>>
               \/ outcome # "ok" /\ GiveUp(statePending)
        BY <1>3 DEF SaveVerdicts
    <2>3. CASE outcome # "ok"
        <3>1. Fails \/ Dies
            BY <1>0, <2>1, <2>2, <2>3, BlacklistWriteKinds, GiveUpKinds DEF MemoryOK
        <3>. QED  BY <3>1 DEF StepKind
    <2>4. CASE outcome = "ok"
        <3>1. Advances
            BY <1>0, <2>1, <2>2, <2>4, BlacklistWriteKinds DEF Advances, memory
        <3>. QED  BY <3>1 DEF StepKind
    <2>. QED  BY <2>3, <2>4
<1>4. CASE Publish
    <2>1. call.step = "publish" /\ ~statePending
        BY <1>4 DEF Publish, StateWritten, Backbone, SyncInv
    <2>2. /\ state' = call.state /\ verdicts' = call.verdicts /\ statePending' = statePending
          /\ visible' = visible /\ durable' = durable
        BY <1>4 DEF Publish, disk
    <2>3. \/ /\ call.op \notin {"boot", "seed"}
             /\ Advance("trailing") /\ UNCHANGED phase
          \/ Return
        BY <1>4 DEF Publish, Backbone, CandidateInv, VerdictsChanged
    <2>4. CASE call.op \notin {"boot", "seed"} /\ Advance("trailing") /\ UNCHANGED phase
        <3>1. Publishes
            BY <1>0, <2>1, <2>2, <2>4 DEF Publishes
        <3>. QED  BY <3>1 DEF StepKind
    <2>5. CASE Return
        <3>1. Publishes
            BY <1>0, <2>1, <2>2, <2>5, ReturnKinds DEF Publishes
        <3>. QED  BY <3>1 DEF StepKind
    <2>. QED  BY <2>3, <2>4, <2>5
<1>5. CASE SaveTrailingVerdicts
    <2>1. call.step = "trailing" /\ call.state = state /\ ~statePending /\ Reported = state
        BY <1>5 DEF SaveTrailingVerdicts, Backbone, SyncInv, CandidateInv, StateWritten, Reported
    <2>2. PICK outcome \in WriteOutcomes :
            /\ WriteBlacklist(call.verdicts, outcome)
            /\ \/ outcome = "ok" /\ Return /\ UNCHANGED <<state, verdicts, statePending>>
               \/ outcome # "ok" /\ GiveUp(statePending)
        BY <1>5 DEF SaveTrailingVerdicts
    <2>3. CASE outcome # "ok"
        <3>1. Fails \/ Dies
            BY <1>0, <2>1, <2>2, <2>3, BlacklistWriteKinds, GiveUpKinds DEF MemoryOK
        <3>. QED  BY <3>1 DEF StepKind
    <2>4. CASE outcome = "ok"
        <3>1. phase' = phase /\ (call' = NoCall \/ (Continues /\ call'.step = "gc"))
            BY <1>0, <2>1, <2>2, <2>4, ReturnKinds DEF Backbone, PhaseInv
        <3>2. Ends
            BY <1>0, <2>1, <2>2, <2>4, <3>1, BlacklistWriteKinds DEF Ends
        <3>. QED  BY <3>2 DEF StepKind
    <2>. QED  BY <2>3, <2>4
<1>6. CASE RetryVerdicts
    <2>1. PICK outcome \in WriteOutcomes : WriteBlacklist(verdicts, outcome)
        BY <1>6 DEF RetryVerdicts
    <2>2. UNCHANGED <<state, verdicts, statePending, call, phase>>
        BY <1>6 DEF RetryVerdicts, process
    <2>. QED  BY <2>1, <2>2, BlacklistWriteKinds DEF StepKind, Rests
<1>7. CASE CollectGarbage
    <2>1. call.step = "gc" /\ call.state = state /\ ~statePending
        BY <1>7 DEF CollectGarbage, Backbone, SyncInv, CandidateInv, StateWritten
    <2>2. Ends
        BY <1>0, <1>7, <2>1 DEF CollectGarbage, Ends, memory, disk
    <2>. QED  BY <2>2 DEF StepKind
<1>. QED  BY <1>1, <1>2, <1>3, <1>4, <1>5, <1>6, <1>7 DEF Progress

LEMMA EnvironmentKinds ==
    ASSUME TypeOK, Environment
    PROVE  StepKind
<1>1. CASE Kill
    BY <1>1 DEF Kill, Forget, disk, StepKind, Dies
<1>2. CASE PowerLoss
    BY <1>2 DEF PowerLoss, Forget, StepKind, Dies
<1>3. CASE WriteBack
    <2>1. durable'.state \in {visible.state, durable.state}
        BY <1>3 DEF WriteBack, TypeOK, DiskOK, RootFiles
    <2>. QED  BY <1>3, <2>1 DEF WriteBack, process, memory, StepKind, Rests
<1>4. CASE Tick
    BY <1>4 DEF Tick, process, memory, disk, StepKind, Rests
<1>. QED  BY <1>1, <1>2, <1>3, <1>4 DEF Environment

LEMMA EveryStepHasAKind ==
    ASSUME TypeOK, Backbone, [Next]_vars
    PROVE  StepKind
<1>1. CASE UNCHANGED vars
    BY <1>1 DEF vars, memory, disk, process, StepKind, Rests
<1>. QED
    BY <1>1, LaunchKinds, OperationKinds, ProgressKinds, EnvironmentKinds DEF Next

-----------------------------------------------------------------------------
LEMMA SameIsTransitive ==
    /\ \A s : Same(s, s)
    /\ \A r, s, t : Same(r, s) /\ Same(s, t) => Same(r, t)
    /\ \A s, t : Same(s, t) => Same(t, s)
BY DEF Same, SameTrial

\* What memory and the files hold when no call is left, or none was begun.
LEMMA IdleBackbone ==
    ASSUME call' = NoCall, (phase' = "down" => ~statePending'),
           (phase' # "down" /\ ~statePending' =>
                /\ Same(visible'.state, state')
                /\ FlushedBeforeOpen => Same(durable'.state, state'))
    PROVE  Backbone'
BY IdleCall DEF Backbone, SyncInv, CandidateInv, PhaseInv

\* A call goes on to its next step.
LEMMA ContinuingBackbone ==
    ASSUME Backbone, call # NoCall, Continues, phase' = phase, phase # "down",
           state' = state, verdicts' \in {verdicts, call.verdicts},
           call'.step \in {"trailing", "gc"} => call.op \notin {"boot", "seed"},
           StateWritten' => ~statePending',
           call'.step \in {"verdicts", "trailing", "gc"} => call.state = state,
           ~statePending' => /\ Same(visible'.state, Reported')
                             /\ FlushedBeforeOpen => Same(durable'.state, Reported')
    PROVE  Backbone'
<1>1. call'.op = call.op /\ call'.state = call.state /\ call'.verdicts = call.verdicts
    BY DEF Continues
<1>2. CandidateInv'
    BY <1>1 DEF Backbone, CandidateInv, SameTrial, OnTrial
<1>3. PhaseInv'
    BY <1>1 DEF Backbone, PhaseInv
<1>. QED  BY <1>2, <1>3 DEF Backbone, SyncInv

LEMMA BackboneKept ==
    ASSUME TypeOK, Backbone, [Next]_vars
    PROVE  Backbone'
<1>0. call = NoCall => Reported = state /\ ~StateWritten
    BY IdleCall
<1>1. CASE Rests
    <2>1. Reported' = Reported /\ StateWritten' = StateWritten
        BY <1>1 DEF Rests, Reported, StateWritten
    <2>2. SyncInv'
        BY <1>1, <2>1 DEF Backbone, SyncInv, PhaseInv, Rests
    <2>3. CandidateInv'
        BY <1>1 DEF Backbone, CandidateInv, SameTrial, OnTrial, Rests
    <2>4. PhaseInv'
        BY <1>1, IdleCall DEF Backbone, PhaseInv, Rests
    <2>. QED  BY <2>2, <2>3, <2>4 DEF Backbone
<1>2. CASE Reads
    BY <1>2, SameIsTransitive, IdleBackbone DEF Reads
<1>3. CASE Begins
    <2>. DEFINE s == call'.state
    <2>1. state \in States /\ call'.op \in Ops /\ UNCHANGED <<state, verdicts, statePending, phase>>
        BY <1>3 DEF Begins, Calls, TypeOK, MemoryOK
    <2>2. CandidateInv'
        <3>1. Draft(call'.op, s) /\ (call'.op = "seed" => call'.verdicts = verdicts)
            BY <1>3 DEF Begins
        <3>2. call'.op = "boot" => s.committed = state.committed
            BY <2>1, <3>1, LaunchFields DEF Draft
        <3>3. call'.op = "commit" =>
                  ~OnTrial(s) /\ (s = state \/ (OnTrial(state) /\ s.committed # NoRev))
            <4>1. call'.op = "commit" => s = Acknowledged(state)
                BY <3>1 DEF Draft
            <4>. QED  BY <2>1, <4>1, AcknowledgedFields DEF OnTrial
        <3>4. call'.op \in {"stage", "observe", "record", "error"} => SameTrial(s, state)
            BY <3>1 DEF Draft, Same
        <3>5. call'.op = "seed" => state.committed = NoRev /\ call'.verdicts = verdicts
            BY <3>1 DEF Draft
        <3>6. call'.step \in {"verdicts", "trailing", "gc"} => s = state
            BY <1>3 DEF Begins
        <3>. QED  BY <2>1, <3>2, <3>3, <3>4, <3>5, <3>6 DEF CandidateInv, SameTrial, OnTrial
    <2>3. PhaseInv'
        BY <1>3, <2>1 DEF Begins, Draft, PhaseInv, Calls, NoCall, Ops
    <2>4. StateWritten' => call'.state = state /\ ~statePending
        BY <1>3 DEF Begins, StateWritten
    <2>5. Reported' = state
        BY <2>1, <2>4 DEF Reported
    <2>6. SyncInv'
        BY <1>0, <1>3, <2>4, <2>5 DEF Begins, Backbone, SyncInv
    <2>. QED  BY <2>2, <2>3, <2>6 DEF Backbone
<1>4. CASE Advances
    <2>1. call # NoCall
        BY <1>4, IdleCall DEF Advances
    <2>2. Reported = state
        BY <1>4 DEF Advances, Reported, StateWritten, Backbone, CandidateInv
    <2>3. StateWritten' => call.state = state /\ ~statePending
        BY <1>4 DEF Advances, StateWritten
    <2>4. Reported' = state
        BY <1>4, <2>3 DEF Reported, Advances, Continues
    <2>5. call'.step \notin {"trailing", "gc"}
        BY <1>4 DEF Advances
    <2>6. ~statePending => /\ Same(visible'.state, state)
                           /\ FlushedBeforeOpen => Same(durable'.state, state)
        BY <1>4, <2>2 DEF Advances, Backbone, SyncInv
    <2>. QED
        BY <1>4, <2>1, <2>3, <2>4, <2>5, <2>6, ContinuingBackbone DEF Advances
<1>5. CASE Writes
    <2>1. call # NoCall
        BY <1>5, IdleCall DEF Writes
    <2>2. Reported' = call.state
        BY <1>5 DEF Writes, Continues, Reported, StateWritten
    <2>. QED
        BY <1>5, <2>1, <2>2, SameIsTransitive, ContinuingBackbone DEF Writes
<1>6. CASE Publishes
    <2>1. /\ Same(visible'.state, call.state)
          /\ FlushedBeforeOpen => Same(durable'.state, call.state)
          /\ state' = call.state /\ ~statePending' /\ call # NoCall /\ phase' # "down"
        BY <1>6, IdleCall DEF Publishes, Backbone, SyncInv, Reported, StateWritten
    <2>2. CASE call' = NoCall
        BY <2>1, <2>2, IdleBackbone
    <2>3. CASE call' # NoCall
        <3>1. /\ Continues /\ call'.step \in {"trailing", "gc"}
              /\ call.op \notin {"boot", "seed"} /\ phase' = phase
            BY <1>6, <2>3 DEF Publishes
        <3>2. Reported' = call.state
            BY <3>1 DEF Reported, StateWritten, Continues
        <3>3. CandidateInv'
            BY <2>1, <3>1 DEF Backbone, CandidateInv, Continues, SameTrial
        <3>4. PhaseInv'
            BY <2>1, <3>1 DEF Backbone, PhaseInv, Continues
        <3>. QED  BY <2>1, <3>2, <3>3, <3>4 DEF Backbone, SyncInv
    <2>. QED  BY <2>2, <2>3
<1>7. CASE Ends
    <2>1. Reported = state /\ call # NoCall
        BY <1>7, IdleCall DEF Ends, Reported
    <2>2. /\ Same(visible'.state, state)
          /\ FlushedBeforeOpen => Same(durable'.state, state)
        BY <1>7, <2>1 DEF Ends, Backbone, SyncInv
    <2>3. CASE call' = NoCall
        BY <1>7, <2>2, <2>3, IdleBackbone DEF Ends
    <2>4. CASE call' # NoCall
        <3>1. Continues /\ call.op \notin {"boot", "seed"} /\ Reported' = state
            BY <1>7, <2>4 DEF Ends, Backbone, PhaseInv, Reported, Continues
        <3>. QED
            BY <1>7, <2>1, <2>2, <3>1, ContinuingBackbone DEF Ends
    <2>. QED  BY <2>3, <2>4
<1>8. CASE Fails
    <2>1. /\ call' = NoCall /\ phase' # "down" /\ state' = state
          /\ \/ statePending'
             \/ /\ visible'.state = visible.state /\ durable'.state = durable.state
                /\ statePending' = statePending /\ Reported = state
        BY <1>8 DEF Fails
    <2>. QED  BY <1>8, <2>1, IdleBackbone DEF Backbone, SyncInv, Fails
<1>9. CASE Dies
    BY <1>9, IdleBackbone DEF Dies
<1>. QED
    BY <1>1, <1>2, <1>3, <1>4, <1>5, <1>6, <1>7, <1>8, <1>9, EveryStepHasAKind DEF StepKind

LEMMA BackboneAlways == Spec => []Backbone
<1>1. Init => Backbone
    BY IdleCall DEF Init, Backbone, SyncInv, CandidateInv, PhaseInv
<1>2. TypeOK /\ Backbone /\ [Next]_vars => Backbone'
    BY BackboneKept
<1>. QED  BY <1>1, <1>2, TypeCorrect, PTL DEF Spec

-----------------------------------------------------------------------------
(***************************************************************************)
(* Acknowledgements.  What is committed in memory is acknowledged as long  *)
(* as anything is: a seed is committed only where nothing is, no other     *)
(* operation but an acknowledgement or a reset changes what is committed,  *)
(* and a call that changes the state has it on both sides of the disk by   *)
(* the time it reports.                                                    *)
(***************************************************************************)
Written ==
    call.step = "publish" /\ call.state # state =>
        visible.state = call.state /\ durable.state = call.state

LEMMA WrittenKept ==
    ASSUME TypeOK, Backbone, Written, [Next]_vars
    PROVE  Written'
<1>0. NoCall.step = "none"
    BY IdleCall
<1>1. CASE Rests
    BY <1>1 DEF Rests, Written
<1>2. CASE Begins \/ Advances
    BY <1>2 DEF Begins, Advances, Continues, Written
<1>3. CASE Writes
    BY <1>3 DEF Writes, Continues, Written
<1>4. CASE Reads \/ Publishes \/ Ends \/ Fails \/ Dies
    <2>1. call'.step # "publish"
        BY <1>0, <1>4 DEF Reads, Publishes, Ends, Fails, Dies
    <2>. QED  BY <2>1 DEF Written
<1>. QED  BY <1>1, <1>2, <1>3, <1>4, EveryStepHasAKind DEF StepKind

LEMMA WrittenAlways == Spec => []Written
<1>1. Init => Written
    BY IdleCall DEF Init, Written
<1>2. TypeOK /\ Backbone /\ Written /\ [Next]_vars => Written'
    BY WrittenKept
<1>. QED  BY <1>1, <1>2, TypeCorrect, BackboneAlways, PTL DEF Spec

AckInv ==
    /\ AckSurvives
    /\ NoRev \notin acked
    /\ acked # {} /\ phase # "down" => state.committed \in acked

LEMMA AckKept ==
    ASSUME TypeOK, Backbone, Written, AckInv, [Next]_vars, RecordAcked
    PROVE  AckInv'
<1>. DEFINE c == call.state.committed
<1>1. NoCall.op = "none" /\ NoCall.step = "none"
    BY IdleCall
<1>2. CASE Rests
    <2>1. acked' \in {acked, {}} \/ (call.op = "commit" /\ call.step = "state" /\ acked # {}
                                       /\ visible.state = call.state /\ acked' = acked \cup {c})
        BY <1>2 DEF Rests, RecordAcked, Returning, Writing, ResetRequested
    <2>2. acked' \in {acked, {}}
        BY <2>1 DEF AckInv, AckSurvives
    <2>. QED  BY <1>2, <2>2 DEF Rests, AckInv, AckSurvives
<1>3. CASE Reads
    <2>1. acked' = acked
        BY <1>1, <1>3 DEF Reads, RecordAcked, Returning, Writing, ResetRequested
    <2>. QED  BY <1>3, <2>1 DEF Reads, AckInv, AckSurvives, Same, SameTrial
<1>4. CASE Begins
    <2>1. acked' = acked
        BY <1>1, <1>4 DEF Begins, RecordAcked, Returning, Writing, ResetRequested
    <2>. QED  BY <1>4, <2>1 DEF Begins, AckInv, AckSurvives
<1>5. CASE Advances
    <2>1. acked' \in {acked, {}}
        BY <1>5 DEF Advances, RecordAcked, Returning, Writing, ResetRequested
    <2>. QED  BY <1>5, <2>1 DEF Advances, AckInv, AckSurvives
<1>6. CASE Writes
    <2>1. CASE call.op = "reset"
        <3>1. acked' = {}
            BY <1>6, <2>1 DEF RecordAcked, ResetRequested, Writes
        <3>. QED  BY <3>1 DEF AckInv, AckSurvives
    <2>2. CASE call.op # "reset" /\ acked = {}
        <3>1. acked' = {}
            BY <1>6, <2>2 DEF RecordAcked, ResetRequested, Writes, Returning, Writing
        <3>. QED  BY <3>1 DEF AckInv, AckSurvives
    <2>3. CASE call.op # "reset" /\ acked # {}
        <3>1. state.committed \in acked /\ state.committed # NoRev
            BY <1>6, <2>3 DEF Writes, AckInv
        <3>2. call \in Calls
            BY <1>1, <1>6 DEF Writes, TypeOK, ProcessOK
        <3>3. c = state.committed \/ (call.op = "commit" /\ c # NoRev)
            BY <2>3, <3>1, <3>2 DEF Backbone, CandidateInv, SameTrial, Calls, Ops
        <3>4. acked' = IF call.op = "commit" THEN acked \cup {c} ELSE acked
            BY <1>6, <2>3 DEF RecordAcked, ResetRequested, Writes, Returning, Writing
        <3>. QED  BY <1>6, <3>1, <3>3, <3>4 DEF Writes, AckInv, AckSurvives
    <2>. QED  BY <2>1, <2>2, <2>3
<1>7. CASE Publishes
    <2>1. /\ visible'.state.committed = c /\ state' = call.state /\ durable' = durable
          /\ FlushedBeforeOpen => durable.state.committed = c
        BY <1>7 DEF Publishes, Backbone, SyncInv, Reported, StateWritten, Same, SameTrial
    <2>2. call.op = "commit" /\ OnTrial(state) => durable.state.committed = c
        BY <1>7 DEF Publishes, Written, Backbone, CandidateInv
    <2>3. \/ acked' \in {acked, {}}
          \/ acked' = {c} \ {NoRev} /\ durable.state.committed = c
        BY <1>7, <2>1, <2>2 DEF RecordAcked, Writing, Returning, Publishes
    <2>4. acked # {} => c \in acked
        BY <1>7, <2>1 DEF AckInv, AckSurvives, Publishes
    <2>. QED  BY <2>1, <2>3, <2>4 DEF AckInv, AckSurvives
<1>8. CASE Ends
    <2>1. acked' \in {acked, {}}
        BY <1>8 DEF Ends, RecordAcked, Returning, Writing, ResetRequested
    <2>. QED  BY <1>8, <2>1 DEF Ends, AckInv, AckSurvives
<1>9. ASSUME Fails \/ Dies PROVE AckInv'
    <2>1. /\ durable'.state = durable.state
          /\ \/ visible'.state \in {visible.state, durable.state}
             \/ call.step = "state" /\ visible'.state = call.state
          /\ phase' = "down" \/ (state' = state /\ phase # "down")
          /\ call' = NoCall
        BY <1>9 DEF Fails, Dies
    <2>2. call.op = "reset" => acked' = {}
        BY <1>1, <2>1 DEF RecordAcked, ResetRequested
    <2>3. CASE call.op = "reset" \/ acked = {}
        <3>1. acked' = {}
            <4>1. ~Returning("commit")
                BY <1>9 DEF Returning, Fails, Dies
            <4>. QED  BY <2>2, <2>3, <4>1 DEF RecordAcked
        <3>. QED  BY <3>1 DEF AckInv, AckSurvives
    <2>4. CASE call.op # "reset" /\ acked # {}
        <3>1. acked' = IF Writing("commit") THEN acked \cup {c} ELSE acked
            BY <1>9, <2>4 DEF RecordAcked, ResetRequested, Returning, Fails, Dies
        <3>2. CASE call.step = "state"
            <4>1. call \in Calls /\ phase # "down"
                BY <1>1, <3>2 DEF TypeOK, ProcessOK, Backbone, PhaseInv
            <4>2. state.committed \in acked /\ state.committed # NoRev
                BY <2>4, <4>1 DEF AckInv
            <4>3. c = state.committed \/ (call.op = "commit" /\ c # NoRev)
                BY <2>4, <4>1, <4>2 DEF Backbone, CandidateInv, SameTrial, Calls, Ops
            <4>. QED
                BY <2>1, <2>4, <3>1, <3>2, <4>2, <4>3 DEF AckInv, AckSurvives, Writing
        <3>3. CASE call.step # "state"
            BY <2>1, <2>4, <3>1, <3>3 DEF AckInv, AckSurvives, Writing
        <3>. QED  BY <3>2, <3>3
    <2>. QED  BY <2>3, <2>4
<1>. QED
    BY <1>2, <1>3, <1>4, <1>5, <1>6, <1>7, <1>8, <1>9, EveryStepHasAKind DEF StepKind

(***************************************************************************)
(* A revision that notify_ready reported committed is what every state.json*)
(* a later launch can read names as committed, until another is            *)
(* acknowledged or a reset is asked for (store.rs:366): whether or not     *)
(* launches read renames that never reached the medium, if the report      *)
(* ended a trial; where they read only flushed ones, if it did not.        *)
(***************************************************************************)
THEOREM AckAlwaysSurvives == HistorySpec => []AckSurvives
<1>1. Init /\ HistoryInit => AckInv
    BY DEF HistoryInit, AckInv, AckSurvives
<1>2. TypeOK /\ Backbone /\ Written /\ AckInv /\ [HistoryNext]_allVars => AckInv'
    <2>. SUFFICES ASSUME TypeOK, Backbone, Written, AckInv, [HistoryNext]_allVars
                  PROVE  AckInv'
        OBVIOUS
    <2>1. CASE UNCHANGED allVars
        BY <2>1 DEF allVars, vars, disk, memory, process, history, AckInv, AckSurvives
    <2>2. CASE HistoryNext
        BY <2>2, AckKept DEF HistoryNext
    <2>. QED  BY <2>1, <2>2
<1>3. AckInv => AckSurvives
    BY DEF AckInv
<1>. QED
    BY <1>1, <1>2, <1>3, HistoryObserves, TypeCorrect, BackboneAlways, WrittenAlways, PTL
    DEF HistorySpec

-----------------------------------------------------------------------------
(***************************************************************************)
(* Trials.  Every state that a launch may read or a call may write is sane:*)
(* what is staged is not what is on trial, a trial has been counted and has*)
(* an attempt left, and nothing is staged once updating has stopped, so the*)
(* counter passes the limit by one at most, when the last trial fails. And *)
(* it has counted what launches did: as many attempts as launches served   *)
(* its trial, and one rollback for every trial before it, but for one that *)
(* a seed may have put aside.                                              *)
(***************************************************************************)
Sane(s) ==
    /\ s.staged # NoRev => s.staged # s.booting
    /\ OnTrial(s) => s.attempts \in 1 .. MaxBootAttempts - 1
    /\ s.rollbacks >= MaxConsecutiveRollbacks => s.staged = NoRev
    /\ RolledBack(s) <= MaxConsecutiveRollbacks + 1

Serves(s, rev) == OnTrial(s) /\ s.booting = rev
Late(s) == IF Seeds # {} /\ s.committed # NoRev THEN 1 ELSE 0

\* The state accounts for a trial of rev served l times, and n trials in all.
Accounts(s, rev, l, n) ==
    /\ s.staged # NoRev => s.staged # rev
    /\ Serves(s, rev) => l <= s.attempts
    /\ n <= s.rollbacks + (IF Serves(s, rev) THEN 1 ELSE 0) + Late(s)

Counted(s) == Accounts(s, trial, launches, trials)

\* Operations whose candidate ends the count when it is written.
Clearing == call.op = "reset" \/ (call.op = "commit" /\ OnTrial(state))

TrialType ==
    /\ trial \in Revisions \cup {NoRev}
    /\ launches \in 0 .. MaxBootAttempts - 1
    /\ trials \in Nat
    /\ trial = NoRev => launches = 0

SaneInv ==
    /\ Sane(visible.state) /\ Sane(durable.state)
    /\ phase # "down" => Sane(state)
    /\ call # NoCall => Sane(call.state)

CountInv ==
    /\ Counted(visible.state) /\ Counted(durable.state)
    /\ phase # "down" => Counted(state)
    /\ call.step \in {"condemn", "state"} /\ ~Clearing => Counted(call.state)
    /\ call.op = "boot" /\ Serves(call.state, trial) => launches + 1 <= call.state.attempts
    /\ phase \in {"booted", "running"} /\ trial # NoRev =>
          Serves(state, trial) /\ Serves(Reported, trial)

TrialInv == TrialType /\ SaneInv /\ CountInv

LEMMA SameCounts ==
    ASSUME NEW s, NEW t, Same(s, t)
    PROVE  /\ Sane(s) <=> Sane(t)
           /\ \A rev, l, n : Accounts(s, rev, l, n) <=> Accounts(t, rev, l, n)
           /\ \A rev : Serves(s, rev) <=> Serves(t, rev)
BY DEF Same, SameTrial, Sane, Accounts, Serves, Late, RolledBack

\* Any state accounts for no trial at all.
LEMMA NothingToCount ==
    ASSUME NEW s \in States \cup {NoState}
    PROVE  Accounts(s, NoRev, 0, 0)
<1>1. ~Serves(s, NoRev)
    BY DEF Serves, OnTrial
<1>. QED  BY <1>1, StateFields, RevisionsAssumption DEF Accounts, Late

(***************************************************************************)
(* The candidates.                                                         *)
(***************************************************************************)
LEMMA LaunchCounts ==
    ASSUME NEW s \in States, NEW vs, NEW t, t = Promoted(Tried(s), vs),
           TrialType, Sane(s), Counted(s)
    PROVE  Sane(t) /\ Counted(t) /\ (Serves(t, trial) => launches + 1 <= t.attempts)
<1>. USE StateFields, RevisionsAssumption DEF TrialType
<1>1. Late(t) = Late(s) /\ Late(s) \in {0, 1}
    BY LaunchFields DEF Late
<1>2. RolledBack(s) \in 0 .. MaxConsecutiveRollbacks + 1
    BY DEF RolledBack, Sane
<1>3. CASE /\ OnTrial(s) /\ OnTrial(t) /\ t.booting = s.booting /\ t.staged = s.staged
           /\ t.attempts = s.attempts + 1 /\ t.attempts < MaxBootAttempts
           /\ t.rollbacks = s.rollbacks
    <2>1. Sane(t)
        BY <1>3 DEF Sane, RolledBack
    <2>2. Serves(t, trial) <=> Serves(s, trial)
        BY <1>3 DEF Serves
    <2>3. Serves(t, trial) => launches + 1 <= t.attempts
        BY <1>3, <2>2 DEF Counted, Accounts
    <2>4. Counted(t)
        BY <1>1, <1>3, <2>2, <2>3 DEF Counted, Accounts
    <2>. QED  BY <2>1, <2>3, <2>4
<1>4. CASE /\ ~OnTrial(t) /\ t.rollbacks = RolledBack(s)
           /\ \/ t.staged = NoRev
              \/ ~OnTrial(s) /\ t.staged = s.staged /\ t.booting = s.booting
    <2>1. ~Serves(t, trial)
        BY <1>4 DEF Serves
    <2>2. Sane(t)
        BY <1>2, <1>4 DEF Sane, RolledBack
    <2>3. Counted(t)
        BY <1>1, <1>2, <1>4, <2>1 DEF Counted, Accounts, RolledBack, Serves
    <2>. QED  BY <2>1, <2>2, <2>3
<1>5. CASE /\ OnTrial(t) /\ s.staged # NoRev /\ t.booting = s.staged /\ t.staged = NoRev
           /\ t.attempts = 1 /\ t.rollbacks = RolledBack(s)
    <2>1. ~Serves(t, trial)
        BY <1>5 DEF Serves, Counted, Accounts
    <2>2. Sane(t)
        BY <1>5 DEF Sane, RolledBack
    <2>3. s.rollbacks < MaxConsecutiveRollbacks
        BY <1>5 DEF Sane
    <2>4. Counted(t)
        BY <1>1, <1>2, <1>5, <2>1, <2>3 DEF Counted, Accounts, RolledBack, Serves
    <2>. QED  BY <2>1, <2>2, <2>4
<1>. QED  BY <1>3, <1>4, <1>5, LaunchFields

\* Every candidate is sane, and counts unless it ends the count.
LEMMA DraftCounts ==
    ASSUME NEW op \in Ops, NEW s \in States, Draft(op, s), state \in States, TrialType,
           Sane(state), Counted(state),
           phase = "running" /\ trial # NoRev => Serves(state, trial)
    PROVE  /\ Sane(s)
           /\ \/ op = "reset" \/ (op = "commit" /\ OnTrial(state))
              \/ Counted(s)
           /\ op = "boot" /\ Serves(s, trial) => launches + 1 <= s.attempts
<1>. USE StateFields, RevisionsAssumption DEF TrialType
<1>1. CASE op = "seed"
    <2>1. /\ ~OnTrial(s) /\ s.committed # NoRev /\ s.staged = state.staged
          /\ s.booting = state.booting /\ s.rollbacks = state.rollbacks
          /\ Seeds # {} /\ state.committed = NoRev
        BY <1>1 DEF Draft
    <2>2. Sane(s)
        BY <2>1 DEF Sane, RolledBack
    <2>3. Late(s) = 1 /\ Late(state) = 0 /\ ~Serves(s, trial)
        BY <2>1 DEF Late, Serves
    <2>4. Counted(s)
        BY <2>1, <2>3 DEF Counted, Accounts
    <2>. QED  BY <1>1, <2>2, <2>4
<1>2. CASE op = "boot"
    <2>1. PICK vs : s = Promoted(Tried(state), vs)
        BY <1>2 DEF Draft
    <2>. QED  BY <1>2, <2>1, LaunchCounts
<1>3. CASE op = "commit"
    <2>1. s = Acknowledged(state)
        BY <1>3 DEF Draft
    <2>2. CASE ~OnTrial(state)
        BY <1>3, <2>1, <2>2, AcknowledgedFields
    <2>3. CASE OnTrial(state)
        BY <1>3, <2>1, <2>3, AcknowledgedFields DEF Sane, RolledBack
    <2>. QED  BY <2>2, <2>3
<1>4. CASE op = "stage"
    <2>1. /\ phase = "running" /\ ~Degraded(state) /\ SameTrial(s, state)
          /\ s.staged \notin {NoRev, state.booting}
        BY <1>4 DEF Draft
    <2>2. Sane(s)
        BY <2>1 DEF Sane, SameTrial, Degraded, RolledBack, OnTrial
    <2>3. s.staged # trial
        BY <2>1 DEF Serves
    <2>4. Counted(s)
        BY <2>1, <2>3 DEF Counted, Accounts, Serves, Late, SameTrial
    <2>. QED  BY <1>4, <2>2, <2>4
<1>5. CASE op = "reset"
    <2>1. s = Cleared(state)
        BY <1>5 DEF Draft
    <2>. QED  BY <1>5, <2>1, ClearedFields DEF Sane, RolledBack
<1>6. CASE op \in {"observe", "record", "error"}
    <2>1. Same(s, state)
        BY <1>6 DEF Draft
    <2>. QED  BY <1>6, <2>1, SameCounts DEF Counted
<1>. QED  BY <1>1, <1>2, <1>3, <1>4, <1>5, <1>6 DEF Ops

-----------------------------------------------------------------------------
LEMMA SaneKept ==
    ASSUME FlushedBeforeOpen, TypeOK, PoolAccounted, Backbone, TrialInv, [Next]_vars
    PROVE  SaneInv'
<1>. USE DEF SaneInv
<1>0. SaneInv /\ NoCall.step = "none"
    BY IdleCall DEF TrialInv
<1>1. CASE Rests
    BY <1>0, <1>1 DEF Rests
<1>2. CASE Reads
    <2>1. Sane(state')
        BY <1>0, <1>2, SameCounts DEF Reads
    <2>. QED  BY <1>0, <1>2, <2>1 DEF Reads
<1>3. CASE Begins
    <2>1. Draft(call'.op, call'.state) /\ call' \in Calls /\ call = NoCall /\ phase # "down"
        BY <1>3 DEF Begins
    <2>2. call'.op \in Ops /\ call'.state \in States /\ state \in States
        BY <2>1 DEF Calls, TypeOK, MemoryOK
    <2>3. Sane(call'.state)
        BY <1>0, <2>1, <2>2, DraftCounts DEF TrialInv, CountInv
    <2>. QED  BY <1>0, <1>3, <2>3 DEF Begins
<1>4. CASE Advances
    BY <1>0, <1>4 DEF Advances, Continues
<1>5. CASE Writes
    BY <1>0, <1>5 DEF Writes, Continues
<1>6. CASE Publishes
    BY <1>0, <1>6 DEF Publishes, Continues
<1>7. CASE Ends
    BY <1>0, <1>7 DEF Ends, Continues
<1>8. CASE Fails
    BY <1>0, <1>8 DEF Fails
<1>9. CASE Dies
    BY <1>0, <1>9 DEF Dies
<1>. QED
    BY <1>1, <1>2, <1>3, <1>4, <1>5, <1>6, <1>7, <1>8, <1>9, EveryStepHasAKind DEF StepKind

\* An acknowledgement or a reset ends the count.
LEMMA ZeroCounts ==
    ASSUME TypeOK', trial' = NoRev, launches' = 0, trials' = 0
    PROVE  TrialType' /\ CountInv'
<1>1. /\ visible'.state \in States \cup {NoState} /\ durable'.state \in States \cup {NoState}
      /\ state' \in States
    BY DEF TypeOK, MemoryOK, DiskOK, RootFiles
<1>2. call'.state \in States
    <2>1. call' = NoCall => call'.state = NewState
        BY DEF NoCall
    <2>. QED  BY <2>1, NewStateType DEF TypeOK, ProcessOK, Calls
<1>3. ASSUME NEW s \in States \cup {NoState} PROVE Accounts(s, trial', launches', trials')
    BY <1>3, NothingToCount
<1>4. \A s : ~Serves(s, trial')
    BY DEF Serves, OnTrial
<1>5. TrialType'
    BY RevisionsAssumption DEF TrialType
<1>. QED  BY <1>1, <1>2, <1>3, <1>4, <1>5 DEF CountInv, Counted

\* Steps that neither serve a trial nor end the count.
LEMMA CountKept ==
    ASSUME FlushedBeforeOpen, TypeOK, PoolAccounted, Backbone, TrialInv, [Next]_vars,
           UNCHANGED <<trial, launches, trials>>,
           ~Returning("boot"), ~AckWritten, ~ResetRequested
    PROVE  CountInv'
<1>. USE DEF CountInv, Counted
<1>0. CountInv /\ NoCall.step = "none" /\ NoCall.op = "none"
    BY IdleCall DEF TrialInv
<1>1. CASE Rests
    <2>1. Reported' = Reported /\ Clearing' = Clearing
        BY <1>1 DEF Rests, Reported, StateWritten, Clearing, OnTrial
    <2>2. phase' \in {"booted", "running"} => phase \in {"booted", "running"}
        BY <1>1 DEF Rests
    <2>. QED  BY <1>0, <1>1, <2>1, <2>2 DEF Rests
<1>2. CASE Reads
    <2>1. Accounts(state', trial, launches, trials)
        BY <1>0, <1>2, SameCounts DEF Reads
    <2>. QED  BY <1>0, <1>2, <2>1 DEF Reads
<1>3. CASE Begins
    <2>1. Draft(call'.op, call'.state) /\ call' \in Calls /\ call = NoCall /\ phase # "down"
        BY <1>3 DEF Begins
    <2>2. call'.op \in Ops /\ call'.state \in States /\ state \in States
        BY <2>1 DEF Calls, TypeOK, MemoryOK
    <2>3. /\ \/ call'.op = "reset" \/ (call'.op = "commit" /\ OnTrial(state))
             \/ Counted(call'.state)
          /\ call'.op = "boot" /\ Serves(call'.state, trial) => launches + 1 <= call'.state.attempts
        BY <1>0, <2>1, <2>2, DraftCounts DEF TrialInv, SaneInv
    <2>4. Reported' = state
        BY <1>3 DEF Begins, Reported, StateWritten
    <2>5. state' = state
        BY <1>3 DEF Begins
    <2>6. (call.step \in {"condemn", "state"} /\ ~Clearing => Counted(call.state))'
        BY <2>3, <2>5 DEF Clearing
    <2>. QED  BY <1>0, <1>3, <2>3, <2>4, <2>6 DEF Begins
<1>4. CASE Advances
    <2>1. call'.op = call.op /\ call'.state = call.state /\ Clearing' = Clearing
        BY <1>4 DEF Advances, Continues, Clearing, OnTrial
    <2>2. call'.step = "state" => call.step = "condemn"
        BY <1>4 DEF Advances
    <2>3. Reported = state /\ Reported' = state
        BY <1>4, <2>1 DEF Advances, Reported, StateWritten, PoolAccounted
    <2>. QED  BY <1>0, <1>4, <2>1, <2>2, <2>3 DEF Advances
<1>5. CASE Writes
    <2>1. ~Clearing
        BY <1>5 DEF Writes, Clearing, AckWritten, Writing, ResetRequested
    <2>2. Counted(call.state) /\ Reported' = call.state
        BY <1>0, <1>5, <2>1 DEF Writes, Reported, StateWritten, Continues
    <2>3. phase \in {"booted", "running"} /\ trial # NoRev => Serves(call.state, trial)
        <3>1. call \in Calls
            BY <1>0, <1>5 DEF Writes, TypeOK, ProcessOK
        <3>2. call.op \in Ops
            BY <3>1 DEF Calls
        <3>3. phase \in {"booted", "running"} =>
                \/ SameTrial(call.state, state)
                \/ call.op = "commit" /\ (call.state = state \/ OnTrial(state))
                \/ call.op = "reset"
            BY <3>2 DEF Backbone, CandidateInv, PhaseInv, Ops
        <3>. QED  BY <1>0, <2>1, <3>3 DEF Clearing, Serves, SameTrial
    <2>. QED  BY <1>0, <1>5, <2>2, <2>3 DEF Writes, Continues
<1>6. CASE Publishes
    <2>1. call.op # "boot"
        BY <1>6 DEF Publishes, Returning
    <2>2. Same(visible.state, call.state) /\ Reported = call.state
        BY <1>6 DEF Publishes, Backbone, SyncInv, Reported, StateWritten
    <2>3. Accounts(call.state, trial, launches, trials)
        BY <1>0, <2>2, SameCounts
    <2>4. phase' \in {"booted", "running"} => phase \in {"booted", "running"}
        BY <1>6, <2>1 DEF Publishes
    <2>5. Reported' = call.state
        BY <1>6, IdleCall DEF Publishes, Reported, Continues
    <2>6. call'.step \notin {"condemn", "state"} /\ call'.op # "boot"
        BY <1>0, <1>6, <2>1 DEF Publishes, Continues
    <2>. QED  BY <1>0, <1>6, <2>2, <2>3, <2>4, <2>5, <2>6 DEF Publishes
<1>7. CASE Ends
    <2>1. Reported = state /\ Reported' = state
        BY <1>7, IdleCall DEF Ends, Reported, Continues
    <2>2. call'.step \notin {"condemn", "state"} /\ call'.op # "boot"
        BY <1>0, <1>7 DEF Ends, Continues, Backbone, PhaseInv
    <2>. QED  BY <1>0, <1>7, <2>1, <2>2 DEF Ends
<1>8. ASSUME Fails \/ Dies PROVE CountInv'
    <2>1. Counted(visible'.state)
        <3>1. CASE call.step = "state" /\ visible'.state = call.state
            <4>1. ~Clearing
                BY <1>0, <1>8, <3>1 DEF Fails, Dies, Clearing, AckWritten, Writing, ResetRequested
            <4>. QED  BY <1>0, <3>1, <4>1
        <3>2. CASE ~(call.step = "state" /\ visible'.state = call.state)
            BY <1>0, <1>8, <3>2 DEF Fails, Dies
        <3>. QED  BY <3>1, <3>2
    <2>2. /\ call' = NoCall /\ durable'.state = durable.state
          /\ phase' = "down" \/ (state' = state /\ phase # "down")
          /\ phase' \in {"booted", "running"} => phase \in {"booted", "running"}
        BY <1>8 DEF Fails, Dies
    <2>3. Reported' = state'
        BY <2>2, IdleCall
    <2>. QED  BY <1>0, <2>1, <2>2, <2>3
<1>. QED
    BY <1>1, <1>2, <1>3, <1>4, <1>5, <1>6, <1>7, <1>8, EveryStepHasAKind DEF StepKind

\* A launch that served a trial has been counted by the attempt it began with.
LEMMA BootCounts ==
    ASSUME TypeOK, TypeOK', Backbone, TrialInv, [Next]_vars, FlushedBeforeOpen, PoolAccounted,
           Returning("boot"), RecordTrial
    PROVE  TrialType' /\ CountInv'
<1>. DEFINE s == call.state
<1>0. ~AckWritten /\ ~ResetRequested /\ call.step = "publish" /\ call.op = "boot"
    BY DEF Returning, AckWritten, Writing, ResetRequested
<1>1. Publishes
    BY <1>0, EveryStepHasAKind
    DEF StepKind, Returning, Rests, Reads, Begins, Advances, Writes, Ends, Fails, Dies, NoCall
<1>2. /\ call' = NoCall /\ phase' = "booted" /\ state' = s
      /\ visible' = visible /\ durable' = durable /\ Reported' = s
      /\ Same(visible.state, s) /\ Same(durable.state, s)
    BY <1>0, <1>1, IdleCall DEF Publishes, Backbone, SyncInv, Reported, StateWritten
<1>3. s \in States /\ s \in States \cup {NoState}
    BY <1>0, <1>2 DEF TypeOK, MemoryOK
<1>4. Sane(s) /\ Counted(s)
    BY <1>0, <1>2, SameCounts DEF TrialInv, SaneInv, CountInv, Counted
<1>5. TrialType' /\ Accounts(s, trial', launches', trials')
      /\ (trial' # NoRev => Serves(s, trial'))
    <2>. USE StateFields, RevisionsAssumption DEF TrialType
    <2>0. TrialType /\ (Serves(s, trial) => launches + 1 <= s.attempts)
        BY <1>0 DEF TrialInv, CountInv
    <2>1. CASE OnTrial(s)
        <3>1. /\ trial' = s.booting
              /\ launches' = IF trial = trial' THEN launches + 1 ELSE 1
              /\ trials' = IF trial = trial' THEN trials ELSE trials + 1
            BY <1>0, <2>1 DEF RecordTrial
        <3>2. s.booting # NoRev /\ Serves(s, trial') /\ s.attempts \in 1 .. MaxBootAttempts - 1
            BY <1>4, <2>1, <3>1 DEF OnTrial, Serves, Sane
        <3>3. CASE trial = trial'
            BY <1>3, <1>4, <2>0, <2>1, <3>1, <3>2, <3>3 DEF Counted, Accounts
        <3>4. CASE trial # trial'
            <4>1. ~Serves(s, trial) /\ (s.staged # NoRev => s.staged # trial')
                BY <1>4, <2>1, <3>1, <3>4 DEF Serves, Sane
            <4>. QED  BY <1>3, <1>4, <2>0, <2>1, <3>1, <3>2, <3>4, <4>1 DEF Counted, Accounts, Late
        <3>. QED  BY <3>3, <3>4
    <2>2. CASE ~OnTrial(s)
        <3>1. trial' = NoRev /\ launches' = 0 /\ trials' = trials
            BY <1>0, <2>2 DEF RecordTrial
        <3>2. ~Serves(s, trial) /\ ~Serves(s, NoRev)
            BY <2>2 DEF Serves
        <3>. QED  BY <1>3, <1>4, <2>0, <2>2, <3>1, <3>2 DEF Counted, Accounts
    <2>. QED  BY <2>1, <2>2
<1>6. \A t : Same(t, s) => /\ Accounts(t, trial', launches', trials')
                          /\ \A rev : Serves(t, rev) <=> Serves(s, rev)
    BY <1>5, SameCounts
<1>. QED  BY <1>2, <1>5, <1>6, IdleCall DEF CountInv, Counted

LEMMA TrialKept ==
    ASSUME FlushedBeforeOpen, TypeOK, TypeOK', PoolAccounted, Backbone, TrialInv,
           [Next]_vars, RecordTrial
    PROVE  TrialInv'
<1>1. SaneInv'
    BY SaneKept
<1>2. TrialType' /\ CountInv'
    <2>1. CASE Returning("boot")
        BY <2>1, BootCounts
    <2>2. CASE ~Returning("boot") /\ (AckWritten \/ ResetRequested)
        BY <2>2, ZeroCounts DEF RecordTrial
    <2>3. CASE ~Returning("boot") /\ ~AckWritten /\ ~ResetRequested
        <3>1. UNCHANGED <<trial, launches, trials>>
            BY <2>3 DEF RecordTrial
        <3>. QED  BY <2>3, <3>1, CountKept DEF TrialInv, TrialType
    <2>. QED  BY <2>1, <2>2, <2>3
<1>. QED  BY <1>1, <1>2 DEF TrialInv

LEMMA TrialInvAlways == ASSUME FlushedBeforeOpen PROVE HistorySpec => []TrialInv
<1>1. Init /\ HistoryInit => TrialInv
    <2>. SUFFICES ASSUME Init, HistoryInit PROVE TrialInv
        OBVIOUS
    <2>1. /\ visible.state = NoState /\ durable.state = NoState /\ phase = "down" /\ call = NoCall
          /\ trial = NoRev /\ launches = 0 /\ trials = 0
        BY DEF Init, HistoryInit
    <2>2. NoState.staged = NoRev /\ ~OnTrial(NoState) /\ NoState.rollbacks = 0
        BY DEF NoState, NewState, OnTrial
    <2>3. Sane(NoState)
        BY <2>2, RevisionsAssumption DEF Sane, RolledBack
    <2>4. Counted(NoState)
        BY <2>1, NothingToCount DEF Counted
    <2>5. TrialType
        BY <2>1, RevisionsAssumption DEF TrialType
    <2>. QED  BY <2>1, <2>3, <2>4, <2>5, IdleCall DEF TrialInv, SaneInv, CountInv
<1>2. TypeOK /\ TypeOK' /\ PoolAccounted /\ Backbone /\ TrialInv /\ [HistoryNext]_allVars
        => TrialInv'
    <2>. SUFFICES ASSUME TypeOK, TypeOK', PoolAccounted, Backbone, TrialInv, [HistoryNext]_allVars
                  PROVE  TrialInv'
        OBVIOUS
    <2>1. CASE UNCHANGED allVars
        BY <2>1 DEF allVars, vars, disk, memory, process, history, TrialInv, TrialType, SaneInv,
                    CountInv, Counted, Accounts, Serves, Clearing, Reported, StateWritten, Late
    <2>2. CASE HistoryNext
        BY <2>2, TrialKept DEF HistoryNext
    <2>. QED  BY <2>1, <2>2
<1>. QED
    BY <1>1, <1>2, HistoryObserves, TypeCorrect, PoolAccountedAlways, BackboneAlways, PTL
    DEF HistorySpec

(***************************************************************************)
(* A revision nobody acknowledges is served by at most MaxBootAttempts - 1 *)
(* launches, however many of them are cut short and whatever writes fail   *)
(* (boot, store.rs:291).                                                   *)
(***************************************************************************)
THEOREM TrialBudgetKept == ASSUME FlushedBeforeOpen PROVE HistorySpec => []TrialBudget
<1>1. TrialInv => TrialBudget
    BY RevisionsAssumption DEF TrialInv, TrialType, TrialBudget
<1>. QED  BY <1>1, TrialInvAlways, PTL

(***************************************************************************)
(* A device that acknowledges nothing stops trying new content after one   *)
(* trial per allowed rollback and at most two more (is_degraded, store.rs:209).  *)
(***************************************************************************)
THEOREM UpdatingAlwaysStops == ASSUME FlushedBeforeOpen PROVE HistorySpec => []UpdatingStops
<1>1. TypeOK /\ TrialInv => UpdatingStops
    <2>. SUFFICES ASSUME TypeOK, TrialInv PROVE UpdatingStops
        OBVIOUS
    <2>1. visible.state \in States \cup {NoState}
        BY DEF TypeOK, DiskOK, RootFiles
    <2>2. Late(visible.state) \in (IF Seeds = {} THEN {0} ELSE {0, 1})
        BY DEF Late
    <2>3. Counted(visible.state) /\ trials \in Nat
        BY DEF TrialInv, TrialType, CountInv
    <2>4. Sane(visible.state)
        BY DEF TrialInv, SaneInv
    <2>. QED
        BY <2>1, <2>2, <2>3, <2>4, StateFields, RevisionsAssumption
        DEF Counted, Accounts, Sane, RolledBack, Serves, UpdatingStops
<1>. QED  BY <1>1, TrialInvAlways, HistoryObserves, TypeCorrect, PTL
=============================================================================
