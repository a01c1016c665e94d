---------------------------- MODULE TpkRevisions ----------------------------
(***************************************************************************)
(* What crates/tpk-store computes, without the files it keeps: the fields  *)
(* of state.json, how a revision is composed and checked, and what boot,   *)
(* commit_booting and open make of a state.  Functions of a state and of   *)
(* the verdicts; TpkStore and TpkPlugin give them their steps.             *)
(***************************************************************************)
EXTENDS Verdicts, FiniteSets

CONSTANTS
    Packs,                    \* pack files, told apart by their sha256
    Meta,                     \* what the signed manifest of each pack says
    NoPack,                   \* the parent of a pack that is not a patch
    ErrorCodes,               \* codes of errors kept for status()
    MaxBootAttempts,          \* MAX_BOOT_ATTEMPTS
    MaxConsecutiveRollbacks   \* MAX_CONSECUTIVE_ROLLBACKS

VARIABLE now   \* the wall clock

Kinds == {"base", "patch", "dlc", "mod"}
Ids == {Meta[p].id : p \in Packs}
Release(p) == <<Meta[p].id, Meta[p].ver>>
Releases == {Release(p) : p \in Packs}

\* No release was published as two different packs.
OneBuildEach == \A p, q \in Packs : Release(p) = Release(q) => p = q

ASSUME RevisionsAssumption ==
    /\ Meta \in [Packs -> [id : Ids, kind : Kinds, ver : Nat \ {0},
                           parent : Packs \cup {NoPack}, epoch : Nat \ {0}]]
    /\ NoPack \notin Packs
    /\ MaxBootAttempts \in Nat \ {0, 1}
    /\ MaxConsecutiveRollbacks \in Nat \ {0}

-----------------------------------------------------------------------------
(***************************************************************************)
(* state.json.  A revision is the set of its layers: write_revision sorts  *)
(* them by (kind, version_code), so the order is a function of the set.    *)
(***************************************************************************)
Revisions == SUBSET Packs
NoRev == {NoPack}   \* an empty slot

States == [pointer   : {"committed", "booting"},
           staged    : Revisions \cup {NoRev},
           booting   : Revisions \cup {NoRev},
           committed : Revisions \cup {NoRev},
           attempts  : 0 .. MaxBootAttempts - 1,
           rollbacks : Nat,
           floor     : [Ids -> Nat],
           watermark : Nat,
           epoch     : Nat,
           lastError : ErrorCodes \cup {"none"}]

NewState == [pointer   |-> "committed",
             staged    |-> NoRev,
             booting   |-> NoRev,
             committed |-> NoRev,
             attempts  |-> 0,
             rollbacks |-> 0,
             floor     |-> [i \in Ids |-> 0],
             watermark |-> 0,
             epoch     |-> 1,
             lastError |-> "none"]

\* A missing or unparseable state.json.
NoState == [NewState EXCEPT !.pointer = "missing"]

NoVerdicts == [r \in Releases |-> Absent]
Standing(vs) == {r \in Releases : Stands(vs[r])}

Layers(rev) == IF rev = NoRev THEN {} ELSE rev
Active(s) == Layers(IF s.pointer = "booting" THEN s.booting ELSE s.committed)
Referenced(s) == Layers(s.staged) \cup Layers(s.booting) \cup Layers(s.committed)

Blocks(vs, p) == IsActive(vs[Release(p)], now)
\* Mutant: the stack is loaded without asking the blacklist.
LiveUnfiltered(s, vs) == Active(s)
Live(s, vs) == {p \in Active(s) : ~Blocks(vs, p)}
Degraded(s) == s.rollbacks >= MaxConsecutiveRollbacks

Larger(a, b) == IF a > b THEN a ELSE b

\* observe_version for every release of a set: floors only rise.
Raise(floor, rs) ==
    [i \in DOMAIN floor |->
        LET newer == {r[2] : r \in {q \in rs : q[1] = i /\ q[2] > floor[i]}}
            top   == {n \in newer : \A m \in newer : m <= n}
        IN  IF top = {} THEN floor[i] ELSE CHOOSE n \in top : TRUE]

RaiseVersionFloor(s) ==
    [s EXCEPT !.floor = Raise(@, {Release(p) : p \in Layers(s.committed)})]

(***************************************************************************)
(* On every open the floor is raised to what is committed and to what is   *)
(* on the blacklist for a reason other than not_acknowledged.              *)
(***************************************************************************)
BackfillVersionFloor(s, vs) ==
    LET ran == {r \in Releases : vs[r] # Absent /\ vs[r].reason # "not_acknowledged"}
    IN  [s EXCEPT !.floor = Raise(@, {Release(p) : p \in Layers(s.committed)} \cup ran)]

-----------------------------------------------------------------------------
(***************************************************************************)
(* The composition of a revision, and the checks it passes.                *)
(***************************************************************************)
LayerRank(kind) == CASE kind = "base" -> 0 [] kind = "patch" -> 1
                     [] kind = "dlc" -> 2 [] kind = "mod" -> 3

\* Layers of the active stack a new revision keeps.
Inherited(s, vs, batch) ==
    {p \in Active(s) \ batch :
        /\ ~\E q \in batch : Meta[q].id = Meta[p].id /\ Meta[q].kind # "patch"
        /\ ~Blocks(vs, p)}

Revision(s, vs, batch) == Inherited(s, vs, batch) \cup batch

\* Whether p lies below q in the stack; a new layer sorts after an equal one.
Below(p, q, batch) ==
    LET rp == LayerRank(Meta[p].kind)
        rq == LayerRank(Meta[q].kind)
    IN  \/ rp < rq
        \/ rp = rq /\ Meta[p].ver < Meta[q].ver
        \/ rp = rq /\ Meta[p].ver = Meta[q].ver /\ p \notin batch /\ q \in batch

\* Mutant: a patch with nothing under it has no parent to check.
ParentsMatchIfAny(layers, batch) ==
    \A q \in {b \in batch : Meta[b].parent # NoPack} :
        (\E p \in layers : Meta[p].id = Meta[q].id /\ Below(p, q, batch))
            => Meta[q].parent \in layers

\* The layer of the same id right under a new patch is the parent it names.
ParentsMatch(layers, batch) ==
    \A q \in {b \in batch : Meta[b].parent # NoPack} :
        \E p \in layers :
            /\ p = Meta[q].parent
            /\ Meta[p].id = Meta[q].id
            /\ Below(p, q, batch)
            /\ ~\E o \in layers : /\ Meta[o].id = Meta[q].id
                                  /\ Below(p, o, batch)
                                  /\ Below(o, q, batch)

\* Every layer of the stack is verified against the key epoch floor.
EpochsSuffice(s, layers) == \A p \in layers : Meta[p].epoch >= s.epoch

\* Mutant: the version floor is not enforced.
FloorsUnchecked(s, layers, batch) == TRUE

\* The final version of every id the batch updates reaches its floor.
FloorsReached(s, layers, batch) ==
    \A q \in batch :
        \E p \in layers : Meta[p].id = Meta[q].id /\ Meta[p].ver >= s.floor[Meta[q].id]

RevisionAccepted(s, vs, batch) ==
    /\ ParentsMatch(Revision(s, vs, batch), batch)
    /\ EpochsSuffice(s, Revision(s, vs, batch))

-----------------------------------------------------------------------------
(***************************************************************************)
(* The trial of a revision: what boot and commit_booting make of a state.  *)
(***************************************************************************)
OnTrial(s) == s.pointer = "booting" /\ s.booting # NoRev

\* Mutant: the fallback is condemned with the update that failed.
CondemnedWhole(s) ==
    IF OnTrial(s) /\ s.attempts + 1 >= MaxBootAttempts
    THEN {Release(p) : p \in s.booting}
    ELSE {}

\* The first half of boot_inner: the verdict on the revision on trial.
Condemned(s) ==
    IF OnTrial(s) /\ s.attempts + 1 >= MaxBootAttempts
    THEN {Release(p) : p \in s.booting \ Layers(s.committed)}
    ELSE {}

\* Mutants: launches are not counted; a rollback is not; a launch too many is.
TriedUncounted(s) == s
TriedUncharged(s) ==
    IF ~OnTrial(s) THEN s
    ELSE IF s.attempts + 1 < MaxBootAttempts
    THEN [s EXCEPT !.attempts = @ + 1]
    ELSE [s EXCEPT !.booting = NoRev,
                   !.pointer = "committed",
                   !.attempts = 0]
TriedOnceMore(s) ==
    IF ~OnTrial(s) THEN s
    ELSE IF s.attempts < MaxBootAttempts
    THEN [s EXCEPT !.attempts = @ + 1]
    ELSE [s EXCEPT !.booting = NoRev,
                   !.pointer = "committed",
                   !.attempts = 0,
                   !.rollbacks = @ + 1]

Tried(s) ==
    IF ~OnTrial(s) THEN s
    ELSE IF s.attempts + 1 < MaxBootAttempts
    THEN [s EXCEPT !.attempts = @ + 1]
    ELSE [s EXCEPT !.booting = NoRev,
                   !.pointer = "committed",
                   !.attempts = 0,
                   !.rollbacks = @ + 1]

\* Mutant: a staged revision is tried without asking the blacklist.
PromotedUnchecked(s, vs) ==
    IF s.pointer # "committed" \/ s.staged = NoRev THEN s
    ELSE [s EXCEPT !.staged = NoRev,
                   !.booting = s.staged,
                   !.pointer = "booting",
                   !.attempts = 1]

\* The second half: a staged revision takes the place that is now free.
Promoted(s, vs) ==
    IF s.pointer # "committed" \/ s.staged = NoRev THEN s
    ELSE IF \E p \in s.staged : Blocks(vs, p)
    THEN [s EXCEPT !.staged = NoRev]
    ELSE [s EXCEPT !.staged = NoRev,
                   !.booting = s.staged,
                   !.pointer = "booting",
                   !.attempts = 1]

Acknowledged(s) ==
    IF ~OnTrial(s) THEN s
    ELSE RaiseVersionFloor([s EXCEPT !.committed = s.booting,
                                     !.booting = NoRev,
                                     !.pointer = "committed",
                                     !.attempts = 0,
                                     !.rollbacks = 0,
                                     !.lastError = "none"])

\* Mutant: a reset forgets the version floors.
ClearedForgetful(s) == [NewState EXCEPT !.watermark = s.watermark, !.epoch = s.epoch]

\* reset keeps what protects against downgrades, and the blacklist unless asked.
Cleared(s) == [NewState EXCEPT !.watermark = s.watermark,
                               !.floor = s.floor,
                               !.epoch = s.epoch]

\* What the planner takes to be installed.
InstalledLayers(s, vs) == {p \in Layers(s.committed) \cup Layers(s.booting) : ~Blocks(vs, p)}
=============================================================================
