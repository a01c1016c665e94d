---------------------------- MODULE TpkLifecycle ----------------------------
(***************************************************************************)
(* What tpk-store promises of revisions, without files, writes or crashes: *)
(* a staged revision goes on trial at a launch, and a trial ends in        *)
(* acknowledgement or in a rollback that leaves its new layers refused.    *)
(* TpkStoreRefines checks that TpkStore implements it.                     *)
(***************************************************************************)
EXTENDS Naturals

CONSTANTS
    Packs,
    Releases,
    Release(_),        \* the release a pack is a file of
    Seeds,             \* the packs bundled with the app
    Nothing,           \* an empty slot
    MaxBootAttempts    \* the launch that finds this many attempts rolls back

VARIABLES
    committed, trial, staged,   \* the revisions, or Nothing
    launches,                   \* launches of the trial so far
    refused,                    \* releases whose verdict is in force
    convicted                   \* the same, and those whose verdict lapsed

lifecycle == <<committed, trial, staged, launches, refused, convicted>>
verdictsKept == UNCHANGED <<refused, convicted>>

Layers(rev) == IF rev = Nothing THEN {} ELSE rev
ReleasesOf(rev) == {Release(p) : p \in Layers(rev)}

Init ==
    /\ committed = Nothing
    /\ trial = Nothing
    /\ staged = Nothing
    /\ launches = 0
    /\ refused = {}
    /\ convicted = {}

\* What is bundled is committed where nothing is, and ends a trial.
Seed ==
    /\ committed = Nothing
    /\ committed' \in {rev \in SUBSET Packs : Seeds \subseteq rev}
    /\ trial' = Nothing
    /\ launches' = 0
    /\ UNCHANGED staged /\ verdictsKept

\* A download replaces whatever was staged.
Stage ==
    /\ staged' \in SUBSET Packs
    /\ UNCHANGED <<committed, trial, launches>> /\ verdictsKept

\* With no trial in the way the staged revision is tried, or dropped.  What a
\* launch decided by a verdict may be read after the verdict has lapsed.
Promote ==
    /\ \/ /\ staged # Nothing
          /\ ReleasesOf(staged) \cap refused = {}
          /\ trial' = staged
          /\ launches' = 1
       \/ /\ staged # Nothing => ReleasesOf(staged) \cap convicted # {}
          /\ trial' = Nothing
          /\ launches' = 0
    /\ staged' = Nothing
    /\ UNCHANGED committed /\ verdictsKept

Retry ==
    /\ trial # Nothing
    /\ launches + 1 < MaxBootAttempts
    /\ launches' = launches + 1
    /\ UNCHANGED <<committed, trial, staged>> /\ verdictsKept

\* Only what the trial brought is refused; the fallback keeps its layers.
RollBack ==
    /\ trial # Nothing
    /\ launches + 1 >= MaxBootAttempts
    /\ {Release(p) : p \in trial \ Layers(committed)} \subseteq convicted
    /\ Promote

Launch == (trial = Nothing /\ Promote) \/ Retry \/ RollBack

Acknowledge ==
    /\ trial # Nothing
    /\ committed' = trial
    /\ trial' = Nothing
    /\ launches' = 0
    /\ UNCHANGED staged /\ verdictsKept

Reset ==
    /\ committed' = Nothing
    /\ trial' = Nothing
    /\ staged' = Nothing
    /\ launches' = 0
    /\ verdictsKept

\* Verdicts come and go by failures, rollbacks, expiry and reset.
Judge ==
    /\ convicted' \in SUBSET Releases
    /\ refused' \in SUBSET convicted'
    /\ UNCHANGED <<committed, trial, staged, launches>>

Next == Seed \/ Stage \/ Launch \/ Acknowledge \/ Reset \/ Judge

Spec == Init /\ [][Next]_lifecycle
=============================================================================
