------------------------------ MODULE TpkOverlay ------------------------------
(***************************************************************************)
(* What a device shows of the packs a publisher builds: the layers frozen  *)
(* at launch, their index, the delta results that are rebuilt when a       *)
(* revision is staged and again by the repair thread, the cache of the     *)
(* resolver, and PackAssets with the embedded assets below it              *)
(* (crates/tpk-resolve, crates/tpk-store/src/materialize.rs, and           *)
(* pack_assets.rs and setup of crates/tauri-plugin-tpk).                   *)
(*                                                                         *)
(* Results are keyed by hash, so by content.  Revisions are stacks of one  *)
(* id; their life is TpkStore's subject.                                   *)
(***************************************************************************)
EXTENDS TpkAuthor, Selections, FiniteSets

CONSTANTS
    Budget, Fraction,   \* of the cache, see ByteLru
    Dists,              \* the trees the publisher packs
    Embedded,           \* the tree in the binary
    Keys,               \* what the WebView asks for
    Candidates,         \* the paths each key may mean, in order
    MaxReading,         \* bound on the requests that are served at a time
    MaxPacks,           \* bound on what is published
    MaxFaults           \* bound on what goes wrong

ASSUME OverlayAssumption ==
    /\ {Budget, MaxReading, MaxPacks, MaxFaults} \subseteq Nat
    /\ Fraction \in Nat \ {0}
    /\ Embedded \in Trees /\ Dists \subseteq Trees
    /\ Contents \cap {"not found", "deleted", "not materialized"} = {}
    /\ Candidates \in [Keys -> Seq(Paths)]

VARIABLES
    published,   \* the packs built so far; a pack's number is its place
    staged,      \* the stack the next launch promotes
    active,      \* the stack of the active revision
    committed,   \* the stack a rollback returns to
    running,     \* the layers that were loaded at launch
    up,          \* the app runs
    results,     \* the directory of delta results: "none", "good", "bad"
    purged,      \* results that were taken or damaged, and not rebuilt since
    repair,      \* the layer the repair thread comes to; 0 without one
    reading,     \* how many requests have read a path and not cached it yet
    cache,       \* the resolver's cache
    faults       \* how much went wrong so far

deviceVars == <<staged, active, committed, running, up, repair, reading, cache>>
overlayVars == <<published, deviceVars, results, purged, faults>>

Lru == INSTANCE ByteLru

NotReading == [p \in Paths |-> 0]
Layer(n) == published[n].entries
Counted(n) == faults' = faults + n /\ faults + n <= MaxFaults

\* The chain each pack belongs to, base first.
Chains ==
    LET C[k \in 0 .. Len(published)] ==
            IF k = 0 THEN <<>> ELSE Append(C[published[k].parent], k)
    IN  C

Chain(n) == Chains[n]

-----------------------------------------------------------------------------
(***************************************************************************)
(* The index: the topmost entry of each path.                              *)
(***************************************************************************)
Listing(stack, p) == {i \in DOMAIN stack : p \in DOMAIN Layer(stack[i])}

Topmost(listing) == CHOOSE i \in listing : \A j \in listing : i >= j

NotListed == [op |-> "none"]
Winner(stack, p) ==
    IF Listing(stack, p) = {} THEN NotListed ELSE Layer(stack[Topmost(Listing(stack, p))])[p]

\* MaterializedDir::get, which checks the hash.
Available(content) == results[content] = "good"

Misses == {"not found", "deleted", "not materialized"}

\* Resolver::get, with what the cache has and without.
Resolve(p) ==
    LET w == Winner(running, p)
    IN  IF w.op = "none" THEN "not found"
        ELSE IF w.op = "delete" THEN "deleted"
        ELSE IF w.op = "full" \/ Available(w.content) THEN w.content
        ELSE "not materialized"

Get(p) ==
    IF Winner(running, p).op \in {"full", "delta"} /\ Lru!Holds(cache, p)
    THEN Lru!Held(cache, p) ELSE Resolve(p)

\* PackAssets::get: the candidates in order, then the embedded assets; a
\* tombstone ends it.
Decides(answer) == answer \notin Misses \ {"deleted"}

Serve(key) ==
    LET answers  == [i \in DOMAIN Candidates[key] |-> Get(Candidates[key][i])]
        deciding == {i \in DOMAIN answers : Decides(answers[i])}
    IN  IF deciding = {} THEN Embedded[Candidates[key][1]]
        ELSE LET answer == answers[CHOOSE i \in deciding : \A j \in deciding : i <= j]
             IN  IF answer = "deleted" THEN NoFile ELSE answer

-----------------------------------------------------------------------------
(***************************************************************************)
(* materialize_layer: a layer's missing results, rebuilt against the       *)
(* layers below it, up to the first that fails.                            *)
(***************************************************************************)
ResultOf(stack, i, p) == Layer(stack[i])[p].content
DeltasOf(stack, i) == Deltas(Layer(stack[i]))

\* What a layer lacks.
Lacking(stack, i, dir) == {p \in DeltasOf(stack, i) : dir[ResultOf(stack, i, p)] # "good"}

\* The content below, in a resolver of its own.
Below(stack, i, p, dir) ==
    LET w == Winner(SubSeq(stack, 1, i - 1), p)
    IN  IF w.op = "full" \/ (w.op = "delta" /\ dir[w.content] = "good") THEN w.content ELSE NoFile

Rebuilds(stack, i, p, dir) == Below(stack, i, p, dir) = Layer(stack[i])[p].base

\* The lacking paths before the first that cannot be rebuilt.
Rebuildable(stack, i, dir) ==
    LET lacking == Lacking(stack, i, dir)
        place(p) == CHOOSE k \in DOMAIN PathOrder : PathOrder[k] = p
    IN  {p \in lacking : \A q \in lacking : place(q) <= place(p) => Rebuilds(stack, i, q, dir)}

WithResults(dir, stack, i, paths) ==
    [c \in Contents |-> IF \E p \in paths : ResultOf(stack, i, p) = c THEN "good" ELSE dir[c]]

Materialized(dir, stack, i) == WithResults(dir, stack, i, Rebuildable(stack, i, dir))
LayerSucceeds(dir, stack, i) == Rebuildable(stack, i, dir) = Lacking(stack, i, dir)

\* materialize_stack, as far as each layer; it stops at the first that fails.
Rebuilding(stack, dir) ==
    LET R[i \in 0 .. Len(stack)] ==
            IF i = 0 THEN [ok |-> TRUE, dir |-> dir]
            ELSE LET below == R[i - 1]
                 IN  IF below.ok
                     THEN [ok  |-> LayerSucceeds(below.dir, stack, i),
                           dir |-> Materialized(below.dir, stack, i)]
                     ELSE below
    IN  R

Rebuild(stack, dir) == Rebuilding(stack, dir)[Len(stack)]

Changed(dir) == results' = dir /\ purged' = {c \in purged : dir[c] # "good"}

-----------------------------------------------------------------------------
\* "tpk pack", with the chain of some pack as --parent, or any packs.
Publish(kind, tree, parents) ==
    LET chain == [i \in DOMAIN parents |-> published[parents[i]]]
        n     == Len(published) + 1
    IN  /\ n <= MaxPacks
        /\ Packs(kind, n, tree, chain)
        /\ published' = Append(published, Build(kind, n, tree, chain))
        /\ UNCHANGED <<deviceVars, results, purged, faults>>

(***************************************************************************)
(* The collector: results of the revisions and of the running layers stay. *)
(***************************************************************************)
Needed(stack) == UNION {Results(Layer(stack[i])) : i \in DOMAIN stack}

\* Mutant: what only the running resolver needs goes.
WantedByRevisions(revisions) == UNION {Needed(s) : s \in revisions}
Wanted(revisions) == Needed(running) \cup UNION {Needed(s) : s \in revisions}

Collected(dir, revisions) ==
    [c \in Contents |-> IF c \in Wanted(revisions) THEN dir[c] ELSE "none"]

\* The chain of a newer pack is staged, all its results first.
Stage(n) ==
    /\ up
    /\ \A i \in DOMAIN active : n > active[i]
    /\ Rebuild(Chain(n), results).ok
    /\ Changed(Rebuild(Chain(n), results).dir)
    /\ staged' = Chain(n)
    /\ UNCHANGED <<published, active, committed, running, up, repair, reading, cache, faults>>

\* A write fails, or a base was purged while its patch was rebuilt: some
\* results stay.
StageFails(n) ==
    /\ up
    /\ Counted(1)
    /\ \E k \in 0 .. Len(Chain(n)) : Changed(Rebuild(SubSeq(Chain(n), 1, k), results).dir)
    /\ UNCHANGED <<published, deviceVars>>

Commit ==
    /\ up
    /\ committed # active
    /\ committed' = active
    /\ Changed(Collected(results, {staged, active}))
    /\ UNCHANGED <<published, staged, active, running, up, repair, reading, cache, faults>>

Reset ==
    /\ up
    /\ Counted(1)
    /\ staged' = <<>> /\ active' = <<>> /\ committed' = <<>>
    /\ Changed(Collected(results, {}))
    /\ UNCHANGED <<published, running, up, repair, reading, cache>>

-----------------------------------------------------------------------------
(***************************************************************************)
(* A launch promotes, retries or rolls back, loads what loads, and starts  *)
(* the repair thread.                                                      *)
(***************************************************************************)
Launch(stack, loaded) ==
    /\ ~up
    /\ \/ stack = (IF staged # <<>> THEN staged ELSE active)
          /\ Counted(Len(stack) - Len(loaded))
       \/ stack = committed /\ committed # active
          /\ Counted(1 + Len(stack) - Len(loaded))
    /\ active' = stack
    /\ staged' = <<>>
    /\ running' = loaded
    /\ up' = TRUE
    /\ repair' = IF loaded = <<>> THEN 0 ELSE 1
    /\ UNCHANGED <<published, committed, results, purged, reading, cache>>

\* missing_materialized, and then layer by layer, whatever fails.
NextLayer(i) == IF i < Len(running) THEN i + 1 ELSE 0

\* Mutant: the topmost layer tells whether anything lacks.
IncompleteTop == Lacking(running, Len(running), results) # {}
Incomplete == \E i \in DOMAIN running : Lacking(running, i, results) # {}

NothingLacks ==
    /\ repair = 1
    /\ ~Incomplete
    /\ repair' = 0
    /\ UNCHANGED <<published, staged, active, committed, running, up, results, purged,
                   reading, cache, faults>>

Repair ==
    /\ repair > 0
    /\ repair = 1 => Incomplete
    /\ Changed(Materialized(results, running, repair))
    /\ repair' = NextLayer(repair)
    /\ UNCHANGED <<published, staged, active, committed, running, up, reading, cache, faults>>

\* Resolver::get up to the point where the cache lock is taken again.
Request(p) ==
    /\ up
    /\ MapThenSumSet(LAMBDA q : reading[q], Paths) < MaxReading
    /\ Get(p) \notin Misses
    /\ IF Lru!Holds(cache, p)
       THEN cache' = Lru!Touch(cache, p) /\ UNCHANGED reading
       ELSE reading' = [reading EXCEPT ![p] = @ + 1] /\ UNCHANGED cache
    /\ UNCHANGED <<published, staged, active, committed, running, up, results, purged,
                   repair, faults>>

\* The bytes that were read are cached, whatever another request did.
Answer(p) ==
    /\ reading[p] > 0
    /\ cache' = Lru!Insert(cache, p, Winner(running, p).content)
    /\ reading' = [reading EXCEPT ![p] = @ - 1]
    /\ UNCHANGED <<published, staged, active, committed, running, up, results, purged,
                   repair, faults>>

-----------------------------------------------------------------------------
\* The operating system purges a result, a tool damages it.
Purge(c, left) ==
    /\ results[c] # "none" /\ left # results[c]
    /\ Counted(1)
    /\ results' = [results EXCEPT ![c] = left]
    /\ purged' = purged \cup {c}
    /\ UNCHANGED <<published, deviceVars>>

Close ==
    /\ up
    /\ up' = FALSE
    /\ running' = <<>>
    /\ repair' = 0
    /\ reading' = NotReading
    /\ cache' = Lru!EmptyCache
    /\ UNCHANGED <<published, staged, active, committed, results, purged, faults>>

OverlayInit ==
    /\ published = <<>>
    /\ staged = <<>> /\ active = <<>> /\ committed = <<>>
    /\ running = <<>>
    /\ up = FALSE
    /\ results = [c \in Contents |-> "none"]
    /\ purged = {}
    /\ repair = 0
    /\ reading = NotReading
    /\ cache = Lru!EmptyCache
    /\ faults = 0

Numbers == DOMAIN published
Newest == {Len(published)} \ {0}   \* what the planner asks for
Parents == {Chain(n) : n \in Numbers} \cup {<<>>} \cup {<<n>> : n \in Numbers}
           \cup {<<n, m>> : n \in Numbers, m \in Numbers}
Stacks == {staged, active, committed}
Loadable(stack) == {Kept(stack, loading) : loading \in SUBSET DOMAIN stack}

Device ==
    \/ \E n \in Newest : Stage(n) \/ StageFails(n)
    \/ Commit \/ Reset
    \/ \E stack \in Stacks : \E loaded \in Loadable(stack) : Launch(stack, loaded)
    \/ NothingLacks \/ Repair
    \/ \E p \in Paths : Request(p) \/ Answer(p)
    \/ Close

OverlayNext ==
    \/ \E kind \in {"base", "patch"} : \E tree \in Dists : \E parents \in Parents :
          Publish(kind, tree, parents)
    \/ Device
    \/ \E c \in Contents : \E left \in {"none", "bad"} : Purge(c, left)

\* The app is closed and opened again, and not always before the repair
\* thread got to its next layer.
OverlayFairness ==
    /\ WF_overlayVars(Close)
    /\ WF_overlayVars(\E stack \in Stacks : Launch(stack, stack))
    /\ \A i \in 1 .. MaxPacks : SF_overlayVars(repair = i /\ (NothingLacks \/ Repair))

OverlaySpec == OverlayInit /\ [][OverlayNext]_overlayVars
FairOverlaySpec == OverlaySpec /\ OverlayFairness

-----------------------------------------------------------------------------
\* What the publisher meant a path to be, for the chain that runs.
Tree(n) == published[n].tree
Meant(p) ==
    IF Tree(Last(running))[p] # NoFile THEN Tree(Last(running))[p]
    ELSE IF \E i \in DOMAIN running : Tree(running[i])[p] # NoFile THEN NoFile
    ELSE Embedded[p]

Complete == running # <<>> /\ running = Chain(Last(running))
Lacks(p) == Winner(running, p).op = "delta" /\ ~results[Winner(running, p).content] = "good"

\* A path shows what its tree has, or while a result is missing what the app
\* was built with.
ShowsWhatWasMeant ==
    running # <<>> => \A key \in Keys : Len(Candidates[key]) = 1 =>
        LET p == Candidates[key][1]
        IN  Complete \/ Tree(Last(running))[p] # NoFile =>
                Serve(key) \in {Meant(p)} \cup (IF Lacks(p) THEN {Embedded[p]} ELSE {})

\* A key that stands for several files shows the first of them that the
\* publisher has, and nothing once one before it was deleted.
RoutesAgree ==
    Complete => \A key \in Keys :
        LET c == Candidates[key]
            known == {i \in DOMAIN c : \E j \in DOMAIN running : Tree(running[j])[c[i]] # NoFile}
        IN  (known # {} /\ \A i \in DOMAIN c : ~Lacks(c[i])) =>
                LET first == c[CHOOSE i \in known : \A j \in known : i <= j]
                IN  Serve(key) = Tree(Last(running))[first]

(***************************************************************************)
(* A device that runs a chain shows the tree its last pack was made from,  *)
(* path by path and route by route: patches, tombstones and deltas,        *)
(* computed on another machine against resolved parents, compose to it     *)
(* (cmd_pack.rs:203, index.rs:79, resolve.rs:225, pack_assets.rs:70).      *)
(* While a result is missing, the embedded file shows instead, and never   *)
(* anything else.  With layers that did not load, the files of the last    *)
(* that did are right all the same.                                        *)
(***************************************************************************)
ServesAsMeant == ShowsWhatWasMeant /\ RoutesAgree

(***************************************************************************)
(* The cache holds what the index names and no more bytes than its budget, *)
(* and its count of them is right although two requests for one path may   *)
(* both miss and both insert (cache.rs:75, resolve.rs:271).                *)
(***************************************************************************)
CacheIsRight ==
    /\ cache.used = Lru!Bytes(cache.entries)
    /\ cache.used <= Budget
    /\ \A i \in DOMAIN cache.entries :
          /\ cache.entries[i].content = Winner(running, cache.entries[i].key).content
          /\ \A j \in DOMAIN cache.entries : cache.entries[i].key = cache.entries[j].key => i = j

(***************************************************************************)
(* The results that a revision or the running app needs are there, unless  *)
(* somebody else took them: staging leaves none out, and collecting after  *)
(* a commit or a reset takes none away, although the running layers may be *)
(* of no revision any more (store.rs:617, store.rs:911).                   *)
(***************************************************************************)
ResultsPresent ==
    \A stack \in Stacks \cup {running} : \A c \in Needed(stack) : results[c] = "good" \/ c \in purged

(***************************************************************************)
(* Purged results come back: some day the app runs with all of them        *)
(* (lib.rs:207).                                                           *)
(***************************************************************************)
ResultsReturn == []<>(up /\ \A c \in Needed(running) : results[c] = "good")
================================================================================
