# tauri-plugin-tpk in TLA+

tauri-plugin-tpk updates the web content of an app over the air: signed packs
are downloaded, stored in a pool, stacked into revisions, tried at the next
launch, and committed when the frontend says it works or rolled back when it
does not. This directory holds TLA+ modules translated from the Rust source,
the TLC configurations that check them on small instances, and proofs that TLAPS
checks for every value of the constants. `PROJECT.json` maps every definition to
the lines it stands for.

## The system

| Part | State it keeps | Operations | Talks to |
|---|---|---|---|
| **store** (`tpk-store/src/store.rs`, `state.rs`) | `state.json`, the pool `layers/`, the layers the running resolver holds, three flags about writes that are owed or in doubt | `open`, `seed_if_absent`, `boot`, `commit_booting`, `stage_for_shell`, `reset`, `record_failure`, `record_last_error`, `observe_channel`, `gc` | called by the plugin under a mutex |
| **blacklist** (`blacklist.rs`) | a capped list of verdicts with strikes and a TTL | `record`, `condemn`, `prune`, `clear`, `blocks` | part of the store's transactions |
| **materialized deltas** (`materialize.rs`) | a cache directory the system may purge | `materialize_layer`, `materialize_stack_best_effort` | `stage`, a repair thread, `gc`, the resolver |
| **plugin setup** (`tauri-plugin-tpk/src/lib.rs`) | none | open, seed, boot, load layers, record failures, retain, repair thread, launch poll | store, resolver |
| **plugin commands** (`state.rs`, `commands.rs`) | an operation lock, the last checked plan | `check`, `download`, `notify_ready`, `reset`, `auto_update` | store, client |
| **asset serving** (`pack_assets.rs`, `tpk-resolve`) | a frozen index, a byte-budgeted cache, CSP hashes computed once | `get`, `iter`, `csp_hashes` | materialized deltas, embedded assets |
| **planner** (`tpk-client/src/plan.rs`) | none, a pure function | `plan` | channel manifest, blacklist, installed versions |
| **downloads** (`download.rs`) | part files and finished files in the cache root | `download_pack`, `finalize`, `prune_parts` | network, operation lock |
| **channels** (`tpk-client/src/lib.rs`, `source.rs`, `tpk-format/src/channel.rs`) | none (floors are in the store) | `fetch`, `verify_channel` | network, trust store |
| **format** (`tpk-format`), **delta**, **command line** (`tpk-cli`), **backup**, **frontend API** | none at run time | parsing, signing, packing | |

What is hard in it:

* an operation is several file writes, and the process can be killed or power
  lost between any two of them; a write can also fail after it became visible;
* `boot` writes the blacklist before the state, everything else the other way
  round, and two flags carry what is owed to the next operation;
* the collector deletes files while a resolver frozen at launch serves them and
  while memory and disk may disagree about what is referenced;
* counters (attempts, rollbacks, strikes), floors and verdicts must mean the
  same thing after any number of interrupted launches;
* revisions are composed by inheritance, so a stack is the outcome of several
  updates, verdicts and resets.

What makes each part correct: the store never names a pack it does not have,
never loses an acknowledgement, a floor or a verdict it reported, never offers
again what it rolled back, spares its fallback, and always gets out of a trial;
the blacklist judges a release once, however many builds it has; the planner
offers only what staging accepts; a download is what the channel signed, however
often it was cut; the overlay serves a path from the highest layer that has it.

## Plan

The order in which the modules were written, the most important behaviour first.
All of it is done; what could still be added is at the end.

1. `Verdicts`, `TpkRevisions`, `TpkStore`, `TpkStoreHistory`: the store with
   crashes and failing writes; `TpkStoreProofs`.
2. `Blacklist`: the list against the map.
3. `TpkLifecycle`, `TpkStoreRefines`: what the store promises of revisions, and
   that the store implements it.
4. `TpkPlan`, `TpkPlugin`: the planner, composed with the operation lock, the
   pending plan and an atomic store.
5. `TpkDownload`, `TpkChannel`, `TpkClient`: part files and ranges; manifest and
   signature as two requests; both under the operation lock, to the end that
   releases arrive. `TpkClientProofs`.
6. `TpkAuthor`, `ByteLru`, `TpkOverlay`: what `tpk pack` makes of a directory and
   what a device shows of it, with purges, the repair thread and the cache.
7. `TpkManifest`, `TpkContainer`, `TpkRelease`, `TpkCalendar`: what is built and
   advertised against what a device accepts and reads.
8. `TpkWords`, `TpkHtml`, `TpkScripts`, `TpkGate`: paths, notes, pages and
   scripts, mark by mark.
9. `TpkStoreProofs`, `TpkVerdictProofs`, `BlacklistProofs`: what callers were
   told, the fallback, what the blacklist takes out of a stack, downgrades, the
   refinement and the list, for every instance.
10. `TpkOverlayProofs`: what devices show, the cache and the results of deltas.
11. `TpkPluginProofs`: what the planner asks for, with stacks, floors and verdicts
    as the commands leave them.
12. `TpkReleaseProofs`: what is built is accepted, what is read is what was signed,
    and the calendar.

Not done: proofs about the texts of `TpkGate`; the CSP hashes; the shell range and
the rollout bucket in `TpkPlugin`.

## Modules

| Module | What it is |
|---|---|
| `Verdicts` | the blacklist as a map from releases to verdicts: strikes, permanent and transient reasons, TTL |
| `TpkRevisions` | the fields of `state.json`, how a revision is composed and checked, what boot, commit, reset and open make of a state: operators, shared by the two state machines |
| `TpkStore` | the store as setup and commands drive it, one file write per step |
| `TpkStoreHistory` | `TpkStore` with history variables, and the properties about what callers were told |
| `TpkLifecycle` | abstract: revisions without files, writes or crashes |
| `TpkStoreRefines` | the refinement mapping from `TpkStoreHistory` to `TpkLifecycle` |
| `TpkStoreProofs` | theorems about `TpkStore`: types, what the pool holds, and what callers were told: floors, acknowledgements, launches and rollbacks |
| `TpkVerdictProofs` | theorems about the blacklist and the fallback, what was rolled back and what is stacked, downgrades, and that the store implements the lifecycle |
| `Blacklist` | the capped list of entries, found by file or by release |
| `Selections` | what is left of a list when some places are taken out, as a recursive function |
| `SelectionProofs` | induction along lists, and what such a selection keeps |
| `BlacklistProofs` | theorems about `Blacklist` |
| `TpkPlan` | the planner: which packs of an offer to download |
| `TpkPlugin` | checks, downloads, resets and acknowledgements over the planner and an atomic store |
| `TpkPluginProofs` | theorems about `TpkPlan` and `TpkPlugin` |
| `TpkDownload` | one download: parts, ranges, finished files, and what the network and the system do to them |
| `TpkChannel` | one check: two requests, the signature, the floors; and a publisher who uploads two files |
| `TpkClient` | both under the operation lock, with fairness |
| `TpkClientProofs` | theorems about `TpkClient` |
| `TpkAuthor` | `tpk pack`: a directory and a chain of parents become a pack |
| `ByteLru` | the resolver's cache, as operators |
| `TpkOverlay` | stage, launch, repair, collect and serve what `TpkAuthor` builds |
| `TpkOverlayProofs` | theorems about `TpkOverlay` |
| `TpkManifest` | what a pack manifest must be |
| `TpkContainer` | writing, checking, verifying and reading a container, as operators |
| `TpkCalendar` | watermarks and timestamps of a channel |
| `TpkRelease` | the builder, `tpk channel`, and files that arrive damaged or put together otherwise |
| `TpkReleaseProofs` | theorems about `TpkRelease` and the calendar |
| `TpkWords`, `TpkHtml`, `TpkScripts` | paths and notes; the page gate; the script lint |
| `TpkGate` | texts put together mark by mark, beside a page the browser that reads it |
| `MC...` | instances for TLC; `MCTpkTools` runs `TpkGate` and `TpkRelease` side by side |

`TpkStore` extends `TpkRevisions` with files and crashes, `TpkPlugin` extends it
with the planner and the lock. The first takes from the planner only that it
offers what is newer than what is installed (`Offered`), which is the planner's
own rule (`Follows` in `TpkPlan`); the second takes store operations as atomic,
which the first justifies (`ImplementsLifecycle`). `TpkClient` takes from the
planner only that it asks for what is not staged, and from the store that staging
succeeds or fails as a whole. `TpkOverlay` takes from the store the three stacks,
and from the format that a file that was read is the one that was signed, which
`TpkRelease` checks (`ReadsAsSigned`).

### How `TpkStore` corresponds to the code

One process owns the store and holds its mutex during every operation, so
operations do not interleave with each other; they interleave with `Kill`,
`PowerLoss`, `WriteBack` (the kernel flushing directory entries) and `Tick`.

* `state`, `verdicts` are `Store.state` and `Store.blacklist` in memory;
  `statePending`, `verdictsPending`, `persisted` are `state_write_pending`,
  `blacklist_pending` and `state_persisted`; `runtime` is `runtime_layers`.
* `visible` is what reading `state.json` and `blacklist.json` gives now and
  `durable` what a loss of power would leave; `pool` and `durablePool` likewise
  for `layers/`.
* An operation is a `call`: `Begin` computes the candidate
  (`transaction_with_order`, up to the comparison), and `SaveCondemned`,
  `SaveState`, `SaveVerdicts`, `Publish`, `SaveTrailingVerdicts` are its writes
  in the code's order. `RetryVerdicts` is the blacklist write a transaction
  starts with when one is owed. `CollectGarbage` follows commit and reset.
* `write_via_temp` fails before the rename ("failed"), or after it ("unsynced":
  visible, perhaps lost with the power), or succeeds, which makes earlier
  renames of the directory durable too. A kill between rename and sync is
  "unsynced" and then `Kill`.
* A launch is `Open`, `SeedNotNeeded` or `SeedIfAbsent`, `Boot`, `LoadLayers`,
  `RecordFailure` for each failed layer. An error of `boot` leaves the plugin
  inert, which is `phase = "down"` as far as the store is concerned.
* `Stage(batch)` is the end of `download`: its packs were planned, which is the
  guard `Offered` (nothing is offered to a degraded device, and only what is
  newer than what is installed).

Left out of `TpkStore`: temporary files and their grace period, `install_id`,
revision numbers (a staged revision always counts as a change, because its
number is new), sizes and mtimes, shell ranges, materialized results (cache
files, rebuilt when missing). Strike counts saturate at the limit: nothing reads
more. Deletions of the collector are durable at once, the worst case for what
must still be there. A revision is a set of packs: the code keeps it sorted by
kind and version.

The constant `FlushedBeforeOpen` says whether renames of an earlier process have
reached the medium before a launch reads them. The code assumes it without
saying so (`Store::open` trusts what it reads). It is TRUE in the runs, and an
assumption of most theorems about the store. What goes wrong without it begins
the same way every time: a write that failed after its rename is read back by the
next launch, whose operation then changes nothing, writes nothing and returns Ok,
and a loss of power takes the rename back. So an acknowledgement answers for what
is not on the medium, a repeated report of a floor likewise
(`FloorsSurvive`), and the collection after such an acknowledgement takes packs
that the state on the medium still names (`ReadableStateResolves`,
`NeededLayersPresent`). `AckSurvives` counts such an acknowledgement only where
renames were flushed and every other one always: its theorem does not assume the
constant, and TLC finds nothing with FALSE either. Faults of writes are
bounded by `MaxFaults`.

`Blacklist` keeps the list: hash-or-release matching, order, cap. A layer the
store knows always carries its own release, so below the cap the list acts as the
map of `Verdicts` (property `ListActsAsMap`); at the cap it may push out the
oldest entry (`RecordingKeepsBlocks` says that nothing else unblocks).

### The refinement

`TpkStoreRefines` maps the lifecycle's revisions to `settled`, the last
`state.json` that a write reported durable or that a launch has read: what a
failed write left visible counts only once a launch has read it. A trial is a
revision in the booting slot with the pointer on it; a seed that commits while a
revision is on trial leaves the slot filled and the pointer away from it, which
is no trial. What is refused is the blacklist on the medium. A launch may decide
by a verdict, write a state that is in doubt, be killed, and be read at an `Open`
after the verdict has lapsed: that it was decided rightly shows only then. So the
lifecycle also knows what is `convicted`, which is what is refused and what would
be if its time had not run out.

### How `TpkPlan` and `TpkPlugin` correspond to the code

An offer is the set of a channel's packs that this device may take: the shell
range and the rollout bucket depend on the device and the release alone, and the
planner treats a pack outside them as it treats a blacklisted one, so an offer
leaves them out. `Selection` is one pass of `plan` for one id: ids do not
influence each other. The candidates are sorted by kind and version; `Turn` is a
pack's place in that order, and `Choices` goes through the places, at most one
pack of an id at each (a channel lists no version of an id twice). `Terminals` is
the highest version that patches lead to. A manifest that demands a newer shell has nothing to fetch
and is an offer of nothing to this device.

`operation` is the mutex of that name with what its holder does: a check, a
check that goes on to download (`auto_update`, or `download` with nothing
pending), or a download. `BeginCheck` is `check_locked` up to the request: it
reads installed versions and floors (`seen`). `PlanOffer` is the rest: it plans
with what was read then and with the blacklist as it is now. `AcknowledgeReady`
takes no operation lock and may come in between. `StagePending` consumes the
plan; `DownloadFails` keeps it. `ResetContent` drops it, unless the cleared
blacklist cannot be saved: the code then returns before the plan is dropped.
`StartApp` is open, boot and load, `RecordLayerFailure` each failed layer.
Packs are as `tpk pack` builds them (`PacksAsBuilt`): a patch names a parent of its
own id, older than itself, that is a base or another patch.

`InstalledIsLive` says that what the planner counts as installed is what the app
runs on and staging would inherit. It holds but while a trial runs without a layer
of the committed stack, which is what `found_plan` is about; `PlansStage`,
`PlanFindsAWay` and `PlanConverges` are stated where it holds, `PlansAlwaysStage`
everywhere.

Left out of `TpkPlugin`: seeds, watermarks and key epochs (they are in
`TpkStore`), crashes inside a store operation, a verdict whose write is owed
(taken as saved), the scratch files of a download.

### How the client's modules correspond to the code

A file is a sequence of blocks, and its hash is the file. `parts` and `tpks` are
the cache root. `job` is the download that runs: `BeginDownload` is
`prune_parts` and the first `resume_offset`; `Respond` is the request and the
choice between appending and truncating; `Receive`, `Overrun`, `EndOfBody` are
the loop over chunks; `Finalize` and `FinalizeFails` compare the hash, keep a
prefix and delete what is as long as the pack and wrong. `Return` is
`RemoveOnDrop`: however `download` ends, the finished files of the plan go. A
pack that was finished before a later one failed is therefore fetched again.

A server answers a range with the rest, with the whole file, with any other
interval, or not at all; bodies end early with or without a sign of it; what is at
the URL may change between two requests; the system may delete any file at any
time. A part that is deleted between the request for its rest and the answer is
started anew in the middle of the file, because its length was read before
(download.rs:163): such parts are in `torn`, and `PartsFit` says of them only that
they are not too long. The hash finds them out, and they are deleted.

`TpkChannel` is one check: floors, body, signature, verification. The publisher
replaces two files one after the other; requests may be answered by what some
cache still holds. A manifest and its signature stand for their bytes. `Mistakes`
are manifests that get to the URL without being this channel's, or signed with a
key that is not of the epoch they declare. Floors are per channel in the code;
the model follows one channel. Every fault is counted against `MaxFaults`.

### How `TpkAuthor`, `TpkOverlay` and `ByteLru` correspond to the code

A tree maps paths to contents. `Build` is `cmd_pack.rs`: a tombstone for what the
parents had, a delta where a patch exists and is worth it, the whole file
otherwise, unchanged files included. The chain of parents is read by `Read`, with
the limit of a single file and the budget that charges streams with their results
(the instance reaches neither; both only make the command refuse).

On the device a revision is a stack of pack numbers. `Winner` is the index,
`Get` the resolver, `Serve` `PackAssets::get`: a key's candidates in order, a
tombstone ends the search, a miss or a missing result goes on to the next, and
embedded assets come last. Results of deltas are a directory keyed by content:
`Stage` rebuilds strictly, `Repair` layer by layer and whatever fails, `Purge`
takes or damages one, `Commit` and `Reset` collect. A request is two steps, before
and after the lock of the cache is given up (`Request`, `Answer`), so that two
requests for one path may both miss. Ticks of the cache only order its entries:
they are a sequence.

When a layer does not load, what the layers above it bring is still right; files
that only the missing layer deleted show through. `ShowsWhatWasMeant` says so: a
path of the last layer's tree is answered with that tree's content, or, while its
result is missing, with the embedded file; a path that tree does not have is
certain only when the whole chain is there.

### How the format and the tools correspond to the code

Bytes are values: a blob is its codec and what it decodes to, a digest is the
bytes, a signature is a key and a document. `TpkContainer` follows a file through
`zip_structure.rs`, the zip crate (external: aliases, the last of equal names, an
earlier directory when the checked one is broken), `verify` and `read_blob`.
`TpkRelease` builds packs entry by entry, publishes channels, and hands a device
each built file as it is, with one thing changed, put together from two, or
re-signed. `TpkCalendar` is the arithmetic of `cmd_channel.rs` against a calendar
that counts days. Of the limits of `open`, the number of members and the length of
the manifest are checked in the model (`MaxEntries`, `MaxManifestBytes`); the
directory of so many blobs is half of `MAX_DIRECTORY_BYTES`, and signatures are
short. Comments of members, extra fields but the Unicode Path, and gaps between
members are left out.

`TpkGate` puts a text together from marks (characters and words that one of the
parsers tells apart) and holds each result against a reference: a path against the
walk it describes, a note against what a reader sees of it, a page against the
tokenizer of a browser, a script against what its statements load. Pages come in
two alphabets, one for scripts, comments and end tags and one for the other
elements with URLs of every kind; character references are in neither. The lint
of scripts says itself that a misjudged slash or a nested template puts its walk
out of step (`html_policy.rs:49`): the pieces of scripts have one of each, and
from there on `CodeIsJudged` asks nothing but that what came before stays judged.
Two checks
that mask each other (the digest of a blob and that of its content) are told apart
by mutants of one of them.

## Runs

Bounds are chosen per question. In the store's instances packs are `b1` (base,
version 1), `p2` (patch of `b1`), `b3` and `b4` (bases of versions 3 and 4, key
epoch 2), `d1` (another id); in the plugin's `b1` and `b4` are bases, `p2` and
`p3` patches of `b1`, `p5` a patch of `p3`.

| Run | Checks | Instance and why it is enough |
|---|---|---|
| `store_files` | `TypeOK`, `ReadableStateResolves`, `FloorsSurvive`, `BarredNeverLoads`, `NoDowngrade` | a seed and two bases of the next key epoch, one of which may fail to load; two attempts, one failing write, resets: releases are tried, outdated, barred, collected, offered again and overtaken by one another. 2.1 million states |
| `store_crash` | `NeededLayersPresent`, `AckSurvives`, `RolledBackNeverLoads`, `TrialBudget`, `UpdatingStops`, `StacksClosed`, `RollbackSparesCommitted`, `ImplementsLifecycle` | a seed that may be barred and its patch, two attempts, one rollback, one failing write, and a clock that passes the TTL: packs are shared, kept, rolled back and offered again when their verdict has run out. 1.0 million states |
| `store_ends` | `TrialEnds` under fairness | a seed and a patch of it that may fail to load and is offered again, three attempts, one failing write, error codes |
| `blacklist` | `OneEntryPerFile`, `ListActsAsMap`, `RecordingKeepsBlocks` | two builds of one release and two other releases in a list of two, a clock set both ways past the TTL |
| `plugin` | `PlansStage`, `PlanFindsAWay`, `PlanConverges`, `PendingIsGood` | nine offers with a branch that ends early, a chain of two patches and bases below and above it; two launches, two roll-backs, a base and a patch that may be barred, roll-back verdicts that expire |
| `client` | `ClientTypeOK`, `PartsFit`, `FinishedIsAdvertised`, `NeverLockedOut`, `PendingIsPublished`, `StagingEmptiesTheCache`, `UpdatesArrive` | a pack of two blocks whose URL may hold a file of its size, a shorter and a longer one, and a small pack; two manifests around a key rotation, two mistakes; three faults of any kind. Two blocks make a prefix, a rest and an overrun possible; the safety properties are proved for every length |
| `overlay` | `ServesAsMeant`, `CacheIsRight`, `ResultsPresent`, `ResultsReturn` | three packs in any chain, a script with two contents that are deltas of each other, a page and a route for either; a cache that holds one of them, two requests at a time, two faults |
| `tools` | `BuiltPacksOpen`, `ReadsAsSigned`, `NothingUnaccountedFor`, `PublishedWhenItWas`, `PagesStayInThePack`, `PathsAreNames`, `NotesAreWhatIsSeen`, `CodeIsJudged` | packs of two paths, five kinds of drafts, a limit of the manifest that two deltas exceed, every damage the two readers could see differently, the turns of four years; all paths, notes and pages of up to five or six marks and scripts of three statements, which is where a quote, a comment or a tag can hide another |
| `found_plan` | violates `PlansAlwaysStage` | `b4` may be barred while it is on trial |
| `found_stack` | violates `PatchesNeverAlone` | `b1` may be barred, and `d1` comes after it |
| `found_floor` | violates `FloorBindsChannels` | `b4` may be barred while it is on trial, and `b3` is staged meanwhile; no write fails |
| `found_pack` | violates `BuiltPatchesRead` | a file of two MiB with a small change |

All properties of the two store runs, of `blacklist` and of `plugin`, the safety
properties of `client` and `overlay`, and the first four of `tools` are proved for
every instance too. Between them the runs
take every action. Deadlock is checked everywhere but in
`tools`, whose texts are bounded: the last mark is the end.

`MaxFaults` bounds what goes wrong, `MaxClock`, `MaxWatermark`, `MaxEpoch` what
counts up, `MaxPacks`, `MaxShelf`, `MaxListed`, `MaxLen`, `MaxReading` what piles
up. `Fraction` is 1 in the instance and 4 in the code: a content may fill the
cache, which makes eviction and refusal happen with three sizes.

### What the findings say

* `found_plan`: while the base that a trial brought is blocked, the planner counts
  the committed base as installed and staging does not inherit it; the patch it
  asks for is refused at every check of that launch.
* `found_stack`: staging leaves a blocked base out of what it inherits and keeps
  the patch on it; `spec/tpk-v1.md:341` says a patch without its parent is not
  applied on its own. `StacksClosed` says how far it goes: only the blacklist
  parts a patch from its base, never a replacement, a rollback or a crash.
* `found_floor`: `stage_for_shell` compares what a channel brings with the floors
  (store.rs:455), and nothing compares again. Let version 4 be on trial and fail
  to load; it is barred, and the app runs on the fallback. Version 3 is staged
  while the floor is 1. The fallback acknowledges: that commits version 4 and
  raises the floor to it. The next launch tries version 3 and its acknowledgement
  commits it, below the floor. `spec/json-schema/store-state.schema.json:43` says
  of exactly this case, a blacklisted layer that left the stack, that an older
  pack of the id must still be refused, and so does `spec/tpk-v1.md:997`.
  `NoDowngrade` says how far it goes: only when what stands above was convicted.
* `found_pack`: the limit on a decoded patch stream is 64 times its compressed
  size and 1 MiB. For a large file with a small change a stream is nearly all
  zeros and compresses further than that: `tpk pack` writes a patch that no
  device, and no `tpk pack --parent`, reads.

### Remarks on the code

Two more disagreements of the code with its own words have no run of their own;
the properties that they bear on are stated without them.

* `commit_booting` promises that the state is flushed before it returns
  (store.rs:359, and `spec/tpk-v1.md:753`). Where it finds nothing on trial it
  writes nothing, and what it found may be a rename that an earlier process did
  not live to sync: it returns Ok, and a loss of power puts the revision back on
  trial, or, after its collection, leaves a state that names packs that are gone.
  `AckSurvives` says how far the promise goes (see `FlushedBeforeOpen` above).
* `PackBuilder::build` re-parses its manifest so that no pack is built that the
  runtime would reject (pack.rs:245, 290), but measures neither the manifest nor
  the number of members; `open` reads at most 4 MiB of a manifest (container.rs:32),
  some twelve thousand entries, and 65536 members (container.rs:28). A larger pack
  is built and signed and opens on no device. `BuiltPacksOpen` is stated for what
  fits (`Fits`), and the instance of `tools` builds packs that do not.

The rest is not checked as a property, because the code does not promise it.

* A layer on trial that fails to load raises the version floor at the next open
  (store.rs:165), against the comment at store.rs:147.
* A seed that succeeds while a revision is on trial commits the layers on trial
  (store.rs:265), although promotion is meant for acknowledged ones (:788).
* A revision gets two launches: the third rolls back at its start (store.rs:292).
  `spec/tpk-v1.md` says two, `store.rs:21` and `docs/architecture.md:95` three.
* `NoDowngrade` is about what a trial brings and leaves out two cases. One is the
  finding above. In the other a bundled pack is seeded late, because the first
  seeding failed, and raises the floor above an older release that was staged
  before it. And an inherited base may stay below its floor when the blacklist
  took the patch above it; the comment at store.rs:449 names only seeds.
* An acknowledgement by the embedded fallback commits layers that did not load
  (store.rs:374). `found_floor` starts with one.
* `PendingIsGood` says itself where it stops: a block that runs out between
  reading and planning changes what is installed under the plan, and an
  acknowledgement of a revision with a layer that did not load raises the floor
  over what was planned without it. The download then fails, and the next check
  plans anew.
* Two ways to a plan that is never staged are outside `TpkPlugin`: a patch
  published for a pack of kind dlc (staging sorts it below its parent; `tpk pack`
  builds none, and the channel's rules do not forbid it), and a patch on a base
  whose key epoch fell below the floor after it was installed.
* A build of an installed release that was signed anew counts as installed
  (state.rs:538).
* Notes that were cut at the limit are not a fixed point: normalising them again
  may drop the half tag at their end.

## Fairness

* `TrialEnds`: the app is closed and started again for ever (`WF(Kill)`), the
  kernel flushes directory entries (`WF(WriteBack)`), and a launch that is
  interrupted again and again is completed some day (`SF` on the steps of a
  launch: a step is disabled by each kill, so weak fairness would say nothing).
  Nothing is assumed of acknowledgements, downloads or resets, which are the
  user's and the channel's.
* `UpdatesArrive`: the app checks and updates again and again (`SF` of the check
  with `update`, which other commands keep out while they hold the lock), what
  holds the lock goes on (`WF`), and the publisher finishes its uploads (`WF`).
  Nothing is assumed of stale answers, crashes or purges, which are bounded.
* `ResultsReturn`: the app is closed and launched (`WF`), and is not closed for
  ever before the repair thread got to its next layer (`SF` per layer, since each
  close disables it). The thread is started at every launch that loads a layer
  (lib.rs:207).

Failing writes and faults are bounded, so things do not fail for ever: without
that no trial could end and no release could arrive.

## What is proved

For every set of packs, batch, bound and interleaving. All theorems rest on the
named assumptions of the modules, which TLC evaluates in the runs.

**`TpkStoreProofs`**

* `TypeCorrect`: `Spec => []TypeOK`.
* `PoolAccountedAlways`: `Spec => []PoolAccounted`, the inductive invariant.
* `ReadableStateAlwaysResolves`, `NeededLayersAlwaysPresent`: its consequences.

`ReadableStateResolves` alone is not inductive: nothing in it says why the
collector's deletions are harmless, nor that a candidate about to be written is
backed by files. `PoolAccounted` adds three facts. First, everything the store may
still write, publish or serve (the state in memory, the candidate of the operation
in progress, the running layers) is durable in the pool: packs are stored and
synced before a revision names them. Second, past its state write a call that can
still fail carries the state that is in memory. Third, when no state write is in
doubt, whatever the visible and the durable `state.json` name is named by the
state in memory, or by the candidate once it is written; so what the collector
keeps covers what any launch may read. While a write is in doubt the collector
does nothing.

And about what callers were told:

* `FloorsAlwaysSurvive`: `HistorySpec => []FloorsSurvive`.
* `AckAlwaysSurvives`: `HistorySpec => []AckSurvives`.
* `TrialBudgetKept`, `UpdatingAlwaysStops`: `HistorySpec => []TrialBudget`,
  `HistorySpec => []UpdatingStops`.

`FloorsInv` says that what was promised is at most what memory, the candidate and
both sides of the disk hold. An acknowledgement that changes nothing writes
nothing and still promises: so every state settles (its floor has taken in what it
commits), and once no write is in doubt the disk owes nothing to the state the
call will report.

The other three, and all that follows about the store, stand on one description
of the disk. `SyncInv`: when no state write is in doubt, both sides of the disk
show what the call in progress has settled. `CandidateInv`: how what a call is
about to write differs from what is in memory. `PhaseInv`: which calls can be under
way in which phase of a launch. With them every step is of one of a few kinds, and
the kinds are what the later proofs split on. `AckInv` adds to `AckSurvives` that
memory, too, commits something acknowledged, so no seed has reason to replace it;
that a call which changed the state and returns has it on both sides of the disk
(`Written`) is why it needs no assumption about what reached the medium.
`TrialInv` says that every state a launch may read or a call may write has counted
what launches did: as many attempts as served its trial, and one rollback for every
trial before it, but for one that a seed may have put aside (`CountInv`); and that
what is staged is not on trial, a trial has an attempt left, and nothing is staged
once updating has stopped (`SaneInv`).

**`TpkVerdictProofs`**

* `RollbackAlwaysSparesCommitted`: `Spec => RollbackSparesCommitted`.
* `BarredAlwaysStaysOut`: `HistorySpec => []BarredNeverLoads`.

The first rests on `SparesInv`: while boot's call is under way, what its candidate
condemns is not among the layers of the committed revision. The second rests on
`BarredInv`: barring verdicts are in both files and in memory, and in whatever a
call will write in their place, a reset that clears the blacklist excepted
(`CallShape`, `BarredHeld`); what the resolver serves is apart from them and from
the failures still to be recorded (`Apart`); and before the app runs, or while
failures are still being recorded, the files hold every verdict that memory has
(`FilesHold`), which is why recording what was recorded already may write nothing.
Both assume `OneBuildEach`: no release was published as two different packs. The
blacklist judges releases, so with two builds of one release in one history, one
in the trial and one in the fallback, the fallback would be condemned with it.

Two more theorems of this module do without that assumption:

* `RolledBackStaysOut`: `HistorySpec => []RolledBackNeverLoads`.
* `StacksAlwaysClosed`: `Spec => []StacksClosed`.

A verdict must not be forgotten while a state that rests on it can still be read.
`RulingInv` is the shape of calls: which of them change the blacklist, that a boot
convicts all it must before it writes the state, that both sides of the disk hold
the blacklist in memory until the app runs, and that a blacklist can only be owed
when no revision is left that rested on the one before. `JudgedInv`: but for a
reset no call drops a conviction. `RolledInv`: what a rollback condemned stands
convicted in every blacklist that is held anywhere, and is not served. `StackInv`:
in every state a launch may read, with every blacklist it may read, a patch has
its parent beside it or the parent is convicted. Within one TTL, that is: verdicts
that have run out are pruned. Two builds of one release do no harm here.

And about revisions, in the same module:

* `NothingIsDowngraded`: `HistorySpec => NoDowngrade`.

The floor is compared once, when a revision is staged, and may rise afterwards.
`DueInv` says why that is enough but for the two cases above: every pending
revision meets the floor of each id it brings something to, or what raised the
floor was bundled or is convicted; and a staged one is no step back from the stack
it would replace, which is what an acknowledgement raises the floor to. The second
part is needed for the first to be inductive. `SureInv`: a state that points at a
trial has one, and neither a seed nor an acknowledgement leaves one behind.

* `StoreImplementsLifecycle`: `HistorySpec => ImplementsLifecycle`.

`RefInv`: memory shows what the settled state shows, and whatever a launch may
read, with whatever blacklist, is the settled state or one whole move of the
lifecycle on from it. A call makes its candidate such a move (`CandidateMoves`); a
write that is reported, or an `Open`, takes it.

**`BlacklistProofs`**

* `FilesAreJudgedOnce`: `ListSpec => []OneEntryPerFile`.
* `ListAlwaysActsAsMap`: `ListSpec => ListActsAsMap`.
* `RecordingAlwaysKeepsBlocks`: `ListSpec => RecordingKeepsBlocks`.

`ListInv`: an entry carries the release of its file, no two entries are about one
release, and the cap holds. The work is in what `retain` leaves of a list: the
entries that were meant, all of them, once and in their order. `Selections`
computes it by a recursive function, and the lemmas about it, in
`SelectionProofs`, go by a least counterexample (`SmallestExists`, `UpTo`).

All theorems about the store but `TypeCorrect`, `AckAlwaysSurvives` and
`RollbackAlwaysSparesCommitted` assume `FlushedBeforeOpen`; only `RollbackAlwaysSparesCommitted` and
`BarredAlwaysStaysOut` assume `OneBuildEach`.

**`TpkClientProofs`**

* `ClientInvariant`: `ClientSpec => []ClientInv`, the inductive invariant.
* `TypesCorrect`, `PartsAlwaysFit`, `FinishedIsAlwaysAdvertised`,
  `NobodyIsLockedOut`, `PendingIsAlwaysPublished`: its consequences.
* `StagingAlwaysEmptiesTheCache`: the action property.

`ClientInv` has a part for the channel (what both URLs and the running check hold
is published or a mistake, and nothing published is above the newest), one for the
download (a request asks for the end of its part, a body belongs where the part
ends, and nothing is in the cache that the plan does not ask for), and `LockInv`:
a check and a download never run together. Without the last a check could replace
the plan under a download, and none of the rest would be inductive.

**`TpkOverlayProofs`**

* `DevicesServeAsMeant`: `OverlaySpec => []ServesAsMeant`.
* `CacheStaysRight`: `OverlaySpec => []CacheIsRight`.
* `ResultsArePresent`: `OverlaySpec => []ResultsPresent`.

All three follow from `OverlayInv`. `PublishedOK` says what packs are: each lists
what its directory or its parent's has, with the content of the directory or a
tombstone. `ReadingOK` and `CacheFits` are what `CacheIsRight` lacks: a request
that has given up the lock is for a file of the running stack, so what it inserts
later is what the index names. `StacksOK` puts the committed, the staged, the
active and the running stack on one footing, because commits and resets turn one
into another; `RepairOK` and `DownIsEmpty` say where the repair thread is, and that a
closed app leaves no cache behind. The proofs about the cache take its list apart
and add its bytes up again (`BytesSplit`, `BytesRemoved`); what eviction leaves fits.

`ServesAsMeant` is a consequence. A chain of packs shows the tree of its last
(`ChainsShow`): its files are at the top or inherited from below, and what the
author's directory dropped has a tombstone above whatever still has it
(`PatchShows`). Of a chain with layers missing, the last still speaks for its own
tree (`LastWins`), since a pack lists every file of its tree, changed or not.

The recursive functions of the overlay (bytes of a list, the results a stack leaves,
the chains up to a pack, the reading of parents) are defined along the places of a
list. That they have the values their definitions say is proved for each
(`TotalsDefined` and so on), by building the function up place by place.

**`TpkPluginProofs`**

* `PlansAlwaysStageLive`: `PluginSpec => []PlansStage`.
* `PlansAlwaysFindAWay`: `PluginSpec => []PlanFindsAWay`.
* `PlansAlwaysConverge`: `PluginSpec => []PlanConverges`.
* `PendingAlwaysGood`: `PluginSpec => PendingIsGood`.

All four assume `OneBuildEach`, and `PacksAsBuilt`. The first half is about the
planner alone. `EndsDefined` solves the recursion of `Terminals` from the highest
version downwards, `ChoicesDefined` that of `Choices` turn by turn. `ChosenIs` says
what is chosen for an id: packs newer than what is installed, in order, each patch
on what was chosen before it, the last at or above the floor. `NothingLeft` says
that no eligible pack follows the last one, because its turn would have come after
it; and `FloorReached` that a choice from which the floor can be reached reaches it,
since at each turn some patch leads on. Together they make `PlanConverges`.
`PlanFindsAWay` takes any packs that could be staged: of the id they advance,
either a base or dlc among them reaches the floor or their lowest patch does and
sits on what is installed (`WayIs`); the planner then has that one, or a newer base,
and is not left with nothing.

The second half is the stacks. A plan can only be staged when each of its patches
finds its parent right below it, and neither the planner nor the store keeps
stacks in order by itself: that is `PluginInv`. `Sound` says that in every slot of
the state what lies on a base or a patch of its id is a patch, and that nothing
lies on a dlc; staging a plan keeps it (`StagingKeepsOrder`). `SeenInv` covers the gap between reading and
planning: what a check has read covers the layers without a verdict, and its floors
are those of now, but for what `notify_ready` committed since. `PendingInv`: a plan
that waits is in order, and newer than the layers without a verdict.

**`TpkReleaseProofs`**

* `BuiltPacksAlwaysOpen`: `ReleaseSpec => []BuiltPacksOpen`, which is about the packs
  whose members and manifest are within what `open` reads.
* `AlwaysReadsAsSigned`: `ReleaseSpec => []ReadsAsSigned`.
* `AlwaysAccountedFor`: `ReleaseSpec => []NothingUnaccountedFor`.
* `AlwaysPublishedWhenItWas`: `ReleaseSpec => []PublishedWhenItWas`.

`ShelfInv` says that every file on the shelf is the container of a valid manifest
whose entries the builder made. `BuiltIsAccepted`: its members have different names
(an entry's blob is named after its bytes, which the manifest's own check
compares), and each blob is found under its name. `ReadsAsSigned` needs no history: `Valid` and the
comparisons of `read_blob` leave nothing else, for any file at all. `ArchiveIs` says
that a directory that passed the check gives each name to one member, so the crate
reads what was checked. What is assumed of names is in `ReleaseAssumption`.

The calendar is proved for every day from 1970 on. `Civil` counts in eras of 400
years that begin in March; the comparison counts leap years and adds up months.
`YearIs` and `MonthIs` bound the divisions of `Civil`, `LeapsCounted` and
`MonthStartsAre` solve the sums, year by year and month by month, and `CivilIs` puts
them together; `DigitsAre` takes a watermark apart again.

**Only model-checked**: the liveness properties `TrialEnds`, `UpdatesArrive` and
`ResultsReturn` (fairness and `ENABLED` are beyond the prover), and the properties of
`TpkGate`: `PagesStayInThePack`, `PathsAreNames`, `NotesAreWhatIsSeen` and
`CodeIsJudged`. These compare what two folds over a text of any length make of it.
What a fold computes for all inputs needs induction over data, and the library's
theorems for it cannot be instantiated here. For the recursive functions along
lists, versions and turns it was done by hand; the parsers have a state per mark
and no such short description. The findings are what TLC shows on an instance.

## Not modelled

* Cryptography, the zip crate, the patch library and the file system are oracles.
* Plugin configuration, backup exclusion, the TypeScript wrappers: no state of
  their own. Key files and passphrases, `tpk verify` and `tpk inspect` output:
  input and output only.
* `pack_assets.rs` `iter`, `csp_hashes` and the rewriting of responses, and
  `csp.rs`. Script hashes are computed once at launch: a result that the repair
  thread brings later is served and its script is not in the list
  (resolve.rs:330). The code accepts that, and there is no further state in it.
* A layer that turns out corrupt while it serves; the hour of grace for temporary
  files; time limits of requests (a timeout is a failing request); the shell range
  and the rollout bucket (settled by the offer); `status` and the events.
* `tpk channel` with a watermark given by hand; event handler attributes and raw
  text elements of a page, which `check_html` does not look at either; in scripts,
  escapes, and what a walk that is out of step makes of the rest.
