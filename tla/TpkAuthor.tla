------------------------------- MODULE TpkAuthor -------------------------------
(***************************************************************************)
(* crates/tpk-cli/src/cmd_pack.rs with the builder of tpk-format: how a    *)
(* directory becomes a base or a patch on a chain of parents.  A tree maps *)
(* every path to its content or NoFile; contents are equal when their      *)
(* hashes are.                                                             *)
(***************************************************************************)
EXTENDS Integers, SequencesExt

CONSTANTS
    PathOrder,       \* the paths of the packs, in their order
    Contents,        \* what files hold
    NoFile,          \* no such file
    Size,            \* the length of each content
    Threshold,       \* smaller files are never deltified
    Patchable,       \* the pairs <<old, new>> with a patch worth shipping
    MaxDeltas,       \* MAX_DELTA_ENTRIES
    MaxDeltaBytes,   \* MAX_DELTA_OUTPUT_BYTES
    MaxAssetBytes,   \* MAX_PARENT_ASSET_BYTES
    MaxChainBytes    \* MAX_PARENT_CHAIN_BYTES

Paths == Range(PathOrder)

ASSUME AuthorAssumption ==
    /\ NoFile \notin Contents
    /\ Size \in [Contents -> Nat]
    /\ Patchable \subseteq Contents \X Contents
    /\ IsInjective(PathOrder)
    /\ {Threshold, MaxDeltas, MaxDeltaBytes, MaxAssetBytes, MaxChainBytes} \subseteq Nat

Trees == [Paths -> Contents \cup {NoFile}]
NoTree == [p \in Paths |-> NoFile]

Full(content) == [op |-> "full", content |-> content]
Delta(base, content) == [op |-> "delta", base |-> base, content |-> content]
Tombstone == [op |-> "delete"]

Deltas(entries) == {p \in DOMAIN entries : entries[p].op = "delta"}
Results(entries) == {entries[p].content : p \in Deltas(entries)}

-----------------------------------------------------------------------------
(***************************************************************************)
(* A pack is known by its number, its version_code and the hash of its     *)
(* manifest in one.  "tree" is what the publisher packed.                  *)
(***************************************************************************)
\* Mutant: whatever the packs are linked to.
LinkedLoosely(chain) == chain # <<>> => chain[1].kind = "base"

\* A base, and a patch on each pack before it.
Linked(chain) ==
    /\ chain # <<>> => chain[1].kind = "base"
    /\ \A i \in 2 .. Len(chain) : chain[i].kind = "patch" /\ chain[i].parent = chain[i - 1].number

\* What a pack makes of the tree below it.
Applied(entries, tree) ==
    [p \in Paths |-> IF p \notin DOMAIN entries THEN tree[p]
                     ELSE IF entries[p].op = "delete" THEN NoFile ELSE entries[p].content]

BasesMatch(entries, tree) == \A p \in Deltas(entries) : tree[p] = entries[p].base

\* validate_size_limit; what is shipped is no longer than what it makes.
AssetsFit(entries) ==
    \A p \in DOMAIN entries : entries[p].op # "delete" => Size[entries[p].content] <= MaxAssetBytes

\* Streams are charged with the results they rebuild.
Cost(entries) ==
    FoldLeft(LAMBDA sum, p : sum + (IF p \notin DOMAIN entries \/ entries[p].op = "delete" THEN 0
                                    ELSE IF entries[p].op = "full" THEN Size[entries[p].content]
                                    ELSE 2 * Size[entries[p].content]),
             0, PathOrder)

\* The chain read from its base on, as far as each of its packs; "ok" fails
\* at a file that is too long, a delta without its base and beyond the budget.
Reading(chain) ==
    LET R[n \in 0 .. Len(chain)] ==
            IF n = 0 THEN [ok |-> TRUE, tree |-> NoTree, spent |-> 0]
            ELSE LET below   == R[n - 1]
                     entries == chain[n].entries
                     spent   == below.spent + Cost(entries)
                 IN  [ok    |-> below.ok /\ AssetsFit(entries) /\ BasesMatch(entries, below.tree)
                                         /\ spent <= MaxChainBytes,
                      tree  |-> Applied(entries, below.tree),
                      spent |-> spent]
    IN  R

Read(chain) == Reading(chain)[Len(chain)]

ParentsLoad(chain) == Linked(chain) /\ Read(chain).ok

-----------------------------------------------------------------------------
IsCandidate(old, new) == NoFile \notin {old, new} /\ old # new /\ Size[new] >= Threshold

\* The paths shipped as deltas, in order, while there is room for them.
DeltaPaths(tree, below) ==
    FoldLeft(LAMBDA chosen, p :
                IF /\ IsCandidate(below[p], tree[p])
                   /\ <<below[p], tree[p]>> \in Patchable
                   /\ Cardinality(chosen.paths) < MaxDeltas
                   /\ chosen.bytes + Size[tree[p]] <= MaxDeltaBytes
                THEN [paths |-> chosen.paths \cup {p}, bytes |-> chosen.bytes + Size[tree[p]]]
                ELSE chosen,
             [paths |-> {}, bytes |-> 0], PathOrder).paths

\* Every file of the tree, and a tombstone for what the parents had besides.
Entries(tree, below) ==
    [p \in {q \in Paths : tree[q] # NoFile \/ below[q] # NoFile} |->
        IF tree[p] = NoFile THEN Tombstone
        ELSE IF p \in DeltaPaths(tree, below) THEN Delta(below[p], tree[p]) ELSE Full(tree[p])]

\* PackManifest::validate, for what the command can build.
Valid(pack) ==
    /\ pack.kind = "base" <=> pack.parent = 0
    /\ pack.parent < pack.number
    /\ DOMAIN pack.entries # {}
    /\ Deltas(pack.entries) # {} => pack.kind = "patch"

\* The pack of a tree, given as a kind, on the chain of its parents.
Build(kind, number, tree, chain) ==
    [kind    |-> kind,
     number  |-> number,
     parent  |-> IF chain = <<>> THEN 0 ELSE Last(chain).number,
     entries |-> Entries(tree, Read(chain).tree),
     tree    |-> tree]

\* "tpk pack" ends well.
Packs(kind, number, tree, chain) ==
    /\ tree # NoTree
    /\ chain # <<>> => kind = "patch"
    /\ ParentsLoad(chain)
    /\ Valid(Build(kind, number, tree, chain))
================================================================================
