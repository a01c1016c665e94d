-------------------------- MODULE TpkOverlayProofs --------------------------
(***************************************************************************)
(* Proofs about what a device shows of the packs a publisher builds, for   *)
(* every set of paths, trees, routes and bounds: chains of patches compose *)
(* to the tree that was packed, the cache counts what it holds, and no     *)
(* result of a delta is missing but what somebody took.                    *)
(***************************************************************************)
EXTENDS TpkOverlay, SelectionProofs

-----------------------------------------------------------------------------
(***************************************************************************)
(* The recursive functions have the values their definitions say.  Each is *)
(* built up to n + 1 from what it is up to n.                              *)
(***************************************************************************)
IsTotals(T, entries, top) ==
    T = [n \in 0 .. top |-> IF n = 0 THEN 0 ELSE T[n - 1] + Size[entries[n].content]]

LEMMA TotalsDefined ==
    ASSUME NEW entries, Len(entries) \in Nat
    PROVE  IsTotals(Lru!Totals(entries), entries, Len(entries))
<1>. DEFINE S == {n \in Nat : \E T : IsTotals(T, entries, n)}
<1>1. 0 \in S
    <2>1. IsTotals([n \in 0 .. 0 |-> 0], entries, 0)
        BY DEF IsTotals
    <2>. QED  BY <2>1
<1>2. ASSUME NEW n \in Nat, n \in S PROVE n + 1 \in S
    <2>1. PICK T : IsTotals(T, entries, n)
        BY <1>2
    <2>. DEFINE U == [m \in 0 .. n + 1 |->
                        IF m = n + 1 THEN T[n] + Size[entries[n + 1].content] ELSE T[m]]
    <2>2. ASSUME NEW m \in 0 .. n + 1
          PROVE  U[m] = IF m = 0 THEN 0 ELSE U[m - 1] + Size[entries[m].content]
        <3>1. CASE m = n + 1
            BY <3>1
        <3>2. CASE m # n + 1
            <4>1. m \in 0 .. n /\ U[m] = T[m] /\ (m # 0 => U[m - 1] = T[m - 1])
                BY <3>2
            <4>. HIDE DEF U
            <4>. QED  BY <2>1, <4>1 DEF IsTotals
        <3>. QED  BY <3>1, <3>2
    <2>3. U = [m \in 0 .. n + 1 |-> U[m]]
        OBVIOUS
    <2>. HIDE DEF U
    <2>4. IsTotals(U, entries, n + 1)
        BY <2>2, <2>3 DEF IsTotals
    <2>. QED  BY <2>4
<1>3. Len(entries) \in S
    <2>1. Len(entries) \in 0 .. Len(entries) /\ 0 .. Len(entries) \subseteq Nat
        OBVIOUS
    <2>. HIDE DEF S
    <2>. QED  BY <1>1, <1>2, <2>1, UpTo
<1>4. \E T : IsTotals(T, entries, Len(entries))
    BY <1>3
<1>. QED  BY <1>4 DEF Lru!Totals, IsTotals

\* What a pack makes of a chain that was read so far.
ReadOn(read, entries) ==
    [ok    |-> read.ok /\ AssetsFit(entries) /\ BasesMatch(entries, read.tree)
                       /\ read.spent + Cost(entries) <= MaxChainBytes,
     tree  |-> Applied(entries, read.tree),
     spent |-> read.spent + Cost(entries)]

NothingRead == [ok |-> TRUE, tree |-> NoTree, spent |-> 0]

IsReading(R, chain, top) ==
    R = [n \in 0 .. top |-> IF n = 0 THEN NothingRead ELSE ReadOn(R[n - 1], chain[n].entries)]

LEMMA ReadingDefined ==
    ASSUME NEW chain, Len(chain) \in Nat
    PROVE  IsReading(Reading(chain), chain, Len(chain))
<1>. DEFINE S == {n \in Nat : \E R : IsReading(R, chain, n)}
<1>1. 0 \in S
    <2>1. IsReading([n \in 0 .. 0 |-> NothingRead], chain, 0)
        BY DEF IsReading
    <2>. QED  BY <2>1
<1>2. ASSUME NEW n \in Nat, n \in S PROVE n + 1 \in S
    <2>1. PICK R : IsReading(R, chain, n)
        BY <1>2
    <2>. DEFINE Q == [m \in 0 .. n + 1 |->
                        IF m = n + 1 THEN ReadOn(R[n], chain[n + 1].entries) ELSE R[m]]
    <2>2. ASSUME NEW m \in 0 .. n + 1
          PROVE  Q[m] = IF m = 0 THEN NothingRead ELSE ReadOn(Q[m - 1], chain[m].entries)
        <3>1. CASE m = n + 1
            BY <3>1
        <3>2. CASE m # n + 1
            <4>1. m \in 0 .. n /\ Q[m] = R[m] /\ (m # 0 => Q[m - 1] = R[m - 1])
                BY <3>2
            <4>. HIDE DEF Q
            <4>. QED  BY <2>1, <4>1 DEF IsReading
        <3>. QED  BY <3>1, <3>2
    <2>3. Q = [m \in 0 .. n + 1 |-> Q[m]]
        OBVIOUS
    <2>. HIDE DEF Q
    <2>4. IsReading(Q, chain, n + 1)
        BY <2>2, <2>3 DEF IsReading
    <2>. QED  BY <2>4
<1>3. Len(chain) \in S
    <2>1. Len(chain) \in 0 .. Len(chain) /\ 0 .. Len(chain) \subseteq Nat
        OBVIOUS
    <2>. HIDE DEF S
    <2>. QED  BY <1>1, <1>2, <2>1, UpTo
<1>4. \E R : IsReading(R, chain, Len(chain))
    BY <1>3
<1>. QED  BY <1>4 DEF Reading, IsReading, ReadOn, NothingRead

\* What a layer makes of the results that were rebuilt so far.
RebuildOn(state, stack, i) ==
    IF state.ok THEN [ok  |-> LayerSucceeds(state.dir, stack, i),
                      dir |-> Materialized(state.dir, stack, i)]
    ELSE state

IsRebuilding(R, stack, dir, top) ==
    R = [i \in 0 .. top |-> IF i = 0 THEN [ok |-> TRUE, dir |-> dir] ELSE RebuildOn(R[i - 1], stack, i)]

LEMMA RebuildingDefined ==
    ASSUME NEW stack, Len(stack) \in Nat, NEW dir
    PROVE  IsRebuilding(Rebuilding(stack, dir), stack, dir, Len(stack))
<1>. DEFINE S == {n \in Nat : \E R : IsRebuilding(R, stack, dir, n)}
            start == [ok |-> TRUE, dir |-> dir]
<1>1. 0 \in S
    <2>1. IsRebuilding([n \in 0 .. 0 |-> start], stack, dir, 0)
        BY DEF IsRebuilding
    <2>. QED  BY <2>1
<1>2. ASSUME NEW n \in Nat, n \in S PROVE n + 1 \in S
    <2>1. PICK R : IsRebuilding(R, stack, dir, n)
        BY <1>2
    <2>. DEFINE Q == [m \in 0 .. n + 1 |->
                        IF m = n + 1 THEN RebuildOn(R[n], stack, n + 1) ELSE R[m]]
    <2>2. ASSUME NEW m \in 0 .. n + 1
          PROVE  Q[m] = IF m = 0 THEN start ELSE RebuildOn(Q[m - 1], stack, m)
        <3>1. CASE m = n + 1
            BY <3>1
        <3>2. CASE m # n + 1
            <4>1. m \in 0 .. n /\ Q[m] = R[m] /\ (m # 0 => Q[m - 1] = R[m - 1])
                BY <3>2
            <4>. HIDE DEF Q
            <4>. QED  BY <2>1, <4>1 DEF IsRebuilding
        <3>. QED  BY <3>1, <3>2
    <2>3. Q = [m \in 0 .. n + 1 |-> Q[m]]
        OBVIOUS
    <2>. HIDE DEF Q
    <2>4. IsRebuilding(Q, stack, dir, n + 1)
        BY <2>2, <2>3 DEF IsRebuilding
    <2>. QED  BY <2>4
<1>3. Len(stack) \in S
    <2>1. Len(stack) \in 0 .. Len(stack) /\ 0 .. Len(stack) \subseteq Nat
        OBVIOUS
    <2>. HIDE DEF S
    <2>. QED  BY <1>1, <1>2, <2>1, UpTo
<1>4. \E R : IsRebuilding(R, stack, dir, Len(stack))
    BY <1>3
<1>. QED  BY <1>4 DEF Rebuilding, IsRebuilding, RebuildOn

-----------------------------------------------------------------------------
(***************************************************************************)
(* What is published.  A pack fits a tree and the tree below it when it    *)
(* brings every file of the one, and deletes what only the other has.      *)
(***************************************************************************)
Entry == {Tombstone} \cup {Full(c) : c \in Contents}
         \cup {Delta(b, c) : b \in Contents \cup {NoFile}, c \in Contents}

PackRecords ==
    [kind : {"base", "patch"}, number : Nat, parent : Nat,
     entries : UNION {[D -> Entry] : D \in SUBSET Paths}, tree : Trees]

Fits(entries, tree, below) ==
    /\ DOMAIN entries = {q \in Paths : tree[q] # NoFile \/ below[q] # NoFile}
    /\ \A p \in DOMAIN entries :
          IF tree[p] = NoFile THEN entries[p].op = "delete"
          ELSE entries[p].op \in {"full", "delta"} /\ entries[p].content = tree[p]

TreeBelow(pub, k) == IF pub[k].parent = 0 THEN NoTree ELSE pub[pub[k].parent].tree

Packed(pub, k) ==
    /\ pub[k].number = k
    /\ pub[k].parent \in 0 .. k - 1
    /\ pub[k].kind = "base" <=> pub[k].parent = 0
    /\ Fits(pub[k].entries, pub[k].tree, TreeBelow(pub, k))

PublishedOK(pub) == pub \in Seq(PackRecords) /\ \A k \in 1 .. Len(pub) : Packed(pub, k)

LEMMA EntriesFit ==
    ASSUME NEW tree \in Trees, NEW below \in Trees
    PROVE  /\ Entries(tree, below) \in UNION {[D -> Entry] : D \in SUBSET Paths}
           /\ Fits(Entries(tree, below), tree, below)
<1>. DEFINE D == {q \in Paths : tree[q] # NoFile \/ below[q] # NoFile}
            e == Entries(tree, below)
<1>1. e = [p \in D |-> IF tree[p] = NoFile THEN Tombstone
                       ELSE IF p \in DeltaPaths(tree, below) THEN Delta(below[p], tree[p])
                       ELSE Full(tree[p])]
    BY DEF Entries
<1>. HIDE DEF e
<1>2. ASSUME NEW p \in D
      PROVE  /\ e[p] \in Entry
             /\ IF tree[p] = NoFile THEN e[p].op = "delete"
                ELSE e[p].op \in {"full", "delta"} /\ e[p].content = tree[p]
    <2>1. tree[p] \in Contents \cup {NoFile} /\ below[p] \in Contents \cup {NoFile}
        BY <1>2 DEF Trees
    <2>2. CASE tree[p] = NoFile
        BY <1>1, <2>2 DEF Entry, Tombstone
    <2>3. CASE tree[p] # NoFile /\ p \in DeltaPaths(tree, below)
        BY <1>1, <2>1, <2>3 DEF Entry, Delta
    <2>4. CASE tree[p] # NoFile /\ p \notin DeltaPaths(tree, below)
        BY <1>1, <2>1, <2>4 DEF Entry, Full
    <2>. QED  BY <2>2, <2>3, <2>4
<1>3. DOMAIN e = D /\ D \in SUBSET Paths
    BY <1>1
<1>4. e \in [D -> Entry]
    BY <1>1, <1>2, <1>3
<1>. QED  BY <1>2, <1>3, <1>4 DEF Fits, e

LEMMA FittingShowsTree ==
    ASSUME NEW entries, NEW tree \in Trees, NEW below \in Trees, Fits(entries, tree, below)
    PROVE  Applied(entries, below) = tree
<1>1. ASSUME NEW p \in Paths
      PROVE  (IF p \notin DOMAIN entries THEN below[p]
              ELSE IF entries[p].op = "delete" THEN NoFile ELSE entries[p].content) = tree[p]
    <2>1. CASE p \notin DOMAIN entries
        BY <2>1 DEF Fits
    <2>2. CASE p \in DOMAIN entries
        BY <2>2 DEF Fits
    <2>. QED  BY <2>1, <2>2
<1>. QED  BY <1>1 DEF Applied, Trees

LEMMA NoTreeIsOne == NoTree \in Trees
BY DEF NoTree, Trees

LEMMA PackedFacts ==
    ASSUME NEW pub, PublishedOK(pub), NEW k \in 1 .. Len(pub)
    PROVE  /\ pub[k] \in PackRecords /\ pub[k].tree \in Trees
           /\ TreeBelow(pub, k) \in Trees
           /\ Packed(pub, k)
<1>1. ASSUME NEW i \in 1 .. Len(pub) PROVE pub[i] \in PackRecords /\ pub[i].tree \in Trees
    <2>1. pub[i] \in PackRecords
        BY <1>1 DEF PublishedOK
    <2>. QED  BY <2>1 DEF PackRecords
<1>2. Packed(pub, k) /\ Len(pub) \in Nat
    BY DEF PublishedOK
<1>3. pub[k].parent = 0 \/ pub[k].parent \in 1 .. Len(pub)
    BY <1>2 DEF Packed
<1>. QED  BY <1>1, <1>2, <1>3, NoTreeIsOne DEF TreeBelow

\* Packs that are linked show, read together, the tree of the last.
LEMMA LinkedShowsLast ==
    ASSUME NEW pub, PublishedOK(pub), NEW parents \in Seq(1 .. Len(pub)), NEW chain,
           chain = [i \in DOMAIN parents |-> pub[parents[i]]], Linked(chain)
    PROVE  Read(chain).tree = IF parents = <<>> THEN NoTree ELSE pub[Last(parents)].tree
<1>. DEFINE R == Reading(chain)
            T == {n \in Nat : R[n].tree = IF n = 0 THEN NoTree ELSE pub[parents[n]].tree}
<1>1. /\ Len(parents) \in Nat /\ DOMAIN parents = 1 .. Len(parents)
      /\ \A i \in 1 .. Len(parents) : parents[i] \in 1 .. Len(pub)
    OBVIOUS
<1>2. Len(chain) = Len(parents) /\ \A i \in 1 .. Len(parents) : chain[i] = pub[parents[i]]
    BY <1>1
<1>3. /\ R[0] = NothingRead
      /\ \A n \in 1 .. Len(parents) : R[n] = ReadOn(R[n - 1], pub[parents[n]].entries)
    <2>1. IsReading(R, chain, Len(chain))
        BY <1>1, <1>2, ReadingDefined
    <2>. HIDE DEF R
    <2>2. 0 \in 0 .. Len(chain) /\ \A n \in 1 .. Len(parents) : n \in 0 .. Len(chain) /\ n # 0
        BY <1>1, <1>2
    <2>. QED  BY <1>2, <2>1, <2>2 DEF IsReading
<1>. HIDE DEF R
<1>4. 0 \in T
    BY <1>3 DEF NothingRead
<1>5. ASSUME NEW n \in 0 .. Len(parents), n \in T, n < Len(parents) PROVE n + 1 \in T
    <2>. DEFINE k == parents[n + 1]
    <2>1. n + 1 \in 1 .. Len(parents) /\ k \in 1 .. Len(pub) /\ (n + 1) - 1 = n
        BY <1>1, <1>5
    <2>2. R[n + 1].tree = Applied(pub[k].entries, R[n].tree)
        <3>1. R[n + 1] = ReadOn(R[n], pub[k].entries)
            BY <1>3, <2>1
        <3>. QED  BY <3>1 DEF ReadOn
    <2>3. R[n].tree = TreeBelow(pub, k)
        <3>1. CASE n = 0
            <4>1. pub[k].kind = "base"
                BY <1>2, <2>1, <3>1 DEF Linked
            <4>2. pub[k].parent = 0
                BY <2>1, <4>1, PackedFacts DEF Packed
            <4>. QED  BY <1>5, <3>1, <4>2 DEF TreeBelow
        <3>2. CASE n # 0
            <4>1. n \in 1 .. Len(parents) /\ n + 1 \in 2 .. Len(chain) /\ parents[n] \in 1 .. Len(pub)
                BY <1>1, <1>2, <2>1, <3>2
            <4>2. pub[k].parent = pub[parents[n]].number
                <5>1. chain[n + 1].parent = chain[(n + 1) - 1].number
                    BY <4>1 DEF Linked
                <5>. QED  BY <1>2, <2>1, <4>1, <5>1
            <4>3. pub[k].parent = parents[n]
                BY <4>1, <4>2, PackedFacts DEF Packed
            <4>. QED  BY <1>5, <3>2, <4>1, <4>3 DEF TreeBelow
        <3>. QED  BY <3>1, <3>2
    <2>4. R[n + 1].tree = pub[k].tree
        <3>1. /\ pub[k].tree \in Trees /\ TreeBelow(pub, k) \in Trees
              /\ Fits(pub[k].entries, pub[k].tree, TreeBelow(pub, k))
            BY <2>1, PackedFacts DEF Packed
        <3>. QED  BY <2>2, <2>3, <3>1, FittingShowsTree
    <2>. QED  BY <1>5, <2>1, <2>4
<1>6. Len(parents) \in T
    <2>1. Len(parents) \in 0 .. Len(parents)
        BY <1>1
    <2>. HIDE DEF T
    <2>. QED  BY <1>1, <1>4, <1>5, <2>1, UpTo
<1>. QED  BY <1>1, <1>2, <1>6 DEF Read, R, Last

\* What "tpk pack" adds is packed as everything else is.
LEMMA PublishPacks ==
    ASSUME NEW kind \in {"base", "patch"}, NEW tree \in Dists,
           NEW parents \in Seq(1 .. Len(published)), PublishedOK(published),
           Publish(kind, tree, parents)
    PROVE  /\ PublishedOK(published') /\ Len(published') = Len(published) + 1
           /\ \A k \in 1 .. Len(published) : published'[k] = published[k]
<1>. DEFINE chain == [i \in DOMAIN parents |-> published[parents[i]]]
            n == Len(published) + 1
            pack == Build(kind, n, tree, chain)
<1>1. /\ Packs(kind, n, tree, chain) /\ published' = Append(published, pack)
      /\ tree \in Trees /\ Len(published) \in Nat
    <2>1. Len(published) \in Nat
        BY DEF PublishedOK
    <2>2. tree \in Trees
        BY OverlayAssumption
    <2>. QED  BY <2>1, <2>2 DEF Publish
<1>2. Linked(chain) /\ Valid(pack)
    BY <1>1 DEF Packs, ParentsLoad
<1>3. Read(chain).tree = IF parents = <<>> THEN NoTree ELSE published[Last(parents)].tree
    BY <1>2, LinkedShowsLast
<1>4. /\ chain = <<>> <=> parents = <<>>
      /\ parents # <<>> => Last(parents) \in 1 .. Len(published) /\ Last(chain) = published[Last(parents)]
    BY DEF Last
<1>. DEFINE parent == IF parents = <<>> THEN 0 ELSE Last(parents)
<1>5. pack = [kind |-> kind, number |-> n, parent |-> parent,
              entries |-> Entries(tree, Read(chain).tree), tree |-> tree]
    <2>1. parents # <<>> => Last(chain).number = Last(parents)
        BY <1>4, PackedFacts DEF Packed
    <2>. QED  BY <1>4, <2>1 DEF Build
<1>. HIDE DEF chain, pack
<1>6. Read(chain).tree \in Trees
    BY <1>3, <1>4, NoTreeIsOne, PackedFacts
<1>7. parent \in 0 .. Len(published)
    BY <1>1, <1>4
<1>8. pack \in PackRecords
    BY <1>1, <1>5, <1>6, <1>7, EntriesFit DEF PackRecords
<1>9. /\ published' \in Seq(PackRecords) /\ Len(published') = n /\ published'[n] = pack
      /\ \A k \in 1 .. Len(published) : published'[k] = published[k]
    BY <1>1, <1>8 DEF PublishedOK
<1>10. Packed(published', n)
    <2>1. TreeBelow(published', n) = Read(chain).tree
        BY <1>1, <1>3, <1>4, <1>5, <1>9 DEF TreeBelow
    <2>2. pack.kind = "base" <=> pack.parent = 0
        BY <1>2 DEF Valid
    <2>3. Fits(pack.entries, pack.tree, Read(chain).tree)
        BY <1>1, <1>5, <1>6, EntriesFit
    <2>. QED  BY <1>1, <1>5, <1>7, <1>9, <2>1, <2>2, <2>3 DEF Packed
<1>11. ASSUME NEW k \in 1 .. Len(published) PROVE Packed(published', k)
    <2>1. Packed(published, k)
        BY PackedFacts
    <2>2. published[k].parent = 0 \/ published[k].parent \in 1 .. Len(published)
        BY <1>1, <2>1 DEF Packed
    <2>3. TreeBelow(published', k) = TreeBelow(published, k)
        BY <1>9, <2>2 DEF TreeBelow
    <2>. QED  BY <1>9, <2>1, <2>3 DEF Packed
<1>12. \A k \in 1 .. n : k = n \/ k \in 1 .. Len(published)
    BY <1>1
<1>. QED  BY <1>9, <1>10, <1>11, <1>12 DEF PublishedOK

-----------------------------------------------------------------------------
(***************************************************************************)
(* The index of a stack, for what was published when it was built: later   *)
(* packs do not matter to it.                                              *)
(***************************************************************************)
ListingIn(pub, stack, p) == {i \in DOMAIN stack : p \in DOMAIN pub[stack[i]].entries}
WinnerIn(pub, stack, p) ==
    IF ListingIn(pub, stack, p) = {} THEN NotListed
    ELSE pub[stack[Topmost(ListingIn(pub, stack, p))]].entries[p]
NeededIn(pub, stack) == UNION {Results(pub[stack[i]].entries) : i \in DOMAIN stack}

LEMMA IndexIs ==
    /\ \A stack, p : Winner(stack, p) = WinnerIn(published, stack, p)
    /\ \A stack : Needed(stack) = NeededIn(published, stack)
BY DEF Winner, WinnerIn, Listing, ListingIn, Layer, Needed, NeededIn

LEMMA IndexKept ==
    ASSUME NEW pub, NEW new, NEW stack \in Seq(1 .. Len(pub)),
           \A k \in 1 .. Len(pub) : new[k] = pub[k]
    PROVE  /\ \A p : WinnerIn(new, stack, p) = WinnerIn(pub, stack, p)
           /\ NeededIn(new, stack) = NeededIn(pub, stack)
<1>1. \A i \in DOMAIN stack : new[stack[i]] = pub[stack[i]]
    OBVIOUS
<1>2. ASSUME NEW p PROVE WinnerIn(new, stack, p) = WinnerIn(pub, stack, p)
    <2>. DEFINE L == ListingIn(pub, stack, p)
    <2>1. ListingIn(new, stack, p) = L
        BY <1>1 DEF ListingIn
    <2>2. L # {} => Topmost(L) \in DOMAIN stack
        <3>1. L \subseteq DOMAIN stack /\ DOMAIN stack = 1 .. Len(stack) /\ Len(stack) \in Nat
            BY DEF ListingIn
        <3>. HIDE DEF L
        <3>2. SUFFICES ASSUME L # {} PROVE Topmost(L) \in DOMAIN stack
            OBVIOUS
        <3>3. \E i \in L : \A j \in L : i >= j
            <4>1. L \in SUBSET (0 .. Len(stack))
                BY <3>1
            <4>. QED  BY <3>1, <3>2, <4>1, LargestExists
        <3>. QED  BY <3>1, <3>3 DEF Topmost
    <2>. HIDE DEF L
    <2>. QED  BY <1>1, <2>1, <2>2 DEF WinnerIn, L
<1>3. NeededIn(new, stack) = NeededIn(pub, stack)
    BY <1>1 DEF NeededIn
<1>. QED  BY <1>2, <1>3

\* The winner is the entry of the topmost layer that has the path.
LEMMA WinnerFacts ==
    ASSUME NEW pub, NEW stack, Len(stack) \in Nat, DOMAIN stack = 1 .. Len(stack), NEW p
    PROVE  \/ /\ \A i \in DOMAIN stack : p \notin DOMAIN pub[stack[i]].entries
              /\ WinnerIn(pub, stack, p) = NotListed
           \/ \E i \in DOMAIN stack :
                 /\ p \in DOMAIN pub[stack[i]].entries
                 /\ WinnerIn(pub, stack, p) = pub[stack[i]].entries[p]
                 /\ \A j \in DOMAIN stack : p \in DOMAIN pub[stack[j]].entries => i >= j
<1>. DEFINE L == ListingIn(pub, stack, p)
<1>1. \A i : i \in L <=> i \in DOMAIN stack /\ p \in DOMAIN pub[stack[i]].entries
    BY DEF ListingIn
<1>2. WinnerIn(pub, stack, p) = IF L = {} THEN NotListed ELSE pub[stack[Topmost(L)]].entries[p]
    BY DEF WinnerIn
<1>. HIDE DEF L
<1>3. CASE L = {}
    BY <1>1, <1>2, <1>3
<1>4. CASE L # {}
    <2>1. \E i \in L : \A j \in L : i >= j
        <3>1. L \in SUBSET (0 .. Len(stack))
            BY <1>1
        <3>. QED  BY <1>4, <3>1, LargestExists
    <2>2. Topmost(L) \in L /\ \A j \in L : Topmost(L) >= j
        BY <2>1 DEF Topmost
    <2>. QED  BY <1>1, <1>2, <1>4, <2>2
<1>. QED  BY <1>3, <1>4

LEMMA LastWins ==
    ASSUME NEW pub, NEW S, NEW stack \in Seq(S), stack # <<>>, NEW p,
           p \in DOMAIN pub[Last(stack)].entries
    PROVE  WinnerIn(pub, stack, p) = pub[Last(stack)].entries[p]
<1>1. /\ Len(stack) \in Nat /\ DOMAIN stack = 1 .. Len(stack) /\ Len(stack) \in DOMAIN stack
      /\ Last(stack) = stack[Len(stack)]
    BY DEF Last
<1>2. PICK i \in DOMAIN stack :
        /\ WinnerIn(pub, stack, p) = pub[stack[i]].entries[p]
        /\ \A j \in DOMAIN stack : p \in DOMAIN pub[stack[j]].entries => i >= j
    BY <1>1, WinnerFacts
<1>3. i = Len(stack)
    BY <1>1, <1>2
<1>. QED  BY <1>1, <1>2, <1>3

LEMMA LastMayPass ==
    ASSUME NEW pub, NEW S, NEW stack \in Seq(S), NEW n \in S, NEW p,
           p \notin DOMAIN pub[n].entries
    PROVE  WinnerIn(pub, Append(stack, n), p) = WinnerIn(pub, stack, p)
<1>. DEFINE more == Append(stack, n)
<1>1. /\ more \in Seq(S) /\ Len(stack) \in Nat /\ Len(more) = Len(stack) + 1
      /\ DOMAIN stack = 1 .. Len(stack) /\ DOMAIN more = 1 .. Len(more)
      /\ more[Len(more)] = n /\ \A i \in DOMAIN stack : more[i] = stack[i]
    OBVIOUS
<1>. HIDE DEF more
<1>2. \A i \in DOMAIN more : p \in DOMAIN pub[more[i]].entries => i \in DOMAIN stack
    BY <1>1
<1>3. ListingIn(pub, more, p) = ListingIn(pub, stack, p)
    BY <1>1, <1>2 DEF ListingIn
<1>4. CASE ListingIn(pub, stack, p) = {}
    BY <1>3, <1>4 DEF WinnerIn, more
<1>5. CASE ListingIn(pub, stack, p) # {}
    <2>. DEFINE L == ListingIn(pub, stack, p)
    <2>1. L \subseteq DOMAIN stack
        BY DEF ListingIn
    <2>2. WinnerIn(pub, more, p) = pub[more[Topmost(L)]].entries[p]
        BY <1>3, <1>5 DEF WinnerIn
    <2>3. WinnerIn(pub, stack, p) = pub[stack[Topmost(L)]].entries[p]
        BY <1>5 DEF WinnerIn
    <2>. HIDE DEF L
    <2>4. Topmost(L) \in L
        <3>1. L # {} /\ L \in SUBSET (0 .. Len(stack))
            BY <1>1, <1>5, <2>1 DEF L
        <3>2. \E i \in L : \A j \in L : i >= j
            BY <1>1, <3>1, LargestExists
        <3>. QED  BY <3>2 DEF Topmost
    <2>. QED  BY <1>1, <2>1, <2>2, <2>3, <2>4 DEF more
<1>. QED  BY <1>4, <1>5

-----------------------------------------------------------------------------
(***************************************************************************)
(* Chains.                                                                 *)
(***************************************************************************)
IsChains(C, pub, top) ==
    C = [k \in 0 .. top |-> IF k = 0 THEN <<>> ELSE Append(C[pub[k].parent], k)]

ChainsOf(pub) ==
    LET C[k \in 0 .. Len(pub)] == IF k = 0 THEN <<>> ELSE Append(C[pub[k].parent], k)
    IN  C

LEMMA ChainsDefined ==
    ASSUME NEW pub, Len(pub) \in Nat, \A k \in 1 .. Len(pub) : pub[k].parent \in 0 .. k - 1
    PROVE  IsChains(ChainsOf(pub), pub, Len(pub))
<1>. DEFINE S == {n \in Nat : \E C : IsChains(C, pub, n)}
<1>1. 0 \in S
    <2>1. IsChains([k \in 0 .. 0 |-> <<>>], pub, 0)
        BY DEF IsChains
    <2>. QED  BY <2>1
<1>2. ASSUME NEW n \in 0 .. Len(pub), n \in S, n < Len(pub) PROVE n + 1 \in S
    <2>1. PICK C : IsChains(C, pub, n)
        BY <1>2
    <2>. DEFINE D == [k \in 0 .. n + 1 |->
                        IF k = n + 1 THEN Append(C[pub[n + 1].parent], n + 1) ELSE C[k]]
    <2>2. ASSUME NEW k \in 0 .. n + 1
          PROVE  D[k] = IF k = 0 THEN <<>> ELSE Append(D[pub[k].parent], k)
        <3>1. k # 0 => pub[k].parent \in 0 .. n /\ D[pub[k].parent] = C[pub[k].parent]
            <4>1. k # 0 => k \in 1 .. Len(pub)
                BY <1>2, <2>2
            <4>2. k # 0 => pub[k].parent \in 0 .. k - 1
                BY <4>1
            <4>. QED  BY <1>2, <2>2, <4>2
        <3>2. CASE k = n + 1
            BY <1>2, <3>1, <3>2
        <3>3. CASE k # n + 1
            <4>1. k \in 0 .. n /\ D[k] = C[k]
                BY <2>2, <3>3
            <4>2. C[k] = IF k = 0 THEN <<>> ELSE Append(C[pub[k].parent], k)
                BY <2>1, <4>1 DEF IsChains
            <4>. HIDE DEF D
            <4>. QED  BY <3>1, <4>1, <4>2
        <3>. QED  BY <3>2, <3>3
    <2>3. D = [k \in 0 .. n + 1 |-> D[k]]
        OBVIOUS
    <2>. HIDE DEF D
    <2>4. IsChains(D, pub, n + 1)
        BY <2>2, <2>3 DEF IsChains
    <2>. QED  BY <1>2, <2>4
<1>3. Len(pub) \in S
    <2>1. Len(pub) \in 0 .. Len(pub)
        OBVIOUS
    <2>. HIDE DEF S
    <2>. QED  BY <1>1, <1>2, <2>1, UpTo
<1>4. \E C : IsChains(C, pub, Len(pub))
    BY <1>3
<1>. QED  BY <1>4 DEF ChainsOf, IsChains

LEMMA ChainsAre ==
    ASSUME NEW pub, PublishedOK(pub)
    PROVE  /\ ChainsOf(pub)[0] = <<>>
           /\ \A n \in 1 .. Len(pub) : ChainsOf(pub)[n] = Append(ChainsOf(pub)[pub[n].parent], n)
           /\ \A n \in 0 .. Len(pub) : ChainsOf(pub)[n] \in Seq(1 .. n)
           /\ \A n \in 1 .. Len(pub) : ChainsOf(pub)[n] # <<>> /\ Last(ChainsOf(pub)[n]) = n
<1>. DEFINE C == ChainsOf(pub)
            T == {n \in 0 .. Len(pub) : C[n] \in Seq(1 .. n)}
<1>1. Len(pub) \in Nat /\ \A n \in 1 .. Len(pub) : pub[n].parent \in 0 .. n - 1
    BY DEF PublishedOK, Packed
<1>2. IsChains(C, pub, Len(pub))
    BY <1>1, ChainsDefined
<1>. HIDE DEF C
<1>3. C[0] = <<>> /\ \A n \in 1 .. Len(pub) : C[n] = Append(C[pub[n].parent], n)
    <2>1. 0 \in 0 .. Len(pub) /\ \A n \in 1 .. Len(pub) : n \in 0 .. Len(pub) /\ n # 0
        BY <1>1
    <2>. QED  BY <1>2, <2>1 DEF IsChains
<1>4. ASSUME NEW n \in 0 .. Len(pub), \A m \in 0 .. n - 1 : m \in T PROVE n \in T
    <2>1. CASE n = 0
        <3>1. C[n] = <<>> /\ <<>> \in Seq(1 .. n)
            BY <1>3, <2>1
        <3>. QED  BY <3>1
    <2>2. CASE n # 0
        <3>. DEFINE m == pub[n].parent
        <3>1. n \in 1 .. Len(pub) /\ m \in 0 .. n - 1
            BY <1>1, <2>2
        <3>. HIDE DEF m
        <3>2. C[m] \in Seq(1 .. m)
            BY <1>4, <3>1
        <3>3. C[m] \in Seq(1 .. n)
            <4>1. 1 .. m \subseteq 1 .. n
                BY <3>1
            <4>. QED  BY <3>2, <4>1, WiderSeq
        <3>4. C[n] = Append(C[m], n) /\ n \in 1 .. n
            BY <1>3, <3>1 DEF m
        <3>5. C[n] \in Seq(1 .. n)
            BY <3>3, <3>4, AppendFacts
        <3>. QED  BY <3>5
    <2>. QED  BY <2>1, <2>2
<1>5. \A n \in 0 .. Len(pub) : C[n] \in Seq(1 .. n)
    <2>1. \A n \in 0 .. Len(pub) : n \in T
        <3>. HIDE DEF T
        <3>. QED  BY <1>1, <1>4, FromBelow
    <2>. QED  BY <2>1
<1>6. ASSUME NEW n \in 1 .. Len(pub) PROVE C[n] # <<>> /\ Last(C[n]) = n
    <2>. DEFINE m == pub[n].parent
    <2>1. C[n] = Append(C[m], n) /\ m \in 0 .. n - 1 /\ m \in 0 .. Len(pub)
        BY <1>1, <1>3, <1>6
    <2>. HIDE DEF m
    <2>2. C[m] \in Seq(1 .. n)
        <3>1. C[m] \in Seq(1 .. m)
            BY <1>5, <2>1
        <3>2. 1 .. m \subseteq 1 .. n
            BY <2>1
        <3>. QED  BY <3>1, <3>2, WiderSeq
    <2>3. ASSUME NEW s \in Seq(1 .. n)
          PROVE  Append(s, n) # <<>> /\ Append(s, n)[Len(Append(s, n))] = n
        <3>1. n \in 1 .. n
            BY <1>1
        <3>. QED  BY <3>1
    <2>. QED  BY <2>1, <2>2, <2>3 DEF Last
<1>. QED  BY <1>3, <1>5, <1>6 DEF C

\* Later packs change no chain.
LEMMA ChainsKept ==
    ASSUME NEW pub, PublishedOK(pub), NEW new, PublishedOK(new), Len(new) >= Len(pub),
           \A k \in 1 .. Len(pub) : new[k] = pub[k]
    PROVE  \A n \in 0 .. Len(pub) : ChainsOf(new)[n] = ChainsOf(pub)[n]
<1>. DEFINE C == ChainsOf(pub)
            D == ChainsOf(new)
            T == {n \in Nat : D[n] = C[n]}
<1>1. /\ Len(pub) \in Nat /\ Len(new) \in Nat
      /\ \A n \in 1 .. Len(pub) : pub[n].parent \in 0 .. n - 1 /\ n \in 1 .. Len(new)
    BY DEF PublishedOK, Packed
<1>2. /\ C[0] = <<>> /\ D[0] = <<>>
      /\ \A n \in 1 .. Len(pub) : C[n] = Append(C[pub[n].parent], n)
      /\ \A n \in 1 .. Len(pub) : D[n] = Append(D[pub[n].parent], n)
    BY <1>1, ChainsAre
<1>. HIDE DEF C, D
<1>3. ASSUME NEW n \in 0 .. Len(pub), \A m \in 0 .. n - 1 : m \in T PROVE n \in T
    <2>1. CASE n = 0
        BY <1>2, <2>1
    <2>2. CASE n # 0
        <3>1. n \in 1 .. Len(pub) /\ n \in Nat /\ pub[n].parent \in 0 .. n - 1
            BY <1>1, <2>2
        <3>2. D[pub[n].parent] = C[pub[n].parent]
            BY <1>3, <3>1
        <3>. QED  BY <1>2, <3>1, <3>2
    <2>. QED  BY <2>1, <2>2
<1>4. \A n \in 0 .. Len(pub) : n \in T
    <2>. HIDE DEF T
    <2>. QED  BY <1>1, <1>3, FromBelow
<1>. QED  BY <1>4 DEF C, D

\* What a stack shows is what its last pack was made from.
Shows(pub, stack) ==
    \A p \in Paths :
        LET w == WinnerIn(pub, stack, p)
            content == pub[Last(stack)].tree[p]
        IN  IF content # NoFile THEN w.op \in {"full", "delta"} /\ w.content = content
            ELSE IF \E i \in DOMAIN stack : pub[stack[i]].tree[p] # NoFile THEN w.op = "delete"
            ELSE w.op = "none"

\* One pack more on a chain that shows what it should, or on nothing.
LEMMA PatchShows ==
    ASSUME NEW pub, PublishedOK(pub), NEW n \in 1 .. Len(pub), NEW stack \in Seq(1 .. Len(pub)),
           IF pub[n].parent = 0 THEN stack = <<>>
           ELSE stack # <<>> /\ Last(stack) = pub[n].parent /\ Shows(pub, stack)
    PROVE  Shows(pub, Append(stack, n))
<1>. DEFINE more == Append(stack, n)
            N == 1 .. Len(pub)
<1>1. /\ more \in Seq(N) /\ more # <<>> /\ Last(more) = n
      /\ Len(stack) \in Nat /\ DOMAIN stack = 1 .. Len(stack) /\ DOMAIN more = 1 .. Len(stack) + 1
      /\ more[Len(stack) + 1] = n /\ \A i \in 1 .. Len(stack) : more[i] = stack[i]
    <2>1. n \in N /\ stack \in Seq(N)
        OBVIOUS
    <2>. HIDE DEF N
    <2>. QED  BY <2>1, AppendFacts DEF Last
<1>2. /\ pub[n].tree \in Trees /\ TreeBelow(pub, n) \in Trees
      /\ Fits(pub[n].entries, pub[n].tree, TreeBelow(pub, n))
    BY PackedFacts DEF Packed
<1>. HIDE DEF more, N
<1>. SUFFICES ASSUME NEW p \in Paths
              PROVE  LET w == WinnerIn(pub, more, p)
                         content == pub[n].tree[p]
                     IN  IF content # NoFile THEN w.op \in {"full", "delta"} /\ w.content = content
                         ELSE IF \E i \in DOMAIN more : pub[more[i]].tree[p] # NoFile
                              THEN w.op = "delete"
                         ELSE w.op = "none"
    BY <1>1 DEF Shows, more
<1>. DEFINE e == pub[n].entries
            below == TreeBelow(pub, n)
<1>3. p \in DOMAIN e <=> pub[n].tree[p] # NoFile \/ below[p] # NoFile
    BY <1>2 DEF Fits
<1>4. stack # <<>> => below = pub[Last(stack)].tree
    BY DEF TreeBelow
<1>5. stack = <<>> => below = NoTree
    BY DEF TreeBelow
<1>6. CASE p \in DOMAIN e
    <2>1. WinnerIn(pub, more, p) = e[p]
        BY <1>1, <1>6, LastWins
    <2>2. CASE pub[n].tree[p] # NoFile
        BY <1>2, <1>6, <2>1, <2>2 DEF Fits
    <2>3. CASE pub[n].tree[p] = NoFile
        <3>1. e[p].op = "delete"
            BY <1>2, <1>6, <2>3 DEF Fits
        <3>2. below[p] # NoFile
            BY <1>3, <1>6, <2>3
        <3>3. stack # <<>>
            BY <1>5, <3>2 DEF NoTree
        <3>4. Len(stack) \in DOMAIN more /\ more[Len(stack)] = Last(stack)
            BY <1>1, <3>3 DEF Last
        <3>5. \E i \in DOMAIN more : pub[more[i]].tree[p] # NoFile
            BY <1>4, <3>2, <3>3, <3>4
        <3>. QED  BY <2>1, <2>3, <3>1, <3>5
    <2>. QED  BY <2>2, <2>3
<1>7. CASE p \notin DOMAIN e
    <2>1. pub[n].tree[p] = NoFile /\ below[p] = NoFile
        BY <1>3, <1>7
    <2>2. WinnerIn(pub, more, p) = WinnerIn(pub, stack, p)
        BY <1>7, LastMayPass DEF more
    <2>3. (\E i \in DOMAIN more : pub[more[i]].tree[p] # NoFile)
            <=> (\E i \in DOMAIN stack : pub[stack[i]].tree[p] # NoFile)
        <3>1. \A i \in DOMAIN more : i \in DOMAIN stack \/ more[i] = n
            BY <1>1
        <3>2. \A i \in DOMAIN stack : i \in DOMAIN more /\ more[i] = stack[i]
            BY <1>1
        <3>. QED  BY <2>1, <3>1, <3>2
    <2>4. CASE stack = <<>>
        <3>1. DOMAIN stack = {}
            BY <2>4
        <3>2. WinnerIn(pub, stack, p) = NotListed
            BY <3>1 DEF WinnerIn, ListingIn
        <3>. QED  BY <2>1, <2>2, <2>3, <3>1, <3>2 DEF NotListed
    <2>5. CASE stack # <<>>
        <3>1. Shows(pub, stack) /\ pub[Last(stack)].tree[p] = NoFile
            BY <1>4, <2>1, <2>5
        <3>. QED  BY <2>1, <2>2, <2>3, <3>1 DEF Shows
    <2>. QED  BY <2>4, <2>5
<1>. QED  BY <1>6, <1>7

(***************************************************************************)
(* A chain shows the tree its last pack was made from: patches, tombstones *)
(* and deltas compose (cmd_pack.rs:203, index.rs:79).                      *)
(***************************************************************************)
LEMMA ChainsShow ==
    ASSUME NEW pub, PublishedOK(pub)
    PROVE  \A n \in 1 .. Len(pub) : Shows(pub, ChainsOf(pub)[n])
<1>. DEFINE C == ChainsOf(pub)
            T == {n \in Nat : n # 0 => Shows(pub, C[n])}
<1>1. Len(pub) \in Nat /\ \A n \in 1 .. Len(pub) : pub[n].parent \in 0 .. n - 1
    BY DEF PublishedOK, Packed
<1>2. /\ C[0] = <<>> /\ \A n \in 1 .. Len(pub) : C[n] = Append(C[pub[n].parent], n)
      /\ \A n \in 0 .. Len(pub) : C[n] \in Seq(1 .. n)
      /\ \A n \in 1 .. Len(pub) : C[n] # <<>> /\ Last(C[n]) = n
    BY ChainsAre
<1>. HIDE DEF C
<1>3. ASSUME NEW n \in 0 .. Len(pub), \A m \in 0 .. n - 1 : m \in T PROVE n \in T
    <2>1. CASE n = 0
        BY <2>1
    <2>2. CASE n # 0
        <3>. DEFINE m == pub[n].parent
        <3>1. n \in 1 .. Len(pub) /\ n \in Nat /\ m \in 0 .. n - 1 /\ m \in 0 .. Len(pub)
            BY <1>1, <2>2
        <3>2. C[m] \in Seq(1 .. Len(pub))
            <4>. HIDE DEF m
            <4>1. C[m] \in Seq(1 .. m) /\ 1 .. m \subseteq 1 .. Len(pub)
                BY <1>1, <1>2, <3>1
            <4>. QED  BY <4>1, WiderSeq
        <3>3. IF m = 0 THEN C[m] = <<>>
              ELSE C[m] # <<>> /\ Last(C[m]) = m /\ Shows(pub, C[m])
            <4>1. CASE m = 0
                BY <1>2, <4>1
            <4>2. CASE m # 0
                <5>1. m \in T /\ m \in 1 .. Len(pub)
                    BY <1>1, <1>3, <3>1, <4>2
                <5>. QED  BY <1>2, <4>2, <5>1
            <4>. QED  BY <4>1, <4>2
        <3>4. Shows(pub, Append(C[m], n))
            BY <3>1, <3>2, <3>3, PatchShows
        <3>. QED  BY <1>2, <3>1, <3>4
    <2>. QED  BY <2>1, <2>2
<1>4. \A n \in 0 .. Len(pub) : n \in T
    <2>. HIDE DEF T
    <2>. QED  BY <1>1, <1>3, FromBelow
<1>5. ASSUME NEW n \in 1 .. Len(pub) PROVE Shows(pub, C[n])
    <2>1. n \in 0 .. Len(pub) /\ n # 0
        BY <1>1
    <2>. QED  BY <1>4, <2>1
<1>. QED  BY <1>5 DEF C

-----------------------------------------------------------------------------
(***************************************************************************)
(* The bytes of a list of cached objects.                                  *)
(***************************************************************************)
Items == [key : Paths, content : Contents]

LEMMA TotalsAre ==
    ASSUME NEW list \in Seq(Items)
    PROVE  LET T == Lru!Totals(list)
           IN  /\ T[0] = 0
               /\ \A n \in 1 .. Len(list) : T[n] = T[n - 1] + Size[list[n].content]
               /\ \A n \in 0 .. Len(list) : T[n] \in Nat
               /\ \A n \in 1 .. Len(list) : Size[list[n].content] \in Nat
<1>. DEFINE T == Lru!Totals(list)
            S == {n \in Nat : T[n] \in Nat}
<1>1. Len(list) \in Nat /\ \A n \in 1 .. Len(list) : list[n] \in Items
    OBVIOUS
<1>2. IsTotals(T, list, Len(list))
    BY <1>1, TotalsDefined
<1>. HIDE DEF T
<1>3. T[0] = 0 /\ \A n \in 1 .. Len(list) : T[n] = T[n - 1] + Size[list[n].content]
    <2>1. 0 \in 0 .. Len(list) /\ \A n \in 1 .. Len(list) : n \in 0 .. Len(list) /\ n # 0
        BY <1>1
    <2>. QED  BY <1>2, <2>1 DEF IsTotals
<1>4. \A n \in 1 .. Len(list) : Size[list[n].content] \in Nat
    <2>1. Size \in [Contents -> Nat]
        BY AuthorAssumption
    <2>. QED  BY <1>1, <2>1 DEF Items
<1>5. ASSUME NEW n \in 0 .. Len(list), n \in S, n < Len(list) PROVE n + 1 \in S
    <2>1. n + 1 \in 1 .. Len(list) /\ (n + 1) - 1 = n
        BY <1>1, <1>5
    <2>2. T[n + 1] = T[n] + Size[list[n + 1].content] /\ Size[list[n + 1].content] \in Nat
        BY <1>3, <1>4, <2>1
    <2>. QED  BY <1>5, <2>2
<1>6. \A n \in 0 .. Len(list) : n \in S
    <2>1. 0 \in S
        BY <1>3
    <2>. HIDE DEF S
    <2>. QED  BY <1>1, <1>5, <2>1, UpTo
<1>. QED  BY <1>3, <1>4, <1>6 DEF T

\* Where two lists agree, they hold as many bytes: after the place i of the
\* one up to m, and after the place j of the other up to n.
Agree(list, other, i, m, j, n) ==
    /\ i <= m /\ m - i = n - j /\ m <= Len(list) /\ n <= Len(other)
    /\ \A k \in 1 .. m - i : list[i + k] = other[j + k]

LEMMA SameBytes ==
    ASSUME NEW list \in Seq(Items), NEW other \in Seq(Items), NEW i \in Nat,
           NEW m \in Nat, NEW j \in Nat, NEW n \in Nat, Agree(list, other, i, m, j, n)
    PROVE  Lru!Totals(list)[m] - Lru!Totals(list)[i] = Lru!Totals(other)[n] - Lru!Totals(other)[j]
<1>. DEFINE T == Lru!Totals(list)
            U == Lru!Totals(other)
            top == m - i
            Same(x) == T[i + x] - T[i] = U[j + x] - U[j]
            S == {x \in Nat : Same(x)}
<1>0. /\ top \in Nat /\ i + top = m /\ j + top = n
      /\ i + top <= Len(list) /\ j + top <= Len(other)
      /\ \A k \in 1 .. top : list[i + k] = other[j + k]
    BY DEF Agree
<1>1. /\ \A k \in 1 .. Len(list) : T[k] = T[k - 1] + Size[list[k].content]
      /\ \A k \in 0 .. Len(list) : T[k] \in Nat
      /\ \A k \in 1 .. Len(list) : Size[list[k].content] \in Nat
      /\ Len(list) \in Nat
    BY TotalsAre
<1>2. /\ \A k \in 1 .. Len(other) : U[k] = U[k - 1] + Size[other[k].content]
      /\ \A k \in 0 .. Len(other) : U[k] \in Nat
      /\ Len(other) \in Nat
    BY TotalsAre
<1>. HIDE DEF T, U, top
<1>3. 0 \in S
    <2>1. i \in 0 .. Len(list) /\ j \in 0 .. Len(other) /\ i + 0 = i /\ j + 0 = j
        BY <1>0, <1>1, <1>2
    <2>2. T[i] \in Nat /\ U[j] \in Nat
        BY <1>1, <1>2, <2>1
    <2>. QED  BY <2>1, <2>2
<1>4. ASSUME NEW k \in 0 .. top, k \in S, k < top PROVE k + 1 \in S
    <2>1. /\ i + (k + 1) \in 1 .. Len(list) /\ (i + (k + 1)) - 1 = i + k
          /\ j + (k + 1) \in 1 .. Len(other) /\ (j + (k + 1)) - 1 = j + k
          /\ i + k \in 0 .. Len(list) /\ j + k \in 0 .. Len(other)
          /\ i \in 0 .. Len(list) /\ j \in 0 .. Len(other)
          /\ k + 1 \in 1 .. top
        <3>1. /\ k \in Nat /\ k + 1 <= top /\ top \in Nat
              /\ Len(list) \in Nat /\ Len(other) \in Nat
              /\ i + top <= Len(list) /\ j + top <= Len(other)
            BY <1>0, <1>1, <1>2, <1>4
        <3>. HIDE DEF S
        <3>. QED  BY <3>1
    <2>2. list[i + (k + 1)] = other[j + (k + 1)]
        BY <1>0, <2>1
    <2>. DEFINE size == Size[list[i + (k + 1)].content]
    <2>3. T[i + (k + 1)] = T[i + k] + size /\ size \in Nat
        BY <1>1, <2>1
    <2>4. U[j + (k + 1)] = U[j + k] + size
        BY <1>2, <2>1, <2>2
    <2>5. T[i + k] \in Nat /\ U[j + k] \in Nat /\ T[i] \in Nat /\ U[j] \in Nat
        BY <1>1, <1>2, <2>1
    <2>6. T[i + k] - T[i] = U[j + k] - U[j] /\ k + 1 \in Nat
        BY <1>0, <1>4
    <2>. DEFINE a == T[i + (k + 1)]
                b == U[j + (k + 1)]
                c == T[i + k]
                d == U[j + k]
                e == T[i]
                f == U[j]
    <2>7. /\ a = c + size /\ b = d + size /\ c - e = d - f
          /\ c \in Nat /\ d \in Nat /\ e \in Nat /\ f \in Nat /\ size \in Nat
        BY <2>3, <2>4, <2>5, <2>6
    <2>. HIDE DEF size, S, a, b, c, d, e, f
    <2>8. a - e = b - f
        BY <2>7
    <2>9. Same(k + 1)
        BY <2>8 DEF a, b, e, f
    <2>. HIDE DEF Same
    <2>. QED  BY <2>6, <2>9 DEF S
<1>5. top \in S
    <2>1. top \in 0 .. top /\ top \in Nat
        BY <1>0
    <2>. HIDE DEF S
    <2>. QED  BY <1>3, <1>4, <2>1, UpTo
<1>. QED  BY <1>0, <1>5 DEF T, U

LEMMA BytesAppended ==
    ASSUME NEW list \in Seq(Items), NEW item \in Items
    PROVE  /\ Lru!Bytes(Append(list, item)) = Lru!Bytes(list) + Size[item.content]
           /\ Lru!Bytes(list) \in Nat
<1>. DEFINE more == Append(list, item)
            top == Len(list)
<1>1. /\ more \in Seq(Items) /\ Len(more) = top + 1 /\ top \in Nat
      /\ more[top + 1] = item /\ \A i \in 1 .. top : more[i] = list[i]
    OBVIOUS
<1>. HIDE DEF more, top
<1>2. Lru!Totals(list)[top] - Lru!Totals(list)[0] = Lru!Totals(more)[top] - Lru!Totals(more)[0]
    <2>1. Agree(list, more, 0, top, 0, top)
        BY <1>1 DEF Agree, top
    <2>. QED  BY <1>1, <2>1, SameBytes
<1>3. /\ Lru!Totals(list)[0] = 0 /\ Lru!Totals(more)[0] = 0
      /\ Lru!Totals(list)[top] \in Nat /\ Lru!Totals(more)[top] \in Nat
      /\ Lru!Totals(more)[top + 1] = Lru!Totals(more)[(top + 1) - 1] + Size[more[top + 1].content]
    <2>1. top \in 0 .. Len(list) /\ top \in 0 .. Len(more) /\ top + 1 \in 1 .. Len(more)
        BY <1>1 DEF top
    <2>. QED  BY <1>1, <2>1, TotalsAre
<1>4. (top + 1) - 1 = top
    BY <1>1
<1>. QED  BY <1>1, <1>2, <1>3, <1>4 DEF Lru!Bytes, more, top

LEMMA BytesSplit ==
    ASSUME NEW list \in Seq(Items), NEW n \in 0 .. Len(list)
    PROVE  LET first == SubSeq(list, 1, n)
               rest  == SubSeq(list, n + 1, Len(list))
           IN  /\ first \in Seq(Items) /\ rest \in Seq(Items)
               /\ Len(rest) = Len(list) - n /\ \A k \in 1 .. Len(rest) : rest[k] = list[n + k]
               /\ Lru!Bytes(first) \in Nat
               /\ Lru!Bytes(rest) = Lru!Bytes(list) - Lru!Bytes(first)
<1>. DEFINE first == SubSeq(list, 1, n)
            rest == SubSeq(list, n + 1, Len(list))
            top == Len(list)
            left == top - n
<1>1. top \in Nat /\ n \in Nat /\ left \in Nat /\ n + left = top
    OBVIOUS
<1>2. first \in Seq(Items) /\ Len(first) = n /\ \A k \in 1 .. n : first[k] = list[k]
    BY SubSeqFacts
<1>3. rest \in Seq(Items) /\ Len(rest) = left /\ \A k \in 1 .. left : rest[k] = list[n + k]
    BY SubSeqFacts
<1>. HIDE DEF first, rest, left, top
<1>4. Lru!Totals(list)[n] - Lru!Totals(list)[0] = Lru!Totals(first)[n] - Lru!Totals(first)[0]
    <2>1. Agree(list, first, 0, n, 0, n)
        BY <1>1, <1>2 DEF Agree, top
    <2>. QED  BY <1>1, <1>2, <2>1, SameBytes
<1>5. Lru!Totals(list)[top] - Lru!Totals(list)[n] = Lru!Totals(rest)[left] - Lru!Totals(rest)[0]
    <2>1. Agree(list, rest, n, top, 0, left)
        BY <1>1, <1>3 DEF Agree, top
    <2>. QED  BY <1>1, <1>3, <2>1, SameBytes
<1>6. /\ Lru!Totals(list)[0] = 0 /\ Lru!Totals(first)[0] = 0 /\ Lru!Totals(rest)[0] = 0
      /\ Lru!Totals(list)[n] \in Nat /\ Lru!Totals(list)[top] \in Nat
      /\ Lru!Totals(first)[n] \in Nat /\ Lru!Totals(rest)[left] \in Nat
    <2>1. n \in 0 .. top /\ top \in 0 .. top /\ n \in 0 .. n /\ left \in 0 .. left
        BY <1>1
    <2>2. Len(list) = top /\ Len(first) = n /\ Len(rest) = left
        BY <1>2, <1>3 DEF top
    <2>. QED  BY <1>2, <1>3, <2>1, <2>2, TotalsAre
<1>7. Lru!Bytes(list) = Lru!Totals(list)[top] /\ Lru!Bytes(first) = Lru!Totals(first)[n]
      /\ Lru!Bytes(rest) = Lru!Totals(rest)[left]
    BY <1>2, <1>3 DEF Lru!Bytes, top
<1>8. Lru!Bytes(rest) = Lru!Bytes(list) - Lru!Bytes(first) /\ Lru!Bytes(first) \in Nat
    BY <1>4, <1>5, <1>6, <1>7
<1>. QED  BY <1>2, <1>3, <1>8 DEF first, rest, left, top

LEMMA BytesRemoved ==
    ASSUME NEW list \in Seq(Items), NEW n \in 1 .. Len(list)
    PROVE  LET fewer == RemoveAt(list, n)
           IN  /\ fewer \in Seq(Items) /\ Len(fewer) = Len(list) - 1
               /\ \A k \in 1 .. Len(fewer) : fewer[k] = list[IF k < n THEN k ELSE k + 1]
               /\ Size[list[n].content] \in Nat
               /\ Lru!Bytes(fewer) = Lru!Bytes(list) - Size[list[n].content]
<1>. DEFINE fewer == RemoveAt(list, n)
            first == SubSeq(list, 1, n - 1)
            rest == SubSeq(list, n + 1, Len(list))
            top == Len(list)
            before == n - 1
            after == top - n
            last == top - 1
<1>1. /\ top \in Nat /\ before \in Nat /\ after \in Nat /\ n \in Nat /\ last \in Nat
      /\ before + after = last /\ last + 1 = top /\ before + 1 = n /\ n + after = top
    OBVIOUS
<1>2. first \in Seq(Items) /\ Len(first) = before /\ \A k \in 1 .. before : first[k] = list[k]
    <2>1. before \in 0 .. Len(list)
        OBVIOUS
    <2>. QED  BY <2>1, SubSeqFacts
<1>3. rest \in Seq(Items) /\ Len(rest) = after /\ \A k \in 1 .. after : rest[k] = list[n + k]
    <2>1. n \in 0 .. Len(list)
        OBVIOUS
    <2>. QED  BY <2>1, SubSeqFacts
<1>4. fewer = first \o rest
    BY DEF RemoveAt
<1>. HIDE DEF first, rest, fewer, top, before, after, last
<1>5. /\ fewer \in Seq(Items) /\ Len(fewer) = last
      /\ \A k \in 1 .. before : fewer[k] = list[k]
      /\ \A k \in 1 .. after : fewer[before + k] = list[n + k]
    <2>0. first \in Seq(Items) /\ rest \in Seq(Items)
        BY <1>2, <1>3
    <2>1. /\ fewer \in Seq(Items) /\ Len(fewer) = Len(first) + Len(rest)
          /\ \A k \in 1 .. Len(first) : fewer[k] = first[k]
          /\ \A k \in 1 .. Len(rest) : fewer[Len(first) + k] = rest[k]
        BY <1>4, <2>0, ConcatFacts
    <2>2. ASSUME NEW k \in 1 .. after PROVE fewer[before + k] = list[n + k]
        <3>1. fewer[Len(first) + k] = rest[k]
            BY <1>3, <2>1
        <3>. QED  BY <1>2, <1>3, <3>1
    <2>3. \A k \in 1 .. before : fewer[k] = list[k]
        BY <1>2, <2>1
    <2>. QED  BY <1>1, <1>2, <1>3, <2>1, <2>2, <2>3
<1>6. Lru!Totals(list)[before] - Lru!Totals(list)[0]
          = Lru!Totals(fewer)[before] - Lru!Totals(fewer)[0]
    <2>1. Agree(list, fewer, 0, before, 0, before)
        BY <1>1, <1>5 DEF Agree, top
    <2>. QED  BY <1>1, <1>5, <2>1, SameBytes
<1>7. Lru!Totals(list)[top] - Lru!Totals(list)[n]
          = Lru!Totals(fewer)[last] - Lru!Totals(fewer)[before]
    <2>1. Agree(list, fewer, n, top, before, last)
        BY <1>1, <1>5 DEF Agree, top
    <2>. QED  BY <1>1, <1>5, <2>1, SameBytes
<1>8. /\ Lru!Totals(list)[0] = 0 /\ Lru!Totals(fewer)[0] = 0
      /\ Lru!Totals(list)[n] = Lru!Totals(list)[n - 1] + Size[list[n].content]
      /\ Size[list[n].content] \in Nat
      /\ Lru!Totals(list)[before] \in Nat /\ Lru!Totals(list)[top] \in Nat
      /\ Lru!Totals(fewer)[before] \in Nat /\ Lru!Totals(fewer)[last] \in Nat
    <2>1. /\ before \in 0 .. top /\ top \in 0 .. top /\ before \in 0 .. last
          /\ last \in 0 .. last
        BY <1>1
    <2>2. Len(list) = top /\ Len(fewer) = last
        BY <1>5 DEF top
    <2>. QED  BY <1>5, <2>1, <2>2, TotalsAre
<1>9. n - 1 = before
    BY <1>1
<1>10. /\ Lru!Bytes(list) = Lru!Totals(list)[top]
       /\ Lru!Bytes(fewer) = Lru!Totals(fewer)[last]
    BY <1>5 DEF Lru!Bytes, top
<1>11. Lru!Bytes(fewer) = Lru!Bytes(list) - Size[list[n].content]
    <2>. DEFINE size == Size[list[n].content]
                a == Lru!Totals(list)[before]
                b == Lru!Totals(list)[n]
                c == Lru!Totals(list)[top]
                d == Lru!Totals(fewer)[before]
                e == Lru!Totals(fewer)[last]
    <2>1. /\ size \in Nat /\ a \in Nat /\ c \in Nat /\ d \in Nat /\ e \in Nat /\ b = a + size
          /\ c - b = e - d
        BY <1>7, <1>8, <1>9
    <2>2. a - 0 = d - 0
        BY <1>6, <1>8
    <2>. HIDE DEF size, a, b, c, d, e
    <2>3. e = c - size
        BY <2>1, <2>2
    <2>. QED  BY <1>10, <2>3 DEF size, c, e
<1>12. ASSUME NEW k \in 1 .. Len(fewer) PROVE fewer[k] = list[IF k < n THEN k ELSE k + 1]
    <2>1. CASE k < n
        BY <1>1, <1>5, <2>1
    <2>2. CASE ~(k < n)
        <3>1. k - before \in 1 .. after /\ before + (k - before) = k /\ n + (k - before) = k + 1
            BY <1>1, <1>5, <2>2
        <3>. QED  BY <1>5, <2>2, <3>1
    <2>. QED  BY <2>1, <2>2
<1>. QED  BY <1>1, <1>5, <1>8, <1>11, <1>12 DEF fewer, top, last

-----------------------------------------------------------------------------
(***************************************************************************)
(* The cache of a resolver: it counts the bytes it holds, and holds for    *)
(* each path, once, what the index names.                                  *)
(***************************************************************************)
Named(list, pub, stack) ==
    \A i \in DOMAIN list : list[i].content = WinnerIn(pub, stack, list[i].key).content
Distinct(list) == \A i, j \in DOMAIN list : list[i].key = list[j].key => i = j
Without(list, key) == \A i \in DOMAIN list : list[i].key # key

CacheFits(lru, pub, stack) ==
    /\ lru \in [entries : Seq(Items), used : Nat]
    /\ lru.used = Lru!Bytes(lru.entries)
    /\ lru.used <= Budget
    /\ Named(lru.entries, pub, stack)
    /\ Distinct(lru.entries)

LEMMA EmptyFits ==
    ASSUME NEW pub, NEW stack
    PROVE  CacheFits(Lru!EmptyCache, pub, stack)
<1>1. <<>> \in Seq(Items) /\ Len(<<>>) = 0 /\ DOMAIN <<>> = {}
    OBVIOUS
<1>2. Lru!Bytes(<<>>) = 0
    <2>1. Lru!Totals(<<>>)[0] = 0
        BY <1>1, TotalsAre
    <2>. QED  BY <1>1, <2>1 DEF Lru!Bytes
<1>3. 0 \in Nat /\ 0 <= Budget
    <2>1. Budget \in Nat
        BY OverlayAssumption
    <2>. QED  BY <2>1
<1>. QED  BY <1>1, <1>2, <1>3 DEF CacheFits, Lru!EmptyCache, Named, Distinct

LEMMA PlaceIs ==
    ASSUME NEW lru, lru.entries \in Seq(Items), NEW key, Lru!Holds(lru, key)
    PROVE  /\ Lru!Place(lru, key) \in 1 .. Len(lru.entries)
           /\ lru.entries[Lru!Place(lru, key)].key = key
           /\ lru.entries[Lru!Place(lru, key)] \in Items
           /\ Lru!Held(lru, key) = lru.entries[Lru!Place(lru, key)].content
           /\ Lru!Held(lru, key) \in Contents /\ key \in Paths
<1>1. DOMAIN lru.entries = 1 .. Len(lru.entries)
    OBVIOUS
<1>2. /\ Lru!Place(lru, key) \in 1 .. Len(lru.entries)
      /\ lru.entries[Lru!Place(lru, key)].key = key
    BY <1>1 DEF Lru!Holds, Lru!Place
<1>3. lru.entries[Lru!Place(lru, key)] \in Items
    BY <1>2
<1>. QED  BY <1>2, <1>3 DEF Lru!Held, Items

LEMMA OthersFit ==
    ASSUME NEW lru, NEW pub, NEW stack, CacheFits(lru, pub, stack), NEW key, Lru!Holds(lru, key)
    PROVE  /\ Lru!Others(lru, key) \in Seq(Items)
           /\ Size[Lru!Held(lru, key)] \in Nat
           /\ Lru!Bytes(Lru!Others(lru, key)) = lru.used - Size[Lru!Held(lru, key)]
           /\ Named(Lru!Others(lru, key), pub, stack)
           /\ Distinct(Lru!Others(lru, key))
           /\ Without(Lru!Others(lru, key), key)
<1>. DEFINE list == lru.entries
            n == Lru!Place(lru, key)
            fewer == Lru!Others(lru, key)
<1>1. list \in Seq(Items) /\ Named(list, pub, stack) /\ Distinct(list) /\ lru.used = Lru!Bytes(list)
    BY DEF CacheFits
<1>2. n \in 1 .. Len(list) /\ list[n].key = key /\ Lru!Held(lru, key) = list[n].content
    BY <1>1, PlaceIs
<1>3. fewer = RemoveAt(list, n)
    BY DEF Lru!Others, Lru!RemoveAt, RemoveAt
<1>. HIDE DEF list, n, fewer
<1>4. /\ fewer \in Seq(Items) /\ Len(fewer) = Len(list) - 1
      /\ \A k \in 1 .. Len(fewer) : fewer[k] = list[IF k < n THEN k ELSE k + 1]
      /\ Size[list[n].content] \in Nat
      /\ Lru!Bytes(fewer) = Lru!Bytes(list) - Size[list[n].content]
    BY <1>1, <1>2, <1>3, BytesRemoved
<1>5. /\ DOMAIN fewer = 1 .. Len(fewer) /\ DOMAIN list = 1 .. Len(list)
      /\ Len(fewer) \in Nat /\ Len(list) \in Nat
    BY <1>1, <1>4
<1>. DEFINE from(k) == IF k < n THEN k ELSE k + 1
<1>6. ASSUME NEW k \in DOMAIN fewer
      PROVE  from(k) \in DOMAIN list /\ from(k) # n /\ fewer[k] = list[from(k)]
    <2>1. from(k) \in 1 .. Len(list) /\ from(k) # n
        BY <1>2, <1>4, <1>5
    <2>. QED  BY <1>4, <1>5, <2>1
<1>7. \A j, k \in DOMAIN fewer : from(j) = from(k) => j = k
    BY <1>2, <1>5
<1>. HIDE DEF from
<1>8. n \in DOMAIN list
    BY <1>2, <1>5
<1>9. Named(fewer, pub, stack)
    BY <1>1, <1>6 DEF Named
<1>10. Distinct(fewer)
    BY <1>1, <1>6, <1>7 DEF Distinct
<1>11. Without(fewer, key)
    BY <1>1, <1>2, <1>6, <1>8 DEF Distinct, Without
<1>12. /\ Size[Lru!Held(lru, key)] \in Nat
       /\ Lru!Bytes(fewer) = lru.used - Size[Lru!Held(lru, key)]
    BY <1>1, <1>2, <1>4
<1>. QED  BY <1>4, <1>9, <1>10, <1>11, <1>12 DEF fewer

\* What the index names, put at the end of a list without its key.
LEMMA AppendFits ==
    ASSUME NEW list \in Seq(Items), NEW pub, NEW stack, Named(list, pub, stack), Distinct(list),
           NEW key \in Paths, Without(list, key), NEW content \in Contents,
           content = WinnerIn(pub, stack, key).content
    PROVE  LET more == Append(list, [key |-> key, content |-> content])
           IN  /\ more \in Seq(Items)
               /\ Lru!Bytes(more) = Lru!Bytes(list) + Size[content]
               /\ Lru!Bytes(list) \in Nat /\ Size[content] \in Nat
               /\ Named(more, pub, stack) /\ Distinct(more)
<1>. DEFINE item == [key |-> key, content |-> content]
            more == Append(list, item)
<1>1. item \in Items /\ item.key = key /\ item.content = content
    BY DEF Items
<1>2. Size[content] \in Nat
    BY AuthorAssumption
<1>. HIDE DEF item
<1>3. /\ more \in Seq(Items) /\ Len(more) = Len(list) + 1 /\ Len(list) \in Nat
      /\ DOMAIN list = 1 .. Len(list) /\ DOMAIN more = 1 .. Len(list) + 1
      /\ more[Len(list) + 1] = item
      /\ \A i \in 1 .. Len(list) : more[i] = list[i]
    BY <1>1, AppendFacts
<1>4. Lru!Bytes(more) = Lru!Bytes(list) + Size[content] /\ Lru!Bytes(list) \in Nat
    BY <1>1, BytesAppended
<1>. HIDE DEF more
<1>5. ASSUME NEW i \in DOMAIN more
      PROVE  \/ i \in DOMAIN list /\ more[i] = list[i]
             \/ i = Len(list) + 1 /\ more[i] = item
    BY <1>3
<1>6. Named(more, pub, stack)
    BY <1>1, <1>5 DEF Named
<1>7. Distinct(more)
    BY <1>1, <1>5 DEF Distinct, Without
<1>. QED  BY <1>2, <1>3, <1>4, <1>6, <1>7 DEF more, item

LEMMA TouchFits ==
    ASSUME NEW lru, NEW pub, NEW stack, CacheFits(lru, pub, stack), NEW key, Lru!Holds(lru, key)
    PROVE  CacheFits(Lru!Touch(lru, key), pub, stack)
<1>. DEFINE others == Lru!Others(lru, key)
            held == Lru!Held(lru, key)
            more == Append(others, [key |-> key, content |-> held])
<1>1. /\ lru \in [entries : Seq(Items), used : Nat] /\ lru.used <= Budget
      /\ Named(lru.entries, pub, stack)
    BY DEF CacheFits
<1>2. /\ others \in Seq(Items) /\ Size[held] \in Nat /\ Lru!Bytes(others) = lru.used - Size[held]
      /\ Named(others, pub, stack) /\ Distinct(others) /\ Without(others, key)
    BY OthersFit
<1>3. key \in Paths /\ held \in Contents /\ held = WinnerIn(pub, stack, key).content
    <2>1. /\ Lru!Place(lru, key) \in DOMAIN lru.entries
          /\ lru.entries[Lru!Place(lru, key)].key = key
          /\ held = lru.entries[Lru!Place(lru, key)].content
          /\ key \in Paths /\ held \in Contents
        BY <1>1, PlaceIs
    <2>. QED  BY <1>1, <2>1 DEF Named
<1>4. Lru!Touch(lru, key) = [lru EXCEPT !.entries = more]
    BY DEF Lru!Touch
<1>. HIDE DEF others, held
<1>5. /\ more \in Seq(Items) /\ Lru!Bytes(more) = Lru!Bytes(others) + Size[held]
      /\ Named(more, pub, stack) /\ Distinct(more)
    BY <1>2, <1>3, AppendFits
<1>. HIDE DEF more
<1>6. Lru!Bytes(more) = lru.used
    <2>. DEFINE size == Size[held]
                used == lru.used
    <2>1. size \in Nat /\ used \in Nat /\ Lru!Bytes(others) = used - size
          /\ Lru!Bytes(more) = Lru!Bytes(others) + size
        BY <1>1, <1>2, <1>5
    <2>. HIDE DEF size, used
    <2>2. Lru!Bytes(more) = used
        BY <2>1
    <2>. QED  BY <2>2 DEF used
<1>7. Lru!Touch(lru, key) = [entries |-> more, used |-> lru.used]
    BY <1>1, <1>4
<1>. QED  BY <1>1, <1>5, <1>6, <1>7 DEF CacheFits

LEMMA DroppedFits ==
    ASSUME NEW lru, NEW pub, NEW stack, CacheFits(lru, pub, stack), NEW key
    PROVE  /\ CacheFits(Lru!Dropped(lru, key), pub, stack)
           /\ Without(Lru!Dropped(lru, key).entries, key)
<1>1. CASE ~Lru!Holds(lru, key)
    BY <1>1 DEF Lru!Dropped, Lru!Holds, Without
<1>2. CASE Lru!Holds(lru, key)
    <2>. DEFINE others == Lru!Others(lru, key)
                size == Size[Lru!Held(lru, key)]
    <2>1. lru.used \in Nat /\ lru.used <= Budget /\ Budget \in Nat
        BY OverlayAssumption DEF CacheFits
    <2>2. /\ others \in Seq(Items) /\ size \in Nat /\ Lru!Bytes(others) = lru.used - size
          /\ Named(others, pub, stack) /\ Distinct(others) /\ Without(others, key)
        BY <1>2, OthersFit
    <2>3. Lru!Dropped(lru, key) = [entries |-> others, used |-> lru.used - size]
        BY <1>2 DEF Lru!Dropped
    <2>4. Lru!Bytes(others) \in Nat
        BY <2>2, TotalsAre DEF Lru!Bytes
    <2>. HIDE DEF others, size
    <2>5. lru.used - size \in Nat /\ lru.used - size <= Budget
        BY <2>1, <2>2, <2>4
    <2>. QED  BY <2>2, <2>3, <2>5 DEF CacheFits
<1>. QED  BY <1>1, <1>2

LEMMA EvictedFits ==
    ASSUME NEW lru, NEW pub, NEW stack, CacheFits(lru, pub, stack), NEW n \in 0 .. Len(lru.entries),
           NEW key, Without(lru.entries, key)
    PROVE  /\ CacheFits(Lru!Evicted(lru, n), pub, stack)
           /\ Without(Lru!Evicted(lru, n).entries, key)
<1>. DEFINE list == lru.entries
            first == SubSeq(list, 1, n)
            rest == SubSeq(list, n + 1, Len(list))
<1>1. /\ list \in Seq(Items) /\ lru.used = Lru!Bytes(list) /\ lru.used \in Nat /\ lru.used <= Budget
      /\ Named(list, pub, stack) /\ Distinct(list) /\ Budget \in Nat
    BY OverlayAssumption DEF CacheFits
<1>2. Lru!Evicted(lru, n) = [entries |-> rest, used |-> lru.used - Lru!Bytes(first)]
    BY DEF Lru!Evicted
<1>3. /\ rest \in Seq(Items) /\ Lru!Bytes(first) \in Nat
      /\ Len(rest) = Len(list) - n /\ \A k \in 1 .. Len(rest) : rest[k] = list[n + k]
      /\ Lru!Bytes(rest) = Lru!Bytes(list) - Lru!Bytes(first)
    BY <1>1, BytesSplit
<1>. HIDE DEF list, first, rest
<1>4. Lru!Bytes(rest) \in Nat
    BY <1>3, BytesAppended, TotalsAre DEF Lru!Bytes
<1>5. ASSUME NEW k \in DOMAIN rest
      PROVE  n + k \in DOMAIN list /\ rest[k] = list[n + k] /\ k \in Nat
    <2>1. k \in 1 .. Len(rest) /\ DOMAIN list = 1 .. Len(list) /\ Len(list) \in Nat /\ n \in 0 .. Len(list)
        BY <1>1, <1>3 DEF list
    <2>. QED  BY <1>3, <2>1
<1>6. Named(rest, pub, stack)
    BY <1>1, <1>5 DEF Named
<1>7. Distinct(rest)
    <2>. SUFFICES ASSUME NEW i \in DOMAIN rest, NEW j \in DOMAIN rest, rest[i].key = rest[j].key
                  PROVE  i = j
        BY DEF Distinct
    <2>1. n + i = n + j
        BY <1>1, <1>5 DEF Distinct
    <2>. QED  BY <1>5, <2>1
<1>8. Without(rest, key)
    BY <1>5 DEF Without, list
<1>9. lru.used - Lru!Bytes(first) = Lru!Bytes(rest) /\ lru.used - Lru!Bytes(first) <= Budget
    BY <1>1, <1>3, <1>4
<1>. QED  BY <1>2, <1>3, <1>4, <1>6, <1>7, <1>8, <1>9 DEF CacheFits

LEMMA RoomFits ==
    ASSUME NEW lru, NEW pub, NEW stack, CacheFits(lru, pub, stack), NEW key,
           Without(lru.entries, key), NEW length
    PROVE  /\ CacheFits(Lru!Room(lru, length), pub, stack)
           /\ Without(Lru!Room(lru, length).entries, key)
<1>. DEFINE fit == {n \in 0 .. Len(lru.entries) : Lru!Evicted(lru, n).used + length <= Budget}
            go == IF fit = {} THEN Len(lru.entries)
                  ELSE CHOOSE n \in fit : \A m \in fit : n <= m
<1>1. lru.entries \in Seq(Items)
    BY DEF CacheFits
<1>2. Len(lru.entries) \in Nat
    BY <1>1
<1>3. fit \in SUBSET (0 .. Len(lru.entries)) /\ fit \in SUBSET Nat
    OBVIOUS
<1>4. Lru!Room(lru, length) = Lru!Evicted(lru, go)
    BY DEF Lru!Room
<1>. HIDE DEF fit
<1>5. go \in 0 .. Len(lru.entries)
    <2>1. CASE fit = {}
        BY <1>2, <2>1
    <2>2. CASE fit # {}
        <3>1. \E n \in fit : \A m \in fit : n <= m
            BY <1>3, <2>2, SmallestExists
        <3>2. go \in fit
            BY <2>2, <3>1
        <3>. HIDE DEF go
        <3>. QED  BY <1>3, <3>2
    <2>. QED  BY <2>1, <2>2
<1>. HIDE DEF go
<1>. QED  BY <1>4, <1>5, EvictedFits

LEMMA InsertFits ==
    ASSUME NEW lru, NEW pub, NEW stack, CacheFits(lru, pub, stack), NEW key \in Paths,
           NEW content \in Contents, content = WinnerIn(pub, stack, key).content
    PROVE  CacheFits(Lru!Insert(lru, key, content), pub, stack)
<1>. DEFINE room == Lru!Room(Lru!Dropped(lru, key), Size[content])
            more == Append(room.entries, [key |-> key, content |-> content])
<1>1. CacheFits(room, pub, stack) /\ Without(room.entries, key)
    BY DroppedFits, RoomFits
<1>2. \/ Lru!Insert(lru, key, content) \in {lru, room}
      \/ /\ ~(room.used + Size[content] > Budget)
         /\ Lru!Insert(lru, key, content) = [entries |-> more, used |-> room.used + Size[content]]
    BY DEF Lru!Insert
<1>. HIDE DEF room
<1>3. CASE Lru!Insert(lru, key, content) \in {lru, room}
    BY <1>1, <1>3
<1>4. CASE /\ ~(room.used + Size[content] > Budget)
           /\ Lru!Insert(lru, key, content) = [entries |-> more, used |-> room.used + Size[content]]
    <2>1. /\ room.entries \in Seq(Items) /\ room.used = Lru!Bytes(room.entries)
          /\ Named(room.entries, pub, stack) /\ Distinct(room.entries)
        BY <1>1 DEF CacheFits
    <2>2. /\ more \in Seq(Items) /\ Lru!Bytes(more) = Lru!Bytes(room.entries) + Size[content]
          /\ Lru!Bytes(room.entries) \in Nat /\ Size[content] \in Nat
          /\ Named(more, pub, stack) /\ Distinct(more)
        BY <1>1, <2>1, AppendFits
    <2>. HIDE DEF more
    <2>. DEFINE used == room.used + Size[content]
    <2>3. used = Lru!Bytes(more) /\ used \in Nat
        BY <2>1, <2>2
    <2>4. Budget \in Nat
        BY OverlayAssumption
    <2>5. used <= Budget
        BY <1>4, <2>3, <2>4
    <2>. HIDE DEF used
    <2>6. Lru!Insert(lru, key, content) = [entries |-> more, used |-> used]
        BY <1>4 DEF used
    <2>. QED  BY <2>2, <2>3, <2>5, <2>6 DEF CacheFits
<1>. QED  BY <1>2, <1>3, <1>4

-----------------------------------------------------------------------------
(***************************************************************************)
(* The results of deltas.  Rebuilding takes none away, and when it ends    *)
(* well all are there that the stack needs.                                *)
(***************************************************************************)
Dirs == [Contents -> {"none", "good", "bad"}]
KeepsGood(dir, new) == \A c \in Contents : dir[c] = "good" => new[c] = "good"

LEMMA EntriesAre ==
    ASSUME NEW pub, PublishedOK(pub), NEW stack \in Seq(1 .. Len(pub)), NEW i \in 1 .. Len(stack),
           NEW p \in DOMAIN pub[stack[i]].entries
    PROVE  pub[stack[i]].entries[p] \in Entry
<1>1. stack[i] \in 1 .. Len(pub)
    OBVIOUS
<1>2. pub[stack[i]] \in PackRecords
    BY <1>1, PackedFacts
<1>. QED  BY <1>2 DEF PackRecords

LEMMA EntryKinds ==
    ASSUME NEW e \in Entry
    PROVE  /\ e.op \in {"delete", "full", "delta"}
           /\ e.op \in {"full", "delta"} => e.content \in Contents
<1>1. CASE e = Tombstone
    BY <1>1 DEF Tombstone
<1>2. ASSUME NEW c \in Contents, e = Full(c) PROVE e.op = "full" /\ e.content \in Contents
    BY <1>2 DEF Full
<1>3. ASSUME NEW c \in Contents, NEW b, e = Delta(b, c) PROVE e.op = "delta" /\ e.content \in Contents
    BY <1>3 DEF Delta
<1>. QED  BY <1>1, <1>2, <1>3 DEF Entry

LEMMA NeededAre ==
    ASSUME NEW pub, PublishedOK(pub), NEW stack \in Seq(1 .. Len(pub))
    PROVE  /\ NeededIn(pub, stack) \subseteq Contents
           /\ \A i \in 1 .. Len(stack) : Results(pub[stack[i]].entries) \subseteq Contents
<1>1. ASSUME NEW i \in 1 .. Len(stack) PROVE Results(pub[stack[i]].entries) \subseteq Contents
    <2>1. ASSUME NEW p \in Deltas(pub[stack[i]].entries)
          PROVE  pub[stack[i]].entries[p].content \in Contents
        <3>1. p \in DOMAIN pub[stack[i]].entries /\ pub[stack[i]].entries[p].op = "delta"
            BY DEF Deltas
        <3>. QED  BY <3>1, EntriesAre, EntryKinds
    <2>. QED  BY <2>1 DEF Results
<1>2. DOMAIN stack = 1 .. Len(stack)
    OBVIOUS
<1>. QED  BY <1>1, <1>2 DEF NeededIn

\* One layer.
LEMMA LayerRebuilt ==
    ASSUME PublishedOK(published), NEW stack \in Seq(1 .. Len(published)), NEW i \in 1 .. Len(stack),
           NEW dir \in Dirs
    PROVE  LET new == Materialized(dir, stack, i)
           IN  /\ new \in Dirs /\ KeepsGood(dir, new)
               /\ LayerSucceeds(dir, stack, i) => \A c \in Results(Layer(stack[i])) : new[c] = "good"
<1>. DEFINE new == Materialized(dir, stack, i)
            done == Rebuildable(stack, i, dir)
<1>1. new = [c \in Contents |-> IF \E p \in done : ResultOf(stack, i, p) = c THEN "good" ELSE dir[c]]
    BY DEF Materialized, WithResults
<1>. HIDE DEF new, done
<1>2. new \in Dirs
    BY <1>1 DEF Dirs
<1>3. KeepsGood(dir, new)
    BY <1>1 DEF KeepsGood
<1>4. ASSUME LayerSucceeds(dir, stack, i), NEW p \in Deltas(Layer(stack[i]))
      PROVE  new[Layer(stack[i])[p].content] = "good"
    <2>. DEFINE c == Layer(stack[i])[p].content
    <2>1. c \in Contents
        <3>1. Results(Layer(stack[i])) \subseteq Contents
            BY NeededAre DEF Layer
        <3>. QED  BY <3>1 DEF Results
    <2>2. CASE dir[c] = "good"
        BY <1>3, <2>1, <2>2 DEF KeepsGood
    <2>3. CASE dir[c] # "good"
        <3>1. p \in done
            <4>1. done = Lacking(stack, i, dir)
                BY <1>4 DEF LayerSucceeds, done
            <4>2. p \in Lacking(stack, i, dir)
                BY <1>4, <2>3 DEF Lacking, DeltasOf, ResultOf
            <4>. QED  BY <4>1, <4>2
        <3>2. ResultOf(stack, i, p) = c
            BY DEF ResultOf
        <3>. HIDE DEF c
        <3>3. new[c] = "good"
            BY <1>1, <2>1, <3>1, <3>2
        <3>. QED  BY <3>3 DEF c
    <2>. QED  BY <2>2, <2>3
<1>. QED  BY <1>2, <1>3, <1>4 DEF new, Results

LEMMA Rebuilt ==
    ASSUME PublishedOK(published), NEW stack \in Seq(1 .. Len(published)), NEW dir \in Dirs
    PROVE  LET end == Rebuild(stack, dir)
           IN  /\ end.dir \in Dirs /\ KeepsGood(dir, end.dir)
               /\ end.ok => \A c \in NeededIn(published, stack) : end.dir[c] = "good"
<1>. DEFINE R == Rebuilding(stack, dir)
            Good(n) == \A i \in 1 .. n : \A c \in Results(Layer(stack[i])) : R[n].dir[c] = "good"
            T == {n \in Nat : /\ R[n].dir \in Dirs /\ KeepsGood(dir, R[n].dir)
                              /\ R[n].ok => Good(n)}
<1>1. /\ Len(stack) \in Nat /\ DOMAIN stack = 1 .. Len(stack)
      /\ \A i \in 1 .. Len(stack) : Results(Layer(stack[i])) \subseteq Contents
    BY NeededAre DEF Layer
<1>2. /\ R[0] = [ok |-> TRUE, dir |-> dir]
      /\ \A n \in 1 .. Len(stack) : R[n] = RebuildOn(R[n - 1], stack, n)
    <2>1. IsRebuilding(R, stack, dir, Len(stack))
        BY <1>1, RebuildingDefined
    <2>. HIDE DEF R
    <2>2. 0 \in 0 .. Len(stack) /\ \A n \in 1 .. Len(stack) : n \in 0 .. Len(stack) /\ n # 0
        BY <1>1
    <2>. QED  BY <2>1, <2>2 DEF IsRebuilding
<1>. HIDE DEF R
<1>3. 0 \in T
    BY <1>2 DEF KeepsGood
<1>4. ASSUME NEW n \in 0 .. Len(stack), n \in T, n < Len(stack) PROVE n + 1 \in T
    <2>. DEFINE below == R[n].dir
                new == Materialized(below, stack, n + 1)
    <2>1. n + 1 \in 1 .. Len(stack) /\ (n + 1) - 1 = n /\ n + 1 \in Nat
        BY <1>1, <1>4
    <2>2. R[n + 1] = RebuildOn(R[n], stack, n + 1)
        BY <1>2, <2>1
    <2>3. below \in Dirs /\ KeepsGood(dir, below) /\ (R[n].ok => Good(n))
        BY <1>4
    <2>4. CASE ~R[n].ok
        <3>1. R[n + 1] = R[n]
            BY <2>2, <2>4 DEF RebuildOn
        <3>2. R[n + 1].dir \in Dirs /\ KeepsGood(dir, R[n + 1].dir) /\ ~R[n + 1].ok
            BY <2>3, <2>4, <3>1
        <3>. HIDE DEF Good
        <3>. QED  BY <2>1, <3>2
    <2>5. CASE R[n].ok
        <3>1. R[n + 1].dir = new /\ R[n + 1].ok = LayerSucceeds(below, stack, n + 1)
            BY <2>2, <2>5 DEF RebuildOn
        <3>2. /\ new \in Dirs /\ KeepsGood(below, new)
              /\ LayerSucceeds(below, stack, n + 1)
                    => \A c \in Results(Layer(stack[n + 1])) : new[c] = "good"
            BY <2>1, <2>3, LayerRebuilt
        <3>. HIDE DEF below, new
        <3>3. KeepsGood(dir, new)
            BY <2>3, <3>2 DEF KeepsGood
        <3>4. ASSUME R[n + 1].ok, NEW i \in 1 .. n + 1, NEW c \in Results(Layer(stack[i]))
              PROVE  new[c] = "good"
            <4>1. CASE i = n + 1
                BY <3>1, <3>2, <3>4, <4>1
            <4>2. CASE i # n + 1
                <5>1. i \in 1 .. n /\ i \in 1 .. Len(stack)
                    BY <2>1, <4>2
                <5>2. below[c] = "good" /\ c \in Contents
                    BY <1>1, <2>3, <2>5, <3>4, <5>1 DEF below
                <5>. QED  BY <3>2, <5>2 DEF KeepsGood
            <4>. QED  BY <4>1, <4>2
        <3>5. R[n + 1].ok => Good(n + 1)
            BY <3>1, <3>4
        <3>. HIDE DEF Good
        <3>. QED  BY <2>1, <3>1, <3>2, <3>3, <3>5
    <2>. QED  BY <2>4, <2>5
<1>5. Len(stack) \in T
    <2>1. Len(stack) \in 0 .. Len(stack)
        BY <1>1
    <2>. HIDE DEF T
    <2>. QED  BY <1>1, <1>3, <1>4, <2>1, UpTo
<1>. DEFINE end == R[Len(stack)]
<1>6. /\ end.dir \in Dirs /\ KeepsGood(dir, end.dir)
      /\ end.ok => \A i \in DOMAIN stack : \A c \in Results(Layer(stack[i])) : end.dir[c] = "good"
    BY <1>1, <1>5
<1>7. Rebuild(stack, dir) = end
    BY DEF Rebuild, R
<1>8. NeededIn(published, stack) = UNION {Results(Layer(stack[i])) : i \in DOMAIN stack}
    BY DEF NeededIn, Layer
<1>. HIDE DEF end
<1>. QED  BY <1>6, <1>7, <1>8

\* What is left of a stack when layers do not load needs no more.
LEMMA KeptNeeds ==
    ASSUME NEW pub, NEW stack \in Seq(1 .. Len(pub)), NEW loading
    PROVE  /\ Kept(stack, loading) \in Seq(1 .. Len(pub))
           /\ NeededIn(pub, Kept(stack, loading)) \subseteq NeededIn(pub, stack)
<1>. DEFINE kept == Kept(stack, loading)
            N == 1 .. Len(pub)
<1>1. kept \in Seq(N) /\ Selects(kept, stack, loading, Len(stack))
    <2>. HIDE DEF N
    <2>1. stack \in Seq(N)
        BY DEF N
    <2>. QED  BY <2>1, KeptSelects
<1>. HIDE DEF kept
<1>2. PICK place : Picks(place, kept, stack, loading, Len(stack))
    BY <1>1 DEF Selects
<1>3. DOMAIN kept = 1 .. Len(kept) /\ DOMAIN stack = 1 .. Len(stack)
    BY <1>1
<1>4. \A k \in DOMAIN kept : place[k] \in DOMAIN stack /\ kept[k] = stack[place[k]]
    BY <1>2, <1>3 DEF Picks
<1>5. NeededIn(pub, kept) \subseteq NeededIn(pub, stack)
    BY <1>4 DEF NeededIn
<1>. QED  BY <1>1, <1>5 DEF kept

-----------------------------------------------------------------------------
(***************************************************************************)
(* The inductive invariant.  Besides what the properties say it knows what *)
(* every pack is, that stacks are of packs that were published, that a     *)
(* request under way is for a file, that the repair thread is at a layer   *)
(* that runs, and that an app that is down has left nothing behind.        *)
(***************************************************************************)
Present(pub, stack, dir, gone) == \A c \in NeededIn(pub, stack) : dir[c] = "good" \/ c \in gone
IsFile(w) == w.op \in {"full", "delta"} /\ w.content \in Contents

StacksOK ==
    \A stack \in {staged, active, committed, running} :
        /\ stack \in Seq(1 .. Len(published))
        /\ Present(published, stack, results, purged)
ReadingOK ==
    /\ reading \in [Paths -> Nat]
    /\ \A p \in Paths : reading[p] > 0 => IsFile(WinnerIn(published, running, p))
RepairOK == repair \in 0 .. Len(running)
DownIsEmpty == ~up => running = <<>> /\ reading = NotReading /\ cache = Lru!EmptyCache

OverlayInv ==
    /\ PublishedOK(published)
    /\ StacksOK
    /\ results \in Dirs
    /\ ReadingOK
    /\ RepairOK
    /\ DownIsEmpty
    /\ CacheFits(cache, published, running)

LEMMA NothingNeeded == ASSUME NEW pub, NEW dir, NEW gone PROVE Present(pub, <<>>, dir, gone)
<1>1. DOMAIN <<>> = {}
    OBVIOUS
<1>. QED  BY <1>1 DEF Present, NeededIn

LEMMA ChainIs ==
    ASSUME PublishedOK(published), NEW n \in 1 .. Len(published)
    PROVE  /\ Chain(n) = ChainsOf(published)[n]
           /\ Chain(n) \in Seq(1 .. Len(published))
           /\ Len(Chain(n)) \in Nat
<1>1. Chain(n) = ChainsOf(published)[n]
    BY DEF Chain, Chains, ChainsOf
<1>2. Len(published) \in Nat /\ n \in 0 .. Len(published) /\ 1 .. n \subseteq 1 .. Len(published)
    BY DEF PublishedOK
<1>3. ChainsOf(published)[n] \in Seq(1 .. n)
    BY <1>2, ChainsAre
<1>4. ChainsOf(published)[n] \in Seq(1 .. Len(published))
    BY <1>2, <1>3, WiderSeq
<1>. QED  BY <1>1, <1>4

\* Results that come back, and packs that come on top, leave what is present.
LEMMA PresentGrows ==
    ASSUME NEW pub, PublishedOK(pub), NEW stack \in Seq(1 .. Len(pub)), NEW dir, NEW gone,
           Present(pub, stack, dir, gone), NEW new, KeepsGood(dir, new)
    PROVE  Present(pub, stack, new, {c \in gone : new[c] # "good"})
<1>1. NeededIn(pub, stack) \subseteq Contents
    BY NeededAre
<1>. QED  BY <1>1 DEF Present, KeepsGood

LEMMA ResultsGrow ==
    ASSUME OverlayInv, NEW new \in Dirs, KeepsGood(results, new), Changed(new),
           UNCHANGED <<published, active, committed, running, up, reading, cache>>,
           repair' \in 0 .. Len(running),
           \/ staged' = staged
           \/ /\ staged' \in Seq(1 .. Len(published))
              /\ Present(published, staged', new, {})
    PROVE  OverlayInv'
<1>1. results' = new /\ purged' = {c \in purged : new[c] # "good"}
    BY DEF Changed
<1>2. ASSUME NEW stack \in {staged, active, committed, running}
      PROVE  stack \in Seq(1 .. Len(published)) /\ Present(published, stack, results', purged')
    <2>1. stack \in Seq(1 .. Len(published)) /\ Present(published, stack, results, purged)
        BY DEF OverlayInv, StacksOK
    <2>. QED  BY <1>1, <2>1, PresentGrows DEF OverlayInv
<1>3. staged' \in Seq(1 .. Len(published)) /\ Present(published, staged', results', purged')
    BY <1>1, <1>2 DEF Present
<1>4. StacksOK'
    BY <1>2, <1>3 DEF StacksOK
<1>. QED  BY <1>1, <1>4 DEF OverlayInv, ReadingOK, RepairOK, DownIsEmpty

LEMMA StageKeeps ==
    ASSUME OverlayInv, NEW n \in Newest, Stage(n) \/ StageFails(n)
    PROVE  OverlayInv'
<1>1. /\ PublishedOK(published) /\ n \in 1 .. Len(published) /\ results \in Dirs
      /\ Chain(n) \in Seq(1 .. Len(published)) /\ Len(Chain(n)) \in Nat
    <2>1. PublishedOK(published) /\ results \in Dirs /\ Len(published) \in Nat
        BY DEF OverlayInv, PublishedOK
    <2>2. n \in 1 .. Len(published)
        BY <2>1 DEF Newest
    <2>. QED  BY <2>1, <2>2, ChainIs
<1>4. repair \in 0 .. Len(running)
    BY DEF OverlayInv, RepairOK
<1>2. CASE Stage(n)
    <2>. DEFINE end == Rebuild(Chain(n), results)
    <2>1. /\ end.ok /\ Changed(end.dir) /\ staged' = Chain(n)
          /\ UNCHANGED <<published, active, committed, running, up, reading, cache>>
          /\ repair' = repair
        BY <1>2 DEF Stage
    <2>2. /\ end.dir \in Dirs /\ KeepsGood(results, end.dir)
          /\ end.ok => \A c \in NeededIn(published, Chain(n)) : end.dir[c] = "good"
        BY <1>1, Rebuilt
    <2>. HIDE DEF end
    <2>3. Present(published, staged', end.dir, {})
        BY <2>1, <2>2 DEF Present
    <2>. QED  BY <1>1, <1>4, <2>1, <2>2, <2>3, ResultsGrow
<1>3. CASE StageFails(n)
    <2>1. PICK k \in 0 .. Len(Chain(n)) : Changed(Rebuild(SubSeq(Chain(n), 1, k), results).dir)
        BY <1>3 DEF StageFails
    <2>. DEFINE part == SubSeq(Chain(n), 1, k)
                N == 1 .. Len(published)
    <2>2. part \in Seq(N)
        <3>1. Chain(n) \in Seq(N) /\ k \in 0 .. Len(Chain(n))
            BY <1>1, <2>1
        <3>. HIDE DEF N
        <3>. QED  BY <3>1, SubSeqFacts
    <2>. HIDE DEF part
    <2>3. Rebuild(part, results).dir \in Dirs /\ KeepsGood(results, Rebuild(part, results).dir)
        BY <1>1, <2>2, Rebuilt
    <2>4. /\ staged' = staged /\ repair' = repair
          /\ UNCHANGED <<published, active, committed, running, up, reading, cache>>
        BY <1>3 DEF StageFails, deviceVars
    <2>. QED  BY <1>4, <2>1, <2>3, <2>4, ResultsGrow DEF part
<1>. QED  BY <1>2, <1>3

LEMMA RepairKeeps ==
    ASSUME OverlayInv, Repair
    PROVE  OverlayInv'
<1>1. /\ PublishedOK(published) /\ results \in Dirs /\ running \in Seq(1 .. Len(published))
      /\ Len(running) \in Nat /\ repair \in 1 .. Len(running)
    <2>1. PublishedOK(published) /\ results \in Dirs /\ running \in Seq(1 .. Len(published))
        BY DEF OverlayInv, StacksOK
    <2>2. repair \in 0 .. Len(running) /\ repair > 0 /\ Len(running) \in Nat
        BY <2>1 DEF OverlayInv, RepairOK, Repair
    <2>. QED  BY <2>1, <2>2
<1>. DEFINE new == Materialized(results, running, repair)
<1>2. new \in Dirs /\ KeepsGood(results, new)
    BY <1>1, LayerRebuilt
<1>3. /\ Changed(new) /\ staged' = staged /\ repair' = NextLayer(repair)
      /\ UNCHANGED <<published, active, committed, running, up, reading, cache>>
    BY DEF Repair
<1>4. repair' \in 0 .. Len(running)
    BY <1>1, <1>3 DEF NextLayer
<1>. HIDE DEF new
<1>. QED  BY <1>2, <1>3, <1>4, ResultsGrow

LEMMA CollectedKeeps ==
    ASSUME OverlayInv, NEW revisions, NEW stack \in Seq(1 .. Len(published)),
           Present(published, stack, results, purged), stack \in revisions \cup {running}
    PROVE  Present(published, stack, Collected(results, revisions),
                   {c \in purged : Collected(results, revisions)[c] # "good"})
<1>. DEFINE new == Collected(results, revisions)
<1>1. NeededIn(published, stack) \subseteq Contents
    BY NeededAre DEF OverlayInv
<1>2. ASSUME NEW c \in NeededIn(published, stack) PROVE new[c] = results[c]
    <2>1. c \in Needed(stack) /\ c \in Contents
        BY <1>1, IndexIs
    <2>2. c \in Wanted(revisions)
        BY <2>1 DEF Wanted
    <2>. QED  BY <2>1, <2>2 DEF Collected
<1>. HIDE DEF new
<1>. QED  BY <1>2 DEF Present, new

LEMMA CollectedIsDir ==
    ASSUME OverlayInv, NEW revisions
    PROVE  Collected(results, revisions) \in Dirs
BY DEF OverlayInv, Dirs, Collected

LEMMA CommitKeeps ==
    ASSUME OverlayInv, Commit
    PROVE  OverlayInv'
<1>. DEFINE new == Collected(results, {staged, active})
<1>1. /\ results' = new /\ purged' = {c \in purged : new[c] # "good"} /\ committed' = active
      /\ UNCHANGED <<published, staged, active, running, up, repair, reading, cache>>
    BY DEF Commit, Changed
<1>2. \A stack \in {staged, active, running} :
        /\ stack \in Seq(1 .. Len(published))
        /\ Present(published, stack, results, purged)
    BY DEF OverlayInv, StacksOK
<1>3. \A stack \in {staged, active, running} : Present(published, stack, results', purged')
    BY <1>1, <1>2, CollectedKeeps
<1>4. results' \in Dirs
    BY <1>1, CollectedIsDir
<1>. HIDE DEF new
<1>5. StacksOK'
    BY <1>1, <1>2, <1>3 DEF StacksOK
<1>. QED  BY <1>1, <1>4, <1>5 DEF OverlayInv, ReadingOK, RepairOK, DownIsEmpty

LEMMA ResetKeeps ==
    ASSUME OverlayInv, Reset
    PROVE  OverlayInv'
<1>. DEFINE new == Collected(results, {})
<1>1. /\ results' = new /\ purged' = {c \in purged : new[c] # "good"}
      /\ staged' = <<>> /\ active' = <<>> /\ committed' = <<>>
      /\ UNCHANGED <<published, running, up, repair, reading, cache>>
    BY DEF Reset, Changed
<1>2. running \in Seq(1 .. Len(published)) /\ Present(published, running, results, purged)
    BY DEF OverlayInv, StacksOK
<1>3. Present(published, running, results', purged') /\ results' \in Dirs
    BY <1>1, <1>2, CollectedKeeps, CollectedIsDir
<1>. HIDE DEF new
<1>4. <<>> \in Seq(1 .. Len(published)) /\ Present(published, <<>>, results', purged')
    BY NothingNeeded
<1>5. StacksOK'
    BY <1>1, <1>2, <1>3, <1>4 DEF StacksOK
<1>. QED  BY <1>1, <1>3, <1>5 DEF OverlayInv, ReadingOK, RepairOK, DownIsEmpty

LEMMA LaunchKeeps ==
    ASSUME OverlayInv, NEW stack \in Stacks, NEW loaded \in Loadable(stack), Launch(stack, loaded)
    PROVE  OverlayInv'
<1>1. /\ active' = stack /\ staged' = <<>> /\ running' = loaded /\ up' = TRUE
      /\ repair' = IF loaded = <<>> THEN 0 ELSE 1
      /\ UNCHANGED <<published, committed, results, purged, reading, cache>> /\ ~up
    BY DEF Launch
<1>2. PICK loading : loaded = Kept(stack, loading)
    BY DEF Loadable
<1>3. \A s \in Stacks : s \in Seq(1 .. Len(published)) /\ Present(published, s, results, purged)
    BY DEF OverlayInv, StacksOK, Stacks
<1>4. loaded \in Seq(1 .. Len(published)) /\ NeededIn(published, loaded) \subseteq NeededIn(published, stack)
    BY <1>2, <1>3, KeptNeeds
<1>5. Present(published, loaded, results, purged)
    BY <1>3, <1>4 DEF Present
<1>6. <<>> \in Seq(1 .. Len(published)) /\ Present(published, <<>>, results, purged)
    BY NothingNeeded
<1>7. StacksOK'
    BY <1>1, <1>3, <1>4, <1>5, <1>6 DEF StacksOK, Stacks
<1>8. reading = NotReading /\ cache = Lru!EmptyCache
    BY <1>1 DEF OverlayInv, DownIsEmpty
<1>9. CacheFits(cache, published, running)'
    BY <1>1, <1>8, EmptyFits
<1>10. ReadingOK'
    BY <1>1, <1>8 DEF ReadingOK, NotReading
<1>11. RepairOK'
    <2>1. Len(loaded) \in Nat /\ (loaded # <<>> => Len(loaded) > 0)
        BY <1>4
    <2>. QED  BY <1>1, <2>1 DEF RepairOK
<1>. QED  BY <1>1, <1>7, <1>9, <1>10, <1>11 DEF OverlayInv, DownIsEmpty

LEMMA CloseKeeps ==
    ASSUME OverlayInv, Close
    PROVE  OverlayInv'
<1>1. /\ up' = FALSE /\ running' = <<>> /\ repair' = 0 /\ reading' = NotReading
      /\ cache' = Lru!EmptyCache
      /\ UNCHANGED <<published, staged, active, committed, results, purged>>
    BY DEF Close
<1>2. <<>> \in Seq(1 .. Len(published)) /\ Present(published, <<>>, results, purged) /\ Len(<<>>) = 0
    BY NothingNeeded
<1>3. StacksOK'
    BY <1>1, <1>2 DEF OverlayInv, StacksOK
<1>4. CacheFits(cache', published, running')
    BY <1>1, EmptyFits
<1>5. ReadingOK' /\ RepairOK' /\ DownIsEmpty'
    BY <1>1, <1>2 DEF ReadingOK, NotReading, RepairOK, DownIsEmpty
<1>. QED  BY <1>1, <1>3, <1>4, <1>5 DEF OverlayInv

LEMMA PurgeKeeps ==
    ASSUME OverlayInv, NEW c \in Contents, NEW left \in {"none", "bad"}, Purge(c, left)
    PROVE  OverlayInv'
<1>1. /\ results' = [results EXCEPT ![c] = left] /\ purged' = purged \cup {c}
      /\ UNCHANGED <<published, staged, active, committed, running, up, repair, reading, cache>>
    BY DEF Purge, deviceVars
<1>2. results \in Dirs
    BY DEF OverlayInv
<1>3. results' \in Dirs /\ \A d \in Contents : d # c => results'[d] = results[d]
    BY <1>1, <1>2 DEF Dirs
<1>4. ASSUME NEW stack \in {staged, active, committed, running}
      PROVE  stack \in Seq(1 .. Len(published)) /\ Present(published, stack, results', purged')
    <2>1. /\ stack \in Seq(1 .. Len(published)) /\ Present(published, stack, results, purged)
          /\ PublishedOK(published)
        BY DEF OverlayInv, StacksOK
    <2>2. NeededIn(published, stack) \subseteq Contents
        BY <2>1, NeededAre
    <2>. QED  BY <1>1, <1>3, <2>1, <2>2 DEF Present
<1>5. StacksOK'
    BY <1>1, <1>4 DEF StacksOK
<1>. QED  BY <1>1, <1>3, <1>5 DEF OverlayInv, ReadingOK, RepairOK, DownIsEmpty

-----------------------------------------------------------------------------
(***************************************************************************)
(* Publishing changes nothing of what devices have, and requests fill the  *)
(* cache with what the index names.                                        *)
(***************************************************************************)
LEMMA ParentsAre ==
    ASSUME PublishedOK(published), NEW parents \in Parents
    PROVE  parents \in Seq(1 .. Len(published))
<1>. DEFINE N == 1 .. Len(published)
<1>1. Numbers = N
    BY DEF Numbers, PublishedOK
<1>2. \A n \in N : Chain(n) \in Seq(N)
    BY ChainIs
<1>. HIDE DEF N
<1>3. \A n \in N : <<n>> \in Seq(N)
    OBVIOUS
<1>4. \A n, m \in N : <<n, m>> \in Seq(N)
    OBVIOUS
<1>5. <<>> \in Seq(N)
    OBVIOUS
<1>. DEFINE Alone == {<<n>> : n \in N}
            Pairs == {<<n, m>> : n \in N, m \in N}
<1>6. Alone \subseteq Seq(N) /\ Pairs \subseteq Seq(N)
    <2>. DEFINE Lists == Seq(N)
    <2>1. (\A n \in N : <<n>> \in Lists) /\ (\A n, m \in N : <<n, m>> \in Lists)
        BY <1>3, <1>4
    <2>. HIDE DEF Lists
    <2>2. Alone \subseteq Lists
        BY <2>1
    <2>3. Pairs \subseteq Lists
        BY <2>1
    <2>. QED  BY <2>2, <2>3 DEF Lists
<1>7. Parents = {Chain(n) : n \in N} \cup {<<>>} \cup Alone \cup Pairs
    BY <1>1 DEF Parents
<1>. HIDE DEF Alone, Pairs
<1>8. parents \in Seq(N)
    BY <1>2, <1>5, <1>6, <1>7
<1>. QED  BY <1>8 DEF N

LEMMA PublishKeeps ==
    ASSUME OverlayInv, NEW kind \in {"base", "patch"}, NEW tree \in Dists, NEW parents \in Parents,
           Publish(kind, tree, parents)
    PROVE  OverlayInv'
<1>1. PublishedOK(published) /\ Len(published) \in Nat
    BY DEF OverlayInv, PublishedOK
<1>2. parents \in Seq(1 .. Len(published))
    BY <1>1, ParentsAre
<1>3. /\ PublishedOK(published') /\ Len(published') = Len(published) + 1
      /\ \A k \in 1 .. Len(published) : published'[k] = published[k]
    BY <1>1, <1>2, PublishPacks
<1>4. UNCHANGED <<staged, active, committed, running, up, repair, reading, cache, results, purged>>
    BY DEF Publish, deviceVars
<1>5. ASSUME NEW stack \in {staged, active, committed, running}
      PROVE  /\ stack \in Seq(1 .. Len(published')) /\ Present(published', stack, results, purged)
             /\ \A p : WinnerIn(published', stack, p) = WinnerIn(published, stack, p)
    <2>1. stack \in Seq(1 .. Len(published)) /\ Present(published, stack, results, purged)
        BY DEF OverlayInv, StacksOK
    <2>2. /\ \A p : WinnerIn(published', stack, p) = WinnerIn(published, stack, p)
          /\ NeededIn(published', stack) = NeededIn(published, stack)
        BY <1>3, <2>1, IndexKept
    <2>3. stack \in Seq(1 .. Len(published'))
        <3>1. 1 .. Len(published) \subseteq 1 .. Len(published')
            BY <1>1, <1>3
        <3>. QED  BY <2>1, <3>1, WiderSeq
    <2>. QED  BY <2>1, <2>2, <2>3 DEF Present
<1>6. StacksOK'
    BY <1>4, <1>5 DEF StacksOK
<1>7. \A p : WinnerIn(published', running, p) = WinnerIn(published, running, p)
    BY <1>5
<1>8. CacheFits(cache, published', running)
    BY <1>7 DEF OverlayInv, CacheFits, Named
<1>9. ReadingOK'
    BY <1>4, <1>7 DEF OverlayInv, ReadingOK, IsFile
<1>. QED  BY <1>3, <1>4, <1>6, <1>8, <1>9 DEF OverlayInv, RepairOK, DownIsEmpty

\* The winner is nothing, a tombstone or a file.
LEMMA WinnerKinds ==
    ASSUME NEW pub, PublishedOK(pub), NEW stack \in Seq(1 .. Len(pub)), NEW p
    PROVE  LET w == WinnerIn(pub, stack, p) IN w.op \in {"none", "delete"} \/ IsFile(w)
<1>1. Len(stack) \in Nat /\ DOMAIN stack = 1 .. Len(stack)
    OBVIOUS
<1>2. \/ WinnerIn(pub, stack, p) = NotListed
      \/ \E i \in 1 .. Len(stack) : /\ p \in DOMAIN pub[stack[i]].entries
                                    /\ WinnerIn(pub, stack, p) = pub[stack[i]].entries[p]
    <2>1. \/ WinnerIn(pub, stack, p) = NotListed
          \/ \E i \in DOMAIN stack : /\ p \in DOMAIN pub[stack[i]].entries
                                     /\ WinnerIn(pub, stack, p) = pub[stack[i]].entries[p]
        BY <1>1, WinnerFacts
    <2>. QED  BY <1>1, <2>1
<1>3. WinnerIn(pub, stack, p) = NotListed \/ WinnerIn(pub, stack, p) \in Entry
    BY <1>2, EntriesAre
<1>. HIDE DEF WinnerIn
<1>4. ASSUME NEW e \in Entry PROVE e.op = "delete" \/ IsFile(e)
    BY EntryKinds DEF IsFile
<1>. QED  BY <1>3, <1>4 DEF NotListed

LEMMA RequestKeeps ==
    ASSUME OverlayInv, NEW p \in Paths, Request(p)
    PROVE  OverlayInv'
<1>1. /\ up /\ Get(p) \notin Misses
      /\ UNCHANGED <<published, staged, active, committed, running, up, results, purged, repair>>
    BY DEF Request
<1>2. CASE Lru!Holds(cache, p)
    <2>1. cache' = Lru!Touch(cache, p) /\ reading' = reading
        BY <1>2 DEF Request
    <2>2. CacheFits(cache', published, running)
        BY <1>2, <2>1, TouchFits DEF OverlayInv
    <2>. QED  BY <1>1, <2>1, <2>2 DEF OverlayInv, StacksOK, ReadingOK, RepairOK, DownIsEmpty
<1>3. CASE ~Lru!Holds(cache, p)
    <2>1. cache' = cache /\ reading' = [reading EXCEPT ![p] = @ + 1]
        BY <1>3 DEF Request
    <2>. DEFINE w == WinnerIn(published, running, p)
    <2>2. IsFile(w)
        <3>1. w.op \in {"none", "delete"} \/ IsFile(w)
            BY WinnerKinds DEF OverlayInv, StacksOK
        <3>2. Get(p) = Resolve(p) /\ Winner(running, p) = w
            BY <1>3, IndexIs DEF Get
        <3>. HIDE DEF w
        <3>3. w.op \notin {"none", "delete"}
            BY <1>1, <3>2 DEF Resolve, Misses
        <3>. QED  BY <3>1, <3>3
    <2>3. reading \in [Paths -> Nat] /\ \A q \in Paths : reading[q] > 0 => IsFile(WinnerIn(published, running, q))
        BY DEF OverlayInv, ReadingOK
    <2>4. reading' \in [Paths -> Nat]
        BY <2>1, <2>3
    <2>5. ASSUME NEW q \in Paths, reading'[q] > 0 PROVE IsFile(WinnerIn(published, running, q))
        BY <2>1, <2>2, <2>3, <2>5
    <2>. HIDE DEF w
    <2>6. ReadingOK'
        BY <1>1, <2>4, <2>5 DEF ReadingOK
    <2>. QED  BY <1>1, <2>1, <2>6 DEF OverlayInv, StacksOK, RepairOK, DownIsEmpty
<1>. QED  BY <1>2, <1>3

LEMMA AnswerKeeps ==
    ASSUME OverlayInv, NEW p \in Paths, Answer(p)
    PROVE  OverlayInv'
<1>. DEFINE w == WinnerIn(published, running, p)
<1>1. /\ reading[p] > 0 /\ cache' = Lru!Insert(cache, p, w.content)
      /\ reading' = [reading EXCEPT ![p] = @ - 1]
      /\ UNCHANGED <<published, staged, active, committed, running, up, results, purged, repair>>
    BY IndexIs DEF Answer
<1>2. reading \in [Paths -> Nat] /\ \A q \in Paths : reading[q] > 0 => IsFile(WinnerIn(published, running, q))
    BY DEF OverlayInv, ReadingOK
<1>3. w.content \in Contents
    BY <1>1, <1>2 DEF IsFile
<1>4. CacheFits(cache', published, running)
    <2>1. CacheFits(cache, published, running)
        BY DEF OverlayInv
    <2>. QED  BY <1>1, <1>3, <2>1, InsertFits
<1>. HIDE DEF w
<1>5. reading' \in [Paths -> Nat]
    BY <1>1, <1>2
<1>6. ASSUME NEW q \in Paths, reading'[q] > 0 PROVE reading[q] > 0
    BY <1>1, <1>2, <1>6
<1>7. ReadingOK'
    BY <1>1, <1>2, <1>5, <1>6 DEF ReadingOK
<1>8. up
    <2>1. ~up => reading = NotReading
        BY DEF OverlayInv, DownIsEmpty
    <2>. QED  BY <1>1, <2>1 DEF NotReading
<1>. QED  BY <1>1, <1>4, <1>7, <1>8 DEF OverlayInv, StacksOK, RepairOK, DownIsEmpty

-----------------------------------------------------------------------------
LEMMA OverlayInvInit ==
    OverlayInit => OverlayInv
<1>. SUFFICES ASSUME OverlayInit PROVE OverlayInv
    OBVIOUS
<1>1. /\ published = <<>> /\ staged = <<>> /\ active = <<>> /\ committed = <<>> /\ running = <<>>
      /\ results = [c \in Contents |-> "none"] /\ repair = 0
      /\ reading = NotReading /\ cache = Lru!EmptyCache
    BY DEF OverlayInit
<1>2. <<>> \in Seq(PackRecords) /\ Len(<<>>) = 0 /\ <<>> \in Seq(1 .. Len(<<>>))
    OBVIOUS
<1>3. PublishedOK(published)
    <2>1. 1 .. 0 = {}
        OBVIOUS
    <2>. QED  BY <1>1, <1>2, <2>1 DEF PublishedOK
<1>4. StacksOK
    BY <1>1, <1>2, NothingNeeded DEF StacksOK
<1>5. results \in Dirs
    BY <1>1 DEF Dirs
<1>6. ReadingOK /\ RepairOK /\ DownIsEmpty
    BY <1>1, <1>2 DEF ReadingOK, NotReading, RepairOK, DownIsEmpty
<1>7. CacheFits(cache, published, running)
    BY <1>1, EmptyFits
<1>. QED  BY <1>3, <1>4, <1>5, <1>6, <1>7 DEF OverlayInv

LEMMA OverlayInvNext ==
    OverlayInv /\ [OverlayNext]_overlayVars => OverlayInv'
<1>. SUFFICES ASSUME OverlayInv, [OverlayNext]_overlayVars PROVE OverlayInv'
    OBVIOUS
<1>1. ASSUME NEW kind \in {"base", "patch"}, NEW tree \in Dists, NEW parents \in Parents,
             Publish(kind, tree, parents)
      PROVE  OverlayInv'
    BY <1>1, PublishKeeps
<1>2. ASSUME NEW n \in Newest, Stage(n) \/ StageFails(n) PROVE OverlayInv'
    BY <1>2, StageKeeps
<1>3. CASE Commit
    BY <1>3, CommitKeeps
<1>4. CASE Reset
    BY <1>4, ResetKeeps
<1>5. ASSUME NEW stack \in Stacks, NEW loaded \in Loadable(stack), Launch(stack, loaded)
      PROVE  OverlayInv'
    BY <1>5, LaunchKeeps
<1>6. CASE NothingLacks
    <2>1. /\ repair' = 0
          /\ UNCHANGED <<published, staged, active, committed, running, up, results, purged,
                         reading, cache>>
        BY <1>6 DEF NothingLacks
    <2>2. running \in Seq(1 .. Len(published))
        BY DEF OverlayInv, StacksOK
    <2>3. RepairOK'
        BY <2>1, <2>2 DEF RepairOK
    <2>. QED  BY <2>1, <2>3 DEF OverlayInv, StacksOK, ReadingOK, DownIsEmpty
<1>7. CASE Repair
    BY <1>7, RepairKeeps
<1>8. ASSUME NEW p \in Paths, Request(p) PROVE OverlayInv'
    BY <1>8, RequestKeeps
<1>9. ASSUME NEW p \in Paths, Answer(p) PROVE OverlayInv'
    BY <1>9, AnswerKeeps
<1>10. CASE Close
    BY <1>10, CloseKeeps
<1>11. ASSUME NEW c \in Contents, NEW left \in {"none", "bad"}, Purge(c, left) PROVE OverlayInv'
    BY <1>11, PurgeKeeps
<1>12. CASE UNCHANGED overlayVars
    BY <1>12 DEF overlayVars, deviceVars, OverlayInv, StacksOK, ReadingOK, RepairOK, DownIsEmpty
<1>. QED
    BY <1>1, <1>2, <1>3, <1>4, <1>5, <1>6, <1>7, <1>8, <1>9, <1>10, <1>11, <1>12
    DEF OverlayNext, Device

LEMMA OverlayInvariant == OverlaySpec => []OverlayInv
<1>1. OverlayInit => OverlayInv
    BY OverlayInvInit
<1>2. OverlayInv /\ [OverlayNext]_overlayVars => OverlayInv'
    BY OverlayInvNext
<1>. QED  BY <1>1, <1>2, PTL DEF OverlaySpec

-----------------------------------------------------------------------------
(***************************************************************************)
(* The results a revision or the running app needs are there, unless       *)
(* somebody else took them, whatever was published, staged, committed,     *)
(* rolled back or reset (store.rs:617, store.rs:911).                      *)
(***************************************************************************)
THEOREM ResultsArePresent == OverlaySpec => []ResultsPresent
<1>1. OverlayInv => ResultsPresent
    BY IndexIs DEF OverlayInv, StacksOK, Present, ResultsPresent, Stacks
<1>. QED  BY <1>1, OverlayInvariant, PTL

(***************************************************************************)
(* The cache of the resolver holds what the index names, counts its bytes  *)
(* right and keeps to its budget, for every order in which requests miss,  *)
(* read and insert (cache.rs:75, resolve.rs:271).                          *)
(***************************************************************************)
THEOREM CacheStaysRight == OverlaySpec => []CacheIsRight
<1>1. OverlayInv => CacheIsRight
    BY IndexIs DEF OverlayInv, CacheFits, Named, Distinct, CacheIsRight
<1>. QED  BY <1>1, OverlayInvariant, PTL

-----------------------------------------------------------------------------
(***************************************************************************)
(* What is served.  For a path it is what the index and the cache say, and *)
(* the two agree; for the chain of the last layer that is what its tree    *)
(* has.                                                                    *)
(***************************************************************************)
LEMMA GetIs ==
    ASSUME OverlayInv, NEW p \in Paths
    PROVE  LET w == WinnerIn(published, running, p)
           IN  \/ w.op = "none" /\ Get(p) = "not found"
               \/ w.op = "delete" /\ Get(p) = "deleted"
               \/ /\ w.op \in {"full", "delta"} /\ w.content \in Contents
                  /\ Get(p) = w.content \/ (Get(p) = "not materialized" /\ Lacks(p))
<1>. DEFINE w == WinnerIn(published, running, p)
<1>1. w.op \in {"none", "delete"} \/ IsFile(w)
    BY WinnerKinds DEF OverlayInv, StacksOK
<1>2. Winner(running, p) = w
    BY IndexIs
<1>3. Lru!Holds(cache, p) => Lru!Held(cache, p) = w.content
    <2>. SUFFICES ASSUME Lru!Holds(cache, p) PROVE Lru!Held(cache, p) = w.content
        OBVIOUS
    <2>1. cache.entries \in Seq(Items) /\ Named(cache.entries, published, running)
        BY DEF OverlayInv, CacheFits
    <2>2. /\ Lru!Place(cache, p) \in DOMAIN cache.entries
          /\ cache.entries[Lru!Place(cache, p)].key = p
          /\ Lru!Held(cache, p) = cache.entries[Lru!Place(cache, p)].content
        BY <2>1, PlaceIs
    <2>. QED  BY <2>1, <2>2 DEF Named
<1>4. Resolve(p) = IF w.op = "none" THEN "not found"
                   ELSE IF w.op = "delete" THEN "deleted"
                   ELSE IF w.op = "full" \/ results[w.content] = "good" THEN w.content
                   ELSE "not materialized"
    BY <1>2 DEF Resolve, Available
<1>5. Get(p) = IF w.op \in {"full", "delta"} /\ Lru!Holds(cache, p)
               THEN Lru!Held(cache, p) ELSE Resolve(p)
    BY <1>2 DEF Get
<1>6. Lacks(p) <=> w.op = "delta" /\ results[w.content] # "good"
    BY <1>2 DEF Lacks
<1>. HIDE DEF w
<1>7. CASE w.op = "none"
    BY <1>4, <1>5, <1>7 DEF w
<1>8. CASE w.op = "delete"
    BY <1>4, <1>5, <1>8 DEF w
<1>9. CASE IsFile(w)
    <2>1. w.op \in {"full", "delta"} /\ w.content \in Contents
        BY <1>9 DEF IsFile
    <2>2. Get(p) = w.content \/ (Get(p) = "not materialized" /\ Lacks(p))
        BY <1>3, <1>4, <1>5, <1>6, <2>1
    <2>. QED  BY <2>1, <2>2 DEF w
<1>. QED  BY <1>1, <1>7, <1>8, <1>9

LEMMA CompleteShows ==
    ASSUME OverlayInv, Complete
    PROVE  Shows(published, running)
<1>1. /\ PublishedOK(published) /\ running # <<>> /\ running = Chain(Last(running))
      /\ running \in Seq(1 .. Len(published))
    BY DEF OverlayInv, StacksOK, Complete
<1>2. Last(running) \in 1 .. Len(published)
    BY <1>1 DEF Last
<1>3. running = ChainsOf(published)[Last(running)]
    BY <1>1, <1>2, ChainIs
<1>. QED  BY <1>1, <1>2, <1>3, ChainsShow

\* With layers missing, the files of the last are right all the same.
LEMMA LastShows ==
    ASSUME OverlayInv, running # <<>>, NEW p \in Paths, Tree(Last(running))[p] # NoFile
    PROVE  LET w == WinnerIn(published, running, p)
           IN  w.op \in {"full", "delta"} /\ w.content = Tree(Last(running))[p]
<1>. DEFINE n == Last(running)
            e == published[n].entries
<1>1. PublishedOK(published) /\ running \in Seq(1 .. Len(published)) /\ n \in 1 .. Len(published)
    BY DEF OverlayInv, StacksOK, Last
<1>2. Fits(e, published[n].tree, TreeBelow(published, n))
    BY <1>1, PackedFacts DEF Packed
<1>3. published[n].tree[p] # NoFile
    BY DEF Tree
<1>4. p \in DOMAIN e /\ e[p].op \in {"full", "delta"} /\ e[p].content = published[n].tree[p]
    BY <1>2, <1>3 DEF Fits
<1>5. WinnerIn(published, running, p) = e[p]
    BY <1>1, <1>4, LastWins
<1>. QED  BY <1>4, <1>5 DEF Tree

\* A key is answered by its first candidate that decides.
LEMMA ServeIs ==
    ASSUME OverlayInv, NEW key \in Keys
    PROVE  LET c == Candidates[key]
               decides == {i \in 1 .. Len(c) : Decides(Get(c[i]))}
           IN  /\ Len(c) \in Nat /\ \A i \in 1 .. Len(c) : c[i] \in Paths
               /\ decides = {} => Serve(key) = Embedded[c[1]]
               /\ decides # {} =>
                    LET first == CHOOSE i \in decides : \A j \in decides : i <= j
                    IN  /\ first \in decides
                        /\ Serve(key) = IF Get(c[first]) = "deleted" THEN NoFile ELSE Get(c[first])
<1>. DEFINE c == Candidates[key]
            decides == {i \in 1 .. Len(c) : Decides(Get(c[i]))}
            answers == [i \in DOMAIN c |-> Get(c[i])]
            deciding == {i \in DOMAIN answers : Decides(answers[i])}
            first == CHOOSE i \in decides : \A j \in decides : i <= j
<1>1. c \in Seq(Paths)
    BY OverlayAssumption
<1>2. Len(c) \in Nat /\ DOMAIN c = 1 .. Len(c) /\ \A i \in 1 .. Len(c) : c[i] \in Paths
    BY <1>1
<1>3. DOMAIN answers = 1 .. Len(c) /\ \A i \in 1 .. Len(c) : answers[i] = Get(c[i])
    BY <1>2
<1>4. Serve(key) = IF deciding = {} THEN Embedded[c[1]]
                   ELSE LET answer == answers[CHOOSE i \in deciding : \A j \in deciding : i <= j]
                        IN  IF answer = "deleted" THEN NoFile ELSE answer
    BY DEF Serve
<1>. HIDE DEF answers
<1>5. deciding = decides
    BY <1>3
<1>6. decides \in SUBSET Nat /\ decides \subseteq 1 .. Len(c)
    OBVIOUS
<1>. HIDE DEF decides, deciding, c
<1>7. decides # {} => first \in decides
    <2>1. decides # {} => \E i \in decides : \A j \in decides : i <= j
        BY <1>6, SmallestExists
    <2>. QED  BY <2>1
<1>8. Serve(key) = IF decides = {} THEN Embedded[c[1]]
                   ELSE IF answers[first] = "deleted" THEN NoFile ELSE answers[first]
    BY <1>4, <1>5
<1>. HIDE DEF first
<1>9. decides # {} => answers[first] = Get(c[first])
    BY <1>3, <1>6, <1>7
<1>10. /\ decides = {} => Serve(key) = Embedded[c[1]]
       /\ decides # {} =>
            /\ first \in decides
            /\ Serve(key) = IF Get(c[first]) = "deleted" THEN NoFile ELSE Get(c[first])
    BY <1>7, <1>8, <1>9
<1>. QED  BY <1>2, <1>10 DEF c, decides, first

LEMMA ContentDecides ==
    /\ \A content \in Contents : Decides(content) /\ content # "deleted"
    /\ Decides("deleted") /\ ~Decides("not found") /\ ~Decides("not materialized")
<1>1. \A content \in Contents : content \notin {"not found", "deleted", "not materialized"}
    BY OverlayAssumption
<1>. QED  BY <1>1 DEF Decides, Misses

LEMMA PathsShow == OverlayInv => ShowsWhatWasMeant
<1>. SUFFICES ASSUME OverlayInv, running # <<>>, NEW key \in Keys, Len(Candidates[key]) = 1,
                     Complete \/ Tree(Last(running))[Candidates[key][1]] # NoFile
              PROVE  LET p == Candidates[key][1]
                     IN  Serve(key) \in {Meant(p)} \cup (IF Lacks(p) THEN {Embedded[p]} ELSE {})
    BY DEF ShowsWhatWasMeant
<1>. DEFINE c == Candidates[key]
            p == c[1]
            w == WinnerIn(published, running, p)
            decides == {i \in 1 .. Len(c) : Decides(Get(c[i]))}
            first == CHOOSE i \in decides : \A j \in decides : i <= j
            content == Tree(Last(running))[p]
            elsewhere == \E i \in DOMAIN running : Tree(running[i])[p] # NoFile
<1>1. /\ p \in Paths
      /\ decides = {} => Serve(key) = Embedded[p]
      /\ decides # {} => /\ first \in decides
                         /\ Serve(key) = IF Get(c[first]) = "deleted" THEN NoFile ELSE Get(c[first])
    <2>1. /\ \A i \in 1 .. Len(c) : c[i] \in Paths
          /\ decides = {} => Serve(key) = Embedded[c[1]]
          /\ decides # {} => /\ first \in decides
                             /\ Serve(key) = IF Get(c[first]) = "deleted" THEN NoFile
                                             ELSE Get(c[first])
        BY ServeIs
    <2>. HIDE DEF decides, first
    <2>2. 1 \in 1 .. Len(c)
        OBVIOUS
    <2>. QED  BY <2>1, <2>2
<1>2. decides = IF Decides(Get(p)) THEN {1} ELSE {}
    OBVIOUS
<1>3. Serve(key) = IF Decides(Get(p)) THEN IF Get(p) = "deleted" THEN NoFile ELSE Get(p)
                   ELSE Embedded[p]
    <2>. HIDE DEF decides
    <2>1. decides # {} => first = 1
        BY <1>1, <1>2
    <2>. HIDE DEF first
    <2>. QED  BY <1>1, <1>2, <2>1
<1>4. IF content # NoFile THEN w.op \in {"full", "delta"} /\ w.content = content
      ELSE IF elsewhere THEN w.op = "delete" ELSE w.op = "none"
    <2>1. CASE content # NoFile
        BY <1>1, <2>1, LastShows
    <2>2. CASE content = NoFile
        <3>1. Shows(published, running)
            BY <2>2, CompleteShows
        <3>. QED  BY <1>1, <2>2, <3>1 DEF Shows, Tree
    <2>. QED  BY <2>1, <2>2
<1>5. \/ w.op = "none" /\ Get(p) = "not found"
      \/ w.op = "delete" /\ Get(p) = "deleted"
      \/ /\ w.op \in {"full", "delta"} /\ w.content \in Contents
         /\ Get(p) = w.content \/ (Get(p) = "not materialized" /\ Lacks(p))
    BY <1>1, GetIs
<1>6. Meant(p) = IF content # NoFile THEN content ELSE IF elsewhere THEN NoFile ELSE Embedded[p]
    BY DEF Meant
<1>. HIDE DEF w, content, elsewhere, decides, first
<1>7. CASE content # NoFile
    BY <1>3, <1>4, <1>5, <1>6, <1>7, ContentDecides
<1>8. CASE content = NoFile /\ elsewhere
    BY <1>3, <1>4, <1>5, <1>6, <1>8, ContentDecides
<1>9. CASE content = NoFile /\ ~elsewhere
    BY <1>3, <1>4, <1>5, <1>6, <1>9, ContentDecides
<1>. QED  BY <1>7, <1>8, <1>9

LEMMA RoutesShow == OverlayInv => RoutesAgree
<1>. SUFFICES ASSUME OverlayInv, Complete, NEW key \in Keys,
                     LET c == Candidates[key]
                         known == {i \in DOMAIN c : \E j \in DOMAIN running : Tree(running[j])[c[i]] # NoFile}
                     IN  known # {} /\ \A i \in DOMAIN c : ~Lacks(c[i])
              PROVE  LET c == Candidates[key]
                         known == {i \in DOMAIN c : \E j \in DOMAIN running : Tree(running[j])[c[i]] # NoFile}
                         first == c[CHOOSE i \in known : \A j \in known : i <= j]
                     IN  Serve(key) = Tree(Last(running))[first]
    BY DEF RoutesAgree
<1>. DEFINE c == Candidates[key]
            known == {i \in DOMAIN c : \E j \in DOMAIN running : Tree(running[j])[c[i]] # NoFile}
            decides == {i \in 1 .. Len(c) : Decides(Get(c[i]))}
            first == CHOOSE i \in decides : \A j \in decides : i <= j
            Wants(i) == Tree(Last(running))[c[i]]
<1>1. /\ Len(c) \in Nat /\ \A i \in 1 .. Len(c) : c[i] \in Paths
      /\ decides # {} => /\ first \in decides
                         /\ Serve(key) = IF Get(c[first]) = "deleted" THEN NoFile ELSE Get(c[first])
    BY ServeIs
<1>2. DOMAIN c = 1 .. Len(c)
    <2>1. c \in Seq(Paths)
        BY OverlayAssumption
    <2>. QED  BY <2>1
<1>3. running # <<>> /\ Shows(published, running)
    BY CompleteShows DEF Complete
<1>4. Len(running) \in DOMAIN running /\ Last(running) = running[Len(running)]
    <2>1. running \in Seq(1 .. Len(published))
        BY DEF OverlayInv, StacksOK
    <2>. QED  BY <1>3, <2>1 DEF Last
<1>5. ASSUME NEW i \in 1 .. Len(c)
      PROVE  /\ Decides(Get(c[i])) <=> i \in known
             /\ i \in known => Wants(i) = IF Get(c[i]) = "deleted" THEN NoFile ELSE Get(c[i])
    <2>. DEFINE p == c[i]
                w == WinnerIn(published, running, p)
                elsewhere == \E j \in DOMAIN running : Tree(running[j])[p] # NoFile
    <2>1. p \in Paths /\ ~Lacks(p) /\ (i \in known <=> elsewhere)
        BY <1>1, <1>2
    <2>2. IF Wants(i) # NoFile THEN w.op \in {"full", "delta"} /\ w.content = Wants(i)
          ELSE IF elsewhere THEN w.op = "delete" ELSE w.op = "none"
        BY <1>3, <2>1 DEF Shows, Tree
    <2>3. Wants(i) # NoFile => elsewhere
        BY <1>4
    <2>4. \/ w.op = "none" /\ Get(p) = "not found"
          \/ w.op = "delete" /\ Get(p) = "deleted"
          \/ w.op \in {"full", "delta"} /\ w.content \in Contents /\ Get(p) = w.content
        BY <2>1, GetIs
    <2>. HIDE DEF w, elsewhere, known, Wants
    <2>5. CASE Wants(i) # NoFile
        BY <2>1, <2>2, <2>3, <2>4, <2>5, ContentDecides
    <2>6. CASE Wants(i) = NoFile
        BY <2>1, <2>2, <2>4, <2>6, ContentDecides
    <2>. QED  BY <2>5, <2>6
<1>6. known = decides
    <2>1. known \subseteq 1 .. Len(c)
        BY <1>2
    <2>. HIDE DEF known
    <2>. QED  BY <1>5, <2>1
<1>7. known # {}
    OBVIOUS
<1>. HIDE DEF known, decides, Wants
<1>8. decides # {} /\ first \in decides /\ first \in known /\ first \in 1 .. Len(c)
    BY <1>1, <1>6, <1>7 DEF decides
<1>9. Serve(key) = Wants(first)
    BY <1>1, <1>5, <1>8
<1>10. first = CHOOSE i \in known : \A j \in known : i <= j
    BY <1>6
<1>. HIDE DEF first
<1>. QED  BY <1>9, <1>10 DEF Wants, known

(***************************************************************************)
(* A device that runs a chain shows the tree its last pack was made from,  *)
(* path by path and route by route, with what was cached at any time, and  *)
(* while a result is missing what the app was built with; with layers that *)
(* did not load the files of the last that did are right all the same      *)
(* (cmd_pack.rs:203, index.rs:79, resolve.rs:225, pack_assets.rs:70).      *)
(***************************************************************************)
THEOREM DevicesServeAsMeant == OverlaySpec => []ServesAsMeant
<1>1. OverlayInv => ServesAsMeant
    BY PathsShow, RoutesShow DEF ServesAsMeant
<1>. QED  BY <1>1, OverlayInvariant, PTL
=============================================================================
