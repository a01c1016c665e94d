-------------------------- MODULE TpkPluginProofs ---------------------------
(***************************************************************************)
(* Proofs about what the commands ask the store for, for every set of      *)
(* packs, every channel and every order of commands, launches and failures *)
(* to load: a plan can be staged, it is found when there is a way forward, *)
(* one update is enough, and a plan that waits stays good.  All where no   *)
(* release was published as two packs.                                     *)
(***************************************************************************)
EXTENDS TpkPlugin, SelectionProofs

-----------------------------------------------------------------------------
(***************************************************************************)
(* Packs and their versions.                                               *)
(***************************************************************************)
LEMMA PackFacts ==
    ASSUME NEW p \in Packs
    PROVE  /\ Meta[p].id \in Ids /\ Meta[p].ver \in Nat \ {0} /\ Meta[p].epoch \in Nat \ {0}
           /\ Meta[p].kind \in Kinds /\ p # NoPack
           /\ Release(p) \in Releases /\ Release(p) = <<Meta[p].id, Meta[p].ver>>
           /\ LayerRank(Meta[p].kind) \in 0 .. 3
           /\ LayerRank(Meta[p].kind) = 1 <=> IsPatch(p)
           /\ LayerRank(Meta[p].kind) = 0 <=> Meta[p].kind = "base"
<1>1. /\ Meta[p].id \in Ids /\ Meta[p].ver \in Nat \ {0} /\ Meta[p].epoch \in Nat \ {0}
      /\ Meta[p].kind \in Kinds /\ p # NoPack
    BY RevisionsAssumption
<1>2. Release(p) \in Releases /\ Release(p) = <<Meta[p].id, Meta[p].ver>>
    BY DEF Release, Releases
<1>. QED  BY <1>1, <1>2 DEF LayerRank, Kinds, IsPatch

\* What a patch names as its parent.
LEMMA ParentFacts ==
    ASSUME NEW q \in Packs, IsPatch(q)
    PROVE  LET o == Meta[q].parent
           IN  /\ o \in Packs /\ Meta[o].id = Meta[q].id /\ Meta[o].ver < Meta[q].ver
               /\ Meta[o].kind \in {"base", "patch"}
               /\ ParentCode(q) = Meta[o].ver /\ ParentCode(q) \in Nat \ {0}
<1>1. Meta[q].parent \in Packs
    BY PacksAsBuilt, RevisionsAssumption
<1>. QED  BY <1>1, PacksAsBuilt, PackFacts DEF ParentCode

\* Packs of an id are told apart by their versions.
LEMMA SameVersion ==
    ASSUME OneBuildEach, NEW p \in Packs, NEW q \in Packs,
           Meta[p].id = Meta[q].id, Meta[p].ver = Meta[q].ver
    PROVE  p = q
BY DEF OneBuildEach, Release

LEMMA HighestIs ==
    ASSUME NEW top \in Nat, NEW codes \in SUBSET (0 .. top), codes # {}
    PROVE  Highest(codes) \in codes /\ \A m \in codes : m <= Highest(codes)
<1>1. \E n \in codes : \A m \in codes : n >= m
    BY LargestExists
<1>2. \E n \in codes : \A m \in codes : m <= n
    BY <1>1
<1>. QED  BY <1>2 DEF Highest

\* Finitely many packs have a highest version.
LEMMA VersionsBounded ==
    \E top \in Nat : \A p \in Packs : Meta[p].ver <= top
<1>1. PICK list \in Seq(Packs) : \A p \in Packs : \E n \in 1 .. Len(list) : list[n] = p
    BY PacksAsBuilt DEF IsFiniteSet
<1>. DEFINE Bounded(n) == \E b \in Nat : \A k \in 1 .. n : Meta[list[k]].ver <= b
            T == {n \in Nat : n <= Len(list) => Bounded(n)}
<1>2. 0 \in T
    <2>1. \A k \in 1 .. 0 : Meta[list[k]].ver <= 0
        OBVIOUS
    <2>2. Bounded(0)
        BY <2>1
    <2>. HIDE DEF Bounded
    <2>. QED  BY <2>2
<1>3. ASSUME NEW n \in 0 .. Len(list), n \in T, n < Len(list) PROVE n + 1 \in T
    <2>0. Bounded(n)
        <3>. HIDE DEF Bounded
        <3>. QED  BY <1>1, <1>3
    <2>1. PICK top \in Nat : \A k \in 1 .. n : Meta[list[k]].ver <= top
        BY <2>0
    <2>2. PICK next \in Nat : next = Meta[list[n + 1]].ver
        <3>1. list[n + 1] \in Packs
            BY <1>3
        <3>. QED  BY <3>1, PackFacts
    <2>3. PICK more \in Nat : top <= more /\ next <= more
        <3>1. top + next \in Nat /\ top <= top + next /\ next <= top + next
            BY <2>1, <2>2
        <3>. QED  BY <3>1
    <2>4. ASSUME NEW k \in 1 .. n + 1 PROVE Meta[list[k]].ver <= more
        <3>1. list[k] \in Packs
            BY <1>3, <2>4
        <3>2. Meta[list[k]].ver \in Nat
            BY <3>1, PackFacts
        <3>3. k = n + 1 \/ k \in 1 .. n
            BY <2>4
        <3>. QED  BY <2>1, <2>2, <2>3, <3>2, <3>3
    <2>5. Bounded(n + 1)
        BY <2>3, <2>4
    <2>6. n + 1 \in Nat
        BY <1>3
    <2>. HIDE DEF Bounded
    <2>. QED  BY <2>5, <2>6
<1>4. Len(list) \in T
    <2>1. Len(list) \in Nat /\ Len(list) \in 0 .. Len(list)
        OBVIOUS
    <2>. HIDE DEF T
    <2>. QED  BY <1>2, <1>3, <2>1, UpTo
<1>5. Bounded(Len(list))
    <2>. HIDE DEF Bounded
    <2>. QED  BY <1>1, <1>4
<1>6. PICK top \in Nat : \A k \in 1 .. Len(list) : Meta[list[k]].ver <= top
    BY <1>5
<1>. QED  BY <1>1, <1>6

LEMMA LatestIs ==
    Latest \in Nat /\ \A p \in Packs : Meta[p].ver \in 1 .. Latest
<1>. DEFINE codes == {0} \cup {Meta[p].ver : p \in Packs}
<1>1. PICK top \in Nat : \A p \in Packs : Meta[p].ver <= top
    BY VersionsBounded
<1>2. codes \in SUBSET (0 .. top) /\ codes # {}
    BY <1>1, PackFacts
<1>3. Latest \in codes /\ \A m \in codes : m <= Latest
    BY <1>2, HighestIs DEF Latest
<1>4. Latest \in Nat
    BY <1>2, <1>3
<1>5. ASSUME NEW p \in Packs PROVE Meta[p].ver \in 1 .. Latest
    <2>1. Meta[p].ver \in codes
        OBVIOUS
    <2>2. Meta[p].ver <= Latest
        BY <1>3, <2>1
    <2>. QED  BY <1>4, <2>2, PackFacts
<1>. QED  BY <1>4, <1>5

\* The highest version of an id among some layers.
LEMMA VersionsIs ==
    ASSUME NEW layers \in SUBSET Packs
    PROVE  /\ Versions(layers) \in [Ids -> 0 .. Latest]
           /\ \A x \in layers : Meta[x].ver <= Versions(layers)[Meta[x].id]
           /\ \A i \in Ids : \/ Versions(layers)[i] = 0
                             \/ \E x \in layers : Meta[x].id = i /\ Meta[x].ver = Versions(layers)[i]
<1>. DEFINE codes(i) == {0} \cup {Meta[p].ver : p \in {q \in layers : Meta[q].id = i}}
<1>1. ASSUME NEW i \in Ids
      PROVE  Highest(codes(i)) \in codes(i) /\ \A m \in codes(i) : m <= Highest(codes(i))
    <2>1. codes(i) \in SUBSET (0 .. Latest) /\ codes(i) # {} /\ Latest \in Nat
        BY LatestIs
    <2>. HIDE DEF codes
    <2>. QED  BY <2>1, HighestIs
<1>2. Versions(layers) = [i \in Ids |-> Highest(codes(i))]
    BY DEF Versions
<1>3. \A i \in Ids : codes(i) \subseteq 0 .. Latest
    BY LatestIs
<1>4. \A x \in layers : Meta[x].id \in Ids /\ Meta[x].ver \in codes(Meta[x].id)
    BY PackFacts
<1>5. \A i \in Ids : \A n \in codes(i) : n = 0 \/ \E x \in layers : Meta[x].id = i /\ Meta[x].ver = n
    OBVIOUS
<1>. HIDE DEF codes
<1>. QED  BY <1>1, <1>2, <1>3, <1>4, <1>5

-----------------------------------------------------------------------------
(***************************************************************************)
(* How far usable patches lead: the recursion is solved from the highest   *)
(* version downwards.                                                      *)
(***************************************************************************)
EndOf(E, usable, id, v) == Highest({v} \cup {E[Meta[p].ver] : p \in Onward(usable, id, v)})

IsEnds(E, usable, id) == E = [v \in 0 .. Latest |-> EndOf(E, usable, id, v)]

LEMMA OnwardFacts ==
    ASSUME NEW usable \in SUBSET Packs, NEW id, NEW v \in Nat,
           NEW q \in Onward(usable, id, v)
    PROVE  q \in Packs /\ Meta[q].ver \in v + 1 .. Latest
BY LatestIs, PackFacts DEF Onward

LEMMA EndsDefined ==
    ASSUME NEW usable \in SUBSET Packs, NEW id
    PROVE  IsEnds(Terminals(usable, id), usable, id)
<1>. DEFINE Right(E, n) == \A v \in Latest - n .. Latest : v \in 0 .. Latest =>
                                E[v] = EndOf(E, usable, id, v)
            T == {n \in Nat : \E E : E = [v \in 0 .. Latest |-> E[v]] /\ Right(E, n)}
<1>0. Latest \in Nat
    BY LatestIs
<1>1. ASSUME NEW n \in Int, NEW E, E = [v \in 0 .. Latest |-> E[v]], Right(E, n),
             n + 1 \in 0 .. Latest
      PROVE  \E F : F = [v \in 0 .. Latest |-> F[v]] /\ Right(F, n + 1)
    <2>. DEFINE u == Latest - (n + 1)
                next == EndOf(E, usable, id, u)
                F == [v \in 0 .. Latest |-> IF v = u THEN next ELSE E[v]]
    <2>1. u \in 0 .. Latest /\ F[u] = next
        BY <1>0, <1>1
    <2>2. \A v \in 0 .. Latest : v # u => F[v] = E[v]
        OBVIOUS
    <2>3. F = [v \in 0 .. Latest |-> F[v]]
        OBVIOUS
    <2>4. ASSUME NEW v \in u .. Latest PROVE EndOf(F, usable, id, v) = EndOf(E, usable, id, v)
        <3>1. v \in 0 .. Latest /\ v >= u
            BY <1>0, <2>1
        <3>2. ASSUME NEW q \in Onward(usable, id, v) PROVE F[Meta[q].ver] = E[Meta[q].ver]
            <4>1. Meta[q].ver \in v + 1 .. Latest
                BY <3>1, <3>2, OnwardFacts
            <4>2. Meta[q].ver \in 0 .. Latest /\ Meta[q].ver # u
                BY <1>0, <2>1, <3>1, <4>1
            <4>. QED  BY <2>2, <4>2
        <3>3. {F[Meta[q].ver] : q \in Onward(usable, id, v)} = {E[Meta[q].ver] : q \in Onward(usable, id, v)}
            BY <3>2
        <3>. QED  BY <3>3 DEF EndOf
    <2>. HIDE DEF F, next
    <2>5. ASSUME NEW v \in u .. Latest, v \in 0 .. Latest PROVE F[v] = EndOf(F, usable, id, v)
        <3>1. CASE v = u
            BY <2>1, <2>4, <3>1 DEF next
        <3>2. CASE v # u
            <4>1. v \in Latest - n .. Latest
                BY <1>0, <2>1, <2>5, <3>2
            <4>. QED  BY <1>1, <2>2, <2>4, <2>5, <3>2, <4>1
        <3>. QED  BY <3>1, <3>2
    <2>. QED  BY <2>3, <2>5
<1>2. 0 \in T
    <2>. DEFINE E0 == [v \in 0 .. Latest |-> 0]
    <2>1. E0 = [v \in 0 .. Latest |-> E0[v]] /\ Right(E0, -1)
        BY <1>0
    <2>2. -1 \in Int /\ (-1) + 1 = 0 /\ 0 \in 0 .. Latest
        BY <1>0
    <2>. HIDE DEF E0, Right
    <2>. QED  BY <1>1, <2>1, <2>2
<1>3. ASSUME NEW n \in 0 .. Latest, n \in T, n < Latest PROVE n + 1 \in T
    <2>1. n \in Int /\ n + 1 \in 0 .. Latest /\ n + 1 \in Nat
        BY <1>0, <1>3
    <2>. HIDE DEF Right
    <2>. QED  BY <1>1, <1>3, <2>1
<1>4. Latest \in T
    <2>1. Latest \in 0 .. Latest
        BY <1>0
    <2>. HIDE DEF T
    <2>. QED  BY <1>0, <1>2, <1>3, <2>1, UpTo
<1>5. PICK E : E = [v \in 0 .. Latest |-> E[v]] /\ Right(E, Latest)
    BY <1>4
<1>6. \A v \in 0 .. Latest : E[v] = EndOf(E, usable, id, v)
    <2>1. Latest - Latest = 0
        BY <1>0
    <2>. QED  BY <1>5, <2>1
<1>7. IsEnds(E, usable, id)
    BY <1>5, <1>6 DEF IsEnds
<1>. QED  BY <1>7 DEF Terminals, IsEnds, EndOf

\* A version ends at itself or where a patch on it ends, and at no less.
Ends(ends, usable, id) ==
    /\ ends \in [0 .. Latest -> 0 .. Latest]
    /\ \A v \in 0 .. Latest :
        /\ v <= ends[v]
        /\ \A q \in Onward(usable, id, v) : ends[Meta[q].ver] <= ends[v]
        /\ ends[v] = v \/ \E q \in Onward(usable, id, v) : ends[v] = ends[Meta[q].ver]

LEMMA TerminalsAre ==
    ASSUME NEW usable \in SUBSET Packs, NEW id
    PROVE  Ends(Terminals(usable, id), usable, id)
<1>. DEFINE E == Terminals(usable, id)
            codes(v) == {v} \cup {E[Meta[p].ver] : p \in Onward(usable, id, v)}
            T == {n \in Nat : Latest - n \in 0 .. Latest => E[Latest - n] \in 0 .. Latest}
<1>0. Latest \in Nat
    BY LatestIs
<1>1. E = [v \in 0 .. Latest |-> Highest(codes(v))]
    BY EndsDefined DEF IsEnds, EndOf
<1>. HIDE DEF E
<1>2. ASSUME NEW v \in 0 .. Latest, \A u \in v + 1 .. Latest : E[u] \in 0 .. Latest
      PROVE  E[v] \in codes(v) /\ (\A m \in codes(v) : m <= E[v]) /\ E[v] \in 0 .. Latest
    <2>1. \A q \in Onward(usable, id, v) : E[Meta[q].ver] \in 0 .. Latest
        <3>1. v \in Nat
            OBVIOUS
        <3>. QED  BY <1>2, <3>1, OnwardFacts
    <2>2. codes(v) \in SUBSET (0 .. Latest) /\ codes(v) # {}
        BY <2>1
    <2>3. E[v] = Highest(codes(v))
        BY <1>1
    <2>. HIDE DEF codes
    <2>. QED  BY <1>0, <2>2, <2>3, HighestIs
<1>3. \A n \in 0 .. Latest : n \in T
    <2>1. ASSUME NEW n \in 0 .. Latest, \A m \in 0 .. n - 1 : m \in T PROVE n \in T
        <3>1. Latest - n \in 0 .. Latest
            BY <1>0
        <3>2. ASSUME NEW u \in (Latest - n) + 1 .. Latest PROVE E[u] \in 0 .. Latest
            <4>1. Latest - u \in 0 .. n - 1 /\ Latest - (Latest - u) = u /\ u \in 0 .. Latest
                BY <1>0, <3>1, <3>2
            <4>. QED  BY <2>1, <4>1
        <3>. QED  BY <1>2, <3>1, <3>2
    <2>. HIDE DEF T
    <2>. QED  BY <1>0, <2>1, FromBelow
<1>4. \A v \in 0 .. Latest : E[v] \in 0 .. Latest
    <2>. SUFFICES ASSUME NEW v \in 0 .. Latest PROVE E[v] \in 0 .. Latest
        OBVIOUS
    <2>1. Latest - v \in 0 .. Latest /\ Latest - (Latest - v) = v
        BY <1>0
    <2>. QED  BY <1>3, <2>1
<1>5. E \in [0 .. Latest -> 0 .. Latest]
    BY <1>1, <1>4
<1>6. ASSUME NEW v \in 0 .. Latest
      PROVE  /\ v <= E[v]
             /\ \A q \in Onward(usable, id, v) : E[Meta[q].ver] <= E[v]
             /\ E[v] = v \/ \E q \in Onward(usable, id, v) : E[v] = E[Meta[q].ver]
    <2>1. \A u \in v + 1 .. Latest : E[u] \in 0 .. Latest
        BY <1>0, <1>4
    <2>2. E[v] \in codes(v) /\ \A m \in codes(v) : m <= E[v]
        BY <1>2, <2>1
    <2>. QED  BY <2>2
<1>. QED  BY <1>5, <1>6 DEF Ends, E

-----------------------------------------------------------------------------
(***************************************************************************)
(* The choice, turn by turn.                                               *)
(***************************************************************************)
LEMMA TurnIs ==
    ASSUME NEW p \in Packs, Meta[p].kind # "mod"
    PROVE  /\ Turn(p) \in 1 .. LastTurn /\ LastTurn \in Nat
           /\ Meta[p].kind = "base" => Turn(p) = Meta[p].ver
           /\ Meta[p].kind = "patch" => Turn(p) = Latest + 1 + Meta[p].ver
           /\ Meta[p].kind = "dlc" => Turn(p) = 2 * (Latest + 1) + Meta[p].ver
           /\ Meta[p].kind \in {"base", "patch", "dlc"}
<1>0. Latest \in Nat /\ Meta[p].ver \in 1 .. Latest /\ Meta[p].kind \in {"base", "patch", "dlc"}
    BY LatestIs, PackFacts DEF Kinds
<1>1. CASE Meta[p].kind = "base"
    BY <1>0, <1>1 DEF Turn, LastTurn, LayerRank
<1>2. CASE Meta[p].kind = "patch"
    BY <1>0, <1>2 DEF Turn, LastTurn, LayerRank
<1>3. CASE Meta[p].kind = "dlc"
    BY <1>0, <1>3 DEF Turn, LastTurn, LayerRank
<1>. QED  BY <1>0, <1>1, <1>2, <1>3

\* Packs of an id take turns, and a patch comes after its parent.
LEMMA TurnsDiffer ==
    ASSUME OneBuildEach, NEW p \in Packs, NEW q \in Packs, Meta[p].id = Meta[q].id,
           Meta[p].kind # "mod", Meta[q].kind # "mod"
    PROVE  /\ Turn(p) = Turn(q) => p = q
           /\ IsPatch(q) /\ Meta[p].kind \in {"base", "patch"} /\ Meta[p].ver < Meta[q].ver
                 => Turn(p) < Turn(q)
           /\ IsPatch(q) /\ Meta[p].kind = "dlc" => Turn(q) < Turn(p)
<1>0. Latest \in Nat /\ Meta[p].ver \in 1 .. Latest /\ Meta[q].ver \in 1 .. Latest
    BY LatestIs
<1>1. Turn(p) = Turn(q) => Meta[p].ver = Meta[q].ver
    BY <1>0, TurnIs
<1>2. Turn(p) = Turn(q) => p = q
    BY <1>1, SameVersion
<1>. QED  BY <1>0, <1>2, TurnIs DEF IsPatch

After(before, eligible, n) ==
    LET passing == {p \in eligible : Turn(p) = n /\ Follows(p, before.current)}
        p == CHOOSE q \in passing : TRUE
    IN  IF passing = {} THEN before
        ELSE [current |-> Meta[p].ver, packs |-> before.packs \cup {p}]

IsChosen(C, eligible, start, top) ==
    C = [n \in 0 .. top |->
            IF n = 0 THEN [current |-> start, packs |-> {}] ELSE After(C[n - 1], eligible, n)]

LEMMA ChoicesDefined ==
    ASSUME NEW eligible, NEW start
    PROVE  IsChosen(Choices(eligible, start), eligible, start, LastTurn)
<1>. DEFINE T == {n \in Nat : \E C : IsChosen(C, eligible, start, n)}
            first == [current |-> start, packs |-> {}]
<1>1. 0 \in T
    <2>1. IsChosen([n \in 0 .. 0 |-> first], eligible, start, 0)
        BY DEF IsChosen
    <2>. QED  BY <2>1
<1>2. ASSUME NEW n \in Nat, n \in T PROVE n + 1 \in T
    <2>1. PICK C : IsChosen(C, eligible, start, n)
        BY <1>2
    <2>. DEFINE next == After(C[n], eligible, n + 1)
                D == [m \in 0 .. n + 1 |-> IF m = n + 1 THEN next ELSE C[m]]
    <2>2. ASSUME NEW m \in 0 .. n + 1
          PROVE  D[m] = IF m = 0 THEN first ELSE After(D[m - 1], eligible, m)
        <3>1. CASE m = n + 1
            <4>1. D[m] = next /\ D[n] = C[n] /\ m # 0 /\ m - 1 = n
                BY <3>1
            <4>. HIDE DEF D
            <4>. QED  BY <3>1, <4>1
        <3>2. CASE m # n + 1
            <4>1. m \in 0 .. n /\ D[m] = C[m] /\ (m # 0 => D[m - 1] = C[m - 1])
                BY <3>2
            <4>. HIDE DEF D
            <4>. QED  BY <2>1, <4>1 DEF IsChosen
        <3>. QED  BY <3>1, <3>2
    <2>3. D = [m \in 0 .. n + 1 |-> D[m]]
        OBVIOUS
    <2>. HIDE DEF D
    <2>4. IsChosen(D, eligible, start, n + 1)
        BY <2>2, <2>3 DEF IsChosen
    <2>. QED  BY <2>4
<1>3. LastTurn \in T
    <2>1. \A n \in 0 .. LastTurn : n \in T /\ n < LastTurn => n + 1 \in T
        BY <1>2
    <2>2. LastTurn \in Nat /\ LastTurn \in 0 .. LastTurn
        BY LatestIs DEF LastTurn
    <2>. HIDE DEF T
    <2>. QED  BY <1>1, <2>1, <2>2, UpTo
<1>4. \E C : IsChosen(C, eligible, start, LastTurn)
    BY <1>3
<1>. QED  BY <1>4 DEF Choices, IsChosen, After

\* Packs of one id, any of which may be chosen.
Rivals(eligible, id) ==
    \A p \in eligible : p \in Packs /\ Meta[p].id = id /\ Meta[p].kind # "mod"

\* At each turn the pack whose turn it is joins, or nothing happens.
TurnTaken(C, eligible, n) ==
    \/ /\ C[n] = C[n - 1]
       /\ \A p \in eligible : Turn(p) = n => ~Follows(p, C[n - 1].current)
    \/ \E p \in eligible :
          /\ Turn(p) = n /\ Follows(p, C[n - 1].current)
          /\ C[n] = [current |-> Meta[p].ver, packs |-> C[n - 1].packs \cup {p}]

LEMMA ChoicesStep ==
    ASSUME OneBuildEach, NEW eligible, NEW id, Rivals(eligible, id), NEW start \in Nat
    PROVE  LET C == Choices(eligible, start)
           IN  /\ C[0] = [current |-> start, packs |-> {}]
               /\ \A n \in 1 .. LastTurn : TurnTaken(C, eligible, n)
<1>. DEFINE C == Choices(eligible, start)
<1>1. IsChosen(C, eligible, start, LastTurn)
    BY ChoicesDefined
<1>. HIDE DEF C
<1>0. LastTurn \in Nat
    BY LatestIs DEF LastTurn
<1>2. /\ C[0] = [current |-> start, packs |-> {}]
      /\ \A n \in 1 .. LastTurn : C[n] = After(C[n - 1], eligible, n)
    <2>1. \A n \in 0 .. LastTurn :
            C[n] = IF n = 0 THEN [current |-> start, packs |-> {}] ELSE After(C[n - 1], eligible, n)
        BY <1>1 DEF IsChosen
    <2>2. 0 \in 0 .. LastTurn /\ \A n \in 1 .. LastTurn : n \in 0 .. LastTurn /\ n # 0
        BY <1>0
    <2>. QED  BY <2>1, <2>2
<1>3. ASSUME NEW n \in 1 .. LastTurn
      PROVE  TurnTaken(C, eligible, n)
    <2>. DEFINE passing == {p \in eligible : Turn(p) = n /\ Follows(p, C[n - 1].current)}
    <2>1. C[n] = IF passing = {} THEN C[n - 1]
                 ELSE LET p == CHOOSE q \in passing : TRUE
                      IN  [current |-> Meta[p].ver, packs |-> C[n - 1].packs \cup {p}]
        BY <1>2 DEF After
    <2>2. CASE passing = {}
        BY <2>1, <2>2 DEF TurnTaken
    <2>3. CASE passing # {}
        BY <2>1, <2>3 DEF TurnTaken
    <2>. QED  BY <2>2, <2>3
<1>. QED  BY <1>2, <1>3 DEF C

\* What is chosen up to a turn: packs above the start, the newest of which is
\* the current version.
ChosenSoFar(c, eligible, start, n) ==
    /\ c.current \in Nat /\ start <= c.current
    /\ c.packs \subseteq eligible
    /\ c.packs = {} => c.current = start
    /\ c.packs # {} => \E p \in c.packs : Meta[p].ver = c.current
    /\ \A q \in c.packs : start < Meta[q].ver /\ Meta[q].ver <= c.current /\ Turn(q) \in 1 .. n

LEMMA ChoicesSoFar ==
    ASSUME OneBuildEach, NEW eligible, NEW id, Rivals(eligible, id), NEW start \in Nat
    PROVE  \A n \in 0 .. LastTurn : ChosenSoFar(Choices(eligible, start)[n], eligible, start, n)
<1>. DEFINE C == Choices(eligible, start)
            T == {n \in Nat : ChosenSoFar(C[n], eligible, start, n)}
<1>0. LastTurn \in Nat
    BY LatestIs DEF LastTurn
<1>1. /\ C[0] = [current |-> start, packs |-> {}]
      /\ \A n \in 1 .. LastTurn : TurnTaken(C, eligible, n)
    BY ChoicesStep
<1>. HIDE DEF C
<1>2. 0 \in T
    BY <1>1 DEF ChosenSoFar
<1>3. ASSUME NEW n \in 0 .. LastTurn, n \in T, n < LastTurn PROVE n + 1 \in T
    <2>1. n + 1 \in 1 .. LastTurn /\ (n + 1) - 1 = n /\ n \in Nat
        BY <1>0, <1>3
    <2>2. ChosenSoFar(C[n], eligible, start, n)
        BY <1>3
    <2>3. CASE C[n + 1] = C[n]
        BY <2>1, <2>2, <2>3 DEF ChosenSoFar
    <2>4. CASE \E p \in eligible :
                  /\ Turn(p) = n + 1 /\ Follows(p, C[n].current)
                  /\ C[n + 1] = [current |-> Meta[p].ver, packs |-> C[n].packs \cup {p}]
        <3>1. PICK p \in eligible :
                  /\ Turn(p) = n + 1 /\ Follows(p, C[n].current)
                  /\ C[n + 1] = [current |-> Meta[p].ver, packs |-> C[n].packs \cup {p}]
            BY <2>4
        <3>2. Meta[p].ver \in Nat /\ Meta[p].ver > C[n].current
            BY <3>1, PackFacts DEF Rivals, Follows
        <3>3. ASSUME NEW q \in C[n].packs
              PROVE  start < Meta[q].ver /\ Meta[q].ver <= Meta[p].ver /\ Turn(q) \in 1 .. n + 1
            <4>1. Meta[q].ver \in Nat
                BY <2>2, <3>3, PackFacts DEF ChosenSoFar, Rivals
            <4>. QED  BY <2>1, <2>2, <3>2, <3>3, <4>1 DEF ChosenSoFar
        <3>4. start < Meta[p].ver /\ Meta[p].ver <= Meta[p].ver /\ Turn(p) \in 1 .. n + 1
            BY <2>1, <2>2, <3>1, <3>2 DEF ChosenSoFar
        <3>5. /\ C[n + 1].current = Meta[p].ver /\ C[n + 1].packs = C[n].packs \cup {p}
              /\ C[n].packs \subseteq eligible
            BY <2>2, <3>1 DEF ChosenSoFar
        <3>6. ChosenSoFar(C[n + 1], eligible, start, n + 1)
            BY <3>2, <3>3, <3>4, <3>5 DEF ChosenSoFar
        <3>. QED  BY <2>1, <3>6
    <2>. QED  BY <1>1, <2>1, <2>3, <2>4 DEF TurnTaken
<1>4. \A n \in 0 .. LastTurn : n \in T
    <2>. HIDE DEF T
    <2>. QED  BY <1>0, <1>2, <1>3, UpTo
<1>. QED  BY <1>4 DEF C

\* What is chosen at one turn, seen from a later one.
LEMMA ChoicesGrow ==
    ASSUME OneBuildEach, NEW eligible, NEW id, Rivals(eligible, id), NEW start \in Nat,
           NEW m \in 0 .. LastTurn
    PROVE  LET C == Choices(eligible, start)
           IN  \A n \in 0 .. LastTurn : m <= n =>
                  /\ C[m].current <= C[n].current
                  /\ C[m].packs = {p \in C[n].packs : Turn(p) <= m}
<1>. DEFINE C == Choices(eligible, start)
            T == {n \in Nat : m <= n => /\ C[m].current <= C[n].current
                                        /\ C[m].packs = {p \in C[n].packs : Turn(p) <= m}}
<1>0. LastTurn \in Nat
    BY LatestIs DEF LastTurn
<1>1. \A n \in 1 .. LastTurn : TurnTaken(C, eligible, n)
    BY ChoicesStep
<1>2. \A n \in 0 .. LastTurn : ChosenSoFar(C[n], eligible, start, n)
    BY ChoicesSoFar
<1>. HIDE DEF C
<1>3. m \in T
    <2>1. ChosenSoFar(C[m], eligible, start, m)
        BY <1>2
    <2>2. C[m].current <= C[m].current
        BY <2>1 DEF ChosenSoFar
    <2>3. \A p \in C[m].packs : Turn(p) <= m
        BY <2>1 DEF ChosenSoFar
    <2>. QED  BY <2>2, <2>3
<1>4. ASSUME NEW n \in 0 .. LastTurn, n \in T, n < LastTurn PROVE n + 1 \in T
    <2>1. n + 1 \in 1 .. LastTurn /\ (n + 1) - 1 = n /\ n \in Nat /\ n + 1 \in Nat
        BY <1>0, <1>4
    <2>2. CASE m <= n
        <3>1. /\ C[m].current <= C[n].current
              /\ C[m].packs = {p \in C[n].packs : Turn(p) <= m}
            BY <1>4, <2>2
        <3>2. CASE C[n + 1] = C[n]
            BY <2>1, <3>1, <3>2
        <3>3. CASE \E p \in eligible :
                  /\ Turn(p) = n + 1 /\ Follows(p, C[n].current)
                  /\ C[n + 1] = [current |-> Meta[p].ver, packs |-> C[n].packs \cup {p}]
            <4>1. PICK p \in eligible :
                  /\ Turn(p) = n + 1 /\ Follows(p, C[n].current)
                  /\ C[n + 1] = [current |-> Meta[p].ver, packs |-> C[n].packs \cup {p}]
                BY <3>3
            <4>2. Meta[p].ver \in Nat /\ Meta[p].ver > C[n].current /\ ~(Turn(p) <= m)
                BY <2>1, <2>2, <4>1, PackFacts DEF Rivals, Follows
            <4>3. C[m].current \in Nat /\ C[n].current \in Nat
                BY <1>2 DEF ChosenSoFar
            <4>4. C[m].current <= C[n + 1].current
                BY <3>1, <4>1, <4>2, <4>3
            <4>5. C[m].packs = {q \in C[n + 1].packs : Turn(q) <= m}
                BY <3>1, <4>1, <4>2
            <4>. QED  BY <2>1, <4>4, <4>5
        <3>. QED  BY <1>1, <2>1, <3>2, <3>3 DEF TurnTaken
    <2>3. CASE ~(m <= n)
        <3>1. m = n + 1 \/ ~(m <= n + 1)
            BY <2>1, <2>3
        <3>. QED  BY <1>3, <2>1, <3>1
    <2>. QED  BY <2>2, <2>3
<1>5. \A n \in 0 .. LastTurn : n \in T
    <2>1. ASSUME 0 < m PROVE 0 \in T
        BY <2>1
    <2>2. 0 \in T
        BY <1>3, <2>1
    <2>. HIDE DEF T
    <2>. QED  BY <1>0, <1>4, <2>2, UpTo
<1>. QED  BY <1>5 DEF C

\* A chosen pack followed what was chosen before its turn.
LEMMA ChosenInTurn ==
    ASSUME OneBuildEach, NEW eligible, NEW id, Rivals(eligible, id), NEW start \in Nat,
           NEW q \in Choices(eligible, start)[LastTurn].packs
    PROVE  LET C == Choices(eligible, start)
           IN  /\ Turn(q) \in 1 .. LastTurn
               /\ Follows(q, C[Turn(q) - 1].current)
               /\ C[Turn(q)].current = Meta[q].ver
<1>. DEFINE C == Choices(eligible, start)
            t == Turn(q)
<1>0. LastTurn \in Nat /\ LastTurn \in 0 .. LastTurn
    BY LatestIs DEF LastTurn
<1>1. \A n \in 1 .. LastTurn : TurnTaken(C, eligible, n)
    BY ChoicesStep
<1>2. \A n \in 0 .. LastTurn : ChosenSoFar(C[n], eligible, start, n)
    BY ChoicesSoFar
<1>3. t \in 1 .. LastTurn /\ t \in 0 .. LastTurn /\ t - 1 \in 0 .. LastTurn /\ q \in eligible
    BY <1>0, <1>2 DEF ChosenSoFar
<1>4. q \in C[t].packs
    <2>1. C[t].packs = {p \in C[LastTurn].packs : Turn(p) <= t}
        BY <1>0, <1>3, ChoicesGrow
    <2>. QED  BY <1>3, <2>1
<1>5. q \notin C[t - 1].packs
    <2>1. \A p \in C[t - 1].packs : Turn(p) \in 1 .. t - 1
        BY <1>2, <1>3 DEF ChosenSoFar
    <2>. QED  BY <1>3, <2>1
<1>. HIDE DEF C
<1>6. PICK p \in eligible :
          /\ Turn(p) = t /\ Follows(p, C[t - 1].current)
          /\ C[t] = [current |-> Meta[p].ver, packs |-> C[t - 1].packs \cup {p}]
    BY <1>1, <1>3, <1>4, <1>5 DEF TurnTaken
<1>7. p = q
    BY <1>4, <1>5, <1>6
<1>. QED  BY <1>3, <1>6, <1>7 DEF C

-----------------------------------------------------------------------------
(***************************************************************************)
(* What is chosen for an id.                                               *)
(***************************************************************************)
Asked(usable, installed, floor, id) ==
    /\ usable \subseteq Packs /\ \A p \in usable : Meta[p].kind # "mod"
    /\ installed \in [Ids -> Nat] /\ floor \in [Ids -> Nat]
    /\ id \in Ids

NewestOf(usable, installed, floor, id) ==
    Newest(usable, Terminals(usable, id), installed, floor, id)
EligibleOf(usable, installed, floor, id) ==
    Eligible(usable, Terminals(usable, id), NewestOf(usable, installed, floor, id), floor, id)
ChosenOf(usable, installed, floor, id) ==
    Choices(EligibleOf(usable, installed, floor, id), installed[id])[LastTurn]

\* A base or dlc that may replace what is installed.
Replaces(usable, installed, floor, id, q) ==
    /\ q \in usable /\ Meta[q].id = id /\ ~IsPatch(q) /\ Meta[q].ver > installed[id]
    /\ ReachesFloor(Terminals(usable, id), floor, q)

LEMMA NewestIs ==
    ASSUME NEW usable, NEW installed, NEW floor, NEW id, Asked(usable, installed, floor, id)
    PROVE  LET newest == NewestOf(usable, installed, floor, id)
           IN  /\ newest \in Nat
               /\ \A q : Replaces(usable, installed, floor, id, q) => Meta[q].ver <= newest
               /\ newest = 0 \/ \E q : /\ Replaces(usable, installed, floor, id, q)
                                       /\ Meta[q].ver = newest
<1>. DEFINE ends == Terminals(usable, id)
            codes == {0} \cup {Meta[p].ver :
                        p \in {q \in usable : /\ Meta[q].id = id
                                              /\ ~IsPatch(q)
                                              /\ Meta[q].ver > installed[id]
                                              /\ ReachesFloor(ends, floor, q)}}
            newest == NewestOf(usable, installed, floor, id)
<1>1. codes \in SUBSET (0 .. Latest) /\ codes # {} /\ Latest \in Nat
    BY LatestIs DEF Asked
<1>2. newest = Highest(codes)
    BY DEF NewestOf, Newest
<1>3. newest \in codes /\ \A m \in codes : m <= newest
    <2>. HIDE DEF codes, newest
    <2>. QED  BY <1>1, <1>2, HighestIs
<1>4. \A q : Replaces(usable, installed, floor, id, q) => Meta[q].ver \in codes
    BY DEF Replaces
<1>5. \A n \in codes : n = 0 \/ \E q : Replaces(usable, installed, floor, id, q) /\ Meta[q].ver = n
    BY DEF Replaces
<1>. HIDE DEF codes, newest
<1>6. newest \in Nat
    BY <1>1, <1>3
<1>. QED  BY <1>3, <1>4, <1>5, <1>6 DEF newest

LEMMA EligibleAre ==
    ASSUME NEW usable, NEW installed, NEW floor, NEW id, Asked(usable, installed, floor, id)
    PROVE  LET eligible == EligibleOf(usable, installed, floor, id)
           IN  /\ Rivals(eligible, id) /\ eligible \subseteq usable
               /\ installed[id] \in Nat /\ floor[id] \in Nat
               /\ \A p \in eligible : ReachesFloor(Terminals(usable, id), floor, p)
               /\ \A p \in eligible : IsPatch(p) =>
                     ParentCode(p) >= NewestOf(usable, installed, floor, id)
               /\ \A p \in usable : IsPatch(p) /\ Meta[p].id = id
                     /\ ParentCode(p) >= NewestOf(usable, installed, floor, id)
                     /\ ReachesFloor(Terminals(usable, id), floor, p) => p \in eligible
               /\ \A p \in eligible : ~IsPatch(p) =>
                     Meta[p].ver >= NewestOf(usable, installed, floor, id)
               /\ \A p \in usable : ~IsPatch(p) /\ Meta[p].id = id
                     /\ Meta[p].ver >= NewestOf(usable, installed, floor, id)
                     /\ ReachesFloor(Terminals(usable, id), floor, p) => p \in eligible
BY DEF EligibleOf, Eligible, Asked, Rivals

(***************************************************************************)
(* No pack that may be chosen follows the version the choice leads to: the *)
(* turns leave nothing behind.                                             *)
(***************************************************************************)
LEMMA NothingLeft ==
    ASSUME OneBuildEach, NEW eligible, NEW id, Rivals(eligible, id), NEW start \in Nat,
           NEW p \in eligible
    PROVE  ~Follows(p, Choices(eligible, start)[LastTurn].current)
<1>. DEFINE C == Choices(eligible, start)
            t == Turn(p)
            final == C[LastTurn].current
            before == C[t - 1].current
<1>. SUFFICES ASSUME Follows(p, final) PROVE FALSE
    OBVIOUS
<1>0. LastTurn \in Nat /\ LastTurn \in 0 .. LastTurn
    BY LatestIs DEF LastTurn
<1>1. p \in Packs /\ Meta[p].kind # "mod" /\ Meta[p].id = id /\ Meta[p].ver \in Nat
    BY PackFacts DEF Rivals
<1>2. t \in 1 .. LastTurn
    BY <1>1, TurnIs
<1>3. t \in 0 .. LastTurn /\ t - 1 \in 0 .. LastTurn
    BY <1>0, <1>2
<1>4. \A n \in 0 .. LastTurn : ChosenSoFar(C[n], eligible, start, n)
    BY ChoicesSoFar
<1>5. before \in Nat /\ final \in Nat /\ before <= final /\ C[t].current <= final
      /\ start <= before /\ C[t].current \in Nat
    BY <1>0, <1>3, <1>4, ChoicesGrow DEF ChosenSoFar
<1>6. TurnTaken(C, eligible, t)
    BY <1>2, ChoicesStep
<1>7. Follows(p, before) => C[t].current = Meta[p].ver
    <2>. SUFFICES ASSUME Follows(p, before) PROVE C[t].current = Meta[p].ver
        OBVIOUS
    <2>. HIDE DEF C
    <2>1. PICK q \in eligible : Turn(q) = t /\ C[t].current = Meta[q].ver
        <3>1. ~(\A q \in eligible : Turn(q) = t => ~Follows(q, C[t - 1].current))
            BY Zenon
        <3>2. PICK q \in eligible :
                  /\ Turn(q) = t /\ Follows(q, C[t - 1].current)
                  /\ C[t] = [current |-> Meta[q].ver, packs |-> C[t - 1].packs \cup {q}]
            BY <1>6, <3>1, Zenon DEF TurnTaken
        <3>3. C[t].current = Meta[q].ver
            BY <3>2
        <3>. QED  BY <3>2, <3>3
    <2>2. q = p
        BY <1>1, <2>1, TurnsDiffer DEF Rivals
    <2>. QED  BY <2>1, <2>2
<1>8. Meta[p].ver > final
    BY DEF Follows
<1>9. ~Follows(p, before)
    <2>. HIDE DEF C, final, before
    <2>. QED  BY <1>1, <1>5, <1>7, <1>8 DEF final
<1>10. IsPatch(p) /\ final = ParentCode(p) /\ before < final
    <2>. HIDE DEF C, final, before
    <2>1. Follows(p, final)
        BY DEF final
    <2>. QED  BY <1>1, <1>5, <1>8, <1>9, <2>1 DEF Follows
<1>11. PICK x \in C[LastTurn].packs : Meta[x].ver = final
    <2>1. ChosenSoFar(C[LastTurn], eligible, start, LastTurn)
        BY <1>0, <1>4
    <2>2. final # start
        BY <1>5, <1>10
    <2>. QED  BY <2>1, <2>2 DEF ChosenSoFar
<1>12. x \in Packs /\ Meta[x].id = id /\ Meta[x].kind # "mod"
    BY <1>0, <1>4 DEF ChosenSoFar, Rivals
<1>13. x = Meta[p].parent
    BY <1>1, <1>10, <1>11, <1>12, ParentFacts, SameVersion
<1>14. Turn(x) < t
    BY <1>1, <1>10, <1>12, <1>13, ParentFacts, TurnsDiffer
<1>15. x \in C[t - 1].packs
    <2>1. Turn(x) \in 1 .. LastTurn
        BY <1>12, TurnIs
    <2>2. Turn(x) <= t - 1
        BY <1>2, <1>14, <2>1
    <2>3. C[t - 1].packs = {q \in C[LastTurn].packs : Turn(q) <= t - 1}
        BY <1>0, <1>3, ChoicesGrow
    <2>. QED  BY <1>11, <2>2, <2>3
<1>16. Meta[x].ver <= before
    BY <1>3, <1>4, <1>15 DEF ChosenSoFar
<1>. QED  BY <1>5, <1>10, <1>11, <1>16

WellChosen(c, usable, installed, floor, id) ==
    LET newest == NewestOf(usable, installed, floor, id)
        start  == installed[id]
    IN  /\ c.current \in Nat /\ start <= c.current /\ newest <= c.current
        /\ c.packs \subseteq EligibleOf(usable, installed, floor, id)
        /\ c.packs = {} => c.current = start
        /\ c.packs # {} => \E p \in c.packs : Meta[p].ver = c.current
        /\ c.packs # {} => c.current >= floor[id]
        /\ \A q \in c.packs : start < Meta[q].ver /\ Meta[q].ver <= c.current
        /\ \A q \in c.packs : IsPatch(q) =>
              /\ ParentCode(q) = start \/ Meta[q].parent \in c.packs
              /\ \A r \in c.packs : Meta[r].ver <= ParentCode(q) \/ Meta[r].ver >= Meta[q].ver
        /\ \A q \in c.packs : ~IsPatch(q) =>
              /\ Meta[q].ver = newest
              /\ \A r \in c.packs :
                    r = q \/ (IsPatch(r) /\ Meta[r].ver > Meta[q].ver /\ Meta[q].kind = "base")

LEMMA KeepsUp ==
    ASSUME OneBuildEach, NEW usable, NEW installed, NEW floor, NEW id,
           Asked(usable, installed, floor, id)
    PROVE  /\ ChosenOf(usable, installed, floor, id).current \in Nat
           /\ NewestOf(usable, installed, floor, id) <= ChosenOf(usable, installed, floor, id).current
<1>. DEFINE eligible == EligibleOf(usable, installed, floor, id)
            newest == NewestOf(usable, installed, floor, id)
            final == ChosenOf(usable, installed, floor, id).current
<1>0. Rivals(eligible, id) /\ installed[id] \in Nat /\ LastTurn \in 0 .. LastTurn
    BY EligibleAre, LatestIs DEF LastTurn
<1>1. newest \in Nat /\ final \in Nat
    <2>1. ChosenSoFar(Choices(eligible, installed[id])[LastTurn], eligible, installed[id], LastTurn)
        BY <1>0, ChoicesSoFar
    <2>. QED  BY <2>1, NewestIs DEF ChosenSoFar, ChosenOf
<1>2. CASE newest = 0
    BY <1>1, <1>2
<1>3. CASE newest # 0
    <2>1. PICK q : Replaces(usable, installed, floor, id, q) /\ Meta[q].ver = newest
        BY <1>3, NewestIs
    <2>2. q \in usable /\ q \in Packs /\ ~IsPatch(q) /\ Meta[q].id = id
          /\ ReachesFloor(Terminals(usable, id), floor, q) /\ Meta[q].ver \in Nat
        BY <2>1, PackFacts DEF Replaces, Asked
    <2>3. q \in eligible
        BY <1>1, <2>1, <2>2, EligibleAre
    <2>4. ~Follows(q, final)
        BY <1>0, <2>3, NothingLeft DEF ChosenOf
    <2>. QED  BY <1>1, <2>1, <2>2, <2>4 DEF Follows
<1>. QED  BY <1>2, <1>3

\* A choice from which the floor could still be reached has reached it.
LEMMA FloorReached ==
    ASSUME OneBuildEach, NEW usable, NEW installed, NEW floor, NEW id,
           Asked(usable, installed, floor, id),
           LET final == ChosenOf(usable, installed, floor, id).current
           IN  final \in 0 .. Latest /\ Terminals(usable, id)[final] >= floor[id]
    PROVE  ChosenOf(usable, installed, floor, id).current >= floor[id]
<1>. DEFINE eligible == EligibleOf(usable, installed, floor, id)
            final == ChosenOf(usable, installed, floor, id).current
            ends == Terminals(usable, id)
<1>1. Ends(ends, usable, id)
    BY TerminalsAre DEF Asked
<1>2. CASE ends[final] = final
    BY <1>2
<1>3. CASE ends[final] # final
    <2>1. PICK q \in Onward(usable, id, final) : ends[final] = ends[Meta[q].ver]
        BY <1>1, <1>3 DEF Ends
    <2>2. q \in usable /\ IsPatch(q) /\ Meta[q].id = id /\ ParentCode(q) = final
          /\ Meta[q].ver > final
        BY <2>1 DEF Onward
    <2>3. ReachesFloor(ends, floor, q)
        <3>1. LayerRank(Meta[q].kind) <= LayerRank("patch")
            BY <2>2 DEF IsPatch, LayerRank
        <3>. QED  BY <2>1, <2>2, <3>1 DEF ReachesFloor
    <2>4. ParentCode(q) >= NewestOf(usable, installed, floor, id)
        BY <2>2, KeepsUp, NewestIs
    <2>5. q \in eligible
        BY <2>2, <2>3, <2>4, EligibleAre
    <2>6. ~Follows(q, final)
        BY <2>5, EligibleAre, NothingLeft DEF ChosenOf
    <2>. QED  BY <2>2, <2>6 DEF Follows
<1>. QED  BY <1>2, <1>3

LEMMA ChosenIs ==
    ASSUME OneBuildEach, NEW usable, NEW installed, NEW floor, NEW id,
           Asked(usable, installed, floor, id)
    PROVE  WellChosen(ChosenOf(usable, installed, floor, id), usable, installed, floor, id)
<1>. DEFINE eligible == EligibleOf(usable, installed, floor, id)
            newest == NewestOf(usable, installed, floor, id)
            start == installed[id]
            C == Choices(eligible, start)
            c == C[LastTurn]
<1>0. /\ Rivals(eligible, id) /\ eligible \subseteq usable /\ start \in Nat
      /\ LastTurn \in Nat /\ LastTurn \in 0 .. LastTurn /\ newest \in Nat
      /\ c = ChosenOf(usable, installed, floor, id) /\ floor[id] \in Nat
    BY EligibleAre, NewestIs, LatestIs DEF LastTurn, ChosenOf
<1>1. \A n \in 0 .. LastTurn : ChosenSoFar(C[n], eligible, start, n)
    BY <1>0, ChoicesSoFar
<1>2. ChosenSoFar(c, eligible, start, LastTurn) /\ newest <= c.current
    BY <1>0, <1>1, KeepsUp
<1>. HIDE DEF eligible, newest, start
<1>3. ASSUME NEW q \in c.packs
      PROVE  /\ q \in Packs /\ Meta[q].id = id /\ Meta[q].kind # "mod" /\ Meta[q].ver \in Nat
             /\ start < Meta[q].ver /\ Meta[q].ver <= c.current
             /\ Turn(q) \in 1 .. LastTurn /\ Turn(q) - 1 \in 0 .. LastTurn
             /\ Turn(q) \in 0 .. LastTurn
             /\ Follows(q, C[Turn(q) - 1].current) /\ C[Turn(q)].current = Meta[q].ver
    <2>1. q \in eligible /\ start < Meta[q].ver /\ Meta[q].ver <= c.current
        BY <1>2, <1>3 DEF ChosenSoFar
    <2>2. q \in Packs /\ Meta[q].id = id /\ Meta[q].kind # "mod" /\ Meta[q].ver \in Nat
        BY <1>0, <2>1, PackFacts DEF Rivals
    <2>3. /\ Turn(q) \in 1 .. LastTurn
          /\ Follows(q, C[Turn(q) - 1].current) /\ C[Turn(q)].current = Meta[q].ver
        BY <1>0, <1>3, ChosenInTurn
    <2>4. Turn(q) - 1 \in 0 .. LastTurn /\ Turn(q) \in 0 .. LastTurn
        BY <1>0, <2>3
    <2>. QED  BY <2>1, <2>2, <2>3, <2>4
<1>4. ASSUME NEW q \in c.packs, NEW r \in c.packs, Turn(r) < Turn(q)
      PROVE  r \in C[Turn(q) - 1].packs /\ Meta[r].ver <= C[Turn(q) - 1].current
    <2>1. Turn(r) <= Turn(q) - 1
        BY <1>3, <1>4
    <2>2. C[Turn(q) - 1].packs = {p \in C[LastTurn].packs : Turn(p) <= Turn(q) - 1}
        <3>1. Turn(q) - 1 \in 0 .. LastTurn /\ Turn(q) - 1 <= LastTurn
            BY <1>0, <1>3
        <3>. QED  BY <1>0, <3>1, ChoicesGrow
    <2>3. r \in C[Turn(q) - 1].packs
        BY <1>4, <2>1, <2>2
    <2>4. ChosenSoFar(C[Turn(q) - 1], eligible, start, Turn(q) - 1)
        BY <1>1, <1>3
    <2>. QED  BY <2>3, <2>4 DEF ChosenSoFar
<1>5. ASSUME NEW q \in c.packs, IsPatch(q)
      PROVE  /\ ParentCode(q) = start \/ Meta[q].parent \in c.packs
             /\ \A r \in c.packs : Meta[r].ver <= ParentCode(q) \/ Meta[r].ver >= Meta[q].ver
    <2>. DEFINE t == Turn(q)
    <2>0. /\ q \in Packs /\ t - 1 \in 0 .. LastTurn /\ t \in 1 .. LastTurn /\ t <= LastTurn
          /\ t \in 0 .. LastTurn
        BY <1>0, <1>3
    <2>1. C[t - 1].current = ParentCode(q) /\ ParentCode(q) \in Nat /\ C[t].current = Meta[q].ver
        BY <1>3, <1>5, ParentFacts DEF Follows
    <2>2. ChosenSoFar(C[t - 1], eligible, start, t - 1)
        BY <1>1, <2>0
    <2>3. C[t - 1].packs \subseteq c.packs
        <3>1. t - 1 <= LastTurn
            BY <1>0, <2>0
        <3>2. C[t - 1].packs = {p \in C[LastTurn].packs : Turn(p) <= t - 1}
            BY <1>0, <2>0, <3>1, ChoicesGrow
        <3>. QED  BY <3>2
    <2>4. ASSUME ParentCode(q) # start PROVE Meta[q].parent \in c.packs
        <3>1. PICK x \in C[t - 1].packs : Meta[x].ver = ParentCode(q)
            BY <2>1, <2>2, <2>4 DEF ChosenSoFar
        <3>2. x \in c.packs /\ x \in Packs /\ Meta[x].id = id
            BY <1>3, <2>3, <3>1
        <3>3. x = Meta[q].parent
            BY <1>3, <1>5, <2>0, <3>1, <3>2, ParentFacts, SameVersion
        <3>. QED  BY <3>2, <3>3
    <2>5. ASSUME NEW r \in c.packs PROVE Meta[r].ver <= ParentCode(q) \/ Meta[r].ver >= Meta[q].ver
        <3>0. Turn(r) \in 1 .. LastTurn /\ Meta[r].ver \in Nat /\ Meta[q].ver \in Nat
            BY <1>3
        <3>1. CASE Turn(r) < t
            BY <1>4, <2>1, <3>1
        <3>2. CASE Turn(r) = t
            BY <1>3, <2>1, <3>0, <3>2
        <3>3. CASE t < Turn(r)
            <4>1. Turn(r) - 1 \in 0 .. LastTurn /\ t <= Turn(r) - 1
                BY <1>3, <2>0, <3>0, <3>3
            <4>2. C[t].current <= C[Turn(r) - 1].current
                BY <1>0, <2>0, <4>1, ChoicesGrow
            <4>3. Meta[r].ver > C[Turn(r) - 1].current /\ C[Turn(r) - 1].current \in Nat
                BY <1>1, <1>3, <4>1 DEF Follows, ChosenSoFar
            <4>. QED  BY <2>1, <3>0, <4>2, <4>3
        <3>. QED  BY <2>0, <3>0, <3>1, <3>2, <3>3
    <2>. QED  BY <2>4, <2>5
<1>6. ASSUME NEW q \in c.packs, ~IsPatch(q)
      PROVE  /\ Meta[q].ver = newest
             /\ \A r \in c.packs :
                   r = q \/ (IsPatch(r) /\ Meta[r].ver > Meta[q].ver /\ Meta[q].kind = "base")
    <2>1. \A p \in c.packs : p \in eligible
        BY <1>2 DEF ChosenSoFar
    <2>2. ASSUME NEW p \in c.packs, ~IsPatch(p) PROVE Meta[p].ver = newest
        <3>1. p \in eligible /\ p \in usable
            BY <1>0, <2>1, <2>2
        <3>2. Replaces(usable, installed, floor, id, p)
            BY <1>3, <2>2, <3>1, EligibleAre DEF Replaces, eligible, start
        <3>3. Meta[p].ver <= newest
            BY <3>2, NewestIs DEF newest
        <3>4. Meta[p].ver >= newest
            BY <2>2, <3>1, EligibleAre DEF newest, eligible
        <3>. QED  BY <1>0, <1>3, <3>3, <3>4
    <2>3. ASSUME NEW r \in c.packs, r # q
          PROVE  IsPatch(r) /\ Meta[r].ver > Meta[q].ver /\ Meta[q].kind = "base"
        <3>0. /\ r \in Packs /\ q \in Packs /\ Meta[r].id = id /\ Meta[q].id = id
              /\ Meta[r].kind # "mod" /\ Meta[q].kind # "mod"
              /\ Meta[r].ver \in Nat /\ Meta[q].ver \in Nat
            BY <1>3
        <3>1. IsPatch(r)
            BY <1>6, <2>2, <2>3, <3>0, SameVersion
        <3>2. ParentCode(r) >= newest /\ ParentCode(r) \in Nat /\ ParentCode(r) < Meta[r].ver
            BY <2>1, <3>0, <3>1, EligibleAre, ParentFacts DEF newest, eligible
        <3>3. Meta[r].ver > Meta[q].ver
            BY <1>0, <1>6, <2>2, <3>0, <3>2
        <3>4. Meta[q].kind # "dlc"
            <4>. SUFFICES ASSUME Meta[q].kind = "dlc" PROVE FALSE
                OBVIOUS
            <4>1. Turn(r) < Turn(q)
                BY <3>0, <3>1, TurnsDiffer
            <4>2. Meta[r].ver <= C[Turn(q) - 1].current /\ C[Turn(q) - 1].current \in Nat
                BY <1>1, <1>3, <1>4, <4>1 DEF ChosenSoFar
            <4>3. Meta[q].ver > C[Turn(q) - 1].current
                BY <1>3 DEF Follows
            <4>. QED  BY <3>0, <3>3, <4>2, <4>3
        <3>5. Meta[q].kind = "base"
            BY <1>6, <3>0, <3>4, PackFacts DEF Kinds, IsPatch
        <3>. QED  BY <3>1, <3>3, <3>5
    <2>. QED  BY <1>6, <2>2, <2>3
<1>7. ASSUME c.packs # {} PROVE c.current >= floor[id]
    <2>1. PICK p \in c.packs : Meta[p].ver = c.current
        BY <1>2, <1>7 DEF ChosenSoFar
    <2>2. p \in Packs /\ ReachesFloor(Terminals(usable, id), floor, p) /\ Meta[p].id = id
          /\ Meta[p].ver \in 0 .. Latest
        <3>1. p \in eligible
            BY <1>2 DEF ChosenSoFar
        <3>2. Meta[p].ver \in 1 .. Latest /\ Latest \in Nat
            BY <1>3, LatestIs
        <3>. QED  BY <1>3, <3>1, <3>2, EligibleAre DEF eligible
    <2>3. CASE LayerRank(Meta[p].kind) <= LayerRank("patch")
        <3>1. Terminals(usable, id)[c.current] >= floor[id]
            <4>1. floor[id] <= Terminals(usable, id)[Meta[p].ver]
                BY <2>2, <2>3 DEF ReachesFloor
            <4>2. Terminals(usable, id)[Meta[p].ver] \in 0 .. Latest
                <5>1. usable \in SUBSET Packs
                    BY DEF Asked
                <5>2. Ends(Terminals(usable, id), usable, id)
                    BY <5>1, TerminalsAre
                <5>. QED  BY <2>2, <5>2 DEF Ends
            <4>. QED  BY <1>0, <2>1, <4>1, <4>2
        <3>. QED  BY <1>0, <2>1, <2>2, <3>1, FloorReached
    <2>4. CASE ~(LayerRank(Meta[p].kind) <= LayerRank("patch"))
        <3>1. floor[id] <= Meta[p].ver
            BY <2>2, <2>4 DEF ReachesFloor
        <3>. QED  BY <1>0, <2>1, <2>2, <3>1
    <2>. QED  BY <2>3, <2>4
<1>8. /\ c.current \in Nat /\ start <= c.current /\ newest <= c.current
      /\ c.packs \subseteq eligible
      /\ c.packs = {} => c.current = start
      /\ c.packs # {} => \E p \in c.packs : Meta[p].ver = c.current
    BY <1>2 DEF ChosenSoFar
<1>. QED  BY <1>0, <1>3, <1>5, <1>6, <1>7, <1>8 DEF WellChosen, newest, start, eligible

\* A plan is what is chosen for each id: no choice ends below its floor.
PlanOf(batch, usable, installed, floor) ==
    /\ \A i \in Ids : Asked(usable, installed, floor, i)
    /\ \A i \in Ids : WellChosen(ChosenOf(usable, installed, floor, i), usable, installed, floor, i)
    /\ \A i \in Ids : \A p \in ChosenOf(usable, installed, floor, i).packs :
          p \in batch /\ Meta[p].id = i
    /\ \A p \in batch :
          /\ p \in usable /\ p \in Packs
          /\ Meta[p].id \in Ids
          /\ p \in ChosenOf(usable, installed, floor, Meta[p].id).packs

LEMMA PlanIs ==
    ASSUME OneBuildEach, NEW offer \in SUBSET Packs, NEW vs,
           NEW installed \in [Ids -> Nat], NEW floor \in [Ids -> Nat]
    PROVE  PlanOf(Plan(offer, vs, installed, floor), Usable(offer, vs), installed, floor)
<1>. DEFINE usable == Usable(offer, vs)
            Chosen(i) == ChosenOf(usable, installed, floor, i)
<1>1. ASSUME NEW i \in Ids PROVE Asked(usable, installed, floor, i)
    BY DEF Asked, Usable
<1>2. ASSUME NEW i \in Ids PROVE WellChosen(Chosen(i), usable, installed, floor, i)
    BY <1>1, ChosenIs
<1>3. ASSUME NEW i \in Ids PROVE Selection(offer, vs, installed, floor, i) = Chosen(i)
    BY DEF Selection, ChosenOf, EligibleOf, NewestOf
<1>4. Plan(offer, vs, installed, floor) =
        UNION {Chosen(i).packs : i \in {j \in Ids : Chosen(j).current >= floor[j]}}
    BY <1>3 DEF Plan
<1>5. ASSUME NEW i \in Ids, NEW p \in Chosen(i).packs
      PROVE  p \in usable /\ p \in Packs /\ Meta[p].id = i
    <2>1. p \in EligibleOf(usable, installed, floor, i)
        BY <1>2, <1>5 DEF WellChosen
    <2>. QED  BY <1>1, <2>1, EligibleAre DEF Rivals
<1>. HIDE DEF Chosen, usable
<1>6. ASSUME NEW i \in Ids, NEW p \in Chosen(i).packs PROVE p \in Plan(offer, vs, installed, floor)
    <2>1. Chosen(i).current >= floor[i]
        BY <1>2, <1>6 DEF WellChosen
    <2>. QED  BY <1>4, <1>6, <2>1
<1>7. ASSUME NEW p \in Plan(offer, vs, installed, floor)
      PROVE  p \in usable /\ p \in Packs /\ Meta[p].id \in Ids /\ p \in Chosen(Meta[p].id).packs
    <2>1. PICK i \in Ids : p \in Chosen(i).packs
        BY <1>4, <1>7
    <2>. QED  BY <1>5, <2>1
<1>. QED  BY <1>1, <1>2, <1>5, <1>6, <1>7 DEF PlanOf, Chosen, usable

-----------------------------------------------------------------------------
(***************************************************************************)
(* Stacks.  Within an id, what lies on a base or a patch is a patch, and   *)
(* nothing lies on a dlc.                                                  *)
(***************************************************************************)
Ordered(layers) ==
    \A p, q \in layers :
        Meta[p].id = Meta[q].id /\ Meta[p].ver < Meta[q].ver =>
            IsPatch(q) /\ Meta[p].kind \in {"base", "patch"}

LEMMA BelowIs ==
    ASSUME NEW p \in Packs, NEW q \in Packs, NEW batch, IsPatch(q)
    PROVE  /\ Below(p, q, batch) =>
                 Meta[p].kind = "base" \/ (IsPatch(p) /\ Meta[p].ver <= Meta[q].ver)
           /\ Meta[p].kind = "base" => Below(p, q, batch)
           /\ IsPatch(p) => (Below(p, q, batch) <=> \/ Meta[p].ver < Meta[q].ver
                                                    \/ /\ Meta[p].ver = Meta[q].ver
                                                       /\ p \notin batch /\ q \in batch)
           /\ Meta[q].ver \in Nat /\ Meta[p].ver \in Nat
           /\ Meta[p].kind \in {"base", "patch"} /\ Meta[p].ver < Meta[q].ver => Below(p, q, batch)
<1>1. /\ LayerRank(Meta[q].kind) = 1 /\ LayerRank(Meta[p].kind) \in 0 .. 3
      /\ LayerRank(Meta[p].kind) = 1 <=> IsPatch(p)
      /\ LayerRank(Meta[p].kind) = 0 <=> Meta[p].kind = "base"
      /\ Meta[q].ver \in Nat /\ Meta[p].ver \in Nat
    BY PackFacts
<1>. HIDE DEF IsPatch
<1>2. Below(p, q, batch) <=>
        \/ LayerRank(Meta[p].kind) < 1
        \/ /\ LayerRank(Meta[p].kind) = 1
           /\ \/ Meta[p].ver < Meta[q].ver
              \/ Meta[p].ver = Meta[q].ver /\ p \notin batch /\ q \in batch
    BY <1>1 DEF Below
<1>3. LayerRank(Meta[p].kind) < 1 <=> LayerRank(Meta[p].kind) = 0
    BY <1>1
<1>4. Meta[p].kind = "patch" => IsPatch(p)
    BY DEF IsPatch
<1>. QED  BY <1>1, <1>2, <1>3, <1>4

\* What a plan needs of the stack it is staged on.
Base(s) ==
    /\ Active(s) \subseteq Packs /\ Ordered(Active(s))
    /\ s.epoch = 1 /\ s.floor \in [Ids -> Nat]

LEMMA LiveFacts ==
    ASSUME NEW s, NEW vs, Base(s)
    PROVE  LET installed == Versions(Live(s, vs))
           IN  /\ Live(s, vs) \in SUBSET Packs
               /\ installed \in [Ids -> Nat]
               /\ \A i \in Ids : installed[i] \in 0 .. Latest
               /\ \A x \in Live(s, vs) : Meta[x].ver <= installed[Meta[x].id]
               /\ \A i \in Ids : installed[i] = 0 \/
                     \E x \in Live(s, vs) : Meta[x].id = i /\ Meta[x].ver = installed[i]
               /\ \A batch : Inherited(s, vs, batch) =
                     {p \in Live(s, vs) \ batch :
                         ~\E q \in batch : Meta[q].id = Meta[p].id /\ ~IsPatch(q)}
<1>1. Live(s, vs) \in SUBSET Packs
    BY DEF Live, Base
<1>2. /\ Versions(Live(s, vs)) \in [Ids -> 0 .. Latest]
      /\ \A x \in Live(s, vs) : Meta[x].ver <= Versions(Live(s, vs))[Meta[x].id]
      /\ \A i \in Ids : Versions(Live(s, vs))[i] = 0 \/
            \E x \in Live(s, vs) : Meta[x].id = i /\ Meta[x].ver = Versions(Live(s, vs))[i]
    BY <1>1, VersionsIs
<1>3. Versions(Live(s, vs)) \in [Ids -> Nat]
    BY <1>2, LatestIs
<1>4. ASSUME NEW batch
      PROVE  Inherited(s, vs, batch) =
                {p \in Live(s, vs) \ batch :
                    ~\E q \in batch : Meta[q].id = Meta[p].id /\ ~IsPatch(q)}
    BY DEF Inherited, Live, IsPatch
<1>. QED  BY <1>1, <1>2, <1>3, <1>4

\* Each patch of a plan has its parent right under it.
LEMMA PlanParents ==
    ASSUME OneBuildEach, NEW offer \in SUBSET Packs, NEW s, NEW vs, Base(s),
           NEW floor \in [Ids -> Nat]
    PROVE  LET batch == Plan(offer, vs, Versions(Live(s, vs)), floor)
           IN  ParentsMatch(Revision(s, vs, batch), batch)
<1>. DEFINE installed == Versions(Live(s, vs))
            batch == Plan(offer, vs, installed, floor)
            layers == Revision(s, vs, batch)
            usable == Usable(offer, vs)
            chosen(i) == ChosenOf(usable, installed, floor, i)
<1>0. /\ Live(s, vs) \in SUBSET Packs /\ installed \in [Ids -> Nat]
      /\ \A x \in Live(s, vs) : Meta[x].ver <= installed[Meta[x].id]
      /\ \A i \in Ids : installed[i] = 0 \/
            \E x \in Live(s, vs) : Meta[x].id = i /\ Meta[x].ver = installed[i]
      /\ Inherited(s, vs, batch) =
            {p \in Live(s, vs) \ batch :
                ~\E q \in batch : Meta[q].id = Meta[p].id /\ ~IsPatch(q)}
    BY LiveFacts
<1>. HIDE DEF installed
<1>1. /\ \A i \in Ids : Asked(usable, installed, floor, i)
      /\ \A i \in Ids : WellChosen(chosen(i), usable, installed, floor, i)
      /\ \A i \in Ids : \A p \in chosen(i).packs : p \in batch /\ Meta[p].id = i
      /\ \A p \in batch : /\ p \in usable /\ p \in Packs /\ Meta[p].id \in Ids
                          /\ p \in chosen(Meta[p].id).packs
    BY <1>0, PlanIs DEF PlanOf
<1>. HIDE DEF usable, batch, chosen
<1>2. ASSUME NEW q \in batch, Meta[q].parent # NoPack
      PROVE  \E p \in layers :
                /\ p = Meta[q].parent
                /\ Meta[p].id = Meta[q].id
                /\ Below(p, q, batch)
                /\ ~\E o \in layers : /\ Meta[o].id = Meta[q].id
                                      /\ Below(p, o, batch)
                                      /\ Below(o, q, batch)
    <2>. DEFINE i == Meta[q].id
                start == installed[i]
                c == chosen(i)
                p == Meta[q].parent
    <2>1. q \in Packs /\ IsPatch(q) /\ i \in Ids /\ q \in c.packs /\ start \in Nat
        BY <1>0, <1>1, <1>2, PacksAsBuilt
    <2>2. /\ p \in Packs /\ Meta[p].id = i /\ Meta[p].ver < Meta[q].ver
          /\ Meta[p].kind \in {"base", "patch"}
          /\ ParentCode(q) = Meta[p].ver /\ ParentCode(q) \in Nat \ {0}
        BY <2>1, ParentFacts
    <2>3. /\ \A r \in c.packs : start < Meta[r].ver
          /\ ParentCode(q) = start \/ p \in c.packs
          /\ \A r \in c.packs : Meta[r].ver <= ParentCode(q) \/ Meta[r].ver >= Meta[q].ver
          /\ \A r \in c.packs : ~IsPatch(r) =>
                \A o \in c.packs : o = r \/ (IsPatch(o) /\ Meta[o].ver > Meta[r].ver)
        <3>1. WellChosen(c, usable, installed, floor, i)
            BY <1>1, <2>1
        <3>. QED  BY <2>1, <3>1 DEF WellChosen
    <2>4. ASSUME NEW o \in layers, Meta[o].id = i
          PROVE  /\ o \in Packs /\ Meta[o].ver \in Nat
                 /\ o \in batch => o \in c.packs
                 /\ o \notin batch => /\ o \in Live(s, vs) /\ Meta[o].ver <= start
                                      /\ \A r \in c.packs : IsPatch(r)
        <3>1. CASE o \in batch
            BY <1>1, <2>4, <3>1, PackFacts
        <3>2. CASE o \notin batch
            <4>1. o \in Inherited(s, vs, batch)
                BY <3>2 DEF Revision
            <4>2. o \in Live(s, vs) /\ ~\E r \in batch : Meta[r].id = Meta[o].id /\ ~IsPatch(r)
                BY <1>0, <4>1
            <4>. QED  BY <1>0, <1>1, <2>1, <2>4, <3>2, <4>2, PackFacts
        <3>. QED  BY <3>1, <3>2
    <2>. HIDE DEF layers
    <2>5. p \in layers
        <3>1. CASE p \in c.packs
            BY <1>1, <2>1, <3>1 DEF Revision, layers
        <3>2. CASE p \notin c.packs
            <4>1. ParentCode(q) = start /\ start # 0
                BY <2>2, <2>3, <3>2
            <4>2. PICK x \in Live(s, vs) : Meta[x].id = i /\ Meta[x].ver = start
                BY <1>0, <2>1, <4>1
            <4>3. p \in Live(s, vs)
                <5>1. x \in Packs /\ Meta[x].ver = Meta[p].ver /\ Meta[x].id = Meta[p].id
                    BY <1>0, <2>2, <4>1, <4>2
                <5>. QED  BY <2>2, <4>2, <5>1, SameVersion
            <4>4. p \notin batch
                BY <1>1, <2>2, <3>2
            <4>5. ASSUME NEW r \in batch, Meta[r].id = i, ~IsPatch(r) PROVE FALSE
                <5>1. r \in c.packs /\ r \in Packs /\ Meta[r].ver \in Nat
                    BY <1>1, <4>5, PackFacts
                <5>2. Meta[r].ver <= ParentCode(q) \/ Meta[r].ver >= Meta[q].ver
                    BY <2>3, <5>1
                <5>3. r # q /\ Meta[q].ver > Meta[r].ver
                    BY <2>1, <2>3, <4>5, <5>1
                <5>4. start < Meta[r].ver /\ Meta[q].ver \in Nat
                    BY <2>1, <2>3, <5>1, PackFacts
                <5>. QED  BY <2>1, <4>1, <5>1, <5>2, <5>3, <5>4
            <4>6. p \in Inherited(s, vs, batch)
                BY <1>0, <2>2, <4>3, <4>4, <4>5
            <4>. QED  BY <4>6 DEF Revision, layers
        <3>. QED  BY <3>1, <3>2
    <2>6. Below(p, q, batch)
        BY <2>1, <2>2, BelowIs
    <2>7. ASSUME NEW o \in layers, Meta[o].id = i, Below(p, o, batch), Below(o, q, batch) PROVE FALSE
        <3>0. o \in Packs /\ Meta[o].ver \in Nat /\ Meta[q].ver \in Nat /\ Meta[p].ver \in Nat
            BY <2>1, <2>2, <2>4, <2>7, PackFacts
        <3>1. CASE IsPatch(o)
            <4>1. Meta[o].ver < Meta[q].ver
                <5>1. Meta[o].ver < Meta[q].ver \/ (Meta[o].ver = Meta[q].ver /\ o \notin batch)
                    BY <2>1, <2>7, <3>0, <3>1, BelowIs
                <5>2. Meta[o].ver = Meta[q].ver => o = q
                    BY <2>1, <2>7, <3>0, SameVersion
                <5>. QED  BY <1>2, <5>1, <5>2
            <4>2. Meta[o].ver <= Meta[p].ver
                <5>1. CASE o \in batch
                    BY <2>2, <2>3, <2>4, <2>7, <3>0, <4>1, <5>1
                <5>2. CASE o \notin batch
                    <6>1. Meta[o].ver <= start
                        BY <2>4, <2>7, <5>2
                    <6>2. start <= Meta[p].ver
                        BY <2>1, <2>2, <2>3
                    <6>. QED  BY <2>1, <3>0, <6>1, <6>2
                <5>. QED  BY <5>1, <5>2
            <4>3. Meta[o].ver = Meta[p].ver => o = p
                BY <2>2, <2>7, <3>0, SameVersion
            <4>4. CASE o = p
                BY <2>2, <2>7, <3>0, <3>1, <4>4, BelowIs
            <4>5. CASE o # p /\ IsPatch(p)
                <5>1. Meta[p].ver <= Meta[o].ver
                    BY <2>2, <2>7, <3>0, <3>1, <4>5, BelowIs
                <5>. QED  BY <3>0, <4>2, <4>3, <4>5, <5>1
            <4>6. CASE o # p /\ ~IsPatch(p)
                <5>0. Meta[o].ver < Meta[p].ver
                    BY <3>0, <4>2, <4>3, <4>6
                <5>1. CASE o \in batch /\ p \in batch
                    <6>1. o \in c.packs /\ p \in c.packs
                        BY <1>1, <2>2, <2>7, <5>1
                    <6>2. Meta[o].ver > Meta[p].ver
                        BY <2>3, <4>6, <6>1
                    <6>. QED  BY <3>0, <5>0, <6>2
                <5>2. CASE o \notin batch /\ p \in batch
                    <6>1. p \in c.packs
                        BY <1>1, <2>2, <5>2
                    <6>. QED  BY <2>4, <2>7, <4>6, <5>2, <6>1
                <5>3. CASE o \notin batch /\ p \notin batch
                    <6>1. o \in Active(s) /\ p \in Active(s)
                        BY <2>2, <2>4, <2>5, <2>7, <5>3 DEF Live
                    <6>. QED  BY <2>2, <2>7, <4>6, <5>0, <6>1 DEF Base, Ordered
                <5>4. CASE o \in batch /\ p \notin batch
                    <6>1. o \in c.packs /\ Meta[p].ver <= start
                        BY <2>2, <2>4, <2>5, <2>7, <5>4
                    <6>2. start < Meta[o].ver
                        BY <2>3, <6>1
                    <6>. QED  BY <2>1, <3>0, <5>0, <6>1, <6>2
                <5>. QED  BY <5>1, <5>2, <5>3, <5>4
            <4>. QED  BY <4>4, <4>5, <4>6
        <3>2. CASE ~IsPatch(o)
            <4>1. Meta[o].kind = "base" /\ Meta[p].kind = "base"
                <5>1. Meta[o].kind = "base"
                    BY <2>1, <2>7, <3>0, <3>2, BelowIs
                <5>2. LayerRank(Meta[p].kind) <= 0
                    BY <2>2, <2>7, <5>1, PackFacts DEF Below, LayerRank
                <5>. QED  BY <2>2, <5>1, <5>2 DEF LayerRank
            <4>2. Meta[p].ver < Meta[o].ver \/ (Meta[p].ver = Meta[o].ver /\ o \in batch /\ p \notin batch)
                BY <2>7, <4>1 DEF Below, LayerRank
            <4>3. Meta[p].ver < Meta[o].ver
                BY <2>2, <2>7, <3>0, <4>2, SameVersion
            <4>4. CASE o \in batch
                <5>1. o \in c.packs
                    BY <2>4, <2>7, <4>4
                <5>2. p \in c.packs
                    <6>1. start < Meta[o].ver /\ Meta[q].ver > Meta[o].ver
                        BY <2>1, <2>3, <3>2, <5>1
                    <6>2. Meta[o].ver <= ParentCode(q)
                        BY <2>1, <2>2, <2>3, <3>0, <5>1, <6>1
                    <6>. QED  BY <2>1, <2>2, <2>3, <3>0, <6>1, <6>2
                <5>3. ~IsPatch(p)
                    BY <4>1 DEF IsPatch
                <5>. QED  BY <2>2, <2>3, <3>0, <3>2, <4>3, <5>1, <5>2, <5>3
            <4>5. CASE o \notin batch
                <5>1. p \notin batch
                    <6>1. ~IsPatch(p)
                        BY <4>1 DEF IsPatch
                    <6>2. p \notin c.packs
                        BY <2>4, <2>7, <4>5, <6>1
                    <6>. QED  BY <1>1, <2>2, <6>2
                <5>2. o \in Active(s) /\ p \in Active(s)
                    BY <2>2, <2>4, <2>5, <2>7, <4>5, <5>1 DEF Live
                <5>. QED  BY <2>2, <2>7, <3>2, <4>3, <5>2 DEF Base, Ordered
            <4>. QED  BY <4>4, <4>5
        <3>. QED  BY <3>1, <3>2
    <2>. QED  BY <2>2, <2>5, <2>6, <2>7
<1>. QED  BY <1>2 DEF ParentsMatch, layers, batch, installed

(***************************************************************************)
(* Staging accepts a plan made for the stack it builds on.                 *)
(***************************************************************************)
LEMMA PlanIsStageable ==
    ASSUME OneBuildEach, NEW offer \in SUBSET Packs, NEW s, NEW vs, Base(s),
           NEW floor \in [Ids -> Nat],
           \A i \in Ids : s.floor[i] <= floor[i] \/ s.floor[i] <= Versions(Live(s, vs))[i]
    PROVE  Stageable(s, vs, Plan(offer, vs, Versions(Live(s, vs)), floor))
<1>. DEFINE installed == Versions(Live(s, vs))
            batch == Plan(offer, vs, installed, floor)
            usable == Usable(offer, vs)
            chosen(i) == ChosenOf(usable, installed, floor, i)
<1>0. installed \in [Ids -> Nat] /\ Live(s, vs) \in SUBSET Packs
      /\ Inherited(s, vs, batch) \subseteq Live(s, vs)
    BY LiveFacts
<1>1. ParentsMatch(Revision(s, vs, batch), batch)
    BY PlanParents
<1>. HIDE DEF installed
<1>2. /\ \A i \in Ids : WellChosen(chosen(i), usable, installed, floor, i)
      /\ \A i \in Ids : \A p \in chosen(i).packs : p \in batch /\ Meta[p].id = i
      /\ \A p \in batch : /\ p \in usable /\ p \in Packs /\ Meta[p].id \in Ids
                          /\ p \in chosen(Meta[p].id).packs
    <2>1. PlanOf(batch, usable, installed, floor)
        BY <1>0, PlanIs
    <2>. QED  BY <2>1 DEF PlanOf
<1>. HIDE DEF batch, chosen
<1>3. ~\E p \in batch : Blocks(vs, p)
    BY <1>2 DEF Usable
<1>4. Revision(s, vs, batch) \subseteq Packs
    BY <1>0, <1>2 DEF Revision
<1>5. EpochsSuffice(s, Revision(s, vs, batch))
    <2>1. \A p \in Packs : Meta[p].epoch >= 1
        BY PackFacts
    <2>. QED  BY <1>4, <2>1 DEF EpochsSuffice, Base
<1>6. FloorsReached(s, Revision(s, vs, batch), batch)
    <2>. SUFFICES ASSUME NEW q \in batch
                  PROVE  \E p \in batch : Meta[p].id = Meta[q].id /\ Meta[p].ver >= s.floor[Meta[q].id]
        BY DEF FloorsReached, Revision
    <2>. DEFINE i == Meta[q].id
                c == chosen(i)
    <2>1. i \in Ids /\ q \in c.packs /\ s.floor[i] \in Nat /\ floor[i] \in Nat /\ installed[i] \in Nat
        BY <1>0, <1>2 DEF Base
    <2>2. /\ c.current \in Nat /\ installed[i] <= c.current /\ c.current >= floor[i]
          /\ \E p \in c.packs : Meta[p].ver = c.current
        BY <1>2, <2>1 DEF WellChosen
    <2>3. c.current >= s.floor[i]
        <3>1. s.floor[i] <= floor[i] \/ s.floor[i] <= installed[i]
            BY <2>1 DEF installed
        <3>. QED  BY <2>1, <2>2, <3>1
    <2>. QED  BY <1>2, <2>1, <2>2, <2>3
<1>. QED  BY <1>1, <1>3, <1>5, <1>6 DEF Stageable, RevisionAccepted, batch, installed

\* The packs of a plan are in order.
LEMMA PlanOrdered ==
    ASSUME OneBuildEach, NEW offer \in SUBSET Packs, NEW vs,
           NEW installed \in [Ids -> Nat], NEW floor \in [Ids -> Nat]
    PROVE  LET batch == Plan(offer, vs, installed, floor)
           IN  /\ batch \subseteq Packs /\ Ordered(batch)
               /\ \A p \in batch : Meta[p].ver > installed[Meta[p].id]
<1>. DEFINE batch == Plan(offer, vs, installed, floor)
            usable == Usable(offer, vs)
            chosen(i) == ChosenOf(usable, installed, floor, i)
<1>1. /\ \A i \in Ids : WellChosen(chosen(i), usable, installed, floor, i)
      /\ \A p \in batch : /\ p \in usable /\ p \in Packs /\ Meta[p].id \in Ids
                          /\ p \in chosen(Meta[p].id).packs
    <2>1. PlanOf(batch, usable, installed, floor)
        BY PlanIs
    <2>. QED  BY <2>1 DEF PlanOf
<1>. HIDE DEF batch, chosen
<1>2. ASSUME NEW p \in batch, NEW q \in batch, Meta[p].id = Meta[q].id, Meta[p].ver < Meta[q].ver
      PROVE  IsPatch(q) /\ Meta[p].kind \in {"base", "patch"}
    <2>. DEFINE c == chosen(Meta[p].id)
    <2>1. p \in c.packs /\ q \in c.packs /\ Meta[p].ver \in Nat /\ Meta[q].ver \in Nat
        BY <1>1, <1>2, PackFacts
    <2>2. \A r \in c.packs : ~IsPatch(r) =>
            \A o \in c.packs :
                o = r \/ (IsPatch(o) /\ Meta[o].ver > Meta[r].ver /\ Meta[r].kind = "base")
        BY <1>1 DEF WellChosen
    <2>3. IsPatch(q)
        BY <1>2, <2>1, <2>2
    <2>4. IsPatch(p) \/ Meta[p].kind = "base"
        BY <1>2, <2>1, <2>2
    <2>. QED  BY <2>3, <2>4 DEF IsPatch
<1>3. ASSUME NEW p \in batch PROVE Meta[p].ver > installed[Meta[p].id]
    <2>1. installed[Meta[p].id] < Meta[p].ver
        BY <1>1 DEF WellChosen
    <2>. QED  BY <2>1, <1>1, PackFacts
<1>. QED  BY <1>1, <1>2, <1>3 DEF Ordered, batch

\* The lowest of some packs of an id.
LEMMA LowestIs ==
    ASSUME NEW packs \in SUBSET Packs, packs # {}
    PROVE  \E m \in packs : \A p \in packs : Meta[m].ver <= Meta[p].ver
<1>. DEFINE codes == {Meta[p].ver : p \in packs}
<1>1. codes \in SUBSET Nat /\ codes # {}
    BY PackFacts
<1>2. PICK n \in codes : \A m \in codes : n <= m
    <2>. HIDE DEF codes
    <2>. QED  BY <1>1, SmallestExists
<1>. QED  BY <1>2

(***************************************************************************)
(* A stack stays in order when patches are put on it: the lowest of them   *)
(* sits right on its parent.                                               *)
(***************************************************************************)
LEMMA StagingKeepsOrder ==
    ASSUME OneBuildEach, NEW s, NEW vs, Base(s), NEW batch \in SUBSET Packs, Ordered(batch),
           ParentsMatch(Revision(s, vs, batch), batch)
    PROVE  Revision(s, vs, batch) \subseteq Packs /\ Ordered(Revision(s, vs, batch))
<1>. DEFINE layers == Revision(s, vs, batch)
<1>0. layers \subseteq Packs /\ \A p \in layers : p \in batch \/ p \in Active(s)
    BY DEF Revision, Inherited, Base
<1>1. ASSUME NEW a \in layers \ batch, NEW b \in batch, Meta[a].id = Meta[b].id
      PROVE  /\ IsPatch(b)
             /\ Meta[a].kind \in {"base", "patch"}
             /\ Meta[b].ver < Meta[a].ver => IsPatch(a)
    <2>. DEFINE i == Meta[b].id
                new == {q \in batch : Meta[q].id = i}
    <2>1. \A q \in new : IsPatch(q)
        BY <1>1 DEF Revision, Inherited, IsPatch
    <2>2. PICK m \in new : \A q \in new : Meta[m].ver <= Meta[q].ver
        <3>1. new \in SUBSET Packs /\ new # {}
            OBVIOUS
        <3>. HIDE DEF new
        <3>. QED  BY <3>1, LowestIs
    <2>3. m \in Packs /\ IsPatch(m) /\ Meta[m].id = i /\ m \in batch
        BY <2>1, <2>2
    <2>. DEFINE o == Meta[m].parent
    <2>4. /\ o \in Packs /\ Meta[o].id = i /\ Meta[o].ver < Meta[m].ver
          /\ Meta[o].kind \in {"base", "patch"}
        BY <2>3, ParentFacts
    <2>5. o \in layers
        <3>1. o # NoPack
            BY <2>4, PackFacts
        <3>. QED  BY <2>3, <3>1 DEF ParentsMatch
    <2>6. o \notin batch
        <3>. SUFFICES ASSUME o \in batch PROVE FALSE
            OBVIOUS
        <3>1. Meta[m].ver <= Meta[o].ver
            BY <2>2, <2>4
        <3>. QED  BY <2>3, <2>4, <3>1, PackFacts
    <2>7. o \in Active(s) /\ a \in Active(s) /\ a \in Packs
        BY <1>0, <1>1, <2>5, <2>6
    <2>8. Meta[a].ver \in Nat /\ Meta[o].ver \in Nat /\ Meta[m].ver \in Nat /\ Meta[b].ver \in Nat
        BY <2>3, <2>4, <2>7, PackFacts
    <2>9. Meta[m].ver <= Meta[b].ver
        BY <2>2
    <2>10. Meta[a].ver < Meta[o].ver => Meta[a].kind \in {"base", "patch"}
        BY <1>1, <2>4, <2>7 DEF Base, Ordered
    <2>11. Meta[o].ver < Meta[a].ver => IsPatch(a)
        BY <1>1, <2>4, <2>7 DEF Base, Ordered
    <2>12. Meta[o].ver = Meta[a].ver => a = o
        BY <1>1, <2>4, <2>7, SameVersion
    <2>13. IsPatch(a) => Meta[a].kind \in {"base", "patch"}
        BY DEF IsPatch
    <2>. HIDE DEF o, new
    <2>14. Meta[a].kind \in {"base", "patch"}
        BY <2>4, <2>8, <2>10, <2>11, <2>12, <2>13
    <2>15. Meta[b].ver < Meta[a].ver => IsPatch(a)
        BY <2>4, <2>8, <2>9, <2>11
    <2>16. IsPatch(b)
        BY <2>1 DEF new
    <2>. QED  BY <2>14, <2>15, <2>16
<1>2. ASSUME NEW p \in layers, NEW q \in layers, Meta[p].id = Meta[q].id, Meta[p].ver < Meta[q].ver
      PROVE  IsPatch(q) /\ Meta[p].kind \in {"base", "patch"}
    <2>1. CASE p \in batch /\ q \in batch
        BY <1>2, <2>1 DEF Ordered
    <2>2. CASE p \notin batch /\ q \notin batch
        BY <1>0, <1>2, <2>2 DEF Base, Ordered
    <2>3. CASE p \notin batch /\ q \in batch
        BY <1>1, <1>2, <2>3
    <2>4. CASE p \in batch /\ q \notin batch
        <3>1. IsPatch(q) /\ IsPatch(p)
            BY <1>1, <1>2, <2>4
        <3>. QED  BY <3>1 DEF IsPatch
    <2>. QED  BY <2>1, <2>2, <2>3, <2>4
<1>. QED  BY <1>0, <1>2 DEF Ordered

-----------------------------------------------------------------------------
(***************************************************************************)
(* The commands keep the stacks in order.                                  *)
(***************************************************************************)
\* A raised floor is nowhere lower, and where it is higher a release says so.
LEMMA RaiseIs ==
    ASSUME NEW floor \in [Ids -> Nat], NEW rs \in SUBSET (Ids \X Nat)
    PROVE  /\ Raise(floor, rs) \in [Ids -> Nat]
           /\ \A i \in Ids : /\ Raise(floor, rs)[i] >= floor[i]
                             /\ \/ Raise(floor, rs)[i] = floor[i]
                                \/ <<i, Raise(floor, rs)[i]>> \in rs
<1>. DEFINE newer(i) == {r[2] : r \in {q \in rs : q[1] = i /\ q[2] > floor[i]}}
            top(i) == {n \in newer(i) : \A m \in newer(i) : m <= n}
            pick(i) == IF top(i) = {} THEN floor[i] ELSE CHOOSE n \in top(i) : TRUE
<1>1. \A i \in Ids : \A n \in newer(i) : n \in Nat /\ n > floor[i] /\ <<i, n>> \in rs
    OBVIOUS
<1>2. \A i \in Ids : top(i) # {} => pick(i) \in newer(i)
    OBVIOUS
<1>3. ASSUME NEW i \in Ids
      PROVE  /\ pick(i) \in Nat /\ pick(i) >= floor[i]
             /\ pick(i) = floor[i] \/ <<i, pick(i)>> \in rs
    <2>1. CASE top(i) = {}
        BY <2>1
    <2>2. CASE top(i) # {}
        <3>. HIDE DEF newer, top, pick
        <3>1. pick(i) \in Nat /\ pick(i) > floor[i] /\ <<i, pick(i)>> \in rs
            BY <2>2, <1>1, <1>2
        <3>. QED  BY <3>1
    <2>. QED  BY <2>1, <2>2
<1>4. Raise(floor, rs) = [i \in Ids |-> pick(i)]
    BY DEF Raise
<1>. HIDE DEF pick
<1>. QED  BY <1>3, <1>4

\* What the floors become when packs are committed.
LEMMA FloorIs ==
    ASSUME NEW floor \in [Ids -> Nat], NEW layers \in SUBSET Packs,
           NEW rs \in SUBSET Releases
    PROVE  LET raised == Raise(floor, {Release(p) : p \in layers} \cup rs)
           IN  /\ raised \in [Ids -> Nat]
               /\ \A i \in Ids : raised[i] >= floor[i]
               /\ rs = {} => \A i \in Ids : \/ raised[i] = floor[i]
                                            \/ \E x \in layers : Release(x) = <<i, raised[i]>>
<1>. DEFINE all == {Release(p) : p \in layers} \cup rs
<1>1. all \in SUBSET (Ids \X Nat)
    <2>1. \A p \in Packs : Release(p) \in Ids \X Nat
        BY PackFacts
    <2>. QED  BY <2>1 DEF Releases
<1>2. \A r \in all : rs = {} => \E x \in layers : Release(x) = r
    OBVIOUS
<1>. HIDE DEF all
<1>3. /\ Raise(floor, all) \in [Ids -> Nat]
      /\ \A i \in Ids : /\ Raise(floor, all)[i] >= floor[i]
                        /\ \/ Raise(floor, all)[i] = floor[i]
                           \/ <<i, Raise(floor, all)[i]>> \in all
    BY <1>1, RaiseIs
<1>. QED  BY <1>2, <1>3 DEF all

Sound(s) ==
    /\ s \in States
    /\ s.epoch = 1
    /\ s.pointer = "booting" <=> s.booting # NoRev
    /\ Ordered(Layers(s.staged)) /\ Ordered(Layers(s.booting)) /\ Ordered(Layers(s.committed))

LEMMA RevisionLayers ==
    /\ Layers(NoRev) = {} /\ NoRev \notin Revisions
    /\ \A rev \in Revisions : Layers(rev) = rev
BY RevisionsAssumption DEF Layers, NoRev, Revisions

LEMMA SoundFacts ==
    ASSUME NEW s, Sound(s)
    PROVE  /\ Base(s)
           /\ s.staged \in Revisions \cup {NoRev} /\ s.booting \in Revisions \cup {NoRev}
           /\ s.committed \in Revisions \cup {NoRev}
           /\ Layers(s.booting) \subseteq Packs /\ Layers(s.committed) \subseteq Packs
           /\ OnTrial(s) <=> s.pointer = "booting"
           /\ OnTrial(s) => Active(s) = s.booting /\ s.booting \subseteq Packs
           /\ s.pointer \in {"committed", "booting"}
           /\ s.pointer = "committed" => s.booting = NoRev
<1>1. /\ s.staged \in Revisions \cup {NoRev} /\ s.booting \in Revisions \cup {NoRev}
      /\ s.committed \in Revisions \cup {NoRev} /\ s.floor \in [Ids -> Nat]
      /\ s.pointer \in {"committed", "booting"}
    BY DEF Sound, States
<1>2. Layers(s.booting) \subseteq Packs /\ Layers(s.committed) \subseteq Packs
    BY <1>1, RevisionLayers DEF Revisions
<1>3. Base(s)
    BY <1>1, <1>2 DEF Base, Active, Sound
<1>4. OnTrial(s) <=> s.pointer = "booting"
    BY DEF OnTrial, Sound
<1>5. OnTrial(s) => Active(s) = s.booting /\ s.booting \subseteq Packs
    BY <1>1, RevisionLayers DEF OnTrial, Active, Revisions
<1>6. s.pointer = "committed" => s.booting = NoRev
    BY DEF Sound
<1>. QED  BY <1>1, <1>2, <1>3, <1>4, <1>5, <1>6

LEMMA OrderedNothing == Ordered({})
BY DEF Ordered

LEMMA NewSound == Sound(NewState)
<1>1. NewState \in States
    BY RevisionsAssumption DEF NewState, States, Revisions
<1>. QED  BY <1>1, RevisionLayers, OrderedNothing DEF Sound, NewState

\* A state whose slots were those of a sound one.
LEMMA SlotsSound ==
    ASSUME NEW s, Sound(s), NEW t \in States, t.epoch = 1,
           t.pointer = "booting" <=> t.booting # NoRev,
           t.staged \in {NoRev, s.staged, s.booting, s.committed},
           t.booting \in {NoRev, s.staged, s.booting, s.committed},
           t.committed \in {NoRev, s.staged, s.booting, s.committed}
    PROVE  Sound(t)
BY RevisionLayers, OrderedNothing DEF Sound

LEMMA TriedSound ==
    ASSUME NEW s, Sound(s)
    PROVE  Sound(Tried(s))
<1>0. s \in States
    BY DEF Sound
<1>1. CASE ~OnTrial(s)
    BY <1>1 DEF Tried
<1>2. CASE OnTrial(s) /\ s.attempts + 1 < MaxBootAttempts
    <2>1. Tried(s) = [s EXCEPT !.attempts = s.attempts + 1]
        BY <1>0, <1>2 DEF Tried, States
    <2>2. Tried(s) \in States
        <3>1. s.attempts + 1 \in 0 .. MaxBootAttempts - 1
            BY <1>0, <1>2, RevisionsAssumption DEF States
        <3>. QED  BY <1>0, <2>1, <3>1 DEF States
    <2>3. /\ Tried(s).epoch = s.epoch /\ Tried(s).pointer = s.pointer
          /\ Tried(s).staged = s.staged /\ Tried(s).booting = s.booting
          /\ Tried(s).committed = s.committed
        BY <1>0, <2>1 DEF States
    <2>. QED  BY <2>2, <2>3, SlotsSound DEF Sound
<1>3. CASE OnTrial(s) /\ ~(s.attempts + 1 < MaxBootAttempts)
    <2>. DEFINE r == s.rollbacks + 1
                half == [s EXCEPT !.booting = NoRev, !.pointer = "committed"]
                rest == [half EXCEPT !.attempts = 0]
    <2>1. r \in Nat
        BY <1>0, RevisionsAssumption DEF States
    <2>2. Tried(s) = [s EXCEPT !.booting = NoRev, !.pointer = "committed",
                               !.attempts = 0, !.rollbacks = r]
        BY <1>0, <1>3 DEF Tried, States
    <2>. HIDE DEF r
    <2>3. half \in States
        BY <1>0 DEF States
    <2>4. Tried(s) = [half EXCEPT !.attempts = 0, !.rollbacks = r]
        BY <2>2
    <2>5. /\ Tried(s).epoch = s.epoch /\ Tried(s).pointer = "committed"
          /\ Tried(s).staged = s.staged /\ Tried(s).booting = NoRev
          /\ Tried(s).committed = s.committed
        BY <1>0, <2>2 DEF States
    <2>. HIDE DEF half
    <2>6. rest \in States
        <3>1. 0 \in 0 .. MaxBootAttempts - 1
            BY RevisionsAssumption
        <3>. QED  BY <2>3, <3>1 DEF States
    <2>7. Tried(s) = [rest EXCEPT !.rollbacks = r]
        BY <2>4
    <2>. HIDE DEF rest
    <2>8. Tried(s) \in States
        BY <2>1, <2>6, <2>7 DEF States
    <2>. QED  BY <2>5, <2>8, SlotsSound DEF Sound
<1>. QED  BY <1>1, <1>2, <1>3

LEMMA PromotedSound ==
    ASSUME NEW s, Sound(s), NEW vs
    PROVE  Sound(Promoted(s, vs))
<1>0. s \in States
    BY DEF Sound
<1>1. CASE s.pointer # "committed" \/ s.staged = NoRev
    BY <1>1 DEF Promoted
<1>2. CASE s.pointer = "committed" /\ s.staged # NoRev /\ \E p \in s.staged : Blocks(vs, p)
    <2>1. Promoted(s, vs) = [s EXCEPT !.staged = NoRev]
        BY <1>2 DEF Promoted
    <2>2. /\ Promoted(s, vs) \in States /\ Promoted(s, vs).epoch = s.epoch
          /\ Promoted(s, vs).pointer = s.pointer /\ Promoted(s, vs).staged = NoRev
          /\ Promoted(s, vs).booting = s.booting /\ Promoted(s, vs).committed = s.committed
        BY <1>0, <2>1 DEF States
    <2>. QED  BY <2>2, SlotsSound DEF Sound
<1>3. CASE s.pointer = "committed" /\ s.staged # NoRev /\ ~\E p \in s.staged : Blocks(vs, p)
    <2>1. Promoted(s, vs) = [s EXCEPT !.staged = NoRev, !.booting = s.staged,
                                      !.pointer = "booting", !.attempts = 1]
        BY <1>3 DEF Promoted
    <2>2. /\ Promoted(s, vs).epoch = s.epoch
          /\ Promoted(s, vs).pointer = "booting" /\ Promoted(s, vs).staged = NoRev
          /\ Promoted(s, vs).booting = s.staged /\ Promoted(s, vs).committed = s.committed
        BY <1>0, <2>1 DEF States
    <2>. DEFINE half == [s EXCEPT !.staged = NoRev, !.booting = s.staged, !.pointer = "booting"]
    <2>3. half \in States
        BY <1>0 DEF States
    <2>4. Promoted(s, vs) = [half EXCEPT !.attempts = 1]
        BY <2>1
    <2>. HIDE DEF half
    <2>5. Promoted(s, vs) \in States
        <3>1. 1 \in 0 .. MaxBootAttempts - 1
            BY RevisionsAssumption
        <3>. QED  BY <2>3, <2>4, <3>1 DEF States
    <2>. QED  BY <1>3, <2>2, <2>5, SlotsSound DEF Sound
<1>. QED  BY <1>1, <1>2, <1>3

LEMMA BackfillSound ==
    ASSUME NEW s, Sound(s), NEW vs
    PROVE  Sound(BackfillVersionFloor(s, vs))
<1>. DEFINE ran == {r \in Releases : vs[r] # Absent /\ vs[r].reason # "not_acknowledged"}
            raised == Raise(s.floor, {Release(p) : p \in Layers(s.committed)} \cup ran)
            t == BackfillVersionFloor(s, vs)
<1>0. s \in States
    BY DEF Sound
<1>1. raised \in [Ids -> Nat]
    <2>1. ran \in SUBSET Releases /\ s.floor \in [Ids -> Nat] /\ Layers(s.committed) \in SUBSET Packs
        BY SoundFacts DEF Base
    <2>. HIDE DEF ran
    <2>. QED  BY <2>1, FloorIs
<1>2. t = [s EXCEPT !.floor = raised]
    BY DEF BackfillVersionFloor
<1>. HIDE DEF raised
<1>3. /\ t \in States /\ t.epoch = s.epoch /\ t.pointer = s.pointer
      /\ t.staged = s.staged /\ t.booting = s.booting /\ t.committed = s.committed
    BY <1>0, <1>1, <1>2 DEF States
<1>. QED  BY <1>3, SlotsSound DEF Sound

\* notify_ready commits what is on trial and raises the floors to it.
LEMMA AcknowledgedIs ==
    ASSUME NEW s, Sound(s), OnTrial(s)
    PROVE  LET t == Acknowledged(s)
           IN  /\ Sound(t)
               /\ t.pointer = "committed" /\ Active(t) = Active(s)
               /\ \A i \in Ids :
                     /\ t.floor[i] \in Nat
                     /\ t.floor[i] = s.floor[i] \/ \E x \in Active(t) : Release(x) = <<i, t.floor[i]>>
<1>. DEFINE half == [s EXCEPT !.committed = s.booting, !.booting = NoRev, !.pointer = "committed"]
            a == [half EXCEPT !.attempts = 0, !.rollbacks = 0, !.lastError = "none"]
            raised == Raise(s.floor, {Release(p) : p \in s.booting} \cup {})
            t == [a EXCEPT !.floor = raised]
<1>0. s \in States /\ s.booting \in SUBSET Packs /\ s.floor \in [Ids -> Nat]
      /\ Layers(s.booting) = s.booting /\ Active(s) = s.booting
    <2>1. s.booting \in Revisions
        BY SoundFacts DEF OnTrial
    <2>. QED  BY <2>1, SoundFacts, RevisionLayers DEF Sound, Base
<1>1. /\ raised \in [Ids -> Nat]
      /\ \A i \in Ids : \/ raised[i] = s.floor[i]
                        \/ \E x \in s.booting : Release(x) = <<i, raised[i]>>
    <2>1. {} \in SUBSET Releases
        OBVIOUS
    <2>2. /\ raised \in [Ids -> Nat]
          /\ {} = {} => \A i \in Ids : \/ raised[i] = s.floor[i]
                                      \/ \E x \in s.booting : Release(x) = <<i, raised[i]>>
        BY <1>0, <2>1, FloorIs
    <2>. QED  BY <2>2
<1>2. half \in States
    BY <1>0 DEF States
<1>3. a \in States
    <2>1. 0 \in 0 .. MaxBootAttempts - 1
        BY RevisionsAssumption
    <2>. HIDE DEF half
    <2>. QED  BY <1>2, <2>1 DEF States
<1>4. a.committed = s.booting /\ a.floor = s.floor
    BY <1>0 DEF States
<1>5. Acknowledged(s) = RaiseVersionFloor(a)
    BY DEF Acknowledged
<1>6. RaiseVersionFloor(a) = [a EXCEPT !.floor = Raise(a.floor, {Release(p) : p \in Layers(a.committed)})]
    BY DEF RaiseVersionFloor
<1>7. raised = Raise(a.floor, {Release(p) : p \in Layers(a.committed)})
    <2>1. {Release(p) : p \in s.booting} \cup {} = {Release(p) : p \in s.booting}
        OBVIOUS
    <2>. HIDE DEF a
    <2>. QED  BY <1>0, <1>4, <2>1
<1>8. Acknowledged(s) = t
    <2>. HIDE DEF a, raised
    <2>. QED  BY <1>5, <1>6, <1>7
<1>. HIDE DEF raised
<1>9. /\ t.epoch = s.epoch /\ t.pointer = "committed" /\ t.staged = s.staged
      /\ t.booting = NoRev /\ t.committed = s.booting /\ t.floor = raised
    BY <1>0 DEF States
<1>. HIDE DEF half
<1>10. t \in States
    <2>. HIDE DEF a
    <2>. QED  BY <1>1, <1>3 DEF States
<1>. HIDE DEF a, t
<1>11. Sound(t)
    BY <1>9, <1>10, SlotsSound DEF Sound
<1>12. Active(t) = s.booting
    BY <1>0, <1>9 DEF Active
<1>. QED  BY <1>0, <1>1, <1>8, <1>9, <1>11, <1>12

-----------------------------------------------------------------------------
(***************************************************************************)
(* Verdicts stay verdicts, and a block does not begin by itself.           *)
(***************************************************************************)
LEMMA StrikeMakesEntry ==
    ASSUME NEW v \in Verdict, NEW reason \in Reasons, NEW t \in Nat
    PROVE  Strike(v, reason, t) \in Entries
<1>1. CASE v = Absent
    BY <1>1, VerdictsAssumption DEF Strike, Entries
<1>2. CASE v # Absent
    <2>1. v \in Entries
        BY <1>2 DEF Verdict
    <2>. QED  BY <1>2, <2>1, VerdictsAssumption DEF Strike, Entries
<1>. QED  BY <1>1, <1>2

LEMMA VerdictsKept ==
    ASSUME NEW vs \in [Releases -> Verdict], NEW reason \in Reasons, NEW t \in Nat
    PROVE  /\ \A r \in Releases : Record(vs, r, reason, t) \in [Releases -> Verdict]
           /\ \A rs : Condemn(vs, rs, reason, t) \in [Releases -> Verdict]
           /\ NoVerdicts \in [Releases -> Verdict]
<1>1. Prune(vs, t) \in [Releases -> Verdict]
    BY DEF Prune, Verdict
<1>2. ASSUME NEW r \in Releases PROVE Record(vs, r, reason, t) \in [Releases -> Verdict]
    <2>1. Strike(Prune(vs, t)[r], reason, t) \in Verdict
        BY <1>1, StrikeMakesEntry DEF Verdict
    <2>. QED  BY <1>1, <2>1 DEF Record
<1>3. ASSUME NEW rs PROVE Condemn(vs, rs, reason, t) \in [Releases -> Verdict]
    <2>1. ASSUME NEW r \in Releases
          PROVE  [Strike(Prune(vs, t)[r], reason, t) EXCEPT !.count = TransientStrikes] \in Verdict
        <3>1. Strike(Prune(vs, t)[r], reason, t) \in Entries
            BY <1>1, StrikeMakesEntry
        <3>. QED  BY <3>1, VerdictsAssumption DEF Entries, Verdict
    <2>. QED  BY <1>1, <2>1 DEF Condemn
<1>4. NoVerdicts \in [Releases -> Verdict]
    BY DEF NoVerdicts, Verdict
<1>. QED  BY <1>2, <1>3, <1>4

\* No verdict, not even one that ran out.
Clear(vs, p) == vs[Release(p)].reason = "none"

LEMMA ClearIsFree ==
    ASSUME NEW vs \in [Releases -> Verdict], NEW p \in Packs, Clear(vs, p)
    PROVE  \A t : ~IsActive(vs[Release(p)], t)
<1>1. vs[Release(p)] \in Verdict
    BY PackFacts
<1>2. vs[Release(p)] = Absent
    BY <1>1 DEF Clear, Verdict, Entries, Reasons, TransientReasons, PermanentReasons
<1>. QED  BY <1>2 DEF IsActive

LEMMA FreeStaysFree ==
    ASSUME NEW v \in Verdict, NEW t \in Nat, ~IsActive(v, t)
    PROVE  ~IsActive(v, t + 1)
<1>1. CASE v = Absent
    BY <1>1 DEF IsActive
<1>2. CASE v # Absent
    <2>1. v \in Entries
        BY <1>2 DEF Verdict
    <2>2. v.first \in Nat /\ TransientTtl \in Nat
        BY <2>1, VerdictsAssumption DEF Entries
    <2>3. OutOfTime(v, t) => OutOfTime(v, t + 1)
        BY <2>2 DEF OutOfTime
    <2>. QED  BY <1>2, <2>3 DEF IsActive
<1>. QED  BY <1>1, <1>2

-----------------------------------------------------------------------------
(***************************************************************************)
(* The invariant of the commands.                                          *)
(***************************************************************************)
TypeInv ==
    /\ Sound(state)
    /\ verdicts \in [Releases -> Verdict]
    /\ now \in Nat
    /\ seen \in [installed : [Ids -> Nat], floor : [Ids -> Nat]]
    /\ pending \in Revisions \cup {NoPlan}
    /\ unrecorded \subseteq Packs

\* Nothing waits while setup is not done, and a download has a plan.
CommandInv ==
    /\ ~up \/ unrecorded # {} => operation = "none" /\ pending = NoPlan
    /\ ~up => unrecorded = {}
    /\ operation = "download" => HasWork(pending)

\* What a check has read covers the layers without a verdict, and the floor it
\* has read is still the floor, but for what notify_ready committed since.
SeenInv ==
    operation \in {"check", "update"} =>
        /\ \A x \in Active(state) :
              Clear(verdicts, x) => Meta[x].ver <= seen.installed[Meta[x].id]
        /\ \/ state.floor = seen.floor
           \/ /\ state.pointer = "committed"
              /\ \A i \in Ids : \/ state.floor[i] = seen.floor[i]
                                \/ \E x \in Active(state) : Release(x) = <<i, state.floor[i]>>

\* A plan that waits is in order, and newer than the layers without a verdict.
PendingInv ==
    HasWork(pending) =>
        /\ Ordered(pending)
        /\ \A p \in pending, x \in Active(state) :
              Meta[x].id = Meta[p].id /\ Clear(verdicts, x) => Meta[x].ver < Meta[p].ver

PluginInv == TypeInv /\ CommandInv /\ SeenInv /\ PendingInv

LEMMA WorkIs ==
    ASSUME TypeInv, HasWork(pending)
    PROVE  pending \in SUBSET Packs
BY DEF TypeInv, HasWork, Revisions

LEMMA PluginInvInit == PluginInit => PluginInv
<1>. SUFFICES ASSUME PluginInit PROVE PluginInv
    OBVIOUS
<1>1. NoVerdicts \in [Releases -> Verdict]
    BY DEF NoVerdicts, Verdict
<1>2. NothingSeen \in [installed : [Ids -> Nat], floor : [Ids -> Nat]]
    BY DEF NothingSeen, NewState
<1>3. TypeInv
    BY <1>1, <1>2, NewSound DEF PluginInit, TypeInv
<1>. QED  BY <1>3 DEF PluginInit, PluginInv, CommandInv, SeenInv, PendingInv, HasWork

\* Recording an error changes nothing else.
LEMMA ErrorIs ==
    ASSUME NEW s, Sound(s), NEW code \in ErrorCodes \cup {"none", s.lastError}
    PROVE  LET t == [s EXCEPT !.lastError = code]
           IN  /\ Sound(t) /\ Active(t) = Active(s) /\ t.floor = s.floor /\ t.epoch = s.epoch
               /\ t.pointer = s.pointer
<1>. DEFINE t == [s EXCEPT !.lastError = code]
<1>1. s \in States /\ s.lastError \in ErrorCodes \cup {"none"}
    BY DEF Sound, States
<1>2. /\ t \in States /\ t.epoch = s.epoch /\ t.pointer = s.pointer /\ t.floor = s.floor
      /\ t.staged = s.staged /\ t.booting = s.booting /\ t.committed = s.committed
    BY <1>1 DEF States
<1>. HIDE DEF t
<1>3. Sound(t)
    BY <1>2, SlotsSound DEF Sound
<1>4. Active(t) = Active(s)
    BY <1>2 DEF Active
<1>. QED  BY <1>2, <1>3, <1>4 DEF t

\* A reset leaves nothing to serve, and the floors.
LEMMA ClearedIs ==
    ASSUME NEW s, Sound(s)
    PROVE  Sound(Cleared(s)) /\ Active(Cleared(s)) = {}
<1>1. s \in States /\ NewState \in States
    BY NewSound DEF Sound
<1>2. Cleared(s) \in States
    BY <1>1 DEF Cleared, States
<1>3. /\ Cleared(s).epoch = s.epoch /\ Cleared(s).pointer = "committed"
      /\ Cleared(s).staged = NoRev /\ Cleared(s).booting = NoRev /\ Cleared(s).committed = NoRev
    BY <1>1 DEF Cleared, NewState
<1>4. Sound(Cleared(s))
    BY <1>2, <1>3, SlotsSound DEF Sound
<1>. QED  BY <1>3, <1>4, RevisionLayers DEF Active

LEMMA StartKeeps == PluginInv /\ StartApp => PluginInv'
<1>. SUFFICES ASSUME PluginInv, StartApp PROVE PluginInv'
    OBVIOUS
<1>. USE DEF PluginInv
<1>. DEFINE read == BackfillVersionFloor(state, verdicts)
            vs == Condemn(verdicts, Condemned(read), "not_acknowledged", now)
<1>1. /\ state' = Promoted(Tried(read), vs) /\ verdicts' = vs
      /\ unrecorded' \in SUBSET (Live(state', vs) \cap Corruptible)
      /\ ~up /\ up' = TRUE /\ UNCHANGED <<operation, seen, pending, now>>
    BY DEF StartApp
<1>2. operation = "none" /\ pending = NoPlan
    BY <1>1 DEF CommandInv
<1>3. Sound(state')
    <2>1. Sound(read)
        BY BackfillSound DEF TypeInv
    <2>. HIDE DEF read, vs
    <2>2. Sound(Tried(read))
        BY <2>1, TriedSound
    <2>. QED  BY <1>1, <2>2, PromotedSound
<1>4. verdicts' \in [Releases -> Verdict]
    <2>1. "not_acknowledged" \in Reasons
        BY DEF Reasons, TransientReasons
    <2>. HIDE DEF read
    <2>. QED  BY <1>1, <2>1, VerdictsKept DEF TypeInv
<1>5. unrecorded' \subseteq Packs
    <2>1. Active(state') \subseteq Packs
        BY <1>3, SoundFacts DEF Base
    <2>. HIDE DEF vs
    <2>. QED  BY <1>1, <2>1 DEF Live
<1>. HIDE DEF vs
<1>6. TypeInv'
    BY <1>1, <1>3, <1>4, <1>5 DEF TypeInv
<1>7. CommandInv' /\ SeenInv' /\ PendingInv'
    BY <1>1, <1>2 DEF CommandInv, SeenInv, PendingInv, HasWork
<1>. QED  BY <1>6, <1>7

LEMMA RecordKeeps == PluginInv /\ RecordLayerFailure => PluginInv'
<1>. SUFFICES ASSUME PluginInv, RecordLayerFailure PROVE PluginInv'
    OBVIOUS
<1>. USE DEF PluginInv
<1>1. PICK p \in unrecorded, reason \in LoadReasons :
          /\ verdicts' = Record(verdicts, Release(p), reason, now)
          /\ unrecorded' = unrecorded \ {p}
    BY DEF RecordLayerFailure
<1>2. up /\ UNCHANGED <<state, up, operation, seen, pending, now>>
    BY DEF RecordLayerFailure
<1>3. operation = "none" /\ pending = NoPlan
    BY <1>1 DEF CommandInv
<1>4. verdicts' \in [Releases -> Verdict]
    <2>1. p \in Packs /\ reason \in Reasons
        BY PluginAssumption DEF TypeInv
    <2>. QED  BY <1>1, <2>1, VerdictsKept, PackFacts DEF TypeInv
<1>5. TypeInv'
    BY <1>1, <1>2, <1>4 DEF TypeInv
<1>6. CommandInv' /\ SeenInv' /\ PendingInv'
    BY <1>2, <1>3 DEF CommandInv, SeenInv, PendingInv, HasWork
<1>. QED  BY <1>5, <1>6

LEMMA EndKeeps == PluginInv /\ EndApp => PluginInv'
<1>. SUFFICES ASSUME PluginInv, EndApp PROVE PluginInv'
    OBVIOUS
<1>. USE DEF PluginInv
<1>1. NothingSeen \in [installed : [Ids -> Nat], floor : [Ids -> Nat]]
    BY DEF NothingSeen, NewState
<1>2. TypeInv'
    BY <1>1 DEF EndApp, TypeInv, store
<1>. QED  BY <1>2 DEF EndApp, CommandInv, SeenInv, PendingInv, HasWork

LEMMA BeginCheckKeeps == PluginInv /\ BeginCheck => PluginInv'
<1>. SUFFICES ASSUME PluginInv, BeginCheck PROVE PluginInv'
    OBVIOUS
<1>. USE DEF PluginInv
<1>1. /\ up /\ unrecorded = {}
      /\ seen' = [installed |-> InstalledVersions(state, verdicts), floor |-> state.floor]
      /\ operation' \in {"check", "update"}
      /\ UNCHANGED <<state, verdicts, up, unrecorded, pending, now>>
    BY DEF BeginCheck, CheckPossible, Commands, store
<1>. DEFINE found == InstalledLayers(state, verdicts)
<1>2. found \in SUBSET Packs /\ state.floor \in [Ids -> Nat]
    BY SoundFacts DEF TypeInv, InstalledLayers, Base
<1>3. /\ InstalledVersions(state, verdicts) \in [Ids -> Nat]
      /\ \A x \in found : Meta[x].ver <= InstalledVersions(state, verdicts)[Meta[x].id]
    <2>1. /\ Versions(found) \in [Ids -> 0 .. Latest]
          /\ \A x \in found : Meta[x].ver <= Versions(found)[Meta[x].id]
        BY <1>2, VersionsIs
    <2>2. Versions(found) \in [Ids -> Nat]
        BY <2>1, LatestIs
    <2>. QED  BY <2>1, <2>2 DEF InstalledVersions
<1>4. ASSUME NEW x \in Active(state), Clear(verdicts, x) PROVE x \in found
    <2>1. x \in Packs
        BY SoundFacts DEF TypeInv, Base
    <2>2. ~Blocks(verdicts, x)
        BY <1>4, <2>1, ClearIsFree DEF TypeInv, Blocks
    <2>. QED  BY <2>2 DEF InstalledLayers, Active
<1>. HIDE DEF found
<1>5. TypeInv'
    BY <1>1, <1>2, <1>3 DEF TypeInv
<1>6. SeenInv'
    <2>1. \A x \in Active(state) :
              Clear(verdicts, x) => Meta[x].ver <= InstalledVersions(state, verdicts)[Meta[x].id]
        BY <1>3, <1>4
    <2>. QED  BY <1>1, <2>1 DEF SeenInv
<1>7. CommandInv' /\ PendingInv'
    BY <1>1 DEF CommandInv, PendingInv, HasWork
<1>. QED  BY <1>5, <1>6, <1>7

LEMMA FailKeeps == PluginInv /\ (CheckFails \/ DownloadFails) => PluginInv'
<1>. SUFFICES ASSUME PluginInv, CheckFails \/ DownloadFails PROVE PluginInv'
    OBVIOUS
<1>. USE DEF PluginInv
<1>1. ErrorKept /\ operation' = "none" /\ UNCHANGED <<verdicts, up, unrecorded, pending, now>>
      /\ seen' \in {seen, NothingSeen}
    BY DEF CheckFails, DownloadFails
<1>2. PICK code \in ErrorCodes \cup {"none", state.lastError} : state' = [state EXCEPT !.lastError = code]
    BY <1>1 DEF ErrorKept
<1>3. Sound(state') /\ Active(state') = Active(state)
    BY <1>2, ErrorIs DEF TypeInv
<1>4. NothingSeen \in [installed : [Ids -> Nat], floor : [Ids -> Nat]]
    BY DEF NothingSeen, NewState
<1>5. TypeInv'
    BY <1>1, <1>3, <1>4 DEF TypeInv
<1>6. PendingInv'
    BY <1>1, <1>3 DEF PendingInv, HasWork
<1>. QED  BY <1>1, <1>5, <1>6 DEF CommandInv, SeenInv

LEMMA PlanKeeps ==
    ASSUME OneBuildEach, PluginInv, NEW offer \in Channels, PlanOffer(offer)
    PROVE  PluginInv'
<1>. USE DEF PluginInv
<1>. DEFINE batch == Plan(offer, verdicts, seen.installed, seen.floor)
<1>1. /\ operation \in {"check", "update"} /\ pending' = batch
      /\ state' = [state EXCEPT !.lastError = "none"]
      /\ operation' = IF operation = "update" /\ HasWork(batch) THEN "download" ELSE "none"
      /\ seen' = NothingSeen /\ UNCHANGED <<verdicts, up, unrecorded, now>>
    BY DEF PlanOffer
<1>2. Sound(state') /\ Active(state') = Active(state) /\ Active(state) \subseteq Packs
    BY <1>1, ErrorIs, SoundFacts DEF TypeInv, Base
<1>3. /\ batch \subseteq Packs /\ Ordered(batch)
      /\ \A p \in batch : Meta[p].ver > seen.installed[Meta[p].id]
    BY PlanOrdered, PluginAssumption DEF TypeInv
<1>4. NothingSeen \in [installed : [Ids -> Nat], floor : [Ids -> Nat]]
    BY DEF NothingSeen, NewState
<1>. HIDE DEF batch
<1>5. TypeInv'
    BY <1>1, <1>2, <1>3, <1>4 DEF TypeInv, Revisions
<1>6. CommandInv' /\ SeenInv'
    BY <1>1 DEF CommandInv, SeenInv
<1>7. PendingInv'
    <2>1. ASSUME NEW p \in batch, NEW x \in Active(state), Meta[x].id = Meta[p].id, Clear(verdicts, x)
          PROVE  Meta[x].ver < Meta[p].ver
        <3>1. Meta[x].ver <= seen.installed[Meta[x].id]
            BY <1>1, <2>1 DEF SeenInv
        <3>2. Meta[p].ver > seen.installed[Meta[p].id]
            BY <1>3
        <3>3. seen.installed[Meta[p].id] \in Nat /\ Meta[x].ver \in Nat /\ Meta[p].ver \in Nat
            BY <1>2, <1>3, PackFacts DEF TypeInv
        <3>. QED  BY <2>1, <3>1, <3>2, <3>3
    <2>. QED  BY <1>1, <1>2, <1>3, <2>1 DEF PendingInv
<1>. QED  BY <1>5, <1>6, <1>7

LEMMA BeginDownloadKeeps == PluginInv /\ BeginDownload => PluginInv'
<1>. SUFFICES ASSUME PluginInv, BeginDownload PROVE PluginInv'
    OBVIOUS
<1>1. TypeInv' /\ PendingInv'
    BY DEF PluginInv, BeginDownload, TypeInv, PendingInv, HasWork, store
<1>2. CommandInv' /\ SeenInv'
    BY DEF PluginInv, BeginDownload, Commands, CommandInv, SeenInv, HasWork, store
<1>. QED  BY <1>1, <1>2 DEF PluginInv

LEMMA StageKeepsOrder ==
    ASSUME OneBuildEach, PluginInv, StagePending
    PROVE  PluginInv'
<1>. USE DEF PluginInv
<1>. DEFINE rev == Revision(state, verdicts, pending)
<1>1. /\ operation = "download" /\ Stageable(state, verdicts, pending)
      /\ state' = [state EXCEPT !.staged = rev, !.lastError = "none"]
      /\ pending' = NothingToFetch /\ operation' = "none"
      /\ UNCHANGED <<verdicts, up, unrecorded, seen, now>>
    BY DEF StagePending
<1>2. HasWork(pending) /\ pending \in SUBSET Packs
    BY <1>1, WorkIs DEF CommandInv
<1>3. rev \subseteq Packs /\ Ordered(rev)
    BY <1>1, <1>2, StagingKeepsOrder, SoundFacts
       DEF TypeInv, PendingInv, Stageable, RevisionAccepted
<1>. HIDE DEF rev
<1>4. Sound(state')
    <2>1. state \in States /\ rev \in Revisions
        BY <1>3 DEF TypeInv, Sound, Revisions
    <2>. DEFINE half == [state EXCEPT !.staged = rev]
    <2>2. half \in States
        BY <2>1 DEF States
    <2>3. state' = [half EXCEPT !.lastError = "none"]
        BY <1>1
    <2>4. /\ state'.epoch = state.epoch /\ state'.pointer = state.pointer /\ state'.staged = rev
          /\ state'.booting = state.booting /\ state'.committed = state.committed
        BY <1>1, <2>1 DEF States
    <2>. HIDE DEF half
    <2>5. state' \in States
        BY <2>2, <2>3 DEF States
    <2>. QED  BY <1>3, <2>1, <2>4, <2>5, RevisionLayers DEF Sound, TypeInv
<1>5. TypeInv'
    BY <1>1, <1>4 DEF TypeInv, NothingToFetch, Revisions
<1>6. CommandInv' /\ SeenInv' /\ PendingInv'
    BY <1>1 DEF CommandInv, SeenInv, PendingInv, HasWork, NothingToFetch
<1>. QED  BY <1>5, <1>6

LEMMA AcknowledgeKeeps == PluginInv /\ AcknowledgeReady => PluginInv'
<1>. SUFFICES ASSUME PluginInv, AcknowledgeReady PROVE PluginInv'
    OBVIOUS
<1>. USE DEF PluginInv
<1>1. /\ state' = Acknowledged(state)
      /\ UNCHANGED <<verdicts, up, unrecorded, operation, seen, pending, now>>
    BY DEF AcknowledgeReady
<1>2. CASE ~OnTrial(state)
    <2>1. state' = state
        BY <1>1, <1>2 DEF Acknowledged
    <2>. QED  BY <1>1, <2>1 DEF TypeInv, CommandInv, SeenInv, PendingInv, HasWork
<1>3. CASE OnTrial(state)
    <2>1. /\ Sound(state') /\ state'.pointer = "committed" /\ Active(state') = Active(state)
          /\ \A i \in Ids : \/ state'.floor[i] = state.floor[i]
                            \/ \E x \in Active(state') : Release(x) = <<i, state'.floor[i]>>
        BY <1>1, <1>3, AcknowledgedIs DEF TypeInv
    <2>2. TypeInv'
        BY <1>1, <2>1 DEF TypeInv
    <2>3. SeenInv'
        <3>1. state.pointer # "committed"
            BY <1>3 DEF OnTrial
        <3>. QED  BY <1>1, <2>1, <3>1 DEF SeenInv
    <2>4. CommandInv' /\ PendingInv'
        BY <1>1, <2>1 DEF CommandInv, PendingInv, HasWork
    <2>. QED  BY <2>2, <2>3, <2>4
<1>. QED  BY <1>2, <1>3

LEMMA ResetKeepsOrder ==
    ASSUME PluginInv, NEW clearBlacklist \in BOOLEAN, ResetContent(clearBlacklist)
    PROVE  PluginInv'
<1>. USE DEF PluginInv
<1>1. /\ up /\ unrecorded = {} /\ operation = "none"
      /\ state' = Cleared(state)
      /\ verdicts' = IF clearBlacklist THEN NoVerdicts ELSE verdicts
      /\ pending' \in {NoPlan, pending}
      /\ UNCHANGED <<up, unrecorded, operation, seen, now>>
    BY DEF ResetContent, Commands
<1>2. Sound(state') /\ Active(state') = {}
    BY <1>1, ClearedIs DEF TypeInv
<1>3. verdicts' \in [Releases -> Verdict]
    BY <1>1 DEF TypeInv, NoVerdicts, Verdict
<1>4. TypeInv'
    BY <1>1, <1>2, <1>3 DEF TypeInv
<1>5. PendingInv'
    BY <1>1, <1>2 DEF PendingInv, HasWork
<1>6. CommandInv' /\ SeenInv'
    BY <1>1 DEF CommandInv, SeenInv
<1>. QED  BY <1>4, <1>5, <1>6

LEMMA TimeKeeps == PluginInv /\ PassTime => PluginInv'
<1>. SUFFICES ASSUME PluginInv, PassTime PROVE PluginInv'
    OBVIOUS
<1>1. now' \in Nat /\ UNCHANGED <<state, verdicts, up, unrecorded, operation, seen, pending>>
    BY DEF PluginInv, TypeInv, PassTime, store
<1>. QED  BY <1>1 DEF PluginInv, TypeInv, CommandInv, SeenInv, PendingInv, HasWork

\* The invariant holds in every state, where no release was published twice.
LEMMA PluginInvAlways == OneBuildEach => (PluginSpec => []PluginInv)
<1>. SUFFICES ASSUME OneBuildEach PROVE PluginSpec => []PluginInv
    OBVIOUS
<1>1. PluginInv /\ [PluginNext]_pluginVars => PluginInv'
    <2>. SUFFICES ASSUME PluginInv, [PluginNext]_pluginVars PROVE PluginInv'
        OBVIOUS
    <2>1. CASE UNCHANGED pluginVars
        BY <2>1 DEF pluginVars, store, PluginInv, TypeInv, CommandInv, SeenInv, PendingInv, HasWork
    <2>2. CASE PluginNext
        BY <2>2, StartKeeps, RecordKeeps, EndKeeps, BeginCheckKeeps, FailKeeps, PlanKeeps,
           BeginDownloadKeeps, StageKeepsOrder, AcknowledgeKeeps, ResetKeepsOrder, TimeKeeps
           DEF PluginNext
    <2>. QED  BY <2>1, <2>2
<1>. QED  BY <1>1, PluginInvInit, PTL DEF PluginSpec

-----------------------------------------------------------------------------
(***************************************************************************)
(* No check leads to a download that is doomed: while what counts as       *)
(* installed is what the app runs on, whatever the planner asks for can be *)
(* staged, for every channel and every stack the commands lead to.  It is  *)
(* property PlansStage.                                                    *)
(***************************************************************************)
THEOREM PlansAlwaysStageLive == OneBuildEach => (PluginSpec => []PlansStage)
<1>. SUFFICES ASSUME OneBuildEach PROVE PluginSpec => []PlansStage
    OBVIOUS
<1>1. PluginInv => PlansStage
    <2>. SUFFICES ASSUME PluginInv, InstalledIsLive, NEW offer \in Channels
                  PROVE  Stageable(state, verdicts, PlanNow(offer))
        BY DEF PlansStage
    <2>1. PlanNow(offer) = Plan(offer, verdicts, Versions(Live(state, verdicts)), state.floor)
        BY DEF PlanNow, InstalledIsLive
    <2>2. offer \in SUBSET Packs /\ Base(state) /\ state.floor \in [Ids -> Nat]
        BY PluginAssumption, SoundFacts DEF PluginInv, TypeInv, Base
    <2>3. \A i \in Ids : state.floor[i] <= state.floor[i]
        BY <2>2
    <2>. QED  BY <2>1, <2>2, <2>3, PlanIsStageable
<1>. QED  BY <1>1, PluginInvAlways, PTL

-----------------------------------------------------------------------------
(***************************************************************************)
(* A plan that waits.                                                      *)
(***************************************************************************)
\* Staging asks for the stack, the floors and the verdicts, and for nothing else.
LEMMA StageableIs ==
    ASSUME NEW s, NEW t, NEW vs, NEW batch, Active(t) = Active(s), t.floor = s.floor,
           t.epoch = s.epoch, Stageable(s, vs, batch)
    PROVE  Stageable(t, vs, batch)
<1>1. Revision(t, vs, batch) = Revision(s, vs, batch)
    BY DEF Revision, Inherited
<1>. QED  BY <1>1 DEF Stageable, RevisionAccepted, EpochsSuffice, FloorsReached

\* notify_ready raises floors to layers that the plan keeps or outdoes.
LEMMA AcknowledgedStageable ==
    ASSUME PluginInv, OnTrial(state), LoadsWhole, HasWork(pending),
           Stageable(state, verdicts, pending)
    PROVE  Stageable(Acknowledged(state), verdicts, pending)
<1>. USE DEF PluginInv
<1>. DEFINE t == Acknowledged(state)
            rev == Revision(state, verdicts, pending)
<1>1. /\ Sound(t) /\ Active(t) = Active(state)
      /\ \A i \in Ids :
            /\ t.floor[i] \in Nat
            /\ t.floor[i] = state.floor[i] \/ \E x \in Active(t) : Release(x) = <<i, t.floor[i]>>
    BY AcknowledgedIs DEF TypeInv
<1>. HIDE DEF t
<1>2. Active(state) \subseteq Packs /\ pending \in SUBSET Packs
    BY WorkIs, SoundFacts DEF TypeInv, Base
<1>3. ASSUME NEW x \in Active(state) PROVE Clear(verdicts, x) /\ ~Blocks(verdicts, x) /\ x \in Packs
    <2>1. x \in Layers(state.committed) \cup Layers(state.booting)
        BY <1>3 DEF Active
    <2>2. Clear(verdicts, x)
        BY <2>1 DEF LoadsWhole, Clear
    <2>. QED  BY <1>2, <2>2, ClearIsFree DEF TypeInv, Blocks
<1>4. Revision(t, verdicts, pending) = rev
    BY <1>1 DEF Revision, Inherited
<1>5. t.epoch = 1 /\ state.epoch = 1
    BY <1>1 DEF Sound, TypeInv
<1>. HIDE DEF rev
<1>6. FloorsReached(t, rev, pending)
    <2>. SUFFICES ASSUME NEW q \in pending
                  PROVE  \E p \in rev : Meta[p].id = Meta[q].id /\ Meta[p].ver >= t.floor[Meta[q].id]
        BY DEF FloorsReached
    <2>. DEFINE i == Meta[q].id
    <2>1. i \in Ids
        BY <1>2, PackFacts
    <2>2. CASE t.floor[i] = state.floor[i]
        BY <2>2 DEF Stageable, FloorsReached, rev
    <2>3. CASE t.floor[i] # state.floor[i]
        <3>1. PICK x \in Active(state) : Release(x) = <<i, t.floor[i]>>
            BY <1>1, <2>1, <2>3
        <3>2. /\ Clear(verdicts, x) /\ ~Blocks(verdicts, x) /\ x \in Packs
              /\ Meta[x].id = i /\ Meta[x].ver = t.floor[i] /\ Meta[x].ver \in Nat
            BY <1>3, <3>1, PackFacts
        <3>3. CASE x \in pending \/ ~\E r \in pending : Meta[r].id = Meta[x].id /\ Meta[r].kind # "patch"
            <4>1. x \in rev
                BY <3>2, <3>3 DEF Revision, Inherited, rev
            <4>. QED  BY <3>2, <4>1
        <3>4. CASE \E r \in pending : Meta[r].id = Meta[x].id /\ Meta[r].kind # "patch"
            <4>1. PICK r \in pending : Meta[r].id = Meta[x].id
                BY <3>4
            <4>2. r \in rev
                BY DEF Revision, rev
            <4>3. Meta[x].ver < Meta[r].ver
                BY <3>1, <3>2, <4>1 DEF PendingInv
            <4>4. Meta[r].ver \in Nat
                BY <1>2, PackFacts
            <4>. QED  BY <3>2, <4>1, <4>2, <4>3, <4>4
        <3>. QED  BY <3>3, <3>4
    <2>. QED  BY <2>2, <2>3
<1>. QED  BY <1>4, <1>5, <1>6 DEF Stageable, RevisionAccepted, EpochsSuffice, t, rev

\* The clock brings back no layer where none is on the blacklist.
LEMMA TimeStageable ==
    ASSUME PluginInv, LoadsWhole, HasWork(pending), PendingStageable, PassTime
    PROVE  PendingStageable'
<1>. USE DEF PluginInv
<1>1. now' = now + 1 /\ UNCHANGED <<state, verdicts, pending>> /\ now \in Nat
    BY DEF PassTime, store, TypeInv
<1>2. Active(state) \subseteq Packs /\ pending \in SUBSET Packs
    BY WorkIs, SoundFacts DEF TypeInv, Base
<1>3. ASSUME NEW x \in Active(state) PROVE \A t : ~IsActive(verdicts[Release(x)], t)
    <2>1. x \in Layers(state.committed) \cup Layers(state.booting)
        BY <1>3 DEF Active
    <2>2. Clear(verdicts, x)
        BY <2>1 DEF LoadsWhole, Clear
    <2>. QED  BY <1>2, <2>2, ClearIsFree DEF TypeInv
<1>4. ASSUME NEW p \in pending PROVE ~IsActive(verdicts[Release(p)], now + 1)
    <2>1. ~IsActive(verdicts[Release(p)], now)
        BY DEF PendingStageable, Stageable, Blocks
    <2>2. verdicts[Release(p)] \in Verdict
        BY <1>2, PackFacts DEF TypeInv
    <2>. QED  BY <1>1, <2>1, <2>2, FreeStaysFree
<1>. DEFINE kept == {p \in Active(state) \ pending :
                        ~\E q \in pending : Meta[q].id = Meta[p].id /\ Meta[q].kind # "patch"}
<1>5. Revision(state, verdicts, pending) = kept \cup pending
    BY <1>3 DEF Revision, Inherited, Blocks
<1>6. Revision(state, verdicts, pending)' = kept \cup pending
    BY <1>1, <1>3 DEF Revision, Inherited, Blocks, Active, Layers
<1>. HIDE DEF kept
<1>7. (~\E p \in pending : Blocks(verdicts, p))'
    BY <1>1, <1>4 DEF Blocks
<1>8. /\ ParentsMatch(kept \cup pending, pending) /\ EpochsSuffice(state, kept \cup pending)
      /\ FloorsReached(state, kept \cup pending, pending)
    BY <1>5 DEF PendingStageable, Stageable, RevisionAccepted
<1>. QED  BY <1>1, <1>6, <1>7, <1>8 DEF PendingStageable, Stageable, RevisionAccepted

(***************************************************************************)
(* A plan is good when it is kept, although it was made from what was read *)
(* before the request, and notify_ready and the clock leave it good, for   *)
(* every channel and every interleaving of the commands.  It is property   *)
(* PendingIsGood.                                                          *)
(***************************************************************************)
THEOREM PendingAlwaysGood == OneBuildEach => (PluginSpec => PendingIsGood)
<1>. SUFFICES ASSUME OneBuildEach PROVE PluginSpec => PendingIsGood
    OBVIOUS
<1>. DEFINE Good == /\ LoadsWhole /\ SeenIsLive
                    /\ HasWork(pending')
                    /\ pending' # pending \/ PendingStageable
                    => \/ PendingStageable'
                       \/ state' = Cleared(state) /\ verdicts' # verdicts
<1>1. PluginInv /\ [PluginNext]_pluginVars => [Good]_pluginVars
    <2>. SUFFICES ASSUME PluginInv, PluginNext, LoadsWhole, SeenIsLive, HasWork(pending'),
                         pending' # pending \/ PendingStageable
                  PROVE  PendingStageable' \/ (state' = Cleared(state) /\ verdicts' # verdicts)
        OBVIOUS
    <2>. USE DEF PluginInv
    <2>1. CASE StartApp \/ RecordLayerFailure \/ EndApp
        BY <2>1 DEF StartApp, RecordLayerFailure, EndApp, CommandInv, HasWork
    <2>2. CASE BeginCheck \/ BeginDownload
        <3>1. UNCHANGED <<state, verdicts, pending, now>>
            BY <2>2 DEF BeginCheck, BeginDownload, store
        <3>. QED  BY <3>1 DEF PendingStageable, Stageable, Revision, Inherited, Blocks,
                              RevisionAccepted, Active, Layers
    <2>3. CASE CheckFails \/ DownloadFails
        <3>1. ErrorKept /\ UNCHANGED <<verdicts, pending, now>>
            BY <2>3 DEF CheckFails, DownloadFails
        <3>2. PICK code \in ErrorCodes \cup {"none", state.lastError} :
                  state' = [state EXCEPT !.lastError = code]
            BY <3>1 DEF ErrorKept
        <3>3. /\ Active(state') = Active(state) /\ state'.floor = state.floor
              /\ state'.epoch = state.epoch
            BY <3>2, ErrorIs DEF TypeInv
        <3>4. Stageable(state', verdicts, pending)
            BY <3>1, <3>3, StageableIs DEF PendingStageable
        <3>. QED  BY <3>1, <3>4 DEF PendingStageable, Stageable, Revision, Inherited, Blocks,
                                    RevisionAccepted, Active, Layers
    <2>4. ASSUME NEW offer \in Channels, PlanOffer(offer) PROVE PendingStageable'
        <3>. DEFINE installed == Versions(Live(state, verdicts))
                    batch == Plan(offer, verdicts, installed, seen.floor)
        <3>1. /\ operation \in {"check", "update"}
              /\ state' = [state EXCEPT !.lastError = "none"]
              /\ pending' = Plan(offer, verdicts, seen.installed, seen.floor)
              /\ UNCHANGED <<verdicts, now>>
            BY <2>4 DEF PlanOffer
        <3>2. pending' = batch /\ seen.installed = installed
            BY <3>1 DEF SeenIsLive
        <3>3. offer \in SUBSET Packs /\ Base(state) /\ state.floor \in [Ids -> Nat]
              /\ seen.floor \in [Ids -> Nat]
            BY PluginAssumption, SoundFacts DEF TypeInv, Base
        <3>4. ASSUME NEW i \in Ids PROVE state.floor[i] <= seen.floor[i] \/ state.floor[i] <= installed[i]
            <4>1. state.floor[i] = seen.floor[i] \/ \E x \in Active(state) : Release(x) = <<i, state.floor[i]>>
                BY <3>1 DEF SeenInv
            <4>2. CASE state.floor[i] = seen.floor[i]
                BY <3>3, <4>2
            <4>3. CASE \E x \in Active(state) : Release(x) = <<i, state.floor[i]>>
                <5>1. PICK x \in Active(state) : Release(x) = <<i, state.floor[i]>>
                    BY <4>3
                <5>2. x \in Packs /\ Meta[x].id = i /\ Meta[x].ver = state.floor[i]
                    BY <3>3, <5>1 DEF Base, Release
                <5>3. Clear(verdicts, x)
                    <6>1. x \in Layers(state.committed) \cup Layers(state.booting)
                        BY DEF Active
                    <6>. QED  BY <6>1 DEF LoadsWhole, Clear
                <5>4. Meta[x].ver <= seen.installed[i]
                    BY <3>1, <5>2, <5>3 DEF SeenInv
                <5>. QED  BY <3>2, <5>2, <5>4
            <4>. QED  BY <4>1, <4>2, <4>3
        <3>5. Stageable(state, verdicts, batch)
            BY <3>3, <3>4, PlanIsStageable
        <3>. HIDE DEF batch
        <3>6. /\ Active(state') = Active(state) /\ state'.floor = state.floor
              /\ state'.epoch = state.epoch
            BY <3>1, ErrorIs DEF TypeInv
        <3>7. Stageable(state', verdicts, batch)
            BY <3>5, <3>6, StageableIs
        <3>. QED  BY <3>1, <3>2, <3>7 DEF PendingStageable, Stageable, Revision, Inherited, Blocks,
                                         RevisionAccepted, Active, Layers
    <2>5. CASE StagePending
        BY <2>5 DEF StagePending, HasWork, NothingToFetch
    <2>6. CASE AcknowledgeReady
        <3>1. state' = Acknowledged(state) /\ UNCHANGED <<verdicts, pending, now>>
            BY <2>6 DEF AcknowledgeReady
        <3>2. Stageable(Acknowledged(state), verdicts, pending)
            <4>1. CASE OnTrial(state)
                BY <3>1, <4>1, AcknowledgedStageable DEF PendingStageable
            <4>2. CASE ~OnTrial(state)
                BY <3>1, <4>2 DEF PendingStageable, Acknowledged
            <4>. QED  BY <4>1, <4>2
        <3>. QED  BY <3>1, <3>2 DEF PendingStageable, Stageable, Revision, Inherited, Blocks,
                                    RevisionAccepted, Active, Layers
    <2>7. ASSUME NEW clearBlacklist \in BOOLEAN, ResetContent(clearBlacklist)
          PROVE  state' = Cleared(state) /\ verdicts' # verdicts
        <3>1. /\ state' = Cleared(state)
              /\ pending' = NoPlan \/ (verdicts' # verdicts /\ UNCHANGED pending)
            BY <2>7 DEF ResetContent
        <3>. QED  BY <3>1 DEF HasWork
    <2>8. CASE PassTime
        <3>1. pending' = pending
            BY <2>8 DEF PassTime
        <3>. QED  BY <2>8, <3>1, TimeStageable
    <2>. QED  BY <2>1, <2>2, <2>3, <2>4, <2>5, <2>6, <2>7, <2>8 DEF PluginNext
<1>. QED  BY <1>1, PluginInvAlways, PTL DEF PluginSpec, PendingIsGood

-----------------------------------------------------------------------------
(***************************************************************************)
(* One update is enough.                                                   *)
(***************************************************************************)
\* Nothing follows what was chosen, whatever the floors have risen to.
LEMMA NothingMore ==
    ASSUME OneBuildEach, NEW usable, NEW installed, NEW floor, NEW id,
           Asked(usable, installed, floor, id),
           NEW later, NEW raised, Asked(usable, later, raised, id),
           later[id] = ChosenOf(usable, installed, floor, id).current,
           floor[id] <= raised[id]
    PROVE  ChosenOf(usable, later, raised, id).packs = {}
<1>. DEFINE c == ChosenOf(usable, installed, floor, id)
            d == ChosenOf(usable, later, raised, id)
            ends == Terminals(usable, id)
            newest == NewestOf(usable, installed, floor, id)
<1>. SUFFICES ASSUME d.packs # {} PROVE FALSE
    OBVIOUS
<1>1. /\ WellChosen(c, usable, installed, floor, id)
      /\ WellChosen(d, usable, later, raised, id)
    BY ChosenIs
<1>2. c.current \in Nat /\ installed[id] <= c.current /\ newest <= c.current
      /\ newest \in Nat /\ installed[id] \in Nat /\ floor[id] \in Nat /\ raised[id] \in Nat
    BY <1>1, NewestIs, EligibleAre DEF WellChosen
<1>3. /\ d.packs \subseteq EligibleOf(usable, later, raised, id)
      /\ \A q \in d.packs : c.current < Meta[q].ver
      /\ \A q \in d.packs : IsPatch(q) => ParentCode(q) = c.current \/ Meta[q].parent \in d.packs
    BY <1>1 DEF WellChosen
<1>4. ASSUME NEW q \in d.packs
      PROVE  /\ q \in usable /\ q \in Packs /\ Meta[q].id = id /\ Meta[q].ver \in Nat
             /\ Meta[q].ver \in 0 .. Latest
             /\ ReachesFloor(ends, raised, q)
    <2>1. q \in usable /\ q \in Packs /\ Meta[q].id = id /\ ReachesFloor(ends, raised, q)
        BY <1>3, EligibleAre DEF Rivals
    <2>2. Meta[q].ver \in 1 .. Latest /\ Latest \in Nat
        BY <2>1, LatestIs
    <2>. QED  BY <2>1, <2>2
<1>. HIDE DEF c, d, newest
<1>5. PICK m \in d.packs : \A q \in d.packs : Meta[m].ver <= Meta[q].ver
    <2>1. d.packs \in SUBSET Packs
        BY <1>4
    <2>. QED  BY <2>1, LowestIs
<1>6. ReachesFloor(ends, floor, m)
    <2>1. ends[Meta[m].ver] \in 0 .. Latest /\ Latest \in Nat
        <3>1. usable \in SUBSET Packs
            BY DEF Asked
        <3>2. Ends(ends, usable, id)
            BY <3>1, TerminalsAre
        <3>. QED  BY <1>4, <3>2, LatestIs DEF Ends
    <2>. HIDE DEF ends
    <2>. QED  BY <1>2, <1>4, <2>1 DEF ReachesFloor
<1>7. CASE ~IsPatch(m)
    <2>1. Replaces(usable, installed, floor, id, m)
        BY <1>2, <1>3, <1>4, <1>6, <1>7 DEF Replaces
    <2>2. Meta[m].ver <= newest
        BY <2>1, NewestIs DEF newest
    <2>. QED  BY <1>2, <1>3, <1>4, <2>2
<1>8. CASE IsPatch(m)
    <2>1. ParentCode(m) = c.current
        <3>. SUFFICES ASSUME Meta[m].parent \in d.packs PROVE FALSE
            BY <1>3, <1>8
        <3>1. Meta[m].ver <= Meta[Meta[m].parent].ver
            BY <1>5
        <3>2. /\ Meta[Meta[m].parent].ver < Meta[m].ver /\ Meta[m].ver \in Nat
              /\ Meta[Meta[m].parent].ver \in Nat
            BY <1>4, <1>8, ParentFacts
        <3>. QED  BY <3>1, <3>2
    <2>2. m \in EligibleOf(usable, installed, floor, id)
        BY <1>2, <1>4, <1>6, <1>8, <2>1, EligibleAre DEF newest
    <2>3. ~Follows(m, c.current)
        BY <2>2, EligibleAre, NothingLeft DEF c, ChosenOf
    <2>. QED  BY <1>3, <1>8, <2>1, <2>3 DEF Follows
<1>. QED  BY <1>7, <1>8

\* Once a plan is staged, what it chose for an id is what is installed.
LEMMA StagedIsChosen ==
    ASSUME OneBuildEach, NEW offer \in SUBSET Packs, NEW s, NEW vs, Base(s),
           NEW floor \in [Ids -> Nat], NEW i \in Ids
    PROVE  LET installed == Versions(Live(s, vs))
               batch == Plan(offer, vs, installed, floor)
           IN  /\ Revision(s, vs, batch) \subseteq Packs
               /\ Versions(Revision(s, vs, batch))[i] =
                     ChosenOf(Usable(offer, vs), installed, floor, i).current
<1>. DEFINE installed == Versions(Live(s, vs))
            batch == Plan(offer, vs, installed, floor)
            usable == Usable(offer, vs)
            c == ChosenOf(usable, installed, floor, i)
            rev == Revision(s, vs, batch)
<1>1. /\ Live(s, vs) \in SUBSET Packs /\ installed \in [Ids -> Nat]
      /\ \A x \in Live(s, vs) : Meta[x].ver <= installed[Meta[x].id]
      /\ installed[i] = 0 \/ \E x \in Live(s, vs) : Meta[x].id = i /\ Meta[x].ver = installed[i]
      /\ Inherited(s, vs, batch) =
            {p \in Live(s, vs) \ batch :
                ~\E q \in batch : Meta[q].id = Meta[p].id /\ ~IsPatch(q)}
    BY LiveFacts
<1>. HIDE DEF installed
<1>2. /\ WellChosen(c, usable, installed, floor, i)
      /\ \A p \in c.packs : p \in batch /\ Meta[p].id = i
      /\ \A p \in batch : p \in Packs /\ (Meta[p].id = i => p \in c.packs)
    <2>1. PlanOf(batch, usable, installed, floor)
        BY <1>1, PlanIs
    <2>. QED  BY <2>1 DEF PlanOf
<1>. HIDE DEF batch
<1>3. rev \subseteq Packs
    BY <1>1, <1>2 DEF Revision
<1>4. /\ c.current \in Nat /\ installed[i] <= c.current /\ installed[i] \in Nat
      /\ c.packs = {} => c.current = installed[i]
      /\ c.packs # {} => \E p \in c.packs : Meta[p].ver = c.current
      /\ \A q \in c.packs : Meta[q].ver <= c.current
    BY <1>1, <1>2 DEF WellChosen
<1>. HIDE DEF c
<1>5. /\ \A x \in rev : Meta[x].ver <= Versions(rev)[Meta[x].id]
      /\ Versions(rev)[i] = 0 \/ \E x \in rev : Meta[x].id = i /\ Meta[x].ver = Versions(rev)[i]
      /\ Versions(rev)[i] \in Nat
    <2>. HIDE DEF rev
    <2>1. /\ Versions(rev) \in [Ids -> 0 .. Latest]
          /\ \A x \in rev : Meta[x].ver <= Versions(rev)[Meta[x].id]
          /\ Versions(rev)[i] = 0 \/ \E x \in rev : Meta[x].id = i /\ Meta[x].ver = Versions(rev)[i]
        BY <1>3, VersionsIs
    <2>. QED  BY <2>1, LatestIs
<1>6. ASSUME NEW x \in rev, Meta[x].id = i PROVE Meta[x].ver <= c.current
    <2>1. CASE x \in batch
        BY <1>2, <1>4, <1>6, <2>1
    <2>2. CASE x \notin batch
        <3>1. x \in Live(s, vs)
            BY <1>1, <2>2 DEF Revision
        <3>2. Meta[x].ver <= installed[i] /\ Meta[x].ver \in Nat
            BY <1>1, <1>6, <3>1, PackFacts
        <3>. QED  BY <1>4, <3>2
    <2>. QED  BY <2>1, <2>2
<1>7. c.current <= Versions(rev)[i]
    <2>1. CASE c.packs # {}
        <3>1. PICK p \in c.packs : Meta[p].ver = c.current
            BY <1>4, <2>1
        <3>2. p \in rev /\ Meta[p].id = i
            BY <1>2, <3>1 DEF Revision
        <3>. QED  BY <1>5, <3>1, <3>2
    <2>2. CASE c.packs = {} /\ installed[i] = 0
        BY <1>4, <1>5, <2>2
    <2>3. CASE c.packs = {} /\ installed[i] # 0
        <3>1. PICK x \in Live(s, vs) : Meta[x].id = i /\ Meta[x].ver = installed[i]
            BY <1>1, <2>3
        <3>2. \A p \in batch : Meta[p].id # i
            BY <1>2, <2>3
        <3>3. x \in Inherited(s, vs, batch)
            BY <1>1, <3>1, <3>2
        <3>4. x \in rev
            BY <3>3 DEF Revision
        <3>. QED  BY <1>4, <1>5, <2>3, <3>1, <3>4
    <2>. QED  BY <2>1, <2>2, <2>3
<1>8. Versions(rev)[i] <= c.current
    <2>1. CASE Versions(rev)[i] = 0
        BY <1>4, <2>1
    <2>2. CASE Versions(rev)[i] # 0
        <3>1. PICK x \in rev : Meta[x].id = i /\ Meta[x].ver = Versions(rev)[i]
            BY <1>5, <2>2
        <3>. QED  BY <1>6, <3>1
    <2>. QED  BY <2>1, <2>2
<1>9. Versions(rev)[i] = c.current
    BY <1>4, <1>5, <1>7, <1>8
<1>. QED  BY <1>3, <1>9 DEF rev, batch, c, installed

(***************************************************************************)
(* One update is enough: once a plan is staged and acknowledged, the same  *)
(* channel has nothing more to fetch, whatever it lists and however its    *)
(* patches branch.  It is property PlanConverges.                          *)
(***************************************************************************)
THEOREM PlansAlwaysConverge == OneBuildEach => (PluginSpec => []PlanConverges)
<1>. SUFFICES ASSUME OneBuildEach PROVE PluginSpec => []PlanConverges
    OBVIOUS
<1>1. PluginInv => PlanConverges
    <2>. SUFFICES ASSUME PluginInv, InstalledIsLive, NEW offer \in Channels
                  PROVE  LET batch == PlanNow(offer)
                             after == RaiseVersionFloor([state EXCEPT
                                         !.committed = Revision(state, verdicts, batch),
                                         !.booting = NoRev,
                                         !.pointer = "committed"])
                         IN  Plan(offer, verdicts, InstalledVersions(after, verdicts), after.floor) = {}
        BY DEF PlanConverges
    <2>. DEFINE batch == PlanNow(offer)
                rev == Revision(state, verdicts, batch)
                new == [state EXCEPT !.committed = rev, !.booting = NoRev, !.pointer = "committed"]
                after == RaiseVersionFloor(new)
                usable == Usable(offer, verdicts)
                installed == Versions(Live(state, verdicts))
                later == InstalledVersions(after, verdicts)
    <2>1. batch = Plan(offer, verdicts, installed, state.floor)
        BY DEF PlanNow, InstalledIsLive
    <2>2. /\ offer \in SUBSET Packs /\ Base(state) /\ state.floor \in [Ids -> Nat]
          /\ state \in States /\ installed \in [Ids -> Nat]
        BY PluginAssumption, SoundFacts, LiveFacts DEF PluginInv, TypeInv, Sound, Base
    <2>. HIDE DEF installed, batch, later, after
    <2>3. /\ \A i \in Ids : Versions(rev)[i] = ChosenOf(usable, installed, state.floor, i).current
          /\ \A i \in Ids : rev \subseteq Packs
        BY <2>1, <2>2, StagedIsChosen DEF installed
    <2>4. rev \subseteq Packs /\ \A p \in rev : ~Blocks(verdicts, p)
        <3>1. PlanOf(batch, usable, installed, state.floor)
            BY <2>1, <2>2, PlanIs
        <3>2. \A p \in batch : p \in Packs /\ ~Blocks(verdicts, p)
            BY <3>1 DEF PlanOf, Usable
        <3>. QED  BY <2>2, <3>2 DEF Revision, Inherited, Base
    <2>5. after.committed = rev /\ after.booting = NoRev
          /\ after.floor = Raise(state.floor, {Release(p) : p \in rev})
        <3>0. {"committed", "booting", "floor", "pointer"} \subseteq DOMAIN state
            BY <2>2 DEF States
        <3>1. /\ new.committed = rev /\ new.booting = NoRev /\ new.floor = state.floor
              /\ {"committed", "booting", "floor"} \subseteq DOMAIN new
            <4>. HIDE DEF rev
            <4>. QED  BY <3>0
        <3>2. Layers(rev) = rev
            BY <2>4, RevisionLayers DEF Revisions
        <3>. HIDE DEF new, rev
        <3>3. after = [new EXCEPT !.floor = Raise(new.floor, {Release(p) : p \in Layers(new.committed)})]
            BY DEF after, RaiseVersionFloor
        <3>. QED  BY <3>1, <3>2, <3>3
    <2>6. later = Versions(rev)
        <3>1. Layers(after.committed) \cup Layers(after.booting) = rev
            BY <2>4, <2>5, RevisionLayers DEF Revisions
        <3>. HIDE DEF rev
        <3>2. InstalledLayers(after, verdicts) = rev
            BY <2>4, <3>1 DEF InstalledLayers
        <3>. QED  BY <3>2 DEF later, InstalledVersions
    <2>. HIDE DEF rev
    <2>7. /\ after.floor \in [Ids -> Nat]
          /\ \A i \in Ids : after.floor[i] >= state.floor[i]
        <3>1. {Release(p) : p \in rev} \in SUBSET (Ids \X Nat)
            <4>1. \A p \in Packs : Release(p) \in Ids \X Nat
                BY PackFacts
            <4>. QED  BY <2>4, <4>1
        <3>. QED  BY <2>2, <2>5, <3>1, RaiseIs
    <2>8. later \in [Ids -> Nat]
        BY <2>4, <2>6, VersionsIs, LatestIs
    <2>9. PlanOf(Plan(offer, verdicts, later, after.floor), usable, later, after.floor)
        BY <2>2, <2>7, <2>8, PlanIs
    <2>10. ASSUME NEW i \in Ids PROVE ChosenOf(usable, later, after.floor, i).packs = {}
        <3>1. Asked(usable, later, after.floor, i)
            BY <2>9 DEF PlanOf
        <3>2. Asked(usable, installed, state.floor, i)
            BY <2>2 DEF Asked, Usable
        <3>3. later[i] = ChosenOf(usable, installed, state.floor, i).current
            BY <2>3, <2>6
        <3>4. state.floor[i] <= after.floor[i]
            BY <2>2, <2>7
        <3>. QED  BY <3>1, <3>2, <3>3, <3>4, NothingMore
    <2>11. Plan(offer, verdicts, later, after.floor) = {}
        BY <2>9, <2>10 DEF PlanOf
    <2>. QED  BY <2>11 DEF later, after, rev, batch
<1>. QED  BY <1>1, PluginInvAlways, PTL


-----------------------------------------------------------------------------
(***************************************************************************)
(* A way forward is found.                                                 *)
(***************************************************************************)
\* The parent of a new patch lies right under it.
LEMMA ParentRight ==
    ASSUME NEW layers, NEW batch \in SUBSET Packs, ParentsMatch(layers, batch),
           NEW q \in batch, IsPatch(q)
    PROVE  /\ Meta[q].parent \in layers
           /\ ~\E o \in layers : /\ Meta[o].id = Meta[q].id
                                 /\ Below(Meta[q].parent, o, batch)
                                 /\ Below(o, q, batch)
<1>1. Meta[q].parent # NoPack
    BY ParentFacts, PackFacts
<1>. QED  BY <1>1 DEF ParentsMatch

\* A patch ends no higher than its parent does.
LEMMA EndsBelow ==
    ASSUME NEW usable \in SUBSET Packs, NEW id, NEW q \in usable, IsPatch(q), Meta[q].id = id
    PROVE  LET ends == Terminals(usable, id)
           IN  /\ ends[Meta[q].ver] \in Nat /\ ends[Meta[Meta[q].parent].ver] \in Nat
               /\ ends[Meta[q].ver] <= ends[Meta[Meta[q].parent].ver]
<1>. DEFINE ends == Terminals(usable, id)
            o == Meta[q].parent
<1>1. o \in Packs /\ Meta[o].ver < Meta[q].ver /\ ParentCode(q) = Meta[o].ver
    BY ParentFacts
<1>2. Meta[q].ver \in 0 .. Latest /\ Meta[o].ver \in 0 .. Latest
    BY <1>1, LatestIs
<1>3. q \in Onward(usable, id, Meta[o].ver)
    BY <1>1, <1>2 DEF Onward
<1>4. Ends(ends, usable, id)
    BY TerminalsAre
<1>5. ends \in [0 .. Latest -> 0 .. Latest] /\ ends[Meta[q].ver] <= ends[Meta[o].ver]
    BY <1>2, <1>3, <1>4 DEF Ends
<1>. HIDE DEF ends
<1>6. ends[Meta[q].ver] \in 0 .. Latest /\ ends[Meta[o].ver] \in 0 .. Latest /\ Latest \in Nat
    BY <1>2, <1>5, LatestIs
<1>7. ends[Meta[q].ver] \in Nat /\ ends[Meta[o].ver] \in Nat
    BY <1>6
<1>. QED  BY <1>5, <1>7 DEF ends

\* When some packs can be staged and replace nothing by an older one, then a
\* base or dlc among those of an id reaches the floor, or their lowest patch
\* does and sits on what is installed.
WayForward(batch, usable, installed, floor, id) ==
    \/ \E q \in batch : Replaces(usable, installed, floor, id, q)
    \/ \E m \in batch :
          /\ m \in usable /\ Meta[m].id = id /\ IsPatch(m)
          /\ ParentCode(m) = installed[id] /\ Meta[m].ver > installed[id]
          /\ ReachesFloor(Terminals(usable, id), floor, m)

LEMMA WayIs ==
    ASSUME OneBuildEach, NEW offer \in SUBSET Packs, NEW s, NEW vs, Base(s),
           NEW batch \in SUBSET Usable(offer, vs), NEW first \in batch,
           \A p \in batch : Meta[p].ver > Versions(Live(s, vs))[Meta[p].id],
           Stageable(s, vs, batch)
    PROVE  WayForward(batch, Usable(offer, vs), Versions(Live(s, vs)), s.floor, Meta[first].id)
<1>. DEFINE usable == Usable(offer, vs)
            installed == Versions(Live(s, vs))
            id == Meta[first].id
            start == installed[id]
            rev == Revision(s, vs, batch)
            new == {q \in batch : Meta[q].id = id}
            ends == Terminals(usable, id)
            end(p) == ends[Meta[p].ver]
            floor == s.floor[id]
<1>1. /\ Live(s, vs) \in SUBSET Packs
      /\ \A x \in Live(s, vs) : Meta[x].ver <= installed[Meta[x].id]
      /\ \A i \in Ids : installed[i] \in Nat
      /\ \A i \in Ids : installed[i] = 0 \/
            \E x \in Live(s, vs) : Meta[x].id = i /\ Meta[x].ver = installed[i]
      /\ Inherited(s, vs, batch) =
            {p \in Live(s, vs) \ batch :
                ~\E q \in batch : Meta[q].id = Meta[p].id /\ ~IsPatch(q)}
    BY LiveFacts
<1>2. usable \in SUBSET Packs /\ (\A p \in usable : Meta[p].kind # "mod")
      /\ batch \subseteq usable
    BY DEF Usable
<1>3. \A p \in batch : Meta[p].ver > installed[Meta[p].id]
    OBVIOUS
<1>4. ParentsMatch(rev, batch) /\ FloorsReached(s, rev, batch)
    BY DEF Stageable, RevisionAccepted
<1>5. id \in Ids /\ floor \in Nat /\ start \in Nat /\ first \in new
    BY <1>1, <1>2, PackFacts DEF Base
<1>6. PICK x \in rev : Meta[x].id = id /\ Meta[x].ver >= floor
    BY <1>4 DEF FloorsReached
<1>. HIDE DEF usable, installed
<1>7. ASSUME NEW o \in rev, Meta[o].id = id
      PROVE  /\ o \in Packs /\ Meta[o].ver \in Nat
             /\ o \in new \/ /\ o \in Live(s, vs) /\ Meta[o].ver <= start
                             /\ \A q \in new : IsPatch(q)
    <2>1. CASE o \in batch
        BY <1>2, <1>7, <2>1, PackFacts
    <2>2. CASE o \notin batch
        <3>1. o \in Inherited(s, vs, batch)
            BY <2>2 DEF Revision
        <3>. QED  BY <1>1, <1>7, <3>1, PackFacts
    <2>. QED  BY <2>1, <2>2
<1>8. ASSUME NEW q \in new
      PROVE  /\ q \in Packs /\ q \in usable /\ q \in batch /\ Meta[q].id = id
             /\ Meta[q].ver \in Nat /\ Meta[q].ver > start /\ Meta[q].ver \in 0 .. Latest
             /\ q \in rev
    BY <1>2, <1>3, PackFacts, LatestIs DEF Revision
<1>9. ASSUME NEW q \in new
      PROVE  end(q) \in Nat /\ Meta[q].ver <= end(q)
    <2>1. Ends(ends, usable, id)
        BY <1>2, TerminalsAre
    <2>2. end(q) \in 0 .. Latest /\ Meta[q].ver <= end(q) /\ Latest \in Nat
        BY <1>8, <2>1, LatestIs DEF Ends
    <2>. QED  BY <2>2
<1>10. ASSUME NEW q \in new, IsPatch(q)
       PROVE  LET o == Meta[q].parent
              IN  /\ o \in rev /\ o \in Packs /\ Meta[o].id = id
                  /\ Meta[o].ver \in Nat \ {0} /\ Meta[o].ver < Meta[q].ver
                  /\ Meta[o].kind \in {"base", "patch"} /\ ParentCode(q) = Meta[o].ver
                  /\ end(q) <= end(o) /\ end(o) \in Nat
                  /\ ~\E y \in rev : Meta[y].id = id /\ Below(o, y, batch) /\ Below(y, q, batch)
    <2>1. batch \in SUBSET Packs
        BY <1>2
    <2>2. /\ Meta[q].parent \in rev
          /\ ~\E y \in rev : /\ Meta[y].id = id
                             /\ Below(Meta[q].parent, y, batch) /\ Below(y, q, batch)
        BY <1>4, <1>8, <1>10, <2>1, ParentRight
    <2>3. end(q) <= end(Meta[q].parent) /\ end(Meta[q].parent) \in Nat
        BY <1>2, <1>8, <1>10, EndsBelow
    <2>. QED  BY <1>8, <1>10, <2>2, <2>3, ParentFacts
<1>11. ASSUME NEW q \in new, floor <= end(q), Meta[q].kind # "dlc"
       PROVE  ReachesFloor(ends, s.floor, q)
    BY <1>8, <1>11, PackFacts DEF ReachesFloor, LayerRank, Kinds, Usable, usable
<1>. HIDE DEF ends, rev, new, floor, start, id
\* The new base or dlc is the whole of what the id will hold.
<1>12. ASSUME NEW b \in new, ~IsPatch(b)
       PROVE  \E d \in new : ~IsPatch(d) /\ ReachesFloor(ends, s.floor, d)
    <2>. DEFINE Reached(y) == \E d \in new : Meta[d].kind = "base" /\ end(y) <= end(d)
                T == {n \in Nat : \A y \in new :
                        Meta[y].ver = n /\ Meta[y].kind \in {"base", "patch"} => Reached(y)}
    <2>1. ASSUME NEW o \in rev, Meta[o].id = id PROVE o \in new
        BY <1>7, <1>12, <2>1
    <2>2. Latest \in Nat
        BY LatestIs
    <2>3. ASSUME NEW n \in 0 .. Latest, \A m \in 0 .. n - 1 : m \in T PROVE n \in T
        <3>. SUFFICES ASSUME NEW y \in new, Meta[y].ver = n, Meta[y].kind \in {"base", "patch"}
                      PROVE  Reached(y)
            OBVIOUS
        <3>1. CASE Meta[y].kind = "base"
            <4>1. end(y) <= end(y)
                BY <1>9
            <4>. QED  BY <3>1, <4>1
        <3>2. CASE IsPatch(y)
            <4>. DEFINE o == Meta[y].parent
            <4>1. /\ o \in rev /\ Meta[o].id = id /\ Meta[o].ver \in Nat /\ Meta[o].ver < n
                  /\ Meta[o].kind \in {"base", "patch"} /\ end(y) <= end(o)
                BY <1>10, <3>2
            <4>2. o \in new
                BY <2>1, <4>1
            <4>3. Meta[o].ver \in T
                BY <2>3, <4>1
            <4>. HIDE DEF o
            <4>4. PICK d \in new : Meta[d].kind = "base" /\ end(o) <= end(d)
                BY <4>1, <4>2, <4>3
            <4>5. end(y) \in Nat /\ end(o) \in Nat /\ end(d) \in Nat
                BY <1>9, <4>2
            <4>6. end(y) <= end(d)
                BY <4>1, <4>4, <4>5
            <4>. QED  BY <4>4, <4>6
        <3>. QED  BY <3>1, <3>2 DEF IsPatch
    <2>4. x \in new
        BY <1>6, <2>1
    <2>5. CASE Meta[x].kind = "dlc"
        <3>1. ReachesFloor(ends, s.floor, x) /\ ~IsPatch(x)
            BY <1>6, <2>5 DEF ReachesFloor, LayerRank, IsPatch, floor
        <3>. QED  BY <2>4, <3>1
    <2>6. CASE Meta[x].kind # "dlc"
        <3>1. Meta[x].kind \in {"base", "patch"} /\ Meta[x].ver \in 0 .. Latest
            BY <1>2, <1>8, <2>4, <2>6, PackFacts DEF Kinds
        <3>2. Meta[x].ver \in T
            <4>. HIDE DEF T
            <4>1. \A n \in 0 .. Latest : n \in T
                BY <2>2, <2>3, FromBelow
            <4>. QED  BY <3>1, <4>1
        <3>3. PICK d \in new : Meta[d].kind = "base" /\ end(x) <= end(d)
            BY <2>4, <3>1, <3>2
        <3>4. floor <= end(d)
            <4>1. end(d) \in Nat /\ end(x) \in Nat /\ Meta[x].ver <= end(x) /\ Meta[x].ver \in Nat
                BY <1>8, <1>9, <2>4
            <4>. QED  BY <1>5, <1>6, <3>3, <4>1
        <3>. QED  BY <1>11, <3>3, <3>4 DEF IsPatch
    <2>. QED  BY <2>5, <2>6
\* Patches only, on what is installed.
<1>13. ASSUME \A q \in new : IsPatch(q)
       PROVE  \E m \in new : /\ ParentCode(m) = start
                             /\ ReachesFloor(ends, s.floor, m)
    <2>1. PICK m \in new : \A q \in new : Meta[m].ver <= Meta[q].ver
        <3>1. new \in SUBSET Packs /\ new # {}
            BY <1>5, <1>8
        <3>. QED  BY <3>1, LowestIs
    <2>. DEFINE o == Meta[m].parent
                T == {n \in Nat : \A y \in new : Meta[y].ver = n => end(y) <= end(m)}
    <2>2. /\ m \in Packs /\ IsPatch(m) /\ Meta[m].ver \in Nat /\ Meta[m].ver > start
          /\ Meta[m].id = id
        BY <1>8, <1>13
    <2>3. /\ o \in rev /\ o \in Packs /\ Meta[o].id = id
          /\ Meta[o].ver \in Nat \ {0} /\ Meta[o].ver < Meta[m].ver
          /\ Meta[o].kind \in {"base", "patch"} /\ ParentCode(m) = Meta[o].ver
          /\ ~\E y \in rev : Meta[y].id = id /\ Below(o, y, batch) /\ Below(y, m, batch)
        BY <1>10, <2>2
    <2>. HIDE DEF o
    <2>4. o \notin new /\ o \in Live(s, vs) /\ Meta[o].ver <= start
        BY <1>7, <2>1, <2>2, <2>3
    <2>5. Meta[o].ver = start
        <3>. SUFFICES ASSUME Meta[o].ver # start PROVE FALSE
            OBVIOUS
        <3>1. PICK y \in Live(s, vs) : Meta[y].id = id /\ Meta[y].ver = start
            <4>1. start # 0
                BY <1>5, <2>3, <2>4
            <4>. QED  BY <1>1, <1>5, <4>1 DEF start
        <3>2. y \notin batch
            BY <1>5, <1>8, <3>1 DEF new
        <3>3. y \in rev
            <4>1. y \in Inherited(s, vs, batch)
                BY <1>1, <1>13, <3>1, <3>2 DEF new
            <4>. QED  BY <4>1 DEF Revision, rev
        <3>4. IsPatch(y) /\ y \in Packs
            <4>1. o \in Active(s) /\ y \in Active(s) /\ Meta[o].ver < Meta[y].ver
                BY <1>5, <2>3, <2>4, <3>1 DEF Live
            <4>. QED  BY <1>1, <2>3, <3>1, <4>1 DEF Base, Ordered
        <3>5. Below(o, y, batch)
            BY <1>5, <2>3, <2>4, <3>1, <3>4, BelowIs
        <3>6. Below(y, m, batch)
            BY <2>2, <3>1, <3>4, BelowIs DEF IsPatch
        <3>. QED  BY <2>3, <3>1, <3>3, <3>5, <3>6
    <2>6. ASSUME NEW n \in 0 .. Latest, \A k \in 0 .. n - 1 : k \in T PROVE n \in T
        <3>. SUFFICES ASSUME NEW y \in new, Meta[y].ver = n PROVE end(y) <= end(m)
            OBVIOUS
        <3>1. CASE y = m
            BY <1>9, <3>1
        <3>2. CASE y # m
            <4>. DEFINE u == Meta[y].parent
            <4>1. /\ u \in rev /\ u \in Packs /\ Meta[u].id = id /\ Meta[u].ver \in Nat
                  /\ Meta[u].ver < n /\ end(y) <= end(u) /\ end(u) \in Nat
                  /\ Meta[u].kind \in {"base", "patch"}
                  /\ ~\E z \in rev : Meta[z].id = id /\ Below(u, z, batch) /\ Below(z, y, batch)
                BY <1>10, <1>13
            <4>2. y \in Packs /\ IsPatch(y) /\ Meta[y].ver > Meta[m].ver /\ m \in rev
                <5>1. y \in Packs /\ Meta[y].id = id /\ Meta[y].ver \in Nat /\ IsPatch(y)
                    BY <1>8, <1>13
                <5>2. Meta[y].ver # Meta[m].ver
                    BY <2>2, <3>2, <5>1, SameVersion
                <5>. QED  BY <1>8, <2>1, <2>2, <5>1, <5>2
            <4>. HIDE DEF u
            <4>3. u \in new
                <5>. SUFFICES ASSUME u \notin new PROVE FALSE
                    OBVIOUS
                <5>1. Meta[u].ver <= start
                    BY <1>7, <4>1
                <5>2. Meta[u].ver < Meta[m].ver
                    BY <1>5, <2>2, <4>1, <5>1
                <5>3. Below(u, m, batch) /\ Below(m, y, batch)
                    BY <2>2, <4>1, <4>2, <5>2, BelowIs DEF IsPatch
                <5>. QED  BY <2>2, <4>1, <4>2, <5>3
            <4>4. Meta[u].ver \in T
                BY <2>6, <4>1
            <4>5. end(u) <= end(m)
                BY <4>3, <4>4
            <4>6. end(y) \in Nat /\ end(m) \in Nat
                BY <1>9
            <4>. QED  BY <4>1, <4>5, <4>6
        <3>. QED  BY <3>1, <3>2
    <2>7. \A y \in new : end(y) <= end(m)
        <3>1. Latest \in Nat
            BY LatestIs
        <3>2. \A n \in 0 .. Latest : n \in T
            <4>. HIDE DEF T
            <4>. QED  BY <2>6, <3>1, FromBelow
        <3>. SUFFICES ASSUME NEW y \in new PROVE end(y) <= end(m)
            OBVIOUS
        <3>3. Meta[y].ver \in T
            BY <1>8, <3>2
        <3>. QED  BY <3>3
    <2>. HIDE DEF T
    <2>8. floor <= end(m)
        <3>0. end(m) \in Nat /\ Meta[m].ver <= end(m)
            BY <1>9
        <3>1. CASE x \in new
            <4>1. end(x) \in Nat /\ Meta[x].ver <= end(x) /\ end(x) <= end(m) /\ Meta[x].ver \in Nat
                BY <1>8, <1>9, <2>7, <3>1
            <4>. QED  BY <1>5, <1>6, <3>0, <4>1
        <3>2. CASE x \notin new
            <4>1. Meta[x].ver <= start /\ Meta[x].ver \in Nat
                BY <1>6, <1>7, <3>2
            <4>. QED  BY <1>5, <1>6, <2>2, <3>0, <4>1
        <3>. QED  BY <3>1, <3>2
    <2>9. ReachesFloor(ends, s.floor, m)
        BY <1>11, <1>13, <2>8 DEF IsPatch
    <2>. QED  BY <2>3, <2>5, <2>9
<1>14. CASE \A q \in new : IsPatch(q)
    <2>1. PICK m \in new : ParentCode(m) = start /\ ReachesFloor(ends, s.floor, m)
        BY <1>13, <1>14
    <2>2. /\ m \in batch /\ m \in usable /\ Meta[m].id = id /\ IsPatch(m)
          /\ ParentCode(m) = installed[id] /\ Meta[m].ver > installed[id]
          /\ ReachesFloor(Terminals(usable, id), s.floor, m)
        BY <1>8, <1>14, <2>1 DEF start, ends
    <2>. QED  BY <2>2 DEF WayForward, id, usable, installed
<1>15. CASE ~\A q \in new : IsPatch(q)
    <2>1. PICK d \in new : ~IsPatch(d) /\ ReachesFloor(ends, s.floor, d)
        BY <1>12, <1>15
    <2>2. d \in batch /\ Replaces(usable, installed, s.floor, id, d)
        BY <1>8, <2>1 DEF Replaces, start, ends
    <2>. QED  BY <2>2 DEF WayForward, id, usable, installed
<1>. QED  BY <1>14, <1>15

(***************************************************************************)
(* If some packs of a channel can be staged and advance an id, replacing   *)
(* nothing by an older base on the way, the planner finds some to fetch.   *)
(* It is property PlanFindsAWay.                                           *)
(***************************************************************************)
THEOREM PlansAlwaysFindAWay == OneBuildEach => (PluginSpec => []PlanFindsAWay)
<1>. SUFFICES ASSUME OneBuildEach PROVE PluginSpec => []PlanFindsAWay
    OBVIOUS
<1>1. PluginInv => PlanFindsAWay
    <2>. SUFFICES ASSUME PluginInv, InstalledIsLive, NEW offer \in Channels,
                         \E batch \in (SUBSET Usable(offer, verdicts)) \ {{}} :
                             Advances(batch) /\ Stageable(state, verdicts, batch)
                  PROVE  HasWork(PlanNow(offer))
        BY DEF PlanFindsAWay
    <2>0. PICK batch \in (SUBSET Usable(offer, verdicts)) \ {{}} :
                Advances(batch) /\ Stageable(state, verdicts, batch)
        OBVIOUS
    <2>. DEFINE usable == Usable(offer, verdicts)
                installed == Versions(Live(state, verdicts))
                found == PlanNow(offer)
    <2>1. found = Plan(offer, verdicts, installed, state.floor)
        BY DEF PlanNow, InstalledIsLive
    <2>2. /\ offer \in SUBSET Packs /\ Base(state) /\ state.floor \in [Ids -> Nat]
          /\ installed \in [Ids -> Nat]
        BY PluginAssumption, SoundFacts, LiveFacts DEF PluginInv, TypeInv, Sound, Base
    <2>3. PICK first \in batch : TRUE
        <3>1. batch # {}
            BY <2>0
        <3>. QED  BY <3>1
    <2>. DEFINE i == Meta[first].id
                c == ChosenOf(usable, installed, state.floor, i)
    <2>4. WayForward(batch, usable, installed, state.floor, i)
        BY <2>0, <2>2, WayIs DEF Advances, InstalledIsLive
    <2>5. i \in Ids
        BY <2>2, PackFacts DEF Usable
    <2>. HIDE DEF installed, found, usable
    <2>6. PlanOf(found, usable, installed, state.floor)
        BY <2>1, <2>2, PlanIs DEF usable
    <2>7. /\ Asked(usable, installed, state.floor, i)
          /\ WellChosen(c, usable, installed, state.floor, i)
          /\ c.packs \subseteq found
        BY <2>5, <2>6 DEF PlanOf
    <2>8. c.packs # {}
        <3>. SUFFICES ASSUME c.packs = {} PROVE FALSE
            OBVIOUS
        <3>1. /\ c.current = installed[i] /\ installed[i] \in Nat
              /\ NewestOf(usable, installed, state.floor, i) \in Nat
              /\ NewestOf(usable, installed, state.floor, i) <= installed[i]
            BY <2>2, <2>5, <2>7, NewestIs DEF WellChosen
        <3>2. ASSUME NEW q, Replaces(usable, installed, state.floor, i, q) PROVE FALSE
            <4>1. /\ Meta[q].ver <= NewestOf(usable, installed, state.floor, i)
                  /\ Meta[q].ver > installed[i] /\ q \in Packs
                BY <2>7, <3>2, NewestIs DEF Replaces, Asked
            <4>. QED  BY <3>1, <4>1, PackFacts
        <3>3. ASSUME NEW m \in usable, Meta[m].id = i, IsPatch(m),
                     ParentCode(m) = installed[i], Meta[m].ver > installed[i],
                     ReachesFloor(Terminals(usable, i), state.floor, m)
              PROVE  FALSE
            <4>1. m \in EligibleOf(usable, installed, state.floor, i)
                BY <2>7, <3>1, <3>3, EligibleAre
            <4>2. ~Follows(m, c.current)
                BY <2>7, <4>1, EligibleAre, NothingLeft DEF ChosenOf
            <4>. QED  BY <3>1, <3>3, <4>2 DEF Follows
        <3>. QED  BY <2>4, <3>2, <3>3 DEF WayForward
    <2>9. found # {} /\ NoPack \notin found
        BY <2>6, <2>7, <2>8, PackFacts DEF PlanOf
    <2>. QED  BY <2>9 DEF HasWork, NoPlan, NothingToFetch, found
<1>. QED  BY <1>1, PluginInvAlways, PTL
=============================================================================
