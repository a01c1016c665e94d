-------------------------- MODULE SelectionProofs ---------------------------
(***************************************************************************)
(* Proofs about lists and the recursive functions along them: induction up *)
(* to a bound, by a smallest counterexample, and what Kept keeps.          *)
(***************************************************************************)
EXTENDS Selections, TLAPS, WellFoundedInduction

-----------------------------------------------------------------------------
(***************************************************************************)
(* What Kept keeps: the chosen places of a list, all of them, each once    *)
(* and in their order.                                                     *)
(***************************************************************************)
Less == {pair \in Nat \X Nat : pair[1] < pair[2]}

LEMMA SmallestExists ==
    ASSUME NEW T \in SUBSET Nat, T # {}
    PROVE  \E n \in T : \A m \in T : n <= m
<1>1. IsWellFoundedOn(Less, Nat)
    BY NatLessThanWellFounded DEF OpToRel, Less
<1>2. PICK n \in T : \A m \in T : ~(<<m, n>> \in Less)
    BY <1>1, WFMin
<1>3. ASSUME NEW m \in T PROVE n <= m
    <2>1. n \in Nat /\ m \in Nat /\ ~(m < n)
        BY <1>2, <1>3 DEF Less
    <2>. QED  BY <2>1
<1>. QED  BY <1>3

\* Induction up to a bound, over the places where something holds.
LEMMA UpTo ==
    ASSUME NEW top \in Nat, NEW T, 0 \in T, \A n \in 0 .. top : n \in T /\ n < top => n + 1 \in T
    PROVE  \A n \in 0 .. top : n \in T
<1>. SUFFICES ASSUME NEW k \in 0 .. top, k \notin T PROVE FALSE
    OBVIOUS
<1>. DEFINE Out == {n \in 0 .. top : n \notin T}
<1>1. PICK n \in Out : \A m \in Out : n <= m
    <2>1. Out \in SUBSET Nat /\ Out # {}
        OBVIOUS
    <2>. HIDE DEF Out
    <2>. QED  BY <2>1, SmallestExists
<1>2. n - 1 \in 0 .. top /\ n - 1 \in T /\ n - 1 < top
    BY <1>1
<1>. QED  BY <1>1, <1>2

LEMMA FromBelow ==
    ASSUME NEW top \in Nat, NEW T, \A n \in 0 .. top : (\A m \in 0 .. n - 1 : m \in T) => n \in T
    PROVE  \A n \in 0 .. top : n \in T
<1>. SUFFICES ASSUME NEW k \in 0 .. top, k \notin T PROVE FALSE
    OBVIOUS
<1>. DEFINE Out == {n \in 0 .. top : n \notin T}
<1>1. PICK n \in Out : \A m \in Out : n <= m
    <2>1. Out \in SUBSET Nat /\ Out # {}
        OBVIOUS
    <2>. HIDE DEF Out
    <2>. QED  BY <2>1, SmallestExists
<1>2. \A m \in 0 .. n - 1 : m \in T
    BY <1>1
<1>. QED  BY <1>1, <1>2

LEMMA LargestExists ==
    ASSUME NEW top \in Nat, NEW T \in SUBSET (0 .. top), T # {}
    PROVE  \E n \in T : \A m \in T : n >= m
<1>. DEFINE Left == {k \in 0 .. top : top - k \in T}
<1>0. \A n \in T : top - n \in 0 .. top /\ top - (top - n) = n
    OBVIOUS
<1>1. Left \in SUBSET Nat /\ \A n \in T : top - n \in Left
    BY <1>0
<1>2. PICK k \in Left : \A m \in Left : k <= m
    <2>1. Left # {}
        BY <1>1
    <2>. HIDE DEF Left
    <2>. QED  BY <1>1, <2>1, SmallestExists
<1>3. ASSUME NEW m \in T PROVE top - k >= m
    <2>1. top - m \in Left /\ m \in 0 .. top /\ k \in 0 .. top
        BY <1>1, <1>2, <1>3
    <2>2. k <= top - m
        BY <1>2, <2>1
    <2>. QED  BY <2>1, <2>2
<1>. QED  BY <1>2, <1>3

\* Lists, and what is put at their end.
LEMMA WiderSeq ==
    ASSUME NEW S, NEW T, S \subseteq T, NEW list \in Seq(S)
    PROVE  list \in Seq(T)
OBVIOUS

LEMMA AppendFacts ==
    ASSUME NEW S, NEW list \in Seq(S), NEW x \in S
    PROVE  LET more == Append(list, x)
           IN  /\ more \in Seq(S) /\ more # <<>>
               /\ Len(more) = Len(list) + 1 /\ Len(list) \in Nat /\ Len(more) \in Nat
               /\ DOMAIN list = 1 .. Len(list) /\ DOMAIN more = 1 .. Len(more)
               /\ more[Len(more)] = x
               /\ \A i \in 1 .. Len(list) : more[i] = list[i]
OBVIOUS

LEMMA SubSeqFacts ==
    ASSUME NEW S, NEW list \in Seq(S), NEW n \in 0 .. Len(list)
    PROVE  LET first == SubSeq(list, 1, n)
               rest  == SubSeq(list, n + 1, Len(list))
           IN  /\ first \in Seq(S) /\ Len(first) = n
               /\ \A k \in 1 .. n : first[k] = list[k]
               /\ rest \in Seq(S) /\ Len(rest) = Len(list) - n
               /\ \A k \in 1 .. Len(list) - n : rest[k] = list[n + k]
<1>1. /\ SubSeq(list, 1, n) = [k \in 1 .. n |-> list[k]]
      /\ SubSeq(list, n + 1, Len(list)) = [k \in 1 .. Len(list) - n |-> list[n + k]]
    OBVIOUS
<1>. QED  BY <1>1

LEMMA ConcatFacts ==
    ASSUME NEW S, NEW first \in Seq(S), NEW rest \in Seq(S)
    PROVE  LET whole == first \o rest
           IN  /\ whole \in Seq(S) /\ Len(whole) = Len(first) + Len(rest)
               /\ \A k \in 1 .. Len(first) : whole[k] = first[k]
               /\ \A k \in 1 .. Len(rest) : whole[Len(first) + k] = rest[k]
OBVIOUS

-----------------------------------------------------------------------------
\* The recursion has a solution.
IsThinned(P, list, places, top) ==
    P = [n \in 0 .. top |->
            IF n = 0 THEN <<>>
            ELSE IF n \in places THEN Append(P[n - 1], list[n])
            ELSE P[n - 1]]

LEMMA ThinnedDefined ==
    ASSUME NEW list, Len(list) \in Nat, NEW places
    PROVE  IsThinned(Thinned(list, places), list, places, Len(list))
<1>. DEFINE T == {n \in Nat : \E P : IsThinned(P, list, places, n)}
<1>1. 0 \in T
    <2>1. IsThinned([n \in 0 .. 0 |-> <<>>], list, places, 0)
        BY DEF IsThinned
    <2>. QED  BY <2>1
<1>2. ASSUME NEW n \in Nat, n \in T PROVE n + 1 \in T
    <2>1. PICK P : IsThinned(P, list, places, n)
        BY <1>2
    <2>. DEFINE next == IF n + 1 \in places THEN Append(P[n], list[n + 1]) ELSE P[n]
                Q == [m \in 0 .. n + 1 |-> IF m = n + 1 THEN next ELSE P[m]]
    <2>2. ASSUME NEW m \in 0 .. n + 1
          PROVE  Q[m] = IF m = 0 THEN <<>>
                        ELSE IF m \in places THEN Append(Q[m - 1], list[m])
                        ELSE Q[m - 1]
        <3>1. CASE m = n + 1
            BY <3>1
        <3>2. CASE m # n + 1
            <4>1. m \in 0 .. n /\ Q[m] = P[m] /\ (m # 0 => Q[m - 1] = P[m - 1])
                BY <3>2
            <4>. HIDE DEF Q
            <4>. QED  BY <2>1, <4>1 DEF IsThinned
        <3>. QED  BY <3>1, <3>2
    <2>3. Q = [m \in 0 .. n + 1 |-> Q[m]]
        OBVIOUS
    <2>. HIDE DEF Q
    <2>4. IsThinned(Q, list, places, n + 1)
        BY <2>2, <2>3 DEF IsThinned
    <2>. QED  BY <2>4
<1>3. Len(list) \in T
    <2>1. \A n \in 0 .. Len(list) : n \in T /\ n < Len(list) => n + 1 \in T
        BY <1>2
    <2>2. Len(list) \in 0 .. Len(list)
        OBVIOUS
    <2>. HIDE DEF T
    <2>. QED  BY <1>1, <2>1, <2>2, UpTo
<1>4. \E P : IsThinned(P, list, places, Len(list))
    BY <1>3
<1>. QED  BY <1>4 DEF Thinned, IsThinned

-----------------------------------------------------------------------------
\* What the first n places of a list are reduced to, told by where each of
\* those that stay comes from.
Picks(place, kept, list, places, n) ==
    /\ place \in [1 .. Len(kept) -> 1 .. n]
    /\ \A k \in 1 .. Len(kept) : place[k] \in places /\ kept[k] = list[place[k]]
    /\ \A j, k \in 1 .. Len(kept) : j < k => place[j] < place[k]
    /\ \A i \in 1 .. n : i \in places => \E k \in 1 .. Len(kept) : place[k] = i

Selects(kept, list, places, n) ==
    /\ Len(kept) <= n
    /\ Len(kept) = n => 1 .. n \subseteq places
    /\ 1 .. n \subseteq places => Len(kept) = n /\ \A i \in 1 .. n : kept[i] = list[i]
    /\ \E place : Picks(place, kept, list, places, n)

LEMMA SelectsNone ==
    ASSUME NEW list, NEW places
    PROVE  Selects(<<>>, list, places, 0)
<1>1. Picks(<<>>, <<>>, list, places, 0)
    BY DEF Picks
<1>. QED  BY <1>1 DEF Selects

LEMMA SelectsMore ==
    ASSUME NEW S, NEW list \in Seq(S), NEW places, NEW n \in Nat, n < Len(list),
           NEW kept \in Seq(S), Selects(kept, list, places, n), n + 1 \in places
    PROVE  Selects(Append(kept, list[n + 1]), list, places, n + 1)
<1>. DEFINE more == Append(kept, list[n + 1])
<1>1. /\ Len(kept) \in Nat /\ Len(more) = Len(kept) + 1 /\ Len(kept) <= n
      /\ \A k \in 1 .. Len(kept) : more[k] = kept[k]
      /\ more[Len(kept) + 1] = list[n + 1]
    BY DEF Selects
<1>. HIDE DEF more
<1>2. PICK place : Picks(place, kept, list, places, n)
    BY DEF Selects
<1>. DEFINE further == [k \in 1 .. Len(more) |-> IF k = Len(more) THEN n + 1 ELSE place[k]]
<1>3. /\ \A k \in 1 .. Len(kept) : further[k] = place[k] /\ place[k] \in 1 .. n
      /\ further[Len(more)] = n + 1
      /\ further \in [1 .. Len(more) -> 1 .. n + 1]
    <2>1. \A k \in 1 .. Len(kept) : place[k] \in 1 .. n
        BY <1>2 DEF Picks
    <2>2. ASSUME NEW k \in 1 .. Len(kept) PROVE further[k] = place[k] /\ place[k] \in 1 .. n
        BY <1>1, <2>1
    <2>3. further[Len(more)] = n + 1
        BY <1>1
    <2>4. further \in [1 .. Len(more) -> 1 .. n + 1]
        BY <1>1, <2>1
    <2>. QED  BY <2>2, <2>3, <2>4
<1>. HIDE DEF further
<1>4. Picks(further, more, list, places, n + 1)
    <2>1. \A k \in 1 .. Len(more) : further[k] \in places /\ more[k] = list[further[k]]
        BY <1>1, <1>2, <1>3 DEF Picks
    <2>2. ASSUME NEW j \in 1 .. Len(more), NEW k \in 1 .. Len(more), j < k
          PROVE  further[j] < further[k]
        <3>1. j \in 1 .. Len(kept) /\ place[j] \in 1 .. n /\ further[j] = place[j]
            BY <1>1, <1>3, <2>2
        <3>2. CASE k = Len(more)
            BY <1>3, <3>1, <3>2
        <3>3. CASE k # Len(more)
            <4>1. k \in 1 .. Len(kept)
                BY <1>1, <3>3
            <4>2. further[k] = place[k]
                BY <1>3, <4>1
            <4>. QED  BY <1>2, <2>2, <3>1, <4>1, <4>2 DEF Picks
        <3>. QED  BY <3>2, <3>3
    <2>3. ASSUME NEW i \in 1 .. n + 1, i \in places
          PROVE  \E k \in 1 .. Len(more) : further[k] = i
        <3>1. CASE i = n + 1
            BY <1>1, <1>3, <3>1
        <3>2. CASE i # n + 1
            <4>0. i \in 1 .. n
                BY <3>2
            <4>1. PICK k \in 1 .. Len(kept) : place[k] = i
                BY <1>2, <2>3, <4>0 DEF Picks
            <4>2. k \in 1 .. Len(more)
                BY <1>1, <4>1
            <4>. QED  BY <1>3, <4>1, <4>2
        <3>. QED  BY <3>1, <3>2
    <2>. QED  BY <1>3, <2>1, <2>2, <2>3 DEF Picks
<1>5. Len(more) = n + 1 => 1 .. n + 1 \subseteq places
    <2>1. Len(more) = n + 1 => 1 .. n \subseteq places
        BY <1>1 DEF Selects
    <2>. QED  BY <2>1
<1>6. 1 .. n + 1 \subseteq places =>
        Len(more) = n + 1 /\ \A i \in 1 .. n + 1 : more[i] = list[i]
    <2>. SUFFICES ASSUME 1 .. n + 1 \subseteq places
                  PROVE  Len(more) = n + 1 /\ \A i \in 1 .. n + 1 : more[i] = list[i]
        OBVIOUS
    <2>1. Len(kept) = n /\ \A i \in 1 .. n : kept[i] = list[i]
        <3>1. 1 .. n \subseteq places
            OBVIOUS
        <3>. QED  BY <3>1 DEF Selects
    <2>. QED  BY <1>1, <2>1
<1>. QED  BY <1>1, <1>4, <1>5, <1>6 DEF Selects, more

LEMMA SelectsLess ==
    ASSUME NEW S, NEW list \in Seq(S), NEW places, NEW n \in Nat, n < Len(list),
           NEW kept \in Seq(S), Selects(kept, list, places, n), n + 1 \notin places
    PROVE  Selects(kept, list, places, n + 1)
<1>1. PICK place : Picks(place, kept, list, places, n)
    BY DEF Selects
<1>2. Picks(place, kept, list, places, n + 1)
    <2>1. \A i \in 1 .. n + 1 : i \in places => i \in 1 .. n
        OBVIOUS
    <2>2. place \in [1 .. Len(kept) -> 1 .. n + 1]
        BY <1>1 DEF Picks
    <2>. QED  BY <1>1, <2>1, <2>2 DEF Picks
<1>. QED  BY <1>2 DEF Selects

(***************************************************************************)
(* Kept keeps the chosen places.                                           *)
(***************************************************************************)
LEMMA KeptSelects ==
    ASSUME NEW S, NEW list \in Seq(S), NEW places
    PROVE  Kept(list, places) \in Seq(S) /\ Selects(Kept(list, places), list, places, Len(list))
<1>. DEFINE P == Thinned(list, places)
            T == {n \in Nat : P[n] \in Seq(S) /\ Selects(P[n], list, places, n)}
<1>1. \A n \in 0 .. Len(list) :
        P[n] = IF n = 0 THEN <<>>
               ELSE IF n \in places THEN Append(P[n - 1], list[n])
               ELSE P[n - 1]
    <2>1. IsThinned(P, list, places, Len(list))
        BY ThinnedDefined
    <2>. HIDE DEF P
    <2>. QED  BY <2>1 DEF IsThinned
<1>. HIDE DEF P
<1>2. 0 \in T
    <2>1. P[0] = <<>>
        BY <1>1
    <2>2. P[0] \in Seq(S)
        BY <2>1
    <2>3. Selects(P[0], list, places, 0)
        BY <2>1, SelectsNone
    <2>. QED  BY <2>2, <2>3
<1>3. ASSUME NEW n \in 0 .. Len(list), n \in T, n < Len(list) PROVE n + 1 \in T
    <2>1. /\ n + 1 \in 0 .. Len(list) /\ n + 1 # 0 /\ (n + 1) - 1 = n
          /\ list[n + 1] \in S
        BY <1>3
    <2>2. P[n + 1] = IF n + 1 \in places THEN Append(P[n], list[n + 1]) ELSE P[n]
        BY <1>1, <2>1
    <2>3. P[n + 1] \in Seq(S)
        BY <1>3, <2>1, <2>2
    <2>4. Selects(P[n + 1], list, places, n + 1)
        BY <1>3, <2>2, SelectsMore, SelectsLess
    <2>. QED  BY <2>3, <2>4
<1>4. Len(list) \in T
    <2>1. Len(list) \in Nat /\ Len(list) \in 0 .. Len(list)
        OBVIOUS
    <2>. HIDE DEF T
    <2>. QED  BY <1>2, <1>3, <2>1, UpTo
<1>. QED  BY <1>4 DEF Kept, P
=============================================================================
