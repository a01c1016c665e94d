------------------------------ MODULE TpkPlan -------------------------------
(***************************************************************************)
(* tpk-client/src/plan.rs: which packs of a channel to download.  A pure   *)
(* function of the channel, of what is installed, of the version floors    *)
(* and of the blacklist; ids do not influence each other.                  *)
(*                                                                         *)
(* An offer holds the packs whose shell range and rollout admit this       *)
(* device: both are settled for a device and a release, and the planner    *)
(* treats the others as it treats blacklisted ones.                        *)
(***************************************************************************)
EXTENDS TpkRevisions

ParentCode(p) == IF Meta[p].parent = NoPack THEN 0 ELSE Meta[Meta[p].parent].ver

IsPatch(p) == Meta[p].kind = "patch"

\* The rules a pack has to pass whatever is installed.
Usable(offer, vs) == {p \in offer : Meta[p].kind # "mod" /\ ~Blocks(vs, p)}

\* What a channel lists: version codes are unique within an id.
WellFormed(offer) == \A p, q \in offer : Release(p) = Release(q) => p = q

Highest(codes) == CHOOSE n \in codes : \A m \in codes : m <= n

Latest == Highest({0} \cup {Meta[p].ver : p \in Packs})

\* The usable patches of an id that lead on from a version.
Onward(usable, id, v) ==
    {p \in usable : IsPatch(p) /\ Meta[p].id = id /\ ParentCode(p) = v /\ Meta[p].ver > v}

\* The highest version that usable patches lead to from each version.
Terminals(usable, id) ==
    LET end[v \in 0 .. Latest] ==
            Highest({v} \cup {end[Meta[p].ver] : p \in Onward(usable, id, v)})
    IN  end

\* Mutant: dead ends below the floor are found out only after the choice.
ReachesAnything(ends, floor, p) == TRUE

\* A patch cannot extend a dlc, which lies above it.
ReachesFloor(ends, floor, p) ==
    floor[Meta[p].id] <= IF LayerRank(Meta[p].kind) <= LayerRank("patch")
                         THEN ends[Meta[p].ver] ELSE Meta[p].ver

\* The newest base or dlc that may replace what is installed; 0 if none may.
Newest(usable, ends, installed, floor, id) ==
    Highest({0} \cup {Meta[p].ver :
                p \in {q \in usable : /\ Meta[q].id = id
                                      /\ ~IsPatch(q)
                                      /\ Meta[q].ver > installed[id]
                                      /\ ReachesFloor(ends, floor, q)}})

\* Mutant: a patch on another parent.
FollowsAnything(p, current) == Meta[p].ver > current

Follows(p, current) ==
    /\ IsPatch(p) => current = ParentCode(p)
    /\ Meta[p].ver > current

\* Mutant: the newest packs are considered first.
TurnNewestFirst(p) == LayerRank(Meta[p].kind) * (Latest + 1) + (Latest + 1 - Meta[p].ver)

\* When a pack is considered: by kind, a base before the patches that sit on
\* it, and by version.
Turn(p) == LayerRank(Meta[p].kind) * (Latest + 1) + Meta[p].ver
LastTurn == 4 * (Latest + 1)

\* The packs of an id that are neither superseded nor below the floor.
Eligible(usable, ends, newest, floor, id) ==
    {p \in usable :
        /\ Meta[p].id = id
        /\ (IF IsPatch(p) THEN ParentCode(p) ELSE Meta[p].ver) >= newest
        /\ ReachesFloor(ends, floor, p)}

\* What is chosen up to each turn, and the version that leads to.  No two
\* packs of an id have the same turn.
Choices(eligible, start) ==
    LET chosen[n \in 0 .. LastTurn] ==
            IF n = 0 THEN [current |-> start, packs |-> {}]
            ELSE LET before == chosen[n - 1]
                     passing == {p \in eligible : Turn(p) = n /\ Follows(p, before.current)}
                     p == CHOOSE q \in passing : TRUE
                 IN  IF passing = {} THEN before
                     ELSE [current |-> Meta[p].ver, packs |-> before.packs \cup {p}]
    IN  chosen

\* What is chosen for an id.
Selection(offer, vs, installed, floor, id) ==
    LET usable == Usable(offer, vs)
        ends == Terminals(usable, id)
        newest == Newest(usable, ends, installed, floor, id)
    IN  Choices(Eligible(usable, ends, newest, floor, id), installed[id])[LastTurn]

\* No chain is kept that ends below its floor.
Plan(offer, vs, installed, floor) ==
    LET Chosen(id) == Selection(offer, vs, installed, floor, id)
    IN  UNION {Chosen(id).packs : id \in {i \in Ids : Chosen(i).current >= floor[i]}}
=============================================================================
