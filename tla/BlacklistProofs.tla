--------------------------- MODULE BlacklistProofs ---------------------------
(***************************************************************************)
(* Proofs about the list of verdicts, for every set of files, every cap    *)
(* and every clock: no file is judged twice, the list is the map TpkStore  *)
(* uses in its place as long as there is room, and recording unblocks      *)
(* nothing but what the cap pushes out.                                    *)
(***************************************************************************)
EXTENDS Blacklist, SelectionProofs

-----------------------------------------------------------------------------
Listed == [file : Files, release : ListedReleases, verdict : Entries]

\* No release is listed twice, and a file only under its release.
Sound(list) ==
    /\ list \in Seq(Listed)
    /\ Len(list) <= MaxEntries
    /\ \A i \in DOMAIN list : list[i].release = Identity[list[i].file]
    /\ \A i, j \in DOMAIN list : list[i].release = list[j].release => i = j

ListInv == Sound(entries) /\ now \in Nat

LEMMA SoundList ==
    ASSUME NEW list, Sound(list)
    PROVE  /\ Len(list) \in Nat /\ DOMAIN list = 1 .. Len(list)
           /\ \A i \in DOMAIN list : list[i] \in Listed
           /\ \A f \in Files : \A i \in DOMAIN list :
                 Matches(list[i], f) <=> list[i].release = Identity[f]
           /\ \A f \in Files : \A i \in DOMAIN list :
                 IsFirstMatch(list, i, f) <=> list[i].release = Identity[f]
<1>1. Len(list) \in Nat /\ DOMAIN list = 1 .. Len(list) /\ \A i \in DOMAIN list : list[i] \in Listed
    BY DEF Sound
<1>2. ASSUME NEW f \in Files, NEW i \in DOMAIN list
      PROVE  Matches(list[i], f) <=> list[i].release = Identity[f]
    BY DEF Sound, Matches
<1>3. ASSUME NEW f \in Files, NEW i \in DOMAIN list
      PROVE  IsFirstMatch(list, i, f) <=> list[i].release = Identity[f]
    <2>1. \A j \in 1 .. (i - 1) : j \in DOMAIN list /\ j # i
        BY <1>1
    <2>2. \A j \in DOMAIN list : list[j].release = list[i].release => j = i
        BY DEF Sound
    <2>. QED  BY <1>2, <2>1, <2>2 DEF IsFirstMatch
<1>. QED  BY <1>1, <1>2, <1>3

-----------------------------------------------------------------------------
(***************************************************************************)
(* What one strike does.                                                   *)
(***************************************************************************)
LEMMA StrikeGives ==
    ASSUME NEW v \in Verdict, NEW reason \in Reasons, NEW t \in Nat
    PROVE  /\ Strike(v, reason, t) \in Entries
           /\ IsActive(v, t) => IsActive(Strike(v, reason, t), t)
           /\ [Strike(v, reason, t) EXCEPT !.count = TransientStrikes] \in Entries
           /\ IsActive(Strike(v, reason, t), t) =>
                IsActive([Strike(v, reason, t) EXCEPT !.count = TransientStrikes], t)
<1>. DEFINE w == Strike(v, reason, t)
            x == [w EXCEPT !.count = TransientStrikes]
<1>0. Absent.count = 0 /\ Absent \notin Entries
    BY DEF Absent, Entries
<1>1. w \in Entries
    <2>1. CASE v = Absent
        BY <2>1, VerdictsAssumption DEF Strike, Entries
    <2>2. CASE v # Absent
        BY <2>2, VerdictsAssumption DEF Verdict, Strike, Entries
    <2>. QED  BY <2>1, <2>2
<1>2. ASSUME IsActive(v, t) PROVE IsActive(w, t)
    <2>1. v \in Entries /\ v # Absent
        BY <1>2 DEF IsActive, Verdict
    <2>2. /\ w.count = IF v.count < TransientStrikes THEN v.count + 1 ELSE v.count
          /\ w.reason = IF reason \in PermanentReasons THEN reason ELSE v.reason
          /\ w.first = v.first
        BY <2>1 DEF Strike
    <2>3. v.count \in Nat /\ TransientStrikes \in Nat /\ (v.count >= TransientStrikes => w.count >= TransientStrikes)
        BY <2>1, <2>2, VerdictsAssumption DEF Entries
    <2>4. w # Absent
        BY <1>0, <1>1
    <2>. HIDE DEF w
    <2>5. PermanentReasons \cap TransientReasons = {}
        BY DEF PermanentReasons, TransientReasons
    <2>. QED  BY <1>2, <2>2, <2>3, <2>4, <2>5 DEF IsActive, OutOfTime
<1>. HIDE DEF w
<1>3. x \in Entries /\ x.count = TransientStrikes /\ x.reason = w.reason /\ x.first = w.first
    BY <1>1, VerdictsAssumption DEF Entries
<1>4. IsActive(w, t) => IsActive(x, t)
    BY <1>0, <1>3, VerdictsAssumption DEF IsActive, OutOfTime
<1>. QED  BY <1>1, <1>2, <1>3, <1>4 DEF w

-----------------------------------------------------------------------------
(***************************************************************************)
(* Dropping what is out of time.                                           *)
(***************************************************************************)
LEMMA PrunedSound ==
    ASSUME NEW list, Sound(list), NEW t \in Nat
    PROVE  LET kept == Pruned(list, t)
           IN  /\ Sound(kept)
               /\ Len(kept) <= Len(list)
               /\ Len(kept) = Len(list) => kept = list
               /\ \A k \in DOMAIN kept : ~OutOfTime(kept[k].verdict, t)
               /\ \A k \in DOMAIN kept : \E i \in DOMAIN list : kept[k] = list[i]
               /\ \A i \in DOMAIN list : ~OutOfTime(list[i].verdict, t) =>
                     \E k \in DOMAIN kept : kept[k] = list[i]
<1>. DEFINE kept == Pruned(list, t)
            places == {i \in DOMAIN list : ~OutOfTime(list[i].verdict, t)}
<1>1. list \in Seq(Listed) /\ Len(list) \in Nat /\ DOMAIN list = 1 .. Len(list) /\ MaxEntries \in Nat
    BY BlacklistAssumption DEF Sound
<1>2. kept \in Seq(Listed) /\ Selects(kept, list, places, Len(list))
    BY <1>1, KeptSelects DEF Pruned
<1>. HIDE DEF kept
<1>3. Len(kept) \in Nat /\ DOMAIN kept = 1 .. Len(kept) /\ Len(kept) <= Len(list)
    BY <1>2 DEF Selects
<1>4. PICK place : Picks(place, kept, list, places, Len(list))
    BY <1>2 DEF Selects
<1>5. \A k \in DOMAIN kept : /\ place[k] \in DOMAIN list /\ kept[k] = list[place[k]]
                             /\ ~OutOfTime(kept[k].verdict, t)
    BY <1>1, <1>3, <1>4 DEF Picks
<1>6. ASSUME NEW i \in DOMAIN list, ~OutOfTime(list[i].verdict, t)
      PROVE  \E k \in DOMAIN kept : kept[k] = list[i]
    <2>1. i \in 1 .. Len(list) /\ i \in places
        BY <1>1, <1>6
    <2>2. PICK k \in 1 .. Len(kept) : place[k] = i
        BY <1>4, <2>1 DEF Picks
    <2>. QED  BY <1>3, <1>5, <2>2
<1>7. \A j, k \in DOMAIN kept : kept[j].release = kept[k].release => j = k
    <2>. SUFFICES ASSUME NEW j \in DOMAIN kept, NEW k \in DOMAIN kept,
                         kept[j].release = kept[k].release, j # k
                  PROVE  FALSE
        OBVIOUS
    <2>1. place[j] = place[k]
        BY <1>5 DEF Sound
    <2>2. place[j] \in Nat /\ place[k] \in Nat /\ (j < k \/ k < j)
        BY <1>1, <1>3, <1>5
    <2>3. (j < k => place[j] < place[k]) /\ (k < j => place[k] < place[j])
        BY <1>3, <1>4 DEF Picks
    <2>. QED  BY <2>1, <2>2, <2>3
<1>8. Sound(kept)
    <2>1. \A k \in DOMAIN kept : kept[k].release = Identity[kept[k].file]
        BY <1>5 DEF Sound
    <2>2. Len(kept) <= MaxEntries
        BY <1>1, <1>3 DEF Sound
    <2>. QED  BY <1>2, <1>7, <2>1, <2>2 DEF Sound
<1>9. Len(kept) = Len(list) => kept = list
    <2>1. Len(kept) = Len(list) => \A i \in 1 .. Len(list) : kept[i] = list[i]
        BY <1>2 DEF Selects
    <2>. QED  BY <1>1, <1>2, <1>3, <2>1
<1>. QED  BY <1>3, <1>5, <1>6, <1>8, <1>9 DEF kept

-----------------------------------------------------------------------------
(***************************************************************************)
(* The map a sound list stands for.                                        *)
(***************************************************************************)
Describes(list, vs) ==
    /\ vs \in [ListedReleases -> Verdict]
    /\ \A i \in DOMAIN list : vs[list[i].release] = list[i].verdict
    /\ \A r \in ListedReleases : (\A i \in DOMAIN list : list[i].release # r) => vs[r] = Absent

LEMMA ViewDescribes ==
    ASSUME NEW list, Sound(list)
    PROVE  Describes(list, View(list))
<1>1. ASSUME NEW i \in DOMAIN list
      PROVE  list[i].release \in ListedReleases /\ View(list)[list[i].release] = list[i].verdict
    <2>1. list[i].release \in ListedReleases
        BY SoundList DEF Listed
    <2>. DEFINE j == CHOOSE j \in DOMAIN list : list[j].release = list[i].release
    <2>2. j \in DOMAIN list /\ list[j].release = list[i].release
        OBVIOUS
    <2>3. View(list)[list[i].release] = list[j].verdict
        BY <2>1 DEF View
    <2>. HIDE DEF j
    <2>. QED  BY <2>1, <2>2, <2>3 DEF Sound
<1>2. ASSUME NEW r \in ListedReleases, \A i \in DOMAIN list : list[i].release # r
      PROVE  View(list)[r] = Absent
    BY <1>2 DEF View
<1>3. View(list) = [r \in ListedReleases |-> View(list)[r]]
    BY DEF View
<1>4. \A r \in ListedReleases : View(list)[r] \in Verdict
    <2>. SUFFICES ASSUME NEW r \in ListedReleases PROVE View(list)[r] \in Verdict
        OBVIOUS
    <2>1. CASE \E i \in DOMAIN list : list[i].release = r
        <3>1. PICK i \in DOMAIN list : list[i].release = r
            BY <2>1
        <3>2. list[i].verdict \in Entries
            BY SoundList DEF Listed
        <3>. QED  BY <1>1, <3>1, <3>2 DEF Verdict
    <2>2. CASE ~\E i \in DOMAIN list : list[i].release = r
        BY <1>2, <2>2 DEF Verdict
    <2>. QED  BY <2>1, <2>2
<1>5. View(list) \in [ListedReleases -> Verdict]
    BY <1>3, <1>4
<1>. QED  BY <1>1, <1>2, <1>5 DEF Describes

LEMMA OneView ==
    ASSUME NEW list, Sound(list), NEW vs, Describes(list, vs)
    PROVE  View(list) = vs
<1>1. Describes(list, View(list))
    BY ViewDescribes
<1>2. ASSUME NEW r \in ListedReleases PROVE View(list)[r] = vs[r]
    <2>1. CASE \E i \in DOMAIN list : list[i].release = r
        BY <1>1, <2>1 DEF Describes
    <2>2. CASE ~\E i \in DOMAIN list : list[i].release = r
        BY <1>1, <2>2 DEF Describes
    <2>. QED  BY <2>1, <2>2
<1>. QED  BY <1>1, <1>2 DEF Describes

LEMMA PrunedView ==
    ASSUME NEW list, Sound(list), NEW t \in Nat
    PROVE  View(Pruned(list, t)) = Prune(View(list), t)
<1>. DEFINE kept == Pruned(list, t)
            vs == View(list)
            pruned == Prune(vs, t)
<1>1. Sound(kept) /\ Describes(list, vs)
    BY PrunedSound, ViewDescribes
<1>2. /\ \A k \in DOMAIN kept : ~OutOfTime(kept[k].verdict, t)
      /\ \A k \in DOMAIN kept : \E i \in DOMAIN list : kept[k] = list[i]
      /\ \A i \in DOMAIN list : ~OutOfTime(list[i].verdict, t) =>
            \E k \in DOMAIN kept : kept[k] = list[i]
    BY PrunedSound
<1>. HIDE DEF kept, vs
<1>3. /\ pruned = [r \in ListedReleases |-> IF OutOfTime(vs[r], t) THEN Absent ELSE vs[r]]
      /\ pruned \in [ListedReleases -> Verdict]
    BY <1>1 DEF Prune, Describes, Verdict
<1>4. ASSUME NEW k \in DOMAIN kept PROVE pruned[kept[k].release] = kept[k].verdict
    <2>1. PICK i \in DOMAIN list : kept[k] = list[i]
        BY <1>2
    <2>2. kept[k].release \in ListedReleases /\ vs[kept[k].release] = kept[k].verdict
        BY <1>1, <2>1, SoundList DEF Describes, Listed
    <2>. QED  BY <1>2, <1>3, <2>2
<1>5. ASSUME NEW r \in ListedReleases, \A k \in DOMAIN kept : kept[k].release # r
      PROVE  pruned[r] = Absent
    <2>1. CASE \E i \in DOMAIN list : list[i].release = r
        <3>1. PICK i \in DOMAIN list : list[i].release = r
            BY <2>1
        <3>2. vs[r] = list[i].verdict /\ OutOfTime(list[i].verdict, t)
            BY <1>1, <1>2, <1>5, <3>1 DEF Describes
        <3>. QED  BY <1>3, <3>2
    <2>2. CASE ~\E i \in DOMAIN list : list[i].release = r
        BY <1>1, <1>3, <2>2 DEF Describes
    <2>. QED  BY <2>1, <2>2
<1>6. Describes(kept, pruned)
    BY <1>3, <1>4, <1>5 DEF Describes
<1>. HIDE DEF pruned
<1>. QED  BY <1>1, <1>6, OneView DEF kept, vs, pruned

-----------------------------------------------------------------------------
(***************************************************************************)
(* The three ways an entry is written: in its place, at the end, and at    *)
(* the end of a full list.                                                 *)
(***************************************************************************)
Rewritten(list, m, w) == [list EXCEPT ![m].verdict = w]
NewEntry(f, w) == [file |-> f, release |-> Identity[f], verdict |-> w]

LEMMA RewrittenSound ==
    ASSUME NEW list, Sound(list), NEW m \in DOMAIN list, NEW w \in Entries
    PROVE  /\ Sound(Rewritten(list, m, w))
           /\ DOMAIN Rewritten(list, m, w) = DOMAIN list
           /\ View(Rewritten(list, m, w)) = [View(list) EXCEPT ![list[m].release] = w]
           /\ \A i \in DOMAIN list :
                /\ Rewritten(list, m, w)[i].file = list[i].file
                /\ Rewritten(list, m, w)[i].release = list[i].release
                /\ Rewritten(list, m, w)[i].verdict = IF i = m THEN w ELSE list[i].verdict
<1>. DEFINE new == Rewritten(list, m, w)
            vs == [View(list) EXCEPT ![list[m].release] = w]
<1>1. /\ list \in Seq(Listed) /\ Len(list) \in Nat /\ DOMAIN list = 1 .. Len(list)
      /\ \A i \in DOMAIN list : list[i] \in Listed
    BY SoundList DEF Sound
<1>2. new \in Seq(Listed) /\ DOMAIN new = DOMAIN list /\ Len(new) = Len(list)
    BY <1>1 DEF Rewritten, Listed
<1>3. \A i \in DOMAIN list : /\ new[i].file = list[i].file /\ new[i].release = list[i].release
                             /\ new[i].verdict = IF i = m THEN w ELSE list[i].verdict
    BY <1>1 DEF Rewritten, Listed
<1>. HIDE DEF new
<1>4. Sound(new)
    BY <1>2, <1>3 DEF Sound
<1>5. Describes(new, vs)
    <2>1. Describes(list, View(list)) /\ list[m].release \in ListedReleases /\ w \in Verdict
        BY <1>1, ViewDescribes DEF Listed, Verdict
    <2>2. vs \in [ListedReleases -> Verdict]
        BY <2>1 DEF Describes
    <2>3. \A i \in DOMAIN list : list[i].release = list[m].release => i = m
        BY DEF Sound
    <2>. QED  BY <1>2, <1>3, <2>1, <2>2, <2>3 DEF Describes
<1>6. View(new) = vs
    <2>. HIDE DEF vs
    <2>. QED  BY <1>4, <1>5, OneView
<1>. QED  BY <1>2, <1>3, <1>4, <1>6 DEF new

LEMMA AppendedSound ==
    ASSUME NEW list, Sound(list), NEW f \in Files, NEW w \in Entries,
           \A i \in DOMAIN list : list[i].release # Identity[f]
    PROVE  LET new == Capped(Append(list, NewEntry(f, w)))
           IN  /\ Sound(new)
               /\ Len(new) \in DOMAIN new /\ new[Len(new)] = NewEntry(f, w)
               /\ Len(list) < MaxEntries =>
                    /\ View(new) = [View(list) EXCEPT ![Identity[f]] = w]
                    /\ \A i \in DOMAIN list : i \in DOMAIN new /\ new[i] = list[i]
               /\ \A i \in DOMAIN list : i > 1 => \E k \in DOMAIN new : new[k] = list[i]
<1>. DEFINE longer == Append(list, NewEntry(f, w))
            vs == [View(list) EXCEPT ![Identity[f]] = w]
            new == Capped(longer)
<1>1. /\ list \in Seq(Listed) /\ Len(list) \in Nat /\ DOMAIN list = 1 .. Len(list)
      /\ \A i \in DOMAIN list : list[i] \in Listed
      /\ Len(list) <= MaxEntries /\ MaxEntries \in Nat /\ MaxEntries > 0
    BY SoundList, BlacklistAssumption DEF Sound
<1>2. NewEntry(f, w) \in Listed
    BY DEF NewEntry, Listed, ListedReleases
<1>3. /\ longer \in Seq(Listed) /\ Len(longer) = Len(list) + 1
      /\ \A i \in DOMAIN list : longer[i] = list[i]
      /\ longer[Len(list) + 1] = NewEntry(f, w)
    BY <1>1, <1>2
<1>. HIDE DEF longer
<1>4. \A i \in 1 .. Len(longer) : longer[i].release = Identity[longer[i].file]
    BY <1>1, <1>3 DEF Sound, NewEntry
<1>5. \A i, j \in 1 .. Len(longer) : longer[i].release = longer[j].release => i = j
    <2>. SUFFICES ASSUME NEW i \in 1 .. Len(longer), NEW j \in 1 .. Len(longer),
                         longer[i].release = longer[j].release
                  PROVE  i = j
        OBVIOUS
    <2>1. longer[Len(list) + 1].release = Identity[f]
        BY <1>3 DEF NewEntry
    <2>2. (i \in DOMAIN list \/ i = Len(list) + 1) /\ (j \in DOMAIN list \/ j = Len(list) + 1)
        BY <1>1, <1>3
    <2>. QED  BY <1>3, <2>1, <2>2 DEF Sound
<1>6. CASE Len(list) < MaxEntries
    <2>1. new = longer
        BY <1>1, <1>3, <1>6 DEF Capped
    <2>. HIDE DEF new
    <2>2. Sound(new)
        BY <1>1, <1>3, <1>4, <1>5, <1>6, <2>1 DEF Sound
    <2>3. Describes(new, vs)
        <3>1. Describes(list, View(list)) /\ Identity[f] \in ListedReleases /\ w \in Verdict
            BY ViewDescribes DEF ListedReleases, Verdict
        <3>2. vs \in [ListedReleases -> Verdict] /\ vs[Identity[f]] = w
            BY <3>1 DEF Describes
        <3>3. \A i \in DOMAIN list : vs[list[i].release] = list[i].verdict
            BY <3>1 DEF Describes
        <3>4. DOMAIN new = 1 .. Len(list) + 1
            BY <1>3, <2>1
        <3>5. \A i \in DOMAIN new : vs[new[i].release] = new[i].verdict
            BY <1>1, <1>3, <2>1, <3>2, <3>3, <3>4 DEF NewEntry
        <3>6. ASSUME NEW r \in ListedReleases, \A i \in DOMAIN new : new[i].release # r
              PROVE  vs[r] = Absent
            <4>1. r # Identity[f]
                BY <1>1, <1>3, <2>1, <3>4, <3>6 DEF NewEntry
            <4>2. \A i \in DOMAIN list : list[i].release # r
                BY <1>1, <1>3, <2>1, <3>4, <3>6
            <4>. QED  BY <3>1, <4>1, <4>2 DEF Describes
        <3>. QED  BY <3>2, <3>5, <3>6 DEF Describes
    <2>4. View(new) = vs
        <3>. HIDE DEF vs
        <3>. QED  BY <2>2, <2>3, OneView
    <2>5. DOMAIN new = 1 .. Len(new) /\ Len(new) = Len(list) + 1
        BY <1>3, <2>1
    <2>. QED  BY <1>1, <1>3, <2>1, <2>2, <2>4, <2>5 DEF new, longer
<1>7. CASE Len(list) = MaxEntries
    <2>1. new = SubSeq(longer, 2, MaxEntries + 1)
        BY <1>1, <1>3, <1>7 DEF Capped
    <2>2. /\ new \in Seq(Listed) /\ Len(new) = MaxEntries /\ DOMAIN new = 1 .. MaxEntries
          /\ \A i \in 1 .. MaxEntries : new[i] = longer[i + 1]
        BY <1>1, <1>3, <1>7, <2>1
    <2>. HIDE DEF new
    <2>3. \A i \in 1 .. MaxEntries : i + 1 \in 1 .. Len(longer)
        BY <1>1, <1>3, <1>7
    <2>4. Sound(new)
        <3>1. \A i \in DOMAIN new : i \in Nat /\ i + 1 \in 1 .. Len(longer) /\ new[i] = longer[i + 1]
            BY <1>1, <2>2, <2>3
        <3>2. ASSUME NEW i \in DOMAIN new, NEW j \in DOMAIN new, new[i].release = new[j].release
              PROVE  i = j
            <4>1. i + 1 = j + 1
                BY <1>5, <3>1, <3>2
            <4>. QED  BY <3>1, <4>1
        <3>3. \A i \in DOMAIN new : new[i].release = Identity[new[i].file]
            BY <1>4, <2>2, <2>3
        <3>. QED  BY <1>1, <2>2, <3>2, <3>3 DEF Sound
    <2>5. Len(new) \in DOMAIN new /\ new[Len(new)] = NewEntry(f, w)
        BY <1>1, <1>3, <1>7, <2>2
    <2>6. ASSUME NEW i \in DOMAIN list, i > 1 PROVE \E k \in DOMAIN new : new[k] = list[i]
        <3>1. i - 1 \in 1 .. MaxEntries /\ (i - 1) + 1 = i
            BY <1>1, <1>7, <2>6
        <3>. QED  BY <1>3, <2>2, <3>1
    <2>7. ~(Len(list) < MaxEntries)
        BY <1>1, <1>7
    <2>8. /\ Sound(new) /\ Len(new) \in DOMAIN new /\ new[Len(new)] = NewEntry(f, w)
          /\ \A i \in DOMAIN list : i > 1 => \E k \in DOMAIN new : new[k] = list[i]
        BY <2>4, <2>5, <2>6
    <2>. QED  BY <2>7, <2>8 DEF new, longer
<1>8. Len(list) < MaxEntries \/ Len(list) = MaxEntries
    <2>1. Len(list) \in Nat /\ MaxEntries \in Nat /\ Len(list) <= MaxEntries
        BY <1>1
    <2>. QED  BY <2>1
<1>. QED  BY <1>6, <1>7, <1>8

-----------------------------------------------------------------------------
(***************************************************************************)
(* Recording a failure, and condemning.                                    *)
(***************************************************************************)
Struck(list, i, reason, t) == Strike(list[i].verdict, reason, t)

LEMMA RecordedForms ==
    ASSUME NEW list, Sound(list), NEW f \in Files, NEW reason \in Causes, NEW t \in Nat
    PROVE  LET kept == Pruned(list, t)
           IN  \/ \E m \in DOMAIN kept :
                     /\ kept[m].release = Identity[f]
                     /\ Recorded(list, f, reason, t) = Rewritten(kept, m, Struck(kept, m, reason, t))
               \/ /\ \A i \in DOMAIN kept : kept[i].release # Identity[f]
                  /\ Recorded(list, f, reason, t) =
                        Capped(Append(kept, NewEntry(f, Strike(Absent, reason, t))))
<1>. DEFINE kept == Pruned(list, t)
<1>1. Sound(kept)
    BY PrunedSound
<1>2. /\ kept \in Seq(Listed)
      /\ \A i \in DOMAIN kept : /\ kept[i] \in Listed
                                /\ Matches(kept[i], f) <=> kept[i].release = Identity[f]
                                /\ IsFirstMatch(kept, i, f) <=> kept[i].release = Identity[f]
    BY <1>1, SoundList DEF Sound
<1>3. Recorded(list, f, reason, t) =
        IF \E i \in DOMAIN kept : Matches(kept[i], f)
        THEN [i \in DOMAIN kept |->
                IF IsFirstMatch(kept, i, f)
                THEN [kept[i] EXCEPT !.verdict = Strike(@, reason, t)]
                ELSE kept[i]]
        ELSE Capped(Append(kept, NewEntry(f, Strike(Absent, reason, t))))
    BY DEF Recorded, NewEntry
<1>. HIDE DEF kept
<1>4. CASE \E i \in DOMAIN kept : Matches(kept[i], f)
    <2>1. PICK m \in DOMAIN kept : Matches(kept[m], f)
        BY <1>4
    <2>2. kept[m].release = Identity[f]
        BY <1>2, <2>1
    <2>3. \A i \in DOMAIN kept : kept[i].release = Identity[f] <=> i = m
        BY <1>1, <2>2 DEF Sound
    <2>4. \A i \in DOMAIN kept : IsFirstMatch(kept, i, f) <=> i = m
        BY <1>2, <2>3
    <2>5. Recorded(list, f, reason, t) =
            [i \in DOMAIN kept |->
                IF i = m THEN [kept[i] EXCEPT !.verdict = Strike(@, reason, t)] ELSE kept[i]]
        BY <1>3, <1>4, <2>4
    <2>6. Rewritten(kept, m, Struck(kept, m, reason, t)) =
            [i \in DOMAIN kept |->
                IF i = m THEN [kept[i] EXCEPT !.verdict = Strike(@, reason, t)] ELSE kept[i]]
        BY <1>2 DEF Rewritten, Struck
    <2>. QED  BY <2>2, <2>5, <2>6 DEF kept
<1>5. CASE ~\E i \in DOMAIN kept : Matches(kept[i], f)
    BY <1>2, <1>3, <1>5 DEF kept
<1>. QED  BY <1>4, <1>5

\* The file has an entry afterwards, and it blocks if the entry before did.
LEMMA RecordedGives ==
    ASSUME NEW list, Sound(list), NEW f \in Files, NEW reason \in Causes, NEW t \in Nat
    PROVE  LET new == Recorded(list, f, reason, t)
           IN  /\ Sound(new)
               /\ \E m \in DOMAIN new : new[m].release = Identity[f]
               /\ (Len(list) < MaxEntries \/ \E i \in DOMAIN list : Matches(list[i], f)) =>
                     View(new) = Record(View(list), Identity[f], reason, t)
               /\ \A g \in Files : BlocksFile(list, g, t) =>
                     \/ BlocksFile(new, g, t)
                     \/ /\ ~(Len(list) < MaxEntries \/ \E i \in DOMAIN list : Matches(list[i], f))
                        /\ Matches(list[1], g)
<1>. DEFINE kept == Pruned(list, t)
            new == Recorded(list, f, reason, t)
            room == Len(list) < MaxEntries \/ \E i \in DOMAIN list : Matches(list[i], f)
<1>1. /\ Sound(kept) /\ View(kept) = Prune(View(list), t)
      /\ Len(kept) <= Len(list) /\ (Len(kept) = Len(list) => kept = list)
      /\ \A i \in DOMAIN list : ~OutOfTime(list[i].verdict, t) =>
            \E k \in DOMAIN kept : kept[k] = list[i]
    BY PrunedSound, PrunedView
<1>. HIDE DEF kept
<1>2. /\ reason \in Reasons /\ Identity[f] \in ListedReleases /\ Absent \in Verdict
      /\ \A k \in DOMAIN kept : kept[k] \in Listed /\ kept[k].verdict \in Verdict
      /\ Strike(Absent, reason, t) \in Entries
    <2>1. reason \in Reasons /\ Identity[f] \in ListedReleases /\ Absent \in Verdict
        BY BlacklistAssumption DEF ListedReleases, Verdict
    <2>2. \A k \in DOMAIN kept : kept[k] \in Listed /\ kept[k].verdict \in Verdict
        BY <1>1, SoundList DEF Listed, Verdict
    <2>. QED  BY <2>1, <2>2, StrikeGives
<1>3. Describes(kept, View(kept)) /\ Describes(list, View(list))
    BY <1>1, ViewDescribes
<1>4. Record(View(list), Identity[f], reason, t) =
        [View(kept) EXCEPT ![Identity[f]] = Strike(View(kept)[Identity[f]], reason, t)]
    BY <1>1 DEF Record
\* What blocks is kept.
<1>5. ASSUME NEW g \in Files, BlocksFile(list, g, t)
      PROVE  \E k \in DOMAIN kept : IsActive(kept[k].verdict, t) /\ kept[k].release = Identity[g]
    <2>1. PICK i \in DOMAIN list : IsActive(list[i].verdict, t) /\ list[i].release = Identity[g]
        BY <1>5, SoundList DEF BlocksFile
    <2>2. ~OutOfTime(list[i].verdict, t)
        BY <2>1 DEF IsActive, OutOfTime, TransientReasons, PermanentReasons
    <2>. QED  BY <1>1, <2>1, <2>2
<1>6. ASSUME NEW m \in DOMAIN kept, kept[m].release = Identity[f],
             new = Rewritten(kept, m, Struck(kept, m, reason, t))
      PROVE  /\ Sound(new)
             /\ \E k \in DOMAIN new : new[k].release = Identity[f]
             /\ View(new) = Record(View(list), Identity[f], reason, t)
             /\ \A g \in Files : BlocksFile(list, g, t) => BlocksFile(new, g, t)
    <2>1. Struck(kept, m, reason, t) \in Entries
        BY <1>2, StrikeGives DEF Struck
    <2>2. /\ Sound(new) /\ DOMAIN new = DOMAIN kept
          /\ View(new) = [View(kept) EXCEPT ![Identity[f]] = Struck(kept, m, reason, t)]
          /\ \A i \in DOMAIN kept :
               /\ new[i].release = kept[i].release
               /\ new[i].verdict = IF i = m THEN Struck(kept, m, reason, t) ELSE kept[i].verdict
        BY <1>1, <1>6, <2>1, RewrittenSound
    <2>. HIDE DEF new
    <2>3. View(kept)[Identity[f]] = kept[m].verdict
        BY <1>3, <1>6 DEF Describes
    <2>4. \A k \in DOMAIN kept : IsActive(kept[k].verdict, t) => IsActive(new[k].verdict, t)
        BY <1>2, <2>2, StrikeGives DEF Struck
    <2>5. ASSUME NEW g \in Files, BlocksFile(list, g, t) PROVE BlocksFile(new, g, t)
        <3>1. PICK k \in DOMAIN kept : IsActive(kept[k].verdict, t) /\ kept[k].release = Identity[g]
            BY <1>5, <2>5
        <3>. QED  BY <2>2, <2>4, <3>1 DEF BlocksFile, Matches
    <2>. QED  BY <1>4, <1>6, <2>2, <2>3, <2>5 DEF Struck
<1>7. ASSUME \A i \in DOMAIN kept : kept[i].release # Identity[f],
             new = Capped(Append(kept, NewEntry(f, Strike(Absent, reason, t))))
      PROVE  /\ Sound(new)
             /\ \E k \in DOMAIN new : new[k].release = Identity[f]
             /\ room => View(new) = Record(View(list), Identity[f], reason, t)
             /\ \A g \in Files : BlocksFile(list, g, t) =>
                  BlocksFile(new, g, t) \/ (~room /\ Matches(list[1], g))
    <2>1. /\ Sound(new)
          /\ Len(new) \in DOMAIN new /\ new[Len(new)] = NewEntry(f, Strike(Absent, reason, t))
          /\ Len(kept) < MaxEntries =>
                /\ View(new) = [View(kept) EXCEPT ![Identity[f]] = Strike(Absent, reason, t)]
                /\ \A i \in DOMAIN kept : i \in DOMAIN new /\ new[i] = kept[i]
          /\ \A i \in DOMAIN kept : i > 1 => \E k \in DOMAIN new : new[k] = kept[i]
        BY <1>1, <1>2, <1>7, AppendedSound
    <2>. HIDE DEF new
    <2>2. \E k \in DOMAIN new : new[k].release = Identity[f]
        BY <2>1 DEF NewEntry
    <2>3. View(kept)[Identity[f]] = Absent
        BY <1>2, <1>3, <1>7 DEF Describes
    <2>4. /\ Len(kept) \in Nat /\ Len(list) \in Nat /\ MaxEntries \in Nat
          /\ Len(list) <= MaxEntries /\ DOMAIN kept = 1 .. Len(kept)
        BY <1>1, SoundList, BlacklistAssumption DEF Sound
    <2>5. Len(kept) = Len(list) => ~\E i \in DOMAIN list : Matches(list[i], f)
        BY <1>1, <1>7, SoundList
    <2>6. room => Len(kept) < MaxEntries
        BY <1>1, <2>4, <2>5
    <2>7. ASSUME NEW g \in Files, BlocksFile(list, g, t)
          PROVE  BlocksFile(new, g, t) \/ (~room /\ Matches(list[1], g))
        <3>1. PICK k \in DOMAIN kept : IsActive(kept[k].verdict, t) /\ kept[k].release = Identity[g]
            BY <1>5, <2>7
        <3>2. CASE Len(kept) < MaxEntries \/ k > 1
            BY <2>1, <3>1, <3>2 DEF BlocksFile, Matches
        <3>3. CASE ~(Len(kept) < MaxEntries \/ k > 1)
            <4>1. k = 1 /\ kept = list
                BY <1>1, <2>4, <3>1, <3>3
            <4>. QED  BY <2>6, <3>1, <3>3, <4>1 DEF Matches
        <3>. QED  BY <3>2, <3>3
    <2>. QED  BY <1>4, <2>1, <2>2, <2>3, <2>6, <2>7
<1>8. \/ \E m \in DOMAIN kept : /\ kept[m].release = Identity[f]
                                /\ new = Rewritten(kept, m, Struck(kept, m, reason, t))
      \/ /\ \A i \in DOMAIN kept : kept[i].release # Identity[f]
         /\ new = Capped(Append(kept, NewEntry(f, Strike(Absent, reason, t))))
    BY RecordedForms DEF kept
<1>. HIDE DEF new, room
<1>9. /\ Sound(new)
      /\ \E m \in DOMAIN new : new[m].release = Identity[f]
      /\ room => View(new) = Record(View(list), Identity[f], reason, t)
      /\ \A g \in Files : BlocksFile(list, g, t) =>
            BlocksFile(new, g, t) \/ (~room /\ Matches(list[1], g))
    BY <1>6, <1>7, <1>8
<1>. QED  BY <1>9 DEF new, room

LEMMA CondemnedGives ==
    ASSUME NEW list, Sound(list), NEW f \in Files, NEW reason \in Causes, NEW t \in Nat
    PROVE  LET new == CondemnedList(list, f, reason, t)
           IN  /\ Sound(new)
               /\ (Len(list) < MaxEntries \/ \E i \in DOMAIN list : Matches(list[i], f)) =>
                     View(new) = Condemn(View(list), {Identity[f]}, reason, t)
               /\ \A g \in Files : BlocksFile(list, g, t) =>
                     \/ BlocksFile(new, g, t)
                     \/ /\ ~(Len(list) < MaxEntries \/ \E i \in DOMAIN list : Matches(list[i], f))
                        /\ Matches(list[1], g)
<1>. DEFINE recorded == Recorded(list, f, reason, t)
            new == CondemnedList(list, f, reason, t)
            room == Len(list) < MaxEntries \/ \E i \in DOMAIN list : Matches(list[i], f)
<1>1. /\ Sound(recorded)
      /\ \E m \in DOMAIN recorded : recorded[m].release = Identity[f]
      /\ room => View(recorded) = Record(View(list), Identity[f], reason, t)
      /\ \A g \in Files : BlocksFile(list, g, t) =>
            BlocksFile(recorded, g, t) \/ (~room /\ Matches(list[1], g))
    BY RecordedGives
<1>2. new = [i \in DOMAIN recorded |->
                IF IsFirstMatch(recorded, i, f)
                THEN [recorded[i] EXCEPT !.verdict.count = TransientStrikes]
                ELSE recorded[i]]
    BY DEF CondemnedList
<1>. HIDE DEF recorded, new, room
<1>3. PICK m \in DOMAIN recorded : recorded[m].release = Identity[f]
    BY <1>1
<1>. DEFINE w == [recorded[m].verdict EXCEPT !.count = TransientStrikes]
<1>4. /\ \A i \in DOMAIN recorded : /\ recorded[i] \in Listed
                                    /\ IsFirstMatch(recorded, i, f) <=> i = m
      /\ recorded \in Seq(Listed)
    <2>1. \A i \in DOMAIN recorded : recorded[i].release = Identity[f] <=> i = m
        BY <1>1, <1>3 DEF Sound
    <2>. QED  BY <1>1, <2>1, SoundList DEF Sound
<1>5. recorded[m].verdict \in Entries
    BY <1>4 DEF Listed
<1>6. w \in Entries /\ (IsActive(recorded[m].verdict, t) => IsActive(w, t))
    <2>1. /\ w \in Entries /\ w.count = TransientStrikes
          /\ w.reason = recorded[m].verdict.reason /\ w.first = recorded[m].verdict.first
        BY <1>5, VerdictsAssumption DEF Entries
    <2>2. Absent \notin Entries
        BY DEF Absent, Entries
    <2>. HIDE DEF w
    <2>. QED  BY <2>1, <2>2, VerdictsAssumption DEF IsActive, OutOfTime
<1>7. new = Rewritten(recorded, m, w)
    <2>1. Rewritten(recorded, m, w) =
            [i \in DOMAIN recorded |->
                IF i = m THEN [recorded[i] EXCEPT !.verdict.count = TransientStrikes]
                ELSE recorded[i]]
        BY <1>4, <1>5 DEF Rewritten
    <2>. QED  BY <1>2, <1>4, <2>1
<1>. HIDE DEF w
<1>8. /\ Sound(new) /\ DOMAIN new = DOMAIN recorded
      /\ View(new) = [View(recorded) EXCEPT ![Identity[f]] = w]
      /\ \A i \in DOMAIN recorded :
           /\ new[i].release = recorded[i].release
           /\ new[i].verdict = IF i = m THEN w ELSE recorded[i].verdict
    BY <1>1, <1>3, <1>6, <1>7, RewrittenSound
<1>9. ASSUME NEW g \in Files, BlocksFile(recorded, g, t) PROVE BlocksFile(new, g, t)
    <2>1. PICK i \in DOMAIN recorded :
            IsActive(recorded[i].verdict, t) /\ recorded[i].release = Identity[g]
        BY <1>1, <1>9, SoundList DEF BlocksFile
    <2>2. IsActive(new[i].verdict, t) /\ new[i].release = Identity[g] /\ i \in DOMAIN new
        BY <1>6, <1>8, <2>1
    <2>. QED  BY <2>2 DEF BlocksFile, Matches
<1>10. ASSUME room PROVE View(new) = Condemn(View(list), {Identity[f]}, reason, t)
    <2>. DEFINE vs == View(list)
                r0 == Identity[f]
    <2>1. /\ vs \in [ListedReleases -> Verdict]
          /\ View(recorded)[r0] = recorded[m].verdict
          /\ r0 \in ListedReleases
        BY <1>1, <1>3, ViewDescribes DEF Describes, ListedReleases
    <2>2. View(recorded) = [Prune(vs, t) EXCEPT ![r0] = Strike(@, reason, t)]
        BY <1>1, <1>10 DEF Record
    <2>. HIDE DEF vs, r0
    <2>3. DOMAIN Prune(vs, t) = ListedReleases /\ DOMAIN vs = ListedReleases
        BY <2>1 DEF Prune
    <2>4. recorded[m].verdict = Strike(Prune(vs, t)[r0], reason, t)
        BY <2>1, <2>2, <2>3
    <2>5. w = [Strike(Prune(vs, t)[r0], reason, t) EXCEPT !.count = TransientStrikes]
        BY <2>4 DEF w
    <2>6. View(new) = [Prune(vs, t) EXCEPT ![r0] = w]
        BY <1>8, <2>2, <2>3 DEF r0
    <2>7. Prune(vs, t) = [r \in ListedReleases |-> Prune(vs, t)[r]]
        BY <2>3 DEF Prune
    <2>8. View(new) = [r \in ListedReleases |-> IF r = r0 THEN w ELSE Prune(vs, t)[r]]
        BY <2>3, <2>6, <2>7
    <2>9. Condemn(vs, {r0}, reason, t) =
            [r \in ListedReleases |-> IF r = r0 THEN w ELSE Prune(vs, t)[r]]
        BY <2>3, <2>5 DEF Condemn
    <2>. QED  BY <2>8, <2>9 DEF vs, r0
<1>11. /\ Sound(new)
       /\ room => View(new) = Condemn(View(list), {Identity[f]}, reason, t)
       /\ \A g \in Files : BlocksFile(list, g, t) =>
            BlocksFile(new, g, t) \/ (~room /\ Matches(list[1], g))
    BY <1>1, <1>8, <1>9, <1>10
<1>. QED  BY <1>11 DEF new, room

-----------------------------------------------------------------------------
LEMMA ListInvAlways == ListSpec => []ListInv
<1>1. ListInit => ListInv
    BY BlacklistAssumption DEF ListInit, ListInv, Sound
<1>2. ASSUME ListInv, [ListNext]_listVars PROVE ListInv'
    <2>1. CASE UNCHANGED listVars
        BY <1>2, <2>1 DEF listVars, ListInv, Sound
    <2>2. ASSUME NEW f \in Files, NEW reason \in Causes, RecordFile(f, reason)
          PROVE  ListInv'
        <3>1. Sound(entries) /\ now \in Nat
            BY <1>2 DEF ListInv
        <3>2. entries' = Recorded(entries, f, reason, now) /\ now' = now
            BY <2>2 DEF RecordFile
        <3>3. Sound(Recorded(entries, f, reason, now))
            BY <3>1, RecordedGives
        <3>. QED  BY <3>1, <3>2, <3>3 DEF ListInv
    <2>3. ASSUME NEW f \in Files, NEW reason \in Causes, CondemnFile(f, reason)
          PROVE  ListInv'
        <3>1. Sound(entries) /\ now \in Nat
            BY <1>2 DEF ListInv
        <3>2. entries' = CondemnedList(entries, f, reason, now) /\ now' = now
            BY <2>3 DEF CondemnFile
        <3>3. Sound(CondemnedList(entries, f, reason, now))
            BY <3>1, CondemnedGives
        <3>. QED  BY <3>1, <3>2, <3>3 DEF ListInv
    <2>4. CASE Clear
        BY <1>2, <2>4, BlacklistAssumption DEF Clear, ListInv, Sound
    <2>5. CASE SetClock
        BY <1>2, <2>5, BlacklistAssumption DEF SetClock, ListInv, Sound
    <2>. QED  BY <1>2, <2>1, <2>2, <2>3, <2>4, <2>5 DEF ListNext
<1>. QED  BY <1>1, <1>2, PTL DEF ListSpec

(***************************************************************************)
(* No two entries ever judge one file (record's find, blacklist.rs:180).   *)
(***************************************************************************)
THEOREM FilesAreJudgedOnce == ListSpec => []OneEntryPerFile
<1>1. ListInv => OneEntryPerFile
    BY SoundList DEF ListInv, OneEntryPerFile, Sound
<1>. QED  BY <1>1, ListInvAlways, PTL

\* The call that was made last is the one that was just made.
LEMMA LastCall ==
    ASSUME ListNext, last' \in Calls
    PROVE  /\ last'.file \in Files /\ last'.reason \in Causes
           /\ \/ last'.op = "record" /\ RecordFile(last'.file, last'.reason)
              \/ last'.op = "condemn" /\ CondemnFile(last'.file, last'.reason)
<1>1. NoCall \notin Calls
    <2>1. \A c \in Calls : c.op \in {"record", "condemn"}
        BY DEF Calls
    <2>. QED  BY <2>1 DEF NoCall
<1>. QED  BY <1>1 DEF ListNext, Clear, SetClock, RecordFile, CondemnFile

(***************************************************************************)
(* As long as there is room the list is the map of module Verdicts         *)
(* (blacklist.rs:158), and what TpkStore's theorems say of the map holds   *)
(* of the list.                                                            *)
(***************************************************************************)
THEOREM ListAlwaysActsAsMap == ListSpec => ListActsAsMap
<1>1. ASSUME ListInv, [ListNext]_listVars
      PROVE  [last' \in Calls /\ RoomFor(last'.file) =>
                View(entries') =
                    IF last'.op = "record"
                    THEN Record(View(entries), Identity[last'.file], last'.reason, now)
                    ELSE Condemn(View(entries), {Identity[last'.file]}, last'.reason, now)]_listVars
    <2>. SUFFICES ASSUME ListNext, last' \in Calls, RoomFor(last'.file)
                  PROVE  View(entries') =
                    IF last'.op = "record"
                    THEN Record(View(entries), Identity[last'.file], last'.reason, now)
                    ELSE Condemn(View(entries), {Identity[last'.file]}, last'.reason, now)
        BY <1>1
    <2>1. CASE last'.op = "record" /\ RecordFile(last'.file, last'.reason)
        <3>1. /\ Sound(entries) /\ now \in Nat /\ last'.file \in Files /\ last'.reason \in Causes
              /\ entries' = Recorded(entries, last'.file, last'.reason, now)
            BY <1>1, <2>1, LastCall DEF RecordFile, ListInv
        <3>2. View(entries') = Record(View(entries), Identity[last'.file], last'.reason, now)
            BY <3>1, RecordedGives DEF RoomFor
        <3>. QED  BY <2>1, <3>2
    <2>2. CASE last'.op = "condemn" /\ CondemnFile(last'.file, last'.reason)
        <3>1. /\ Sound(entries) /\ now \in Nat /\ last'.file \in Files /\ last'.reason \in Causes
              /\ entries' = CondemnedList(entries, last'.file, last'.reason, now)
            BY <1>1, <2>2, LastCall DEF CondemnFile, ListInv
        <3>2. View(entries') = Condemn(View(entries), {Identity[last'.file]}, last'.reason, now)
            BY <3>1, CondemnedGives DEF RoomFor
        <3>. QED  BY <2>2, <3>2
    <2>. QED  BY <2>1, <2>2, LastCall
<1>. QED  BY <1>1, ListInvAlways, PTL DEF ListSpec, ListActsAsMap

(***************************************************************************)
(* Recording unblocks nothing but the oldest entry of a full list          *)
(* (blacklist.rs:198).                                                     *)
(***************************************************************************)
THEOREM RecordingAlwaysKeepsBlocks == ListSpec => RecordingKeepsBlocks
<1>1. ASSUME ListInv, [ListNext]_listVars
      PROVE  [last' \in Calls =>
                \A f \in Files : BlocksFile(entries, f, now) =>
                    \/ BlocksFile(entries', f, now)
                    \/ ~RoomFor(last'.file) /\ Matches(entries[1], f)]_listVars
    <2>. SUFFICES ASSUME ListNext, last' \in Calls, NEW f \in Files, BlocksFile(entries, f, now)
                  PROVE  \/ BlocksFile(entries', f, now)
                         \/ ~RoomFor(last'.file) /\ Matches(entries[1], f)
        BY <1>1
    <2>1. CASE RecordFile(last'.file, last'.reason)
        <3>1. /\ Sound(entries) /\ now \in Nat /\ last'.file \in Files /\ last'.reason \in Causes
              /\ entries' = Recorded(entries, last'.file, last'.reason, now)
            BY <1>1, <2>1, LastCall DEF RecordFile, ListInv
        <3>2. BlocksFile(entries', f, now) \/ (~RoomFor(last'.file) /\ Matches(entries[1], f))
            BY <3>1, RecordedGives DEF RoomFor
        <3>. QED  BY <2>1, <3>2
    <2>2. CASE CondemnFile(last'.file, last'.reason)
        <3>1. /\ Sound(entries) /\ now \in Nat /\ last'.file \in Files /\ last'.reason \in Causes
              /\ entries' = CondemnedList(entries, last'.file, last'.reason, now)
            BY <1>1, <2>2, LastCall DEF CondemnFile, ListInv
        <3>2. BlocksFile(entries', f, now) \/ (~RoomFor(last'.file) /\ Matches(entries[1], f))
            BY <3>1, CondemnedGives DEF RoomFor
        <3>. QED  BY <2>2, <3>2
    <2>. QED  BY <2>1, <2>2, LastCall
<1>. QED  BY <1>1, ListInvAlways, PTL DEF ListSpec, RecordingKeepsBlocks
=============================================================================
