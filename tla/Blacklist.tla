------------------------------ MODULE Blacklist ------------------------------
(***************************************************************************)
(* crates/tpk-store/src/blacklist.rs: the list of entries, as it is kept   *)
(* and persisted.  An entry is found by the hash of the file or by the     *)
(* release the file claims to be; the list is capped, the oldest entry     *)
(* leaves first.                                                           *)
(***************************************************************************)
EXTENDS Verdicts, Selections

CONSTANTS
    Files,        \* pack files, told apart by their sha256
    Identity,     \* the release each file is recorded under
    Causes,       \* reasons failures are recorded under
    MaxEntries,   \* MAX_ENTRIES
    MaxClock      \* bound on the wall clock

ASSUME BlacklistAssumption ==
    /\ DOMAIN Identity = Files
    /\ Causes \subseteq Reasons
    /\ MaxEntries \in Nat \ {0}
    /\ MaxClock \in Nat

VARIABLES
    entries,   \* Blacklist.entries
    now,       \* the wall clock, which may also be set back
    last       \* the call that was made last

listVars == <<entries, now, last>>

ListedReleases == {Identity[f] : f \in Files}
Calls == [op : {"record", "condemn"}, file : Files, reason : Causes]
NoCall == [op |-> "none"]

Matches(e, f) == e.file = f \/ e.release = Identity[f]

\* Blacklist::blocks.
BlocksFile(list, f, t) ==
    \E i \in DOMAIN list : IsActive(list[i].verdict, t) /\ Matches(list[i], f)

\* Mutant: expired entries stay.
Unpruned(list, t) == list
Pruned(list, t) == Kept(list, {i \in DOMAIN list : ~OutOfTime(list[i].verdict, t)})

\* The entry `find` returns: the first that matches.
IsFirstMatch(list, i, f) ==
    Matches(list[i], f) /\ \A j \in 1 .. (i - 1) : ~Matches(list[j], f)

\* A new entry at the end, the oldest leaving when the list is full.
Capped(list) ==
    IF Len(list) > MaxEntries THEN SubSeq(list, Len(list) - MaxEntries + 1, Len(list))
    ELSE list

\* Mutant: an entry is found by the hash alone.
RecordedByHash(list, f, reason, t) ==
    LET kept == Pruned(list, t)
    IN  IF \E i \in DOMAIN kept : kept[i].file = f
        THEN [i \in DOMAIN kept |->
                IF kept[i].file = f
                THEN [kept[i] EXCEPT !.verdict = Strike(@, reason, t)]
                ELSE kept[i]]
        ELSE Capped(Append(kept, [file    |-> f,
                                  release |-> Identity[f],
                                  verdict |-> Strike(Absent, reason, t)]))

Recorded(list, f, reason, t) ==
    LET kept == Pruned(list, t)
    IN  IF \E i \in DOMAIN kept : Matches(kept[i], f)
        THEN [i \in DOMAIN kept |->
                IF IsFirstMatch(kept, i, f)
                THEN [kept[i] EXCEPT !.verdict = Strike(@, reason, t)]
                ELSE kept[i]]
        ELSE Capped(Append(kept, [file    |-> f,
                                  release |-> Identity[f],
                                  verdict |-> Strike(Absent, reason, t)]))

CondemnedList(list, f, reason, t) ==
    LET recorded == Recorded(list, f, reason, t)
    IN  [i \in DOMAIN recorded |->
            IF IsFirstMatch(recorded, i, f)
            THEN [recorded[i] EXCEPT !.verdict.count = TransientStrikes]
            ELSE recorded[i]]

-----------------------------------------------------------------------------
RecordFile(f, reason) ==
    /\ entries' = Recorded(entries, f, reason, now)
    /\ last' = [op |-> "record", file |-> f, reason |-> reason]
    /\ UNCHANGED now

CondemnFile(f, reason) ==
    /\ entries' = CondemnedList(entries, f, reason, now)
    /\ last' = [op |-> "condemn", file |-> f, reason |-> reason]
    /\ UNCHANGED now

Clear ==
    /\ entries' = <<>>
    /\ last' = NoCall
    /\ UNCHANGED now

SetClock ==
    /\ now' \in 0 .. MaxClock
    /\ last' = NoCall
    /\ UNCHANGED entries

ListInit ==
    /\ entries = <<>>
    /\ now = 0
    /\ last = NoCall

ListNext ==
    \/ \E f \in Files, reason \in Causes : RecordFile(f, reason) \/ CondemnFile(f, reason)
    \/ Clear
    \/ SetClock

ListSpec == ListInit /\ [][ListNext]_listVars

-----------------------------------------------------------------------------
\* The verdicts in force, release by release.
View(list) ==
    [r \in ListedReleases |->
        IF \E i \in DOMAIN list : list[i].release = r
        THEN list[CHOOSE i \in DOMAIN list : list[i].release = r].verdict
        ELSE Absent]

RoomFor(f) == Len(entries) < MaxEntries \/ \E i \in DOMAIN entries : Matches(entries[i], f)

(***************************************************************************)
(* No file is judged by two entries: the strikes against a release are     *)
(* never split over entries that each stay below the limit                 *)
(* (record's find, blacklist.rs:180).                                      *)
(***************************************************************************)
OneEntryPerFile ==
    \A f \in Files :
        \A i, j \in DOMAIN entries : Matches(entries[i], f) /\ Matches(entries[j], f) => i = j

(***************************************************************************)
(* Below the cap the list is the map of module Verdicts, which TpkStore    *)
(* uses in its place: rebuilt files share the verdict of their release     *)
(* (blacklist.rs:158).                                                     *)
(***************************************************************************)
ListActsAsMap ==
    [][last' \in Calls /\ RoomFor(last'.file) =>
        View(entries') =
            IF last'.op = "record"
            THEN Record(View(entries), Identity[last'.file], last'.reason, now)
            ELSE Condemn(View(entries), {Identity[last'.file]}, last'.reason, now)]_listVars

(***************************************************************************)
(* Recording something never unblocks anything else, except by pushing the *)
(* oldest entry out of a full list (blacklist.rs:198).                     *)
(***************************************************************************)
RecordingKeepsBlocks ==
    [][last' \in Calls =>
        \A f \in Files : BlocksFile(entries, f, now) =>
            \/ BlocksFile(entries', f, now)
            \/ ~RoomFor(last'.file) /\ Matches(entries[1], f)]_listVars
=============================================================================
