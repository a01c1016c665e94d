------------------------------ MODULE Verdicts ------------------------------
(***************************************************************************)
(* The blacklist of tpk-store as a map from releases to verdicts.          *)
(*                                                                         *)
(* blacklist.rs keeps a list of entries and matches an entry on the file   *)
(* hash OR on (id, version_code).  A layer the store knows carries its     *)
(* real identity, so the hash adds nothing to the pair and the list holds  *)
(* at most one entry per release: it is a map.  Module Blacklist keeps the *)
(* list, its cap and its placeholder identity, and checks that the list    *)
(* behaves as this map does (property ListActsAsMap there).                *)
(***************************************************************************)
EXTENDS Naturals

CONSTANTS
    TransientStrikes,   \* TRANSIENT_STRIKES: failures a transient reason needs
    TransientTtl        \* TRANSIENT_TTL_SECS, in ticks of the model's clock

ASSUME VerdictsAssumption ==
    /\ TransientStrikes \in Nat \ {0}
    /\ TransientTtl \in Nat \ {0}

TransientReasons == {"io", "hash", "delta", "not_acknowledged"}
PermanentReasons == {"signature", "spec", "path", "parent"}
Reasons == TransientReasons \cup PermanentReasons

(***************************************************************************)
(* A verdict.  count saturates at TransientStrikes: no code distinguishes  *)
(* higher counts.                                                          *)
(***************************************************************************)
Absent == [count |-> 0, reason |-> "none", first |-> 0]
Entries == [count : 1 .. TransientStrikes, reason : Reasons, first : Nat]
Verdict == Entries \cup {Absent}

OutOfTime(v, t) == v.reason \in TransientReasons /\ v.first + TransientTtl <= t

\* Whether the entry blocks loading now.
IsActive(v, t) ==
    /\ v # Absent
    /\ \/ v.reason \in PermanentReasons
       \/ v.count >= TransientStrikes /\ ~OutOfTime(v, t)

\* A verdict that blocks, or did until its time was out.
Stands(v) == v # Absent /\ (v.reason \in PermanentReasons \/ v.count >= TransientStrikes)

\* Every record first drops the transient entries whose time has passed.
Prune(vs, t) == [r \in DOMAIN vs |-> IF OutOfTime(vs[r], t) THEN Absent ELSE vs[r]]

\* Mutant: the latest reason wins.
StrikeLatestReason(v, reason, t) ==
    IF v = Absent
    THEN [count |-> 1, reason |-> reason, first |-> t]
    ELSE [count  |-> IF v.count < TransientStrikes THEN v.count + 1 ELSE v.count,
          reason |-> reason,
          first  |-> v.first]

\* A permanent reason overrides a transient one, never the reverse.
Strike(v, reason, t) ==
    IF v = Absent
    THEN [count |-> 1, reason |-> reason, first |-> t]
    ELSE [count  |-> IF v.count < TransientStrikes THEN v.count + 1 ELSE v.count,
          reason |-> IF reason \in PermanentReasons THEN reason ELSE v.reason,
          first  |-> v.first]

Record(vs, r, reason, t) ==
    [Prune(vs, t) EXCEPT ![r] = Strike(@, reason, t)]

\* condemn for each release of a set: a record, then straight to the limit.
Condemn(vs, rs, reason, t) ==
    IF rs = {} THEN vs
    ELSE [r \in DOMAIN vs |->
            IF r \in rs
            THEN [Strike(Prune(vs, t)[r], reason, t) EXCEPT !.count = TransientStrikes]
            ELSE Prune(vs, t)[r]]
=============================================================================
