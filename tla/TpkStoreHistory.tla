-------------------------- MODULE TpkStoreHistory ---------------------------
(***************************************************************************)
(* TpkStore with history variables: what the store has told its callers    *)
(* and what launches have served, across restarts.  The variables only     *)
(* observe; every step is a step of TpkStore.                              *)
(***************************************************************************)
EXTENDS TpkStore

VARIABLES
    acked,        \* revisions that may be committed after a successful notify_ready
    promised,     \* floors raised by operations that returned Ok
    barred,       \* releases whose permanent verdict was recorded
    condemned,    \* releases whose trial was rolled back and dropped from disk
    trial,        \* revision the last completed launch served on trial
    launches,     \* completed launches that served it
    trials,       \* trials since the last acknowledgement or reset
    settled       \* last state.json a write reported durable or a launch read

history == <<acked, promised, condemned, barred, trial, launches, trials, settled>>
allVars == <<vars, history>>

Returning(op) == call.op = op /\ call.step = "publish" /\ phase' # "down" /\ call' # call
Writing(op) == call.op = op /\ call.step = "state" /\ visible'.state = call.state
ResetRequested == call.op = "reset" /\ call' # call

HistoryInit ==
    /\ acked = {}
    /\ promised = [floor |-> NewState.floor, watermark |-> 0, epoch |-> 1]
    /\ condemned = {}
    /\ barred = {}
    /\ trial = NoRev
    /\ launches = 0
    /\ trials = 0
    /\ settled = NewState

\* What notify_ready left committed when it last returned Ok, and what a later
\* acknowledgement wrote without returning yet.  One that found no trial to
\* acknowledge wrote nothing, and reports what the launch had read: that counts
\* only where a launch reads what has been flushed.
RecordAcked ==
    acked' = IF ResetRequested THEN {}
             ELSE IF Returning("commit") /\ (OnTrial(state) \/ FlushedBeforeOpen)
             THEN {call.state.committed} \ {NoRev}
             ELSE IF Writing("commit") /\ acked # {} THEN acked \cup {call.state.committed}
             ELSE acked

RecordPromised ==
    promised' =
        IF Returning("commit") \/ Returning("seed")
        THEN [promised EXCEPT !.floor =
                 Raise(@, {Release(p) : p \in Layers(call.state.committed)})]
        ELSE IF Returning("observe")
        THEN [promised EXCEPT !.watermark = Larger(@, call.state.watermark),
                              !.epoch = Larger(@, call.state.epoch)]
        ELSE promised

RecordCondemned ==
    condemned' =
        IF ResetRequested /\ call.verdicts # verdicts THEN {}
        ELSE IF Writing("boot") THEN condemned \cup Condemned(state) ELSE condemned

AckWritten == Writing("commit") /\ OnTrial(state)

RecordBarred ==
    barred' =
        IF ResetRequested /\ call.verdicts # verdicts THEN {}
        ELSE IF Returning("record")
        THEN barred \cup {r \in Releases : call.verdicts[r].reason \in PermanentReasons}
        ELSE barred

\* Completed launches; a rollback, an acknowledgement or a reset ends the count.
RecordTrial ==
    \/ /\ Returning("boot")
       /\ OnTrial(call.state)
       /\ trial' = call.state.booting
       /\ launches' = IF trial = trial' THEN launches + 1 ELSE 1
       /\ trials' = IF trial = trial' THEN trials ELSE trials + 1
    \/ /\ Returning("boot")
       /\ ~OnTrial(call.state)
       /\ trial' = NoRev
       /\ launches' = 0
       /\ trials' = trials
    \/ /\ AckWritten \/ ResetRequested
       /\ trial' = NoRev
       /\ launches' = 0
       /\ trials' = 0
    \/ /\ ~Returning("boot") /\ ~AckWritten /\ ~ResetRequested
       /\ UNCHANGED <<trial, launches, trials>>

\* What a failed write left visible counts only once a launch has read it.
RecordSettled ==
    settled' = IF phase = "down" /\ phase' = "opened" THEN state'
               ELSE IF /\ call.step = "state" /\ call'.step # "state"
                       /\ phase' # "down" /\ ~statePending'
               THEN call.state
               ELSE settled

HistoryNext ==
    /\ Next
    /\ RecordAcked
    /\ RecordPromised
    /\ RecordCondemned
    /\ RecordBarred
    /\ RecordTrial
    /\ RecordSettled

HistorySpec == Init /\ HistoryInit /\ [][HistoryNext]_allVars

-----------------------------------------------------------------------------
(***************************************************************************)
(* An acknowledgement that returned Ok is never lost: what any state.json  *)
(* names as committed is the revision acknowledged last, or one that was   *)
(* acknowledged after it and whose acknowledgement was cut short.  Seeding,*)
(* a rollback, a failed write or a crash never put anything else there     *)
(* (commit_booting, store.rs:366).  Of an acknowledgement that found       *)
(* nothing on trial this is said only under FlushedBeforeOpen: without it  *)
(* that call answers for a rename it never flushed, although "the state is *)
(* flushed before this returns" (store.rs:359, spec/tpk-v1.md:753).        *)
(***************************************************************************)
AckSurvives ==
    acked # {} => {visible.state.committed, durable.state.committed} \subseteq acked

(***************************************************************************)
(* The floors an operation promised by returning Ok hold in memory and on  *)
(* the medium for ever after: version floors of committed revisions,       *)
(* watermark and key epoch of accepted channels.  A reset keeps them, and  *)
(* no failed write or crash takes them back (store.rs:495).  Holds under   *)
(* FlushedBeforeOpen: without it a channel or an acknowledgement that      *)
(* changes nothing in a state read before it was flushed writes nothing,   *)
(* returns Ok, and a loss of power takes back what it found there.         *)
(***************************************************************************)
AtLeastPromised(s) ==
    /\ \A i \in Ids : s.floor[i] >= promised.floor[i]
    /\ s.watermark >= promised.watermark
    /\ s.epoch >= promised.epoch

FloorsSurvive ==
    /\ AtLeastPromised(durable.state)
    /\ AtLeastPromised(visible.state)
    /\ phase # "down" => AtLeastPromised(state)

(***************************************************************************)
(* Within one TTL, a release that was rolled back is never loaded again,   *)
(* even when the launch that rolled it back was cut between its two writes *)
(* (boot, transaction_with_order, store.rs:967).                           *)
(***************************************************************************)
RolledBackNeverLoads ==
    now < TransientTtl => \A p \in runtime : Release(p) \notin condemned

(***************************************************************************)
(* A release with a permanent verdict is never loaded again unless a reset *)
(* was asked to clear the blacklist: the verdict outlives restarts, failed *)
(* writes and the states that name the layer (Entry::is_active,            *)
(* blacklist.rs:98).                                                       *)
(***************************************************************************)
BarredNeverLoads == \A p \in runtime : Release(p) \notin barred

(***************************************************************************)
(* A revision nobody acknowledges is served by at most MaxBootAttempts - 1 *)
(* launches: no crash or failed write makes the store lose count.  With    *)
(* MAX_BOOT_ATTEMPTS at three that is two, as boot (store.rs:290) and      *)
(* spec/tpk-v1.md:560 count them; the comment at store.rs:21 and           *)
(* docs/architecture.md:95 and :152 speak of three launches.               *)
(***************************************************************************)
TrialBudget == launches <= MaxBootAttempts - 1

(***************************************************************************)
(* A device whose frontend acknowledges nothing stops trying new content:  *)
(* one trial per allowed rollback, one staged before the last of them, and *)
(* one that a late seed can put aside without a rollback (store.rs:228).   *)
(***************************************************************************)
UpdatingStops ==
    trials <= MaxConsecutiveRollbacks + 1 + (IF Seeds = {} THEN 0 ELSE 1)

(***************************************************************************)
(* Acknowledging a trial never moves a pack id it brings to below a        *)
(* version that was acknowledged before, unless what it moves to is        *)
(* bundled with the app (store.rs:449).  A layer that was committed        *)
(* already is inherited: it may stay below the floor, when the blacklist   *)
(* took away what lay on top of it.  The floor is compared when a revision *)
(* is staged, and within one TTL two things raise it between that and the  *)
(* acknowledgement: a bundled pack seeded late, and the acknowledgement of *)
(* a trial whose newer release did not load.                               *)
(***************************************************************************)
Offers(rev, i, ver) == \E q \in rev : Meta[q].id = i /\ Meta[q].ver >= ver
Convicted(vs, i, ver) == \E r \in Releases : r[1] = i /\ r[2] >= ver /\ Stands(vs[r])

\* What a trial adds to the committed revision, bundled packs apart.
Brought(s) == s.booting \ (Layers(s.committed) \cup Seeds)

NoDowngrade ==
    [][Returning("commit") /\ OnTrial(state) /\ now < TransientTtl =>
        \A i \in {Meta[p].id : p \in Brought(state)} :
            \/ Offers(state.booting \cup Seeds, i, promised.floor[i])
            \/ Convicted(verdicts, i, promised.floor[i])]_allVars

(***************************************************************************)
(* All that a channel brings is bound by the floor: once a blacklisted     *)
(* layer has left the stack "an older signed pack for that id must still   *)
(* be refused" (spec/json-schema/store-state.schema.json:43).              *)
(***************************************************************************)
FloorBindsChannels ==
    [][Returning("commit") /\ OnTrial(state) =>
        \A i \in {Meta[p].id : p \in Brought(state)} :
            Offers(state.booting, i, promised.floor[i])]_allVars
=============================================================================
