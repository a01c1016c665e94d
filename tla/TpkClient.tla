------------------------------ MODULE TpkClient ------------------------------
(***************************************************************************)
(* A device that follows a channel: TpkChannel's checks and TpkDownload's  *)
(* downloads under the one operation lock of                               *)
(* crates/tauri-plugin-tpk/src/state.rs.  A check makes the plan that a    *)
(* download fetches; what the planner selects is TpkPlan's subject, here   *)
(* it asks for the packs that were not staged yet.                         *)
(***************************************************************************)
EXTENDS TpkChannel, TpkDownload, SequencesExt

ASSUME ClientAssumption ==
    \A d \in Manifests : d.packs \subseteq Packs /\ IsFiniteSet(d.packs)

clientVars == <<channelVars, downloadVars>>

\* Mutant: a check does not wait for a download.
LockFreeOfChecks == call.phase = "idle"
LockFree == call.phase = "idle" /\ job.phase = "idle"

\* What a plan for a manifest fetches, in the planner's order.
Missing(d) == d.packs \ staged

-----------------------------------------------------------------------------
\* check, or auto_update.
ClientCheck(update) ==
    /\ LockFree
    /\ BeginCheck(update)
    /\ UNCHANGED downloadVars

\* What is at the URL, or what some cache still has.
ClientFetch ==
    /\ \/ body # NoDoc /\ FetchBody(body) /\ Counted(0)
       \/ \E d \in released \ {body} : FetchBody(d) /\ Counted(1)
       \/ sig # NoDoc /\ FetchSignature(sig) /\ Counted(0)
       \/ \E d \in released : Signature(d) # sig /\ FetchSignature(Signature(d)) /\ Counted(1)
    /\ UNCHANGED <<parts, tpks, plan, staged, site, job, torn>>

ClientAccept ==
    /\ Accept
    /\ plan' \in SetToSeqs(Missing(call.body))
    /\ UNCHANGED <<parts, tpks, staged, site, job, torn, faults>>

ClientReject ==
    /\ Reject
    /\ UNCHANGED downloadVars

\* Nothing at the URL is no fault of anybody.
ClientFail ==
    /\ Fail
    /\ Counted(IF newest = NoDoc THEN 0 ELSE 1)
    /\ UNCHANGED <<parts, tpks, plan, staged, site, job, torn>>

\* download, or the second half of auto_update.
ClientDownload ==
    /\ call.phase \in {"idle", "go"}
    /\ BeginDownload
    /\ call' = NoCall
    /\ UNCHANGED <<publisherVars, floors, pending>>

NothingToDo ==
    /\ call.phase = "go"
    /\ plan = <<>>
    /\ call' = NoCall
    /\ UNCHANGED <<publisherVars, floors, pending, downloadVars>>

ClientStep ==
    /\ Fetch
    /\ UNCHANGED channelVars

ClientTrouble ==
    /\ Surroundings
    /\ UNCHANGED channelVars

ClientCrash ==
    /\ Crash
    /\ Forget

\* reset forgets the content and the plan, not the floors.
ClientReset ==
    /\ LockFree
    /\ staged # {}
    /\ staged' = {}
    /\ plan' = <<>>
    /\ pending' = NoDoc
    /\ Counted(1)
    /\ UNCHANGED <<publisherVars, floors, call, parts, tpks, site, job, torn>>

PublisherStep ==
    /\ \/ \E d \in Docs : Release(d)
       \/ UploadBody \/ UploadSignature
    /\ UNCHANGED downloadVars

PublisherMistake ==
    /\ \E d \in Mistakes : Misplace(d)
    /\ Counted(1)
    /\ UNCHANGED <<parts, tpks, plan, staged, site, job, torn>>

-----------------------------------------------------------------------------
ClientInit == ChannelInit /\ DownloadInit

ClientNext ==
    \/ \E update \in BOOLEAN : ClientCheck(update)
    \/ ClientFetch \/ ClientAccept \/ ClientReject \/ ClientFail
    \/ ClientDownload \/ NothingToDo \/ ClientStep \/ ClientTrouble
    \/ ClientCrash \/ ClientReset
    \/ PublisherStep \/ PublisherMistake

\* The app is launched again and again, what runs goes on, and what was
\* released is uploaded.  Only the launch competes with other commands.
ClientFairness ==
    /\ SF_clientVars(ClientCheck(TRUE))
    /\ WF_clientVars(ClientFetch \/ ClientAccept \/ ClientReject)
    /\ WF_clientVars(call.phase = "go" /\ (ClientDownload \/ NothingToDo))
    /\ WF_clientVars(ClientStep)
    /\ \A p \in Packs : WF_clientVars(Publish(p) /\ UNCHANGED channelVars)
    /\ WF_clientVars(UploadBody /\ UNCHANGED downloadVars)
    /\ WF_clientVars(UploadSignature /\ UNCHANGED downloadVars)

ClientSpec == ClientInit /\ [][ClientNext]_clientVars /\ ClientFairness

-----------------------------------------------------------------------------
\* Every variable holds what it can hold, and what a download or a check is at
\* is there.
ClientTypeOK == ChannelTypeOK /\ DownloadTypeOK

(***************************************************************************)
(* Updates arrive: once the publisher stops and things stop going wrong,   *)
(* the packs of the newest manifest are staged and stay so, whatever the   *)
(* cache, the floors and the two URLs went through before                  *)
(* (download.rs:46 and 78, state.rs:200).                                  *)
(***************************************************************************)
UpdatesArrive ==
    <>[](newest # NoDoc => newest.packs \subseteq staged)
=============================================================================
