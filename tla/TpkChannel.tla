----------------------------- MODULE TpkChannel ------------------------------
(***************************************************************************)
(* Fetching and verifying the manifest of a channel:                       *)
(* crates/tpk-client/src/source.rs and lib.rs, the keys of                 *)
(* crates/tpk-format/src/sign.rs, and what check_locked makes of it.  The  *)
(* manifest and its signature are two files, fetched by two requests while *)
(* the publisher replaces them one after the other and caches serve older  *)
(* ones.                                                                   *)
(***************************************************************************)
EXTENDS Integers

CONSTANTS
    Channel,     \* the configured channel
    Docs,        \* the manifests published for it
    Mistakes,    \* manifests that get to its URL although they are not
    NoDoc,       \* no manifest
    Trust        \* the keys compiled into the shell, with their epochs

Manifests == Docs \cup Mistakes

ASSUME ChannelAssumption ==
    /\ \A d \in Manifests : d.watermark \in Nat /\ d.epoch \in Nat \ {0}
    /\ \A d \in Docs : d.channel = Channel /\ [key |-> d.signer, epoch |-> d.epoch] \in Trust
    /\ \A d \in Mistakes : ~(d.channel = Channel /\ [key |-> d.signer, epoch |-> d.epoch] \in Trust)
    /\ \A k \in Trust : k = [key |-> k.key, epoch |-> k.epoch]
    /\ NoDoc \notin Manifests

VARIABLES
    newest,     \* what the publisher published last
    released,   \* all it has published
    body, sig,  \* what is found at the two URLs
    floors,     \* StoreState.last_watermark of the channel, and min_key_epoch
    call,       \* the check that runs
    pending     \* the manifest TpkState.pending holds

publisherVars == <<newest, released, body, sig>>
channelVars == <<publisherVars, floors, call, pending>>

Signature(d) == [doc |-> d, key |-> d.signer]
NoCall == [phase |-> "idle", update |-> FALSE, watermark |-> 0, epoch |-> 0, body |-> NoDoc, sig |-> NoDoc]
CallPhases == {"idle", "body", "signature", "verify", "go"}

\* Mutant: any trusted key will do, whatever epoch the manifest declares.
AnyKeyVerifies(d, s) == \E k \in Trust : s = [doc |-> d, key |-> k.key]

\* TrustStore::verify: only keys of the declared epoch are tried.
Verifies(d, s) == \E k \in Trust : k.epoch = d.epoch /\ s = [doc |-> d, key |-> k.key]

\* verify_channel_for, in the order in which it reports.
Accepts(d, s) ==
    /\ d.epoch >= call.epoch
    /\ Verifies(d, s)
    /\ d.channel = Channel
    /\ d.watermark >= call.watermark

Higher(a, b) == IF a > b THEN a ELSE b

\* Mutant: the key epoch is not kept.
ObservedWatermark(d) == [floors EXCEPT !.watermark = Higher(@, d.watermark)]
Observed(d) == [watermark |-> Higher(floors.watermark, d.watermark),
                epoch |-> Higher(floors.epoch, d.epoch)]

-----------------------------------------------------------------------------
\* The floors are read before the requests.
BeginCheck(update) ==
    /\ call.phase = "idle"
    /\ call' = [NoCall EXCEPT !.phase = "body", !.update = update,
                              !.watermark = floors.watermark, !.epoch = floors.epoch]
    /\ UNCHANGED <<publisherVars, floors, pending>>

FetchBody(d) ==
    /\ call.phase = "body"
    /\ call' = [call EXCEPT !.phase = "signature", !.body = d]
    /\ UNCHANGED <<publisherVars, floors, pending>>

FetchSignature(s) ==
    /\ call.phase = "signature"
    /\ call' = [call EXCEPT !.phase = "verify", !.sig = s]
    /\ UNCHANGED <<publisherVars, floors, pending>>

\* Both floors are written before the plan is made.
Accept ==
    /\ call.phase = "verify"
    /\ Accepts(call.body, call.sig)
    /\ floors' = Observed(call.body)
    /\ pending' = call.body
    /\ call' = IF call.update THEN [NoCall EXCEPT !.phase = "go"] ELSE NoCall
    /\ UNCHANGED publisherVars

Reject ==
    /\ call.phase = "verify"
    /\ ~Accepts(call.body, call.sig)
    /\ call' = NoCall
    /\ UNCHANGED <<publisherVars, floors, pending>>

\* A request fails or brings too much, or the floors cannot be written.
Fail ==
    /\ call.phase \in {"body", "signature", "verify"}
    /\ call' = NoCall
    /\ UNCHANGED <<publisherVars, floors, pending>>

\* The process dies.
Forget ==
    /\ call' = NoCall
    /\ pending' = NoDoc
    /\ UNCHANGED <<publisherVars, floors>>

-----------------------------------------------------------------------------
\* tpk channel, and the upload of its two files in any order.
Release(d) ==
    /\ d \notin released
    /\ newest # NoDoc => d.watermark >= newest.watermark /\ d.epoch >= newest.epoch
    /\ newest' = d
    /\ released' = released \cup {d}
    /\ UNCHANGED <<body, sig, floors, call, pending>>

UploadBody ==
    /\ body # newest
    /\ body' = newest
    /\ UNCHANGED <<newest, released, sig, floors, call, pending>>

UploadSignature ==
    /\ newest # NoDoc
    /\ sig # Signature(newest)
    /\ sig' = Signature(newest)
    /\ UNCHANGED <<newest, released, body, floors, call, pending>>

\* Another channel's manifest, or one of an epoch its key is not of.
Misplace(d) ==
    /\ body' = d
    /\ sig' = Signature(d)
    /\ UNCHANGED <<newest, released, floors, call, pending>>

ChannelInit ==
    /\ newest = NoDoc
    /\ released = {}
    /\ body = NoDoc
    /\ sig = NoDoc
    /\ floors = [watermark |-> 0, epoch |-> 1]
    /\ call = NoCall
    /\ pending = NoDoc

-----------------------------------------------------------------------------
\* Every variable holds what it can hold.
ChannelTypeOK ==
    /\ newest \in Docs \cup {NoDoc}
    /\ released \subseteq Docs
    /\ body \in Manifests \cup {NoDoc}
    /\ sig \in {Signature(d) : d \in Manifests} \cup {NoDoc}
    /\ floors \in [watermark : Nat, epoch : Nat]
    /\ call \in [phase : CallPhases, update : BOOLEAN, watermark : Nat, epoch : Nat,
                body : Manifests \cup {NoDoc}, sig : {Signature(d) : d \in Manifests} \cup {NoDoc}]
    /\ call.phase \in {"signature", "verify"} => call.body \in Manifests
    /\ call.phase = "verify" => call.sig \in {Signature(d) : d \in Manifests}
    /\ pending \in Manifests \cup {NoDoc}

(***************************************************************************)
(* No device is locked out: whatever gets to the URL by mistake, in        *)
(* whatever mixture of two files, the floors never pass what the publisher *)
(* has published for the channel, so that its newest manifest is still     *)
(* accepted (lib.rs:83, sign.rs:88).                                       *)
(***************************************************************************)
NeverLockedOut ==
    IF newest = NoDoc THEN floors = [watermark |-> 0, epoch |-> 1]
    ELSE floors.watermark <= newest.watermark /\ floors.epoch <= newest.epoch

(***************************************************************************)
(* A plan is made from a manifest as it was published, never from the body *)
(* of one and the signature of another, and the floors that keep the       *)
(* device from going back are on record before it is used, also when a     *)
(* crash or a failed write comes in between (state.rs:162 and 169).        *)
(***************************************************************************)
PendingIsPublished ==
    pending # NoDoc =>
        /\ pending \in released
        /\ pending.watermark <= floors.watermark
        /\ pending.epoch <= floors.epoch
=============================================================================
