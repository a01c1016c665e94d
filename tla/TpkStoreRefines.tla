--------------------------- MODULE TpkStoreRefines ---------------------------
(***************************************************************************)
(* TpkStore implements TpkLifecycle.                                       *)
(***************************************************************************)
EXTENDS TpkStoreHistory

Lifecycle == INSTANCE TpkLifecycle WITH
    Nothing   <- NoRev,
    committed <- settled.committed,
    trial     <- IF OnTrial(settled) THEN settled.booting ELSE NoRev,
    staged    <- settled.staged,
    launches  <- IF OnTrial(settled) THEN settled.attempts ELSE 0,
    refused   <- {r \in Releases : IsActive(visible.verdicts[r], now)},
    convicted <- Standing(visible.verdicts)

(***************************************************************************)
(* Every launch, acknowledgement, download and reset of the store, cut by  *)
(* a kill, a failed write or a loss of power anywhere, shows as one step of*)
(* the lifecycle or as none: no state.json a launch reads is half of an    *)
(* operation (store.rs:952), and a trial ends without acknowledgement only *)
(* after its layers are refused on the medium.                             *)
(***************************************************************************)
ImplementsLifecycle == Lifecycle!Spec
=============================================================================
