----------------------------- MODULE MCTpkStore -----------------------------
(***************************************************************************)
(* Instances of TpkStore for TLC.                                          *)
(***************************************************************************)
EXTENDS TpkStore

\* The packs of the instances: three bases of one id, a patch on the first of
\* them, and a pack of another id.
CONSTANTS b1, p2, b3, b4, d1

Core(kind, ver, parent, epoch) ==
    [id |-> "core", kind |-> kind, ver |-> ver, parent |-> parent, epoch |-> epoch]

MCMeta ==
    [p \in Packs |->
        CASE p = b1 -> Core("base", 1, NoPack, 1)
          [] p = p2 -> Core("patch", 2, b1, 1)
          [] p = b3 -> Core("base", 3, NoPack, 2)
          [] p = b4 -> Core("base", 4, NoPack, 2)
          [] p = d1 -> [Core("dlc", 1, NoPack, 1) EXCEPT !.id = "extra"]]

\* Every pack offered on its own; or a patch, and a pack that comes on top; or
\* two bases, each replacing what came before it; or the patch of a seed alone.
MCSingles == {{p} : p \in Packs}
MCExtensions == {{p2}, {d1}}
MCBases == {{b3}, {b4}}
MCPatch == {{p2}}
=============================================================================
