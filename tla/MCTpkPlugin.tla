---------------------------- MODULE MCTpkPlugin -----------------------------
(***************************************************************************)
(* Instances of TpkPlugin for TLC.                                         *)
(***************************************************************************)
EXTENDS TpkPlugin

\* Two bases, a chain of patches on the first and a branch that ends at once,
\* and a pack of another id.
CONSTANTS b1, p2, p3, b4, p5, d1

Core(kind, ver, parent) == [id |-> "core", kind |-> kind, ver |-> ver, parent |-> parent, epoch |-> 1]

MCMeta ==
    [p \in Packs |->
        CASE p = b1 -> Core("base", 1, NoPack)
          [] p = p2 -> Core("patch", 2, b1)
          [] p = p3 -> Core("patch", 3, b1)
          [] p = b4 -> Core("base", 4, NoPack)
          [] p = p5 -> Core("patch", 5, p3)
          [] p = d1 -> [Core("dlc", 1, NoPack) EXCEPT !.id = "extra"]]

\* What a publisher may list: a base and its patches, the newer base, both,
\* and lists from which packs are already missing.
MCChannels ==
    {{b1}, {b1, p2}, {b1, p3, p5}, {b1, p2, p3, p5}, {b1, p3, b4}, {b1, p3, b4, p5},
     {b4, p5}, {p3, p5}, {p5}}
=============================================================================
