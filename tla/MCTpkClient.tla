----------------------------- MODULE MCTpkClient -----------------------------
(***************************************************************************)
(* Instances of TpkClient for TLC.                                         *)
(***************************************************************************)
EXTENDS TpkClient

\* A pack whose URL may also hold a file of the same size, a shorter and a
\* longer one, and a small pack that is always there.
CONSTANTS large, small

File(name, length) == [i \in 1 .. length |-> <<name, i>>]

MCContent == [p \in Packs |-> IF p = large THEN File("large", 2) ELSE File("small", 1)]
MCSites ==
    [p \in Packs |-> IF p = large
                     THEN {File("large", 2), File("other", 2), File("short", 1), File("long", 3)}
                     ELSE {File("small", 1)}]
MCBlocks == UNION {{file[i] : i \in DOMAIN file} : file \in MCSites[large] \cup MCSites[small]}

\* Two keys; two manifests of the same minute, and one after the rotation.
MCTrust == {[key |-> "old", epoch |-> 1], [key |-> "new", epoch |-> 2]}
Doc(channel, watermark, epoch, signer, packs) ==
    [channel |-> channel, watermark |-> watermark, epoch |-> epoch, signer |-> signer, packs |-> packs]
MCDocs == {Doc("stable", 1, 1, "old", {small}), Doc("stable", 2, 2, "new", {small, large})}

\* Another channel's manifest, signed with the same key, and one whose key
\* is not of the epoch it declares.
MCMistakes == {Doc("beta", 3, 1, "old", {}), Doc("stable", 3, 2, "old", {})}
=============================================================================
