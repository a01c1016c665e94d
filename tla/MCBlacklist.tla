----------------------------- MODULE MCBlacklist -----------------------------
(***************************************************************************)
(* Instances of Blacklist for TLC.                                         *)
(***************************************************************************)
EXTENDS Blacklist

\* Two builds of one release, and two other releases.
CONSTANTS first, rebuilt, other, third

MCIdentity ==
    [f \in Files |-> CASE f \in {first, rebuilt} -> <<"core", 1>>
                       [] f = other -> <<"core", 2>>
                       [] f = third -> <<"extra", 1>>]
=============================================================================
