----------------------------- MODULE MCTpkOverlay -----------------------------
(***************************************************************************)
(* Instances of TpkOverlay for TLC.                                        *)
(***************************************************************************)
EXTENDS TpkOverlay

\* A script with two large contents, and a page that never changes; routes
\* that mean either.
CONSTANTS script, page, s1, s2, g, e, route

MCPathOrder == <<page, script>>
MCSize == [c \in Contents |-> IF c = s1 THEN 3 ELSE IF c = s2 THEN 2 ELSE 1]
MCPatchable == {<<s1, s2>>, <<s2, s1>>}
MCDists == [Paths -> {NoFile, s1, s2, g}] \cap {t \in Trees : t[page] = g /\ t[script] # g}
MCEmbedded == [p \in Paths |-> IF p = script THEN e ELSE NoFile]
MCCandidates == [k \in Keys |-> IF k = route THEN <<script, page>> ELSE <<k>>]
===============================================================================
